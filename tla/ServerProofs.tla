----------------------------- MODULE ServerProofs -----------------------------
(***************************************************************************)
(* Proofs about the server and its clients, for any number of clients,     *)
(* requests and faults.                                                    *)
(***************************************************************************)
EXTENDS Server, SequenceTheorems, TLAPS

(* An answer before its end: typed, without the end in it, and without a   *)
(* transaction line of the server's own.                                   *)
Plain(lines) ==
    \A i \in 1..Len(lines) :
        lines[i] # End /\ (lines[i].line = "TRANSACTION" => lines[i].row)

LEMMA LinesTyped ==
  /\ Text \in AnswerLine /\ End \in AnswerLine
  /\ Text # End /\ Text.line # "TRANSACTION" /\ End.line # "TRANSACTION" /\ ~End.row
  /\ \A v \in Nat : \A word \in {"BEGIN", "COMMIT", "ROLLBACK"} :
       Transaction(v, word) \in AnswerLine /\ Transaction(v, word) # End
  /\ \A word \in {None, "BEGIN", "COMMIT", "ROLLBACK"} :
       RowLine(word) \in AnswerLine /\ RowLine(word) # End /\ RowLine(word).row
BY DEF Text, End, AnswerLine, Transaction, RowLine

LEMMA ToStringPlain ==
  ASSUME NEW request
  PROVE  ToString(request) \in Seq(AnswerLine) /\ Plain(ToString(request))
<1>1. << Text >> \in Seq(AnswerLine) /\ Plain(<< Text >>)
  BY LinesTyped DEF Plain
<1>2. ASSUME NEW word \in {None, "BEGIN", "COMMIT", "ROLLBACK"}
      PROVE  /\ << Text, RowLine(word), Text >> \in Seq(AnswerLine)
             /\ Plain(<< Text, RowLine(word), Text >>)
  <2>. DEFINE r == RowLine(word)
              s == << Text, r, Text >>
  <2>1. r \in AnswerLine /\ r # End /\ r.row
    BY LinesTyped
  <2>. HIDE DEF r
  <2>2. s \in Seq(AnswerLine)
    BY <2>1, LinesTyped
  <2>3. Len(s) = 3 /\ s[1] = Text /\ s[2] = r /\ s[3] = Text
    OBVIOUS
  <2>. HIDE DEF s
  <2>4. Plain(s)
    BY <2>1, <2>3, LinesTyped DEF Plain
  <2>. QED BY <2>2, <2>4 DEF r, s
<1>. QED BY <1>1, <1>2 DEF ToString

-----------------------------------------------------------------------------
(* The inductive invariant                                                 *)

Live(c) == up[c] /\ state[c] \in {"prompt", "waiting"}

NoEndBefore(s, n) == \A i \in 1..n : s[i] # End

Asked(c) == Len(toServer[c]) = 1 /\ toClient[c] = << >> /\ task[c] = "reading"
Answering(c) ==
    toServer[c] = << >> /\ task[c] = "ending" /\ NoEndBefore(toClient[c], Len(toClient[c]))
Answered(c) ==
    /\ toServer[c] = << >> /\ task[c] = "reading"
    /\ Len(toClient[c]) > 0 /\ toClient[c][Len(toClient[c])] = End
    /\ NoEndBefore(toClient[c], Len(toClient[c]) - 1)

\* Where a request and its answer are while the connection holds.
Phase(c) ==
    /\ state[c] = "prompt" => toServer[c] = << >> /\ toClient[c] = << >> /\ task[c] = "reading"
    /\ state[c] = "waiting" => Asked(c) \/ Answering(c) \/ Answered(c)

\* A transaction line of the server's own, and what the client makes of it.
Genuine(l) == l.line = "TRANSACTION" /\ ~l.row
After(l) == IF l.word \in {"COMMIT", "ROLLBACK"} THEN None ELSE l.version

\* What the client knows, or is about to read, is the transaction there is.
Knows(c) ==
    /\ \A i \in 1..Len(toClient[c]) :
         Genuine(toClient[c][i]) =>
            toClient[c][i].word # None /\ After(toClient[c][i]) = txn[c]
    /\ (\A i \in 1..Len(toClient[c]) : ~Genuine(toClient[c][i])) => txn_version[c] = txn[c]

ClientInv(c) ==
    /\ Live(c) => Phase(c)
    /\ Live(c) /\ "misled" \notin mark[c] => Knows(c)

IInv == TypeOK /\ SessionsApart /\ \A c \in Client : ClientInv(c)

\* The variables of a client and its connection.
Unmoved(c) ==
    /\ state'[c] = state[c] /\ txn_version'[c] = txn_version[c] /\ up'[c] = up[c]
    /\ toServer'[c] = toServer[c] /\ toClient'[c] = toClient[c]
    /\ task'[c] = task[c] /\ txn'[c] = txn[c] /\ mark'[c] = mark[c]

LEMMA UnmovedClient ==
  ASSUME NEW c \in Client, ClientInv(c), Unmoved(c)
  PROVE  ClientInv(c)'
BY DEF ClientInv, Unmoved, Live, Phase, Asked, Answering, Answered, NoEndBefore, Knows,
       Genuine, After

-----------------------------------------------------------------------------
(* Types                                                                   *)

LEMMA InitTyped == Init => TypeOK
BY ServerAssumption DEF Init, TypeOK

Env(c) ==
    \/ Read(c) \/ (\E line \in Requests[c] : Type(c, line))
    \/ SendFails(c) \/ Quit(c) \/ Kill(c) \/ Break(c)

LEMMA MarkedTyped ==
  ASSUME TypeOK, NEW c \in Client, NEW m \in {"quit", "broken", "misled", "failed"}, Marked(c, m)
  PROVE  mark' \in [Client -> SUBSET Mark]
<1>1. m \in Mark
  BY DEF Mark
<1>2. mark[c] \cup {m} \in SUBSET Mark
  BY <1>1 DEF TypeOK
<1>. QED BY <1>2 DEF TypeOK, Marked

LEMMA DropTyped ==
  ASSUME TypeOK, NEW c \in Client, DropClient(c) \/ DropNothing(c)
  PROVE  /\ state' \in [Client -> {"prompt", "waiting", "leaving", "gone"}]
         /\ up' \in [Client -> BOOLEAN]
         /\ toServer' \in [Client -> Seq(Line)]
<1>1. "ROLLBACK" \in Line
  BY DEF Line
<1>2. Append(toServer[c], "ROLLBACK") \in Seq(Line)
  BY <1>1 DEF TypeOK
<1>3. CASE DropClient(c) /\ txn_version[c] # None /\ up[c]
  BY <1>2, <1>3 DEF DropClient, TypeOK
<1>4. CASE DropNothing(c) \/ (DropClient(c) /\ ~(txn_version[c] # None /\ up[c]))
  BY <1>4 DEF DropClient, DropNothing, TypeOK
<1>. QED BY <1>3, <1>4

LEMMA EnvTyped ==
  ASSUME TypeOK, NEW c \in Client, Env(c)
  PROVE  TypeOK'
<1>. USE ServerAssumption DEF TypeOK, clientVars, engineVars
<1>1. ASSUME NEW line \in Requests[c], Type(c, line) PROVE TypeOK'
  <2>1. line \in Line
    OBVIOUS
  <2>. QED BY <1>1, <2>1 DEF Type
<1>2. CASE SendFails(c) BY <1>2 DEF SendFails
<1>4. CASE Quit(c)
  <2>1. mark' \in [Client -> SUBSET Mark]
    BY <1>4, MarkedTyped DEF Quit
  <2>2. /\ state' \in [Client -> {"prompt", "waiting", "leaving", "gone"}]
        /\ up' \in [Client -> BOOLEAN]
        /\ toServer' \in [Client -> Seq(Line)]
    BY <1>4, DropTyped DEF Quit
  <2>3. UNCHANGED << txn_version, toClient, task, txn, active, next_version, typed, faults >>
    BY <1>4 DEF Quit
  <2>. QED BY <2>1, <2>2, <2>3
<1>5. CASE Kill(c)
  <2>1. mark' \in [Client -> SUBSET Mark]
    BY <1>5, MarkedTyped DEF Kill
  <2>2. state' \in [Client -> {"prompt", "waiting", "leaving", "gone"}] /\ up' \in [Client -> BOOLEAN]
    BY <1>5 DEF Kill
  <2>3. faults' \in Nat
    BY <1>5 DEF Kill, Fault
  <2>4. UNCHANGED << txn_version, toServer, toClient, task, txn, active, next_version, typed >>
    BY <1>5 DEF Kill
  <2>. QED BY <2>1, <2>2, <2>3, <2>4
<1>6. CASE Break(c)
  <2>1. mark' \in [Client -> SUBSET Mark]
    BY <1>6, MarkedTyped DEF Break
  <2>2. /\ up' \in [Client -> BOOLEAN] /\ faults' \in Nat
        /\ toServer' \in [Client -> Seq(Line)] /\ toClient' \in [Client -> Seq(AnswerLine)]
    <3>1. /\ up' = [up EXCEPT ![c] = FALSE] /\ faults' = faults + 1
          /\ toServer' = [toServer EXCEPT ![c] = toServer[c]] \/ toServer' = [toServer EXCEPT ![c] = << >>]
          /\ toClient' = [toClient EXCEPT ![c] = toClient[c]] \/ toClient' = [toClient EXCEPT ![c] = << >>]
      BY <1>6 DEF Break, Fault
    <3>0. << >> \in Seq(Line) /\ << >> \in Seq(AnswerLine)
      BY EmptySeq
    <3>2. toServer' \in [Client -> Seq(Line)]
      BY ZenonT(30), <3>1, <3>0
    <3>3. toClient' \in [Client -> Seq(AnswerLine)]
      BY <3>1, <3>0
    <3>. QED BY <3>1, <3>2, <3>3
  <2>3. UNCHANGED << state, txn_version, task, txn, active, next_version, typed >>
    BY <1>6 DEF Break
  <2>. QED BY <2>1, <2>2, <2>3
<1>7. CASE ReadEnd(c)
  <2>1. Tail(toClient[c]) \in Seq(AnswerLine)
    BY <1>7, HeadTailProperties DEF ReadEnd
  <2>. QED BY <1>7, <2>1 DEF ReadEnd
<1>8. CASE ReadLine(c)
  <2>1. Tail(toClient[c]) \in Seq(AnswerLine) /\ Head(toClient[c]) \in AnswerLine
    BY <1>8, HeadTailProperties DEF ReadLine
  <2>2. Head(toClient[c]).version \in Nat \cup {None}
    BY <2>1 DEF AnswerLine
  <2>3. txn_version' \in [Client -> Nat \cup {None}]
    BY <1>8, <2>2 DEF ReadLine
  <2>4. mark' \in [Client -> SUBSET Mark]
    BY <1>8, MarkedTyped DEF ReadLine
  <2>5. toClient' \in [Client -> Seq(AnswerLine)]
    BY <1>8, <2>1 DEF ReadLine
  <2>6. UNCHANGED << state, up, toServer, task, txn, active, next_version, typed, faults >>
    BY <1>8 DEF ReadLine
  <2>. QED BY <2>3, <2>4, <2>5, <2>6
<1>9. CASE ReadPanics(c)
  <2>1. PICK k \in 2..(Len(toClient[c]) + 1) :
          toClient' = [toClient EXCEPT ![c] = SubSeq(@, k, Len(@))]
    BY <1>9 DEF ReadPanics
  <2>2. toClient[c] \in Seq(AnswerLine) /\ Len(toClient[c]) \in Nat
    BY LenProperties
  <2>3. \A i \in k..Len(toClient[c]) : toClient[c][i] \in AnswerLine
    BY <2>2, ElementOfSeq
  <2>4. SubSeq(toClient[c], k, Len(toClient[c])) \in Seq(AnswerLine)
    BY <2>2, <2>3, SubSeqProperties
  <2>5. toClient' \in [Client -> Seq(AnswerLine)]
    BY <2>1, <2>4
  <2>6. mark' \in [Client -> SUBSET Mark]
    BY <1>9, MarkedTyped DEF ReadPanics
  <2>7. /\ state' \in [Client -> {"prompt", "waiting", "leaving", "gone"}]
        /\ up' \in [Client -> BOOLEAN]
        /\ toServer' \in [Client -> Seq(Line)]
    BY <1>9, DropTyped DEF ReadPanics
  <2>8. UNCHANGED << txn_version, task, txn, active, next_version, typed, faults >>
    BY <1>9 DEF ReadPanics
  <2>. QED BY <2>5, <2>6, <2>7, <2>8
<1>10. CASE FindEnd(c) BY <1>10 DEF FindEnd
<1>. QED BY <1>1, <1>2, <1>4, <1>5, <1>6, <1>7, <1>8, <1>9, <1>10 DEF Env, Read

LEMMA AnswerTyped ==
  ASSUME TypeOK, NEW c \in Client, Reading(c), NEW lines \in Seq(AnswerLine), Answer(c, lines)
  PROVE  /\ UNCHANGED << state, txn_version, up, typed >>
         /\ toServer' \in [Client -> Seq(Line)]
         /\ toClient' \in [Client -> Seq(AnswerLine)]
         /\ task' \in [Client -> {"reading", "ending", "ended"}]
<1>1. Tail(toServer[c]) \in Seq(Line)
  BY HeadTailProperties DEF TypeOK, Reading
<1>2. toClient[c] \o lines \in Seq(AnswerLine)
  BY ConcatProperties DEF TypeOK
<1>. QED BY <1>1, <1>2 DEF TypeOK, Answer, Send, clientVars

LEMMA FaultTyped ==
  ASSUME TypeOK, NEW c \in Client, EngineFails(c) \/ UNCHANGED << mark, faults >>
  PROVE  mark' \in [Client -> SUBSET Mark] /\ faults' \in Nat
<1>1. CASE EngineFails(c)
  <2>1. mark' \in [Client -> SUBSET Mark]
    BY <1>1, MarkedTyped DEF EngineFails
  <2>. QED BY <1>1, <2>1 DEF EngineFails, Fault, TypeOK
<1>. QED BY <1>1 DEF TypeOK

\* What a request does to the engine.
With(c) == [v \in DOMAIN active \cup {next_version} |->
              IF v = next_version THEN << c, Request(c) >> ELSE active[v]]
Began(c) == next_version' = next_version + 1 /\ active' \in {active, With(c)}
EngineMoves(c) ==
    UNCHANGED engineVars \/ Began(c)
      \/ (active' = Without(txn[c]) /\ UNCHANGED next_version)

LEMMA BeginsMoves ==
  ASSUME NEW c \in Client, NEW b, Begins(c, b)
  PROVE  Began(c)
BY DEF Begins, Began, With

LEMMA FailureMoves ==
  ASSUME NEW c \in Client, BeginFails(c)
  PROVE  EngineMoves(c)
BY BeginsMoves DEF BeginFails, EngineMoves

LEMMA EngineTyped ==
  ASSUME TypeOK, NEW c \in Client, Reading(c), EngineMoves(c)
  PROVE  /\ next_version' \in Nat \ {0}
         /\ DOMAIN active' \subseteq 1..(next_version' - 1)
         /\ \A v \in DOMAIN active' : active'[v] \in Client \X Line
<1>1. Request(c) \in Line
  BY HeadTailProperties DEF TypeOK, Reading, Request
<1>2. CASE UNCHANGED engineVars
  BY <1>2 DEF engineVars, TypeOK
<1>3. CASE Began(c)
  <2>1. next_version \in Nat \ {0} /\ next_version' = next_version + 1
    BY <1>3 DEF Began, TypeOK
  <2>2. CASE active' = active
    BY <2>1, <2>2 DEF TypeOK
  <2>3. CASE active' = With(c)
    <3>1. DOMAIN active' = DOMAIN active \cup {next_version}
      BY <2>3 DEF With
    <3>2. \A v \in DOMAIN active' : active'[v] \in Client \X Line
      BY <1>1, <2>3 DEF With, TypeOK
    <3>. QED BY <2>1, <3>1, <3>2 DEF TypeOK
  <2>. QED BY <1>3, <2>2, <2>3 DEF Began
<1>4. CASE active' = Without(txn[c]) /\ UNCHANGED next_version
  BY <1>4 DEF Without, TypeOK
<1>. QED BY <1>2, <1>3, <1>4 DEF EngineMoves

LEMMA ServeTyped ==
  ASSUME TypeOK, NEW c \in Client, Serve(c)
  PROVE  TypeOK'
<1>1. << Text >> \in Seq(AnswerLine) /\ << End >> \in Seq(AnswerLine)
  BY LinesTyped
<1>2. next_version \in Nat /\ txn[c] \in Nat \cup {None}
  BY DEF TypeOK
<1>3. CASE Reject(c)
  <2>1. Reading(c) /\ Answer(c, << Text >>) /\ UNCHANGED << txn, engineVars, mark, faults >>
    BY <1>3 DEF Reject
  <2>. QED BY <2>1, <1>1, AnswerTyped DEF TypeOK, engineVars
<1>4. ASSUME Reading(c), NEW lines \in Seq(AnswerLine), Answer(c, lines),
             txn' \in [Client -> Nat \cup {None}],
             EngineFails(c) \/ UNCHANGED << mark, faults >>,
             EngineMoves(c)
      PROVE  TypeOK'
  <2>1. /\ UNCHANGED << state, txn_version, up, typed >>
        /\ toServer' \in [Client -> Seq(Line)]
        /\ toClient' \in [Client -> Seq(AnswerLine)]
        /\ task' \in [Client -> {"reading", "ending", "ended"}]
    BY <1>4, AnswerTyped
  <2>2. mark' \in [Client -> SUBSET Mark] /\ faults' \in Nat
    BY <1>4, FaultTyped
  <2>3. /\ next_version' \in Nat \ {0}
        /\ DOMAIN active' \subseteq 1..(next_version' - 1)
        /\ \A v \in DOMAIN active' : active'[v] \in Client \X Line
    BY <1>4, EngineTyped
  <2>. QED BY <1>4, <2>1, <2>2, <2>3 DEF TypeOK
<1>. HIDE DEF TypeOK
<1>5. CASE BeginTxn(c)
  <2>1. Reading(c)
    BY <1>5 DEF BeginTxn
  <2>2. CASE /\ Begins(c, TRUE) /\ txn' = [txn EXCEPT ![c] = next_version]
             /\ Answer(c, << Transaction(next_version, "BEGIN") >>) /\ UNCHANGED << mark, faults >>
    <3>1. << Transaction(next_version, "BEGIN") >> \in Seq(AnswerLine)
      BY <1>2, LinesTyped
    <3>2. txn' \in [Client -> Nat \cup {None}]
      BY <1>2, <2>2 DEF TypeOK
    <3>3. EngineMoves(c)
      BY <2>2, BeginsMoves DEF EngineMoves
    <3>. QED BY <1>4, <2>1, <2>2, <3>1, <3>2, <3>3
  <2>3. CASE EngineFails(c) /\ BeginFails(c) /\ Answer(c, << Text >>) /\ UNCHANGED txn
    <3>1. EngineMoves(c)
      BY <2>3, FailureMoves
    <3>. QED BY <1>1, <1>4, <2>1, <2>3, <3>1 DEF TypeOK
  <2>. QED BY <1>5, <2>2, <2>3 DEF BeginTxn
<1>6. CASE EndTxn(c)
  <2>1. Reading(c) /\ UNCHANGED next_version /\ txn[c] \in Nat
        /\ Request(c) \in {"BEGIN", "COMMIT", "ROLLBACK"}
    BY <1>2, <1>6 DEF EndTxn
  <2>2. CASE /\ active' = Without(txn[c]) /\ txn' = [txn EXCEPT ![c] = None]
             /\ Answer(c, << Transaction(txn[c], Request(c)) >>) /\ UNCHANGED << mark, faults >>
    <3>1. << Transaction(txn[c], Request(c)) >> \in Seq(AnswerLine)
      BY <2>1, LinesTyped
    <3>2. txn' \in [Client -> Nat \cup {None}]
      BY <2>2 DEF TypeOK
    <3>3. EngineMoves(c)
      BY <2>1, <2>2 DEF EngineMoves
    <3>. QED BY <1>4, <2>1, <2>2, <3>1, <3>2, <3>3
  <2>3. CASE EngineFails(c) /\ Answer(c, << Text >>) /\ UNCHANGED << txn, active >>
    BY <1>1, <1>4, <2>1, <2>3 DEF TypeOK, engineVars, EngineMoves
  <2>. QED BY <1>6, <2>2, <2>3 DEF EndTxn
<1>7. CASE RunInTxn(c)
  BY <1>4, <1>7, ToStringPlain DEF RunInTxn, TypeOK, EngineMoves
<1>8. CASE Autocommit(c)
  <2>1. Reading(c) /\ txn' \in [Client -> Nat \cup {None}]
    BY <1>8 DEF Autocommit, TypeOK
  <2>2. CASE /\ Begins(c, Request(c) \in {"Unplannable", "EXPLAIN Unplannable"})
             /\ Answer(c, ToString(Request(c))) /\ UNCHANGED << mark, faults >>
    <3>1. EngineMoves(c)
      BY <2>2, BeginsMoves DEF EngineMoves
    <3>. QED BY <1>4, <2>1, <2>2, <3>1, ToStringPlain
  <2>3. CASE /\ EngineFails(c) /\ BeginFails(c)
             /\ Answer(c, << Text >>)
    <3>1. EngineMoves(c)
      BY <2>3, FailureMoves
    <3>. QED BY <1>1, <1>4, <2>1, <2>3, <3>1
  <2>. QED BY <1>8, <2>2, <2>3 DEF Autocommit
<1>9. CASE Show(c)
  <2>1. Reading(c) /\ txn' \in [Client -> Nat \cup {None}]
    BY <1>9 DEF Show, TypeOK
  <2>2. CASE /\ Begins(c, Request(c) = "SHOW TABLE missing")
             /\ Answer(c, << Text >>) /\ UNCHANGED << mark, faults >>
    <3>1. EngineMoves(c)
      BY <2>2, BeginsMoves DEF EngineMoves
    <3>. QED BY <1>1, <1>4, <2>1, <2>2, <3>1
  <2>3. CASE /\ EngineFails(c) /\ BeginFails(c)
             /\ Answer(c, << Text >>)
    <3>1. EngineMoves(c)
      BY <2>3, FailureMoves
    <3>. QED BY <1>1, <1>4, <2>1, <2>3, <3>1
  <2>. QED BY <1>9, <2>2, <2>3 DEF Show
<1>10. CASE TaskPanics(c)
  <2>1. Reading(c) /\ EngineMoves(c) /\ Marked(c, "broken")
    BY <1>10, BeginsMoves DEF TaskPanics, EngineMoves
  <2>2. /\ next_version' \in Nat \ {0}
        /\ DOMAIN active' \subseteq 1..(next_version' - 1)
        /\ \A v \in DOMAIN active' : active'[v] \in Client \X Line
    BY <2>1, EngineTyped
  <2>3. mark' \in [Client -> SUBSET Mark]
    BY <2>1, MarkedTyped
  <2>4. /\ task' \in [Client -> {"reading", "ending", "ended"}]
        /\ up' \in [Client -> BOOLEAN]
        /\ txn' \in [Client -> Nat \cup {None}]
        /\ toServer' \in [Client -> Seq(Line)]
        /\ UNCHANGED << state, txn_version, toClient, typed, faults >>
    BY <1>10 DEF TaskPanics, clientVars, TypeOK
  <2>. QED BY <2>2, <2>3, <2>4 DEF TypeOK
<1>11. CASE SendEnd(c)
  <2>1. toClient[c] \o << End >> \in Seq(AnswerLine)
    BY <1>1, ConcatProperties DEF TypeOK
  <2>. QED BY <1>11, <2>1 DEF SendEnd, Send, TypeOK, clientVars, engineVars
<1>12. CASE EndOfStream(c)
  BY <1>12 DEF EndOfStream, TypeOK, clientVars, engineVars
<1>. QED BY <1>3, <1>5, <1>6, <1>7, <1>8, <1>9, <1>10, <1>11, <1>12 DEF Serve

(* What the program keeps of clients, connections and transactions is of   *)
(* its type in every reachable state.                                      *)
THEOREM TypeCorrect == Spec => []TypeOK
<1>1. TypeOK /\ [Next]_vars => TypeOK'
  <2>. SUFFICES ASSUME TypeOK, [Next]_vars PROVE TypeOK'
    OBVIOUS
  <2>1. CASE UNCHANGED vars
    BY <2>1 DEF TypeOK, vars, clientVars, engineVars
  <2>2. ASSUME NEW c \in Client, Serve(c) \/ Env(c) PROVE TypeOK'
    BY <2>2, ServeTyped, EnvTyped
  <2>. QED BY <2>1, <2>2 DEF Next, Env
<1>. QED BY <1>1, InitTyped, PTL DEF Spec

-----------------------------------------------------------------------------
(* Sessions                                                                *)

LEMMA ApartKept ==
  ASSUME TypeOK, SessionsApart, NEW c \in Client,
         \/ txn' \in {txn, [txn EXCEPT ![c] = None]} /\ DOMAIN active \subseteq DOMAIN active'
         \/ /\ txn' = [txn EXCEPT ![c] = next_version]
            /\ DOMAIN active' = DOMAIN active \cup {next_version}
         \/ txn' = [txn EXCEPT ![c] = None] /\ DOMAIN active' = DOMAIN active \ {txn[c]}
  PROVE  SessionsApart'
<1>. USE DEF SessionsApart
<1>0. txn \in [Client -> Nat \cup {None}]
  BY DEF TypeOK
<1>1. CASE txn' \in {txn, [txn EXCEPT ![c] = None]} /\ DOMAIN active \subseteq DOMAIN active'
  BY <1>0, <1>1
<1>2. CASE txn' = [txn EXCEPT ![c] = next_version] /\ DOMAIN active' = DOMAIN active \cup {next_version}
  <2>1. next_version \notin DOMAIN active
    BY DEF TypeOK
  <2>. QED BY <1>0, <1>2, <2>1
<1>3. CASE txn' = [txn EXCEPT ![c] = None] /\ DOMAIN active' = DOMAIN active \ {txn[c]}
  BY <1>0, <1>3
<1>. QED BY <1>1, <1>2, <1>3

LEMMA BeganDomain ==
  ASSUME NEW c \in Client, NEW b, Begins(c, b)
  PROVE  /\ DOMAIN active \subseteq DOMAIN active'
         /\ b = TRUE => DOMAIN active' = DOMAIN active \cup {next_version}
BY DEF Begins

LEMMA ServeApart ==
  ASSUME TypeOK, SessionsApart, NEW c \in Client, Serve(c)
  PROVE  SessionsApart'
<1>1. CASE BeginTxn(c)
  <2>1. CASE Begins(c, TRUE) /\ txn' = [txn EXCEPT ![c] = next_version]
    BY <2>1, BeganDomain, ApartKept
  <2>2. CASE BeginFails(c) /\ UNCHANGED txn
    <3>1. CASE UNCHANGED engineVars
      BY <2>2, <3>1, ApartKept DEF engineVars
    <3>2. ASSUME NEW b \in BOOLEAN, Begins(c, b) PROVE SessionsApart'
      BY <2>2, <3>2, BeganDomain, ApartKept
    <3>. QED BY <2>2, <3>1, <3>2 DEF BeginFails
  <2>. QED BY <1>1, <2>1, <2>2 DEF BeginTxn
<1>2. CASE EndTxn(c)
  <2>1. CASE active' = Without(txn[c]) /\ txn' = [txn EXCEPT ![c] = None]
    BY <2>1, ApartKept DEF Without
  <2>2. CASE UNCHANGED << txn, active >>
    BY <2>2, ApartKept
  <2>. QED BY <1>2, <2>1, <2>2 DEF EndTxn
<1>3. CASE Autocommit(c)
  <2>1. DOMAIN active \subseteq DOMAIN active' /\ UNCHANGED txn
    BY <1>3, BeganDomain DEF Autocommit, BeginFails, engineVars
  <2>. QED BY <2>1, ApartKept
<1>4. CASE Show(c)
  <2>1. DOMAIN active \subseteq DOMAIN active' /\ UNCHANGED txn
    BY <1>4, BeganDomain DEF Show, BeginFails, engineVars
  <2>. QED BY <2>1, ApartKept
<1>5. CASE TaskPanics(c)
  <2>1. DOMAIN active \subseteq DOMAIN active' /\ txn' = [txn EXCEPT ![c] = None]
    BY <1>5, BeganDomain DEF TaskPanics, engineVars
  <2>. QED BY <2>1, ApartKept
<1>6. CASE EndOfStream(c)
  BY <1>6, ApartKept DEF EndOfStream, engineVars
<1>7. CASE Reject(c) \/ RunInTxn(c) \/ SendEnd(c)
  BY <1>7, ApartKept DEF Reject, RunInTxn, SendEnd, engineVars
<1>. QED BY <1>1, <1>2, <1>3, <1>4, <1>5, <1>6, <1>7 DEF Serve

LEMMA EnvApart ==
  ASSUME SessionsApart, NEW c \in Client, Env(c)
  PROVE  SessionsApart'
<1>1. UNCHANGED << txn, active >>
  BY DEF Env, Read, Type, SendFails, Quit, Kill, Break, ReadEnd, ReadLine, ReadPanics, FindEnd,
         engineVars
<1>. QED BY <1>1 DEF SessionsApart

-----------------------------------------------------------------------------
(* The client that moves, and the others                                   *)

LEMMA EnvOthers ==
  ASSUME TypeOK, NEW c \in Client, Env(c), NEW d \in Client, d # c
  PROVE  Unmoved(d)
BY SMTT(30) DEF TypeOK, Env, Read, Type, SendFails, Quit, Kill, Break, ReadEnd, ReadLine, ReadPanics, FindEnd,
       DropClient, DropNothing, Marked, clientVars, Unmoved

LEMMA ServeOthers ==
  ASSUME TypeOK, NEW c \in Client, Serve(c), NEW d \in Client, d # c
  PROVE  Unmoved(d)
BY DEF TypeOK, Serve, Reject, BeginTxn, EndTxn, RunInTxn, Autocommit, Show, TaskPanics, SendEnd,
       EndOfStream, Answer, Send, EngineFails, Marked, clientVars, Unmoved

LEMMA EnvKeeps ==
  ASSUME TypeOK, NEW c \in Client, ClientInv(c), Env(c)
  PROVE  ClientInv(c)'
<1>0. /\ toClient[c] \in Seq(AnswerLine) /\ toServer[c] \in Seq(Line)
      /\ Len(toClient[c]) \in Nat
  BY DEF TypeOK
<1>1. CASE ~Live(c)'
  BY <1>1 DEF ClientInv
<1>2. ASSUME NEW line \in Requests[c], Type(c, line) PROVE ClientInv(c)'
  <2>1. /\ Live(c) /\ state[c] = "prompt" /\ toServer[c] = << >> /\ toClient[c] = << >>
        /\ task[c] = "reading"
    BY <1>2 DEF Type, ClientInv, Live, Phase
  <2>2. /\ state'[c] = "waiting" /\ toServer'[c] = Append(toServer[c], line)
        /\ UNCHANGED << txn_version, up, toClient, task, txn, mark >>
    BY <1>2 DEF Type, TypeOK
  <2>3. Len(toServer'[c]) = 1
    BY <2>1, <2>2
  <2>4. Asked(c)'
    BY <2>1, <2>2, <2>3 DEF Asked
  <2>5. Phase(c)'
    BY <2>2, <2>4 DEF Phase
  <2>6. Knows(c) => Knows(c)'
    BY <2>2 DEF Knows, Genuine, After
  <2>7. "misled" \notin mark[c] => Knows(c)
    BY <2>1 DEF ClientInv
  <2>. QED BY <2>2, <2>5, <2>6, <2>7 DEF ClientInv
<1>3. ASSUME ReadEnd(c), Live(c)' PROVE ClientInv(c)'
  <2>. DEFINE s == toClient[c]
  <2>1. /\ Live(c) /\ state[c] = "waiting" /\ state'[c] = "prompt" /\ s # << >> /\ Head(s) = End
        /\ toClient'[c] = Tail(s) /\ UNCHANGED << txn_version, up, toServer, task, txn, mark >>
    BY <1>3 DEF ReadEnd, TypeOK, Live
  <2>2. s[1] = End /\ Len(s) > 0
    BY <1>0, <2>1
  <2>3. Answered(c)
    BY <1>0, <2>1, <2>2 DEF ClientInv, Phase, Asked, Answering, NoEndBefore
  <2>4. Len(s) = 1
    <3>1. NoEndBefore(s, Len(s) - 1)
      BY <2>3 DEF Answered
    <3>2. 1 \notin 1..(Len(s) - 1)
      BY <2>2, <3>1 DEF NoEndBefore
    <3>3. ASSUME NEW n \in Nat, n > 0, 1 \notin 1..(n - 1) PROVE n = 1
      BY <3>3
    <3>. QED BY <1>0, <2>2, <3>2, <3>3
  <2>5. Tail(s) = << >>
    <3>1. Tail(s) \in Seq(AnswerLine) /\ Len(Tail(s)) = 0
      BY <1>0, <2>1, <2>4, HeadTailProperties
    <3>. QED BY <3>1, EmptySeq
  <2>6. Phase(c)'
    BY <2>1, <2>3, <2>5 DEF Phase, Answered
  <2>7. ~Genuine(s[1])
    BY <2>2, LinesTyped DEF Genuine
  <2>8. Knows(c) => txn_version[c] = txn[c]
    BY <2>4, <2>7 DEF Knows
  <2>9. Len(toClient'[c]) = 0
    <3>1. toClient'[c] = << >>
      BY <2>1, <2>5
    <3>. QED BY <3>1
  <2>10. Knows(c) => Knows(c)'
    BY <2>1, <2>8, <2>9 DEF Knows
  <2>. QED BY <2>1, <2>6, <2>10 DEF ClientInv
<1>4. ASSUME ReadLine(c), Live(c)' PROVE ClientInv(c)'
  <2>. DEFINE s == toClient[c]
              l == Head(s)
  <2>1. /\ Live(c) /\ state[c] = "waiting" /\ state'[c] = "waiting" /\ s # << >> /\ l # End
        /\ toClient'[c] = Tail(s) /\ UNCHANGED << up, toServer, task, txn >>
        /\ mark'[c] = IF l.row THEN mark[c] \cup {"misled"} ELSE mark[c]
    BY <1>4 DEF ReadLine, TypeOK, Live, Marked
  <2>2. /\ s[1] = l /\ Len(s) > 0 /\ Tail(s) \in Seq(AnswerLine) /\ Len(Tail(s)) = Len(s) - 1
        /\ l \in AnswerLine
    BY <1>0, <2>1, HeadTailProperties
  <2>3. \A i \in 1..(Len(s) - 1) : Tail(s)[i] = s[i + 1]
    BY <1>0, <2>1, HeadTailProperties
  <2>4. Answering(c) \/ Answered(c)
    BY <2>1 DEF ClientInv, Phase, Asked
  <2>5. Answering(c) => Answering(c)'
    BY <1>0, <2>1, <2>2, <2>3 DEF Answering, NoEndBefore
  <2>6. Answered(c) => Answered(c)'
    <3>1. SUFFICES ASSUME Answered(c) PROVE Answered(c)'
      OBVIOUS
    <3>2. Len(s) # 1
      BY <2>1, <2>2, <3>1 DEF Answered
    <3>3. Tail(s)[Len(s) - 1] = End
      <4>0. ASSUME NEW n \in Nat, n > 0, n # 1 PROVE n - 1 \in 1..(n - 1) /\ n - 1 + 1 = n
        BY <4>0
      <4>1. Len(s) - 1 \in 1..(Len(s) - 1) /\ Len(s) - 1 + 1 = Len(s)
        BY <1>0, <2>2, <3>2, <4>0
      <4>2. Tail(s)[Len(s) - 1] = s[Len(s)]
        BY <2>3, <4>1
      <4>. QED BY <3>1, <4>2 DEF Answered
    <3>4. \A i \in 1..(Len(s) - 2) : Tail(s)[i] # End
      BY <1>0, <2>2, <2>3, <3>1, <3>2 DEF Answered, NoEndBefore
    <3>. QED BY <1>0, <2>1, <2>2, <3>1, <3>2, <3>3, <3>4 DEF Answered, NoEndBefore
  <2>7. Phase(c)'
    BY <2>1, <2>4, <2>5, <2>6 DEF Phase
  <2>8. ASSUME "misled" \notin mark'[c] PROVE Knows(c)'
    <3>1. ~l.row /\ "misled" \notin mark[c]
      BY <2>1, <2>8
    <3>2. Knows(c)
      BY <2>1, <3>1 DEF ClientInv
    <3>3. \A i \in 1..Len(Tail(s)) : Genuine(Tail(s)[i]) =>
             Tail(s)[i].word # None /\ After(Tail(s)[i]) = txn[c]
      BY <1>0, <2>2, <2>3, <3>2 DEF Knows
    <3>4. CASE Genuine(l)
      <4>1. After(l) = txn[c]
        BY <1>0, <2>2, <3>2, <3>4 DEF Knows
      <4>2. txn_version'[c] = After(l)
        BY <1>4, <3>4 DEF ReadLine, Genuine, After, TypeOK
      <4>. QED BY <2>1, <3>3, <4>1, <4>2 DEF Knows
    <3>5. CASE ~Genuine(l)
      <4>1. l.line # "TRANSACTION"
        BY <3>1, <3>5 DEF Genuine
      <4>2. txn_version'[c] = txn_version[c]
        BY <1>4, <4>1 DEF ReadLine
      <4>3. ASSUME \A i \in 1..Len(Tail(s)) : ~Genuine(Tail(s)[i])
            PROVE  txn_version[c] = txn[c]
        <5>1. \A i \in 1..Len(s) : ~Genuine(s[i])
          <6>1. SUFFICES ASSUME NEW i \in 1..Len(s), i # 1 PROVE ~Genuine(s[i])
            BY <2>2, <3>5
          <6>2. i - 1 \in 1..(Len(s) - 1) /\ s[i] = Tail(s)[i - 1]
            BY <1>0, <2>3, <6>1
          <6>. QED BY <2>2, <4>3, <6>2
        <5>. QED BY <3>2, <5>1 DEF Knows
      <4>. QED BY <2>1, <3>3, <4>2, <4>3 DEF Knows
    <3>. QED BY <3>4, <3>5
  <2>. QED BY <2>7, <2>8 DEF ClientInv
<1>5. (SendFails(c) \/ Quit(c) \/ Kill(c) \/ Break(c) \/ ReadPanics(c)) => ~Live(c)'
  BY DEF SendFails, Quit, Kill, Break, ReadPanics, DropClient, DropNothing, Live, TypeOK
<1>6. FindEnd(c) => ~Live(c)'
  BY DEF FindEnd, Live
<1>. QED BY <1>1, <1>2, <1>3, <1>4, <1>5, <1>6 DEF Env, Read

\* What an answer tells of the session's transaction.
Tells(lines, before, after) ==
    /\ \A i \in 1..Len(lines) :
         Genuine(lines[i]) => lines[i].word # None /\ After(lines[i]) = after
    /\ (\A i \in 1..Len(lines) : ~Genuine(lines[i])) => after = before

LEMMA AnswerKeeps ==
  ASSUME TypeOK, NEW c \in Client, ClientInv(c), Reading(c),
         NEW lines \in Seq(AnswerLine), Answer(c, lines),
         NoEndBefore(lines, Len(lines)), Tells(lines, txn[c], txn'[c]),
         EngineFails(c) \/ UNCHANGED << mark, faults >>
  PROVE  ClientInv(c)'
<1>1. SUFFICES ASSUME Live(c)' PROVE ClientInv(c)'
  BY DEF ClientInv
<1>2. /\ UNCHANGED << state, txn_version, up >>
      /\ toServer'[c] = Tail(toServer[c]) /\ task'[c] = "ending"
      /\ toServer[c] \in Seq(Line) /\ toServer[c] # << >>
  BY DEF Answer, clientVars, TypeOK, Reading
<1>3. Live(c) /\ state[c] = "waiting" /\ Asked(c)
  BY <1>1, <1>2 DEF Live, ClientInv, Phase, Answering, Answered
<1>4. toClient'[c] = lines
  <2>1. toClient'[c] = toClient[c] \o lines
    BY <1>3 DEF Answer, Send, TypeOK, Live
  <2>. QED BY <1>3, <2>1, ConcatEmptySeq DEF Asked
<1>5. toServer'[c] = << >>
  <2>1. Tail(toServer[c]) \in Seq(Line) /\ Len(Tail(toServer[c])) = 0
    BY <1>2, <1>3, HeadTailProperties DEF Asked
  <2>. QED BY <1>2, <2>1, EmptySeq
<1>6. Phase(c)'
  BY <1>2, <1>3, <1>4, <1>5 DEF Phase, Answering, NoEndBefore
<1>7. ASSUME "misled" \notin mark'[c] PROVE Knows(c)'
  <2>1. "misled" \notin mark[c]
    BY <1>7 DEF EngineFails, Marked, TypeOK
  <2>2. txn_version[c] = txn[c]
    <3>1. Knows(c)
      BY <1>3, <2>1 DEF ClientInv
    <3>2. Len(toClient[c]) = 0
      BY <1>3 DEF Asked
    <3>. QED BY <3>1, <3>2 DEF Knows
  <2>. QED BY <1>2, <1>4, <2>2 DEF Tells, Knows, Genuine, After
<1>. QED BY <1>6, <1>7 DEF ClientInv

LEMMA PlainTells ==
  ASSUME NEW lines, Plain(lines), NEW t
  PROVE  NoEndBefore(lines, Len(lines)) /\ Tells(lines, t, t)
BY DEF Plain, NoEndBefore, Tells, Genuine

\* A sequence of one element after another sequence.
LEMMA OneMoreLine ==
  ASSUME NEW S, NEW s \in Seq(S), NEW t \in Seq(S), Len(t) = 1
  PROVE  /\ Len(s \o t) = Len(s) + 1 /\ (s \o t)[Len(s) + 1] = t[1]
         /\ \A i \in 1..Len(s) : (s \o t)[i] = s[i]
<1>1. Len(s) \in Nat
  BY LenProperties
<1>2. Len(s \o t) = Len(s) + Len(t)
  BY ConcatProperties, Zenon
<1>3. \A i \in 1..(Len(s) + Len(t)) :
         (s \o t)[i] = IF i <= Len(s) THEN s[i] ELSE t[i - Len(s)]
  BY ConcatProperties, Zenon
<1>. DEFINE u == s \o t
<1>. HIDE DEF u
<1>4. Len(u) = Len(s) + 1
  BY <1>1, <1>2 DEF u
<1>5. \A i \in 1..(Len(s) + 1) : u[i] = IF i <= Len(s) THEN s[i] ELSE t[i - Len(s)]
  BY <1>3 DEF u
<1>6. Len(s) + 1 \in 1..(Len(s) + 1) /\ ~(Len(s) + 1 <= Len(s)) /\ Len(s) + 1 - Len(s) = 1
  BY <1>1
<1>7. u[Len(s) + 1] = t[1]
  BY <1>5, <1>6
<1>8. \A i \in 1..Len(s) : u[i] = s[i]
  BY <1>1, <1>5
<1>. QED BY <1>4, <1>7, <1>8 DEF u

LEMMA OwnLineTells ==
  ASSUME NEW v \in Nat, NEW word \in {"BEGIN", "COMMIT", "ROLLBACK"}, NEW before, NEW after,
         after = IF word = "BEGIN" THEN v ELSE None
  PROVE  /\ << Transaction(v, word) >> \in Seq(AnswerLine)
         /\ NoEndBefore(<< Transaction(v, word) >>, Len(<< Transaction(v, word) >>))
         /\ Tells(<< Transaction(v, word) >>, before, after)
<1>. DEFINE l == Transaction(v, word)
            s == << l >>
<1>1. l \in AnswerLine /\ l # End
  BY LinesTyped
<1>2. Genuine(l) /\ l.word # None /\ After(l) = after
  <2>1. l.word = word /\ l.version = v /\ l.line = "TRANSACTION" /\ ~l.row
    BY DEF Transaction
  <2>2. word # None
    BY ServerAssumption
  <2>. QED BY <2>1, <2>2 DEF Genuine, After
<1>. HIDE DEF l
<1>3. s \in Seq(AnswerLine) /\ Len(s) = 1 /\ s[1] = l
  BY <1>1
<1>. HIDE DEF s
<1>4. NoEndBefore(s, Len(s)) /\ Tells(s, before, after)
  BY <1>1, <1>2, <1>3 DEF NoEndBefore, Tells
<1>. QED BY <1>3, <1>4 DEF s, l

LEMMA ServeKeeps ==
  ASSUME TypeOK, NEW c \in Client, ClientInv(c), Serve(c)
  PROVE  ClientInv(c)'
<1>0. /\ toClient[c] \in Seq(AnswerLine) /\ Len(toClient[c]) \in Nat
      /\ << Text >> \in Seq(AnswerLine) /\ Plain(<< Text >>) /\ << End >> \in Seq(AnswerLine)
  BY LinesTyped DEF TypeOK, Plain
<1>1. ASSUME Reading(c), NEW lines \in Seq(AnswerLine), Plain(lines), Answer(c, lines),
             UNCHANGED txn, EngineFails(c) \/ UNCHANGED << mark, faults >>
      PROVE  ClientInv(c)'
  BY <1>1, PlainTells, AnswerKeeps
<1>2. CASE BeginTxn(c)
  <2>1. CASE /\ txn' = [txn EXCEPT ![c] = next_version] /\ UNCHANGED << mark, faults >>
             /\ Answer(c, << Transaction(next_version, "BEGIN") >>)
    <3>1. next_version \in Nat /\ txn'[c] = next_version
      BY <2>1 DEF TypeOK
    <3>. DEFINE s == << Transaction(next_version, "BEGIN") >>
    <3>2. /\ s \in Seq(AnswerLine) /\ NoEndBefore(s, Len(s))
          /\ Tells(s, txn[c], txn'[c])
      BY <3>1, OwnLineTells
    <3>3. Answer(c, s)
      BY <2>1
    <3>. HIDE DEF s
    <3>. QED BY <1>2, <2>1, <3>2, <3>3, AnswerKeeps DEF BeginTxn
  <2>2. CASE EngineFails(c) /\ Answer(c, << Text >>) /\ UNCHANGED txn
    BY <1>0, <1>1, <1>2, <2>2 DEF BeginTxn
  <2>. QED BY <1>2, <2>1, <2>2 DEF BeginTxn
<1>3. CASE EndTxn(c)
  <2>1. CASE /\ txn' = [txn EXCEPT ![c] = None] /\ UNCHANGED << mark, faults >>
             /\ Answer(c, << Transaction(txn[c], Request(c)) >>)
    <3>1. txn[c] \in Nat /\ txn'[c] = None /\ Request(c) \in {"COMMIT", "ROLLBACK"}
      BY <1>3, <2>1 DEF TypeOK, EndTxn
    <3>. DEFINE s == << Transaction(txn[c], Request(c)) >>
    <3>2. /\ s \in Seq(AnswerLine) /\ NoEndBefore(s, Len(s))
          /\ Tells(s, txn[c], txn'[c])
      BY <3>1, OwnLineTells
    <3>3. Answer(c, s)
      BY <2>1
    <3>. HIDE DEF s
    <3>. QED BY <1>3, <2>1, <3>2, <3>3, AnswerKeeps DEF EndTxn
  <2>2. CASE EngineFails(c) /\ Answer(c, << Text >>) /\ UNCHANGED << txn, active >>
    BY <1>0, <1>1, <1>3, <2>2 DEF EndTxn
  <2>. QED BY <1>3, <2>1, <2>2 DEF EndTxn
<1>4. CASE Reject(c) \/ RunInTxn(c) \/ Autocommit(c) \/ Show(c)
  <2>1. Reading(c) /\ UNCHANGED txn
    BY <1>4 DEF Reject, RunInTxn, Autocommit, Show
  <2>2. EngineFails(c) \/ UNCHANGED << mark, faults >>
    BY <1>4 DEF Reject, RunInTxn, Autocommit, Show
  <2>3. Answer(c, << Text >>) \/ Answer(c, ToString(Request(c)))
    BY <1>4 DEF Reject, RunInTxn, Autocommit, Show
  <2>. QED BY <1>0, <1>1, <2>1, <2>2, <2>3, ToStringPlain
<1>5. CASE SendEnd(c)
  <2>1. SUFFICES ASSUME Live(c)' PROVE ClientInv(c)'
    BY DEF ClientInv
  <2>. DEFINE s == toClient[c]
              e == s \o << End >>
  <2>2. /\ Live(c) /\ task[c] = "ending" /\ task'[c] = "reading" /\ toClient'[c] = e
        /\ UNCHANGED << state, txn_version, up, toServer, txn, mark >>
    BY <1>5, <2>1 DEF SendEnd, Send, TypeOK, Live, clientVars
  <2>3. state[c] = "waiting" /\ Answering(c)
    BY <2>2 DEF Live, ClientInv, Phase, Asked, Answered
  <2>4. /\ Len(e) = Len(s) + 1 /\ e[Len(s) + 1] = End
        /\ \A i \in 1..Len(s) : e[i] = s[i]
    <3>. DEFINE t == << End >>
    <3>1. t \in Seq(AnswerLine) /\ Len(t) = 1 /\ t[1] = End
      BY <1>0
    <3>2. s \in Seq(AnswerLine)
      BY <1>0
    <3>. HIDE DEF s, t
    <3>3. /\ Len(s \o t) = Len(s) + 1 /\ (s \o t)[Len(s) + 1] = t[1]
          /\ \A i \in 1..Len(s) : (s \o t)[i] = s[i]
      BY <3>1, <3>2, OneMoreLine
    <3>. QED BY <3>1, <3>3 DEF t
  <2>. HIDE DEF e
  <2>5. Answered(c)'
    <3>1. Len(e) - 1 = Len(s) /\ Len(e) > 0
      BY <1>0, <2>4
    <3>2. \A i \in 1..Len(s) : e[i] # End
      BY <2>3, <2>4 DEF Answering, NoEndBefore
    <3>. QED BY <2>2, <2>3, <2>4, <3>1, <3>2 DEF Answered, Answering, NoEndBefore
  <2>6. ASSUME "misled" \notin mark'[c] PROVE Knows(c)'
    <3>1. Knows(c)
      BY <2>2, <2>6 DEF ClientInv
    <3>2. ~Genuine(End)
      BY LinesTyped DEF Genuine
    <3>3. \A i \in 1..Len(e) : Genuine(e[i]) => i \in 1..Len(s) /\ e[i] = s[i]
      BY <1>0, <2>4, <3>2
    <3>4. \A i \in 1..Len(e) : Genuine(e[i]) => e[i].word # None /\ After(e[i]) = txn[c]
      BY <3>1, <3>3 DEF Knows
    <3>5. ASSUME \A i \in 1..Len(e) : ~Genuine(e[i]) PROVE txn_version[c] = txn[c]
      <4>1. \A i \in 1..Len(s) : i \in 1..Len(e)
        BY <1>0, <2>4
      <4>. QED BY <2>4, <3>1, <3>5, <4>1 DEF Knows
    <3>. QED BY <2>2, <3>4, <3>5 DEF Knows, Genuine, After
  <2>7. Phase(c)'
    BY <2>2, <2>3, <2>5 DEF Phase
  <2>. QED BY <2>6, <2>7 DEF ClientInv
<1>6. TaskPanics(c) => ~Live(c)'
  BY DEF TaskPanics, Live, TypeOK
<1>7. EndOfStream(c) => ~Live(c)'
  BY DEF EndOfStream, Live
<1>. QED BY <1>2, <1>3, <1>4, <1>5, <1>6, <1>7 DEF Serve, ClientInv

LEMMA InitKnows == Init => IInv
<1>1. ASSUME Init, NEW c \in Client PROVE ClientInv(c)
  <2>1. toClient[c] = << >> /\ state[c] = "prompt" /\ toServer[c] = << >>
        /\ task[c] = "reading" /\ txn_version[c] = txn[c]
    BY <1>1 DEF Init
  <2>. QED BY <2>1 DEF ClientInv, Phase, Knows
<1>2. Init => SessionsApart
  BY DEF Init, SessionsApart
<1>. QED BY <1>1, <1>2, InitTyped DEF IInv

LEMMA StepKnows == IInv /\ [Next]_vars => IInv'
<1>. SUFFICES ASSUME IInv, [Next]_vars PROVE IInv'
  OBVIOUS
<1>1. CASE UNCHANGED vars
  <2>1. TypeOK' /\ SessionsApart'
    BY <1>1 DEF IInv, TypeOK, SessionsApart, vars, clientVars, engineVars
  <2>2. \A c \in Client : Unmoved(c)
    BY <1>1 DEF Unmoved, vars, clientVars, engineVars
  <2>. QED BY <2>1, <2>2, UnmovedClient DEF IInv
<1>2. ASSUME NEW c \in Client, Serve(c) PROVE IInv'
  <2>1. TypeOK' /\ SessionsApart'
    BY <1>2, ServeTyped, ServeApart DEF IInv
  <2>2. ASSUME NEW d \in Client PROVE ClientInv(d)'
    BY <1>2, ServeKeeps, ServeOthers, UnmovedClient DEF IInv
  <2>. QED BY <2>1, <2>2 DEF IInv
<1>3. ASSUME NEW c \in Client, Env(c) PROVE IInv'
  <2>1. TypeOK' /\ SessionsApart'
    BY <1>3, EnvTyped, EnvApart DEF IInv
  <2>2. ASSUME NEW d \in Client PROVE ClientInv(d)'
    BY <1>3, EnvKeeps, EnvOthers, UnmovedClient DEF IInv
  <2>. QED BY <2>1, <2>2 DEF IInv
<1>. QED BY <1>1, <1>2, <1>3 DEF Next, Env

LEMMA Inductive == Spec => []IInv
BY InitKnows, StepKnows, PTL DEF Spec

(* No two sessions of a server use one transaction, and a session never    *)
(* uses one that has ended (Session::execute in sql/engine/mod.rs).        *)
THEOREM SessionsCorrect == Spec => []SessionsApart
<1>1. IInv => SessionsApart
  BY DEF IInv
<1>. QED BY <1>1, Inductive, PTL

(* A client that shows its prompt has read the whole answer to everything  *)
(* it sent, whatever the answers contain: RESPONSE_END keeps requests and  *)
(* answers in step (server.rs and client.rs).                              *)
THEOREM InStepCorrect == Spec => []InStep
<1>1. IInv => InStep
  BY DEF IInv, InStep, ClientInv, Live, Phase
<1>. QED BY <1>1, Inductive, PTL

(* The transaction in a client's prompt is the one its session has, as     *)
(* long as no row of a SELECT was taken for the answer to a BEGIN, COMMIT  *)
(* or ROLLBACK (execute_sql in client.rs).                                 *)
THEOREM PromptCorrect == Spec => []PromptTellsTransaction
<1>1. IInv => PromptTellsTransaction
  <2>1. SUFFICES ASSUME IInv, NEW c \in Client, state[c] = "prompt", up[c], "misled" \notin mark[c]
                 PROVE  txn_version[c] = txn[c]
    BY DEF PromptTellsTransaction
  <2>2. Knows(c) /\ toClient[c] = << >>
    BY <2>1 DEF IInv, ClientInv, Live, Phase
  <2>3. Len(toClient[c]) = 0
    BY <2>2
  <2>. QED BY <2>2, <2>3 DEF Knows
<1>. QED BY <1>1, Inductive, PTL

-----------------------------------------------------------------------------
(* What stays active: the server leaves no transaction behind but for the  *)
(* reasons LeftActiveForKnownReasons names.  The inductive invariant:      *)

\* A reason there is for v to stay active without a session.
Excused(v) ==
    \/ active[v][2] \in {"Unplannable", "EXPLAIN Unplannable", "SHOW TABLE missing", "Panics"}
    \/ active[v][2] = "BEGIN" /\ mark[active[v][1]] \cap {"broken", "misled"} # {}
    \/ "failed" \in mark[active[v][1]]

\* What is active without a reason is the transaction of the session it was
\* begun for, and sessions use transactions begun by a BEGIN.
Accounted ==
    /\ \A v \in DOMAIN active : Excused(v) \/ txn[active[v][1]] = v
    /\ \A c \in Client : txn[c] # None => active[txn[c]] = << c, "BEGIN" >>

\* A client nothing befell stays until its transaction has ended: Drop sends a
\* ROLLBACK when one is open, and reads the answer to it.
Untroubled(c) == mark[c] \cap {"broken", "misled", "failed"} = {}

LeavesInOrder(c) ==
    /\ state[c] \in {"prompt", "waiting"} => up[c]
    /\ state[c] = "leaving" =>
         /\ up[c]
         /\ \/ toServer[c] = << "ROLLBACK" >> /\ toClient[c] = << >> /\ task[c] = "reading"
            \/ toServer[c] = << >> /\ txn[c] = None
    /\ state[c] = "gone" => toServer[c] = << >> /\ txn[c] = None

Orderly == \A c \in Client : Untroubled(c) => LeavesInOrder(c)

LInv == IInv /\ Accounted /\ Orderly

-----------------------------------------------------------------------------
(* Accounts are kept                                                       *)

LEMMA MarksGrow ==
  ASSUME TypeOK, NEW c \in Client, Serve(c) \/ Env(c), NEW d \in Client
  PROVE  mark[d] \subseteq mark'[d]
<1>1. UNCHANGED mark \/ \E m \in Mark : Marked(c, m)
  <2>1. CASE Serve(c)
    BY <2>1 DEF Serve, Reject, BeginTxn, EndTxn, RunInTxn, Autocommit, Show, TaskPanics, SendEnd,
                EndOfStream, EngineFails, Mark
  <2>2. CASE Env(c)
    BY <2>2 DEF Env, Read, Type, SendFails, Quit, Kill, Break, ReadEnd, ReadLine, ReadPanics,
                FindEnd, Mark
  <2>. QED BY <2>1, <2>2
<1>. QED BY <1>1 DEF Marked, TypeOK

Growing == \A d \in Client : mark[d] \subseteq mark'[d]

LEMMA ExcuseKept ==
  ASSUME TypeOK, Growing, NEW v \in DOMAIN active, active'[v] = active[v], Excused(v)
  PROVE  Excused(v)'
<1>1. active[v][1] \in Client
  BY DEF TypeOK
<1>. QED BY <1>1 DEF Excused, Growing

LEMMA NowExcused ==
  ASSUME NEW v, NEW c, NEW line, active'[v] = << c, line >>,
         \/ line \in {"Unplannable", "EXPLAIN Unplannable", "SHOW TABLE missing", "Panics"}
         \/ line = "BEGIN" /\ mark'[c] \cap {"broken", "misled"} # {}
         \/ "failed" \in mark'[c]
  PROVE  Excused(v)'
<1>. DEFINE a == active'[v]
<1>0. a = << c, line >>
  OBVIOUS
<1>. HIDE DEF a
<1>1. a[1] = c /\ a[2] = line
  BY <1>0
<1>. QED BY <1>1 DEF Excused, a

LEMMA SameAccounts ==
  ASSUME TypeOK, Accounted, Growing, UNCHANGED << txn, active >>
  PROVE  Accounted'
<1>1. \A v \in DOMAIN active : Excused(v) => Excused(v)'
  BY ExcuseKept
<1>. QED BY <1>1 DEF Accounted

\* A transaction begun and left behind, for one of the reasons.
LEMMA LeftAccounts ==
  ASSUME TypeOK, SessionsApart, Accounted, Growing, NEW c \in Client, UNCHANGED txn,
         active' = With(c), \A n : n = next_version => Excused(n)'
  PROVE  Accounted'
<1>1. next_version \notin DOMAIN active
  BY DEF TypeOK
<1>2. \A v \in DOMAIN active : v \in DOMAIN active' /\ active'[v] = active[v]
  BY <1>1 DEF With
<1>3. \A v \in DOMAIN active' : v \in DOMAIN active \/ v = next_version
  BY DEF With
<1>4. \A v \in DOMAIN active : Excused(v) => Excused(v)'
  BY <1>2, ExcuseKept
<1>5. \A v \in DOMAIN active' : Excused(v)' \/ txn'[active'[v][1]] = v
  BY <1>2, <1>3, <1>4 DEF Accounted
<1>6. \A d \in Client : txn'[d] # None => active'[txn'[d]] = << d, "BEGIN" >>
  BY <1>2 DEF Accounted, SessionsApart
<1>. QED BY <1>5, <1>6 DEF Accounted

\* A transaction begun for a session.
LEMMA OpenedAccounts ==
  ASSUME TypeOK, SessionsApart, Accounted, Growing, NEW c \in Client,
         txn[c] = None, txn' = [txn EXCEPT ![c] = next_version],
         active' = With(c), Request(c) = "BEGIN"
  PROVE  Accounted'
<1>0. txn \in [Client -> Nat \cup {None}] /\ next_version \in Nat /\ None \notin Nat
  BY ServerAssumption DEF TypeOK
<1>1. next_version \notin DOMAIN active /\ \A v \in DOMAIN active : v # None
  BY <1>0 DEF TypeOK
<1>2. \A v \in DOMAIN active : v \in DOMAIN active' /\ active'[v] = active[v]
  BY <1>1 DEF With
<1>3. /\ \A v \in DOMAIN active' : v \in DOMAIN active \/ v = next_version
      /\ active'[next_version] = << c, "BEGIN" >>
  BY DEF With
<1>4. \A v \in DOMAIN active : Excused(v) => Excused(v)'
  BY <1>2, ExcuseKept
<1>5. \A d \in Client : txn'[d] = IF d = c THEN next_version ELSE txn[d]
  BY <1>0
<1>6. ASSUME NEW v \in DOMAIN active' PROVE Excused(v)' \/ txn'[active'[v][1]] = v
  <2>1. CASE v = next_version
    BY <1>3, <1>5, <2>1
  <2>2. CASE v \in DOMAIN active
    <3>1. active[v][1] \in Client
      BY <2>2 DEF TypeOK
    <3>. QED BY <1>1, <1>2, <1>4, <1>5, <2>2, <3>1 DEF Accounted
  <2>. QED BY <1>3, <2>1, <2>2
<1>7. ASSUME NEW d \in Client, txn'[d] # None PROVE active'[txn'[d]] = << d, "BEGIN" >>
  BY <1>2, <1>3, <1>5, <1>7 DEF Accounted, SessionsApart
<1>. QED BY <1>6, <1>7 DEF Accounted

\* A transaction ended, by its session.
LEMMA EndedAccounts ==
  ASSUME TypeOK, SessionsApart, Accounted, Growing, NEW c \in Client, txn[c] # None,
         txn' = [txn EXCEPT ![c] = None], active' = Without(txn[c])
  PROVE  Accounted'
<1>0. txn \in [Client -> Nat \cup {None}]
  BY DEF TypeOK
<1>1. \A v \in DOMAIN active' : v \in DOMAIN active /\ active'[v] = active[v] /\ v # txn[c]
  BY DEF Without
<1>2. \A v \in DOMAIN active \ {txn[c]} : v \in DOMAIN active' /\ active'[v] = active[v]
  BY DEF Without
<1>3. \A d \in Client : txn'[d] = IF d = c THEN None ELSE txn[d]
  BY <1>0
<1>4. \A v \in DOMAIN active' : Excused(v) => Excused(v)'
  BY <1>1, ExcuseKept
<1>5. ASSUME NEW v \in DOMAIN active' PROVE Excused(v)' \/ txn'[active'[v][1]] = v
  <2>1. active[v][1] \in Client
    BY <1>1 DEF TypeOK
  <2>. QED BY <1>1, <1>3, <1>4, <2>1 DEF Accounted
<1>6. ASSUME NEW d \in Client, txn'[d] # None PROVE active'[txn'[d]] = << d, "BEGIN" >>
  <2>1. d # c /\ txn'[d] = txn[d] /\ txn[d] # txn[c] /\ txn[d] \in DOMAIN active
    BY <1>3, <1>6 DEF SessionsApart
  <2>. QED BY <1>2, <2>1, <1>6 DEF Accounted
<1>. QED BY <1>5, <1>6 DEF Accounted

\* A session dropped, its transaction left behind for one of the reasons.
LEMMA DroppedAccounts ==
  ASSUME TypeOK, SessionsApart, Accounted, Growing, NEW c \in Client,
         txn' = [txn EXCEPT ![c] = None], UNCHANGED active,
         \A t : t # None /\ t = txn[c] => Excused(t)'
  PROVE  Accounted'
<1>0. txn \in [Client -> Nat \cup {None}] /\ None \notin Nat
  BY ServerAssumption DEF TypeOK
<1>1. \A d \in Client : txn'[d] = IF d = c THEN None ELSE txn[d]
  BY <1>0
<1>2. \A v \in DOMAIN active : Excused(v) => Excused(v)'
  BY ExcuseKept
<1>3. ASSUME NEW v \in DOMAIN active' PROVE Excused(v)' \/ txn'[active'[v][1]] = v
  <2>1. active[v][1] \in Client /\ v # None
    BY <1>0 DEF TypeOK
  <2>2. CASE active[v][1] = c /\ txn[c] = v
    BY <2>1, <2>2
  <2>3. CASE Excused(v)
    BY <1>2, <2>3
  <2>4. CASE txn[active[v][1]] = v /\ active[v][1] # c
    BY <1>1, <2>1, <2>4
  <2>. QED BY <2>2, <2>3, <2>4 DEF Accounted
<1>. QED BY <1>1, <1>3 DEF Accounted

LEMMA EnvAccounts ==
  ASSUME TypeOK, Accounted, NEW c \in Client, Env(c)
  PROVE  Accounted'
<1>1. UNCHANGED << txn, active >>
  BY DEF Env, Read, Type, SendFails, Quit, Kill, Break, ReadEnd, ReadLine, ReadPanics, FindEnd,
         engineVars
<1>. QED BY <1>1, MarksGrow, SameAccounts DEF Growing

LEMMA ServeAccounts ==
  ASSUME LInv, NEW c \in Client, Serve(c)
  PROVE  Accounted'
<1>0. TypeOK /\ SessionsApart /\ Accounted /\ Orderly /\ Growing
  BY MarksGrow DEF LInv, IInv, Growing
<1>1. next_version \notin DOMAIN active
  BY <1>0 DEF TypeOK
\* The line is known to leave its transaction, or the engine failed.
<1>2. ASSUME NEW lines \in SUBSET Line, lines \subseteq {"Unplannable", "EXPLAIN Unplannable", "SHOW TABLE missing", "Panics"},
             Begins(c, Request(c) \in lines), UNCHANGED txn
      PROVE  Accounted'
  <2>1. CASE Request(c) \notin lines
    BY <1>0, <1>2, <2>1, SameAccounts DEF Begins
  <2>2. CASE Request(c) \in lines
    <3>1. active' = With(c) /\ active'[next_version] = << c, Request(c) >>
      BY <1>2, <2>2 DEF Begins, With
    <3>2. \A n : n = next_version => Excused(n)'
      BY <1>2, <2>2, <3>1, NowExcused
    <3>. QED BY <1>0, <1>2, <3>1, <3>2, LeftAccounts
  <2>. QED BY <2>1, <2>2
<1>3. ASSUME EngineFails(c), BeginFails(c), UNCHANGED txn
      PROVE  Accounted'
  <2>1. CASE UNCHANGED engineVars
    BY <1>0, <1>3, <2>1, SameAccounts DEF engineVars
  <2>2. CASE Begins(c, FALSE)
    BY <1>0, <1>3, <2>2, SameAccounts DEF Begins
  <2>3. CASE Begins(c, TRUE)
    <3>1. active' = With(c) /\ active'[next_version] = << c, Request(c) >>
      BY <2>3 DEF Begins, With
    <3>2. "failed" \in mark'[c]
      BY <1>0, <1>3 DEF EngineFails, Marked, TypeOK
    <3>3. \A n : n = next_version => Excused(n)'
      BY <3>1, <3>2, NowExcused
    <3>. QED BY <1>0, <1>3, <3>1, <3>3, LeftAccounts
  <2>. QED BY <1>3, <2>1, <2>2, <2>3 DEF BeginFails
<1>4. CASE BeginTxn(c)
  <2>1. CASE Begins(c, TRUE) /\ txn' = [txn EXCEPT ![c] = next_version]
    <3>1. active' = With(c)
      BY <2>1 DEF Begins, With
    <3>. QED BY <1>0, <1>4, <2>1, <3>1, OpenedAccounts DEF BeginTxn
  <2>2. CASE EngineFails(c) /\ BeginFails(c) /\ UNCHANGED txn
    BY <1>3, <2>2
  <2>. QED BY <1>4, <2>1, <2>2 DEF BeginTxn
<1>5. CASE EndTxn(c)
  <2>1. CASE active' = Without(txn[c]) /\ txn' = [txn EXCEPT ![c] = None]
    BY <1>0, <1>5, <2>1, EndedAccounts DEF EndTxn
  <2>2. CASE UNCHANGED << txn, active >>
    BY <1>0, <2>2, SameAccounts
  <2>. QED BY <1>5, <2>1, <2>2 DEF EndTxn
<1>6. CASE Autocommit(c)
  <2>1. UNCHANGED txn /\ (\/ Begins(c, Request(c) \in {"Unplannable", "EXPLAIN Unplannable"})
                          \/ EngineFails(c) /\ BeginFails(c))
    BY <1>6 DEF Autocommit
  <2>2. {"Unplannable", "EXPLAIN Unplannable"} \in SUBSET Line
    BY DEF Line, Statement, Explain
  <2>. QED BY <1>2, <1>3, <2>1, <2>2
<1>7. CASE Show(c)
  <2>1. UNCHANGED txn /\ (\/ Begins(c, Request(c) = "SHOW TABLE missing")
                          \/ EngineFails(c) /\ BeginFails(c))
    BY <1>7 DEF Show
  <2>2. {"SHOW TABLE missing"} \in SUBSET Line
    BY DEF Line
  <2>3. Begins(c, Request(c) = "SHOW TABLE missing") => Begins(c, Request(c) \in {"SHOW TABLE missing"})
    BY DEF Begins
  <2>. QED BY <1>2, <1>3, <2>1, <2>2, <2>3
<1>8. CASE TaskPanics(c)
  <2>1. Request(c) = "Panics" /\ txn' = [txn EXCEPT ![c] = None] /\ "broken" \in mark'[c]
    BY <1>0, <1>8 DEF TaskPanics, Marked, TypeOK
  <2>2. CASE txn[c] = None
    <3>1. UNCHANGED txn
      BY <1>0, <2>1, <2>2 DEF TypeOK
    <3>2. Begins(c, TRUE) /\ {"Panics"} \in SUBSET Line
      BY <1>8, <2>2 DEF TaskPanics, Line, Statement
    <3>3. Begins(c, Request(c) \in {"Panics"})
      BY <2>1, <3>2 DEF Begins
    <3>. QED BY <1>2, <3>1, <3>2, <3>3
  <2>3. CASE txn[c] # None
    <3>1. UNCHANGED active /\ active[txn[c]] = << c, "BEGIN" >>
      BY <1>0, <1>8, <2>3 DEF TaskPanics, engineVars, Accounted
    <3>2. \A t : t # None /\ t = txn[c] => Excused(t)'
      BY <2>1, <3>1, NowExcused
    <3>. QED BY <1>0, <2>1, <3>1, <3>2, DroppedAccounts
  <2>. QED BY <2>2, <2>3
<1>9. CASE EndOfStream(c)
  <2>1. /\ toServer[c] = << >> /\ ~up[c] /\ txn' = [txn EXCEPT ![c] = None]
        /\ UNCHANGED << active, mark >>
    BY <1>9 DEF EndOfStream, engineVars
  <2>2. state[c] \in {"prompt", "waiting", "leaving", "gone"}
    BY <1>0 DEF TypeOK
  <2>3. ASSUME txn[c] # None PROVE ~Untroubled(c)
    BY <1>0, <2>1, <2>2, <2>3 DEF Orderly, LeavesInOrder
  <2>4. ASSUME txn[c] # None
        PROVE  active[txn[c]] = << c, "BEGIN" >> /\ mark[c] \cap {"broken", "misled", "failed"} # {}
    BY <1>0, <2>3, <2>4 DEF Accounted, Untroubled
  <2>5. \A t : t # None /\ t = txn[c] => Excused(t)'
    BY <2>1, <2>4, NowExcused
  <2>. QED BY <1>0, <2>1, <2>5, DroppedAccounts
<1>10. CASE Reject(c) \/ RunInTxn(c) \/ SendEnd(c)
  BY <1>0, <1>10, SameAccounts DEF Reject, RunInTxn, SendEnd, engineVars
<1>. QED BY <1>4, <1>5, <1>6, <1>7, <1>8, <1>9, <1>10 DEF Serve

-----------------------------------------------------------------------------
(* How clients leave                                                       *)

LEMMA UnmovedOrder ==
  ASSUME NEW c \in Client, Untroubled(c) => LeavesInOrder(c), Unmoved(c)
  PROVE  Untroubled(c)' => LeavesInOrder(c)'
BY DEF Unmoved, Untroubled, LeavesInOrder

LEMMA EnvOrder ==
  ASSUME LInv, NEW c \in Client, Env(c), Untroubled(c)'
  PROVE  LeavesInOrder(c)'
<1>0. TypeOK /\ ClientInv(c)
  BY DEF LInv, IInv
<1>1. Untroubled(c)
  BY <1>0, MarksGrow DEF Untroubled
<1>2. LeavesInOrder(c)
  BY <1>1 DEF LInv, Orderly
<1>3. "misled" \notin mark[c] /\ "misled" \notin mark'[c] /\ "broken" \notin mark'[c]
  BY <1>1 DEF Untroubled
<1>4. ~Kill(c) /\ ~Break(c) /\ ~ReadPanics(c)
  BY <1>0, <1>3 DEF Kill, Break, ReadPanics, Marked, TypeOK
<1>5. ~SendFails(c) /\ ~FindEnd(c)
  BY <1>2 DEF SendFails, FindEnd, LeavesInOrder
<1>6. ASSUME NEW line \in Requests[c], Type(c, line) PROVE LeavesInOrder(c)'
  BY <1>0, <1>6 DEF Type, TypeOK, LeavesInOrder
<1>7. CASE Quit(c)
  <2>1. state[c] = "prompt" /\ up[c] /\ DropClient(c) /\ UNCHANGED << toClient, task, txn >>
    BY <1>2, <1>7 DEF Quit, LeavesInOrder
  <2>2. toServer[c] = << >> /\ toClient[c] = << >> /\ task[c] = "reading" /\ Knows(c)
    BY <1>0, <1>3, <2>1 DEF ClientInv, Live, Phase
  <2>3. CASE txn_version[c] # None
    <3>1. /\ state'[c] = "leaving" /\ toServer'[c] = Append(toServer[c], "ROLLBACK")
          /\ UNCHANGED up
      BY <1>0, <2>1, <2>3 DEF DropClient, TypeOK
    <3>2. Append(<< >>, "ROLLBACK") = << "ROLLBACK" >>
      OBVIOUS
    <3>. QED BY <2>1, <2>2, <3>1, <3>2 DEF LeavesInOrder
  <2>4. CASE txn_version[c] = None
    <3>1. state'[c] = "gone" /\ UNCHANGED toServer
      BY <1>0, <2>1, <2>4 DEF DropClient, TypeOK
    <3>2. Len(toClient[c]) = 0
      BY <2>2
    <3>3. txn[c] = None
      BY <2>2, <2>4, <3>2 DEF Knows
    <3>. QED BY <2>1, <2>2, <3>1, <3>3 DEF LeavesInOrder
  <2>. QED BY <2>3, <2>4
<1>8. CASE ReadEnd(c)
  <2>1. toClient[c] # << >> /\ UNCHANGED << toServer, task, txn >>
    BY <1>8 DEF ReadEnd
  <2>2. CASE state[c] = "waiting"
    <3>1. state'[c] = "prompt" /\ up'[c]
      BY <1>0, <1>2, <1>8, <2>2 DEF ReadEnd, TypeOK, LeavesInOrder
    <3>. QED BY <3>1 DEF LeavesInOrder
  <2>3. CASE state[c] = "leaving"
    <3>1. state'[c] = "gone"
      BY <1>0, <1>8, <2>3 DEF ReadEnd, TypeOK
    <3>. QED BY <1>2, <2>1, <2>3, <3>1 DEF LeavesInOrder
  <2>. QED BY <1>8, <2>2, <2>3 DEF ReadEnd
<1>9. CASE ReadLine(c)
  <2>1. /\ toClient[c] # << >> /\ state[c] \in {"waiting", "leaving"}
        /\ UNCHANGED << state, up, toServer, task, txn >>
    BY <1>9 DEF ReadLine
  <2>. QED BY <1>2, <2>1 DEF LeavesInOrder
<1>. QED BY <1>4, <1>5, <1>6, <1>7, <1>8, <1>9 DEF Env, Read

LEMMA ServeOrder ==
  ASSUME LInv, NEW c \in Client, Serve(c), Untroubled(c)'
  PROVE  LeavesInOrder(c)'
<1>0. TypeOK
  BY DEF LInv, IInv
<1>1. Untroubled(c)
  BY <1>0, MarksGrow DEF Untroubled
<1>2. LeavesInOrder(c)
  BY <1>1 DEF LInv, Orderly
<1>3. ~EngineFails(c) /\ ~TaskPanics(c)
  <2>1. "failed" \notin mark'[c] /\ "broken" \notin mark'[c]
    BY DEF Untroubled
  <2>2. \A m \in Mark : Marked(c, m) => m \in mark'[c]
    BY <1>0 DEF Marked, TypeOK
  <2>. QED BY <2>1, <2>2 DEF EngineFails, TaskPanics, Mark
<1>4. UNCHANGED << state, up >>
  BY <1>3 DEF Serve, Reject, BeginTxn, EndTxn, RunInTxn, Autocommit, Show, SendEnd, EndOfStream,
              Answer, clientVars
\* A client that waits or types.
<1>5. CASE state[c] \notin {"leaving", "gone"}
  BY <1>2, <1>4, <1>5 DEF LeavesInOrder
\* A ROLLBACK that Drop sent.
<1>6. CASE state[c] = "leaving" /\ Reading(c)
  <2>1. toServer[c] = << "ROLLBACK" >> /\ up[c]
    BY <1>2, <1>6 DEF LeavesInOrder, Reading
  <2>2. Request(c) = "ROLLBACK" /\ Tail(toServer[c]) = << >>
    BY <2>1 DEF Request
  <2>3. Reject(c) \/ EndTxn(c)
    BY <1>3, <1>6, <2>2 DEF Serve, BeginTxn, RunInTxn, Autocommit, Show, SendEnd, EndOfStream,
                      Reading, IsSql, Statement, Row, Explain
  <2>4. toServer'[c] = Tail(toServer[c]) /\ txn'[c] = None
    <3>1. CASE Reject(c)
      BY <1>0, <2>2, <3>1 DEF Reject, Answer, TypeOK
    <3>2. CASE EndTxn(c)
      BY <1>0, <1>3, <3>2 DEF EndTxn, Answer, TypeOK
    <3>. QED BY <2>3, <3>1, <3>2
  <2>. QED BY <1>4, <1>6, <2>1, <2>2, <2>4 DEF LeavesInOrder
\* The end of an answer, or of the stream.
<1>7. CASE state[c] \in {"leaving", "gone"} /\ ~Reading(c)
  <2>1. SendEnd(c) \/ EndOfStream(c)
    BY <1>3, <1>7 DEF Serve, Reject, BeginTxn, EndTxn, RunInTxn, Autocommit, Show
  <2>2. UNCHANGED toServer /\ txn'[c] \in {txn[c], None}
    BY <1>0, <2>1 DEF SendEnd, EndOfStream, TypeOK
  <2>3. ASSUME state[c] = "leaving", toServer[c] = << "ROLLBACK" >>, task[c] = "reading"
        PROVE  FALSE
    <3>1. toServer[c] # << >>
      BY <2>3
    <3>. QED BY <1>7, <2>3, <3>1 DEF Reading
  <2>. QED BY <1>2, <1>4, <1>7, <2>2, <2>3 DEF LeavesInOrder
<1>8. ~(state[c] = "gone" /\ Reading(c))
  BY <1>2 DEF LeavesInOrder, Reading
<1>. QED BY <1>5, <1>6, <1>7, <1>8

-----------------------------------------------------------------------------

LEMMA LeftInit == Init => LInv
<1>. SUFFICES ASSUME Init PROVE LInv
  OBVIOUS
<1>1. Accounted
  BY DEF Init, Accounted
<1>2. Orderly
  BY DEF Init, Orderly, LeavesInOrder
<1>. QED BY <1>1, <1>2, InitKnows DEF LInv

LEMMA LeftStep == LInv /\ [Next]_vars => LInv'
<1>. SUFFICES ASSUME LInv, [Next]_vars PROVE LInv'
  OBVIOUS
<1>0. IInv' /\ TypeOK /\ Accounted /\ Orderly
  BY StepKnows DEF LInv, IInv
<1>1. CASE UNCHANGED vars
  <2>1. UNCHANGED << txn, active, mark >> /\ \A c \in Client : Unmoved(c)
    BY <1>1 DEF Unmoved, vars, clientVars, engineVars
  <2>2. Accounted'
    BY <1>0, <2>1, SameAccounts DEF Growing
  <2>3. Orderly'
    BY <1>0, <2>1, UnmovedOrder DEF Orderly
  <2>. QED BY <1>0, <2>2, <2>3 DEF LInv
<1>2. ASSUME NEW c \in Client, Serve(c) PROVE LInv'
  <2>1. Accounted'
    BY <1>2, ServeAccounts
  <2>2. ASSUME NEW d \in Client PROVE Untroubled(d)' => LeavesInOrder(d)'
    BY <1>0, <1>2, ServeOrder, ServeOthers, UnmovedOrder DEF Orderly
  <2>3. Orderly'
    BY <2>2 DEF Orderly
  <2>. QED BY <1>0, <2>1, <2>3 DEF LInv
<1>3. ASSUME NEW c \in Client, Env(c) PROVE LInv'
  <2>1. Accounted'
    BY <1>0, <1>3, EnvAccounts
  <2>2. ASSUME NEW d \in Client PROVE Untroubled(d)' => LeavesInOrder(d)'
    BY <1>0, <1>3, EnvOrder, EnvOthers, UnmovedOrder DEF Orderly
  <2>3. Orderly'
    BY <2>2 DEF Orderly
  <2>. QED BY <1>0, <2>1, <2>3 DEF LInv
<1>. QED BY <1>1, <1>2, <1>3 DEF Next, Env

(* A transaction that no session uses any more is left active only because *)
(* the planner refused its statement, the table shown was not there, the   *)
(* statement panicked, its client was misled or its connection ended       *)
(* early, or the engine failed: every other request ends what it began,    *)
(* and a client that quits ends its own (Session::execute and get_table in *)
(* sql/engine/mod.rs, Drop in client.rs).                                  *)
THEOREM LeftCorrect == Spec => []LeftActiveForKnownReasons
<1>1. LInv => LeftActiveForKnownReasons
  <2>1. SUFFICES ASSUME LInv, NEW v \in DOMAIN active, v \notin {txn[c] : c \in Client}
                 PROVE  Excused(v)
    BY DEF LeftActiveForKnownReasons, Excused
  <2>2. active[v][1] \in Client
    BY <2>1 DEF LInv, IInv, TypeOK
  <2>. QED BY <2>1, <2>2 DEF LInv, Accounted
<1>. QED BY <1>1, LeftInit, LeftStep, PTL DEF Spec

=============================================================================
