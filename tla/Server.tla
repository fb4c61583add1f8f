-------------------------------- MODULE Server --------------------------------
(***************************************************************************)
(* The server's tasks, one per connection (src/src/bin/server.rs), the     *)
(* session each of them drives (Session in src/src/sql/engine/mod.rs) and  *)
(* the command-line clients (src/src/bin/client.rs).                       *)
(*                                                                         *)
(* A request is a line; an answer is the lines of a result followed by the *)
(* line RESPONSE_END.  What a statement does to the tables is in Sql; here *)
(* it is known by how it ends and by which transactions it begins and ends *)
(* in the engine.  Connections break, clients are killed and calls of the  *)
(* engine fail.                                                            *)
(***************************************************************************)
EXTENDS Integers, Sequences

CONSTANTS
    Client,         \* the clients, each with one connection
    Requests,       \* the lines each user may type, subsets of Line
    MaxRequests,    \* bound: lines typed in a behaviour
    MaxFaults,      \* bound: calls of the engine that fail, connections that break and
                    \* clients that are killed
    None            \* no transaction, no word

VARIABLES
    state,          \* client: "prompt", "waiting", "leaving" (in Drop) or "gone"
    txn_version,    \* client: the transaction it believes to be open
    up,             \* the connection is there
    toServer,       \* lines sent and not yet read by the server
    toClient,       \* lines sent and not yet read by the client
    task,           \* server: "reading", "ending" (the end is still to be sent) or "ended"
    txn,            \* session: the open transaction
    active,         \* engine: the transactions that have begun and not ended, with
                    \* the client and the line that each was begun for
    next_version,   \* engine: the next version
    mark,           \* history: what befell each client, see Mark
    typed, faults   \* counters for the bounds

clientVars == << state, txn_version >>
engineVars == << active, next_version >>
vars == << clientVars, up, toServer, toClient, task, txn, engineVars, mark, typed, faults >>

-----------------------------------------------------------------------------
(* Lines                                                                   *)

\* What a user may type, by what becomes of it: the transaction statements,
\* text the parser refuses, statements that succeed, are refused by an
\* executor, are refused by the planner or make the task panic, EXPLAIN, and
\* SELECTs one row of which begins with TRANSACTION.
Row == {"COMMIT row", "BEGIN row", "one word row"}
Statement == {"Fine", "Refused", "Unplannable", "Panics"} \cup Row
Explain == {"EXPLAIN Fine", "EXPLAIN Unplannable"}
Line == {"BEGIN", "COMMIT", "ROLLBACK", "Garbage"} \cup Statement \cup Explain
        \cup {"SHOW TABLES", "SHOW TABLE t", "SHOW TABLE missing"}

ASSUME ServerAssumption ==
    /\ MaxRequests \in Nat /\ MaxFaults \in Nat
    /\ None \notin Nat /\ None \notin {"BEGIN", "COMMIT", "ROLLBACK"}
    /\ Requests \in [Client -> SUBSET Line]

\* SqlRequest::parse.  Everything else is SQL.
IsSql(line) == line \notin {"SHOW TABLES", "SHOW TABLE t", "SHOW TABLE missing"}

\* The lines of an answer: those that begin with TRANSACTION, the end, and all
\* others.  In a transaction line of its own the server names the version.
Text == [line |-> "text", version |-> None, word |-> None, row |-> FALSE]
End == [Text EXCEPT !.line = "!!!end!!!"]
Transaction(v, word) == [line |-> "TRANSACTION", version |-> v, word |-> word, row |-> FALSE]
RowLine(word) == [line |-> "TRANSACTION", version |-> 0, word |-> word, row |-> TRUE]
AnswerLine == [line : {"text", "!!!end!!!", "TRANSACTION"}, version : Nat \cup {None},
               word : {None, "BEGIN", "COMMIT", "ROLLBACK"}, row : BOOLEAN]

\* ResultSet::to_string: a table of rows has lines before and after them, the
\* other results and the errors are one line.
ToString(request) ==
    CASE request = "COMMIT row"   -> << Text, RowLine("COMMIT"), Text >>
      [] request = "BEGIN row"    -> << Text, RowLine("BEGIN"), Text >>
      [] request = "one word row" -> << Text, RowLine(None), Text >>
      [] OTHER                    -> << Text >>

-----------------------------------------------------------------------------

Init ==
    /\ state = [c \in Client |-> "prompt"]
    /\ txn_version = [c \in Client |-> None]
    /\ up = [c \in Client |-> TRUE]
    /\ toServer = [c \in Client |-> << >>]
    /\ toClient = [c \in Client |-> << >>]
    /\ task = [c \in Client |-> "reading"]
    /\ txn = [c \in Client |-> None]
    /\ active = << >>
    /\ next_version = 1
    /\ mark = [c \in Client |-> {}]
    /\ typed = 0
    /\ faults = 0

-----------------------------------------------------------------------------
(* The client                                                              *)

\* The user quit; the connection ended otherwise; a row was taken for an answer
\* to a transaction statement; a call of the engine failed.
Mark == {"quit", "broken", "misled", "failed"}

Fault == faults < MaxFaults /\ faults' = faults + 1

Marked(c, m) == mark' = [mark EXCEPT ![c] = @ \cup {m}]

\* The user types a line, and execute_sql sends it.
Type(c, line) ==
    /\ state[c] = "prompt" /\ up[c]
    /\ typed < MaxRequests
    /\ typed' = typed + 1
    /\ toServer' = [toServer EXCEPT ![c] = Append(@, line)]
    /\ state' = [state EXCEPT ![c] = "waiting"]
    /\ UNCHANGED << txn_version, up, toClient, task, txn, engineVars, mark, faults >>

\* The send fails: main ends with the error.  The rollback in Drop fails too.
\* (A first line may still go into the broken connection, and execute_sql come
\* back without an answer: then the client is at the same prompt as before.)
SendFails(c) ==
    /\ state[c] = "prompt" /\ ~up[c]
    /\ state' = [state EXCEPT ![c] = "gone"]
    /\ UNCHANGED << txn_version, up, toServer, toClient, task, txn, engineVars, mark, typed, faults >>

\* The end of main: Drop rolls back the transaction it knows of, and waits for
\* the answer.
DropNothing(c) ==
    /\ state' = [state EXCEPT ![c] = "gone"]
    /\ up' = [up EXCEPT ![c] = FALSE]
    /\ UNCHANGED toServer
DropClient(c) ==
    IF txn_version[c] # None /\ up[c]
    THEN /\ state' = [state EXCEPT ![c] = "leaving"]
         /\ toServer' = [toServer EXCEPT ![c] = Append(@, "ROLLBACK")]
         /\ UNCHANGED up
    ELSE /\ state' = [state EXCEPT ![c] = "gone"]
         /\ up' = [up EXCEPT ![c] = FALSE]
         /\ UNCHANGED toServer

\* quit, CTRL-C or CTRL-D at the prompt.
Quit(c) ==
    /\ state[c] = "prompt"
    /\ DropClient(c)
    /\ Marked(c, "quit")
    /\ UNCHANGED << txn_version, toClient, task, txn, engineVars, typed, faults >>

\* The end of an answer.
ReadEnd(c) ==
    /\ state[c] \in {"waiting", "leaving"}
    /\ toClient[c] # << >> /\ Head(toClient[c]) = End
    /\ toClient' = [toClient EXCEPT ![c] = Tail(@)]
    /\ IF state[c] = "waiting"
       THEN state' = [state EXCEPT ![c] = "prompt"] /\ UNCHANGED up
       ELSE state' = [state EXCEPT ![c] = "gone"] /\ up' = [up EXCEPT ![c] = FALSE]
    /\ UNCHANGED << txn_version, toServer, task, txn, engineVars, mark, typed, faults >>

\* Any other line.  One that begins with TRANSACTION is taken for the answer to
\* a transaction statement, also when it is a row.
ReadLine(c) ==
    /\ state[c] \in {"waiting", "leaving"}
    /\ toClient[c] # << >>
    /\ LET l == Head(toClient[c])
       IN  /\ l # End /\ ~(l.line = "TRANSACTION" /\ l.word = None)
           /\ toClient' = [toClient EXCEPT ![c] = Tail(@)]
           /\ txn_version' =
                CASE l.line # "TRANSACTION" -> txn_version
                  [] l.line = "TRANSACTION" /\ l.word \in {"COMMIT", "ROLLBACK"} ->
                       [txn_version EXCEPT ![c] = None]
                  [] l.line = "TRANSACTION" /\ l.word \notin {"COMMIT", "ROLLBACK"} ->
                       [txn_version EXCEPT ![c] = l.version]
           /\ IF l.row THEN Marked(c, "misled") ELSE UNCHANGED mark
    /\ UNCHANGED << state, up, toServer, task, txn, engineVars, typed, faults >>

\* A row that is the one word TRANSACTION: args[2] is out of bounds.  The panic
\* drops the client, and with it what it has received and not read; a second
\* panic, in Drop, ends the process.
ReadPanics(c) ==
    /\ state[c] \in {"waiting", "leaving"}
    /\ toClient[c] # << >>
    /\ Head(toClient[c]).line = "TRANSACTION" /\ Head(toClient[c]).word = None
    /\ \E k \in 2..(Len(toClient[c]) + 1) :
         toClient' = [toClient EXCEPT ![c] = SubSeq(@, k, Len(@))]
    /\ Marked(c, "misled")
    /\ IF state[c] = "waiting" THEN DropClient(c) ELSE DropNothing(c)
    /\ UNCHANGED << txn_version, task, txn, engineVars, typed, faults >>

\* The stream ends while the client waits: execute_sql returns, or returns the
\* error that ends main.
FindEndOnlyWaiting(c) ==
    /\ state[c] = "waiting"
    /\ ~up[c] /\ toClient[c] = << >>
    /\ state' = [state EXCEPT ![c] = "prompt"]
    /\ UNCHANGED << txn_version, up, toServer, toClient, task, txn, engineVars, mark, typed, faults >>
FindEnd(c) ==
    /\ state[c] \in {"waiting", "leaving"}
    /\ ~up[c] /\ toClient[c] = << >>
    /\ \/ state' = [state EXCEPT ![c] = "gone"]
       \/ state[c] = "waiting" /\ state' = [state EXCEPT ![c] = "prompt"]
    /\ UNCHANGED << txn_version, up, toServer, toClient, task, txn, engineVars, mark, typed, faults >>

Kill(c) ==
    /\ state[c] # "gone" /\ Fault
    /\ state' = [state EXCEPT ![c] = "gone"]
    /\ up' = [up EXCEPT ![c] = FALSE]
    /\ Marked(c, "broken")
    /\ UNCHANGED << txn_version, toServer, toClient, task, txn, engineVars, typed >>

\* The connection breaks; of what is on the way each side may get nothing more.
Break(c) ==
    /\ up[c] /\ state[c] # "gone" /\ Fault
    /\ up' = [up EXCEPT ![c] = FALSE]
    /\ \E s \in {toServer[c], << >>} : toServer' = [toServer EXCEPT ![c] = s]
    /\ \E s \in {toClient[c], << >>} : toClient' = [toClient EXCEPT ![c] = s]
    /\ Marked(c, "broken")
    /\ UNCHANGED << clientVars, task, txn, engineVars, typed >>

-----------------------------------------------------------------------------
(* The server                                                              *)

Reading(c) == task[c] = "reading" /\ toServer[c] # << >>
Request(c) == Head(toServer[c])

\* Sends lines; an error in sending is only printed.
Send(c, lines) ==
    toClient' = [toClient EXCEPT ![c] = IF up[c] /\ state[c] # "gone" THEN @ \o lines ELSE @]

\* Takes the request and answers it.  The end of the answer is sent next.
AnswerAndEnd(c, lines) ==
    /\ toServer' = [toServer EXCEPT ![c] = Tail(@)]
    /\ Send(c, Append(lines, End))
    /\ task' = [task EXCEPT ![c] = "ending"]
    /\ UNCHANGED << clientVars, up, typed >>
Answer(c, lines) ==
    /\ toServer' = [toServer EXCEPT ![c] = Tail(@)]
    /\ Send(c, lines)
    /\ task' = [task EXCEPT ![c] = "ending"]
    /\ UNCHANGED << clientVars, up, typed >>

SendEnd(c) ==
    /\ task[c] = "ending"
    /\ Send(c, << End >>)
    /\ task' = [task EXCEPT ![c] = "reading"]
    /\ UNCHANGED << clientVars, up, toServer, txn, engineVars, mark, typed, faults >>

\* An error from the engine.
EngineFails(c) == Fault /\ Marked(c, "failed")

\* Engine::begin, and the end of the transaction unless it survives.
BeginsLate(c, survives) ==
    /\ next_version' = IF survives THEN next_version ELSE next_version + 1
    /\ active' = IF survives
                 THEN [v \in DOMAIN active \cup {next_version} |->
                         IF v = next_version THEN << c, Request(c) >> ELSE active[v]]
                 ELSE active
Begins(c, survives) ==
    /\ next_version' = next_version + 1
    /\ active' = IF survives
                 THEN [v \in DOMAIN active \cup {next_version} |->
                         IF v = next_version THEN << c, Request(c) >> ELSE active[v]]
                 ELSE active

\* What is left in the engine by a begin that fails, or after one a step that
\* does: nothing, the next version, or the active transaction with it.
BeginFails(c) == UNCHANGED engineVars \/ \E survives \in BOOLEAN : Begins(c, survives)

\* A line no transaction is begun or used for: text the parser refuses, a BEGIN
\* inside a transaction, a COMMIT or ROLLBACK outside.
RejectSilently(c) ==
    /\ Reading(c)
    /\ \/ Request(c) = "Garbage"
       \/ Request(c) = "BEGIN" /\ txn[c] # None
       \/ Request(c) \in {"COMMIT", "ROLLBACK"} /\ txn[c] = None
    /\ toServer' = [toServer EXCEPT ![c] = Tail(@)]
    /\ UNCHANGED << clientVars, up, toClient, task, txn, engineVars, mark, typed, faults >>
Reject(c) ==
    /\ Reading(c)
    /\ \/ Request(c) = "Garbage"
       \/ Request(c) = "BEGIN" /\ txn[c] # None
       \/ Request(c) \in {"COMMIT", "ROLLBACK"} /\ txn[c] = None
    /\ Answer(c, << Text >>)
    /\ UNCHANGED << txn, engineVars, mark, faults >>

BeginTxn(c) ==
    /\ Reading(c) /\ Request(c) = "BEGIN" /\ txn[c] = None
    /\ \/ /\ Begins(c, TRUE)
          /\ txn' = [txn EXCEPT ![c] = next_version]
          /\ Answer(c, << Transaction(next_version, "BEGIN") >>)
          /\ UNCHANGED << mark, faults >>
       \/ /\ EngineFails(c)
          /\ BeginFails(c)
          /\ Answer(c, << Text >>)
          /\ UNCHANGED txn

Without(v) == [w \in DOMAIN active \ {v} |-> active[w]]

\* COMMIT and ROLLBACK.  If the engine fails, the session keeps its transaction.
EndTxnForgets(c) ==
    /\ Reading(c) /\ Request(c) \in {"COMMIT", "ROLLBACK"} /\ txn[c] # None
    /\ txn' = [txn EXCEPT ![c] = None]
    /\ UNCHANGED next_version
    /\ \/ /\ active' = Without(txn[c])
          /\ Answer(c, << Transaction(txn[c], Request(c)) >>)
          /\ UNCHANGED << mark, faults >>
       \/ /\ EngineFails(c)
          /\ Answer(c, << Text >>)
          /\ UNCHANGED active
EndTxn(c) ==
    /\ Reading(c) /\ Request(c) \in {"COMMIT", "ROLLBACK"} /\ txn[c] # None
    /\ UNCHANGED next_version
    /\ \/ /\ active' = Without(txn[c])
          /\ txn' = [txn EXCEPT ![c] = None]
          /\ Answer(c, << Transaction(txn[c], Request(c)) >>)
          /\ UNCHANGED << mark, faults >>
       \/ /\ EngineFails(c)
          /\ Answer(c, << Text >>)
          /\ UNCHANGED << txn, active >>

\* A statement or an EXPLAIN inside the session's transaction, which stays open
\* whatever comes of it.
RunInTxn(c) ==
    /\ Reading(c) /\ Request(c) \in Statement \cup Explain /\ Request(c) # "Panics"
    /\ txn[c] # None
    /\ Answer(c, ToString(Request(c)))
    /\ UNCHANGED << txn, engineVars, mark, faults >>

\* A statement or an EXPLAIN in a transaction of its own.  What succeeds is
\* committed and what fails is rolled back; but when Plan::build fails, or the
\* commit or rollback itself, the transaction is dropped as it is.
AutocommitLeaves(c) ==
    /\ Reading(c) /\ Request(c) \in Statement \cup Explain /\ Request(c) # "Panics"
    /\ txn[c] = None
    /\ UNCHANGED txn
    /\ \/ /\ Begins(c, Request(c) \in {"Refused", "Unplannable", "EXPLAIN Unplannable"})
          /\ Answer(c, ToString(Request(c)))
          /\ UNCHANGED << mark, faults >>
       \/ /\ EngineFails(c)
          /\ BeginFails(c)
          /\ Answer(c, << Text >>)
Autocommit(c) ==
    /\ Reading(c) /\ Request(c) \in Statement \cup Explain /\ Request(c) # "Panics"
    /\ txn[c] = None
    /\ UNCHANGED txn
    /\ \/ /\ Begins(c, Request(c) \in {"Unplannable", "EXPLAIN Unplannable"})
          /\ Answer(c, ToString(Request(c)))
          /\ UNCHANGED << mark, faults >>
       \/ /\ EngineFails(c)
          /\ BeginFails(c)
          /\ Answer(c, << Text >>)

\* get_table_names and get_table: a transaction of their own, also when the
\* session has one.  A table that is not there ends get_table before the commit.
Show(c) ==
    /\ Reading(c) /\ ~IsSql(Request(c))
    /\ UNCHANGED txn
    /\ \/ /\ Begins(c, Request(c) = "SHOW TABLE missing")
          /\ Answer(c, << Text >>)
          /\ UNCHANGED << mark, faults >>
       \/ /\ EngineFails(c)
          /\ BeginFails(c)
          /\ Answer(c, << Text >>)

\* The statement panics: the task dies, the socket is closed and the session
\* dropped, and its transaction with it or the one begun for the statement.
\* (A panic in to_string, when the transaction of the statement has ended
\* already, leaves less behind.)
TaskPanics(c) ==
    /\ Reading(c) /\ Request(c) = "Panics"
    /\ task' = [task EXCEPT ![c] = "ended"]
    /\ up' = [up EXCEPT ![c] = FALSE]
    /\ txn' = [txn EXCEPT ![c] = None]
    /\ IF txn[c] = None THEN Begins(c, TRUE) ELSE UNCHANGED engineVars
    /\ toServer' = [toServer EXCEPT ![c] = << >>]
    /\ Marked(c, "broken")
    /\ UNCHANGED << clientVars, toClient, typed, faults >>

\* The end of the stream: handle_request returns and the session is dropped.
\* A transaction that is still open is not ended.
EndOfStream(c) ==
    /\ task[c] = "reading" /\ toServer[c] = << >> /\ ~up[c]
    /\ task' = [task EXCEPT ![c] = "ended"]
    /\ txn' = [txn EXCEPT ![c] = None]
    /\ UNCHANGED << clientVars, up, toServer, toClient, engineVars, mark, typed, faults >>

-----------------------------------------------------------------------------

Serve(c) ==
    \/ Reject(c) \/ BeginTxn(c) \/ EndTxn(c) \/ RunInTxn(c) \/ Autocommit(c)
    \/ Show(c) \/ TaskPanics(c) \/ SendEnd(c) \/ EndOfStream(c)

Read(c) == ReadEnd(c) \/ ReadLine(c) \/ ReadPanics(c) \/ FindEnd(c)

Next ==
    \E c \in Client :
        \/ Serve(c) \/ Read(c)
        \/ \E line \in Requests[c] : Type(c, line)
        \/ SendFails(c) \/ Quit(c) \/ Kill(c) \/ Break(c)

\* The runtime goes on with every task whose socket has something for it, and a
\* client that waits reads what comes; nobody has to type anything.
Fairness == \A c \in Client : WF_vars(Serve(c)) /\ WF_vars(Read(c))

Spec == Init /\ [][Next]_vars
FairSpec == Spec /\ Fairness

-----------------------------------------------------------------------------

\* The states each part can be in; what the engine counts stays below the next
\* version.
TypeOK ==
    /\ state \in [Client -> {"prompt", "waiting", "leaving", "gone"}]
    /\ txn_version \in [Client -> Nat \cup {None}]
    /\ up \in [Client -> BOOLEAN]
    /\ toServer \in [Client -> Seq(Line)]
    /\ toClient \in [Client -> Seq(AnswerLine)]
    /\ task \in [Client -> {"reading", "ending", "ended"}]
    /\ txn \in [Client -> Nat \cup {None}]
    /\ next_version \in Nat \ {0}
    /\ DOMAIN active \subseteq 1..(next_version - 1)
    /\ \A v \in DOMAIN active : active[v] \in Client \X Line
    /\ mark \in [Client -> SUBSET Mark]
    /\ typed \in Nat /\ faults \in Nat

\* A client that shows its prompt has the answers to everything it sent, all of
\* them and nothing of another: no request and no line is on its way, and the
\* server waits for the next.  (RESPONSE_END in server.rs and client.rs.)
InStep ==
    \A c \in Client : state[c] = "prompt" /\ up[c] =>
        toServer[c] = << >> /\ toClient[c] = << >> /\ task[c] = "reading"

\* The transaction in the client's prompt is the one its session has open, or
\* none if it has none - until a row of a SELECT was taken for the answer to a
\* BEGIN or a COMMIT.  (execute_sql reads txn_version off the answers.)
PromptTellsTransaction ==
    \A c \in Client : state[c] = "prompt" /\ up[c] /\ "misled" \notin mark[c] =>
        txn_version[c] = txn[c]

\* No two sessions use one transaction, and what a session uses has begun and
\* not ended.
SessionsApart ==
    /\ \A c \in Client : txn[c] # None => txn[c] \in DOMAIN active
    /\ \A c, d \in Client : c # d /\ txn[c] # None => txn[c] # txn[d]

\* A transaction that no session uses any more stays active for one of four
\* reasons only: the planner refused its statement or the table shown was not
\* there, its statement panicked, the client of a BEGIN was misled or its
\* connection ended early, or the engine failed.
\* (Session::execute and get_table in sql/engine/mod.rs.)
LeftActiveForKnownReasons ==
    \A v \in DOMAIN active \ {txn[c] : c \in Client} :
        \/ active[v][2] \in {"Unplannable", "EXPLAIN Unplannable", "SHOW TABLE missing", "Panics"}
        \/ active[v][2] = "BEGIN" /\ mark[active[v][1]] \cap {"broken", "misled"} # {}
        \/ "failed" \in mark[active[v][1]]

-----------------------------------------------------------------------------

\* Every request is answered, or the connection has ended and the client
\* notices.
EveryRequestAnswered ==
    \A c \in Client : state[c] = "waiting" ~> state[c] # "waiting"

\* A connection that breaks, or whose client is in Drop, comes to its end: Drop
\* does not wait for ever, and the task ends and drops the session.
EveryConnectionEnds ==
    \A c \in Client :
        (state[c] = "leaving" \/ ~up[c]) ~> (state[c] # "leaving" /\ task[c] = "ended")

=============================================================================
