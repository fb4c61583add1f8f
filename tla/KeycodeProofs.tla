---------------------------- MODULE KeycodeProofs ----------------------------
(***************************************************************************)
(* Proofs about the encoding of keys, for any byte strings, names and      *)
(* values, and any number of stored keys.                                  *)
(***************************************************************************)
EXTENDS Keycode, FiniteSetTheorems, SequenceTheorems, TLAPS

Plain(c, r, x) == c
Never(c, n, r) == FALSE
Induct == INSTANCE Induction WITH Step <- Plain, Holds <- Never

(* An instance has its own names for the operators on finite sets.         *)
LEMMA SameSets == \A S : /\ IsFiniteSet(S) <=> Induct!IsFiniteSet(S)
                         /\ Cardinality(S) = Induct!Cardinality(S)
BY DEF IsFiniteSet, Induct!IsFiniteSet, Cardinality, Induct!Cardinality

-----------------------------------------------------------------------------
(* Byte strings, taken apart at their first byte                           *)

String == Seq(Byte)

(* A byte before a string: what the string is then.                        *)
LEMMA ConsString ==
  ASSUME NEW x \in Byte, NEW s \in String
  PROVE  /\ Cons(x, s) \in String /\ Cons(x, s) # << >>
         /\ Len(s) \in Nat /\ Len(Cons(x, s)) = Len(s) + 1
         /\ Cons(x, s)[1] = x
         /\ \A i \in 1..Len(s) : Cons(x, s)[i + 1] = s[i]
<1>. DEFINE u == << x >> \o s
            n == Len(s)
<1>1. << x >> \in Seq(Byte) /\ Len(<< x >>) = 1 /\ << x >>[1] = x
  OBVIOUS
<1>2. n \in Nat
  BY LenProperties DEF String
<1>3. /\ u \in Seq(Byte) /\ Len(u) = 1 + n
      /\ \A i \in 1..(1 + n) : u[i] = IF i <= 1 THEN << x >>[i] ELSE s[i - 1]
  BY <1>1, ConcatProperties DEF String
<1>. HIDE DEF u, n
<1>4. u[1] = x
  BY <1>1, <1>2, <1>3
<1>5. ASSUME NEW i \in 1..n PROVE u[i + 1] = s[i]
  <2>. DEFINE j == i + 1
  <2>1. j \in 1..(1 + n) /\ ~(j <= 1) /\ j - 1 = i
    BY <1>2
  <2>. HIDE DEF j
  <2>2. u[j] = s[i]
    BY <1>3, <2>1
  <2>. QED BY <2>2 DEF j
<1>6. u # << >>
  BY <1>2, <1>3
<1>. QED BY <1>2, <1>3, <1>4, <1>5, <1>6 DEF Cons, String, u, n

(* A string that is not empty is a byte before a string.                   *)
LEMMA TakeApart ==
  ASSUME NEW s \in String, s # << >>
  PROVE  /\ \E x \in Byte, r \in String : s = Cons(x, r) /\ Len(s) = Len(r) + 1
         /\ Head(s) \in Byte /\ Tail(s) \in String /\ s = Cons(Head(s), Tail(s))
<1>1. Len(s) \in Nat /\ Len(s) > 0 /\ s \in Seq(Byte)
  BY EmptySeq DEF String
<1>2. s = SubSeq(s, 1, Len(s)) /\ SubSeq(s, 1, Len(s)) = << s[1] >> \o SubSeq(s, 2, Len(s))
  BY <1>1, SubSeqFull, SubSeqRecursiveFirst
<1>3. /\ Head(s) \in Byte /\ Tail(s) \in String /\ Head(s) = s[1] /\ Tail(s) = SubSeq(s, 2, Len(s))
      /\ Len(Tail(s)) = Len(s) - 1
  BY <1>1, HeadTailProperties, TailIsSubSeq DEF String
<1>4. s = Cons(Head(s), Tail(s))
  BY <1>2, <1>3 DEF Cons
<1>5. Len(s) = Len(Tail(s)) + 1
  BY <1>1, <1>3
<1>. QED BY <1>3, <1>4, <1>5, Zenon

(* A byte before a string tells the byte and the string.                   *)
LEMMA SameCons ==
  ASSUME NEW x \in Byte, NEW s \in String, NEW y \in Byte, NEW t \in String
  PROVE  Cons(x, s) = Cons(y, t) <=> x = y /\ s = t
<1>. SUFFICES ASSUME Cons(x, s) = Cons(y, t) PROVE x = y /\ s = t
  OBVIOUS
<1>1. x = y
  BY ConsString
<1>2. << x >> \in Seq(Byte)
  OBVIOUS
<1>. QED BY <1>1, <1>2, ConcatSimplifications DEF Cons, String

LEMMA ConcatString ==
  \A s, t \in String : /\ s \o t \in String /\ Len(s \o t) = Len(s) + Len(t)
                       /\ << >> \o t = t /\ s \o << >> = s
BY ConcatProperties, ConcatEmptySeq DEF String

(* Concatenation, byte by byte.                                            *)
LEMMA ConcatCons ==
  \A x \in Byte, s, t \in String : Cons(x, s) \o t = Cons(x, s \o t)
<1>1. \A x \in Byte : << x >> \in Seq(Byte)
  OBVIOUS
<1>. QED BY <1>1, ConcatAssociative DEF Cons, String

LEMMA Concat3 ==
  \A s, t, u \in String : (s \o t) \o u = s \o (t \o u)
BY ConcatAssociative DEF String

(* What follows the same start tells itself.                               *)
LEMMA ConcatSame ==
  \A s, t, u \in String : s \o t = s \o u => t = u
BY ConcatSimplifications DEF String

LEMMA EmptyString == << >> \in String /\ Len(<< >>) = 0
BY EmptySeq DEF String

(* One, two and three bytes.                                               *)
LEMMA ShortStrings ==
  ASSUME NEW x \in Byte, NEW y \in Byte
  PROVE  << x >> = Cons(x, << >>) /\ << x, y >> = Cons(x, Cons(y, << >>))
         /\ << x >> \in String /\ << x, y >> \in String
         /\ Len(<< x, y >>) = 2 /\ << x, y >>[1] = x /\ << x, y >>[2] = y
<1>1. << x >> \in String /\ << x, y >> \in String
  BY DEF String
<1>2. << y >> = Cons(y, << >>) /\ << x >> = Cons(x, << >>)
  BY ConcatEmptySeq DEF Cons, String
<1>3. << x, y >> = << x >> \o << y >>
  <2>. DEFINE u == << x >> \o << y >>
              w == << x, y >>
  <2>1. /\ u \in Seq(Byte) /\ Len(u) = 1 + 1
        /\ \A i \in 1..(1 + 1) : u[i] = IF i <= 1 THEN << x >>[i] ELSE << y >>[i - 1]
    <3>1. << x >> \in Seq(Byte) /\ << y >> \in Seq(Byte) /\ Len(<< x >>) = 1 /\ Len(<< y >>) = 1
      OBVIOUS
    <3>. QED BY <3>1, ConcatProperties
  <2>2. w \in Seq(Byte) /\ Len(w) = 2 /\ w[1] = x /\ w[2] = y
    OBVIOUS
  <2>. HIDE DEF u, w
  <2>3. u[1] = x /\ u[2] = y
    BY <2>1
  <2>4. \A i \in 1..Len(u) : u[i] = w[i]
    BY <2>1, <2>2, <2>3
  <2>5. u = w
    BY <2>1, <2>2, <2>4, SeqEqual
  <2>. QED BY <2>5 DEF u, w
<1>4. Len(<< x, y >>) = 2 /\ << x, y >>[1] = x /\ << x, y >>[2] = y
  OBVIOUS
<1>. QED BY <1>1, <1>2, <1>3, <1>4 DEF Cons

(* Induction over byte strings, over a set.                                *)
LEMMA EachString ==
  ASSUME NEW S, << >> \in S,
         \A x \in Byte, s \in String : s \in S => Cons(x, s) \in S
  PROVE  \A s \in String : s \in S
<1>. SUFFICES ASSUME NEW s \in String PROVE s \in S
  OBVIOUS
<1>. DEFINE T == {n \in 0..Len(s) : \A r \in String : Len(r) = n => r \in S}
<1>1. Len(s) \in Nat
  BY LenProperties DEF String
<1>2. 0 \in T
  <2>1. \A r \in String : Len(r) = 0 => r = << >>
    BY EmptySeq DEF String
  <2>. QED BY <1>1, <2>1
<1>3. ASSUME NEW n \in 0..(Len(s) - 1), n \in T PROVE n + 1 \in T
  <2>1. SUFFICES ASSUME NEW r \in String, Len(r) = n + 1 PROVE r \in S
    BY <1>1, n + 1 \in 0..Len(s)
  <2>2. r # << >>
    BY <2>1, EmptyString
  <2>3. PICK x \in Byte, q \in String : r = Cons(x, q) /\ Len(r) = Len(q) + 1
    BY <2>2, TakeApart
  <2>4. Len(q) = n
    <3>1. Len(q) \in Nat
      BY LenProperties DEF String
    <3>. QED BY <2>1, <2>3, <3>1
  <2>. QED BY <1>3, <2>3, <2>4
<1>. HIDE DEF T
<1>4. \A n \in 0..Len(s) : n \in T
  BY <1>1, <1>2, <1>3, Induct!Upwards, Zenon
<1>5. Len(s) \in T
  BY <1>1, <1>4
<1>. QED BY <1>5 DEF T

-----------------------------------------------------------------------------
(* Concatenation, with its definition out of sight                         *)

Cat(s, t) == s \o t

LEMMA CatString ==
  /\ \A s, t \in String : Cat(s, t) \in String /\ Len(Cat(s, t)) = Len(s) + Len(t)
  /\ \A t \in String : Cat(<< >>, t) = t
  /\ \A s \in String : Cat(s, << >>) = s
BY ConcatString DEF Cat

LEMMA CatCons ==
  \A x \in Byte, s, t \in String : Cat(Cons(x, s), t) = Cons(x, Cat(s, t))
BY ConcatCons DEF Cat

LEMMA Cat3 ==
  \A s, t, u \in String : Cat(Cat(s, t), u) = Cat(s, Cat(t, u))
BY Concat3 DEF Cat

LEMMA CatSame ==
  \A s, t, u \in String : Cat(s, t) = Cat(s, u) => t = u
BY ConcatSame DEF Cat

-----------------------------------------------------------------------------
(* Escaped bytes                                                           *)

\* The recursion of FlattenSeq.
Flattens(seqs, n, f) == f = [i \in 1..n |-> IF i = 1 THEN seqs[i] ELSE f[i - 1] \o seqs[i]]

(* There is a function that FlattenSeq's recursion describes.              *)
LEMMA FlattenExists ==
  ASSUME NEW seqs, NEW n \in Nat
  PROVE  \E f : Flattens(seqs, n, f)
<1>. DEFINE T == {m \in 0..n : \E f : Flattens(seqs, m, f)}
<1>1. 0 \in T
  <2>1. Flattens(seqs, 0, [i \in 1..0 |-> seqs])
    BY DEF Flattens
  <2>. QED BY <2>1
<1>2. ASSUME NEW m \in 0..(n - 1), m \in T PROVE m + 1 \in T
  <2>1. PICK f : Flattens(seqs, m, f)
    BY <1>2
  <2>. DEFINE g == [i \in 1..(m + 1) |->
                      IF i = m + 1 THEN IF i = 1 THEN seqs[i] ELSE f[i - 1] \o seqs[i] ELSE f[i]]
  <2>2. m \in Nat /\ m + 1 \in 0..n
    OBVIOUS
  <2>3. \A i \in 1..m : g[i] = f[i]
    BY <2>2
  <2>4. \A i \in 1..m : f[i] = IF i = 1 THEN seqs[i] ELSE f[i - 1] \o seqs[i]
    BY <2>1 DEF Flattens
  <2>5. \A i \in 1..(m + 1) : g[i] = IF i = 1 THEN seqs[i] ELSE g[i - 1] \o seqs[i]
    <3>. SUFFICES ASSUME NEW i \in 1..(m + 1)
                  PROVE  g[i] = IF i = 1 THEN seqs[i] ELSE g[i - 1] \o seqs[i]
      OBVIOUS
    <3>1. i = 1 \/ i - 1 \in 1..m
      BY <2>2
    <3>2. i = m + 1 \/ i \in 1..m
      BY <2>2
    <3>3. i = m + 1 => g[i] = IF i = 1 THEN seqs[i] ELSE f[i - 1] \o seqs[i]
      BY <2>2
    <3>. HIDE DEF g
    <3>. QED BY <2>3, <2>4, <3>1, <3>2, <3>3
  <2>6. g = [i \in 1..(m + 1) |-> g[i]]
    OBVIOUS
  <2>. HIDE DEF g
  <2>7. Flattens(seqs, m + 1, g)
    BY <2>5, <2>6 DEF Flattens
  <2>. QED BY <2>2, <2>7
<1>. HIDE DEF T
<1>3. \A m \in 0..n : m \in T
  BY <1>1, <1>2, Induct!Upwards, Zenon
<1>4. n \in T
  BY <1>3
<1>. QED BY <1>4 DEF T

(* What a byte is escaped to.                                              *)
LEMMA EscapeString ==
  ASSUME NEW x \in Byte
  PROVE  Escape(x) \in String /\ Escape(x) = IF x = 0 THEN Cons(0, Cons(255, << >>)) ELSE Cons(x, << >>)
<1>1. 0 \in Byte /\ 255 \in Byte
  BY DEF Byte
<1>2. << 0, 255 >> \in String
  BY <1>1 DEF String
<1>6. << 0, 255 >> = Cons(0, Cons(255, << >>))
  <2>1. \A y, z \in Byte : << y, z >> = Cons(y, Cons(z, << >>))
    BY ShortStrings
  <2>. QED BY <1>1, <2>1
<1>5. << x >> \in String /\ << x >> = Cons(x, << >>)
  BY ShortStrings
<1>3. CASE x = 0
  <2>1. Escape(x) = << 0, 255 >>
    BY <1>3 DEF Escape
  <2>. QED BY <1>2, <1>3, <1>6, <2>1
<1>4. CASE x # 0
  <2>1. Escape(x) = << x >>
    BY <1>4 DEF Escape
  <2>. QED BY <1>5, <1>4, <2>1
<1>. QED BY <1>3, <1>4

LEMMA EscapedEmpty == Escaped(<< >>) = << >>
<1>. DEFINE e == [i \in DOMAIN << >> |-> Escape(<< >>[i])]
<1>1. e = << >>
  OBVIOUS
<1>2. FlattenSeq(<< >>) = << >>
  BY DEF FlattenSeq
<1>. QED BY <1>1, <1>2 DEF Escaped

(* What FlattenSeq does of the bytes of a string, with its recursion.      *)
LEMMA EscapedFlattens ==
  ASSUME NEW s \in String, s # << >>
  PROVE  \E f : /\ Escaped(s) = f[Len(s)]
                /\ f[1] = Escape(s[1])
                /\ \A i \in 1..(Len(s) - 1) : f[i + 1] = f[i] \o Escape(s[i + 1])
<1>. DEFINE n == Len(s)
            e == [i \in DOMAIN s |-> Escape(s[i])]
            f == CHOOSE g : Flattens(e, n, g)
<1>1. n \in Nat /\ n # 0 /\ DOMAIN s = 1..n
  BY EmptySeq, LenProperties DEF String
<1>. HIDE DEF n
<1>2. e = [i \in 1..n |-> Escape(s[i])] /\ Len(e) = n
  BY <1>1
<1>3. \A i \in 1..n : e[i] = Escape(s[i])
  BY <1>2
<1>. HIDE DEF e
<1>4. Flattens(e, n, f)
  BY <1>1, FlattenExists
<1>5. FlattenSeq(e) = f[n]
  BY <1>1, <1>2 DEF FlattenSeq, Flattens
<1>. HIDE DEF f
<1>6. \A i \in 1..n : f[i] = IF i = 1 THEN e[i] ELSE f[i - 1] \o e[i]
  BY <1>4 DEF Flattens
<1>7. Escaped(s) = f[n]
  BY <1>5 DEF Escaped, e
<1>8. f[1] = Escape(s[1])
  BY <1>1, <1>3, <1>6
<1>9. ASSUME NEW i \in 1..(n - 1) PROVE f[i + 1] = f[i] \o Escape(s[i + 1])
  <2>. DEFINE j == i + 1
  <2>1. j \in 1..n /\ j # 1 /\ j - 1 = i
    BY <1>1
  <2>. HIDE DEF j
  <2>2. f[j] = f[i] \o Escape(s[j])
    BY <1>3, <1>6, <2>1
  <2>. QED BY <2>2 DEF j
<1>. QED BY <1>7, <1>8, <1>9 DEF n

(* Escaping a string is escaping its first byte and then the rest.         *)
LEMMA EscapedStep ==
  ASSUME NEW x \in Byte, NEW s \in String
  PROVE  /\ s # << >> => Escaped(s) \in String
         /\ Escaped(Cons(x, s)) = Escape(x) \o Escaped(s)
<1>. DEFINE u == Cons(x, s)
            n == Len(s)
<1>1. /\ u \in String /\ u # << >> /\ n \in Nat /\ Len(u) = n + 1 /\ u[1] = x
      /\ \A i \in 1..n : u[i + 1] = s[i]
  BY ConsString
<1>2. \A i \in 1..n : s[i] \in Byte /\ Escape(s[i]) \in String
  BY <1>1, ElementOfSeq, EscapeString DEF String
<1>. HIDE DEF u
<1>3. PICK f : /\ Escaped(u) = f[n + 1]
               /\ f[1] = Escape(x)
               /\ \A i \in 1..n : f[i + 1] = f[i] \o Escape(s[i])
  <2>1. PICK f : /\ Escaped(u) = f[Len(u)] /\ f[1] = Escape(u[1])
                 /\ \A i \in 1..(Len(u) - 1) : f[i + 1] = f[i] \o Escape(u[i + 1])
    BY <1>1, EscapedFlattens
  <2>2. Len(u) - 1 = n
    BY <1>1
  <2>3. \A i \in 1..n : f[i + 1] = f[i] \o Escape(s[i])
    BY <1>1, <2>1, <2>2
  <2>4. Escaped(u) = f[n + 1] /\ f[1] = Escape(x)
    BY <1>1, <2>1
  <2>. QED BY <2>3, <2>4, Zenon
<1>4. CASE s = << >>
  <2>1. n = 0
    BY <1>4, EmptyString
  <2>2. Escaped(u) = Escape(x)
    BY <1>1, <1>3, <2>1
  <2>. QED BY <1>4, <2>2, EscapeString, EscapedEmpty, ConcatString DEF u
<1>5. CASE s # << >>
  <2>1. PICK g : /\ Escaped(s) = g[n]
                 /\ g[1] = Escape(s[1])
                 /\ \A i \in 1..(n - 1) : g[i + 1] = g[i] \o Escape(s[i + 1])
    BY <1>5, EscapedFlattens
  <2>2. n # 0
    BY <1>5, EmptySeq DEF String
  <2>. HIDE DEF n
  <2>. DEFINE T == {i \in 0..n : i # 0 => g[i] \in String /\ f[i + 1] = Escape(x) \o g[i]}
  <2>3. 0 \in T
    BY <1>1
  <2>4. ASSUME NEW i \in 0..(n - 1), i \in T PROVE i + 1 \in T
    <3>1. i \in Nat /\ i + 1 \in 1..n /\ i + 1 \in 0..n
      BY <1>1
    <3>2. f[(i + 1) + 1] = f[i + 1] \o Escape(s[i + 1])
      BY <1>3, <3>1
    <3>3. CASE i = 0
      <4>1. i + 1 = 1 /\ g[1] = Escape(s[1]) /\ f[1] = Escape(x)
        BY <1>3, <2>1, <3>3
      <4>2. g[i + 1] \in String /\ f[(i + 1) + 1] = Escape(x) \o g[i + 1]
        BY <1>2, <3>1, <3>2, <4>1
      <4>. QED BY <3>1, <4>2
    <3>4. CASE i # 0
      <4>1. g[i] \in String /\ f[i + 1] = Escape(x) \o g[i]
        BY <2>4, <3>4
      <4>2. i \in 1..(n - 1)
        BY <1>1, <3>1, <3>4
      <4>3. g[i + 1] = g[i] \o Escape(s[i + 1])
        BY <2>1, <4>2
      <4>4. Escape(x) \in String /\ Escape(s[i + 1]) \in String
        BY <1>2, <3>1, EscapeString
      <4>5. g[i + 1] \in String
        BY <4>1, <4>3, <4>4, ConcatString
      <4>6. (Escape(x) \o g[i]) \o Escape(s[i + 1]) = Escape(x) \o (g[i] \o Escape(s[i + 1]))
        BY <4>1, <4>4, Concat3
      <4>7. f[(i + 1) + 1] = Escape(x) \o g[i + 1]
        BY <3>2, <4>1, <4>3, <4>6
      <4>. QED BY <3>1, <4>5, <4>7
    <3>. QED BY <3>3, <3>4
  <2>. HIDE DEF T
  <2>5. \A i \in 0..n : i \in T
    BY <1>1, <2>3, <2>4, Induct!Upwards, Zenon
  <2>6. n \in T
    BY <1>1, <2>5
  <2>7. g[n] \in String /\ f[n + 1] = Escape(x) \o g[n]
    BY <2>2, <2>6 DEF T
  <2>. QED BY <1>3, <2>1, <2>7 DEF u
<1>. QED BY <1>4, <1>5

(* Escaping byte by byte.                                                  *)
LEMMA EscapedString ==
  /\ Escaped(<< >>) = << >>
  /\ \A s \in String : Escaped(s) \in String
  /\ \A x \in Byte, s \in String : Escaped(Cons(x, s)) = Escape(x) \o Escaped(s)
<1>1. 0 \in Byte
  BY DEF Byte
<1>. QED BY <1>1, EscapedStep, EscapedEmpty, EmptyString

(* Escaping goes through strings piece by piece.                           *)
LEMMA EscapedConcat ==
  ASSUME NEW s \in String, NEW t \in String
  PROVE  Escaped(s \o t) = Escaped(s) \o Escaped(t)
<1>. DEFINE S == {r \in String : Escaped(r \o t) = Escaped(r) \o Escaped(t)}
<1>1. << >> \in S
  BY EmptyString, EscapedString, ConcatString
<1>2. ASSUME NEW x \in Byte, NEW r \in String, r \in S PROVE Cons(x, r) \in S
  <2>1. /\ Cons(x, r) \in String /\ r \o t \in String
        /\ Cons(x, r) \o t = Cons(x, r \o t)
    <3>1. Cons(x, r) \in String
      BY ConsString
    <3>2. r \o t \in String
      BY ConcatString
    <3>3. Cons(x, r) \o t = Cons(x, r \o t)
      BY ConcatCons
    <3>. QED BY <3>1, <3>2, <3>3
  <2>2. /\ Escaped(Cons(x, r \o t)) = Escape(x) \o Escaped(r \o t)
        /\ Escaped(Cons(x, r)) = Escape(x) \o Escaped(r)
        /\ Escaped(r) \in String /\ Escaped(t) \in String /\ Escape(x) \in String
    BY <2>1, EscapedString, EscapeString
  <2>3. Escape(x) \o (Escaped(r) \o Escaped(t)) = (Escape(x) \o Escaped(r)) \o Escaped(t)
    <3>. DEFINE u == Escape(x)
                v == Escaped(r)
                w == Escaped(t)
    <3>1. u \in String /\ v \in String /\ w \in String
      BY <2>2
    <3>. HIDE DEF u, v, w
    <3>2. Cat(u, Cat(v, w)) = Cat(Cat(u, v), w)
      BY <3>1, Cat3
    <3>3. u \o (v \o w) = (u \o v) \o w
      BY <3>2 DEF Cat
    <3>. QED BY <3>3 DEF u, v, w
  <2>. QED BY <1>2, <2>1, <2>2, <2>3
<1>. HIDE DEF S
<1>3. s \in S
  BY <1>1, <1>2, EachString, Zenon
<1>. QED BY <1>3 DEF S

-----------------------------------------------------------------------------
(* Prefixes                                                                *)

Starts(p, s) == \E u \in String : s = p \o u

(* A prefix is what can be continued.                                      *)
LEMMA PrefixStarts ==
  ASSUME NEW p \in String, NEW s \in String
  PROVE  IsPrefix(p, s) <=> Starts(p, s)
<1>. DEFINE n == Len(p)
            m == Len(s)
<1>1. n \in Nat /\ m \in Nat /\ SubSeq(p, 1, n) = p /\ SubSeq(s, 1, m) = s
  BY LenProperties, SubSeqFull DEF String
<1>2. ASSUME IsPrefix(p, s) PROVE Starts(p, s)
  <2>1. n <= m /\ SubSeq(s, 1, n) = p
    BY <1>1, <1>2 DEF IsPrefix
  <2>. HIDE DEF n, m
  <2>2. /\ 1 \in 1..(m + 1) /\ n \in (1 - 1)..m /\ m \in n..m
        /\ \A i \in (n + 1)..m : i \in 1..m
    BY <1>1, <2>1
  <2>3. SubSeq(s, 1, n) \o SubSeq(s, n + 1, m) = SubSeq(s, 1, m)
    <3>. USE DEF m
    <3>. QED BY <2>2, ConcatAdjacentSubSeq DEF String
  <2>4. SubSeq(s, n + 1, m) \in String
    <3>1. \A i \in (n + 1)..m : s[i] \in Byte
      BY <2>2, ElementOfSeq DEF String, m
    <3>2. n + 1 \in Int /\ m \in Int
      BY <1>1
    <3>. QED BY <3>1, <3>2, SubSeqProperties DEF String
  <2>. QED BY <1>1, <2>1, <2>3, <2>4 DEF Starts
<1>3. ASSUME NEW u \in String, s = p \o u PROVE IsPrefix(p, s)
  <2>1. m = n + Len(u) /\ Len(u) \in Nat
    BY <1>3, ConcatProperties, LenProperties DEF String
  <2>2. SubSeq(s, 1, n) = SubSeq(p, 1, n)
    <3>1. CASE n = 0
      BY <3>1, SubSeqEmpty
    <3>2. CASE n # 0
      <4>1. 1 \in 1..n /\ n \in 1..n
        BY <1>1, <3>2
      <4>. QED BY <1>3, <4>1, SubSeqOfConcat1 DEF String
    <3>. QED BY <3>1, <3>2
  <2>. QED BY <1>1, <2>1, <2>2 DEF IsPrefix
<1>. QED BY <1>2, <1>3 DEF Starts

(* Prefixes, byte by byte.                                                 *)
LEMMA StartsCons ==
  ASSUME NEW x \in Byte, NEW p \in String
  PROVE  /\ \A s \in String : Starts(<< >>, s)
         /\ ~Starts(Cons(x, p), << >>)
         /\ \A y \in Byte, s \in String : Starts(Cons(x, p), Cons(y, s)) <=> x = y /\ Starts(p, s)
<1>1. \A s \in String : Starts(<< >>, s)
  BY ConcatString DEF Starts
<1>2. ASSUME NEW u \in String
      PROVE  \E w \in String : w = p \o u /\ Cons(x, p) \o u = Cons(x, w)
  <2>. DEFINE w == p \o u
  <2>1. w \in String
    BY ConcatString
  <2>2. Cons(x, p) \o u = Cons(x, w)
    BY ConcatCons
  <2>. QED BY <2>1, <2>2
<1>3. ~Starts(Cons(x, p), << >>)
  BY <1>2, ConsString DEF Starts
<1>4. ASSUME NEW y \in Byte, NEW s \in String
      PROVE  Starts(Cons(x, p), Cons(y, s)) <=> x = y /\ Starts(p, s)
  <2>1. ASSUME NEW u \in String PROVE Cons(y, s) = Cons(x, p) \o u <=> x = y /\ s = p \o u
    <3>1. PICK w \in String : w = p \o u /\ Cons(x, p) \o u = Cons(x, w)
      BY <1>2
    <3>2. Cons(y, s) = Cons(x, w) <=> x = y /\ s = w
      BY SameCons
    <3>. QED BY <3>1, <3>2, Zenon
  <2>. QED BY <2>1, Zenon DEF Starts
<1>. QED BY <1>1, <1>3, <1>4

(* A common start can be taken off.                                        *)
LEMMA StartsConcat ==
  ASSUME NEW a \in String, NEW p \in String, NEW s \in String
  PROVE  /\ Starts(a, a \o s)
         /\ Starts(a \o p, a \o s) <=> Starts(p, s)
         /\ Starts(a \o p, s) => Starts(a, s)
<1>1. ASSUME NEW u \in String PROVE (a \o p) \o u = a \o (p \o u)
  <2>1. Cat(Cat(a, p), u) = Cat(a, Cat(p, u))
    BY Cat3
  <2>. QED BY <2>1 DEF Cat
<1>2. ASSUME NEW u \in String PROVE p \o u \in String
  BY ConcatString
<1>3. ASSUME NEW u \in String, a \o s = a \o (p \o u) PROVE s = p \o u
  <2>. DEFINE w == p \o u
  <2>1. w \in String /\ a \o s = a \o w
    BY <1>2, <1>3
  <2>. HIDE DEF w
  <2>2. s = w
    BY <2>1, ConcatSame
  <2>. QED BY <2>2 DEF w
<1>4. Starts(a, a \o s)
  BY DEF Starts
<1>5. Starts(a \o p, a \o s) => Starts(p, s)
  BY <1>1, <1>3, Zenon DEF Starts
<1>6. Starts(p, s) => Starts(a \o p, a \o s)
  BY <1>1, Zenon DEF Starts
<1>7. Starts(a \o p, s) => Starts(a, s)
  BY <1>1, <1>2, Zenon DEF Starts
<1>. QED BY <1>4, <1>5, <1>6, <1>7

-----------------------------------------------------------------------------
(* The order of byte strings                                               *)

Differs(s, t) ==
    \E i \in DOMAIN s \cap DOMAIN t : s[i] < t[i] /\ \A j \in 1..(i - 1) : s[j] = t[j]

(* A string is before another as its prefix or where they first differ.    *)
LEMMA BeforeStarts ==
  ASSUME NEW s \in String, NEW t \in String
  PROVE  Before(s, t) <=> (Starts(s, t) /\ s # t) \/ Differs(s, t)
BY PrefixStarts DEF Before, IsStrictPrefix, Differs

(* The empty string is the first.                                          *)
LEMMA BeforeEmpty ==
  ASSUME NEW s \in String
  PROVE  ~Before(s, << >>) /\ (Before(<< >>, s) <=> s # << >>)
<1>1. ~Differs(s, << >>) /\ ~Differs(<< >>, s)
  BY DEF Differs
<1>2. Starts(<< >>, s)
  BY ConcatString DEF Starts
<1>3. Starts(s, << >>) => s = << >>
  BY ConcatSimplifications DEF Starts, String
<1>. QED BY <1>1, <1>2, <1>3, BeforeStarts, EmptyString

(* Where two strings first differ, byte by byte.                           *)
LEMMA DiffersCons ==
  ASSUME NEW x \in Byte, NEW s \in String, NEW y \in Byte, NEW t \in String
  PROVE  Differs(Cons(x, s), Cons(y, t)) <=> x < y \/ (x = y /\ Differs(s, t))
<1>. DEFINE a == Cons(x, s)
            b == Cons(y, t)
            n == Len(s)
            m == Len(t)
<1>1. /\ n \in Nat /\ m \in Nat /\ DOMAIN s = 1..n /\ DOMAIN t = 1..m
      /\ DOMAIN a = 1..(n + 1) /\ DOMAIN b = 1..(m + 1)
      /\ a[1] = x /\ b[1] = y
  BY ConsString, LenProperties DEF String
<1>2. /\ \A i \in 1..n : a[i + 1] = s[i]
      /\ \A i \in 1..m : b[i + 1] = t[i]
  BY ConsString
<1>. HIDE DEF a, b, n, m
<1>3. ASSUME Differs(a, b) PROVE x < y \/ (x = y /\ Differs(s, t))
  <2>1. PICK i \in 1..(n + 1) : i \in 1..(m + 1) /\ a[i] < b[i] /\ \A j \in 1..(i - 1) : a[j] = b[j]
    BY <1>1, <1>3 DEF Differs
  <2>2. CASE i = 1
    BY <1>1, <2>1, <2>2
  <2>3. CASE i # 1
    <3>. DEFINE k == i - 1
    <3>1. k \in 1..n /\ k \in 1..m /\ i = k + 1
      BY <1>1, <2>1, <2>3
    <3>. HIDE DEF k
    <3>2. x = y /\ s[k] < t[k]
      BY <1>1, <1>2, <2>1, <3>1
    <3>3. ASSUME NEW j \in 1..(k - 1) PROVE s[j] = t[j]
      <4>1. j \in 1..n /\ j \in 1..m /\ j + 1 \in 1..(i - 1)
        BY <1>1, <3>1
      <4>2. a[j + 1] = b[j + 1]
        BY <2>1, <4>1
      <4>. QED BY <1>2, <4>1, <4>2
    <3>. QED BY <1>1, <3>1, <3>2, <3>3 DEF Differs
  <2>. QED BY <2>2, <2>3
<1>4. ASSUME x < y PROVE Differs(a, b)
  <2>1. 1 \in DOMAIN a \cap DOMAIN b /\ a[1] < b[1] /\ \A j \in 1..(1 - 1) : a[j] = b[j]
    BY <1>1, <1>4
  <2>. QED BY <2>1 DEF Differs
<1>5. ASSUME x = y, Differs(s, t) PROVE Differs(a, b)
  <2>1. PICK k \in 1..n : k \in 1..m /\ s[k] < t[k] /\ \A j \in 1..(k - 1) : s[j] = t[j]
    BY <1>1, <1>5 DEF Differs
  <2>. DEFINE i == k + 1
  <2>2. i \in DOMAIN a \cap DOMAIN b
    BY <1>1, <2>1
  <2>3. a[i] < b[i]
    BY <1>2, <2>1
  <2>4. ASSUME NEW j \in 1..(i - 1) PROVE a[j] = b[j]
    <3>1. CASE j = 1
      BY <1>1, <1>5, <3>1
    <3>2. CASE j # 1
      <4>. DEFINE l == j - 1
      <4>1. l \in 1..(k - 1) /\ l \in 1..n /\ l \in 1..m /\ j = l + 1
        BY <1>1, <2>1, <3>2
      <4>. HIDE DEF l
      <4>2. s[l] = t[l]
        BY <2>1, <4>1
      <4>. QED BY <1>2, <4>1, <4>2
    <3>. QED BY <3>1, <3>2
  <2>. QED BY <2>2, <2>3, <2>4 DEF Differs
<1>. QED BY <1>3, <1>4, <1>5 DEF a, b

(* The order, byte by byte: it is decided at the first byte or in the rest.*)
LEMMA BeforeCons ==
  ASSUME NEW x \in Byte, NEW s \in String, NEW y \in Byte, NEW t \in String
  PROVE  Before(Cons(x, s), Cons(y, t)) <=> x < y \/ (x = y /\ Before(s, t))
<1>1. Cons(x, s) \in String /\ Cons(y, t) \in String
  BY ConsString
<1>2. Starts(Cons(x, s), Cons(y, t)) <=> x = y /\ Starts(s, t)
  BY StartsCons
<1>3. Cons(x, s) = Cons(y, t) <=> x = y /\ s = t
  BY SameCons
<1>4. Differs(Cons(x, s), Cons(y, t)) <=> x < y \/ (x = y /\ Differs(s, t))
  BY DiffersCons
<1>5. Before(Cons(x, s), Cons(y, t)) <=>
        (Starts(Cons(x, s), Cons(y, t)) /\ Cons(x, s) # Cons(y, t)) \/ Differs(Cons(x, s), Cons(y, t))
  BY <1>1, BeforeStarts
<1>6. Before(s, t) <=> (Starts(s, t) /\ s # t) \/ Differs(s, t)
  BY BeforeStarts
<1>. QED BY <1>2, <1>3, <1>4, <1>5, <1>6

(* It is a strict total order.                                             *)
LEMMA BeforeTotal ==
  \A s, t \in String : s # t <=> Before(s, t) \/ Before(t, s)
<1>. DEFINE S == {s \in String : \A t \in String : s # t <=> Before(s, t) \/ Before(t, s)}
<1>1. << >> \in S
  BY EmptyString, BeforeEmpty
<1>2. ASSUME NEW x \in Byte, NEW s \in String, s \in S PROVE Cons(x, s) \in S
  <2>1. Cons(x, s) \in String /\ Cons(x, s) # << >>
    BY ConsString
  <2>2. ASSUME NEW t \in String
        PROVE  Cons(x, s) # t <=> Before(Cons(x, s), t) \/ Before(t, Cons(x, s))
    <3>1. CASE t = << >>
      BY <2>1, <3>1, BeforeEmpty
    <3>2. CASE t # << >>
      <4>1. PICK y \in Byte, r \in String : t = Cons(y, r)
        BY <3>2, TakeApart
      <4>2. s # r <=> Before(s, r) \/ Before(r, s)
        BY <1>2, <4>1
      <4>3. x # y <=> x < y \/ y < x
        BY DEF Byte
      <4>4. /\ Before(Cons(x, s), Cons(y, r)) <=> x < y \/ (x = y /\ Before(s, r))
            /\ Before(Cons(y, r), Cons(x, s)) <=> y < x \/ (y = x /\ Before(r, s))
        BY BeforeCons
      <4>5. Cons(x, s) = Cons(y, r) <=> x = y /\ s = r
        BY SameCons
      <4>. QED BY <4>1, <4>2, <4>3, <4>4, <4>5
    <3>. QED BY <3>1, <3>2
  <2>. QED BY <2>1, <2>2
<1>. HIDE DEF S
<1>3. \A s \in String : s \in S
  BY <1>1, <1>2, EachString, Zenon
<1>. QED BY <1>3 DEF S

LEMMA BeforeTransitive ==
  \A s, t, u \in String : Before(s, t) /\ Before(t, u) => Before(s, u)
<1>. DEFINE S == {s \in String : \A t, u \in String : Before(s, t) /\ Before(t, u) => Before(s, u)}
<1>1. << >> \in S
  BY EmptyString, BeforeEmpty
<1>2. ASSUME NEW x \in Byte, NEW s \in String, s \in S PROVE Cons(x, s) \in S
  <2>1. Cons(x, s) \in String
    BY ConsString
  <2>2. ASSUME NEW t \in String, NEW u \in String, Before(Cons(x, s), t), Before(t, u)
        PROVE  Before(Cons(x, s), u)
    <3>1. t # << >> /\ u # << >>
      BY <2>1, <2>2, BeforeEmpty
    <3>2. PICK y \in Byte, r \in String : t = Cons(y, r)
      BY <3>1, TakeApart
    <3>3. PICK z \in Byte, q \in String : u = Cons(z, q)
      BY <3>1, TakeApart
    <3>4. x < y \/ (x = y /\ Before(s, r))
      BY <2>2, <3>2, BeforeCons
    <3>5. y < z \/ (y = z /\ Before(r, q))
      BY <2>2, <3>2, <3>3, BeforeCons
    <3>6. Before(s, r) /\ Before(r, q) => Before(s, q)
      BY <1>2
    <3>7. x < z \/ (x = z /\ Before(s, q))
      <4>1. x \in Int /\ y \in Int /\ z \in Int
        BY DEF Byte
      <4>. QED BY <3>4, <3>5, <3>6, <4>1
    <3>. QED BY <3>3, <3>7, BeforeCons
  <2>. QED BY <2>1, <2>2
<1>. HIDE DEF S
<1>3. \A s \in String : s \in S
  BY <1>1, <1>2, EachString, Zenon
<1>. QED BY <1>3 DEF S


-----------------------------------------------------------------------------
(* What a concatenation starts with                                        *)

LEMMA CatStarts ==
  \A p, s : Starts(p, s) <=> \E u \in String : s = Cat(p, u)
BY DEF Starts, Cat

LEMMA CatStartsConcat ==
  \A a, p, s \in String :
      /\ Starts(a, Cat(a, s))
      /\ Starts(Cat(a, p), Cat(a, s)) <=> Starts(p, s)
      /\ Starts(Cat(a, p), s) => Starts(a, s)
BY StartsConcat DEF Cat

-----------------------------------------------------------------------------
(* Bytes and numbers as they are encoded                                   *)

LEMMA Bytes == 0 \in Byte /\ 1 \in Byte /\ 2 \in Byte /\ 3 \in Byte /\ 4 \in Byte /\ 255 \in Byte
BY DEF Byte

LEMMA EscapeCons ==
  ASSUME NEW x \in Byte, NEW s \in String
  PROVE  Cat(Escape(x), s) = IF x = 0 THEN Cons(0, Cons(255, s)) ELSE Cons(x, s)
<1>1. << >> \in String /\ Cons(255, << >>) \in String
  BY Bytes, EmptyString, ConsString
<1>2. Cat(<< >>, s) = s
  BY CatString
<1>3. Cat(Cons(255, << >>), s) = Cons(255, s)
  BY <1>1, <1>2, Bytes, CatCons
<1>4. Cat(Cons(0, Cons(255, << >>)), s) = Cons(0, Cons(255, s))
  BY <1>1, <1>3, Bytes, CatCons
<1>5. Cat(Cons(x, << >>), s) = Cons(x, s)
  BY <1>1, <1>2, CatCons
<1>. QED BY <1>4, <1>5, EscapeString

(* serialize_bytes, one turn of its loop at a time.                        *)
LEMMA EscapedCons ==
  ASSUME NEW x \in Byte, NEW s \in String
  PROVE  /\ Escaped(s) \in String
         /\ Escaped(Cons(x, s)) = IF x = 0 THEN Cons(0, Cons(255, Escaped(s))) ELSE Cons(x, Escaped(s))
<1>1. Escaped(s) \in String
  BY EscapedString
<1>2. Escaped(Cons(x, s)) = Cat(Escape(x), Escaped(s))
  BY EscapedString DEF Cat
<1>. QED BY <1>1, <1>2, EscapeCons

\* What ends a string, and what follows.
End(t) == Cons(0, Cons(0, t))

LEMMA EndString ==
  ASSUME NEW t \in String
  PROVE  End(t) \in String /\ Cons(0, t) \in String /\ Cat(<< 0, 0 >>, t) = End(t)
<1>1. << >> \in String /\ Cons(0, << >>) \in String
  BY Bytes, EmptyString, ConsString
<1>2. << 0, 0 >> = Cons(0, Cons(0, << >>))
  BY Bytes, ShortStrings
<1>3. Cat(<< >>, t) = t
  BY CatString
<1>4. Cat(Cons(0, << >>), t) = Cons(0, t)
  BY <1>1, <1>3, Bytes, CatCons
<1>5. Cat(Cons(0, Cons(0, << >>)), t) = Cons(0, Cons(0, t))
  BY <1>1, <1>4, Bytes, CatCons
<1>6. Cons(0, t) \in String
  BY Bytes, ConsString
<1>7. End(t) \in String
  BY <1>6, Bytes, ConsString DEF End
<1>. QED BY <1>2, <1>5, <1>6, <1>7 DEF End

(* A serialized string ends with the two zeros, whatever comes next.       *)
LEMMA Serialized ==
  ASSUME NEW s \in String, NEW t \in String
  PROVE  SerializeBytes(s) \in String /\ Cat(SerializeBytes(s), t) = Cat(Escaped(s), End(t))
<1>. DEFINE z == << 0, 0 >>
<1>1. z \in String /\ Cat(z, t) = End(t)
  BY Bytes, ShortStrings, EndString
<1>2. Escaped(s) \in String
  BY EscapedString
<1>3. SerializeBytes(s) = Cat(Escaped(s), z)
  BY DEF SerializeBytes, Cat
<1>. HIDE DEF z
<1>4. Cat(Escaped(s), z) \in String /\ Cat(Cat(Escaped(s), z), t) = Cat(Escaped(s), Cat(z, t))
  BY <1>1, <1>2, CatString, Cat3
<1>. QED BY <1>1, <1>3, <1>4

(* Escaped bytes tell what is escaped: nothing else starts with them.      *)
LEMMA EscapedStarts ==
  ASSUME NEW p \in String, NEW s \in String, NEW t \in String
  PROVE  Starts(Escaped(p), Cat(Escaped(s), End(t))) <=> Starts(p, s)
<1>1. ASSUME NEW u \in String, s = Cat(p, u) PROVE Starts(Escaped(p), Cat(Escaped(s), End(t)))
  <2>1. Escaped(p) \in String /\ Escaped(u) \in String /\ End(t) \in String
    BY EscapedString, EndString
  <2>2. Escaped(s) = Cat(Escaped(p), Escaped(u))
    BY <1>1, EscapedConcat DEF Cat
  <2>3. Cat(Cat(Escaped(p), Escaped(u)), End(t)) = Cat(Escaped(p), Cat(Escaped(u), End(t)))
    BY <2>1, Cat3
  <2>4. Cat(Escaped(u), End(t)) \in String
    BY <2>1, CatString
  <2>. QED BY <2>2, <2>3, <2>4, CatStarts
<1>. DEFINE S == {q \in String : \A r \in String :
                      Starts(Escaped(q), Cat(Escaped(r), End(t))) => Starts(q, r)}
<1>2. << >> \in S
  BY EmptyString, StartsCons, Bytes
<1>3. ASSUME NEW x \in Byte, NEW q \in String, q \in S PROVE Cons(x, q) \in S
  <2>. DEFINE A == Escaped(q)
  <2>1. A \in String /\ Cons(x, q) \in String /\ End(t) \in String /\ Cons(0, t) \in String
    BY EscapedString, ConsString, EndString
  <2>2. Escaped(Cons(x, q)) = IF x = 0 THEN Cons(0, Cons(255, A)) ELSE Cons(x, A)
    BY EscapedCons
  <2>3. Cons(255, A) \in String /\ Cons(x, A) \in String
    <3>1. \A y \in Byte : Cons(y, A) \in String
      BY <2>1, ConsString
    <3>. QED BY <3>1, Bytes
  <2>. HIDE DEF A
  <2>4. ASSUME NEW r \in String, Starts(Escaped(Cons(x, q)), Cat(Escaped(r), End(t)))
        PROVE  Starts(Cons(x, q), r)
    <3>1. CASE r = << >>
      <4>1. Cat(Escaped(r), End(t)) = Cons(0, Cons(0, t))
        BY <2>1, <3>1, EscapedString, CatString DEF End
      <4>2. ~Starts(Cons(0, Cons(255, A)), Cons(0, Cons(0, t)))
        <5>1. ~Starts(Cons(255, A), Cons(0, t))
          BY <2>1, Bytes, StartsCons
        <5>. QED BY <2>1, <2>3, <5>1, Bytes, StartsCons
      <4>3. Starts(Cons(x, A), Cons(0, Cons(0, t))) => x = 0
        BY <2>1, Bytes, StartsCons
      <4>. QED BY <2>2, <2>4, <4>1, <4>2, <4>3
    <3>2. CASE r # << >>
      <4>1. PICK y \in Byte, v \in String : r = Cons(y, v)
        BY <3>2, TakeApart
      <4>. DEFINE B == Cat(Escaped(v), End(t))
                  C == Cons(255, Escaped(v))
      <4>2. /\ B \in String /\ Escaped(v) \in String /\ C \in String
            /\ Cons(255, B) \in String
            /\ Cat(C, End(t)) = Cons(255, B)
            /\ Cat(Cons(0, C), End(t)) = Cons(0, Cons(255, B))
            /\ Cat(Cons(y, Escaped(v)), End(t)) = Cons(y, B)
        <5>1. Escaped(v) \in String
          BY EscapedString
        <5>2. B \in String /\ C \in String
          BY <2>1, <5>1, CatString, ConsString, Bytes
        <5>3. Cons(255, B) \in String
          BY <5>2, ConsString, Bytes
        <5>4. Cat(C, End(t)) = Cons(255, B)
          BY <2>1, <5>1, Bytes, CatCons
        <5>5. Cat(Cons(y, Escaped(v)), End(t)) = Cons(y, B)
          BY <2>1, <5>1, Bytes, CatCons
        <5>. HIDE DEF B, C
        <5>6. Cat(Cons(0, C), End(t)) = Cons(0, Cat(C, End(t)))
          BY <2>1, <5>2, Bytes, CatCons
        <5>. QED BY <5>1, <5>2, <5>3, <5>4, <5>5, <5>6
      <4>3. Escaped(r) = IF y = 0 THEN Cons(0, C) ELSE Cons(y, Escaped(v))
        BY <4>1, EscapedCons
      <4>5. Cat(Escaped(r), End(t)) = IF y = 0 THEN Cons(0, Cons(255, B)) ELSE Cons(y, B)
        BY <4>2, <4>3
      <4>7. q \in S /\ (Starts(A, B) => Starts(q, v))
        BY <1>3 DEF A
      <4>. HIDE DEF B, C
      <4>8. /\ Starts(Cons(0, Cons(255, A)), Cons(0, Cons(255, B))) <=> Starts(Cons(255, A), Cons(255, B))
            /\ Starts(Cons(255, A), Cons(255, B)) <=> Starts(A, B)
        BY <2>1, <2>3, <4>2, Bytes, StartsCons
      <4>10. /\ Starts(Cons(0, Cons(255, A)), Cons(y, B)) => y = 0
             /\ Starts(Cons(x, A), Cons(0, Cons(255, B))) => x = 0
        BY <2>1, <2>3, <4>2, Bytes, StartsCons
      <4>11. Starts(Cons(x, A), Cons(y, B)) <=> x = y /\ Starts(A, B)
        BY <2>1, <4>2, StartsCons
      <4>9. x = y /\ Starts(A, B)
        BY <2>2, <2>4, <4>5, <4>8, <4>10, <4>11
      <4>. QED BY <4>1, <4>7, <4>9, StartsCons
    <3>. QED BY <3>1, <3>2
  <2>. QED BY <2>1, <2>4
<1>. HIDE DEF S
<1>4. p \in S
  BY <1>2, <1>3, EachString, Zenon
<1>5. Starts(Escaped(p), Cat(Escaped(s), End(t))) => Starts(p, s)
  BY <1>4 DEF S
<1>. QED BY <1>1, <1>5, CatStarts

(* Strings that start with each other are the same.                        *)
LEMMA StartsBoth ==
  ASSUME NEW s \in String, NEW t \in String, Starts(s, t), Starts(t, s)
  PROVE  s = t
<1>1. PICK u \in String : t = Cat(s, u)
  BY CatStarts
<1>2. PICK v \in String : s = Cat(t, v)
  BY CatStarts
<1>3. Len(t) = Len(s) + Len(u) /\ Len(s) = Len(t) + Len(v)
  BY <1>1, <1>2, CatString
<1>4. Len(s) \in Nat /\ Len(t) \in Nat /\ Len(u) \in Nat /\ Len(v) \in Nat
  BY LenProperties DEF String
<1>5. Len(u) = 0
  BY <1>3, <1>4
<1>6. u = << >>
  BY <1>5, EmptySeq DEF String
<1>. QED BY <1>1, <1>6, CatString

(* A serialized string ends where it says: it is no part of another.       *)
LEMMA SerializedApart ==
  ASSUME NEW s \in String, NEW t \in String, NEW u \in String, NEW v \in String,
         Cat(SerializeBytes(s), u) = Cat(SerializeBytes(t), v)
  PROVE  s = t /\ u = v
<1>1. /\ SerializeBytes(s) \in String /\ Cat(SerializeBytes(s), u) = Cat(Escaped(s), End(u))
      /\ SerializeBytes(t) \in String /\ Cat(SerializeBytes(t), v) = Cat(Escaped(t), End(v))
  BY Serialized
<1>2. /\ Escaped(s) \in String /\ End(u) \in String
      /\ Escaped(t) \in String /\ End(v) \in String
  BY EscapedString, EndString
<1>3. Starts(Escaped(s), Cat(Escaped(s), End(u))) /\ Starts(Escaped(t), Cat(Escaped(t), End(v)))
  BY <1>2, CatStartsConcat
<1>4. Starts(Escaped(s), Cat(Escaped(t), End(v))) /\ Starts(Escaped(t), Cat(Escaped(s), End(u)))
  BY <1>1, <1>3
<1>5. Starts(s, t) /\ Starts(t, s)
  BY <1>4, EscapedStarts
<1>6. s = t
  BY <1>5, StartsBoth
<1>7. u = v
  <2>. DEFINE e == SerializeBytes(s)
  <2>1. e \in String
    BY <1>1
  <2>2. Cat(e, u) = Cat(e, v)
    BY <1>6
  <2>. HIDE DEF e
  <2>. QED BY <2>1, <2>2, CatSame
<1>. QED BY <1>6, <1>7

(* The bytes of a number, and the number from its bytes.                   *)
LEMMA NumberBytes ==
  ASSUME NEW n \in U64
  PROVE  /\ n \div 256 \in Byte /\ n % 256 \in Byte /\ n = 256 * (n \div 256) + (n % 256)
         /\ BigEndian(n) \in String
         /\ BigEndian(n) = Cons(n \div 256, Cons(n % 256, << >>))
         /\ Len(BigEndian(n)) = 2
         /\ BigEndian(n)[1] = n \div 256 /\ BigEndian(n)[2] = n % 256
<1>. DEFINE a == n \div 256
            b == n % 256
<1>1. n \in Int /\ n >= 0 /\ n <= 65535
  <2>1. MaxU64 = 65535
    BY DEF MaxU64
  <2>2. MaxU64 \in Int
    BY <2>1
  <2>3. n \in Int /\ n >= 0 /\ n <= MaxU64
    BY <2>2 DEF U64
  <2>. QED BY <2>1, <2>3
<1>2. a \in Byte /\ b \in Byte /\ n = 256 * a + b
  <2>1. a \in Int /\ a >= 0
    BY <1>1
  <2>2. a <= 255
    BY <1>1
  <2>3. b \in 0..255
    BY <1>1
  <2>4. n = 256 * a + b
    BY <1>1
  <2>. HIDE DEF a, b
  <2>. QED BY <2>1, <2>2, <2>3, <2>4 DEF Byte
<1>3. BigEndian(n) = << a, b >>
  BY DEF BigEndian
<1>. HIDE DEF a, b
<1>4. << a, b >> \in String /\ << a, b >> = Cons(a, Cons(b, << >>))
  BY <1>2, ShortStrings
<1>5. Len(<< a, b >>) = 2 /\ << a, b >>[1] = a /\ << a, b >>[2] = b
  BY <1>2, ShortStrings
<1>. QED BY <1>2, <1>3, <1>4, <1>5 DEF a, b

(* Numbers are ordered as their bytes are, the highest byte first.         *)
LEMMA NumbersInOrder ==
  ASSUME NEW m \in U64, NEW n \in U64
  PROVE  (Before(BigEndian(m), BigEndian(n)) <=> m < n) /\ (BigEndian(m) = BigEndian(n) <=> m = n)
<1>. DEFINE a == m \div 256
            b == m % 256
            c == n \div 256
            d == n % 256
<1>1. /\ a \in Byte /\ b \in Byte /\ m = 256 * a + b /\ BigEndian(m) = Cons(a, Cons(b, << >>))
      /\ c \in Byte /\ d \in Byte /\ n = 256 * c + d /\ BigEndian(n) = Cons(c, Cons(d, << >>))
  BY NumberBytes
<1>. HIDE DEF a, b, c, d
<1>2. << >> \in String /\ Cons(b, << >>) \in String /\ Cons(d, << >>) \in String
  BY <1>1, EmptyString, ConsString
<1>3. Before(Cons(b, << >>), Cons(d, << >>)) <=> b < d
  BY <1>1, <1>2, BeforeCons, BeforeEmpty
<1>4. Before(BigEndian(m), BigEndian(n)) <=> a < c \/ (a = c /\ b < d)
  BY <1>1, <1>2, <1>3, BeforeCons
<1>5. (a < c \/ (a = c /\ b < d)) <=> m < n
  BY <1>1 DEF Byte
<1>6. BigEndian(m) = BigEndian(n) => a = c /\ b = d
  BY <1>1, <1>2, SameCons
<1>. QED BY <1>1, <1>4, <1>5, <1>6

-----------------------------------------------------------------------------
(* Reading a serialized string back                                        *)

\* The recursion of NextBytes.
Turn(s, f, i) ==
    IF i > Len(s) THEN Malformed
    ELSE IF s[i] # 0 THEN WithByte(s[i], f[i + 1])
    ELSE IF i < Len(s) /\ s[i + 1] = 0 THEN [bytes |-> << >>, end |-> i + 1]
    ELSE IF i < Len(s) /\ s[i + 1] = 255 THEN WithByte(0, f[i + 2])
    ELSE Malformed

(* next_bytes looks at later positions only, two ahead at most.            *)
LEMMA TurnLooksAhead ==
  ASSUME NEW s \in String, NEW f, NEW g, NEW i \in Nat,
         f[i + 1] = g[i + 1], f[i + 2] = g[i + 2]
  PROVE  Turn(s, f, i) = Turn(s, g, i)
BY DEF Turn

\* It is defined from the last position down.
(* There is a function that the loop of next_bytes describes.              *)
LEMMA TurnsExist ==
  ASSUME NEW s \in String
  PROVE  \E f : f = [i \in Nat |-> Turn(s, f, i)]
<1>. DEFINE n == Len(s)
            T == {m \in 0..(n + 1) : \E f : /\ f = [i \in Nat |-> f[i]]
                                            /\ \A i \in Nat : i > n - m => f[i] = Turn(s, f, i)}
<1>1. n \in Nat
  BY LenProperties DEF String
<1>2. 0 \in T
  <2>. DEFINE f == [i \in Nat |-> Malformed]
  <2>1. ASSUME NEW i \in Nat, i > n PROVE f[i] = Turn(s, f, i)
    BY <1>1, <2>1 DEF Turn
  <2>2. f = [i \in Nat |-> f[i]]
    OBVIOUS
  <2>. HIDE DEF f, n
  <2>3. n - 0 = n /\ 0 \in 0..(n + 1)
    BY <1>1
  <2>. QED BY <2>1, <2>2, <2>3
<1>3. ASSUME NEW m \in 0..(n + 1 - 1), m \in T PROVE m + 1 \in T
  <2>1. PICK f : f = [i \in Nat |-> f[i]] /\ \A i \in Nat : i > n - m => f[i] = Turn(s, f, i)
    BY <1>3
  <2>. DEFINE k == n - m
              g == [i \in Nat |-> IF i = k THEN Turn(s, f, k) ELSE f[i]]
  <2>. HIDE DEF n
  <2>2. k \in Nat /\ m + 1 \in 0..(n + 1) /\ n - (m + 1) = k - 1
    BY <1>1
  <2>3. \A i \in Nat : i # k => g[i] = f[i]
    OBVIOUS
  <2>4. g[k] = Turn(s, f, k)
    BY <2>2
  <2>5. g = [i \in Nat |-> g[i]]
    OBVIOUS
  <2>6. \A i \in Nat : i > k => f[i] = Turn(s, f, i)
    BY <2>1
  <2>. HIDE DEF g, k
  <2>7. ASSUME NEW i \in Nat, i > k - 1 PROVE g[i] = Turn(s, g, i)
    <3>1. i >= k /\ i + 1 \in Nat /\ i + 2 \in Nat /\ i + 1 # k /\ i + 2 # k
      BY <2>2, <2>7
    <3>2. Turn(s, f, i) = Turn(s, g, i)
      BY <2>3, <3>1, TurnLooksAhead
    <3>3. i = k \/ i > k
      BY <2>2, <3>1
    <3>4. i > k => g[i] = f[i]
      BY <2>2, <2>3
    <3>. QED BY <2>4, <2>6, <3>2, <3>3, <3>4
  <2>. QED BY <2>2, <2>5, <2>7
<1>. HIDE DEF T
<1>4. \A m \in 0..(n + 1) : m \in T
  BY <1>1, <1>2, <1>3, Induct!Upwards, n + 1 \in Nat
<1>5. n + 1 \in T
  BY <1>1, <1>4
<1>6. PICK f : f = [i \in Nat |-> f[i]] /\ \A i \in Nat : i > n - (n + 1) => f[i] = Turn(s, f, i)
  BY <1>5 DEF T
<1>7. \A i \in Nat : f[i] = Turn(s, f, i)
  <2>1. \A i \in Nat : i > n - (n + 1)
    BY <1>1
  <2>. QED BY <1>6, <2>1
<1>8. f = [i \in Nat |-> Turn(s, f, i)]
  BY <1>6, <1>7
<1>. QED BY <1>8

(* next_bytes is that function at the first position.                      *)
LEMMA NextBytesTurns ==
  ASSUME NEW s \in String
  PROVE  \E f : NextBytes(s) = f[1] /\ \A i \in Nat : f[i] = Turn(s, f, i)
<1>. DEFINE f == CHOOSE g : g = [i \in Nat |-> Turn(s, g, i)]
<1>1. NextBytes(s) = f[1]
  BY DEF NextBytes, Turn
<1>2. f = [i \in Nat |-> Turn(s, f, i)]
  BY TurnsExist
<1>. HIDE DEF f
<1>3. \A i \in Nat : f[i] = Turn(s, f, i)
  BY <1>2
<1>. QED BY <1>1, <1>3

(* The byte at a position, with what is before and after it.               *)
LEMMA ByteAt ==
  ASSUME NEW a \in String, NEW x \in Byte, NEW r \in String
  PROVE  LET w == Cat(a, Cons(x, r)) IN
         /\ Len(a) + 1 \in Nat /\ Len(w) = Len(a) + 1 + Len(r) /\ Len(r) \in Nat
         /\ w[Len(a) + 1] = x
         /\ \E b \in String : Len(b) = Len(a) + 1 /\ w = Cat(b, r)
<1>. DEFINE c == Cons(x, r)
            n == Len(a)
            w == Cat(a, Cons(x, r))
            b == Cat(a, Cons(x, << >>))
<1>1. c \in String /\ Len(c) = Len(r) + 1 /\ c[1] = x
  BY ConsString
<1>2. n \in Nat /\ Len(r) \in Nat
  BY LenProperties DEF String
<1>. HIDE DEF c
<1>3. /\ Len(w) = n + Len(c)
      /\ \A i \in 1..(n + Len(c)) : w[i] = IF i <= n THEN a[i] ELSE c[i - n]
  BY <1>1, ConcatProperties DEF String, Cat, c
<1>. HIDE DEF n
<1>4. w[n + 1] = x
  <2>. DEFINE i == n + 1
  <2>1. i \in 1..(n + Len(c)) /\ ~(i <= n) /\ i - n = 1
    BY <1>1, <1>2
  <2>. HIDE DEF i
  <2>2. w[i] = x
    BY <1>1, <1>3, <2>1
  <2>. QED BY <2>2 DEF i
<1>5. << >> \in String /\ Cons(x, << >>) \in String /\ Len(Cons(x, << >>)) = 1
  <2>1. Len(Cons(x, << >>)) = Len(<< >>) + 1 /\ Cons(x, << >>) \in String
    BY EmptyString, ConsString
  <2>. QED BY <2>1, EmptyString
<1>6. b \in String /\ Len(b) = n + 1
  <2>1. b \in String /\ Len(b) = Len(a) + Len(Cons(x, << >>))
    BY <1>5, CatString, Zenon
  <2>. QED BY <1>5, <2>1 DEF n
<1>7. Cat(b, r) = Cat(a, Cat(Cons(x, << >>), r))
  BY <1>5, Cat3
<1>8. Cat(Cons(x, << >>), r) = c
  BY <1>5, CatCons, CatString DEF c
<1>9. w = Cat(b, r)
  BY <1>7, <1>8 DEF c
<1>. HIDE DEF b, w
<1>10. Len(w) = n + 1 + Len(r)
  BY <1>1, <1>2, <1>3
<1>. QED BY <1>2, <1>4, <1>6, <1>9, <1>10 DEF n, w

\* From position i on, w is r.
At(w, i, r) == \E a \in String : i = Len(a) + 1 /\ w = Cat(a, r)

(* What is after the byte at a position is at the next one.                *)
LEMMA AtByte ==
  ASSUME NEW w, NEW i, NEW x \in Byte, NEW r \in String, At(w, i, Cons(x, r))
  PROVE  /\ i \in Nat /\ Len(r) \in Nat /\ Len(w) = i + Len(r)
         /\ w[i] = x
         /\ At(w, i + 1, r)
<1>1. PICK a \in String : i = Len(a) + 1 /\ w = Cat(a, Cons(x, r))
  BY DEF At
<1>. DEFINE u == Cat(a, Cons(x, r))
<1>2. /\ Len(a) + 1 \in Nat /\ Len(u) = Len(a) + 1 + Len(r) /\ Len(r) \in Nat
      /\ u[Len(a) + 1] = x
      /\ \E b \in String : Len(b) = Len(a) + 1 /\ u = Cat(b, r)
  BY ByteAt
<1>. HIDE DEF u
<1>5. u = w
  BY <1>1 DEF u
<1>3. PICK b \in String : Len(b) = i /\ w = Cat(b, r)
  BY <1>1, <1>2, <1>5
<1>4. At(w, i + 1, r)
  BY <1>3 DEF At
<1>. QED BY <1>1, <1>2, <1>4, <1>5

(* next_bytes reads back what serialize_bytes wrote, and stops at its end. *)
LEMMA NextBytesOf ==
  ASSUME NEW b \in String, NEW t \in String
  PROVE  NextBytes(Cat(SerializeBytes(b), t)) = [bytes |-> b, end |-> Len(SerializeBytes(b))]
<1>. DEFINE w == Cat(SerializeBytes(b), t)
            n == Len(SerializeBytes(b))
<1>1. /\ SerializeBytes(b) \in String /\ w \in String /\ w = Cat(Escaped(b), End(t))
      /\ End(t) \in String /\ Cons(0, t) \in String
  BY Serialized, CatString, EndString
<1>2. n \in Nat /\ Len(t) \in Nat /\ Len(w) = n + Len(t)
  <2>1. Len(w) = n + Len(t)
    BY <1>1, CatString
  <2>2. Len(t) \in Nat /\ n \in Nat
    BY <1>1, LenProperties DEF String
  <2>. QED BY <2>1, <2>2
<1>. HIDE DEF w, n
<1>3. PICK f : NextBytes(w) = f[1] /\ \A i \in Nat : f[i] = Turn(w, f, i)
  BY <1>1, NextBytesTurns
<1>. DEFINE Found(r) == [bytes |-> r, end |-> n]
            S == {r \in String : \A i : At(w, i, Cat(Escaped(r), End(t))) => f[i] = Found(r)}
<1>4. \A r \in String : Found(r) # Malformed /\ Found(r).bytes = r /\ Found(r).end = n
  BY <1>2, KeysAssumption DEF String
<1>5. << >> \in S
  <2>1. SUFFICES ASSUME NEW i, At(w, i, Cat(Escaped(<< >>), End(t)))
                 PROVE  f[i] = Found(<< >>)
    BY EmptyString
  <2>2. At(w, i, Cons(0, Cons(0, t)))
    BY <1>1, <2>1, EscapedString, CatString DEF End
  <2>3. i \in Nat /\ w[i] = 0 /\ At(w, i + 1, Cons(0, t))
    BY <1>1, <2>2, AtByte, Bytes
  <2>4. i + 1 \in Nat /\ w[i + 1] = 0 /\ Len(w) = i + 1 + Len(t)
    <3>. DEFINE j == i + 1
    <3>1. At(w, j, Cons(0, t))
      BY <2>3
    <3>. HIDE DEF j
    <3>2. /\ j \in Nat /\ Len(t) \in Nat /\ Len(w) = j + Len(t)
          /\ w[j] = 0
          /\ At(w, j + 1, t)
      BY <3>1, AtByte, Bytes
    <3>. QED BY <3>2 DEF j
  <2>6. i < Len(w) /\ ~(i > Len(w)) /\ i + 1 = n
    BY <1>2, <2>3, <2>4
  <2>7. Turn(w, f, i) = [bytes |-> << >>, end |-> i + 1]
    BY <2>3, <2>4, <2>6 DEF Turn
  <2>. QED BY <1>3, <2>3, <2>6, <2>7
<1>6. ASSUME NEW x \in Byte, NEW r \in String, r \in S PROVE Cons(x, r) \in S
  <2>. DEFINE R == Cat(Escaped(r), End(t))
              E == Escaped(r)
  <2>1. E \in String /\ R \in String /\ Cons(x, r) \in String
    BY <1>1, EscapedString, CatString, ConsString
  <2>9. Cons(255, E) \in String /\ Cons(255, R) \in String
    <3>. HIDE DEF E, R
    <3>1. 255 \in Byte
      BY Bytes
    <3>2. Cons(255, E) \in String
      BY <2>1, <3>1, ConsString
    <3>3. Cons(255, R) \in String
      BY <2>1, <3>1, ConsString
    <3>. QED BY <3>2, <3>3
  <2>10. Cat(Cons(0, Cons(255, E)), End(t)) = Cons(0, Cons(255, R))
    <3>1. Cat(Cons(255, E), End(t)) = Cons(255, R)
      BY <1>1, <2>1, Bytes, CatCons
    <3>. HIDE DEF E, R
    <3>2. Cat(Cons(0, Cons(255, E)), End(t)) = Cons(0, Cat(Cons(255, E), End(t)))
      BY <1>1, <2>9, Bytes, CatCons
    <3>. QED BY <3>1, <3>2
  <2>11. Cat(Cons(x, E), End(t)) = Cons(x, R)
    BY <1>1, <2>1, CatCons
  <2>2. SUFFICES ASSUME NEW i, At(w, i, Cat(Escaped(Cons(x, r)), End(t)))
                 PROVE  f[i] = Found(Cons(x, r))
    BY <2>1
  <2>3. Found(r) # Malformed /\ Found(r).bytes = r /\ Found(r).end = n
    BY <1>4
  <2>8. \A j : At(w, j, R) => f[j] = Found(r)
    BY <1>6
  <2>12. Escaped(Cons(x, r)) = IF x = 0 THEN Cons(0, Cons(255, E)) ELSE Cons(x, E)
    BY EscapedCons
  <2>. HIDE DEF E, R
  <2>4. CASE x = 0
    <3>3. At(w, i, Cons(0, Cons(255, R)))
      BY <2>2, <2>4, <2>10, <2>12
    <3>4. i \in Nat /\ w[i] = 0 /\ At(w, i + 1, Cons(255, R))
      BY <2>9, <3>3, AtByte, Bytes
    <3>5. /\ i + 1 \in Nat /\ w[i + 1] = 255 /\ At(w, i + 1 + 1, R)
          /\ Len(w) = i + 1 + Len(R) /\ Len(R) \in Nat
      <4>. DEFINE j == i + 1
      <4>1. At(w, j, Cons(255, R))
        BY <3>4
      <4>. HIDE DEF j
      <4>2. /\ j \in Nat /\ Len(R) \in Nat /\ Len(w) = j + Len(R)
            /\ w[j] = 255
            /\ At(w, j + 1, R)
        BY <2>1, <4>1, AtByte, Bytes
      <4>. QED BY <4>2 DEF j
    <3>9. i < Len(w) /\ ~(i > Len(w)) /\ i + 1 + 1 = i + 2
      BY <3>4, <3>5
    <3>10. f[i + 2] = Found(r)
      BY <2>8, <3>5, <3>9
    <3>11. Turn(w, f, i) = WithByte(0, f[i + 2])
      BY <3>4, <3>5, <3>9 DEF Turn
    <3>12. f[i] = WithByte(0, Found(r))
      BY <1>3, <3>4, <3>10, <3>11
    <3>. QED BY <2>3, <2>4, <3>12 DEF WithByte, Cons
  <2>5. CASE x # 0
    <3>3. At(w, i, Cons(x, R))
      BY <2>2, <2>5, <2>11, <2>12
    <3>4. /\ i \in Nat /\ Len(R) \in Nat /\ Len(w) = i + Len(R)
          /\ w[i] = x
          /\ At(w, i + 1, R)
      BY <2>1, <3>3, AtByte
    <3>9. ~(i > Len(w))
      BY <3>4
    <3>10. f[i + 1] = Found(r)
      BY <2>8, <3>4
    <3>11. Turn(w, f, i) = WithByte(x, f[i + 1])
      BY <2>5, <3>4, <3>9 DEF Turn
    <3>12. f[i] = WithByte(x, Found(r))
      BY <1>3, <3>4, <3>10, <3>11
    <3>. QED BY <2>3, <3>12 DEF WithByte, Cons
  <2>. QED BY <2>4, <2>5
<1>. HIDE DEF S
<1>7. b \in S
  BY <1>5, <1>6, EachString, Zenon
<1>8. At(w, 1, Cat(Escaped(b), End(t)))
  <2>1. w = Cat(<< >>, w)
    BY <1>1, CatString
  <2>. QED BY <1>1, <2>1, EmptyString DEF At
<1>9. f[1] = Found(b)
  BY <1>7, <1>8 DEF S
<1>. QED BY <1>3, <1>9 DEF w, n

LEMMA AtStart ==
  ASSUME NEW w \in String
  PROVE  At(w, 1, w)
<1>1. w = Cat(<< >>, w)
  BY CatString
<1>. QED BY <1>1, EmptyString DEF At

(* What follows a string is as many positions on.                          *)
LEMMA AtAfter ==
  ASSUME NEW w, NEW i, NEW r \in String, NEW t \in String, At(w, i, Cat(r, t))
  PROVE  At(w, i + Len(r), t)
<1>1. PICK a \in String : i = Len(a) + 1 /\ w = Cat(a, Cat(r, t))
  BY DEF At
<1>2. Cat(a, r) \in String /\ Len(Cat(a, r)) = Len(a) + Len(r)
  BY CatString
<1>3. w = Cat(Cat(a, r), t)
  BY <1>1, Cat3
<1>4. Len(a) \in Nat /\ Len(r) \in Nat
  BY LenProperties DEF String
<1>5. i + Len(r) = Len(Cat(a, r)) + 1
  BY <1>1, <1>2, <1>4
<1>. QED BY <1>2, <1>3, <1>5 DEF At

(* What is at a position is what the string has from there.                *)
LEMMA AtToTheEnd ==
  ASSUME NEW w, NEW i, NEW r \in String, At(w, i, r)
  PROVE  SubSeq(w, i, Len(w)) = r
<1>1. PICK a \in String : i = Len(a) + 1 /\ w = Cat(a, r)
  BY DEF At
<1>. DEFINE n == Len(a)
            m == Len(r)
<1>2. /\ n \in Nat /\ m \in Nat
      /\ Len(w) = n + m
      /\ \A j \in 1..(n + m) : w[j] = IF j <= n THEN a[j] ELSE r[j - n]
      /\ \A j \in 1..m : r[j] \in Byte
  BY <1>1, ConcatProperties, LenProperties, ElementOfSeq DEF Cat, String
<1>. HIDE DEF n, m
<1>3. ASSUME NEW j \in (n + 1)..(n + m) PROVE w[j] = r[j - n] /\ w[j] \in Byte
  <2>1. j \in 1..(n + m) /\ ~(j <= n) /\ j - n \in 1..m
    BY <1>2
  <2>. QED BY <1>2, <2>1
<1>. DEFINE from == n + 1
            to == n + m
            u == SubSeq(w, from, to)
<1>4. /\ u \in Seq(Byte)
      /\ Len(u) = IF from <= to THEN to - from + 1 ELSE 0
      /\ \A j \in 1..(to - from + 1) : u[j] = w[from + j - 1]
  <2>1. from \in Int /\ to \in Int
    BY <1>2
  <2>2. \A j \in from..to : w[j] \in Byte
    BY <1>3
  <2>. HIDE DEF from, to
  <2>. QED BY <2>1, <2>2, SubSeqProperties
<1>. HIDE DEF u
<1>5. Len(u) = m
  BY <1>2, <1>4
<1>6. ASSUME NEW j \in 1..m PROVE u[j] = r[j]
  <2>. DEFINE k == from + j - 1
  <2>1. j \in 1..(to - from + 1) /\ k \in (n + 1)..(n + m) /\ k - n = j
    BY <1>2
  <2>2. u[j] = w[k]
    BY <1>4, <2>1
  <2>. HIDE DEF k
  <2>. QED BY <1>3, <2>1, <2>2
<1>7. u = r
  BY <1>4, <1>5, <1>6, SeqEqual DEF String, m
<1>. QED BY <1>1, <1>2, <1>7 DEF u, n

-----------------------------------------------------------------------------
(* Keys of the store, encoded and decoded                                  *)

NextVersionKey == [kind : {"NextVersion"}]
TxnActiveKey == [kind : {"TxnActive"}, version : U64]
TxnWriteKey == [kind : {"TxnWrite"}, version : U64, key : String]
VersionKey == [kind : {"Version"}, key : String, version : U64]
StoreKey == NextVersionKey \cup TxnActiveKey \cup TxnWriteKey \cup VersionKey

(* The keys of the store are of the four kinds.                            *)
LEMMA StoreKeys == MvccKey \subseteq StoreKey
BY KeysAssumption DEF StoreKey, NextVersionKey, TxnActiveKey, TxnWriteKey, VersionKey, String

LEMMA ByteInFront ==
  ASSUME NEW x \in Byte, NEW s \in String
  PROVE  << x >> \o s = Cons(x, s)
BY DEF Cons

\* The parts of a key as byte strings.
LEMMA Parts ==
  ASSUME NEW v \in U64, NEW r \in String
  PROVE  /\ BigEndian(v) \in String /\ SerializeBytes(r) \in String
         /\ Cat(BigEndian(v), SerializeBytes(r)) \in String
         /\ Cat(SerializeBytes(r), BigEndian(v)) \in String
<1>1. BigEndian(v) \in String
  BY NumberBytes
<1>2. SerializeBytes(r) \in String
  BY Serialized, EmptyString
<1>. QED BY <1>1, <1>2, CatString

(* The bytes of the four kinds of keys.                                    *)
LEMMA EncodedForms ==
  /\ \A k \in NextVersionKey : Encode(k) = Cons(0, << >>)
  /\ \A k \in TxnActiveKey : Encode(k) = Cons(1, BigEndian(k.version))
  /\ \A k \in TxnWriteKey : Encode(k) = Cons(2, Cat(BigEndian(k.version), SerializeBytes(k.key)))
  /\ \A k \in VersionKey : Encode(k) = Cons(3, Cat(SerializeBytes(k.key), BigEndian(k.version)))
<1>1. ASSUME NEW k \in NextVersionKey PROVE Encode(k) = Cons(0, << >>)
  <2>1. k.kind = "NextVersion"
    BY DEF NextVersionKey
  <2>2. Encode(k) = << 0 >>
    BY <2>1 DEF Encode
  <2>. QED BY <2>2, ShortStrings, Bytes
<1>2. ASSUME NEW k \in TxnActiveKey PROVE Encode(k) = Cons(1, BigEndian(k.version))
  <2>1. k.kind = "TxnActive"
    BY DEF TxnActiveKey
  <2>2. Encode(k) = << 1 >> \o BigEndian(k.version)
    BY <2>1 DEF Encode
  <2>. QED BY <2>2 DEF Cons
<1>3. ASSUME NEW k \in TxnWriteKey
      PROVE  Encode(k) = Cons(2, Cat(BigEndian(k.version), SerializeBytes(k.key)))
  <2>1. k.kind = "TxnWrite" /\ k.version \in U64 /\ k.key \in String
    BY DEF TxnWriteKey
  <2>. DEFINE n == BigEndian(k.version)
              b == SerializeBytes(k.key)
  <2>2. Encode(k) = << 2 >> \o n \o b
    BY <2>1 DEF Encode
  <2>3. n \in String /\ b \in String /\ << 2 >> \in String
    BY <2>1, Parts, ShortStrings, Bytes
  <2>. HIDE DEF n, b
  <2>4. (<< 2 >> \o n) \o b = << 2 >> \o (n \o b)
    BY <2>3, Concat3
  <2>5. Encode(k) = Cons(2, Cat(n, b))
    BY <2>2, <2>4 DEF Cons, Cat
  <2>. QED BY <2>5 DEF n, b
<1>4. ASSUME NEW k \in VersionKey
      PROVE  Encode(k) = Cons(3, Cat(SerializeBytes(k.key), BigEndian(k.version)))
  <2>1. k.kind = "Version" /\ k.version \in U64 /\ k.key \in String
    BY DEF VersionKey
  <2>. DEFINE n == BigEndian(k.version)
              b == SerializeBytes(k.key)
  <2>2. Encode(k) = << 3 >> \o b \o n
    BY <2>1 DEF Encode
  <2>3. n \in String /\ b \in String /\ << 3 >> \in String
    BY <2>1, Parts, ShortStrings, Bytes
  <2>. HIDE DEF n, b
  <2>4. (<< 3 >> \o b) \o n = << 3 >> \o (b \o n)
    BY <2>3, Concat3
  <2>5. Encode(k) = Cons(3, Cat(b, n))
    BY <2>2, <2>4 DEF Cons, Cat
  <2>. QED BY <2>5 DEF n, b
<1>. QED BY <1>1, <1>2, <1>3, <1>4

\* A number is read where its bytes are.
(* A number is read back where it was written.                             *)
LEMMA NumberAt ==
  ASSUME NEW w, NEW i, NEW v \in U64, NEW t \in String, At(w, i, Cat(BigEndian(v), t))
  PROVE  U64At(w, i) = v /\ At(w, i + 2, t) /\ Len(w) = i + 1 + Len(t)
<1>. DEFINE a == v \div 256
            b == v % 256
            n == BigEndian(v)
<1>1. a \in Byte /\ b \in Byte /\ v = 256 * a + b /\ n = Cons(a, Cons(b, << >>))
  BY NumberBytes
<1>. HIDE DEF a, b, n
<1>2. << >> \in String /\ Cons(b, << >>) \in String /\ Cons(b, t) \in String
  BY <1>1, EmptyString, ConsString
<1>3. Cat(Cons(b, << >>), t) = Cons(b, t)
  BY <1>1, <1>2, CatCons, CatString
<1>4. Cat(n, t) = Cons(a, Cons(b, t))
  BY <1>1, <1>2, <1>3, CatCons
<1>5. At(w, i, Cons(a, Cons(b, t)))
  BY <1>4 DEF n
<1>6. /\ i \in Nat /\ Len(Cons(b, t)) \in Nat /\ Len(w) = i + Len(Cons(b, t))
      /\ w[i] = a
      /\ At(w, i + 1, Cons(b, t))
  BY <1>1, <1>2, <1>5, AtByte
<1>. DEFINE j == i + 1
<1>7. At(w, j, Cons(b, t))
  BY <1>6
<1>. HIDE DEF j
<1>8. /\ j \in Nat /\ Len(t) \in Nat /\ Len(w) = j + Len(t)
      /\ w[j] = b
      /\ At(w, j + 1, t)
  BY <1>1, <1>7, AtByte
<1>9. j = i + 1 /\ j + 1 = i + 2
  BY <1>6 DEF j
<1>10. U64At(w, i) = v
  BY <1>1, <1>6, <1>8, <1>9 DEF U64At
<1>. QED BY <1>8, <1>9, <1>10

\* What is encoded starts with the number of its kind.
(* The number of the variant and what comes after it.                      *)
LEMMA Tagged ==
  ASSUME NEW x \in Byte, NEW s \in String
  PROVE  LET w == Cons(x, s) IN w \in String /\ w[1] = x /\ At(w, 2, s) /\ Tail(w) = s
<1>. DEFINE w == Cons(x, s)
<1>1. w \in String /\ w # << >> /\ w[1] = x
  BY ConsString
<1>2. At(w, 1, Cons(x, s))
  BY <1>1, AtStart
<1>3. Head(w) \in Byte /\ Tail(w) \in String /\ w = Cons(Head(w), Tail(w))
  BY <1>1, TakeApart
<1>. HIDE DEF w
<1>4. At(w, 1 + 1, s)
  BY <1>2, AtByte
<1>5. At(w, 2, s)
  BY <1>4
<1>. DEFINE h == Head(w)
            t == Tail(w)
<1>6. Cons(h, t) = Cons(x, s) /\ h \in Byte /\ t \in String
  BY <1>3 DEF w
<1>. HIDE DEF h, t
<1>7. t = s
  BY <1>6, SameCons
<1>. QED BY <1>1, <1>5, <1>7 DEF w, t

(* Decoding undoes encoding.                                               *)
LEMMA DecodesEncoded ==
  ASSUME NEW k \in StoreKey
  PROVE  Encode(k) \in String /\ Decode(Encode(k)) = k
<1>. DEFINE w == Encode(k)
<1>1. CASE k \in NextVersionKey
  <2>1. w = Cons(0, << >>)
    BY <1>1, EncodedForms
  <2>2. w \in String /\ w[1] = 0
    BY <2>1, Tagged, Bytes, EmptyString
  <2>. HIDE DEF w
  <2>3. Decode(w) = [kind |-> "NextVersion"]
    BY <2>2 DEF Decode
  <2>4. k = [kind |-> "NextVersion"]
    BY <1>1 DEF NextVersionKey
  <2>. QED BY <2>2, <2>3, <2>4 DEF w
<1>2. CASE k \in TxnActiveKey
  <2>. DEFINE n == BigEndian(k.version)
  <2>1. w = Cons(1, n) /\ k.version \in U64
    BY <1>2, EncodedForms DEF TxnActiveKey
  <2>2. n \in String
    BY <2>1, NumberBytes
  <2>3. w \in String /\ w[1] = 1 /\ At(w, 2, n)
    BY <2>1, <2>2, Tagged, Bytes
  <2>4. n = Cat(n, << >>)
    BY <2>2, CatString
  <2>5. At(w, 2, Cat(BigEndian(k.version), << >>))
    BY <2>3, <2>4
  <2>. HIDE DEF w, n
  <2>6. U64At(w, 2) = k.version
    BY <2>1, <2>5, EmptyString, NumberAt
  <2>7. Decode(w) = [kind |-> "TxnActive", version |-> U64At(w, 2)]
    BY <2>3 DEF Decode
  <2>8. k = [kind |-> "TxnActive", version |-> k.version]
    BY <1>2 DEF TxnActiveKey
  <2>. QED BY <2>3, <2>6, <2>7, <2>8 DEF w
<1>3. CASE k \in TxnWriteKey
  <2>. DEFINE n == BigEndian(k.version)
              b == SerializeBytes(k.key)
  <2>1. w = Cons(2, Cat(n, b)) /\ k.version \in U64 /\ k.key \in String
    BY <1>3, EncodedForms DEF TxnWriteKey
  <2>2. n \in String /\ b \in String /\ Cat(n, b) \in String
    BY <2>1, Parts
  <2>3. w \in String /\ w[1] = 2 /\ At(w, 2, Cat(n, b))
    <3>. DEFINE u == Cat(n, b)
    <3>. HIDE DEF w, n, b, u
    <3>1. w = Cons(2, u) /\ u \in String
      BY <2>1, <2>2 DEF u
    <3>2. w \in String /\ w[1] = 2 /\ At(w, 2, u)
      BY <3>1, Tagged, Bytes
    <3>. QED BY <3>2 DEF u
  <2>4. U64At(w, 2) = k.version /\ At(w, 2 + 2, b)
    <3>. HIDE DEF w, b
    <3>. QED BY <2>1, <2>2, <2>3, NumberAt
  <2>5. SubSeq(w, 4, Len(w)) = b
    <3>. HIDE DEF w, b
    <3>1. At(w, 4, b)
      BY <2>4
    <3>. QED BY <2>2, <3>1, AtToTheEnd
  <2>6. NextBytes(b) = [bytes |-> k.key, end |-> Len(b)]
    <3>1. Cat(b, << >>) = b
      BY <2>2, CatString
    <3>. QED BY <2>1, <3>1, EmptyString, NextBytesOf
  <2>7. NextBytes(b) # Malformed
    <3>1. Len(b) \in Nat
      BY <2>2, LenProperties DEF String
    <3>. QED BY <2>1, <2>6, <3>1, KeysAssumption DEF String
  <2>8. k = [kind |-> "TxnWrite", version |-> k.version, key |-> k.key]
    BY <1>3 DEF TxnWriteKey
  <2>. DEFINE r == NextBytes(SubSeq(w, 4, Len(w)))
  <2>. HIDE DEF w, n, b
  <2>11. r = NextBytes(b)
    BY <2>5, Zenon
  <2>9. r # Malformed /\ r.bytes = k.key
    <3>. HIDE DEF r
    <3>. QED BY <2>6, <2>7, <2>11
  <2>10. Decode(w) = [kind |-> "TxnWrite", version |-> U64At(w, 2), key |-> r.bytes]
    BY <2>3, <2>9 DEF Decode
  <2>. QED BY <2>3, <2>4, <2>8, <2>9, <2>10 DEF w
<1>4. CASE k \in VersionKey
  <2>. DEFINE n == BigEndian(k.version)
              b == SerializeBytes(k.key)
  <2>1. w = Cons(3, Cat(b, n)) /\ k.version \in U64 /\ k.key \in String
    BY <1>4, EncodedForms DEF VersionKey
  <2>2. n \in String /\ b \in String /\ Cat(b, n) \in String /\ Len(b) \in Nat
    BY <2>1, Parts, LenProperties DEF String
  <2>3. w \in String /\ w[1] = 3 /\ At(w, 2, Cat(b, n)) /\ Tail(w) = Cat(b, n)
    <3>. DEFINE u == Cat(b, n)
    <3>. HIDE DEF w, n, b, u
    <3>1. w = Cons(3, u) /\ u \in String
      BY <2>1, <2>2 DEF u
    <3>2. w \in String /\ w[1] = 3 /\ At(w, 2, u) /\ Tail(w) = u
      BY <3>1, Tagged, Bytes
    <3>. QED BY <3>2 DEF u
  <2>4. NextBytes(Tail(w)) = [bytes |-> k.key, end |-> Len(b)]
    <3>1. NextBytes(Cat(b, n)) = [bytes |-> k.key, end |-> Len(b)]
      BY <2>1, <2>2, NextBytesOf
    <3>. QED BY <2>3, <3>1
  <2>5. NextBytes(Tail(w)) # Malformed
    BY <2>1, <2>2, <2>4, KeysAssumption DEF String
  <2>6. U64At(w, Len(b) + 2) = k.version /\ Len(w) = Len(b) + 3
    <3>. DEFINE i == 2 + Len(b)
    <3>1. At(w, i, n)
      <4>. HIDE DEF w, n, b
      <4>. QED BY <2>2, <2>3, AtAfter
    <3>2. Cat(n, << >>) = n
      BY <2>2, CatString
    <3>. DEFINE e == << >>
    <3>3. At(w, i, Cat(BigEndian(k.version), e))
      BY <3>1, <3>2
    <3>6. e \in String /\ Len(e) = 0
      BY EmptyString
    <3>. HIDE DEF w, i, e
    <3>4. U64At(w, i) = k.version /\ At(w, i + 2, e) /\ Len(w) = i + 1 + Len(e)
      BY <2>1, <3>3, <3>6, NumberAt
    <3>5. i = Len(b) + 2 /\ i + 1 + Len(e) = Len(b) + 3
      BY <2>2, <3>6 DEF i
    <3>. QED BY <3>4, <3>5
  <2>7. k = [kind |-> "Version", key |-> k.key, version |-> k.version]
    BY <1>4 DEF VersionKey
  <2>. DEFINE r == NextBytes(Tail(w))
  <2>8. r.end = Len(b) /\ r.bytes = k.key /\ r # Malformed
    BY <2>4, <2>5
  <2>9. ~(Len(w) < r.end + 3)
    BY <2>2, <2>6, <2>8
  <2>. HIDE DEF w, n, b
  <2>10. Decode(w) = [kind |-> "Version", key |-> r.bytes, version |-> U64At(w, r.end + 2)]
    BY <2>3, <2>8, <2>9 DEF Decode
  <2>. QED BY <2>3, <2>6, <2>7, <2>8, <2>10 DEF w
<1>. QED BY <1>1, <1>2, <1>3, <1>4 DEF StoreKey

(* Keys with the same bytes are the same.                                  *)
LEMMA EncodesApart ==
  ASSUME NEW j \in StoreKey, NEW k \in StoreKey, Encode(j) = Encode(k)
  PROVE  j = k
BY DecodesEncoded

-----------------------------------------------------------------------------
(* What is stored                                                          *)

(* The engine holds the stored keys, encoded, and nothing else.            *)
Stored ==
    /\ keys \subseteq MvccKey
    /\ IsFiniteSet(keys)
    /\ data = {Encode(k) : k \in keys}

(* Nothing is stored at first.                                             *)
LEMMA StoredInit == Init => Stored
BY FS_EmptySet DEF Init, Stored

(* set and delete keep the engine as what is stored, encoded.              *)
LEMMA StoredNext == Stored /\ [Next]_vars => Stored'
<1>. SUFFICES ASSUME Stored, [Next]_vars PROVE Stored'
  OBVIOUS
<1>1. ASSUME NEW k \in MvccKey, Set(k) PROVE Stored'
  <2>1. keys' = keys \cup {k} /\ data' = data \cup {Encode(k)}
    BY <1>1 DEF Set
  <2>2. IsFiniteSet(keys')
    BY <2>1, FS_AddElement DEF Stored
  <2>. QED BY <2>1, <2>2 DEF Stored
<1>2. ASSUME NEW k \in keys, Delete(k) PROVE Stored'
  <2>1. keys' = keys \ {k} /\ data' = data \ {Encode(k)}
    BY <1>2 DEF Delete
  <2>2. IsFiniteSet(keys')
    BY <2>1, FS_RemoveElement DEF Stored
  <2>3. \A j \in keys : Encode(j) = Encode(k) => j = k
    BY StoreKeys, EncodesApart DEF Stored
  <2>. QED BY <2>1, <2>2, <2>3 DEF Stored
<1>3. CASE UNCHANGED vars
  BY <1>3 DEF vars, Stored
<1>. QED BY <1>1, <1>2, <1>3 DEF Next

(* The engine holds the encoded keys and nothing else.                     *)
THEOREM KeysStored == Spec => []Stored
BY StoredInit, StoredNext, PTL DEF Spec

(* What KeysDecodeBack says of each such state.                            *)
LEMMA StoredDecodes == Stored => DecodesBack
<1>. SUFFICES ASSUME Stored PROVE DecodesBack
  OBVIOUS
<1>1. \A k \in keys : k \in StoreKey
  BY StoreKeys DEF Stored
<1>2. \A k \in keys : Encode(k) \in data /\ Decode(Encode(k)) = k
  BY <1>1, DecodesEncoded DEF Stored
<1>3. Cardinality(data) = Cardinality(keys)
  <2>. DEFINE f == [k \in keys |-> Encode(k)]
  <2>1. f \in [keys -> data]
    BY <1>2
  <2>2. f \in Injection(keys, data)
    BY <1>1, <2>1, EncodesApart DEF Injection, IsInjective
  <2>3. f \in Surjection(keys, data)
    BY <2>1 DEF Surjection, Stored
  <2>. HIDE DEF f
  <2>4. ExistsBijection(keys, data)
    BY <2>2, <2>3 DEF ExistsBijection, Bijection
  <2>. QED BY <2>4, FS_Bijection DEF Stored
<1>. QED BY <1>2, <1>3 DEF DecodesBack

(* A stored key decodes to itself, and no two share a byte string.         *)
THEOREM KeysDecodeBack == Spec => []DecodesBack
BY KeysStored, StoredDecodes, PTL

-----------------------------------------------------------------------------
(* Scans list what they find in order                                      *)

BeforePairs == {q \in String \X String : Before(q[1], q[2])}

(* The order of byte strings, as a set of pairs.                           *)
LEMMA StringsOrdered ==
  ASSUME NEW S \in SUBSET String
  PROVE  /\ Induct!Orders(S, BeforePairs)
         /\ \A s, t \in S : << s, t >> \in BeforePairs <=> Before(s, t)
<1>1. \A s, t \in S : << s, t >> \in BeforePairs <=> Before(s, t)
  BY DEF BeforePairs
<1>2. \A s, t \in S : s # t <=> Before(s, t) \/ Before(t, s)
  BY BeforeTotal
<1>3. \A s, t, u \in S : Before(s, t) /\ Before(t, u) => Before(s, u)
  BY BeforeTransitive
<1>. QED BY <1>1, <1>2, <1>3, Zenon DEF Induct!Orders

(* Sorted lists a finite set in that order.                                *)
LEMMA SortedLists ==
  ASSUME NEW S \in SUBSET String, IsFiniteSet(S)
  PROVE  Induct!Lists(S, BeforePairs, Sorted(S))
<1>1. /\ Induct!Orders(S, BeforePairs)
      /\ \A s, t \in S : << s, t >> \in BeforePairs <=> Before(s, t)
  BY StringsOrdered
<1>2. PICK list : Induct!Lists(S, BeforePairs, list)
  BY <1>1, SameSets, Induct!ListExists
<1>3. \A q \in [1..Cardinality(S) -> S] :
        Induct!Lists(S, BeforePairs, q) <=> \A i, j \in DOMAIN q : i < j => Before(q[i], q[j])
  <2>. SUFFICES ASSUME NEW q \in [1..Cardinality(S) -> S]
                PROVE  Induct!Lists(S, BeforePairs, q)
                         <=> \A i, j \in DOMAIN q : i < j => Before(q[i], q[j])
    OBVIOUS
  <2>1. DOMAIN q = 1..Cardinality(S) /\ \A i \in DOMAIN q : q[i] \in S
    BY Zenon
  <2>. QED BY <1>1, <2>1, SameSets, Zenon DEF Induct!Lists
<1>4. list \in [1..Cardinality(S) -> S]
  BY <1>2, SameSets, Zenon DEF Induct!Lists
<1>. QED BY <1>2, <1>3, <1>4, Zenon DEF Sorted, InOrder

(* It has every element once.                                              *)
LEMMA SortedAll ==
  ASSUME NEW S \in SUBSET String, IsFiniteSet(S)
  PROVE  /\ Cardinality(S) \in Nat
         /\ Sorted(S) \in [1..Cardinality(S) -> S]
         /\ \A s \in S : \E i \in 1..Cardinality(S) : Sorted(S)[i] = s
         /\ \A i, j \in 1..Cardinality(S) : i < j => Before(Sorted(S)[i], Sorted(S)[j])
<1>. DEFINE q == Sorted(S)
<1>1. Induct!Orders(S, BeforePairs) /\ Induct!Lists(S, BeforePairs, q)
      /\ \A s, t \in S : << s, t >> \in BeforePairs <=> Before(s, t)
  BY StringsOrdered, SortedLists
<1>. HIDE DEF q
<1>2. /\ Cardinality(S) \in Nat
      /\ q \in [1..Cardinality(S) -> S]
      /\ \A x \in S : \E i \in 1..Cardinality(S) : q[i] = x
      /\ \A i, j \in 1..Cardinality(S) : i # j => q[i] # q[j]
  BY <1>1, SameSets, Induct!ListsAll
<1>3. \A i, j \in 1..Cardinality(S) : i < j => << q[i], q[j] >> \in BeforePairs
  BY <1>1, SameSets, Zenon DEF Induct!Lists
<1>4. ASSUME NEW i \in 1..Cardinality(S), NEW j \in 1..Cardinality(S), i < j
      PROVE  Before(q[i], q[j])
  <2>1. q[i] \in S /\ q[j] \in S
    BY <1>2
  <2>. QED BY <1>1, <1>3, <1>4, <2>1
<1>. QED BY <1>2, <1>4 DEF q

(* What the engine holds are finitely many byte strings.                   *)
LEMMA DataStrings ==
  ASSUME Stored
  PROVE  /\ data \in SUBSET String /\ IsFiniteSet(data)
         /\ \A S \in SUBSET data : S \in SUBSET String /\ IsFiniteSet(S)
<1>1. \A k \in keys : k \in StoreKey
  BY StoreKeys DEF Stored
<1>2. data \in SUBSET String
  BY <1>1, DecodesEncoded DEF Stored
<1>3. IsFiniteSet(data)
  <2>. DEFINE f == [k \in keys |-> Encode(k)]
  <2>1. f \in Surjection(keys, data)
    BY DEF Surjection, Stored
  <2>. HIDE DEF f
  <2>. QED BY <2>1, FS_Surjection DEF Stored
<1>. QED BY <1>2, <1>3, FS_Subset

-----------------------------------------------------------------------------
(* Between two strings with the same start                                 *)

(* What lies between two strings with a common start has it, too.          *)
LEMMA BetweenStarts ==
  ASSUME NEW a \in String, NEW u \in String, NEW v \in String
  PROVE  \A s \in String : ~Before(s, Cat(a, u)) /\ ~Before(Cat(a, v), s) => Starts(a, s)
<1>. DEFINE S == {r \in String : \A s \in String :
                      ~Before(s, Cat(r, u)) /\ ~Before(Cat(r, v), s) => Starts(r, s)}
<1>1. << >> \in S
  BY EmptyString, StartsCons, Bytes
<1>2. ASSUME NEW x \in Byte, NEW r \in String, r \in S PROVE Cons(x, r) \in S
  <2>. DEFINE c == Cat(r, u)
              d == Cat(r, v)
  <2>1. Cat(Cons(x, r), u) = Cons(x, c) /\ Cat(Cons(x, r), v) = Cons(x, d)
    BY CatCons
  <2>2. c \in String /\ d \in String /\ Cons(x, r) \in String
    BY CatString, ConsString
  <2>3. \A s \in String : ~Before(s, c) /\ ~Before(d, s) => Starts(r, s)
    BY <1>2
  <2>. HIDE DEF c, d
  <2>4. ASSUME NEW s \in String, ~Before(s, Cons(x, c)), ~Before(Cons(x, d), s)
        PROVE  Starts(Cons(x, r), s)
    <3>1. s # << >>
      <4>1. Cons(x, c) \in String /\ Cons(x, c) # << >>
        BY <2>2, ConsString
      <4>. QED BY <2>4, <4>1, BeforeEmpty
    <3>2. PICK y \in Byte, t \in String : s = Cons(y, t)
      BY <3>1, TakeApart
    <3>3. ~(y < x \/ (y = x /\ Before(t, c)))
      BY <2>2, <2>4, <3>2, BeforeCons
    <3>4. ~(x < y \/ (x = y /\ Before(d, t)))
      BY <2>2, <2>4, <3>2, BeforeCons
    <3>5. x = y
      BY <3>3, <3>4 DEF Byte
    <3>6. Starts(r, t)
      BY <2>3, <3>3, <3>4, <3>5
    <3>. QED BY <3>2, <3>5, <3>6, StartsCons
  <2>. QED BY <2>1, <2>2, <2>4
<1>. HIDE DEF S
<1>3. a \in S
  BY <1>1, <1>2, EachString, Zenon
<1>. QED BY <1>3 DEF S

(* The order looks past a common start.                                    *)
LEMMA BeforeSameStart ==
  ASSUME NEW a \in String, NEW u \in String, NEW v \in String
  PROVE  Before(Cat(a, u), Cat(a, v)) <=> Before(u, v)
<1>. DEFINE S == {r \in String : Before(Cat(r, u), Cat(r, v)) <=> Before(u, v)}
<1>1. << >> \in S
  BY EmptyString, CatString
<1>2. ASSUME NEW x \in Byte, NEW r \in String, r \in S PROVE Cons(x, r) \in S
  <2>. DEFINE c == Cat(r, u)
              d == Cat(r, v)
  <2>1. Cat(Cons(x, r), u) = Cons(x, c) /\ Cat(Cons(x, r), v) = Cons(x, d)
    BY CatCons
  <2>2. c \in String /\ d \in String /\ Cons(x, r) \in String
    BY CatString, ConsString
  <2>3. Before(c, d) <=> Before(u, v)
    BY <1>2
  <2>. HIDE DEF c, d
  <2>4. Before(Cons(x, c), Cons(x, d)) <=> x < x \/ (x = x /\ Before(c, d))
    BY <2>2, BeforeCons
  <2>5. ~(x < x)
    BY DEF Byte
  <2>. QED BY <2>1, <2>2, <2>3, <2>4, <2>5
<1>. HIDE DEF S
<1>3. a \in S
  BY <1>1, <1>2, EachString, Zenon
<1>. QED BY <1>3 DEF S

-----------------------------------------------------------------------------
(* The versions of a key                                                   *)

(* A version of a key: the bytes of the key, then those of the number.     *)
LEMMA VersionForm ==
  ASSUME NEW r \in String, NEW v \in U64
  PROVE  /\ Version(r, v) \in VersionKey /\ Version(r, v) \in StoreKey
         /\ Version(r, v).key = r /\ Version(r, v).version = v
         /\ Cons(3, SerializeBytes(r)) \in String /\ BigEndian(v) \in String
         /\ Encode(Version(r, v)) = Cat(Cons(3, SerializeBytes(r)), BigEndian(v))
<1>. DEFINE k == Version(r, v)
            b == SerializeBytes(r)
            n == BigEndian(v)
<1>1. k \in VersionKey /\ k.key = r /\ k.version = v /\ k \in StoreKey
  BY DEF Version, VersionKey, StoreKey
<1>2. b \in String /\ n \in String
  BY Parts
<1>3. Encode(k) = Cons(3, Cat(b, n))
  <2>1. Encode(k) = Cons(3, Cat(SerializeBytes(k.key), BigEndian(k.version)))
    BY <1>1, EncodedForms
  <2>. HIDE DEF k
  <2>. QED BY <1>1, <2>1
<1>. HIDE DEF k, b, n
<1>4. Cons(3, b) \in String
  BY <1>2, Bytes, ConsString
<1>5. Cat(Cons(3, b), n) = Cons(3, Cat(b, n))
  BY <1>2, Bytes, CatCons
<1>. QED BY <1>1, <1>2, <1>3, <1>4, <1>5 DEF k, b, n

LEMMA VersionKeys ==
  ASSUME NEW k \in StoreKey, k.kind = "Version"
  PROVE  k \in VersionKey /\ k.key \in String /\ k.version \in U64 /\ k = Version(k.key, k.version)
<1>1. k \in VersionKey
  BY DEF StoreKey, NextVersionKey, TxnActiveKey, TxnWriteKey, VersionKey
<1>. QED BY <1>1 DEF VersionKey, Version

(* Only a version of r starts as the versions of r do.                     *)
LEMMA StartsAsVersion ==
  ASSUME NEW k \in StoreKey, NEW r \in String,
         Starts(Cons(3, SerializeBytes(r)), Encode(k))
  PROVE  k \in VersionKey /\ k.key = r
<1>. DEFINE b == SerializeBytes(r)
<1>1. b \in String
  BY Serialized, EmptyString
<1>. HIDE DEF b
<1>2. ASSUME NEW x \in Byte, NEW s \in String, Encode(k) = Cons(x, s)
      PROVE  x = 3 /\ Starts(b, s)
  <2>1. Starts(Cons(3, b), Cons(x, s))
    BY <1>2 DEF b
  <2>. QED BY <1>1, <2>1, Bytes, StartsCons
<1>3. k \notin NextVersionKey
  <2>1. k \in NextVersionKey => Encode(k) = Cons(0, << >>)
    BY EncodedForms
  <2>. QED BY <1>2, <2>1, Bytes, EmptyString
<1>4. k \notin TxnActiveKey
  <2>1. k \in TxnActiveKey => Encode(k) = Cons(1, BigEndian(k.version)) /\ k.version \in U64
    BY EncodedForms DEF TxnActiveKey
  <2>. QED BY <1>2, <2>1, Bytes, NumberBytes
<1>5. k \notin TxnWriteKey
  <2>1. SUFFICES ASSUME k \in TxnWriteKey PROVE FALSE
    OBVIOUS
  <2>2. Encode(k) = Cons(2, Cat(BigEndian(k.version), SerializeBytes(k.key)))
        /\ k.version \in U64 /\ k.key \in String
    BY <2>1, EncodedForms DEF TxnWriteKey
  <2>3. Cat(BigEndian(k.version), SerializeBytes(k.key)) \in String
    BY <2>2, Parts
  <2>. QED BY <1>2, <2>2, <2>3, Bytes
<1>6. k \in VersionKey
  BY <1>3, <1>4, <1>5 DEF StoreKey
<1>7. Encode(k) = Cons(3, Cat(SerializeBytes(k.key), BigEndian(k.version)))
      /\ k.version \in U64 /\ k.key \in String
  BY <1>6, EncodedForms DEF VersionKey
<1>. DEFINE s == Cat(SerializeBytes(k.key), BigEndian(k.version))
<1>8. s \in String /\ BigEndian(k.version) \in String
  BY <1>7, Parts
<1>9. Starts(b, s)
  <2>. HIDE DEF s
  <2>1. Encode(k) = Cons(3, s)
    BY <1>7 DEF s
  <2>. QED BY <1>2, <1>8, <2>1, Bytes
<1>10. PICK u \in String : s = Cat(b, u)
  BY <1>9, CatStarts
<1>11. k.key = r
  <2>1. Cat(SerializeBytes(k.key), BigEndian(k.version)) = Cat(SerializeBytes(r), u)
    BY <1>10 DEF b
  <2>. QED BY <1>7, <1>8, <2>1, SerializedApart
<1>. QED BY <1>6, <1>11

\* The versions of a key are ordered as their numbers are.
(* The versions of a key are in the order of their numbers.                *)
LEMMA VersionsInOrder ==
  ASSUME NEW r \in String, NEW v \in U64, NEW w \in U64
  PROVE  Before(Encode(Version(r, v)), Encode(Version(r, w))) <=> v < w
<1>. DEFINE a == Cons(3, SerializeBytes(r))
            m == BigEndian(v)
            n == BigEndian(w)
<1>1. /\ a \in String /\ m \in String /\ Encode(Version(r, v)) = Cat(a, m)
      /\ n \in String /\ Encode(Version(r, w)) = Cat(a, n)
  BY VersionForm
<1>2. Before(m, n) <=> v < w
  BY NumbersInOrder
<1>. HIDE DEF a, m, n
<1>. QED BY <1>1, <1>2, BeforeSameStart

(* Between two versions of a key lie versions of that key only.            *)
LEMMA RangeFinds ==
  ASSUME NEW r \in String, NEW from \in U64, NEW to \in U64, NEW k \in StoreKey
  PROVE  ~Before(Encode(k), Encode(Version(r, from))) /\ ~Before(Encode(Version(r, to)), Encode(k))
           <=> k.kind = "Version" /\ k.key = r /\ k.version \in from..to
<1>. DEFINE a == Cons(3, SerializeBytes(r))
            s == Encode(k)
<1>1. /\ a \in String
      /\ BigEndian(from) \in String /\ Encode(Version(r, from)) = Cat(a, BigEndian(from))
      /\ BigEndian(to) \in String /\ Encode(Version(r, to)) = Cat(a, BigEndian(to))
  BY VersionForm
<1>2. s \in String
  BY DecodesEncoded
<1>3. ASSUME k.kind = "Version", k.key = r
      PROVE  ~Before(s, Encode(Version(r, from))) /\ ~Before(Encode(Version(r, to)), s)
               <=> k.version \in from..to
  <2>1. k.version \in U64 /\ k = Version(r, k.version)
    BY <1>3, VersionKeys
  <2>2. s = Encode(Version(r, k.version))
    BY <2>1, Zenon
  <2>3. Before(s, Encode(Version(r, from))) <=> k.version < from
    BY <2>1, <2>2, VersionsInOrder
  <2>4. Before(Encode(Version(r, to)), s) <=> to < k.version
    BY <2>1, <2>2, VersionsInOrder
  <2>. DEFINE v == k.version
  <2>5. v \in Int /\ from \in Int /\ to \in Int
    BY <2>1 DEF U64
  <2>. QED BY <2>3, <2>4, <2>5
<1>4. ASSUME ~Before(s, Encode(Version(r, from))), ~Before(Encode(Version(r, to)), s)
      PROVE  k.kind = "Version" /\ k.key = r
  <2>. HIDE DEF a, s
  <2>1. ~Before(s, Cat(a, BigEndian(from))) /\ ~Before(Cat(a, BigEndian(to)), s)
    BY <1>1, <1>4
  <2>2. Starts(a, s)
    BY <1>1, <1>2, <2>1, BetweenStarts
  <2>3. k \in VersionKey /\ k.key = r
    BY <2>2, StartsAsVersion DEF a, s
  <2>. QED BY <2>3 DEF VersionKey
<1>. QED BY <1>3, <1>4

LEMMA NumbersOfKeys == Numbers \subseteq U64
<1>1. \A k \in MvccKey : k.kind = "TxnActive" => k.version \in U64
  <2>1. \A k \in StoreKey : k.kind = "TxnActive" => k.version \in U64
    BY DEF StoreKey, NextVersionKey, TxnActiveKey, TxnWriteKey, VersionKey
  <2>. QED BY <2>1, StoreKeys
<1>2. 0 \in U64 /\ MaxU64 \in U64
  <2>1. 256 * 256 - 1 = 65535
    OBVIOUS
  <2>. QED BY <2>1 DEF U64, MaxU64
<1>. QED BY <1>1, <1>2 DEF Numbers

\* The versions of r from one number to another.
VersionsIn(r, from, to) == {k \in KeyOf("Version") : k.key = r /\ k.version \in from..to}
LowerVersion(j, k) == j.version < k.version
VersionPairs(V) == {q \in V \X V : LowerVersion(q[1], q[2])}

(* The versions of a key are finitely many, and the numbers order them.    *)
LEMMA VersionsOrdered ==
  ASSUME Stored, NEW r \in String, NEW from \in U64, NEW to \in U64
  PROVE  LET V == VersionsIn(r, from, to) IN
         /\ V \subseteq keys /\ IsFiniteSet(V)
         /\ \A k \in V : k \in StoreKey /\ k = Version(r, k.version) /\ k.version \in U64
         /\ Induct!Orders(V, VersionPairs(V))
         /\ \A j, k \in V : << j, k >> \in VersionPairs(V) <=> j.version < k.version
<1>. DEFINE V == VersionsIn(r, from, to)
            R == VersionPairs(V)
<1>1. V \subseteq keys /\ \A k \in V : k.kind = "Version" /\ k.key = r
  BY DEF VersionsIn, KeyOf
<1>. HIDE DEF V
<1>2. IsFiniteSet(V)
  BY <1>1, FS_Subset DEF Stored
<1>3. ASSUME NEW k \in V PROVE k \in StoreKey /\ k = Version(r, k.version) /\ k.version \in U64
  <2>1. k \in StoreKey
    BY <1>1, StoreKeys DEF Stored
  <2>2. k = Version(k.key, k.version) /\ k.version \in U64
    BY <1>1, <2>1, VersionKeys
  <2>. QED BY <1>1, <2>1, <2>2
<1>4. \A j, k \in V : << j, k >> \in R <=> j.version < k.version
  BY DEF VersionPairs, LowerVersion
<1>. HIDE DEF R
<1>5. \A k \in V : k.version \in Int
  BY <1>3 DEF U64
<1>6. \A j, k \in V : j # k <=> j.version < k.version \/ k.version < j.version
  <2>. SUFFICES ASSUME NEW j \in V, NEW k \in V
                PROVE  j # k <=> j.version < k.version \/ k.version < j.version
    OBVIOUS
  <2>. DEFINE v == j.version
              w == k.version
  <2>1. j = Version(r, v) /\ k = Version(r, w)
    BY <1>3
  <2>2. v \in Int /\ w \in Int
    BY <1>5
  <2>3. v = w <=> j = k
    <3>1. v = w => j = k
      <4>. HIDE DEF v, w
      <4>. QED BY <2>1
    <3>. QED BY <3>1
  <2>4. v # w <=> v < w \/ w < v
    <3>. HIDE DEF v, w
    <3>. QED BY <2>2
  <2>. QED BY <2>3, <2>4
<1>7. \A j, k, l \in V : j.version < k.version /\ k.version < l.version => j.version < l.version
  <2>. SUFFICES ASSUME NEW j \in V, NEW k \in V, NEW l \in V
                PROVE  j.version < k.version /\ k.version < l.version => j.version < l.version
    OBVIOUS
  <2>1. j.version \in Int /\ k.version \in Int /\ l.version \in Int
    BY <1>5
  <2>. QED BY <2>1
<1>8. Induct!Orders(V, R)
  BY <1>4, <1>6, <1>7, Zenon DEF Induct!Orders
<1>. QED BY <1>1, <1>2, <1>3, <1>4, <1>8 DEF V, R

(* The definition lists them in this order.                                *)
LEMMA VersionsListed ==
  ASSUME Stored, NEW r \in String, NEW from \in U64, NEW to \in U64
  PROVE  LET V == VersionsIn(r, from, to) IN
         Induct!Lists(V, VersionPairs(V), InOrder(V, LowerVersion))
<1>. DEFINE V == VersionsIn(r, from, to)
            R == VersionPairs(V)
<1>1. /\ IsFiniteSet(V) /\ Induct!Orders(V, R)
      /\ \A j, k \in V : << j, k >> \in R <=> LowerVersion(j, k)
  BY VersionsOrdered DEF LowerVersion
<1>. HIDE DEF V, R
<1>2. PICK list : Induct!Lists(V, R, list)
  BY <1>1, SameSets, Induct!ListExists
<1>3. \A q \in [1..Cardinality(V) -> V] :
        Induct!Lists(V, R, q) <=> \A i, j \in DOMAIN q : i < j => LowerVersion(q[i], q[j])
  <2>. SUFFICES ASSUME NEW q \in [1..Cardinality(V) -> V]
                PROVE  Induct!Lists(V, R, q)
                         <=> \A i, j \in DOMAIN q : i < j => LowerVersion(q[i], q[j])
    OBVIOUS
  <2>1. DOMAIN q = 1..Cardinality(V) /\ \A i \in DOMAIN q : q[i] \in V
    BY Zenon
  <2>. QED BY <1>1, <2>1, SameSets, Zenon DEF Induct!Lists
<1>4. list \in [1..Cardinality(V) -> V]
  BY <1>2, SameSets, Zenon DEF Induct!Lists
<1>5. Induct!Lists(V, R, InOrder(V, LowerVersion))
  BY <1>2, <1>3, <1>4, Zenon DEF InOrder
<1>. QED BY <1>5 DEF V, R

(* So does the engine's scan, once decoded.                                *)
LEMMA ScanListsVersions ==
  ASSUME Stored, NEW r \in String, NEW from \in U64, NEW to \in U64
  PROVE  LET V == VersionsIn(r, from, to) IN
         Induct!Lists(V, VersionPairs(V),
                      Decoded(Scan(Encode(Version(r, from)), Encode(Version(r, to)))))
<1>. DEFINE V == VersionsIn(r, from, to)
            R == VersionPairs(V)
            lo == Encode(Version(r, from))
            hi == Encode(Version(r, to))
            F == {s \in data : ~Before(s, lo) /\ ~Before(hi, s)}
            q == Sorted(F)
            n == Cardinality(F)
            g == Decoded(Scan(lo, hi))
<1>1. /\ V \subseteq keys /\ IsFiniteSet(V)
      /\ \A k \in V : k \in StoreKey /\ k = Version(r, k.version) /\ k.version \in U64
      /\ Induct!Orders(V, R)
      /\ \A j, k \in V : << j, k >> \in R <=> j.version < k.version
  BY VersionsOrdered
<1>2. \A k \in keys : ~Before(Encode(k), lo) /\ ~Before(hi, Encode(k)) <=> k \in V
  <2>1. \A k \in keys : k \in StoreKey
    BY StoreKeys DEF Stored
  <2>. QED BY <2>1, RangeFinds DEF VersionsIn, KeyOf
<1>3. F = {Encode(k) : k \in V}
  <2>. HIDE DEF V, lo, hi
  <2>. QED BY <1>1, <1>2 DEF Stored
<1>4. F \in SUBSET String /\ IsFiniteSet(F)
  BY DataStrings
<1>5. g = [i \in DOMAIN q |-> Decode(q[i])]
  BY DEF Decoded, Scan
<1>. HIDE DEF V, R, F, lo, hi
<1>6. /\ n \in Nat /\ q \in [1..n -> F]
      /\ \A i, j \in 1..n : i < j => Before(q[i], q[j])
  BY <1>4, SortedAll
<1>. HIDE DEF q, g
<1>7. n = Cardinality(V)
  <2>. DEFINE f == [k \in V |-> Encode(k)]
  <2>1. f \in [V -> F]
    BY <1>3
  <2>2. f \in Injection(V, F)
    BY <1>1, <2>1, EncodesApart DEF Injection, IsInjective
  <2>3. f \in Surjection(V, F)
    BY <1>3, <2>1 DEF Surjection
  <2>. HIDE DEF f
  <2>4. ExistsBijection(V, F)
    BY <2>2, <2>3 DEF ExistsBijection, Bijection
  <2>. QED BY <1>1, <2>4, FS_Bijection
<1>. HIDE DEF n
<1>8. ASSUME NEW i \in 1..n PROVE g[i] \in V /\ q[i] = Encode(g[i])
  <2>1. q[i] \in F /\ DOMAIN q = 1..n
    BY <1>6
  <2>2. PICK k \in V : q[i] = Encode(k)
    BY <1>3, <2>1
  <2>3. Decode(q[i]) = k
    BY <1>1, <2>2, DecodesEncoded
  <2>4. g[i] = Decode(q[i])
    BY <1>5, <2>1
  <2>. QED BY <2>2, <2>3, <2>4
<1>9. g \in [1..n -> V]
  <2>1. DOMAIN q = 1..n
    BY <1>6
  <2>2. g = [i \in 1..n |-> g[i]]
    BY <1>5, <2>1
  <2>. QED BY <1>8, <2>2
<1>10. ASSUME NEW i \in 1..n, NEW j \in 1..n, i < j PROVE << g[i], g[j] >> \in R
  <2>1. Before(Encode(g[i]), Encode(g[j])) /\ g[i] \in V /\ g[j] \in V
    BY <1>6, <1>8, <1>10
  <2>. DEFINE v == g[i].version
              w == g[j].version
  <2>2. g[i] = Version(r, v) /\ v \in U64 /\ g[j] = Version(r, w) /\ w \in U64
    BY <1>1, <2>1
  <2>3. v < w
    <3>. HIDE DEF v, w
    <3>1. Before(Encode(Version(r, v)), Encode(Version(r, w)))
      BY <2>1, <2>2
    <3>. QED BY <2>2, <3>1, VersionsInOrder
  <2>. QED BY <1>1, <2>1, <2>3
<1>11. Induct!Lists(V, R, g)
  BY <1>7, <1>9, <1>10, SameSets, Zenon DEF Induct!Lists
<1>. QED BY <1>11 DEF V, R, g, lo, hi

(* What VersionRangesExact says of each such state.                        *)
LEMMA StoredRanges == Stored => VersionRangeExact
<1>. SUFFICES ASSUME Stored, NEW r \in RawKey, NEW from \in Numbers, NEW to \in Numbers
              PROVE  Decoded(Scan(Encode(Version(r, from)), Encode(Version(r, to))))
                       = InOrder({k \in KeyOf("Version") : k.key = r /\ k.version \in from..to},
                                 LAMBDA j, k : j.version < k.version)
  BY DEF VersionRangeExact
<1>1. r \in String /\ from \in U64 /\ to \in U64
  BY NumbersOfKeys, KeysAssumption DEF String
<1>. DEFINE V == VersionsIn(r, from, to)
            f == Decoded(Scan(Encode(Version(r, from)), Encode(Version(r, to))))
            g == InOrder(V, LowerVersion)
<1>2. /\ IsFiniteSet(V) /\ Induct!Orders(V, VersionPairs(V))
      /\ Induct!Lists(V, VersionPairs(V), f)
      /\ Induct!Lists(V, VersionPairs(V), g)
  BY <1>1, VersionsOrdered, ScanListsVersions, VersionsListed
<1>3. f = g
  <2>. HIDE DEF V, f, g
  <2>. QED BY <1>2, SameSets, Induct!OneList
<1>4. g = InOrder({k \in KeyOf("Version") : k.key = r /\ k.version \in from..to},
                  LAMBDA j, k : j.version < k.version)
  BY DEF VersionsIn, LowerVersion, InOrder
<1>. QED BY <1>3, <1>4

(* get and write_inner find the versions of a key and no other, in the     *)
(* order of the versions.                                                  *)
THEOREM VersionRangesExact == Spec => []VersionRangeExact
BY KeysStored, StoredRanges, PTL

-----------------------------------------------------------------------------
(* The scan for a prefix                                                   *)

\* Its bytes that can go one up, and the prefix up to one of them with that
\* byte one up.
Below(p) == {i \in DOMAIN p : p[i] # 255}
Bound(p, m) == [SubSeq(p, 1, m) EXCEPT ![m] = @ + 1]
IsLast(m, S) == m \in S /\ \A i \in S : m >= i

(* A set of numbers has one last element at most.                          *)
LEMMA OneLast ==
  ASSUME NEW S, \A i \in S : i \in Nat, NEW m, IsLast(m, S)
  PROVE  \A k : IsLast(k, S) <=> k = m
<1>1. ASSUME NEW k, IsLast(k, S) PROVE k = m
  <2>1. k \in Nat /\ m \in Nat /\ k >= m /\ m >= k
    BY <1>1 DEF IsLast
  <2>. QED BY <2>1
<1>. QED BY <1>1

(* The bytes of the bound.                                                 *)
LEMMA BoundString ==
  ASSUME NEW p \in String, NEW m \in Below(p)
  PROVE  /\ m \in Nat /\ Bound(p, m) \in String /\ Len(Bound(p, m)) = m
         /\ \A i \in 1..m : Bound(p, m)[i] = IF i = m THEN p[m] + 1 ELSE p[i]
<1>. DEFINE n == Len(p)
            q == SubSeq(p, 1, m)
            b == Bound(p, m)
<1>1. n \in Nat /\ DOMAIN p = 1..n /\ \A i \in 1..n : p[i] \in Byte
  BY LenProperties, ElementOfSeq DEF String
<1>. HIDE DEF n
<1>2. m \in 1..n /\ p[m] # 255
  BY <1>1 DEF Below
<1>3. m \in Nat /\ 1 \in Int /\ m \in Int /\ 1 <= m /\ m - 1 + 1 = m
  BY <1>1, <1>2
<1>4. q \in Seq(Byte) /\ Len(q) = m /\ \A i \in 1..m : q[i] = p[i]
  <2>1. \A i \in 1..m : p[i] \in Byte
    BY <1>1, <1>2
  <2>2. /\ q \in Seq(Byte)
        /\ Len(q) = IF 1 <= m THEN m - 1 + 1 ELSE 0
        /\ \A i \in 1..(m - 1 + 1) : q[i] = p[1 + i - 1]
    BY <1>3, <2>1, SubSeqProperties
  <2>3. \A i \in 1..m : 1 + i - 1 = i
    BY <1>3
  <2>. HIDE DEF q
  <2>. QED BY <1>3, <2>2, <2>3
<1>5. b = [q EXCEPT ![m] = q[m] + 1]
  BY DEF Bound
<1>. HIDE DEF q, b
<1>6. p[m] + 1 \in Byte
  <2>. DEFINE x == p[m]
  <2>1. x \in Byte /\ x # 255
    BY <1>1, <1>2
  <2>. HIDE DEF x
  <2>2. x + 1 \in Byte
    BY <2>1 DEF Byte
  <2>. QED BY <2>2 DEF x
<1>7. q \in [1..m -> Byte]
  BY <1>4
<1>8. b \in [1..m -> Byte] /\ \A i \in 1..m : b[i] = IF i = m THEN p[m] + 1 ELSE p[i]
  BY <1>3, <1>4, <1>5, <1>6, <1>7
<1>9. b \in Seq(Byte)
  BY <1>3, <1>8
<1>10. Len(b) = m
  <2>1. DOMAIN b = 1..m
    BY <1>8
  <2>. QED BY <1>3, <1>9, <2>1, LenProperties
<1>. QED BY <1>3, <1>8, <1>9, <1>10 DEF b, String

(* The bytes that are not 255, from the first one on.                      *)
LEMMA BelowCons ==
  ASSUME NEW x \in Byte, NEW q \in String
  PROVE  /\ \A i \in Below(q) : i \in Nat
         /\ 1 \in Below(Cons(x, q)) <=> x # 255
         /\ \A i \in Nat : i + 1 \in Below(Cons(x, q)) /\ i # 0 <=> i \in Below(q)
         /\ \A i \in Below(Cons(x, q)) : i \in Nat /\ i # 0
<1>. DEFINE p == Cons(x, q)
            n == Len(q)
<1>1. /\ n \in Nat /\ DOMAIN q = 1..n /\ DOMAIN p = 1..(n + 1)
      /\ p[1] = x /\ \A i \in 1..n : p[i + 1] = q[i]
  BY ConsString, LenProperties DEF String
<1>. HIDE DEF p, n
<1>2. ASSUME NEW i \in Nat PROVE i + 1 \in Below(p) /\ i # 0 <=> i \in Below(q)
  <2>1. i + 1 \in 1..(n + 1) /\ i # 0 <=> i \in 1..n
    BY <1>1
  <2>2. i \in 1..n => p[i + 1] = q[i]
    BY <1>1
  <2>. QED BY <1>1, <2>1, <2>2 DEF Below
<1>3. 1 \in Below(p) <=> x # 255
  BY <1>1 DEF Below
<1>4. \A i \in Below(p) : i \in Nat /\ i # 0
  BY <1>1 DEF Below
<1>5. \A i \in Below(q) : i \in Nat
  BY <1>1 DEF Below
<1>. QED BY <1>2, <1>3, <1>4, <1>5 DEF p

(* The bound, byte by byte.                                                *)
LEMMA BoundCons ==
  ASSUME NEW x \in Byte, NEW q \in String
  PROVE  /\ \A m \in Below(q) : /\ Bound(Cons(x, q), m + 1) = Cons(x, Bound(q, m))
                                /\ Bound(q, m) \in String
         /\ x # 255 => Bound(Cons(x, q), 1) = Cons(x + 1, << >>) /\ x + 1 \in Byte
<1>. DEFINE p == Cons(x, q)
<1>1. p \in String /\ p[1] = x /\ \A i \in 1..Len(q) : p[i + 1] = q[i]
  BY ConsString
<1>2. ASSUME NEW m \in Below(q)
      PROVE  Bound(p, m + 1) = Cons(x, Bound(q, m)) /\ Bound(q, m) \in String
  <2>1. m \in Nat /\ m + 1 \in Below(p) /\ m # 0
    BY BelowCons
  <2>. DEFINE k == m + 1
              b == Bound(p, k)
              c == Bound(q, m)
              d == Cons(x, c)
  <2>2. /\ c \in String /\ Len(c) = m
        /\ \A i \in 1..m : c[i] = IF i = m THEN q[m] + 1 ELSE q[i]
    BY BoundString
  <2>3. k \in Below(p)
    BY <2>1
  <2>. HIDE DEF p, c, k
  <2>4. /\ b \in String /\ Len(b) = k
        /\ \A i \in 1..k : b[i] = IF i = k THEN p[k] + 1 ELSE p[i]
    BY <1>1, <2>3, BoundString
  <2>5. d \in String /\ Len(d) = Len(c) + 1 /\ d[1] = x /\ \A i \in 1..Len(c) : d[i + 1] = c[i]
    BY <2>2, ConsString
  <2>. HIDE DEF b, d
  <2>6. m <= Len(q) /\ Len(q) \in Nat
    BY LenProperties DEF Below, String
  <2>7. ASSUME NEW i \in 1..k PROVE b[i] = d[i]
    <3>1. CASE i = 1
      BY <1>1, <2>1, <2>4, <2>5, <3>1 DEF k
    <3>2. CASE i # 1
      <4>. DEFINE j == i - 1
      <4>1. j \in 1..m /\ j \in 1..Len(q) /\ i = j + 1 /\ (i = k <=> j = m)
        BY <2>1, <2>6, <3>2 DEF k
      <4>. HIDE DEF j
      <4>2. p[i] = q[j] /\ d[i] = c[j]
        BY <1>1, <2>2, <2>5, <4>1
      <4>. QED BY <2>2, <2>4, <4>1, <4>2
    <3>. QED BY <3>1, <3>2
  <2>8. Len(b) = Len(d) /\ Len(b) = k
    BY <2>1, <2>2, <2>4, <2>5 DEF k
  <2>9. b = d
    BY <2>4, <2>5, <2>7, <2>8, SeqEqual DEF String
  <2>. QED BY <2>2, <2>9 DEF b, d, c, k
<1>3. ASSUME x # 255 PROVE Bound(p, 1) = Cons(x + 1, << >>) /\ x + 1 \in Byte
  <2>. DEFINE b == Bound(p, 1)
              d == Cons(x + 1, << >>)
              y == x + 1
  <2>1. y \in Byte
    BY <1>3 DEF Byte
  <2>2. 1 \in Below(p)
    BY <1>3, BelowCons
  <2>3. /\ b \in String /\ Len(b) = 1
        /\ \A i \in 1..1 : b[i] = IF i = 1 THEN p[1] + 1 ELSE p[i]
    BY <1>1, <2>2, BoundString
  <2>. HIDE DEF b, p
  <2>4. b[1] = y
    BY <1>1, <2>3
  <2>5. d \in String /\ Len(d) = 1 /\ d[1] = y
    <3>. HIDE DEF y
    <3>1. d = Cons(y, << >>)
      BY DEF y
    <3>2. Cons(y, << >>) \in String /\ Len(Cons(y, << >>)) = Len(<< >>) + 1 /\ Cons(y, << >>)[1] = y
      BY <2>1, EmptyString, ConsString
    <3>3. Len(<< >>) + 1 = 1
      BY EmptyString
    <3>. QED BY <3>1, <3>2, <3>3
  <2>. HIDE DEF d, y
  <2>6. \A i \in 1..Len(b) : b[i] = d[i]
    BY <2>3, <2>4, <2>5
  <2>7. b = d
    BY <2>3, <2>5, <2>6, SeqEqual DEF String
  <2>. QED BY <2>1, <2>7 DEF b, d, y
<1>. QED BY <1>2, <1>3 DEF p

\* Not before the prefix and, if there is one, before the bound.
Within(s, p) ==
    /\ ~Before(s, p)
    /\ \A m : IsLast(m, Below(p)) => Before(s, Bound(p, m))

(* The bound is the end of what starts with the prefix.                    *)
LEMMA WithinBound ==
  ASSUME NEW prefix \in String
  PROVE  /\ Below(prefix) # {} => \E m : IsLast(m, Below(prefix))
         /\ \A s \in String : Within(s, prefix) <=> Starts(prefix, s)
<1>. DEFINE S == {r \in String : /\ Below(r) # {} => \E m : IsLast(m, Below(r))
                                 /\ \A s \in String : Within(s, r) <=> Starts(r, s)}
<1>1. << >> \in S
  <2>1. Below(<< >>) = {}
    BY DEF Below
  <2>2. \A s \in String : Within(s, << >>) <=> Starts(<< >>, s)
    <3>1. \A m : ~IsLast(m, Below(<< >>))
      BY <2>1 DEF IsLast
    <3>2. \A s \in String : ~Before(s, << >>)
      BY BeforeEmpty
    <3>3. \A s \in String : Starts(<< >>, s)
      BY EmptyString, StartsCons, Bytes
    <3>. QED BY <3>1, <3>2, <3>3 DEF Within
  <2>. QED BY <2>1, <2>2, EmptyString
<1>2. ASSUME NEW x \in Byte, NEW q \in String, q \in S PROVE Cons(x, q) \in S
  <2>. DEFINE p == Cons(x, q)
  <2>1. p \in String /\ p # << >>
    BY ConsString
  <2>2. ~Starts(p, << >>) /\ ~Within(<< >>, p)
    <3>1. Before(<< >>, p)
      BY <2>1, BeforeEmpty
    <3>. QED BY <3>1, StartsCons DEF Within
  <2>3. /\ Below(q) # {} => \E m : IsLast(m, Below(q))
        /\ \A s \in String : Within(s, q) <=> Starts(q, s)
    BY <1>2
  <2>4. /\ \A i \in Below(q) : i \in Nat
        /\ 1 \in Below(p) <=> x # 255
        /\ \A i \in Nat : i + 1 \in Below(p) /\ i # 0 <=> i \in Below(q)
        /\ \A i \in Below(p) : i \in Nat /\ i # 0
    BY BelowCons
  <2>5. ASSUME NEW y \in Byte, NEW t \in String
        PROVE  /\ Starts(p, Cons(y, t)) <=> x = y /\ Starts(q, t)
               /\ Before(Cons(y, t), p) <=> y < x \/ (y = x /\ Before(t, q))
    BY StartsCons, BeforeCons
  <2>6. /\ \A m \in Below(q) : Bound(p, m + 1) = Cons(x, Bound(q, m)) /\ Bound(q, m) \in String
        /\ x # 255 => Bound(p, 1) = Cons(x + 1, << >>) /\ x + 1 \in Byte
    BY BoundCons
  <2>. HIDE DEF p, S
  <2>7. CASE Below(q) # {}
    <3>1. PICK m : IsLast(m, Below(q))
      BY <2>3, <2>7
    <3>2. m \in Below(q) /\ m \in Nat
      BY <2>4, <3>1 DEF IsLast
    <3>3. IsLast(m + 1, Below(p))
      <4>1. m + 1 \in Below(p)
        BY <2>4, <3>2
      <4>2. ASSUME NEW i \in Below(p) PROVE m + 1 >= i
        <5>1. i \in Nat /\ i # 0
          BY <2>4
        <5>. DEFINE j == i - 1
        <5>2. j \in Nat /\ i = j + 1
          BY <5>1
        <5>. HIDE DEF j
        <5>3. j = 0 \/ j \in Below(q)
          BY <2>4, <5>2
        <5>4. j \in Below(q) => m >= j
          BY <3>1 DEF IsLast
        <5>. QED BY <3>2, <5>2, <5>3, <5>4
      <4>. QED BY <4>1, <4>2 DEF IsLast
    <3>4. \A k : IsLast(k, Below(p)) <=> k = m + 1
      BY <2>4, <3>3, OneLast
    <3>5. \A k : IsLast(k, Below(q)) <=> k = m
      BY <2>4, <3>1, OneLast
    <3>6. ASSUME NEW y \in Byte, NEW t \in String
          PROVE  Within(Cons(y, t), p) <=> Starts(p, Cons(y, t))
      <4>1. Within(Cons(y, t), p) <=> ~Before(Cons(y, t), p) /\ Before(Cons(y, t), Bound(p, m + 1))
        BY <3>4 DEF Within
      <4>2. Within(t, q) <=> ~Before(t, q) /\ Before(t, Bound(q, m))
        BY <3>5 DEF Within
      <4>3. Before(Cons(y, t), Bound(p, m + 1)) <=> y < x \/ (y = x /\ Before(t, Bound(q, m)))
        <5>1. Bound(p, m + 1) = Cons(x, Bound(q, m)) /\ Bound(q, m) \in String
          BY <2>6, <3>2
        <5>. QED BY <5>1, BeforeCons
      <4>4. x \in Int /\ y \in Int
        BY DEF Byte
      <4>5. Within(t, q) <=> Starts(q, t)
        BY <2>3
      <4>. QED BY <2>5, <4>1, <4>2, <4>3, <4>4, <4>5
    <3>7. ASSUME NEW s \in String PROVE Within(s, p) <=> Starts(p, s)
      <4>1. CASE s = << >>
        BY <2>2, <4>1 DEF p
      <4>2. CASE s # << >>
        <5>1. PICK y \in Byte, t \in String : s = Cons(y, t)
          BY <4>2, TakeApart
        <5>. QED BY <3>6, <5>1
      <4>. QED BY <4>1, <4>2
    <3>. QED BY <2>1, <3>3, <3>7 DEF S, p
  <2>8. CASE Below(q) = {}
    <3>1. \A i \in Below(p) : i = 1
      <4>1. ASSUME NEW i \in Below(p) PROVE i = 1
        <5>. DEFINE j == i - 1
        <5>1. j \in Nat /\ i = j + 1
          BY <2>4
        <5>. HIDE DEF j
        <5>2. j = 0
          BY <2>4, <2>8, <5>1
        <5>. QED BY <5>1, <5>2
      <4>. QED BY <4>1
    <3>2. \A k : IsLast(k, Below(p)) <=> k = 1 /\ x # 255
      BY <2>4, <3>1 DEF IsLast
    <3>3. \A k : ~IsLast(k, Below(q))
      BY <2>8 DEF IsLast
    <3>4. \A t \in String : Starts(q, t) <=> ~Before(t, q)
      BY <2>3, <3>3 DEF Within
    <3>5. ASSUME NEW y \in Byte, NEW t \in String
          PROVE  Within(Cons(y, t), p) <=> Starts(p, Cons(y, t))
      <4>1. Within(Cons(y, t), p) <=>
              ~Before(Cons(y, t), p) /\ (x # 255 => Before(Cons(y, t), Bound(p, 1)))
        BY <3>2 DEF Within
      <4>2. x # 255 => (Before(Cons(y, t), Bound(p, 1)) <=> y < x + 1)
        <5>1. SUFFICES ASSUME x # 255 PROVE Before(Cons(y, t), Bound(p, 1)) <=> y < x + 1
          OBVIOUS
        <5>. DEFINE z == x + 1
        <5>2. Bound(p, 1) = Cons(z, << >>) /\ z \in Byte
          BY <2>6, <5>1
        <5>. HIDE DEF z
        <5>3. Before(Cons(y, t), Cons(z, << >>)) <=> y < z \/ (y = z /\ Before(t, << >>))
          BY <5>2, BeforeCons, EmptyString
        <5>4. ~Before(t, << >>)
          BY BeforeEmpty
        <5>. QED BY <5>2, <5>3, <5>4 DEF z
      <4>3. x \in 0..255 /\ y \in 0..255
        BY DEF Byte
      <4>. QED BY <2>5, <3>4, <4>1, <4>2, <4>3
    <3>6. ASSUME NEW s \in String PROVE Within(s, p) <=> Starts(p, s)
      <4>1. CASE s = << >>
        BY <2>2, <4>1 DEF p
      <4>2. CASE s # << >>
        <5>1. PICK y \in Byte, t \in String : s = Cons(y, t)
          BY <4>2, TakeApart
        <5>. QED BY <3>5, <5>1
      <4>. QED BY <4>1, <4>2
    <3>7. Below(p) # {} => \E m : IsLast(m, Below(p))
      BY <2>4, <3>1, <3>2
    <3>. QED BY <2>1, <3>6, <3>7 DEF S, p
  <2>. QED BY <2>7, <2>8 DEF p
<1>. HIDE DEF S
<1>3. prefix \in S
  BY <1>1, <1>2, EachString, Zenon
<1>. QED BY <1>3 DEF S

(* scan_prefix takes from the map what starts with the prefix.             *)
LEMMA ScanPrefixFinds ==
  ASSUME NEW p \in String, NEW D \in SUBSET String
  PROVE  LET below == {i \in DOMAIN p : p[i] # 255}
             bound == [SubSeq(p, 1, Max(below)) EXCEPT ![Max(below)] = @ + 1]
         IN  {s \in D : ~Before(s, p) /\ (below # {} => Before(s, bound))} = {s \in D : Starts(p, s)}
<1>. DEFINE m == Max(Below(p))
<1>1. Below(p) # {} => IsLast(m, Below(p))
  <2>1. Below(p) # {} => \E k : IsLast(k, Below(p))
    BY WithinBound
  <2>. QED BY <2>1 DEF Max, IsLast
<1>2. \A i \in Below(p) : i \in Nat
  BY LenProperties DEF Below, String
<1>3. \A k : IsLast(k, Below(p)) => k = m
  <2>. HIDE DEF m
  <2>. QED BY <1>1, <1>2 DEF IsLast
<1>4. \A s : Within(s, p) <=> ~Before(s, p) /\ (Below(p) # {} => Before(s, Bound(p, m)))
  <2>. HIDE DEF m
  <2>1. \A k : IsLast(k, Below(p)) => Below(p) # {}
    BY DEF IsLast
  <2>. QED BY <1>1, <1>3, <2>1 DEF Within
<1>5. \A s \in D : Within(s, p) <=> Starts(p, s)
  BY WithinBound
<1>6. {s \in D : ~Before(s, p) /\ (Below(p) # {} => Before(s, Bound(p, m)))} = {s \in D : Starts(p, s)}
  <2>. HIDE DEF m
  <2>. QED BY <1>4, <1>5
<1>. QED BY <1>6 DEF Below, Bound

(* It lists what it takes in order.                                        *)
LEMMA PrefixFound ==
  ASSUME Stored, NEW p \in String
  PROVE  LET q == ScanPrefix(p) IN
         /\ ToSet(q) = {s \in data : Starts(p, s)}
         /\ \E n \in Nat : /\ DOMAIN q = 1..n
                           /\ \A i \in 1..n : q[i] \in data /\ Starts(p, q[i])
                           /\ \A i, j \in 1..n : i < j => Before(q[i], q[j])
<1>. DEFINE F == {s \in data : Starts(p, s)}
            q == ScanPrefix(p)
            n == Cardinality(F)
<1>1. q = Sorted(F)
  BY ScanPrefixFinds, DataStrings DEF ScanPrefix
<1>2. F \in SUBSET String /\ IsFiniteSet(F)
  BY DataStrings
<1>. HIDE DEF q, F
<1>3. /\ n \in Nat /\ q \in [1..n -> F]
      /\ \A s \in F : \E i \in 1..n : q[i] = s
      /\ \A i, j \in 1..n : i < j => Before(q[i], q[j])
  BY <1>1, <1>2, SortedAll
<1>. HIDE DEF n
<1>4. DOMAIN q = 1..n /\ \A i \in 1..n : q[i] \in F
  BY <1>3
<1>5. ToSet(q) = F
  BY <1>3, <1>4 DEF ToSet
<1>6. \A i \in 1..n : q[i] \in data /\ Starts(p, q[i])
  BY <1>4 DEF F
<1>. QED BY <1>3, <1>4, <1>5, <1>6 DEF q, F

\* What is found, decoded.
(* The keys found by a prefix, in the order of their bytes.                *)
LEMMA KeysFound ==
  ASSUME Stored, NEW p \in String
  PROVE  LET q == ScanPrefix(p)
             found == Decoded(q)
         IN  /\ ToSet(found) = {k \in keys : Starts(p, Encode(k))}
             /\ DOMAIN found = DOMAIN q
             /\ \A i \in DOMAIN found : found[i] \in keys /\ q[i] = Encode(found[i])
             /\ \A i, j \in DOMAIN found : i < j => Before(Encode(found[i]), Encode(found[j]))
<1>. DEFINE q == ScanPrefix(p)
            found == Decoded(q)
<1>1. /\ ToSet(q) = {s \in data : Starts(p, s)}
      /\ \E n \in Nat : /\ DOMAIN q = 1..n
                        /\ \A i \in 1..n : q[i] \in data /\ Starts(p, q[i])
                        /\ \A i, j \in 1..n : i < j => Before(q[i], q[j])
  BY PrefixFound
<1>. HIDE DEF q
<1>2. found = [i \in DOMAIN q |-> Decode(q[i])]
  BY DEF Decoded
<1>. HIDE DEF found
<1>3. \A k \in keys : k \in StoreKey /\ Decode(Encode(k)) = k
  BY StoreKeys, DecodesEncoded DEF Stored
<1>4. DOMAIN found = DOMAIN q
  BY <1>2
<1>5. ASSUME NEW i \in DOMAIN found
      PROVE  found[i] \in keys /\ q[i] = Encode(found[i]) /\ Starts(p, q[i])
  <2>1. q[i] \in data /\ Starts(p, q[i])
    BY <1>1, <1>4
  <2>2. PICK k \in keys : q[i] = Encode(k)
    BY <2>1 DEF Stored
  <2>3. found[i] = k
    BY <1>2, <1>3, <1>4, <2>2
  <2>. QED BY <2>1, <2>2, <2>3
<1>6. \A i, j \in DOMAIN found : i < j => Before(Encode(found[i]), Encode(found[j]))
  BY <1>1, <1>4, <1>5
<1>7. ASSUME NEW k \in keys, Starts(p, Encode(k)) PROVE \E i \in DOMAIN found : found[i] = k
  <2>1. Encode(k) \in ToSet(q)
    BY <1>1, <1>7 DEF Stored
  <2>2. PICK i \in DOMAIN q : q[i] = Encode(k)
    BY <2>1 DEF ToSet
  <2>. QED BY <1>2, <1>3, <1>4, <2>2
<1>8. ToSet(found) = {k \in keys : Starts(p, Encode(k))}
  BY <1>5, <1>7 DEF ToSet
<1>. QED BY <1>4, <1>5, <1>6, <1>8 DEF found, q

\* The byte string without its last two bytes.
(* Cutting two bytes off leaves what is before them.                       *)
LEMMA WithoutEnd ==
  ASSUME NEW s \in String, NEW x \in Byte, NEW y \in Byte
  PROVE  SubSeq(Cat(s, << x, y >>), 1, Len(Cat(s, << x, y >>)) - 2) = s
<1>. DEFINE t == << x, y >>
            w == Cat(s, t)
            n == Len(s)
<1>1. t \in String /\ Len(t) = 2
  BY ShortStrings
<1>2. n \in Nat /\ SubSeq(s, 1, n) = s
  BY LenProperties, SubSeqFull DEF String
<1>. HIDE DEF t
<1>3. Len(w) = n + Len(t)
  BY <1>1, CatString
<1>4. Len(w) - 2 = n
  BY <1>1, <1>2, <1>3
<1>5. SubSeq(w, 1, n) = SubSeq(s, 1, n)
  <2>1. CASE n = 0
    BY <2>1, SubSeqEmpty
  <2>2. CASE n # 0
    <3>1. 1 \in 1..n /\ n \in 1..n
      BY <1>2, <2>2
    <3>. QED BY <1>1, <3>1, SubSeqOfConcat1 DEF String, Cat
  <2>. QED BY <2>1, <2>2
<1>. HIDE DEF w, n
<1>6. SubSeq(w, 1, Len(w) - 2) = s
  BY <1>2, <1>4, <1>5
<1>. QED BY <1>6 DEF w, t

(* What is left of a key's bytes without the terminator.                   *)
LEMMA VersionPrefixForm ==
  ASSUME NEW r \in String
  PROVE  VersionPrefix(r) \in String /\ VersionPrefix(r) = Cons(3, Escaped(r))
<1>. DEFINE e == Escaped(r)
            z == << 0, 0 >>
            p == Cons(3, e)
<1>1. e \in String /\ z \in String
  BY EscapedString, ShortStrings, Bytes
<1>. HIDE DEF z, e
<1>2. p \in String
  BY <1>1, Bytes, ConsString
<1>3. << 3 >> \o SerializeBytes(r) = Cons(3, Cat(e, z))
  BY DEF SerializeBytes, Cat, Cons, e, z
<1>4. Cons(3, Cat(e, z)) = Cat(p, z)
  BY <1>1, Bytes, CatCons
<1>5. VersionPrefix(r) = SubSeq(Cat(p, z), 1, Len(Cat(p, z)) - 2)
  BY <1>3, <1>4 DEF VersionPrefix
<1>6. SubSeq(Cat(p, z), 1, Len(Cat(p, z)) - 2) = p
  <2>. HIDE DEF p
  <2>. QED BY <1>2, Bytes, WithoutEnd DEF z
<1>. QED BY <1>2, <1>5, <1>6 DEF e

\* What a key starts with: the number of its kind, and for two kinds more.
(* A prefix tells the kind of the keys it finds.                           *)
LEMMA StartsWithKind ==
  ASSUME NEW x \in Byte, NEW p \in String, NEW k \in StoreKey
  PROVE  Starts(Cons(x, p), Encode(k)) <=>
           \/ k \in NextVersionKey /\ x = 0 /\ Starts(p, << >>)
           \/ k \in TxnActiveKey /\ x = 1 /\ Starts(p, BigEndian(k.version))
           \/ k \in TxnWriteKey /\ x = 2 /\ Starts(p, Cat(BigEndian(k.version), SerializeBytes(k.key)))
           \/ k \in VersionKey /\ x = 3 /\ Starts(p, Cat(SerializeBytes(k.key), BigEndian(k.version)))
<1>1. ASSUME NEW y \in Byte, NEW s \in String, Encode(k) = Cons(y, s)
      PROVE  Starts(Cons(x, p), Encode(k)) <=> x = y /\ Starts(p, s)
  BY <1>1, StartsCons
<1>2. CASE k \in NextVersionKey
  <2>1. Starts(Cons(x, p), Encode(k)) <=> x = 0 /\ Starts(p, << >>)
    BY <1>1, <1>2, EncodedForms, Bytes, EmptyString
  <2>2. k \notin TxnActiveKey /\ k \notin TxnWriteKey /\ k \notin VersionKey
    BY <1>2 DEF NextVersionKey, TxnActiveKey, TxnWriteKey, VersionKey
  <2>. QED BY <1>2, <2>1, <2>2
<1>3. CASE k \in TxnActiveKey
  <2>. DEFINE s == BigEndian(k.version)
  <2>1. s \in String
    BY <1>3, NumberBytes DEF TxnActiveKey
  <2>2. Encode(k) = Cons(1, s)
    BY <1>3, EncodedForms
  <2>. HIDE DEF s
  <2>3. Starts(Cons(x, p), Encode(k)) <=> x = 1 /\ Starts(p, s)
    BY <1>1, <2>1, <2>2, Bytes
  <2>4. k \notin NextVersionKey /\ k \notin TxnWriteKey /\ k \notin VersionKey
    BY <1>3 DEF NextVersionKey, TxnActiveKey, TxnWriteKey, VersionKey
  <2>. QED BY <1>3, <2>3, <2>4 DEF s
<1>4. CASE k \in TxnWriteKey
  <2>. DEFINE s == Cat(BigEndian(k.version), SerializeBytes(k.key))
  <2>1. s \in String
    BY <1>4, Parts DEF TxnWriteKey
  <2>2. Encode(k) = Cons(2, s)
    BY <1>4, EncodedForms
  <2>. HIDE DEF s
  <2>3. Starts(Cons(x, p), Encode(k)) <=> x = 2 /\ Starts(p, s)
    BY <1>1, <2>1, <2>2, Bytes
  <2>4. k \notin NextVersionKey /\ k \notin TxnActiveKey /\ k \notin VersionKey
    BY <1>4 DEF NextVersionKey, TxnActiveKey, TxnWriteKey, VersionKey
  <2>. QED BY <1>4, <2>3, <2>4 DEF s
<1>5. CASE k \in VersionKey
  <2>. DEFINE s == Cat(SerializeBytes(k.key), BigEndian(k.version))
  <2>1. s \in String
    BY <1>5, Parts DEF VersionKey
  <2>2. Encode(k) = Cons(3, s)
    BY <1>5, EncodedForms
  <2>. HIDE DEF s
  <2>3. Starts(Cons(x, p), Encode(k)) <=> x = 3 /\ Starts(p, s)
    BY <1>1, <2>1, <2>2, Bytes
  <2>4. k \notin NextVersionKey /\ k \notin TxnActiveKey /\ k \notin TxnWriteKey
    BY <1>5 DEF NextVersionKey, TxnActiveKey, TxnWriteKey, VersionKey
  <2>. QED BY <1>5, <2>3, <2>4 DEF s
<1>. QED BY <1>2, <1>3, <1>4, <1>5 DEF StoreKey

(* The kind of a key tells its fields.                                     *)
LEMMA Kinds ==
  ASSUME NEW k \in StoreKey
  PROVE  /\ k.kind = "TxnActive" <=> k \in TxnActiveKey
         /\ k.kind = "TxnWrite" <=> k \in TxnWriteKey
         /\ k.kind = "Version" <=> k \in VersionKey
BY DEF StoreKey, NextVersionKey, TxnActiveKey, TxnWriteKey, VersionKey

\* The prefix of the versions of the keys that start with r.
(* The prefix of versions finds those of the keys that begin with it.      *)
LEMMA StartsAsVersions ==
  ASSUME NEW r \in String, NEW k \in StoreKey
  PROVE  Starts(VersionPrefix(r), Encode(k)) <=> k.kind = "Version" /\ IsPrefix(r, k.key)
<1>. DEFINE e == Escaped(r)
<1>1. e \in String /\ VersionPrefix(r) = Cons(3, e)
  BY EscapedString, VersionPrefixForm
<1>. HIDE DEF e
<1>2. Starts(VersionPrefix(r), Encode(k)) <=>
        k \in VersionKey /\ Starts(e, Cat(SerializeBytes(k.key), BigEndian(k.version)))
  BY <1>1, StartsWithKind, Bytes
<1>3. ASSUME k \in VersionKey
      PROVE  Starts(e, Cat(SerializeBytes(k.key), BigEndian(k.version))) <=> IsPrefix(r, k.key)
  <2>1. k.key \in String /\ k.version \in U64 /\ BigEndian(k.version) \in String
    BY <1>3, Parts DEF VersionKey
  <2>2. Cat(SerializeBytes(k.key), BigEndian(k.version)) = Cat(Escaped(k.key), End(BigEndian(k.version)))
    BY <2>1, Serialized
  <2>3. Starts(e, Cat(Escaped(k.key), End(BigEndian(k.version)))) <=> Starts(r, k.key)
    BY <2>1, EscapedStarts DEF e
  <2>. QED BY <2>1, <2>2, <2>3, PrefixStarts
<1>. QED BY <1>2, <1>3, Kinds

(* The prefix of active transactions finds those only.                     *)
LEMMA StartsAsActive ==
  ASSUME NEW k \in StoreKey
  PROVE  /\ TxnActivePrefix \in String
         /\ Starts(TxnActivePrefix, Encode(k)) <=> k.kind = "TxnActive"
<1>1. TxnActivePrefix = Cons(1, << >>) /\ TxnActivePrefix \in String
  BY ShortStrings, Bytes DEF TxnActivePrefix
<1>2. Starts(Cons(1, << >>), Encode(k)) <=> k \in TxnActiveKey
  <2>1. k \in TxnActiveKey => Starts(<< >>, BigEndian(k.version))
    BY NumberBytes, StartsCons, Bytes, EmptyString DEF TxnActiveKey
  <2>. QED BY <2>1, StartsWithKind, Bytes, EmptyString
<1>. QED BY <1>1, <1>2, Kinds

(* A number at the start tells the number.                                 *)
LEMMA StartsAsNumber ==
  ASSUME NEW v \in U64, NEW w \in U64, NEW t \in String
  PROVE  Starts(BigEndian(v), Cat(BigEndian(w), t)) <=> v = w
<1>. DEFINE a == v \div 256
            b == v % 256
            c == w \div 256
            d == w % 256
<1>1. /\ a \in Byte /\ b \in Byte /\ v = 256 * a + b /\ BigEndian(v) = Cons(a, Cons(b, << >>))
      /\ c \in Byte /\ d \in Byte /\ w = 256 * c + d /\ BigEndian(w) = Cons(c, Cons(d, << >>))
  BY NumberBytes
<1>6. v = w => a = c /\ b = d
  OBVIOUS
<1>. HIDE DEF a, b, c, d
<1>2. << >> \in String /\ Cons(b, << >>) \in String /\ Cons(d, << >>) \in String /\ Cons(d, t) \in String
  BY <1>1, EmptyString, ConsString
<1>3. Cat(Cons(d, << >>), t) = Cons(d, t)
  BY <1>1, <1>2, CatCons, CatString
<1>4. Cat(BigEndian(w), t) = Cons(c, Cons(d, t))
  BY <1>1, <1>2, <1>3, CatCons
<1>5. Starts(Cons(b, << >>), Cons(d, t)) <=> b = d
  BY <1>1, <1>2, StartsCons
<1>7. Starts(Cons(a, Cons(b, << >>)), Cons(c, Cons(d, t))) <=> a = c /\ b = d
  BY <1>1, <1>2, <1>5, StartsCons
<1>. QED BY <1>1, <1>4, <1>6, <1>7

(* The prefix of a transaction's writes finds those only.                  *)
LEMMA StartsAsWrite ==
  ASSUME NEW v \in U64, NEW k \in StoreKey
  PROVE  /\ TxnWritePrefix(v) \in String
         /\ Starts(TxnWritePrefix(v), Encode(k)) <=> k.kind = "TxnWrite" /\ k.version = v
<1>. DEFINE n == BigEndian(v)
<1>1. n \in String
  BY NumberBytes
<1>2. TxnWritePrefix(v) = Cons(2, n)
  BY DEF TxnWritePrefix, Cons
<1>. HIDE DEF n
<1>3. Cons(2, n) \in String
  BY <1>1, Bytes, ConsString
<1>4. Starts(Cons(2, n), Encode(k)) <=>
        k \in TxnWriteKey /\ Starts(n, Cat(BigEndian(k.version), SerializeBytes(k.key)))
  BY <1>1, StartsWithKind, Bytes
<1>5. k \in TxnWriteKey =>
        (Starts(n, Cat(BigEndian(k.version), SerializeBytes(k.key))) <=> v = k.version)
  <2>1. SUFFICES ASSUME k \in TxnWriteKey
                 PROVE  Starts(n, Cat(BigEndian(k.version), SerializeBytes(k.key))) <=> v = k.version
    OBVIOUS
  <2>2. k.version \in U64 /\ k.key \in String
    BY <2>1 DEF TxnWriteKey
  <2>3. SerializeBytes(k.key) \in String
    BY <2>2, Parts
  <2>. QED BY <2>2, <2>3, StartsAsNumber DEF n
<1>. QED BY <1>2, <1>3, <1>4, <1>5, Kinds

(* What PrefixScansExact says of each such state.                          *)
LEMMA StoredPrefixes == Stored => PrefixScanExact
<1>. SUFFICES ASSUME Stored PROVE PrefixScanExact
  OBVIOUS
<1>1. \A k \in keys : k \in StoreKey
  BY StoreKeys DEF Stored
<1>2. ASSUME NEW p \in RawKey
      PROVE  LET found == Decoded(ScanPrefix(VersionPrefix(p)))
             IN  /\ ToSet(found) = {k \in KeyOf("Version") : IsPrefix(p, k.key)}
                 /\ \A i, j \in DOMAIN found :
                       i < j /\ found[i].key = found[j].key => found[i].version < found[j].version
  <2>. DEFINE found == Decoded(ScanPrefix(VersionPrefix(p)))
  <2>1. p \in String
    BY KeysAssumption DEF String
  <2>2. VersionPrefix(p) \in String
    BY <2>1, VersionPrefixForm
  <2>3. /\ ToSet(found) = {k \in keys : Starts(VersionPrefix(p), Encode(k))}
        /\ \A i \in DOMAIN found : found[i] \in keys
        /\ \A i, j \in DOMAIN found : i < j => Before(Encode(found[i]), Encode(found[j]))
    BY <2>2, KeysFound
  <2>. HIDE DEF found
  <2>4. ToSet(found) = {k \in KeyOf("Version") : IsPrefix(p, k.key)}
    BY <1>1, <2>1, <2>3, StartsAsVersions DEF KeyOf
  <2>5. ASSUME NEW i \in DOMAIN found, NEW j \in DOMAIN found, i < j, found[i].key = found[j].key
        PROVE  found[i].version < found[j].version
    <3>. DEFINE k == found[i]
                l == found[j]
    <3>1. k \in ToSet(found) /\ l \in ToSet(found)
      BY DEF ToSet
    <3>2. k \in keys /\ k.kind = "Version" /\ l \in keys /\ l.kind = "Version"
      BY <2>4, <3>1 DEF KeyOf
    <3>3. Before(Encode(k), Encode(l)) /\ k.key = l.key
      BY <2>3, <2>5
    <3>. HIDE DEF k, l
    <3>4. /\ k = Version(k.key, k.version) /\ k.key \in String /\ k.version \in U64
          /\ l = Version(l.key, l.version) /\ l.version \in U64
      BY <1>1, <3>2, VersionKeys
    <3>. DEFINE r == k.key
                v == k.version
                w == l.version
    <3>5. k = Version(r, v) /\ l = Version(r, w) /\ r \in String /\ v \in U64 /\ w \in U64
      BY <3>3, <3>4
    <3>. HIDE DEF r, v, w
    <3>6. v < w
      BY <3>3, <3>5, VersionsInOrder
    <3>. QED BY <3>6 DEF v, w, k, l
  <2>. QED BY <2>4, <2>5 DEF found
<1>3. ToSet(Decoded(ScanPrefix(TxnActivePrefix))) = KeyOf("TxnActive")
  <2>1. TxnActivePrefix \in String
    BY ShortStrings, Bytes DEF TxnActivePrefix
  <2>2. ToSet(Decoded(ScanPrefix(TxnActivePrefix))) = {k \in keys : Starts(TxnActivePrefix, Encode(k))}
    BY <2>1, KeysFound
  <2>. QED BY <1>1, <2>2, StartsAsActive DEF KeyOf
<1>4. ASSUME NEW v \in Numbers
      PROVE  ToSet(Decoded(ScanPrefix(TxnWritePrefix(v)))) = {k \in KeyOf("TxnWrite") : k.version = v}
  <2>1. v \in U64
    BY NumbersOfKeys
  <2>2. TxnWritePrefix(v) \in String
    <3>1. [kind |-> "NextVersion"] \in StoreKey
      BY DEF StoreKey, NextVersionKey
    <3>. QED BY <2>1, <3>1, StartsAsWrite
  <2>3. ToSet(Decoded(ScanPrefix(TxnWritePrefix(v)))) = {k \in keys : Starts(TxnWritePrefix(v), Encode(k))}
    BY <2>2, KeysFound
  <2>. QED BY <1>1, <2>1, <2>3, StartsAsWrite DEF KeyOf
<1>. QED BY <1>2, <1>3, <1>4 DEF PrefixScanExact

(* scan_prefix finds what starts with the prefix, in order, and the scans  *)
(* for active transactions and for the writes of one find those.           *)
THEOREM PrefixScansExact == Spec => []PrefixScanExact
BY KeysStored, StoredPrefixes, PTL

-----------------------------------------------------------------------------
(* Keys of the table layer                                                 *)

(* Names are byte strings, also one after the other.                       *)
LEMMA NameString ==
  /\ \A t \in Name : t \in String
  /\ \A t, u \in Name : Cat(t, u) \in Name
<1>1. ASSUME NEW t \in Name PROVE t \in String
  <2>1. \A i \in 1..Len(t) : t[i] \in 5..255
    BY ElementOfSeq DEF Name
  <2>2. \A i \in 1..Len(t) : t[i] \in Byte
    BY <2>1 DEF Byte
  <2>. DEFINE S == 5..255
  <2>6. t \in Seq(S)
    BY DEF Name
  <2>. HIDE DEF S
  <2>7. Len(t) \in Nat /\ t \in [1..Len(t) -> S]
    BY <2>6, LenProperties
  <2>3. Len(t) \in Nat /\ t \in [1..Len(t) -> 5..255]
    BY <2>7 DEF S
  <2>. DEFINE n == Len(t)
  <2>. HIDE DEF n
  <2>4. t \in [1..n -> Byte]
    BY <2>2, <2>3 DEF n
  <2>5. n \in Nat
    BY <2>3 DEF n
  <2>. QED BY <2>4, <2>5, SeqDef DEF String
<1>2. ASSUME NEW t \in Name, NEW u \in Name PROVE Cat(t, u) \in Name
  BY ConcatProperties DEF Name, Cat
<1>. QED BY <1>1, <1>2

(* No byte of a name is the number of a type.                              *)
LEMMA NameCons ==
  ASSUME NEW x \in Byte, NEW s \in String, Cons(x, s) \in Name
  PROVE  x >= 5 /\ s \in Name
<1>. DEFINE t == Cons(x, s)
            n == Len(s)
<1>1. /\ n \in Nat /\ Len(t) = n + 1 /\ t[1] = x
      /\ \A i \in 1..n : t[i + 1] = s[i]
  BY ConsString
<1>2. \A i \in 1..Len(t) : t[i] \in 5..255
  BY ElementOfSeq DEF Name
<1>3. s \in [1..n -> Byte]
  BY LenProperties DEF String
<1>. HIDE DEF t, n
<1>4. x \in 5..255
  <2>1. 1 \in 1..Len(t)
    BY <1>1
  <2>. QED BY <1>1, <1>2, <2>1
<1>5. ASSUME NEW i \in 1..n PROVE s[i] \in 5..255
  <2>. DEFINE j == i + 1
  <2>1. j \in 1..Len(t) /\ t[j] = s[i]
    BY <1>1
  <2>. HIDE DEF j
  <2>. QED BY <1>2, <2>1
<1>6. s \in [1..n -> 5..255]
  BY <1>3, <1>5
<1>. QED BY <1>1, <1>4, <1>6, SeqDef DEF Name

\* What comes after a name is no part of one.
(* A name that starts a name and a value starts the name.                  *)
LEMMA NameStarts ==
  ASSUME NEW t \in Name, NEW u \in Name, NEW y \in Byte, y < 5, NEW p \in String
  PROVE  Starts(t, Cat(u, Cons(y, p))) <=> Starts(t, u)
<1>. DEFINE V == Cons(y, p)
            S == {r \in String : r \in Name =>
                    \A q \in String : q \in Name /\ Starts(r, Cat(q, V)) => Starts(r, q)}
<1>1. V \in String
  BY ConsString
<1>2. << >> \in S
  BY EmptyString, StartsCons, Bytes
<1>3. ASSUME NEW x \in Byte, NEW r \in String, r \in S PROVE Cons(x, r) \in S
  <2>1. Cons(x, r) \in String
    BY ConsString
  <2>2. ASSUME Cons(x, r) \in Name, NEW q \in String, q \in Name, Starts(Cons(x, r), Cat(q, V))
        PROVE  Starts(Cons(x, r), q)
    <3>1. x >= 5 /\ r \in Name
      BY <2>2, NameCons
    <3>2. CASE q = << >>
      <4>1. Cat(q, V) = V
        BY <1>1, <3>2, CatString
      <4>2. Starts(Cons(x, r), Cons(y, p))
        BY <2>2, <4>1
      <4>3. x = y
        BY <4>2, StartsCons
      <4>4. x \in Int /\ y \in Int
        BY DEF Byte
      <4>. QED BY <3>1, <4>3, <4>4
    <3>3. CASE q # << >>
      <4>1. PICK z \in Byte, w \in String : q = Cons(z, w)
        BY <3>3, TakeApart
      <4>2. w \in Name
        BY <2>2, <4>1, NameCons
      <4>. HIDE DEF V
      <4>3. Cat(q, V) = Cons(z, Cat(w, V)) /\ Cat(w, V) \in String
        BY <1>1, <4>1, CatCons, CatString
      <4>4. Starts(Cons(x, r), Cons(z, Cat(w, V)))
        BY <2>2, <4>3
      <4>5. x = z /\ Starts(r, Cat(w, V))
        BY <4>3, <4>4, StartsCons
      <4>6. Starts(r, w)
        BY <1>3, <3>1, <4>2, <4>5
      <4>. QED BY <4>1, <4>5, <4>6, StartsCons
    <3>. QED BY <3>2, <3>3
  <2>. QED BY <2>1, <2>2
<1>. HIDE DEF S
<1>4. t \in S
  BY <1>2, <1>3, EachString, NameString
<1>5. t \in String /\ u \in String
  BY NameString
<1>6. Starts(t, Cat(u, V)) => Starts(t, u)
  BY <1>4, <1>5 DEF S
<1>7. ASSUME Starts(t, u) PROVE Starts(t, Cat(u, V))
  <2>. HIDE DEF V
  <2>1. PICK r \in String : u = Cat(t, r)
    BY <1>7, CatStarts
  <2>2. Cat(u, V) = Cat(t, Cat(r, V)) /\ Cat(r, V) \in String
    BY <1>1, <1>5, <2>1, Cat3, CatString
  <2>. QED BY <2>2, CatStarts
<1>. QED BY <1>6, <1>7

(* A value starts with the number of its type.                             *)
LEMMA ValueForm ==
  ASSUME NEW x \in SqlValue
  PROVE  \E y \in Byte : \E p \in String : y < 5 /\ EncodeValue(x) = Cons(y, p)
<1>1. CASE x \in [type : {"Null"}]
  <2>1. EncodeValue(x) = << 0 >>
    BY <1>1 DEF EncodeValue
  <2>2. << 0 >> = Cons(0, << >>)
    BY ShortStrings, Bytes
  <2>. DEFINE e == << >>
  <2>3. EncodeValue(x) = Cons(0, e) /\ e \in String
    BY <2>1, <2>2, EmptyString
  <2>. HIDE DEF e
  <2>. QED BY <2>3, Bytes
<1>2. CASE x \in [type : {"Boolean"}, value : {0, 1}]
  <2>1. EncodeValue(x) = << 1, x.value >> /\ x.value \in Byte
    BY <1>2, Bytes DEF EncodeValue
  <2>2. << 1, x.value >> = Cons(1, Cons(x.value, << >>)) /\ Cons(x.value, << >>) \in String
    <3>1. \A y, z \in Byte : << y, z >> = Cons(y, Cons(z, << >>))
      BY ShortStrings
    <3>2. Cons(x.value, << >>) \in String
      BY <2>1, ConsString, EmptyString
    <3>. QED BY <2>1, <3>1, <3>2, Bytes
  <2>. QED BY <2>1, <2>2, Bytes
<1>3. CASE x \in [type : {"Integer"}, value : U64]
  <2>1. EncodeValue(x) = << 2 >> \o BigEndian(x.value) /\ x.value \in U64
    BY <1>3 DEF EncodeValue
  <2>2. BigEndian(x.value) \in String
    BY <2>1, NumberBytes
  <2>3. EncodeValue(x) = Cons(2, BigEndian(x.value))
    BY <2>1 DEF Cons
  <2>. QED BY <2>2, <2>3, Bytes
<1>5. CASE x \in [type : {"Float"}, value : U64]
  <2>1. EncodeValue(x) = << 3 >> \o BigEndian(x.value) /\ x.value \in U64
    BY <1>5 DEF EncodeValue
  <2>2. BigEndian(x.value) \in String
    BY <2>1, NumberBytes
  <2>3. EncodeValue(x) = Cons(3, BigEndian(x.value))
    BY <2>1 DEF Cons
  <2>. QED BY <2>2, <2>3, Bytes
<1>4. CASE x \in [type : {"String"}, value : Seq(Byte)]
  <2>1. EncodeValue(x) = << 4 >> \o x.value /\ x.value \in String
    BY <1>4 DEF EncodeValue, String
  <2>2. EncodeValue(x) = Cons(4, x.value)
    BY <2>1 DEF Cons
  <2>. QED BY <2>1, <2>2, Bytes
<1>6. x \in [type : {"Integer", "Float"}, value : U64] =>
        x \in [type : {"Integer"}, value : U64] \/ x \in [type : {"Float"}, value : U64]
  OBVIOUS
<1>. QED BY <1>1, <1>2, <1>3, <1>4, <1>5, <1>6 DEF SqlValue

(* Values with the same bytes are the same.                                *)
LEMMA ValuesApart ==
  ASSUME NEW x \in SqlValue, NEW y \in SqlValue, EncodeValue(x) = EncodeValue(y)
  PROVE  x = y
<1>. DEFINE Form(z) ==
       \/ z = [type |-> "Null"] /\ EncodeValue(z) = Cons(0, << >>)
       \/ /\ z = [type |-> "Boolean", value |-> z.value] /\ z.value \in Byte
          /\ EncodeValue(z) = Cons(1, Cons(z.value, << >>)) /\ Cons(z.value, << >>) \in String
       \/ /\ z = [type |-> "Integer", value |-> z.value] /\ z.value \in U64
          /\ EncodeValue(z) = Cons(2, BigEndian(z.value)) /\ BigEndian(z.value) \in String
       \/ /\ z = [type |-> "Float", value |-> z.value] /\ z.value \in U64
          /\ EncodeValue(z) = Cons(3, BigEndian(z.value)) /\ BigEndian(z.value) \in String
       \/ /\ z = [type |-> "String", value |-> z.value] /\ z.value \in String
          /\ EncodeValue(z) = Cons(4, z.value)
<1>1. ASSUME NEW z \in SqlValue PROVE Form(z)
  <2>1. CASE z \in [type : {"Null"}]
    <3>1. EncodeValue(z) = << 0 >> /\ z = [type |-> "Null"]
      BY <2>1 DEF EncodeValue
    <3>. QED BY <3>1, ShortStrings, Bytes
  <2>2. CASE z \in [type : {"Boolean"}, value : {0, 1}]
    <3>1. /\ EncodeValue(z) = << 1, z.value >> /\ z.value \in Byte
          /\ z = [type |-> "Boolean", value |-> z.value]
      BY <2>2, Bytes DEF EncodeValue
    <3>. DEFINE v == z.value
    <3>. HIDE DEF v
    <3>2. v \in Byte
      BY <3>1 DEF v
    <3>3. << 1, v >> = Cons(1, Cons(v, << >>)) /\ Cons(v, << >>) \in String
      <4>1. \A b, c \in Byte : << b, c >> = Cons(b, Cons(c, << >>))
        BY ShortStrings
      <4>2. Cons(v, << >>) \in String
        BY <3>2, ConsString, EmptyString
      <4>. QED BY <3>2, <4>1, <4>2, Bytes
    <3>. QED BY <3>1, <3>3 DEF v
  <2>3. CASE z \in [type : {"Integer"}, value : U64]
    <3>1. /\ EncodeValue(z) = << 2 >> \o BigEndian(z.value) /\ z.value \in U64
          /\ z = [type |-> "Integer", value |-> z.value]
      BY <2>3 DEF EncodeValue
    <3>2. BigEndian(z.value) \in String
      BY <3>1, NumberBytes
    <3>3. EncodeValue(z) = Cons(2, BigEndian(z.value))
      BY <3>1 DEF Cons
    <3>. QED BY <3>1, <3>2, <3>3
  <2>5. CASE z \in [type : {"Float"}, value : U64]
    <3>1. /\ EncodeValue(z) = << 3 >> \o BigEndian(z.value) /\ z.value \in U64
          /\ z = [type |-> "Float", value |-> z.value]
      BY <2>5 DEF EncodeValue
    <3>2. BigEndian(z.value) \in String
      BY <3>1, NumberBytes
    <3>3. EncodeValue(z) = Cons(3, BigEndian(z.value))
      BY <3>1 DEF Cons
    <3>. QED BY <3>1, <3>2, <3>3
  <2>4. CASE z \in [type : {"String"}, value : Seq(Byte)]
    <3>1. /\ EncodeValue(z) = << 4 >> \o z.value /\ z.value \in String
          /\ z = [type |-> "String", value |-> z.value]
      BY <2>4 DEF EncodeValue, String
    <3>2. EncodeValue(z) = Cons(4, z.value)
      BY <3>1 DEF Cons
    <3>. QED BY <3>1, <3>2
  <2>6. z \in [type : {"Integer", "Float"}, value : U64] =>
          z \in [type : {"Integer"}, value : U64] \/ z \in [type : {"Float"}, value : U64]
    OBVIOUS
  <2>. QED BY <2>1, <2>2, <2>3, <2>4, <2>5, <2>6 DEF SqlValue
<1>2. Form(x) /\ Form(y)
  BY <1>1
<1>3. ASSUME NEW b \in Byte, NEW s \in String, NEW c \in Byte, NEW t \in String,
             EncodeValue(x) = Cons(b, s), EncodeValue(y) = Cons(c, t)
      PROVE  b = c /\ s = t
  <2>1. Cons(b, s) = Cons(c, t)
    BY <1>3, Zenon
  <2>. QED BY <2>1, SameCons
<1>4. ASSUME NEW v \in Byte, NEW w \in Byte, Cons(v, << >>) = Cons(w, << >>) PROVE v = w
  BY <1>4, SameCons, EmptyString
<1>5. ASSUME NEW v \in U64, NEW w \in U64, BigEndian(v) = BigEndian(w) PROVE v = w
  BY <1>5, NumbersInOrder
<1>6. CASE x = [type |-> "Null"] /\ EncodeValue(x) = Cons(0, << >>)
  BY <1>2, <1>3, <1>6, Bytes, EmptyString
<1>7. CASE /\ x = [type |-> "Boolean", value |-> x.value] /\ x.value \in Byte
           /\ EncodeValue(x) = Cons(1, Cons(x.value, << >>)) /\ Cons(x.value, << >>) \in String
  BY <1>2, <1>3, <1>4, <1>7, Bytes, EmptyString
<1>8. CASE /\ x = [type |-> "Integer", value |-> x.value] /\ x.value \in U64
           /\ EncodeValue(x) = Cons(2, BigEndian(x.value)) /\ BigEndian(x.value) \in String
  BY <1>2, <1>3, <1>5, <1>8, Bytes, EmptyString
<1>10. CASE /\ x = [type |-> "Float", value |-> x.value] /\ x.value \in U64
            /\ EncodeValue(x) = Cons(3, BigEndian(x.value)) /\ BigEndian(x.value) \in String
  BY <1>2, <1>3, <1>5, <1>10, Bytes, EmptyString
<1>9. CASE /\ x = [type |-> "String", value |-> x.value] /\ x.value \in String
           /\ EncodeValue(x) = Cons(4, x.value)
  BY <1>2, <1>3, <1>9, Bytes, EmptyString
<1>. QED BY <1>2, <1>6, <1>7, <1>8, <1>9, <1>10

(* A name and a value after it tell which they are.                        *)
LEMMA NameThenValue ==
  ASSUME NEW t \in Name, NEW x \in SqlValue, NEW u \in Name, NEW y \in SqlValue,
         Cat(t, EncodeValue(x)) = Cat(u, EncodeValue(y))
  PROVE  t = u /\ x = y
<1>1. PICK b \in Byte, p \in String : b < 5 /\ EncodeValue(x) = Cons(b, p)
  BY ValueForm
<1>2. PICK c \in Byte, q \in String : c < 5 /\ EncodeValue(y) = Cons(c, q)
  BY ValueForm
<1>. DEFINE V == EncodeValue(x)
            W == EncodeValue(y)
<1>3. V \in String /\ W \in String /\ t \in String /\ u \in String
  BY <1>1, <1>2, ConsString, NameString
<1>4. Starts(t, Cat(t, V)) /\ Starts(u, Cat(u, W))
  <2>. HIDE DEF V, W
  <2>. QED BY <1>3, CatStartsConcat
<1>5. Starts(t, u)
  <2>1. Starts(t, Cat(u, Cons(c, q)))
    BY <1>2, <1>4
  <2>. QED BY <1>2, <2>1, NameStarts
<1>6. Starts(u, t)
  <2>1. Starts(u, Cat(t, Cons(b, p)))
    BY <1>1, <1>4
  <2>. QED BY <1>1, <2>1, NameStarts
<1>7. t = u
  BY <1>3, <1>5, <1>6, StartsBoth
<1>8. V = W
  <2>1. Cat(t, V) = Cat(t, W)
    BY <1>7
  <2>. HIDE DEF V, W
  <2>. QED BY <1>3, <2>1, CatSame
<1>. QED BY <1>7, <1>8, ValuesApart

TableKey == [kind : {"Table"}, table : Name]
RowKey == [kind : {"Row"}, table : Name, value : SqlValue]
IndexKey == [kind : {"Index"}, table : Name, column : Name, value : SqlValue]

LEMMA SqlKeys == \A k \in SqlKey : k \in TableKey \/ k \in RowKey \/ k \in IndexKey
BY KeysAssumption DEF TableKey, RowKey, IndexKey

LEMMA ValueString == \A x \in SqlValue : EncodeValue(x) \in String
BY ValueForm, ConsString

(* The bytes of the three kinds of keys of the table layer.                *)
LEMMA SqlForms ==
  /\ \A k \in TableKey : EncodeSql(k) = Cons(0, k.table) /\ k.table \in Name
  /\ \A k \in RowKey : /\ EncodeSql(k) = Cons(1, Cat(k.table, EncodeValue(k.value)))
                       /\ k.table \in Name /\ k.value \in SqlValue
                       /\ Cat(k.table, EncodeValue(k.value)) \in String
  /\ \A k \in IndexKey : /\ EncodeSql(k) = Cons(2, Cat(Cat(k.table, k.column), EncodeValue(k.value)))
                         /\ k.table \in Name /\ k.column \in Name /\ k.value \in SqlValue
                         /\ Cat(k.table, k.column) \in Name
                         /\ Cat(Cat(k.table, k.column), EncodeValue(k.value)) \in String
<1>1. ASSUME NEW k \in TableKey PROVE EncodeSql(k) = Cons(0, k.table) /\ k.table \in Name
  BY DEF TableKey, EncodeSql, Cons
<1>2. ASSUME NEW k \in RowKey
      PROVE  /\ EncodeSql(k) = Cons(1, Cat(k.table, EncodeValue(k.value)))
             /\ k.table \in Name /\ k.value \in SqlValue
             /\ Cat(k.table, EncodeValue(k.value)) \in String
  <2>. DEFINE t == k.table
              v == EncodeValue(k.value)
              o == << 1 >>
  <2>1. k.kind = "Row" /\ t \in Name /\ k.value \in SqlValue
    BY DEF RowKey
  <2>2. EncodeSql(k) = (o \o t) \o v
    BY <2>1 DEF EncodeSql
  <2>3. t \in String /\ v \in String /\ o \in String
    BY <2>1, NameString, ValueString, ShortStrings, Bytes
  <2>4. o \o Cat(t, v) = Cons(1, Cat(t, v))
    BY DEF Cons
  <2>. HIDE DEF t, v, o
  <2>5. (o \o t) \o v = o \o Cat(t, v) /\ Cat(t, v) \in String
    BY <2>3, Concat3, CatString DEF Cat
  <2>6. EncodeSql(k) = Cons(1, Cat(t, v))
    BY <2>2, <2>4, <2>5
  <2>. QED BY <2>1, <2>5, <2>6 DEF t, v
<1>3. ASSUME NEW k \in IndexKey
      PROVE  /\ EncodeSql(k) = Cons(2, Cat(Cat(k.table, k.column), EncodeValue(k.value)))
             /\ k.table \in Name /\ k.column \in Name /\ k.value \in SqlValue
             /\ Cat(k.table, k.column) \in Name
             /\ Cat(Cat(k.table, k.column), EncodeValue(k.value)) \in String
  <2>. DEFINE t == k.table
              c == k.column
              v == EncodeValue(k.value)
              o == << 2 >>
  <2>1. k.kind = "Index" /\ t \in Name /\ c \in Name /\ k.value \in SqlValue
    BY DEF IndexKey
  <2>2. EncodeSql(k) = ((o \o t) \o c) \o v
    BY <2>1 DEF EncodeSql
  <2>3. Cat(t, c) \in Name /\ t \in String /\ c \in String /\ v \in String /\ o \in String
    BY <2>1, NameString, ValueString, ShortStrings, Bytes
  <2>. DEFINE w == Cat(Cat(t, c), v)
  <2>4. o \o w = Cons(2, w)
    BY DEF Cons
  <2>7. Cat(t, c) \in String
    BY <2>3, NameString
  <2>. HIDE DEF t, c, v, o
  <2>5. (o \o t) \o c = o \o Cat(t, c)
    BY <2>3, Concat3 DEF Cat
  <2>6. (o \o Cat(t, c)) \o v = o \o w
    <3>. DEFINE u == Cat(t, c)
    <3>1. u \in String
      BY <2>7
    <3>. HIDE DEF u
    <3>2. (o \o u) \o v = o \o (u \o v)
      <4>1. Cat(Cat(o, u), v) = Cat(o, Cat(u, v))
        BY <2>3, <3>1, Cat3
      <4>. QED BY <4>1 DEF Cat
    <3>3. u \o v = Cat(u, v)
      BY DEF Cat
    <3>. QED BY <3>2, <3>3 DEF u
  <2>8. w \in String
    BY <2>3, <2>7, CatString
  <2>. HIDE DEF w
  <2>9. EncodeSql(k) = Cons(2, w)
    BY <2>2, <2>4, <2>5, <2>6
  <2>. QED BY <2>1, <2>3, <2>8, <2>9 DEF t, c, v, w
<1>. QED BY <1>1, <1>2, <1>3

LEMMA SqlString == \A k \in SqlKey : EncodeSql(k) \in String
<1>. SUFFICES ASSUME NEW k \in SqlKey PROVE EncodeSql(k) \in String
  OBVIOUS
<1>1. ASSUME NEW x \in Byte, NEW s \in String, EncodeSql(k) = Cons(x, s)
      PROVE  EncodeSql(k) \in String
  BY <1>1, ConsString
<1>2. CASE k \in TableKey
  BY <1>1, <1>2, SqlForms, NameString, Bytes
<1>3. CASE k \in RowKey
  BY <1>1, <1>3, SqlForms, Bytes
<1>4. CASE k \in IndexKey
  BY <1>1, <1>4, SqlForms, Bytes
<1>. QED BY <1>2, <1>3, <1>4, SqlKeys

\* What a key of the table layer starts with.
(* A prefix tells the kind of these keys, too.                             *)
LEMMA StartsWithSqlKind ==
  ASSUME NEW x \in Byte, NEW p \in String, NEW k \in SqlKey
  PROVE  Starts(Cons(x, p), EncodeSql(k)) <=>
           \/ k \in TableKey /\ x = 0 /\ Starts(p, k.table)
           \/ k \in RowKey /\ x = 1 /\ Starts(p, Cat(k.table, EncodeValue(k.value)))
           \/ k \in IndexKey /\ x = 2 /\ Starts(p, Cat(Cat(k.table, k.column), EncodeValue(k.value)))
<1>1. ASSUME NEW y \in Byte, NEW s \in String, EncodeSql(k) = Cons(y, s)
      PROVE  Starts(Cons(x, p), EncodeSql(k)) <=> x = y /\ Starts(p, s)
  BY <1>1, StartsCons
<1>2. CASE k \in TableKey
  <2>1. EncodeSql(k) = Cons(0, k.table) /\ k.table \in String
    BY <1>2, SqlForms, NameString
  <2>2. Starts(Cons(x, p), EncodeSql(k)) <=> x = 0 /\ Starts(p, k.table)
    BY <1>1, <2>1, Bytes
  <2>3. k \notin RowKey /\ k \notin IndexKey
    BY <1>2 DEF TableKey, RowKey, IndexKey
  <2>. QED BY <1>2, <2>2, <2>3
<1>3. CASE k \in RowKey
  <2>. DEFINE s == Cat(k.table, EncodeValue(k.value))
  <2>1. EncodeSql(k) = Cons(1, s) /\ s \in String
    BY <1>3, SqlForms
  <2>. HIDE DEF s
  <2>2. Starts(Cons(x, p), EncodeSql(k)) <=> x = 1 /\ Starts(p, s)
    BY <1>1, <2>1, Bytes
  <2>3. k \notin TableKey /\ k \notin IndexKey
    BY <1>3 DEF TableKey, RowKey, IndexKey
  <2>. QED BY <1>3, <2>2, <2>3 DEF s
<1>4. CASE k \in IndexKey
  <2>. DEFINE s == Cat(Cat(k.table, k.column), EncodeValue(k.value))
  <2>1. EncodeSql(k) = Cons(2, s) /\ s \in String
    BY <1>4, SqlForms
  <2>. HIDE DEF s
  <2>2. Starts(Cons(x, p), EncodeSql(k)) <=> x = 2 /\ Starts(p, s)
    BY <1>1, <2>1, Bytes
  <2>3. k \notin TableKey /\ k \notin RowKey
    BY <1>4 DEF TableKey, RowKey, IndexKey
  <2>. QED BY <1>4, <2>2, <2>3 DEF s
<1>. QED BY <1>2, <1>3, <1>4, SqlKeys

\* The same string comes from keys of the same kind.
(* Keys with the same bytes are of one kind.                               *)
LEMMA SameSqlKind ==
  ASSUME NEW j \in SqlKey, NEW k \in SqlKey, EncodeSql(j) = EncodeSql(k)
  PROVE  \/ j \in TableKey /\ k \in TableKey
         \/ j \in RowKey /\ k \in RowKey
         \/ j \in IndexKey /\ k \in IndexKey
<1>. DEFINE Tag(i) == IF i \in TableKey THEN 0 ELSE IF i \in RowKey THEN 1 ELSE 2
<1>1. ASSUME NEW i \in SqlKey
      PROVE  \A x \in Byte : Starts(Cons(x, << >>), EncodeSql(i)) <=> x = Tag(i)
  <2>. SUFFICES ASSUME NEW x \in Byte PROVE Starts(Cons(x, << >>), EncodeSql(i)) <=> x = Tag(i)
    OBVIOUS
  <2>1. Starts(Cons(x, << >>), EncodeSql(i)) <=>
           \/ i \in TableKey /\ x = 0 /\ Starts(<< >>, i.table)
           \/ i \in RowKey /\ x = 1 /\ Starts(<< >>, Cat(i.table, EncodeValue(i.value)))
           \/ i \in IndexKey /\ x = 2 /\ Starts(<< >>, Cat(Cat(i.table, i.column), EncodeValue(i.value)))
    BY EmptyString, StartsWithSqlKind
  <2>2. \A s \in String : Starts(<< >>, s)
    BY EmptyString, StartsCons, Bytes
  <2>3. /\ i \in TableKey => i.table \in String
        /\ i \in RowKey => Cat(i.table, EncodeValue(i.value)) \in String
        /\ i \in IndexKey => Cat(Cat(i.table, i.column), EncodeValue(i.value)) \in String
    BY SqlForms, NameString
  <2>4. /\ i \in TableKey => i \notin RowKey /\ i \notin IndexKey
        /\ i \in RowKey => i \notin IndexKey
        /\ i \in TableKey \/ i \in RowKey \/ i \in IndexKey
    BY SqlKeys DEF TableKey, RowKey, IndexKey
  <2>. QED BY <2>1, <2>2, <2>3, <2>4
<1>2. Tag(j) \in Byte
  BY Bytes
<1>3. Tag(j) = Tag(k)
  <2>1. Starts(Cons(Tag(j), << >>), EncodeSql(j))
    BY <1>1, <1>2
  <2>2. Starts(Cons(Tag(j), << >>), EncodeSql(k))
    BY <2>1, Zenon
  <2>. QED BY <1>1, <1>2, <2>2
<1>. QED BY <1>3, SqlKeys

(* Keys with the same bytes are the same, but for index entries.           *)
LEMMA SqlKeysSame ==
  ASSUME NEW j \in SqlKey, NEW k \in SqlKey, EncodeSql(j) = EncodeSql(k)
  PROVE  \/ j = k
         \/ /\ j.kind = "Index" /\ k.kind = "Index"
            /\ j.table \o j.column = k.table \o k.column
            /\ j.value = k.value
<1>1. ASSUME NEW x \in Byte, NEW s \in String, NEW t \in String,
             EncodeSql(j) = Cons(x, s), EncodeSql(k) = Cons(x, t)
      PROVE  s = t
  <2>1. Cons(x, s) = Cons(x, t)
    BY <1>1, Zenon
  <2>. QED BY <2>1, SameCons
<1>2. CASE j \in TableKey /\ k \in TableKey
  <2>1. /\ EncodeSql(j) = Cons(0, j.table) /\ j.table \in String
        /\ EncodeSql(k) = Cons(0, k.table) /\ k.table \in String
    BY <1>2, SqlForms, NameString
  <2>2. j.table = k.table
    BY <1>1, <2>1, Bytes
  <2>3. j = [kind |-> "Table", table |-> j.table] /\ k = [kind |-> "Table", table |-> k.table]
    BY <1>2 DEF TableKey
  <2>. QED BY <2>2, <2>3
<1>3. CASE j \in RowKey /\ k \in RowKey
  <2>. DEFINE s == Cat(j.table, EncodeValue(j.value))
              t == Cat(k.table, EncodeValue(k.value))
  <2>1. /\ EncodeSql(j) = Cons(1, s) /\ s \in String /\ j.table \in Name /\ j.value \in SqlValue
        /\ EncodeSql(k) = Cons(1, t) /\ t \in String /\ k.table \in Name /\ k.value \in SqlValue
    BY <1>3, SqlForms
  <2>2. s = t
    <3>. HIDE DEF s, t
    <3>. QED BY <1>1, <2>1, Bytes
  <2>3. j.table = k.table /\ j.value = k.value
    BY <2>1, <2>2, NameThenValue
  <2>4. /\ j = [kind |-> "Row", table |-> j.table, value |-> j.value]
        /\ k = [kind |-> "Row", table |-> k.table, value |-> k.value]
    BY <1>3 DEF RowKey
  <2>. QED BY <2>3, <2>4
<1>4. CASE j \in IndexKey /\ k \in IndexKey
  <2>. DEFINE m == Cat(j.table, j.column)
              n == Cat(k.table, k.column)
              s == Cat(m, EncodeValue(j.value))
              t == Cat(n, EncodeValue(k.value))
  <2>1. /\ EncodeSql(j) = Cons(2, s) /\ s \in String /\ m \in Name /\ j.value \in SqlValue
        /\ EncodeSql(k) = Cons(2, t) /\ t \in String /\ n \in Name /\ k.value \in SqlValue
    BY <1>4, SqlForms
  <2>2. s = t
    <3>. HIDE DEF s, t
    <3>. QED BY <1>1, <2>1, Bytes
  <2>3. m = n /\ j.value = k.value
    <3>. HIDE DEF m, n
    <3>. QED BY <2>1, <2>2, NameThenValue
  <2>4. j.kind = "Index" /\ k.kind = "Index"
    BY <1>4 DEF IndexKey
  <2>. QED BY <2>3, <2>4 DEF Cat
<1>. QED BY <1>2, <1>3, <1>4, SameSqlKind

(* Two keys of the table layer are one key of the store only if both are   *)
(* index entries for the same value whose names run together to the same.  *)
THEOREM SqlKeysStayApart == Spec => []SqlKeysApart
<1>1. SqlKeysApart
  BY SqlKeysSame DEF SqlKeysApart, StoredSql
<1>. QED BY <1>1, PTL

(* What RowScansCover says of each such state.                             *)
LEMMA StoredRowScans == Stored => RowScanCovers
<1>. SUFFICES ASSUME Stored PROVE RowScanCovers
  OBVIOUS
<1>. DEFINE Find(prefix) == {k \in StoredSql : Encode(Version(EncodeSql(k), 1))
                                                 \in ToSet(ScanPrefix(VersionPrefix(prefix)))}
            OfKind(kind) == {k \in StoredSql : k.kind = kind}
<1>1. 1 \in U64
  <2>1. 256 * 256 - 1 = 65535
    OBVIOUS
  <2>. QED BY <2>1 DEF U64, MaxU64
<1>2. ASSUME NEW p \in String, NEW k \in StoredSql
      PROVE  k \in Find(p) <=> Starts(p, EncodeSql(k))
  <2>. DEFINE r == EncodeSql(k)
              v == Version(r, 1)
  <2>1. k \in SqlKey /\ v \in keys
    BY DEF StoredSql
  <2>2. r \in String
    BY <2>1, SqlString
  <2>. HIDE DEF r
  <2>3. v \in StoreKey /\ v.key = r /\ v.kind = "Version"
    BY <1>1, <2>2, VersionForm DEF Version
  <2>. HIDE DEF v
  <2>4. VersionPrefix(p) \in String
    BY VersionPrefixForm
  <2>5. ToSet(ScanPrefix(VersionPrefix(p))) = {s \in data : Starts(VersionPrefix(p), s)}
    BY <2>4, PrefixFound
  <2>6. Encode(v) \in data
    BY <2>1 DEF Stored
  <2>7. Encode(v) \in ToSet(ScanPrefix(VersionPrefix(p))) <=> Starts(p, r)
    BY <2>2, <2>3, <2>5, <2>6, StartsAsVersions, PrefixStarts
  <2>. QED BY <2>7 DEF r, v
<1>3. Find(TablePrefix) = OfKind("Table")
  <2>1. TablePrefix = Cons(0, << >>) /\ TablePrefix \in String
    BY ShortStrings, Bytes DEF TablePrefix
  <2>2. ASSUME NEW k \in StoredSql PROVE Starts(TablePrefix, EncodeSql(k)) <=> k.kind = "Table"
    <3>1. k \in SqlKey
      BY DEF StoredSql
    <3>2. k \in TableKey => Starts(<< >>, k.table)
      BY SqlForms, NameString, StartsCons, Bytes, EmptyString
    <3>3. Starts(Cons(0, << >>), EncodeSql(k)) <=> k \in TableKey
      BY <3>1, <3>2, StartsWithSqlKind, Bytes, EmptyString
    <3>4. k \in TableKey <=> k.kind = "Table"
      BY <3>1, SqlKeys DEF TableKey, RowKey, IndexKey
    <3>. QED BY <2>1, <3>3, <3>4
  <2>3. \A k \in StoredSql : k \in Find(TablePrefix) <=> k.kind = "Table"
    <3>. HIDE DEF Find
    <3>. QED BY <1>2, <2>1, <2>2
  <2>. QED BY <2>3
<1>4. ASSUME NEW t \in {k.table : k \in SqlKey}
      PROVE  Find(RowPrefix(t)) = {k \in OfKind("Row") : IsPrefix(t, k.table)}
  <2>1. t \in Name /\ t \in String
    <3>1. PICK k \in SqlKey : t = k.table
      OBVIOUS
    <3>2. k.table \in Name
      BY SqlKeys, SqlForms
    <3>. QED BY <3>1, <3>2, NameString
  <2>2. RowPrefix(t) = Cons(1, t) /\ RowPrefix(t) \in String
    <3>1. RowPrefix(t) = Cons(1, t)
      BY DEF RowPrefix, Cons
    <3>. QED BY <2>1, <3>1, Bytes, ConsString
  <2>3. ASSUME NEW k \in StoredSql
        PROVE  Starts(RowPrefix(t), EncodeSql(k)) <=> k.kind = "Row" /\ IsPrefix(t, k.table)
    <3>1. k \in SqlKey
      BY DEF StoredSql
    <3>2. Starts(Cons(1, t), EncodeSql(k)) <=>
            k \in RowKey /\ Starts(t, Cat(k.table, EncodeValue(k.value)))
      BY <2>1, <3>1, StartsWithSqlKind, Bytes
    <3>3. k \in RowKey => (Starts(t, Cat(k.table, EncodeValue(k.value))) <=> IsPrefix(t, k.table))
      <4>1. SUFFICES ASSUME k \in RowKey
                     PROVE  Starts(t, Cat(k.table, EncodeValue(k.value))) <=> IsPrefix(t, k.table)
        OBVIOUS
      <4>2. k.table \in Name /\ k.value \in SqlValue /\ k.table \in String
        BY <4>1, SqlForms, NameString
      <4>3. PICK y \in Byte, p \in String : y < 5 /\ EncodeValue(k.value) = Cons(y, p)
        BY <4>2, ValueForm
      <4>4. Starts(t, Cat(k.table, Cons(y, p))) <=> Starts(t, k.table)
        BY <2>1, <4>2, <4>3, NameStarts
      <4>. QED BY <2>1, <4>2, <4>3, <4>4, PrefixStarts
    <3>4. k \in RowKey <=> k.kind = "Row"
      BY <3>1, SqlKeys DEF TableKey, RowKey, IndexKey
    <3>. QED BY <2>2, <3>2, <3>3, <3>4
  <2>4. \A k \in StoredSql : k \in Find(RowPrefix(t)) <=> k.kind = "Row" /\ IsPrefix(t, k.table)
    <3>. HIDE DEF Find
    <3>. QED BY <1>2, <2>2, <2>3
  <2>. QED BY <2>4
<1>. QED BY <1>3, <1>4 DEF RowScanCovers

(* The scan for the rows of a table finds them all, and besides them only  *)
(* rows of tables whose names begin with this one's; the scan for tables   *)
(* finds exactly the tables.                                               *)
THEOREM RowScansCover == Spec => []RowScanCovers
BY KeysStored, StoredRowScans, PTL
=============================================================================
