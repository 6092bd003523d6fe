-------------------------- MODULE ProxyInputProofs --------------------------
(***************************************************************************)
(* For every number of windows, overlapping handlers and requests under    *)
(* way: the types; each reply goes to the handler whose request it         *)
(* answers; and the safety of InputLanes, by the mapping of ProxyLanes.    *)
(*                                                                         *)
(* The lanes are filtered out of two queues by Kept, a recursive function. *)
(* What it does at both ends of a sequence is proved by induction, over a  *)
(* set of sequences, and every action is then a step of the lanes or none. *)
(***************************************************************************)
EXTENDS ProxyLanes, SequenceTheorems, WellFoundedInduction, TLAPS

(***************************************************************************)
(* Induction                                                               *)
(*                                                                         *)
(* The library states its induction rules for a predicate, which none of   *)
(* the provers can instantiate.  For a set they can.                       *)
(***************************************************************************)

\* A set of natural numbers with an element has a least one.
LEMMA Least ==
  ASSUME NEW T, T \subseteq Nat, T # {}
  PROVE \E x \in T : \A y \in T : x <= y
<1>1. \E x \in T : \A y \in T : ~(<<y, x>> \in OpToRel(<,Nat))
  BY NatLessThanWellFounded, WFMin, Zenon
<1>2. PICK x \in T : \A y \in T : ~(<<y, x>> \in OpToRel(<,Nat))
  BY <1>1
<1>3. \A y \in T : ~(y < x)
  BY <1>2 DEF OpToRel
<1> QED
  BY <1>3

\* A set with 0 that is closed under successor has every natural number.
LEMMA Induction ==
  ASSUME NEW P, 0 \in P, \A n \in Nat : n \in P => n + 1 \in P
  PROVE Nat \subseteq P
<1> SUFFICES ASSUME Nat \ P # {} PROVE FALSE
  OBVIOUS
<1>1. PICK x \in Nat \ P : \A y \in Nat \ P : x <= y
  BY Least
<1> QED
  BY <1>1

\* A set with the empty sequence that is closed under Append has every sequence.
LEMMA SeqInduction ==
  ASSUME NEW T, NEW P, <<>> \in P, \A s \in Seq(T) : s \in P => \A x \in T : Append(s, x) \in P
  PROVE  Seq(T) \subseteq P
<1> DEFINE N == {n \in Nat : \A s \in Seq(T) : Len(s) = n => s \in P}
<1>1. 0 \in N
  <2> SUFFICES ASSUME NEW s \in Seq(T), Len(s) = 0 PROVE s \in P
    OBVIOUS
  <2>1. s = <<>>
    OBVIOUS
  <2> QED
    BY <2>1
<1>2. ASSUME NEW n \in Nat, n \in N PROVE n + 1 \in N
  <2> SUFFICES ASSUME NEW s \in Seq(T), Len(s) = n + 1 PROVE s \in P
    OBVIOUS
  <2> DEFINE f == SubSeq(s, 1, n)
  <2>1. f \in Seq(T) /\ Len(f) = n /\ s[n + 1] \in T /\ s = Append(f, s[n + 1])
    OBVIOUS
  <2>2. f \in P
    BY <1>2, <2>1
  <2> HIDE DEF f
  <2> QED
    BY <2>1, <2>2
<1>3. Nat \subseteq N
  <2> HIDE DEF N
  <2> QED
    BY <1>1, <1>2, Induction
<1> QED
  BY <1>3

(***************************************************************************)
(* Kept                                                                    *)
(***************************************************************************)

\* The function that Kept computes with.
IsKept(k, s, S) ==
  /\ k[0] = <<>>
  /\ \A n \in 1 .. Len(s) : k[n] = IF s[n] \in S THEN Append(k[n - 1], s[n]) ELSE k[n - 1]

\* It exists: Kept's definition is sound.
LEMMA KeptExists ==
  ASSUME NEW T, NEW S
  PROVE  \A s \in Seq(T) : \E k \in [0 .. Len(s) -> Seq(T \cap S)] : IsKept(k, s, S)
<1> DEFINE P == {s \in Seq(T) : \E k \in [0 .. Len(s) -> Seq(T \cap S)] : IsKept(k, s, S)}
<1>1. <<>> \in P
  <2>1. [n \in 0 .. 0 |-> <<>>] \in [0 .. Len(<<>>) -> Seq(T \cap S)]
    OBVIOUS
  <2>2. IsKept([n \in 0 .. 0 |-> <<>>], <<>>, S)
    BY DEF IsKept
  <2> QED
    BY <2>1, <2>2
<1>2. ASSUME NEW s \in Seq(T), s \in P, NEW x \in T PROVE Append(s, x) \in P
  <2>1. PICK k \in [0 .. Len(s) -> Seq(T \cap S)] : IsKept(k, s, S)
    BY <1>2
  <2> DEFINE new == IF x \in S THEN Append(k[Len(s)], x) ELSE k[Len(s)]
             j == [n \in 0 .. Len(s) + 1 |-> IF n = Len(s) + 1 THEN new ELSE k[n]]
  <2>2. new \in Seq(T \cap S)
    BY <2>1
  <2>3. j \in [0 .. Len(Append(s, x)) -> Seq(T \cap S)]
    BY <2>1, <2>2
  <2>4. IsKept(j, Append(s, x), S)
    <3>1. j[0] = <<>>
      BY <2>1 DEF IsKept
    <3>2. ASSUME NEW n \in 1 .. Len(Append(s, x))
          PROVE  j[n] = IF Append(s, x)[n] \in S THEN Append(j[n - 1], Append(s, x)[n]) ELSE j[n - 1]
      <4>1. CASE n = Len(s) + 1
        BY <4>1
      <4>2. CASE n \in 1 .. Len(s)
        BY <2>1, <4>2 DEF IsKept
      <4> QED
        BY <4>1, <4>2
    <3> QED
      BY <3>1, <3>2 DEF IsKept
  <2>5. Append(s, x) \in Seq(T)
    OBVIOUS
  <2> HIDE DEF j
  <2> QED
    BY <2>3, <2>4, <2>5
<1> HIDE DEF P
<1>3. Seq(T) \subseteq P
  BY <1>1, <1>2, SeqInduction
<1> QED
  BY <1>3 DEF P

\* Any such function gives the value of Kept.
LEMMA KeptIs ==
  ASSUME NEW T, NEW S, NEW s \in Seq(T), NEW k \in [0 .. Len(s) -> Seq(T \cap S)], IsKept(k, s, S)
  PROVE  Kept(s, S) = k[Len(s)]
<1> DEFINE Body(f) == [n \in 0 .. Len(s) |-> IF n = 0 THEN <<>>
                          ELSE IF s[n] \in S THEN Append(f[n - 1], s[n]) ELSE f[n - 1]]
           kept == CHOOSE f : f = Body(f)
<1>1. k = Body(k)
  <2>1. ASSUME NEW n \in 0 .. Len(s)
        PROVE  k[n] = IF n = 0 THEN <<>> ELSE IF s[n] \in S THEN Append(k[n - 1], s[n]) ELSE k[n - 1]
    <3>1. CASE n = 0
      BY <3>1 DEF IsKept
    <3>2. CASE n \in 1 .. Len(s)
      BY <3>2 DEF IsKept
    <3> QED
      BY <3>1, <3>2
  <2>2. DOMAIN k = 0 .. Len(s) /\ k = [n \in DOMAIN k |-> k[n]]
    OBVIOUS
  <2> QED
    BY <2>1, <2>2
<1>2. kept = Body(kept)
  <2> HIDE DEF Body
  <2> QED
    BY <1>1, Zenon
<1>3. Kept(s, S) = kept[Len(s)]
  BY DEF Kept
<1> HIDE DEF kept
<1> DEFINE N == {n \in Nat : n <= Len(s) => kept[n] = k[n]}
<1>4. 0 \in N
  BY <1>1, <1>2
<1>5. ASSUME NEW n \in Nat, n \in N PROVE n + 1 \in N
  <2> SUFFICES ASSUME n + 1 <= Len(s) PROVE kept[n + 1] = k[n + 1]
    OBVIOUS
  <2>1. Body(kept)[n + 1] = IF s[n + 1] \in S THEN Append(kept[n], s[n + 1]) ELSE kept[n]
    OBVIOUS
  <2>2. Body(k)[n + 1] = IF s[n + 1] \in S THEN Append(k[n], s[n + 1]) ELSE k[n]
    OBVIOUS
  <2>3. kept[n] = k[n]
    BY <1>5
  <2> QED
    BY <1>1, <1>2, <2>1, <2>2, <2>3
<1>6. Nat \subseteq N
  <2> HIDE DEF N
  <2> QED
    BY <1>4, <1>5, Induction
<1> QED
  BY <1>3, <1>6

\* Kept has the value of such a function.
LEMMA KeptOf ==
  ASSUME NEW T, NEW S
  PROVE  \A s \in Seq(T) : \E k \in [0 .. Len(s) -> Seq(T \cap S)] :
            IsKept(k, s, S) /\ Kept(s, S) = k[Len(s)]
<1> SUFFICES ASSUME NEW s \in Seq(T)
             PROVE  \E k \in [0 .. Len(s) -> Seq(T \cap S)] :
                       IsKept(k, s, S) /\ Kept(s, S) = k[Len(s)]
  OBVIOUS
<1>1. PICK k \in [0 .. Len(s) -> Seq(T \cap S)] : IsKept(k, s, S)
  BY KeptExists
<1>2. Kept(s, S) = k[Len(s)]
  BY <1>1, KeptIs
<1> QED
  BY <1>1, <1>2

\* Of nothing nothing is kept.
LEMMA KeptEmpty == ASSUME NEW S PROVE Kept(<<>>, S) = <<>>
<1>1. <<>> \in Seq({})
  OBVIOUS
<1>2. \E k \in [0 .. Len(<<>>) -> Seq({} \cap S)] :
         IsKept(k, <<>>, S) /\ Kept(<<>>, S) = k[Len(<<>>)]
  BY <1>1, KeptOf, Zenon
<1>3. PICK k : IsKept(k, <<>>, S) /\ Kept(<<>>, S) = k[Len(<<>>)]
  BY <1>2
<1>4. Len(<<>>) = 0 /\ k[0] = <<>>
  BY <1>3 DEF IsKept
<1> QED
  BY <1>3, <1>4, Zenon

\* What is kept are elements of both sets.
LEMMA KeptType ==
  ASSUME NEW T, NEW S, NEW s \in Seq(T)
  PROVE  Kept(s, S) \in Seq(T \cap S)
<1>1. PICK k \in [0 .. Len(s) -> Seq(T \cap S)] : IsKept(k, s, S)
  BY KeptExists
<1>2. Kept(s, S) = k[Len(s)]
  BY <1>1, KeptIs
<1> QED
  BY <1>1, <1>2

\* An element at the end is kept if it is in the set ...
LEMMA KeptAppend ==
  ASSUME NEW T, NEW S, NEW s \in Seq(T), NEW x \in T
  PROVE  Kept(Append(s, x), S) = IF x \in S THEN Append(Kept(s, S), x) ELSE Kept(s, S)
<1> DEFINE t == Append(s, x)
<1>0. t \in Seq(T) /\ Len(t) = Len(s) + 1 /\ t[Len(s) + 1] = x
      /\ \A n \in 1 .. Len(s) : t[n] = s[n]
  OBVIOUS
<1> HIDE DEF t
<1>1. PICK k \in [0 .. Len(t) -> Seq(T \cap S)] : IsKept(k, t, S)
  BY <1>0, KeptExists
<1> DEFINE j == [n \in 0 .. Len(s) |-> k[n]]
<1>2. j \in [0 .. Len(s) -> Seq(T \cap S)]
  BY <1>0, <1>1
<1>3. IsKept(j, s, S)
  <2>1. j[0] = <<>>
    BY <1>1 DEF IsKept
  <2>2. ASSUME NEW n \in 1 .. Len(s)
        PROVE  j[n] = IF s[n] \in S THEN Append(j[n - 1], s[n]) ELSE j[n - 1]
    <3>1. k[n] = IF t[n] \in S THEN Append(k[n - 1], t[n]) ELSE k[n - 1]
      BY <1>0, <1>1 DEF IsKept
    <3>2. t[n] = s[n] /\ j[n] = k[n] /\ j[n - 1] = k[n - 1]
      BY <1>0
    <3> HIDE DEF j
    <3> QED
      BY <3>1, <3>2
  <2> HIDE DEF j
  <2> QED
    BY <2>1, <2>2 DEF IsKept
<1>4. Kept(s, S) = k[Len(s)]
  <2>1. Kept(s, S) = j[Len(s)]
    <3> HIDE DEF j
    <3> QED
      BY <1>2, <1>3, KeptIs
  <2> QED
    BY <2>1
<1>5. Kept(t, S) = k[Len(s) + 1]
  BY <1>0, <1>1, KeptIs
<1>6. k[Len(s) + 1] = IF x \in S THEN Append(k[Len(s)], x) ELSE k[Len(s)]
  BY <1>0, <1>1 DEF IsKept
<1> QED
  BY <1>4, <1>5, <1>6 DEF t

\* ... and so is one at the front.
LEMMA KeptHead ==
  ASSUME NEW T, NEW S
  PROVE  \A s \in Seq(T) : s # <<>> =>
           Kept(s, S) = IF Head(s) \in S THEN <<Head(s)>> \o Kept(Tail(s), S) ELSE Kept(Tail(s), S)
<1> DEFINE Law(s) == s # <<>> =>
             Kept(s, S) = IF Head(s) \in S THEN <<Head(s)>> \o Kept(Tail(s), S) ELSE Kept(Tail(s), S)
           P == {s \in Seq(T) : Law(s)}
<1>1. <<>> \in P
  OBVIOUS
<1>2. ASSUME NEW s \in Seq(T), s \in P, NEW x \in T PROVE Append(s, x) \in P
  <2> DEFINE t == Append(s, x)
  <2>1. CASE s = <<>>
    <3>1. t \in Seq(T) /\ Head(t) = x /\ Tail(t) = <<>>
      BY <2>1
    <3>2. Kept(t, S) = IF x \in S THEN Append(Kept(s, S), x) ELSE Kept(s, S)
      BY KeptAppend
    <3>3. Kept(s, S) = <<>>
      BY <2>1, KeptEmpty
    <3>4. Kept(Tail(t), S) = <<>>
      BY <3>1, KeptEmpty
    <3>5. <<x>> \o <<>> = <<x>> /\ Append(<<>>, x) = <<x>>
      OBVIOUS
    <3> HIDE DEF t
    <3>6. Law(t)
      BY <3>1, <3>2, <3>3, <3>4, <3>5
    <3> QED
      BY <3>1, <3>6 DEF t
  <2>2. CASE s # <<>>
    <3>1. Head(t) = Head(s) /\ Tail(t) = Append(Tail(s), x) /\ Tail(s) \in Seq(T) /\ Head(s) \in T
      BY <2>2
    <3>2. Kept(t, S) = IF x \in S THEN Append(Kept(s, S), x) ELSE Kept(s, S)
      BY KeptAppend
    <3>3. Kept(Tail(t), S) = IF x \in S THEN Append(Kept(Tail(s), S), x) ELSE Kept(Tail(s), S)
      <4>1. Kept(Append(Tail(s), x), S)
              = IF x \in S THEN Append(Kept(Tail(s), S), x) ELSE Kept(Tail(s), S)
        <5>1. \A u \in Seq(T) : Kept(Append(u, x), S) = IF x \in S THEN Append(Kept(u, S), x) ELSE Kept(u, S)
          BY KeptAppend
        <5> QED
          BY <3>1, <5>1, Zenon
      <4> HIDE DEF t
      <4> QED
        BY <3>1, <4>1
    <3>4. Kept(s, S) = IF Head(s) \in S THEN <<Head(s)>> \o Kept(Tail(s), S) ELSE Kept(Tail(s), S)
      BY <1>2, <2>2
    <3>5. Kept(Tail(s), S) \in Seq(T \cap S)
      BY <3>1, KeptType
    <3>6. Append(<<Head(s)>> \o Kept(Tail(s), S), x) = <<Head(s)>> \o Append(Kept(Tail(s), S), x)
      BY <3>1, <3>5
    <3>7. t \in Seq(T)
      OBVIOUS
    <3> HIDE DEF t
    <3>8. Law(t)
      BY <3>1, <3>2, <3>3, <3>4, <3>6
    <3> QED
      BY <3>7, <3>8 DEF t
  <2> QED
    BY <2>1, <2>2
<1>3. Seq(T) \subseteq P
  <2> HIDE DEF P
  <2> QED
    BY <1>1, <1>2, SeqInduction
<1> QED
  BY <1>3

\* A prefix is one element by element.
LEMMA PrefixPointwise ==
  ASSUME NEW T, NEW a \in Seq(T), NEW b \in Seq(T), Len(a) <= Len(b),
         \A i \in 1 .. Len(a) : a[i] = b[i]
  PROVE  Promise!IsPrefix(a, b)
<1>1. /\ SubSeq(a, 1, Len(a)) \in Seq(T) /\ Len(SubSeq(a, 1, Len(a))) = Len(a)
      /\ SubSeq(b, 1, Len(a)) \in Seq(T) /\ Len(SubSeq(b, 1, Len(a))) = Len(a)
  OBVIOUS
<1>2. \A i \in 1 .. Len(a) : SubSeq(a, 1, Len(a))[i] = a[i] /\ SubSeq(b, 1, Len(a))[i] = b[i]
  OBVIOUS
<1>3. SubSeq(a, 1, Len(a)) = SubSeq(b, 1, Len(a))
  BY <1>1, <1>2
<1> QED
  BY <1>3 DEF Promise!IsPrefix

\* ... and agrees with the whole up to its end.
LEMMA PrefixElements ==
  ASSUME NEW T, NEW a \in Seq(T), NEW b \in Seq(T), Promise!IsPrefix(a, b)
  PROVE  Len(a) <= Len(b) /\ \A i \in 1 .. Len(a) : a[i] = b[i]
<1>1. Len(a) <= Len(b) /\ SubSeq(a, 1, Len(a)) = SubSeq(b, 1, Len(a))
  BY DEF Promise!IsPrefix
<1>2. \A i \in 1 .. Len(a) : SubSeq(a, 1, Len(a))[i] = a[i] /\ SubSeq(b, 1, Len(a))[i] = b[i]
  BY <1>1
<1> QED
  BY <1>1, <1>2

\* What is kept of a prefix is a prefix of what is kept.
LEMMA KeptPrefix ==
  ASSUME NEW T, NEW S
  PROVE  \A s \in Seq(T) : \A n \in 0 .. Len(s) : Promise!IsPrefix(Kept(SubSeq(s, 1, n), S), Kept(s, S))
<1> DEFINE P == {s \in Seq(T) :
             \A n \in 0 .. Len(s) : Promise!IsPrefix(Kept(SubSeq(s, 1, n), S), Kept(s, S))}
<1>1. <<>> \in P
  <2> SUFFICES ASSUME NEW n \in 0 .. Len(<<>>)
               PROVE  Promise!IsPrefix(Kept(SubSeq(<<>>, 1, n), S), Kept(<<>>, S))
    OBVIOUS
  <2>1. SubSeq(<<>>, 1, n) = <<>>
    OBVIOUS
  <2>2. <<>> \in Seq(T)
    OBVIOUS
  <2>3. Promise!IsPrefix(<<>>, <<>>)
    <3>1. \A u \in Seq(T) : Promise!IsPrefix(u, u)
      BY PrefixPointwise
    <3> QED
      BY <2>2, <3>1, Zenon
  <2> QED
    BY <2>1, <2>3, KeptEmpty
<1>2. ASSUME NEW s \in Seq(T), s \in P, NEW x \in T PROVE Append(s, x) \in P
  <2> DEFINE t == Append(s, x)
  <2>1. t \in Seq(T) /\ Len(t) = Len(s) + 1
    OBVIOUS
  <2> SUFFICES ASSUME NEW n \in 0 .. Len(t)
               PROVE  Promise!IsPrefix(Kept(SubSeq(t, 1, n), S), Kept(t, S))
    BY <2>1
  <2>2. Kept(t, S) \in Seq(T \cap S) /\ Kept(s, S) \in Seq(T \cap S)
    BY <2>1, KeptType
  <2>3. Kept(t, S) = IF x \in S THEN Append(Kept(s, S), x) ELSE Kept(s, S)
    BY KeptAppend
  <2>4. CASE n = Len(s) + 1
    <3>1. SubSeq(t, 1, n) = t
      BY <2>4
    <3> HIDE DEF t
    <3>2. Promise!IsPrefix(Kept(t, S), Kept(t, S))
      BY <2>2, PrefixPointwise
    <3> QED
      BY <3>1, <3>2
  <2>5. CASE n \in 0 .. Len(s)
    <3>1. SubSeq(t, 1, n) = SubSeq(s, 1, n) /\ SubSeq(s, 1, n) \in Seq(T)
      BY <2>5
    <3>2. Promise!IsPrefix(Kept(SubSeq(s, 1, n), S), Kept(s, S))
      BY <1>2, <2>5
    <3>3. Kept(SubSeq(s, 1, n), S) \in Seq(T \cap S)
      BY <3>1, KeptType
    <3> HIDE DEF t
    <3> DEFINE a == Kept(SubSeq(s, 1, n), S)
               b == Kept(s, S)
               c == Kept(t, S)
    <3>4. Len(a) <= Len(b) /\ \A i \in 1 .. Len(a) : a[i] = b[i]
      <4> HIDE DEF a, b
      <4>1. a \in Seq(T \cap S) /\ b \in Seq(T \cap S) /\ Promise!IsPrefix(a, b)
        BY <2>2, <3>2, <3>3 DEF a, b
      <4> QED
        BY <4>1, PrefixElements
    <3>5. Len(b) <= Len(c) /\ \A i \in 1 .. Len(b) : b[i] = c[i]
      BY <2>2, <2>3
    <3>6. a \in Seq(T \cap S) /\ b \in Seq(T \cap S) /\ c \in Seq(T \cap S)
      BY <2>2, <3>3
    <3> HIDE DEF a, b, c
    <3>7. Promise!IsPrefix(a, c)
      BY <3>4, <3>5, <3>6, PrefixPointwise
    <3> QED
      BY <3>1, <3>7 DEF a, c
  <2> QED
    BY <2>1, <2>4, <2>5
<1>3. Seq(T) \subseteq P
  <2> HIDE DEF P
  <2> QED
    BY <1>1, <1>2, SeqInduction
<1> QED
  BY <1>3

(***************************************************************************)
(* Each reply goes to the handler that awaits it                           *)
(***************************************************************************)

Matched(queue, answered, asked) ==
    /\ Len(queue) = Len(answered) + Len(asked)
    /\ \A i \in 1 .. Len(queue) : Head(queue[i]) = (answered \o asked)[i]

OpenTypes ==
    /\ pending \in Seq(Scripts)
    /\ wire \in Seq(Requests)
    /\ replies \in Seq(Requests)

\* RepliesMatch, strengthened by the types it needs.
InStep == socket = "open" => OpenTypes /\ Matched(pending, replies, wire)

\* What a script is made of: at least one request, and the rest of it.
LEMMA ScriptShape ==
    ASSUME NEW s \in Scripts
    PROVE  /\ s \in Seq(Requests) /\ s # <<>> /\ Head(s) \in Requests
           /\ Tail(s) \in Scripts \cup {<<>>}
<1>1. CASE s \in {<<r>> : r \in Requests}
  <2>1. PICK r \in Requests : s = <<r>>
    BY <1>1
  <2> QED
    BY <2>1
<1>2. CASE s \in {<<MoveTo(e.at), e>> : e \in UNION {ButtonEvents(w) : w \in Located}}
  <2>0. PICK w \in Located : \E e \in ButtonEvents(w) : s = <<MoveTo(e.at), e>>
    BY <1>2
  <2>1. PICK e \in ButtonEvents(w) : s = <<MoveTo(e.at), e>>
    BY <2>0
  <2>2. e \in Requests /\ MoveTo(e.at) \in Requests
    BY <2>1, ProxyAssumption DEF Requests, Orders, ButtonEvents, MoveTo
  <2>3. Tail(s) = <<e>> /\ Head(s) = MoveTo(e.at) /\ s \in Seq(Requests) /\ s # <<>>
    BY <2>1, <2>2
  <2> QED
    BY <2>2, <2>3 DEF Scripts
<1> QED
  BY <1>1, <1>2 DEF Scripts

\* What handleProxyInput asks for is a script, or nothing.
LEMMA ScriptType ==
    ASSUME NEW w \in Windows, NEW e \in Events(w)
    PROVE  Script(e) \in Scripts \cup {<<>>}
<1>1. CASE e \in Moves(w)
  <2>1. e.kind = "move" /\ e.at \in Spots
    BY <1>1 DEF Moves
  <2>2. MoveTo(e.at) \in Requests
    BY <2>1 DEF Requests, MoveTo
  <2> QED
    BY <2>1, <2>2 DEF Script, Scripts
<1>2. CASE e \in ButtonEvents(w)
  <2>1. e.kind = "button" /\ e \in Requests
    BY <1>2 DEF ButtonEvents, Requests, Orders
  <2>2. CASE w \in Located
    <3>1. e \in UNION {ButtonEvents(v) : v \in Located}
      BY <1>2, <2>2
    <3>2. Script(e) = <<MoveTo(e.at), e>>
      BY <1>2, <2>1, <2>2 DEF Script, ButtonEvents
    <3> QED
      BY <3>1, <3>2 DEF Scripts
  <2>3. CASE w \notin Located
    <3>1. Script(e) = <<e>>
      BY <1>2, <2>1, <2>3 DEF Script, ButtonEvents
    <3> QED
      BY <2>1, <3>1 DEF Scripts
  <2> QED
    BY <2>2, <2>3
<1>3. CASE e \in KeyEvents(w)
  <2>1. e.kind = "key" /\ e \in Requests
    BY <1>3 DEF KeyEvents, Requests, Orders
  <2> QED
    BY <2>1 DEF Script, Scripts
<1> QED
  BY <1>1, <1>2, <1>3 DEF Events

\* Moving the oldest request from one side of a concatenation to the other
\* changes nothing.
LEMMA HandedOver ==
    ASSUME NEW S, NEW a \in Seq(S), NEW b \in Seq(S), b # <<>>
    PROVE  /\ Append(a, Head(b)) \in Seq(S) /\ Tail(b) \in Seq(S)
           /\ Append(a, Head(b)) \o Tail(b) = a \o b
           /\ Len(Append(a, Head(b))) + Len(Tail(b)) = Len(a) + Len(b)
  OBVIOUS

\* The first request is the first answered.
LEMMA FirstAnswered ==
    ASSUME NEW a \in Seq(Requests), NEW b \in Seq(Requests), NEW q \in Seq(Scripts),
           a # <<>>, q # <<>>, Matched(q, a, b)
    PROVE  Tail(q) \in Seq(Scripts) /\ Tail(a) \in Seq(Requests) /\ Matched(Tail(q), Tail(a), b)
  BY DEF Matched

\* A handler that goes on keeps the FIFO in step with the pipe.
LEMMA ContinueKeeps ==
    ASSUME NEW s \in Scripts \cup {<<>>}, NEW q \in Seq(Scripts),
           NEW a \in Seq(Requests), wire \in Seq(Requests),
           socket = "open", Matched(q, a, wire), Continue(s, q)
    PROVE  pending' \in Seq(Scripts) /\ wire' \in Seq(Requests) /\ Matched(pending', a, wire')
<1>1. CASE s = <<>>
  BY <1>1 DEF Continue
<1>2. CASE s # <<>>
  <2>1. s \in Scripts /\ Head(s) \in Requests
    BY <1>2, ScriptShape
  <2>2. pending' = Append(q, s) /\ wire' = Append(wire, Head(s))
    BY <1>2 DEF Continue, Queued, Written
  <2>3. pending' \in Seq(Scripts) /\ wire' \in Seq(Requests)
    BY <2>1, <2>2
  <2>4. Len(pending') = Len(a) + Len(wire')
    BY <2>1, <2>2 DEF Matched
  <2>5. ASSUME NEW i \in 1 .. Len(pending') PROVE Head(pending'[i]) = (a \o wire')[i]
    <3>1. CASE i <= Len(q)
      BY <2>1, <2>2, <3>1 DEF Matched
    <3>2. CASE i = Len(q) + 1
      BY <2>1, <2>2, <3>2 DEF Matched
    <3>3. Len(q) \in Nat /\ i \in 1 .. Len(q) + 1
      BY <2>1, <2>2, <2>5
    <3>4. i <= Len(q) \/ i = Len(q) + 1
      BY <3>3
    <3> QED
      BY <3>1, <3>2, <3>4, Zenon
  <2> QED
    BY <2>3, <2>4, <2>5 DEF Matched
<1> QED
  BY <1>1, <1>2

\* "The agent answers one response per request in order, so a simple FIFO of
\* pending resolvers is sufficient" (main/agent-client.ts:7-8).
THEOREM FifoCorrect == Spec => []RepliesMatch
<1>1. Init => InStep
  BY DEF Init, InStep, OpenTypes, Matched
<1>2. InStep /\ [Next]_vars => InStep'
  <2> SUFFICES ASSUME InStep, [Next]_vars, socket' = "open"
               PROVE  OpenTypes' /\ Matched(pending, replies, wire)'
    BY DEF InStep
  <2>1. ASSUME NEW w \in Windows, HandleProxyInput(w)
        PROVE  OpenTypes' /\ Matched(pending, replies, wire)'
    <3>1. PICK e \in Events(w) : Continue(Script(e), pending)
      BY <2>1 DEF HandleProxyInput
    <3>2. Script(e) \in Scripts \cup {<<>>}
      BY ScriptType
    <3>3. socket = "open" /\ replies' = replies
      BY <2>1 DEF HandleProxyInput
    <3> QED
      BY <3>1, <3>2, <3>3, ContinueKeeps DEF InStep, OpenTypes
  <2>2. CASE EnumerateWindows
    <3>1. <<Enumerate>> \in Scripts
      BY DEF Scripts, Requests
    <3> QED
      BY <2>2, <3>1, ContinueKeeps DEF EnumerateWindows, InStep, OpenTypes
  <2>3. CASE OnData
    <3>1. /\ pending # <<>> /\ replies # <<>> /\ replies' = Tail(replies) /\ socket = "open"
          /\ Continue(Tail(Head(pending)), Tail(pending))
      BY <2>3 DEF OnData
    <3>2. /\ Tail(pending) \in Seq(Scripts) /\ replies' \in Seq(Requests)
          /\ Matched(Tail(pending), replies', wire)
      BY <3>1, FirstAnswered DEF InStep, OpenTypes
    <3>3. Tail(Head(pending)) \in Scripts \cup {<<>>}
      BY <3>1, ScriptShape DEF InStep, OpenTypes
    <3> QED
      BY <3>1, <3>2, <3>3, ContinueKeeps DEF InStep, OpenTypes
  <2>4. CASE Serve
    <3>1. /\ socket = "open" /\ wire # <<>> /\ wire' = Tail(wire)
          /\ replies' = Append(replies, Head(wire)) /\ pending' = pending
      BY <2>4 DEF Serve
    <3>2. OpenTypes /\ Matched(pending, replies, wire)
      BY <3>1 DEF InStep
    <3>3. OpenTypes' /\ replies' \o wire' = replies \o wire
      BY <3>1, <3>2, HandedOver DEF OpenTypes
    <3>4. Len(replies') + Len(wire') = Len(replies) + Len(wire)
      BY <3>1, <3>2, HandedOver DEF OpenTypes
    <3> QED
      BY <3>1, <3>2, <3>3, <3>4 DEF Matched
  <2>5. CASE AgentKilled
    BY <2>5 DEF AgentKilled, InStep, OpenTypes, Matched
  <2>6. CASE Quit \/ SessionEnds \/ FailAllPending \/ SocketDies
    BY <2>6 DEF Quit, SessionEnds, FailAllPending, SocketDies
  <2>7. ASSUME NEW w \in Windows, ProxyGone(w)
        PROVE  OpenTypes' /\ Matched(pending, replies, wire)'
    BY <2>7 DEF ProxyGone, InStep, OpenTypes, Matched
  <2>8. CASE UNCHANGED vars
    BY <2>8 DEF vars, InStep, OpenTypes, Matched
  <2> QED
    BY <2>1, <2>2, <2>3, <2>4, <2>5, <2>6, <2>7, <2>8 DEF Next, Client, Agent
<1>3. InStep => RepliesMatch
  BY DEF InStep, RepliesMatch, Matched
<1> QED
  BY <1>1, <1>2, <1>3, PTL DEF Spec

(***************************************************************************)
(* Types                                                                   *)
(***************************************************************************)

\* A request is an order, a move, or one of two that have no arguments.
LEMMA RequestKinds ==
  ASSUME NEW r \in Requests
  PROVE  \/ \E s \in Spots : r = MoveTo(s) /\ r.kind = "move" /\ r.at = s
         \/ r = Enumerate /\ r.kind = "enumerate"
         \/ r = ReleaseAll /\ r.kind = "release"
         \/ /\ \E w \in Windows : \/ r \in ButtonEvents(w) /\ r.kind = "button" /\ r.window = w
                                  \/ r \in KeyEvents(w) /\ r.kind = "key" /\ r.window = w
            /\ r.press \in BOOLEAN /\ r.input \in Buttons \cup Keys
<1>1. CASE r \in [kind : {"move"}, at : Spots]
  BY <1>1 DEF MoveTo
<1>2. CASE r \in {Enumerate, ReleaseAll}
  BY <1>2 DEF Enumerate, ReleaseAll
<1>3. CASE r \in Orders
  <2>1. PICK w \in Windows : r \in ButtonEvents(w) \cup KeyEvents(w)
    BY <1>3 DEF Orders
  <2>2. CASE r \in ButtonEvents(w)
    BY <2>2 DEF ButtonEvents
  <2>3. CASE r \in KeyEvents(w)
    BY <2>3 DEF KeyEvents
  <2> QED
    BY <2>1, <2>2, <2>3
<1> QED
  BY <1>1, <1>2, <1>3 DEF Requests

\* Every request, refused or not, leaves the source's state well-typed.
LEMMA ObeyType ==
  ASSUME NEW r \in Requests, Obey(r), down \subseteq Buttons \cup Keys, pointer \in Spots
  PROVE  down' \subseteq Buttons \cup Keys /\ pointer' \in Spots
<1>1. /\ r.kind \in {"button", "key"} => r.input \in Buttons \cup Keys
      /\ r.kind = "move" => r.at \in Spots
  BY RequestKinds
<1>2. down' \subseteq Buttons \cup Keys
  BY <1>1 DEF Obey, Obeyed
<1>3. pointer' \in Spots
  BY <1>1 DEF Obey
<1> QED
  BY <1>2, <1>3

\* A handler that goes on makes a well-typed request, written or not.
LEMMA ContinueType ==
  ASSUME NEW s \in Scripts \cup {<<>>}, NEW q \in Seq(Scripts), wire \in Seq(Requests),
         Continue(s, q)
  PROVE  pending' \in Seq(Scripts) /\ wire' \in Seq(Requests)
<1>1. CASE s = <<>>
  BY <1>1 DEF Continue
<1>2. CASE s # <<>>
  <2>1. s \in Scripts /\ Head(s) \in Requests
    BY <1>2, ScriptShape
  <2>2. pending' = Append(q, s) /\ wire' \in {wire, Append(wire, Head(s))}
    BY <1>2 DEF Continue, Queued, Written
  <2> QED
    BY <2>1, <2>2
<1> QED
  BY <1>1, <1>2

\* A script that goes on does so with the button it moved the pointer for.
LEMMA UnfinishedShape ==
  ASSUME NEW s \in Unfinished
  PROVE  /\ s \in Scripts
         /\ \E w \in Located : \E e \in ButtonEvents(w) : s = <<MoveTo(e.at), e>> /\ Tail(s) = <<e>>
         /\ Tail(s) \in Scripts /\ Head(Tail(s)) \in Requests
<1>1. s \in Scripts /\ Len(s) > 1
  BY DEF Unfinished
<1>2. s \notin {<<r>> : r \in Requests}
  <2> SUFFICES ASSUME NEW r \in Requests, s = <<r>> PROVE FALSE
    OBVIOUS
  <2> QED
    BY <1>1
<1>3. s \in {<<MoveTo(e.at), e>> : e \in UNION {ButtonEvents(w) : w \in Located}}
  BY <1>1, <1>2, Zenon DEF Scripts
<1>4. PICK w \in Located : \E e \in ButtonEvents(w) : s = <<MoveTo(e.at), e>>
  BY <1>3
<1>5. PICK e \in ButtonEvents(w) : s = <<MoveTo(e.at), e>>
  BY <1>4
<1>6. Tail(s) = <<e>> /\ Head(Tail(s)) = e /\ Tail(s) # <<>>
  BY <1>5
<1>7. Tail(s) \in Scripts
  BY <1>1, <1>6, ScriptShape
<1>8. Head(Tail(s)) \in Requests
  BY <1>6, <1>7, ScriptShape
<1>9. \E v \in Located : \E f \in ButtonEvents(v) : s = <<MoveTo(f.at), f>> /\ Tail(s) = <<f>>
  <2>1. s = <<MoveTo(e.at), e>> /\ Tail(s) = <<e>>
    BY <1>5, <1>6
  <2>2. \E f \in ButtonEvents(w) : s = <<MoveTo(f.at), f>> /\ Tail(s) = <<f>>
    BY <2>1, Zenon
  <2> QED
    BY <2>2, Zenon
<1> QED
  BY <1>1, <1>7, <1>8, <1>9, Zenon

\* TypeOK is inductive.
LEMMA InitType == Init => TypeOK
<1> SUFFICES ASSUME Init PROVE TypeOK
  OBVIOUS
<1>1. pending \in Seq(Scripts) /\ wire \in Seq(Requests) /\ replies \in Seq(Requests)
  BY DEF Init
<1>2. /\ socket \in {"none", "open", "destroyed", "closed"}
      /\ agent \in {"serving", "ended", "killed"}
  BY DEF Init
<1> QED
  BY <1>1, <1>2 DEF Init, TypeOK

LEMMA StepType == TypeOK /\ [Next]_vars => TypeOK'
<1> SUFFICES ASSUME TypeOK, [Next]_vars PROVE TypeOK'
  OBVIOUS
<1>0. pending \in Seq(Scripts) /\ wire \in Seq(Requests) /\ replies \in Seq(Requests)
  BY DEF TypeOK
<1>1. CASE UNCHANGED vars
  BY <1>1 DEF vars, TypeOK
<1>2. ASSUME NEW w \in Windows, HandleProxyInput(w) PROVE TypeOK'
  <2>1. PICK e \in Events(w) : Continue(Script(e), pending)
    BY <1>2 DEF HandleProxyInput
  <2>2. Script(e) \in Scripts \cup {<<>>}
    BY ScriptType
  <2>3. pending' \in Seq(Scripts) /\ wire' \in Seq(Requests)
    BY <1>0, <2>1, <2>2, ContinueType
  <2> QED
    BY <1>2, <2>3 DEF HandleProxyInput, TypeOK, source
<1>3. ASSUME NEW w \in Windows, ProxyGone(w) PROVE TypeOK'
  BY <1>3 DEF ProxyGone, TypeOK, source
<1>4. CASE EnumerateWindows
  <2>1. <<Enumerate>> \in Scripts
    BY DEF Scripts, Requests
  <2>2. pending' \in Seq(Scripts) /\ wire' \in Seq(Requests)
    BY <1>0, <1>4, <2>1, ContinueType DEF EnumerateWindows
  <2> QED
    BY <1>4, <2>2 DEF EnumerateWindows, TypeOK, source
<1>5. CASE OnData
  <2>1. pending # <<>> /\ replies # <<>> /\ Continue(Tail(Head(pending)), Tail(pending))
    BY <1>5 DEF OnData
  <2>2. Head(pending) \in Scripts /\ Tail(pending) \in Seq(Scripts)
    BY <1>0, <2>1
  <2>3. Tail(Head(pending)) \in Scripts \cup {<<>>}
    BY <2>2, ScriptShape
  <2>4. pending' \in Seq(Scripts) /\ wire' \in Seq(Requests)
    BY <1>0, <2>1, <2>2, <2>3, ContinueType
  <2>5. replies' \in Seq(Requests)
    BY <1>0, <1>5 DEF OnData
  <2> QED
    BY <1>5, <2>4, <2>5 DEF OnData, TypeOK, source
<1>6. CASE FailAllPending
  <2> DEFINE on == Kept(pending, Unfinished)
  <2>1. on \in Seq(Scripts \cap Unfinished)
    BY <1>0, KeptType
  <2>2. pending' = [i \in 1 .. Len(on) |-> Tail(on[i])]
    BY <1>6 DEF FailAllPending
  <2> HIDE DEF on
  <2>3. \A i \in 1 .. Len(on) : Tail(on[i]) \in Scripts
    BY <2>1, UnfinishedShape
  <2>4. pending' \in Seq(Scripts)
    BY <2>1, <2>2, <2>3
  <2> QED
    BY <1>6, <2>4 DEF FailAllPending, TypeOK, source
<1>7. CASE Quit
  <2>1. ReleaseAll \in Requests /\ <<ReleaseAll>> \in Scripts
    BY DEF Requests, Scripts
  <2>2. pending' \in Seq(Scripts)
    BY <1>0, <1>7, <2>1 DEF Quit, Queued
  <2>3. wire' \in Seq(Requests) /\ replies' \in Seq(Requests)
    <3>1. CASE socket = "open"
      <4>1. PICK n \in 0 .. Len(wire) + 1 : wire' = SubSeq(Append(wire, ReleaseAll), 1, n)
        BY <1>7, <3>1 DEF Quit, Written
      <4>2. wire' \in Seq(Requests)
        BY <1>0, <2>1, <4>1
      <4>3. replies' = <<>>
        BY <1>7, <3>1 DEF Quit
      <4> QED
        BY <4>2, <4>3
    <3>2. CASE socket # "open"
      BY <1>0, <1>7, <3>2 DEF Quit
    <3> QED
      BY <3>1, <3>2
  <2>4. socket' \in {"none", "open", "destroyed", "closed"} /\ quitting' \in BOOLEAN
    BY <1>7 DEF Quit, TypeOK
  <2> QED
    BY <1>7, <2>2, <2>3, <2>4 DEF Quit, TypeOK, source
<1>8. CASE SocketDies
  BY <1>8 DEF SocketDies, TypeOK, source
<1>9. CASE Serve
  <2>1. Head(wire) \in Requests /\ wire' \in Seq(Requests)
    BY <1>0, <1>9 DEF Serve
  <2>2. replies' \in Seq(Requests)
    BY <1>0, <1>9, <2>1 DEF Serve
  <2>3. down' \subseteq Buttons \cup Keys /\ pointer' \in Spots
    <3>1. CASE Obey(Head(wire))
      BY <2>1, <3>1, ObeyType DEF TypeOK
    <3>2. CASE UNCHANGED source
      BY <3>2 DEF source, TypeOK
    <3> QED
      BY <1>9, <3>1, <3>2 DEF Serve
  <2> QED
    BY <1>9, <2>1, <2>2, <2>3 DEF Serve, TypeOK
<1>10. CASE SessionEnds
  BY <1>10 DEF SessionEnds, TypeOK
<1>11. CASE AgentKilled
  BY <1>11 DEF AgentKilled, TypeOK, source
<1> QED
  BY <1>1, <1>2, <1>3, <1>4, <1>5, <1>6, <1>7, <1>8, <1>9, <1>10, <1>11
     DEF Next, Client, Agent

\* Handlers that overlap, fail together and go on leave well-formed requests
\* behind, also on a socket that has long been closed: a handler waits only
\* while it has a request to be answered (main/agent-client.ts:72-88).
THEOREM TypeCorrect == Spec => []TypeOK
  BY InitType, StepType, PTL DEF Spec

(***************************************************************************)
(* The lanes                                                               *)
(***************************************************************************)

\* What a handler that goes on requests next.
Click(s) == Head(Tail(s))

\* What the handlers of a FIFO have still to request.
Coming(queue) ==
    LET on == Kept(queue, Unfinished) IN [i \in 1 .. Len(on) |-> Click(on[i])]

\* The buttons that a handler may send after a move.
Clicks == UNION {ButtonEvents(w) : w \in Located}

\* The lane of the refinement mapping.
LaneOf(l) == InLane(wire, l) \o IF socket = "open" THEN InLane(ToCome, l) ELSE <<>>

\* It is the button the pointer was moved for, and the last.
LEMMA ClickOf ==
  ASSUME NEW s \in Unfinished
  PROVE  Click(s) \in Clicks /\ Tail(s) = <<Click(s)>>
<1>1. PICK w \in Located : \E e \in ButtonEvents(w) : s = <<MoveTo(e.at), e>> /\ Tail(s) = <<e>>
  BY UnfinishedShape
<1>2. PICK e \in ButtonEvents(w) : Tail(s) = <<e>>
  BY <1>1
<1>3. Head(<<e>>) = e
  OBVIOUS
<1>4. Click(s) = e
  BY <1>2, <1>3, Zenon DEF Click
<1>5. e \in Clicks
  BY <1>2 DEF Clicks
<1> QED
  BY <1>2, <1>4, <1>5, Zenon

\* The handlers of a FIFO that go on are unfinished scripts ...
LEMMA OnType ==
  ASSUME NEW q \in Seq(Scripts)
  PROVE  Kept(q, Unfinished) \in Seq(Unfinished)
<1>1. Kept(q, Unfinished) \in Seq(Scripts \cap Unfinished)
  BY KeptType
<1>2. Scripts \cap Unfinished = Unfinished
  BY DEF Unfinished
<1> QED
  BY <1>1, <1>2, Zenon

\* ... so that only buttons are still to come.
LEMMA ComingType ==
  ASSUME NEW q \in Seq(Scripts)
  PROVE  Coming(q) \in Seq(Clicks)
<1> DEFINE on == Kept(q, Unfinished)
<1>1. on \in Seq(Unfinished)
  BY OnType
<1>2. Coming(q) = [i \in 1 .. Len(on) |-> Click(on[i])]
  BY DEF Coming
<1> HIDE DEF on
<1>3. \A i \in 1 .. Len(on) : Click(on[i]) \in Clicks
  BY <1>1, ClickOf
<1> QED
  BY <1>1, <1>2, <1>3

\* An empty FIFO sends no more.
LEMMA ComingEmpty == Coming(<<>>) = <<>>
<1>1. Coming(<<>>) = [i \in 1 .. Len(<<>>) |-> Click(<<>>[i])]
  BY KeptEmpty DEF Coming
<1> QED
  BY <1>1

\* A handler that joins the FIFO sends last what it has still to send ...
LEMMA ComingAppend ==
  ASSUME NEW q \in Seq(Scripts), NEW s \in Scripts
  PROVE  Coming(Append(q, s))
           = IF s \in Unfinished THEN Append(Coming(q), Click(s)) ELSE Coming(q)
<1> DEFINE on == Kept(q, Unfinished)
           next == Kept(Append(q, s), Unfinished)
<1>1. on \in Seq(Unfinished)
  BY OnType
<1>2. next = IF s \in Unfinished THEN Append(on, s) ELSE on
  BY KeptAppend
<1>3. /\ Coming(q) = [i \in 1 .. Len(on) |-> Click(on[i])]
      /\ Coming(Append(q, s)) = [i \in 1 .. Len(next) |-> Click(next[i])]
  BY DEF Coming
<1> HIDE DEF on, next
<1>4. CASE s \notin Unfinished
  BY <1>2, <1>3, <1>4
<1>5. CASE s \in Unfinished
  <2> DEFINE c == Click(s)
             a == [i \in 1 .. Len(on) |-> Click(on[i])]
             b == [i \in 1 .. Len(next) |-> Click(next[i])]
  <2>1. next = Append(on, s)
    BY <1>2, <1>5
  <2>2. Len(next) = Len(on) + 1 /\ next[Len(on) + 1] = s /\ \A i \in 1 .. Len(on) : next[i] = on[i]
    BY <1>1, <2>1
  <2>3. Len(on) \in Nat
    BY <1>1
  <2>4. a \in Seq(Clicks) /\ Len(a) = Len(on) /\ c \in Clicks
    BY <1>3, <1>5, <2>3, ComingType, ClickOf
  <2>5. b = Append(a, c)
    <3> DEFINE z == Append(a, c)
    <3>1. /\ z \in Seq(Clicks) /\ Len(z) = Len(on) + 1 /\ z[Len(on) + 1] = c
          /\ \A i \in 1 .. Len(on) : z[i] = a[i]
      <4> HIDE DEF a, c
      <4> QED
        BY <2>3, <2>4
    <3>2. \A i \in 1 .. Len(on) + 1 : Click(next[i]) = IF i = Len(on) + 1 THEN c ELSE a[i]
      BY <2>2, <2>3
    <3>3. b \in Seq(Clicks) /\ Len(b) = Len(on) + 1
      <4>1. Append(q, s) \in Seq(Scripts)
        OBVIOUS
      <4>2. Coming(Append(q, s)) \in Seq(Clicks)
        BY <4>1, ComingType
      <4>3. b \in Seq(Clicks)
        BY <1>3, <4>2
      <4>4. DOMAIN b = 1 .. Len(on) + 1
        BY <2>2
      <4> HIDE DEF b
      <4> QED
        BY <2>3, <4>3, <4>4
    <3>4. \A i \in 1 .. Len(on) + 1 : b[i] = z[i]
      <4> HIDE DEF a, c, z
      <4> QED
        BY <2>2, <2>3, <3>1, <3>2
    <3>5. b = z
      <4> HIDE DEF b, z
      <4> QED
        BY <2>3, <3>1, <3>3, <3>4
    <3> QED
      BY <3>5
  <2> HIDE DEF a, b
  <2> QED
    BY <1>3, <1>5, <2>5 DEF a, b
<1> QED
  BY <1>4, <1>5

\* ... and the one at the front is the first to go on.
LEMMA ComingHead ==
  ASSUME NEW q \in Seq(Scripts), q # <<>>
  PROVE  Coming(q) = IF Head(q) \in Unfinished
                     THEN <<Click(Head(q))>> \o Coming(Tail(q)) ELSE Coming(Tail(q))
<1> DEFINE on == Kept(q, Unfinished)
           rest == Kept(Tail(q), Unfinished)
<1>0. q \in Seq(Scripts) /\ Tail(q) \in Seq(Scripts) /\ Head(q) \in Scripts
  OBVIOUS
<1>1. rest \in Seq(Unfinished)
  BY <1>0, OnType
<1>2. on = IF Head(q) \in Unfinished THEN <<Head(q)>> \o rest ELSE rest
  BY KeptHead
<1>3. /\ Coming(q) = [i \in 1 .. Len(on) |-> Click(on[i])]
      /\ Coming(Tail(q)) = [i \in 1 .. Len(rest) |-> Click(rest[i])]
  BY DEF Coming
<1>4. Coming(Tail(q)) \in Seq(Clicks)
  BY <1>0, ComingType
<1> HIDE DEF on, rest
<1>5. CASE Head(q) \notin Unfinished
  BY <1>2, <1>3, <1>5
<1>6. CASE Head(q) \in Unfinished
  <2> DEFINE s == Head(q)
             c == Click(s)
             a == Coming(Tail(q))
  <2>1. on = <<s>> \o rest
    BY <1>2, <1>6
  <2> HIDE DEF s
  <2>2. /\ Len(on) = Len(rest) + 1 /\ Len(rest) \in Nat /\ on[1] = s
        /\ \A i \in 2 .. Len(rest) + 1 : on[i] = rest[i - 1]
    BY <1>1, <2>1
  <2>3. c \in Clicks /\ a \in Seq(Clicks) /\ Len(a) = Len(rest)
        /\ \A i \in 1 .. Len(rest) : a[i] = Click(rest[i])
    BY <1>3, <1>4, <1>6, <2>2, ClickOf DEF s
  <2>4. Coming(q) = [i \in 1 .. Len(rest) + 1 |-> IF i = 1 THEN c ELSE a[i - 1]]
    <3>1. \A i \in 1 .. Len(rest) + 1 : Click(on[i]) = IF i = 1 THEN c ELSE a[i - 1]
      <4> SUFFICES ASSUME NEW i \in 1 .. Len(rest) + 1
                   PROVE  Click(on[i]) = IF i = 1 THEN c ELSE a[i - 1]
        OBVIOUS
      <4>1. CASE i = 1
        BY <2>2, <4>1
      <4>2. CASE i # 1
        <5>1. on[i] = rest[i - 1] /\ a[i - 1] = Click(rest[i - 1])
          BY <2>2, <2>3, <4>2
        <5> QED
          BY <4>2, <5>1
      <4> QED
        BY <4>1, <4>2
    <3> HIDE DEF a, c
    <3> QED
      BY <1>3, <2>2, <3>1
  <2>5. <<c>> \o a = [i \in 1 .. Len(rest) + 1 |-> IF i = 1 THEN c ELSE a[i - 1]]
    <3> HIDE DEF a, c
    <3> QED
      BY <2>2, <2>3
  <2> QED
    BY <1>6, <2>4, <2>5 DEF s
<1> QED
  BY <1>5, <1>6

(***************************************************************************)
(* Steps of the lanes                                                      *)
(***************************************************************************)

\* Where no lane changes nothing is promised.
LEMMA SameLanes ==
  ASSUME \A l \in Lanes : LaneOf(l)' = LaneOf(l), (socket = "open")' = (socket = "open"),
         down' = down
  PROVE  UNCHANGED Promise!lvars
BY DEF Promise!lvars, LaneOf

\* An order behind one lane is told there.
LEMMA TellStep ==
  ASSUME NEW k \in Lanes, NEW o \in Orders, socket = "open", socket' = "open", down' = down,
         \A l \in Lanes : LaneOf(l)' = IF l = k THEN Append(LaneOf(l), o) ELSE LaneOf(l)
  PROVE  Promise!LNext
<1>1. Promise!Tell(k)
  BY DEF Promise!Tell, LaneOf
<1> QED
  BY <1>1 DEF Promise!LNext

\* The order at the head of one lane reaches the source, or is refused.
LEMMA DeliverStep ==
  ASSUME NEW k \in Lanes, LaneOf(k) # <<>>, (socket = "open")' = (socket = "open"),
         down' = Promise!Obeyed(Head(LaneOf(k))) \/ (MayRefuse /\ down' = down),
         \A l \in Lanes : LaneOf(l)' = IF l = k THEN Tail(LaneOf(l)) ELSE LaneOf(l)
  PROVE  Promise!LNext
<1>1. Promise!Deliver(k)
  BY DEF Promise!Deliver, LaneOf
<1> QED
  BY <1>1 DEF Promise!LNext

\* An open connection is lost with the ends of the lanes.
LEMMA BreakStep ==
  ASSUME socket = "open", socket' # "open", down' = down,
         \A l \in Lanes : Promise!IsPrefix(LaneOf(l)', LaneOf(l))
  PROVE  Promise!LNext
BY DEF Promise!LNext, Promise!Break, Promise!Forget, LaneOf

\* The source lets go of everything once the connection is lost.
LEMMA LetGoStep ==
  ASSUME socket # "open", socket' # "open", down' = {},
         \A l \in Lanes : Promise!IsPrefix(LaneOf(l)', LaneOf(l))
  PROVE  Promise!LNext
BY DEF Promise!LNext, Promise!LetGo, Promise!Forget, LaneOf

\* A request that is no order belongs to no lane, an order to one.
LEMMA NoLane ==
  ASSUME NEW r, r.kind \notin {"button", "key"}, NEW l \in Lanes
  PROVE  r \notin OfLane(l)
BY DEF OfLane, ButtonEvents, KeyEvents

LEMMA OneLane ==
  ASSUME NEW w \in Windows, NEW c \in {"button", "key"}, NEW r \in OfLane(<<w, c>>)
  PROVE  /\ <<w, c>> \in Lanes /\ r \in Orders /\ r \in Requests
         /\ \A l \in Lanes : r \in OfLane(l) => l = <<w, c>>
<1>1. <<w, c>> \in Lanes
  BY DEF Lanes
<1>2. CASE c = "button"
  <2>1. r \in ButtonEvents(w) /\ r.kind = "button" /\ r.window = w
    BY <1>2 DEF OfLane, ButtonEvents
  <2>2. ASSUME NEW l \in Lanes, r \in OfLane(l) PROVE l = <<w, c>>
    <3>1. l[2] # "button" => r.kind = "key"
      BY <2>2 DEF OfLane, KeyEvents
    <3>2. l[2] = "button" => r.window = l[1]
      BY <2>2 DEF OfLane, ButtonEvents
    <3> QED
      BY <1>2, <2>1, <3>1, <3>2 DEF Lanes
  <2> QED
    BY <1>1, <2>1, <2>2 DEF Orders, Requests
<1>3. CASE c = "key"
  <2>1. r \in KeyEvents(w) /\ r.kind = "key" /\ r.window = w
    BY <1>3 DEF OfLane, KeyEvents
  <2>2. ASSUME NEW l \in Lanes, r \in OfLane(l) PROVE l = <<w, c>>
    <3>1. l[2] = "button" => r.kind = "button"
      BY <2>2 DEF OfLane, ButtonEvents
    <3>2. l[2] # "button" => r.window = l[1]
      BY <2>2 DEF OfLane, KeyEvents
    <3> QED
      BY <1>3, <2>1, <3>1, <3>2 DEF Lanes
  <2> QED
    BY <1>1, <2>1, <2>2 DEF Orders, Requests
<1> QED
  BY <1>2, <1>3

\* No key waits for a move, and no button of a window without a rectangle.
LEMMA NothingToCome ==
  ASSUME NEW q \in Seq(Clicks), NEW w \in Windows, NEW c \in {"button", "key"},
         c = "key" \/ w \notin Located
  PROVE  InLane(q, <<w, c>>) = <<>>
<1>1. Clicks \cap OfLane(<<w, c>>) = {}
  BY DEF Clicks, OfLane, ButtonEvents, KeyEvents
<1>2. Kept(q, OfLane(<<w, c>>)) \in Seq(Clicks \cap OfLane(<<w, c>>))
  BY KeptType
<1>3. \A s \in Seq({}) : s = <<>>
  OBVIOUS
<1> QED
  BY <1>1, <1>2, <1>3, Zenon DEF InLane

\* The refinement mapping, for the FIFO as it is.
LEMMA ToComeIs == ToCome = Coming(pending) /\ ToCome' = Coming(pending)'
  BY DEF ToCome, Coming, Click

\* Both parts of a lane are sequences of requests.
LEMMA LaneTypes ==
  ASSUME NEW q \in Seq(Scripts), NEW z \in Seq(Requests)
  PROVE  \A l \in Lanes : InLane(z, l) \in Seq(Requests) /\ InLane(Coming(q), l) \in Seq(Requests)
<1> SUFFICES ASSUME NEW l \in Lanes
             PROVE  InLane(z, l) \in Seq(Requests) /\ InLane(Coming(q), l) \in Seq(Requests)
  OBVIOUS
<1>1. Clicks \subseteq Requests
  BY ProxyAssumption DEF Clicks, Requests, Orders
<1>2. Coming(q) \in Seq(Requests)
  <2>1. Coming(q) \in Seq(Clicks)
    BY ComingType
  <2> QED
    BY <1>1, <2>1
<1>3. \A y \in Seq(Requests) : Kept(y, OfLane(l)) \in Seq(Requests \cap OfLane(l))
  BY KeptType
<1>4. \A y \in Seq(Requests \cap OfLane(l)) : y \in Seq(Requests)
  OBVIOUS
<1> QED
  BY <1>2, <1>3, <1>4, Zenon DEF InLane

\* What a request does to the lanes that is written behind a FIFO q, with the
\* requests that are still to come.
LEMMA LanesGrow ==
  ASSUME NEW q \in Seq(Scripts), NEW s \in Scripts, wire \in Seq(Requests),
         socket = "open", socket' = "open", Continue(s, q)
  PROVE  \A l \in Lanes :
           LaneOf(l)' = (IF Head(s) \in OfLane(l) THEN Append(InLane(wire, l), Head(s))
                         ELSE InLane(wire, l))
                     \o (IF s \in Unfinished /\ Click(s) \in OfLane(l)
                         THEN Append(InLane(Coming(q), l), Click(s)) ELSE InLane(Coming(q), l))
<1> SUFFICES ASSUME NEW l \in Lanes
             PROVE  LaneOf(l)' = (IF Head(s) \in OfLane(l) THEN Append(InLane(wire, l), Head(s))
                         ELSE InLane(wire, l))
                     \o (IF s \in Unfinished /\ Click(s) \in OfLane(l)
                         THEN Append(InLane(Coming(q), l), Click(s)) ELSE InLane(Coming(q), l))
  OBVIOUS
<1>1. s # <<>> /\ Head(s) \in Requests
  BY ScriptShape
<1>2. pending' = Append(q, s) /\ wire' = Append(wire, Head(s))
  BY <1>1 DEF Continue, Queued, Written
<1>3. ToCome' = Coming(Append(q, s))
  BY <1>2, ToComeIs DEF Coming
<1>4. InLane(wire', l) = IF Head(s) \in OfLane(l) THEN Append(InLane(wire, l), Head(s))
                         ELSE InLane(wire, l)
  BY <1>1, <1>2, KeptAppend DEF InLane
<1>5. InLane(ToCome', l) = IF s \in Unfinished /\ Click(s) \in OfLane(l)
                           THEN Append(InLane(Coming(q), l), Click(s)) ELSE InLane(Coming(q), l)
  <2>1. CASE s \notin Unfinished
    BY <1>3, <2>1, ComingAppend
  <2>2. CASE s \in Unfinished
    <3>1. Click(s) \in Clicks /\ Coming(q) \in Seq(Clicks)
      BY <2>2, ClickOf, ComingType
    <3>2. ToCome' = Append(Coming(q), Click(s))
      BY <1>3, <2>2, ComingAppend
    <3> QED
      BY <2>2, <3>1, <3>2, KeptAppend DEF InLane
  <2> QED
    BY <2>1, <2>2
<1>6. LaneOf(l)' = InLane(wire', l) \o InLane(ToCome', l)
  BY DEF LaneOf, InLane
<1> QED
  BY <1>4, <1>5, <1>6

\* Requests at either end of two joined sequences.
LEMMA Rejoined ==
  ASSUME NEW x \in Seq(Requests), NEW y \in Seq(Requests), NEW r \in Requests
  PROVE  /\ x \o Append(y, r) = Append(x \o y, r) /\ Append(x, r) \o y = x \o (<<r>> \o y)
         /\ Append(x, r) \o <<>> = Append(x \o <<>>, r)
         /\ <<r>> \o x # <<>> /\ Head(<<r>> \o x) = r /\ Tail(<<r>> \o x) = x
         /\ (<<r>> \o x) \o y = <<r>> \o (x \o y) /\ x \o y \in Seq(Requests)
  OBVIOUS

\* A handler of a proxy's event tells its order in one lane, behind everything
\* told there before, or moves the pointer and tells nothing.
LEMMA HandleStep ==
  ASSUME TypeOK, NEW w \in Windows, HandleProxyInput(w)
  PROVE  Promise!LNext \/ UNCHANGED Promise!lvars
<1>0. pending \in Seq(Scripts) /\ wire \in Seq(Requests)
  BY DEF TypeOK
<1>1. PICK e \in Events(w) : Continue(Script(e), pending)
  BY DEF HandleProxyInput
<1>2. UNCHANGED <<socket, down>>
  BY DEF HandleProxyInput, source
<1>3. CASE socket # "open"
  <2>1. UNCHANGED wire
    BY <1>1, <1>3 DEF Continue, Written
  <2>2. \A l \in Lanes : LaneOf(l)' = LaneOf(l)
    BY <1>2, <1>3, <2>1 DEF LaneOf, InLane
  <2> QED
    BY <1>2, <2>2, SameLanes
<1>4. CASE socket = "open" /\ Script(e) = <<>>
  <2>1. UNCHANGED <<wire, pending>>
    BY <1>1, <1>4 DEF Continue
  <2>2. \A l \in Lanes : LaneOf(l)' = LaneOf(l)
    BY <1>2, <2>1 DEF LaneOf, InLane, ToCome
  <2> QED
    BY <1>2, <2>2, SameLanes
<1>5. CASE socket = "open" /\ Script(e) # <<>>
  <2> DEFINE s == Script(e)
  <2>1. s \in Scripts
    BY <1>5, ScriptType
  <2> HIDE DEF s
  <2>2. \A l \in Lanes : LaneOf(l) = InLane(wire, l) \o InLane(ToCome, l)
    BY <1>5 DEF LaneOf
  <2>3. \A l \in Lanes :
           LaneOf(l)' = (IF Head(s) \in OfLane(l) THEN Append(InLane(wire, l), Head(s))
                         ELSE InLane(wire, l))
                     \o (IF s \in Unfinished /\ Click(s) \in OfLane(l)
                         THEN Append(InLane(ToCome, l), Click(s)) ELSE InLane(ToCome, l))
    BY <1>0, <1>1, <1>2, <1>5, <2>1, LanesGrow, ToComeIs DEF s
  <2>4. \A l \in Lanes : InLane(wire, l) \in Seq(Requests) /\ InLane(ToCome, l) \in Seq(Requests)
    BY <1>0, LaneTypes, ToComeIs
  <2>5. ASSUME NEW r \in Requests, s = <<r>> PROVE s \notin Unfinished /\ Head(s) = r
    <3>1. Len(<<r>>) = 1 /\ Head(<<r>>) = r
      OBVIOUS
    <3> QED
      BY <2>5, <3>1 DEF Unfinished
  <2>6. CASE e \in Moves(w)
    <3>1. e.kind = "move" /\ MoveTo(e.at) \in Requests /\ MoveTo(e.at).kind = "move"
      BY <2>6 DEF Moves, MoveTo, Requests
    <3>2. s = <<MoveTo(e.at)>>
      BY <1>5, <3>1 DEF Script, s
    <3>3. s \notin Unfinished /\ \A l \in Lanes : Head(s) \notin OfLane(l)
      BY <2>5, <3>1, <3>2, NoLane
    <3>4. \A l \in Lanes : LaneOf(l)' = LaneOf(l)
      BY <2>2, <2>3, <3>3
    <3> QED
      BY <1>2, <3>4, SameLanes
  <2>7. CASE e \in ButtonEvents(w) /\ w \in Located
    <3> DEFINE k == <<w, "button">>
    <3>1. e \in OfLane(k) /\ e.kind = "button" /\ e.window = w
      BY <2>7 DEF OfLane, ButtonEvents
    <3>2. k \in Lanes /\ e \in Orders /\ e \in Requests /\ \A l \in Lanes : e \in OfLane(l) => l = k
      BY <3>1, OneLane
    <3>3. s = <<MoveTo(e.at), e>>
      BY <2>7, <3>1 DEF Script, s
    <3>4. Head(s) = MoveTo(e.at) /\ Click(s) = e /\ Len(s) = 2
      BY <3>3 DEF Click
    <3>5. s \in Unfinished /\ \A l \in Lanes : Head(s) \notin OfLane(l)
      BY <2>1, <3>4, NoLane DEF Unfinished, MoveTo
    <3> HIDE DEF k
    <3>6. \A l \in Lanes : LaneOf(l)' = IF l = k THEN Append(LaneOf(l), e) ELSE LaneOf(l)
      <4> SUFFICES ASSUME NEW l \in Lanes
                   PROVE  LaneOf(l)' = IF l = k THEN Append(LaneOf(l), e) ELSE LaneOf(l)
        OBVIOUS
      <4>1. CASE l = k
        <5>1. LaneOf(l)' = InLane(wire, l) \o Append(InLane(ToCome, l), e)
          BY <2>3, <3>1, <3>4, <3>5, <4>1
        <5> QED
          BY <2>2, <2>4, <3>2, <4>1, <5>1, Rejoined
      <4>2. CASE l # k
        BY <2>2, <2>3, <3>2, <3>4, <3>5, <4>2
      <4> QED
        BY <4>1, <4>2
    <3> QED
      BY <1>2, <1>5, <3>2, <3>6, TellStep
  <2>8. ASSUME NEW c \in {"button", "key"}, e \in OfLane(<<w, c>>), c = "key" \/ w \notin Located,
               e.kind = c
        PROVE  Promise!LNext
    <3> DEFINE k == <<w, c>>
    <3>1. k \in Lanes /\ e \in Orders /\ e \in Requests /\ \A l \in Lanes : e \in OfLane(l) => l = k
      BY <2>8, OneLane
    <3>2. e.window = w
      BY <2>8 DEF OfLane, ButtonEvents, KeyEvents
    <3>3. s = <<e>>
      BY <2>8, <3>2 DEF Script, s
    <3>4. s \notin Unfinished /\ Head(s) = e
      BY <2>5, <3>1, <3>3
    <3>5. InLane(ToCome, k) = <<>>
      BY <1>0, <2>8, NothingToCome, ComingType, ToComeIs
    <3>6. e \in OfLane(k)
      BY <2>8
    <3> HIDE DEF k
    <3>7. \A l \in Lanes : LaneOf(l)' = IF l = k THEN Append(LaneOf(l), e) ELSE LaneOf(l)
      <4> SUFFICES ASSUME NEW l \in Lanes
                   PROVE  LaneOf(l)' = IF l = k THEN Append(LaneOf(l), e) ELSE LaneOf(l)
        OBVIOUS
      <4>1. CASE l = k
        <5>1. LaneOf(l)' = Append(InLane(wire, l), e) \o <<>> /\ LaneOf(l) = InLane(wire, l) \o <<>>
          BY <2>2, <2>3, <3>4, <3>5, <3>6, <4>1
        <5> QED
          BY <2>4, <3>1, <4>1, <5>1, Rejoined
      <4>2. CASE l # k
        BY <2>2, <2>3, <3>1, <3>4, <4>2
      <4> QED
        BY <4>1, <4>2
    <3> QED
      BY <1>2, <1>5, <3>1, <3>7, TellStep
  <2>9. CASE e \in ButtonEvents(w) /\ w \notin Located
    <3>1. e \in OfLane(<<w, "button">>) /\ e.kind = "button"
      BY <2>9 DEF OfLane, ButtonEvents
    <3> QED
      BY <2>8, <2>9, <3>1
  <2>10. CASE e \in KeyEvents(w)
    <3>1. e \in OfLane(<<w, "key">>) /\ e.kind = "key"
      BY <2>10 DEF OfLane, KeyEvents
    <3> QED
      BY <2>8, <3>1
  <2> QED
    BY <2>6, <2>7, <2>9, <2>10 DEF Events
<1> QED
  BY <1>3, <1>4, <1>5

\* A reply lets a handler send what it was to send next: an order that was the
\* next to come becomes the last on the pipe, at the same place of its lane.
LEMMA OnDataStep ==
  ASSUME TypeOK, OnData
  PROVE  UNCHANGED Promise!lvars
<1> DEFINE s == Head(pending)
           q == Tail(pending)
<1>1. /\ socket = "open" /\ pending # <<>> /\ Continue(Tail(s), q)
      /\ UNCHANGED <<socket, down>> /\ socket' = "open"
  BY DEF OnData, source
<1>2. s \in Scripts /\ q \in Seq(Scripts) /\ wire \in Seq(Requests) /\ pending \in Seq(Scripts)
  BY <1>1 DEF TypeOK
<1>3. ToCome = IF s \in Unfinished THEN <<Click(s)>> \o Coming(q) ELSE Coming(q)
  BY <1>1, <1>2, ComingHead, ToComeIs
<1>4. \A l \in Lanes : InLane(wire, l) \in Seq(Requests) /\ InLane(Coming(q), l) \in Seq(Requests)
  BY <1>2, LaneTypes
<1> HIDE DEF s, q
<1>5. CASE s \notin Unfinished
  <2>1. Tail(s) = <<>>
    <3>1. ~(Len(s) > 1) /\ s # <<>> /\ s \in Seq(Requests)
      BY <1>2, <1>5, ScriptShape DEF Unfinished
    <3> QED
      BY <3>1
  <2>2. pending' = q /\ wire' = wire
    BY <1>1, <2>1 DEF Continue
  <2>3. ToCome' = ToCome
    BY <1>3, <1>5, <2>2, ToComeIs DEF Coming
  <2>4. \A l \in Lanes : LaneOf(l)' = LaneOf(l)
    BY <1>1, <2>2, <2>3 DEF LaneOf, InLane
  <2> QED
    BY <1>1, <2>4, SameLanes
<1>6. CASE s \in Unfinished
  <2> DEFINE c == Click(s)
  <2>1. c \in Clicks /\ c \in Requests /\ Tail(s) = <<c>> /\ <<c>> \in Scripts
    <3>1. c \in Clicks /\ Tail(s) = <<c>>
      BY <1>6, ClickOf
    <3>2. c \in Requests
      BY <3>1, ProxyAssumption DEF Clicks, Requests, Orders
    <3> HIDE DEF c
    <3> QED
      BY <3>1, <3>2 DEF Scripts
  <2>2. Coming(q) \in Seq(Clicks)
    BY <1>2, ComingType
  <2> HIDE DEF c
  <2>3. <<c>> \notin Unfinished /\ Head(<<c>>) = c
    <3>1. Len(<<c>>) = 1 /\ Head(<<c>>) = c
      OBVIOUS
    <3> QED
      BY <3>1 DEF Unfinished
  <2>4. ASSUME NEW l \in Lanes PROVE LaneOf(l)' = LaneOf(l)
    <3>1. LaneOf(l)' = (IF c \in OfLane(l) THEN Append(InLane(wire, l), c) ELSE InLane(wire, l))
                       \o InLane(Coming(q), l)
      BY <1>1, <1>2, <2>1, <2>3, LanesGrow
    <3>2. InLane(ToCome, l) = IF c \in OfLane(l) THEN <<c>> \o InLane(Coming(q), l)
                              ELSE InLane(Coming(q), l)
      <4> DEFINE z == <<c>> \o Coming(q)
      <4>1. z \in Seq(Clicks) /\ z # <<>> /\ Head(z) = c /\ Tail(z) = Coming(q)
        BY <2>1, <2>2
      <4>2. ToCome = z
        BY <1>3, <1>6 DEF c
      <4> HIDE DEF z
      <4> QED
        BY <4>1, <4>2, KeptHead DEF InLane
    <3>3. LaneOf(l) = InLane(wire, l) \o InLane(ToCome, l)
      BY <1>1 DEF LaneOf
    <3> DEFINE x == InLane(wire, l)
               y == InLane(Coming(q), l)
    <3>4. x \in Seq(Requests) /\ y \in Seq(Requests)
      BY <1>4
    <3> HIDE DEF x, y
    <3>5. Append(x, c) \o y = x \o (<<c>> \o y)
      BY <2>1, <3>4
    <3>6. CASE c \in OfLane(l)
      BY <3>1, <3>2, <3>3, <3>5, <3>6, Zenon DEF x, y
    <3>7. CASE c \notin OfLane(l)
      BY <3>1, <3>2, <3>3, <3>7, Zenon DEF x, y
    <3> QED
      BY <3>6, <3>7
  <2> QED
    BY <1>1, <2>4, SameLanes
<1> QED
  BY <1>5, <1>6

\* Once a client has asked the agent to let go, its socket is closed.
NoRelease == socket = "open" => \A i \in 1 .. Len(wire) : wire[i].kind # "release"

\* The agent delivers the order at the head of its lane, moves the pointer, or
\* lets go of everything for a client that is gone.
LEMMA ServeStep ==
  ASSUME TypeOK, NoRelease, Serve
  PROVE  Promise!LNext \/ UNCHANGED Promise!lvars
<1> DEFINE r == Head(wire)
<1>1. /\ wire # <<>> /\ wire' = Tail(wire) /\ UNCHANGED <<socket, pending>>
      /\ \/ Obey(r)
         \/ MayRefuse /\ r.kind # "release" /\ UNCHANGED source
  BY DEF Serve
<1>2. /\ wire \in Seq(Requests) /\ Tail(wire) \in Seq(Requests) /\ r \in Requests
      /\ r = wire[1] /\ 1 \in 1 .. Len(wire) /\ pending \in Seq(Scripts)
  BY <1>1 DEF TypeOK
<1>3. \A l \in Lanes : InLane(wire, l) = IF r \in OfLane(l) THEN <<r>> \o InLane(wire', l)
                                         ELSE InLane(wire', l)
  BY <1>1, <1>2, KeptHead DEF InLane
<1>4. \A l \in Lanes : InLane(wire', l) \in Seq(Requests) /\ InLane(ToCome, l) \in Seq(Requests)
  BY <1>1, <1>2, LaneTypes, ToComeIs
<1> DEFINE rest(l) == IF socket = "open" THEN InLane(ToCome, l) ELSE <<>>
<1>5. \A l \in Lanes : /\ LaneOf(l) = InLane(wire, l) \o rest(l)
                       /\ LaneOf(l)' = InLane(wire', l) \o rest(l)
                       /\ rest(l) \in Seq(Requests)
  <2> SUFFICES ASSUME NEW l \in Lanes
               PROVE  /\ LaneOf(l) = InLane(wire, l) \o rest(l)
                      /\ LaneOf(l)' = InLane(wire', l) \o rest(l)
                      /\ rest(l) \in Seq(Requests)
    OBVIOUS
  <2>1. LaneOf(l)' = InLane(wire', l) \o rest(l)
    BY <1>1 DEF LaneOf, InLane, ToCome
  <2>2. rest(l) \in Seq(Requests)
    <3>1. <<>> \in Seq(Requests)
      OBVIOUS
    <3> QED
      BY <1>4, <3>1, Zenon
  <2> QED
    BY <2>1, <2>2 DEF LaneOf
<1> HIDE DEF r, rest
<1>6. CASE r.kind \notin {"button", "key"}
  <2>1. \A l \in Lanes : LaneOf(l)' = LaneOf(l)
    BY <1>3, <1>5, <1>6, NoLane
  <2>2. CASE r.kind = "release"
    <3>1. socket # "open"
      BY <1>2, <2>2 DEF NoRelease
    <3>2. down' = {}
      BY <1>1, <2>2 DEF Obey, Obeyed
    <3>3. \A l \in Lanes : Promise!IsPrefix(LaneOf(l)', LaneOf(l))
      <4>1. \A l \in Lanes : LaneOf(l) \in Seq(Requests)
        <5> SUFFICES ASSUME NEW l \in Lanes PROVE LaneOf(l) \in Seq(Requests)
          OBVIOUS
        <5>1. InLane(wire, l) = InLane(wire', l)
          BY <1>3, <1>6, NoLane
        <5>2. \A x \in Seq(Requests) : \A y \in Seq(Requests) : x \o y \in Seq(Requests)
          OBVIOUS
        <5> QED
          BY <1>4, <1>5, <5>1, <5>2, Zenon
      <4>2. \A x \in Seq(Requests) : Promise!IsPrefix(x, x)
        BY PrefixPointwise
      <4> QED
        BY <2>1, <4>1, <4>2
    <3> QED
      BY <1>1, <3>1, <3>2, <3>3, LetGoStep
  <2>3. CASE r.kind # "release"
    <3>1. down' = down
      BY <1>1, <1>6, <2>3 DEF Obey, Obeyed, source
    <3> QED
      BY <1>1, <2>1, <3>1, SameLanes
  <2> QED
    BY <2>2, <2>3
<1>7. CASE r.kind \in {"button", "key"}
  <2>1. PICK w \in Windows : \E c \in {"button", "key"} : r \in OfLane(<<w, c>>)
    <3>1. PICK w \in Windows : r \in ButtonEvents(w) \/ r \in KeyEvents(w)
      BY <1>2, <1>7, RequestKinds
    <3>2. r \in OfLane(<<w, "button">>) \/ r \in OfLane(<<w, "key">>)
      BY <3>1 DEF OfLane
    <3> QED
      BY <3>2
  <2>2. PICK c \in {"button", "key"} : r \in OfLane(<<w, c>>)
    BY <2>1
  <2> DEFINE k == <<w, c>>
  <2>3. k \in Lanes /\ \A l \in Lanes : r \in OfLane(l) <=> l = k
    BY <2>2, OneLane
  <2> HIDE DEF k
  <2>4. LaneOf(k) = <<r>> \o LaneOf(k)' /\ LaneOf(k)' \in Seq(Requests)
    <3>1. LaneOf(k) = (<<r>> \o InLane(wire', k)) \o rest(k)
      BY <1>3, <1>5, <2>3
    <3>2. LaneOf(k)' = InLane(wire', k) \o rest(k)
      BY <1>5, <2>3
    <3>3. rest(k) \in Seq(Requests) /\ InLane(wire', k) \in Seq(Requests)
      BY <1>4, <1>5, <2>3
    <3> DEFINE x == InLane(wire', k)
               y == rest(k)
    <3> HIDE DEF x, y
    <3>4. (<<r>> \o x) \o y = <<r>> \o (x \o y) /\ x \o y \in Seq(Requests)
      <4>1. x \in Seq(Requests) /\ y \in Seq(Requests)
        BY <3>3 DEF x, y
      <4> QED
        BY <1>2, <4>1
    <3> QED
      BY <3>1, <3>2, <3>4, Zenon DEF x, y
  <2>5. LaneOf(k) # <<>> /\ Head(LaneOf(k)) = r /\ Tail(LaneOf(k)) = LaneOf(k)'
    <3>1. \A x \in Seq(Requests) :
             <<r>> \o x # <<>> /\ Head(<<r>> \o x) = r /\ Tail(<<r>> \o x) = x
      BY <1>2
    <3> QED
      BY <2>4, <3>1, Zenon
  <2>6. \A l \in Lanes : LaneOf(l)' = IF l = k THEN Tail(LaneOf(l)) ELSE LaneOf(l)
    BY <1>3, <1>5, <2>3, <2>5
  <2>7. down' = Promise!Obeyed(r) \/ (MayRefuse /\ down' = down)
    <3>1. CASE Obey(r)
      BY <1>7, <3>1 DEF Obey, Obeyed, Promise!Obeyed
    <3>2. CASE MayRefuse /\ UNCHANGED source
      BY <3>2 DEF source
    <3> QED
      BY <1>1, <3>1, <3>2
  <2> QED
    BY <1>1, <2>3, <2>5, <2>6, <2>7, DeliverStep
<1> QED
  BY <1>6, <1>7

\* The beginning of a lane is a prefix of it, whatever else is still to come.
LEMMA PrefixLonger ==
  ASSUME NEW x \in Seq(Requests), NEW y \in Seq(Requests), NEW z \in Seq(Requests),
         Promise!IsPrefix(x, y)
  PROVE  Promise!IsPrefix(x \o <<>>, y \o z)
<1>1. Len(x) <= Len(y) /\ \A i \in 1 .. Len(x) : x[i] = y[i]
  BY PrefixElements
<1>2. x \o <<>> = x /\ y \o z \in Seq(Requests) /\ Len(x) <= Len(y \o z)
      /\ \A i \in 1 .. Len(x) : x[i] = (y \o z)[i]
  BY <1>1
<1> QED
  BY <1>2, PrefixPointwise

\* What a client that gives up leaves on the pipe is a prefix of every lane.
LEMMA CutStep ==
  ASSUME TypeOK, socket = "open", socket' # "open", down' = down,
         \A l \in Lanes : InLane(wire', l) \in Seq(Requests)
                          /\ Promise!IsPrefix(InLane(wire', l), InLane(wire, l))
  PROVE  Promise!LNext
<1>1. ASSUME NEW l \in Lanes PROVE Promise!IsPrefix(LaneOf(l)', LaneOf(l))
  <2>1. InLane(wire, l) \in Seq(Requests) /\ InLane(ToCome, l) \in Seq(Requests)
    BY LaneTypes, ToComeIs DEF TypeOK
  <2>2. LaneOf(l) = InLane(wire, l) \o InLane(ToCome, l) /\ LaneOf(l)' = InLane(wire', l) \o <<>>
    BY DEF LaneOf, InLane
  <2> QED
    BY <2>1, <2>2, PrefixLonger
<1> QED
  BY <1>1, BreakStep

\* Quitting breaks the connection, with any part of the requests on the pipe.
LEMMA QuitStep ==
  ASSUME TypeOK, Quit
  PROVE  Promise!LNext \/ UNCHANGED Promise!lvars
<1>1. wire \in Seq(Requests) /\ down' = down
  BY DEF TypeOK, Quit, source
<1>2. CASE socket # "open"
  <2>1. UNCHANGED <<wire, socket>>
    BY <1>2 DEF Quit
  <2>2. \A l \in Lanes : LaneOf(l)' = LaneOf(l)
    BY <1>2, <2>1 DEF LaneOf, InLane
  <2> QED
    BY <1>1, <2>1, <2>2, SameLanes
<1>3. CASE socket = "open"
  <2> DEFINE all == Append(wire, ReleaseAll)
  <2>1. ReleaseAll \in Requests /\ ReleaseAll.kind = "release"
    BY DEF Requests, ReleaseAll
  <2>2. all \in Seq(Requests) /\ Len(all) = Len(wire) + 1
    BY <1>1, <2>1
  <2>3. PICK n \in 0 .. Len(all) : wire' = SubSeq(all, 1, n)
    BY <1>3, <2>2 DEF Quit, Written
  <2>4. socket' # "open"
    BY <1>3 DEF Quit
  <2>5. wire' \in Seq(Requests)
    BY <2>2, <2>3
  <2>6. ASSUME NEW l \in Lanes
        PROVE  InLane(wire', l) \in Seq(Requests)
               /\ Promise!IsPrefix(InLane(wire', l), InLane(wire, l))
    <3>1. InLane(all, l) = InLane(wire, l)
      BY <1>1, <2>1, NoLane, KeptAppend DEF InLane
    <3> HIDE DEF all
    <3>2. Promise!IsPrefix(Kept(SubSeq(all, 1, n), OfLane(l)), Kept(all, OfLane(l)))
      BY <2>2, <2>3, KeptPrefix
    <3>3. Promise!IsPrefix(InLane(wire', l), InLane(wire, l))
      BY <2>3, <3>1, <3>2 DEF InLane
    <3>4. InLane(wire', l) \in Seq(Requests)
      <4>1. <<>> \in Seq(Scripts)
        OBVIOUS
      <4> QED
        BY <2>5, <4>1, LaneTypes
    <3> QED
      BY <3>3, <3>4
  <2> QED
    BY <1>1, <1>3, <2>4, <2>6, CutStep
<1> QED
  BY <1>2, <1>3

\* A socket that is lost takes with it what handlers were still to send.
LEMMA SocketDiesStep ==
  ASSUME TypeOK, SocketDies
  PROVE  Promise!LNext
<1>1. socket = "open" /\ socket' # "open" /\ down' = down /\ wire' = wire
  BY DEF SocketDies, source
<1>2. ASSUME NEW l \in Lanes
      PROVE  InLane(wire', l) \in Seq(Requests)
             /\ Promise!IsPrefix(InLane(wire', l), InLane(wire, l))
  <2>1. InLane(wire, l) \in Seq(Requests) /\ InLane(wire', l) = InLane(wire, l)
    BY <1>1, LaneTypes DEF TypeOK, InLane
  <2>2. Promise!IsPrefix(InLane(wire, l), InLane(wire, l))
    BY <2>1, PrefixPointwise
  <2> QED
    BY <2>1, <2>2
<1> QED
  BY <1>1, <1>2, CutStep

\* The session that ends drops what it has not read, and lets go.
LEMMA SessionEndsStep ==
  ASSUME TypeOK, SessionEnds
  PROVE  Promise!LNext
<1>1. socket # "open" /\ socket' # "open" /\ down' = {} /\ wire' = <<>>
  BY DEF SessionEnds
<1>2. ASSUME NEW l \in Lanes PROVE Promise!IsPrefix(LaneOf(l)', LaneOf(l))
  <2>1. InLane(wire, l) \in Seq(Requests)
    BY LaneTypes DEF TypeOK
  <2>2. LaneOf(l)' = <<>> \o <<>> /\ LaneOf(l) = InLane(wire, l) \o <<>>
    BY <1>1, KeptEmpty DEF LaneOf, InLane
  <2>3. \A x \in Seq(Requests) : x \o <<>> = x /\ Len(<<>>) <= Len(x)
    OBVIOUS
  <2>4. <<>> \in Seq(Requests) /\ \A i \in 1 .. Len(<<>>) : FALSE
    OBVIOUS
  <2>5. Promise!IsPrefix(<<>>, InLane(wire, l))
    <3>1. \A x \in Seq(Requests) : Promise!IsPrefix(<<>>, x)
      BY <2>3, <2>4, PrefixPointwise
    <3> QED
      BY <2>1, <3>1
  <2>6. InLane(wire, l) \o <<>> = InLane(wire, l) /\ <<>> \o <<>> = <<>>
    BY <2>1, <2>3, <2>4
  <2> QED
    BY <2>2, <2>5, <2>6
<1> QED
  BY <1>1, <1>2, LetGoStep

\* Asking for the windows is no order and tells nothing.
LEMMA EnumerateStep ==
  ASSUME TypeOK, EnumerateWindows
  PROVE  UNCHANGED Promise!lvars
<1>0. pending \in Seq(Scripts) /\ wire \in Seq(Requests)
  BY DEF TypeOK
<1>1. UNCHANGED <<socket, down>> /\ Continue(<<Enumerate>>, pending)
  BY DEF EnumerateWindows, source
<1>2. CASE socket # "open"
  <2>1. UNCHANGED wire
    BY <1>1, <1>2 DEF Continue, Written
  <2>2. \A l \in Lanes : LaneOf(l)' = LaneOf(l)
    BY <1>1, <1>2, <2>1 DEF LaneOf, InLane
  <2> QED
    BY <1>1, <2>2, SameLanes
<1>3. CASE socket = "open"
  <2>1. <<Enumerate>> \in Scripts /\ Enumerate.kind = "enumerate"
    BY DEF Scripts, Requests, Enumerate
  <2>2. Head(<<Enumerate>>) = Enumerate /\ Len(<<Enumerate>>) = 1
    OBVIOUS
  <2>3. <<Enumerate>> \notin Unfinished /\ \A l \in Lanes : Enumerate \notin OfLane(l)
    BY <2>1, <2>2, NoLane DEF Unfinished
  <2> DEFINE s == <<Enumerate>>
  <2> HIDE DEF s
  <2>4. s \in Scripts /\ s \notin Unfinished /\ \A l \in Lanes : Head(s) \notin OfLane(l)
    BY <2>1, <2>2, <2>3 DEF s
  <2>5. Continue(s, pending) /\ socket' = "open"
    BY <1>1, <1>3 DEF s
  <2>6. \A l \in Lanes : LaneOf(l)' = InLane(wire, l) \o InLane(Coming(pending), l)
    BY <1>0, <1>3, <2>4, <2>5, LanesGrow
  <2>7. \A l \in Lanes : LaneOf(l)' = LaneOf(l)
    BY <1>3, <2>6, ToComeIs DEF LaneOf
  <2> QED
    BY <1>1, <2>7, SameLanes
<1> QED
  BY <1>2, <1>3

\* Steps that touch neither an open connection nor the source.
LEMMA QuietStep ==
  ASSUME \/ UNCHANGED <<wire, down, socket, pending>>
         \/ UNCHANGED <<wire, down>> /\ socket # "open" /\ socket' # "open"
  PROVE  UNCHANGED Promise!lvars
<1>1. \A l \in Lanes : LaneOf(l)' = LaneOf(l)
  BY DEF LaneOf, InLane, ToCome
<1> QED
  BY <1>1, SameLanes

\* A handler that goes on with anything but release_all.
LEMMA ContinueNoRelease ==
  ASSUME NoRelease, wire \in Seq(Requests), socket' = socket, NEW q, NEW s \in Scripts \cup {<<>>},
         s # <<>> => Head(s).kind # "release", Continue(s, q)
  PROVE  NoRelease'
<1>1. CASE s = <<>>
  BY <1>1 DEF Continue, NoRelease
<1>2. CASE s # <<>> /\ socket = "open"
  <2>1. wire' = Append(wire, Head(s))
    BY <1>2 DEF Continue, Written
  <2>2. ASSUME NEW i \in 1 .. Len(wire) + 1 PROVE wire'[i].kind # "release"
    BY <1>2, <2>1 DEF NoRelease
  <2>3. Len(wire') = Len(wire) + 1
    BY <2>1
  <2> QED
    BY <2>2, <2>3 DEF NoRelease
<1>3. CASE socket # "open"
  BY <1>3 DEF NoRelease
<1> QED
  BY <1>1, <1>2, <1>3

\* No handler of a proxy's event asks the agent to let go.
LEMMA ScriptNoRelease ==
  ASSUME NEW w \in Windows, NEW e \in Events(w), Script(e) # <<>>
  PROVE  Head(Script(e)).kind # "release"
<1>1. e.kind \in {"move", "button", "key"}
  BY DEF Events, Moves, ButtonEvents, KeyEvents
<1>2. Script(e) = <<MoveTo(e.at)>> \/ Script(e) = <<MoveTo(e.at), e>> \/ (Script(e) = <<e>> /\ e.kind # "move")
  BY <1>1 DEF Script
<1>3. Head(Script(e)) = MoveTo(e.at) \/ Head(Script(e)) = e
  BY <1>2
<1> QED
  BY <1>1, <1>3 DEF MoveTo

\* NoRelease is inductive.
LEMMA StepNoRelease == TypeOK /\ NoRelease /\ [Next]_vars => NoRelease'
<1> SUFFICES ASSUME TypeOK, NoRelease, [Next]_vars PROVE NoRelease'
  OBVIOUS
<1>0. pending \in Seq(Scripts) /\ wire \in Seq(Requests)
  BY DEF TypeOK
<1>1. ASSUME NEW w \in Windows, HandleProxyInput(w) PROVE NoRelease'
  <2>1. PICK e \in Events(w) : Continue(Script(e), pending)
    BY <1>1 DEF HandleProxyInput
  <2>2. socket' = socket
    BY <1>1 DEF HandleProxyInput
  <2> QED
    BY <1>0, <2>1, <2>2, ScriptType, ScriptNoRelease, ContinueNoRelease
<1>2. CASE OnData
  <2> DEFINE s == Head(pending)
  <2>1. s \in Scripts /\ Continue(Tail(s), Tail(pending)) /\ socket' = socket
    BY <1>0, <1>2 DEF OnData
  <2> HIDE DEF s
  <2>2. Tail(s) \in Scripts \cup {<<>>}
    BY <2>1, ScriptShape
  <2>3. ASSUME Tail(s) # <<>> PROVE Head(Tail(s)).kind # "release"
    <3>1. s # <<>> /\ s \in Seq(Requests)
      BY <2>1, ScriptShape
    <3>2. Len(s) > 1
      BY <2>3, <3>1
    <3>3. Click(s) \in Clicks
      BY <2>1, <3>2, ClickOf DEF Unfinished
    <3>4. \A c \in Clicks : c.kind = "button"
      BY DEF Clicks, ButtonEvents
    <3>5. Click(s).kind = "button"
      BY <3>3, <3>4
    <3> QED
      BY <3>5 DEF Click
  <2> QED
    BY <1>0, <2>1, <2>2, <2>3, ContinueNoRelease
<1>3. CASE EnumerateWindows
  <2>1. <<Enumerate>> \in Scripts /\ Head(<<Enumerate>>).kind # "release"
    BY DEF Scripts, Requests, Enumerate
  <2> QED
    BY <1>0, <1>3, <2>1, ContinueNoRelease DEF EnumerateWindows
<1>4. CASE Serve
  <2>1. socket' = socket /\ wire' = Tail(wire) /\ wire # <<>>
    BY <1>4 DEF Serve
  <2>2. Len(wire') = Len(wire) - 1 /\ \A i \in 1 .. Len(wire) - 1 : wire'[i] = wire[i + 1]
    BY <1>0, <2>1
  <2> QED
    BY <1>0, <2>1, <2>2 DEF NoRelease
<1>5. CASE Quit
  BY <1>5 DEF Quit, NoRelease
<1>6. CASE SocketDies \/ SessionEnds \/ FailAllPending
  BY <1>6 DEF SocketDies, SessionEnds, FailAllPending, NoRelease
<1>7. ASSUME AgentKilled \/ (\E w \in Windows : ProxyGone(w)) \/ UNCHANGED vars PROVE NoRelease'
  BY <1>7 DEF AgentKilled, ProxyGone, vars, NoRelease
<1> QED
  BY <1>1, <1>2, <1>3, <1>4, <1>5, <1>6, <1>7 DEF Next, Client, Agent

\* Every step of the client and the agent is one of the lanes, or none.
LEMMA LanesStep ==
  ASSUME TypeOK, NoRelease, [Next]_vars
  PROVE  [Promise!LNext]_(Promise!lvars)
<1>1. ASSUME NEW w \in Windows, HandleProxyInput(w) PROVE [Promise!LNext]_(Promise!lvars)
  BY <1>1, HandleStep
<1>2. CASE OnData
  BY <1>2, OnDataStep
<1>3. CASE Serve
  BY <1>3, ServeStep
<1>4. CASE Quit
  BY <1>4, QuitStep
<1>5. CASE SocketDies
  BY <1>5, SocketDiesStep
<1>6. CASE SessionEnds
  BY <1>6, SessionEndsStep
<1>7. CASE EnumerateWindows
  BY <1>7, EnumerateStep
<1>8. CASE FailAllPending
  <2>1. UNCHANGED <<wire, down>> /\ socket # "open" /\ socket' # "open"
    BY <1>8 DEF FailAllPending, source
  <2> QED
    BY <2>1, QuietStep
<1>9. ASSUME AgentKilled \/ (\E w \in Windows : ProxyGone(w)) \/ UNCHANGED vars
      PROVE  [Promise!LNext]_(Promise!lvars)
  <2>1. UNCHANGED <<wire, down, socket, pending>>
    BY <1>9 DEF AgentKilled, ProxyGone, vars, source
  <2> QED
    BY <2>1, QuietStep
<1> QED
  BY <1>1, <1>2, <1>3, <1>4, <1>5, <1>6, <1>7, <1>8, <1>9 DEF Next, Client, Agent

\* In the beginning nothing is told in any lane.
LEMMA LanesInit == Init => Promise!LInit
<1> SUFFICES ASSUME Init PROVE Promise!LInit
  OBVIOUS
<1>1. wire = <<>> /\ ToCome = <<>> /\ down = {}
  BY ComingEmpty, ToComeIs DEF Init
<1>2. \A l \in Lanes : InLane(wire, l) = <<>> /\ InLane(ToCome, l) = <<>>
  BY <1>1, KeptEmpty DEF InLane
<1>3. \A l \in Lanes : InLane(wire, l) \o (IF socket = "open" THEN InLane(ToCome, l) ELSE <<>>) = <<>>
  <2>1. <<>> \o <<>> = <<>>
    OBVIOUS
  <2> QED
    BY <1>2, <2>1, Zenon
<1> QED
  BY <1>1, <1>3 DEF Promise!LInit

\* Overlapping handlers, a FIFO of resolvers, lost sockets and a quitting app
\* deliver each window's buttons and each window's keys in the order in which
\* main handled them, each once (main/main.ts:138-171,
\* main/agent-client.ts:60-88).  This is ImplementsLanes without its fairness.
THEOREM LanesImplemented == Spec => Promise!LInit /\ [][Promise!LNext]_(Promise!lvars)
<1>1. Init => NoRelease
  BY DEF Init, NoRelease
<1>2. TypeOK /\ NoRelease /\ [Next]_vars => [Promise!LNext]_(Promise!lvars)
  BY LanesStep
<1> QED
  BY <1>1, <1>2, LanesInit, StepNoRelease, TypeCorrect, PTL DEF Spec

=============================================================================
