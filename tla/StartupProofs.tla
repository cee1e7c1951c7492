---------------------------- MODULE StartupProofs ----------------------------
(***************************************************************************)
(* Proofs about rulesets in shared memory, from Ruleset.new to the last    *)
(* delete: for any documents, in any order of their tables, for any number *)
(* of helpers, workers and requests, whoever dies and however often, the   *)
(* pointers between the elements lead somewhere, a worker learns only of   *)
(* rulesets that are complete, and a manager that has destroyed what it    *)
(* had to has left nothing.                                                *)
(*                                                                         *)
(* First what Ruleset.new calls for (RulesetNew), by induction over the    *)
(* things of a document; then what the calls leave in memory, the order in *)
(* which a ruleset is destroyed, and the steps of Startup.                 *)
(***************************************************************************)
EXTENDS Startup, FiniteSetTheorems, SequenceTheorems, NaturalsInduction, WellFoundedInduction, TLAPS

-----------------------------------------------------------------------------
(* Induction over indexes, and folds as recursive functions.               *)

\* A set of numbers has a least one.
LEMMA SmallestNat ==
  ASSUME NEW T, T \subseteq Nat, T # {}
  PROVE  \E x \in T : \A y \in T : x <= y
<1> DEFINE R == OpToRel(<, Nat)
<1>1. IsWellFoundedOn(R, Nat)
  BY NatLessThanWellFounded
<1> HIDE DEF R
<1>2. PICK x \in T : \A y \in T : ~(<<y, x>> \in R)
  BY <1>1, WFMin
<1>3. \A y \in T : y < x => <<y, x>> \in R
  BY DEF R, OpToRel
<1>4. \A y \in T : y \in Nat /\ ~(y < x)
  BY <1>2, <1>3
<1>5. x \in Nat
  OBVIOUS
<1> QED
  BY <1>4, <1>5

\* Induction up to n, over a set of numbers.
LEMMA UpTo ==
  ASSUME NEW n \in Nat, NEW J, 0 \in J, \A i \in 1 .. n : i - 1 \in J => i \in J
  PROVE  0 .. n \subseteq J
<1> DEFINE Bad == (0 .. n) \ J
<1> SUFFICES ASSUME Bad # {} PROVE FALSE
  OBVIOUS
<1>1. PICK m \in Bad : \A k \in Bad : m <= k
  <2>1. Bad \subseteq Nat
    OBVIOUS
  <2> HIDE DEF Bad
  <2> QED BY <2>1, SmallestNat
<1>2. m \in 1 .. n /\ m - 1 \in 0 .. n
  OBVIOUS
<1>3. m - 1 \notin Bad
  BY <1>1, <1>2
<1> QED BY <1>2, <1>3

\* The greatest number of a set that has its upper bound.
LEMMA MaxTop ==
  ASSUME NEW m \in Nat, NEW S \in SUBSET (1 .. m), m \in S
  PROVE  Max(S) = m
<1>1. \A y \in S : m >= y /\ y \in Nat
  OBVIOUS
<1>2. \A x \in S : (\A y \in S : x >= y) => x = m
  BY <1>1
<1>3. Max(S) \in S /\ \A y \in S : Max(S) >= y
  BY <1>1 DEF Max
<1> QED BY <1>2, <1>3

\* The entries of a list, one by one: what the fold has after i of them.
LEMMA FoldListEntries ==
  ASSUME NEW st, NEW s, NEW tables, Len(s) \in Nat, DOMAIN s = 1 .. Len(s)
  PROVE  \E f : /\ f[0] = [st |-> st, names |-> <<>>]
                /\ \A i \in 1 .. Len(s) : f[i] = ListEntry(tables, f[i - 1], s[i])
                /\ ListEntries(tables, st, s) = f[Len(s)]
<1> DEFINE n == Len(s)
           base == [st |-> st, names |-> <<>>]
           op(a, e) == ListEntry(tables, a, e)
           Rec(h, m) == h = [S \in SUBSET (1 .. m) |->
                               IF S = {} THEN base ELSE op(h[S \ {Max(S)}], s[Max(S)])]
           J == {m \in 0 .. n : \E h : Rec(h, m)}
           iter == CHOOSE h : Rec(h, n)
<1>1. ListEntries(tables, st, s) = iter[1 .. n]
  BY DEF ListEntries, FoldLeft, MapThenFoldSet
<1> HIDE DEF op, base
<1>2. 0 \in J
  <2> DEFINE h == [S \in SUBSET (1 .. 0) |-> base]
  <2>1. \A S \in SUBSET (1 .. 0) : S = {}
    OBVIOUS
  <2>2. Rec(h, 0)
    BY <2>1
  <2> QED BY <2>2
<1>3. ASSUME NEW m \in 1 .. n, m - 1 \in J PROVE m \in J
  <2>1. PICK h : Rec(h, m - 1)
    BY <1>3
  <2> DEFINE g == [S \in SUBSET (1 .. m) |-> IF m \in S THEN op(h[S \ {m}], s[m]) ELSE h[S]]
  <2>2. ASSUME NEW S \in SUBSET (1 .. m)
        PROVE  g[S] = IF S = {} THEN base ELSE op(g[S \ {Max(S)}], s[Max(S)])
    <3>1. CASE m \in S
      <4>1. Max(S) = m
        BY <3>1, MaxTop
      <4>2. S \ {m} \in SUBSET (1 .. m) /\ m \notin S \ {m}
        OBVIOUS
      <4> QED BY <3>1, <4>1, <4>2
    <3>2. CASE m \notin S
      <4>0. \A x \in S : x \in 1 .. (m - 1)
        BY <3>2
      <4>1. /\ S \in SUBSET (1 .. (m - 1))
            /\ \A x : S \ {x} \in SUBSET (1 .. (m - 1)) /\ S \ {x} \in SUBSET (1 .. m) /\ m \notin S \ {x}
        BY <3>2, <4>0
      <4>2. h[S] = IF S = {} THEN base ELSE op(h[S \ {Max(S)}], s[Max(S)])
        BY <2>1, <4>1
      <4> QED BY <3>2, <4>1, <4>2
    <3> QED BY <3>1, <3>2
  <2>3. g = [S \in SUBSET (1 .. m) |-> g[S]]
    OBVIOUS
  <2> HIDE DEF g
  <2>4. Rec(g, m)
    BY <2>2, <2>3
  <2>5. m \in 0 .. n
    OBVIOUS
  <2> HIDE DEF Rec, n
  <2> QED BY <2>4, <2>5
<1>4. n \in J
  <2> HIDE DEF J
  <2>1. n \in Nat /\ n \in 0 .. n
    OBVIOUS
  <2> HIDE DEF n
  <2>2. 0 .. n \subseteq J
    BY <1>2, <1>3, <2>1, UpTo
  <2> QED BY <2>1, <2>2
<1>5. Rec(iter, n)
  BY <1>4
<1> HIDE DEF iter
<1> DEFINE f == [i \in 0 .. n |-> iter[1 .. i]]
<1>6. f[0] = base
  BY <1>5
<1>7. ASSUME NEW i \in 1 .. n PROVE f[i] = op(f[i - 1], s[i])
  <2>1. Max(1 .. i) = i /\ (1 .. i) \ {i} = 1 .. (i - 1) /\ 1 .. i # {} /\ 1 .. i \in SUBSET (1 .. n)
    BY MaxTop
  <2>2. iter[1 .. i] = op(iter[1 .. (i - 1)], s[i])
    BY <1>5, <2>1
  <2> QED BY <2>2
<1>8. f[n] = iter[1 .. n]
  OBVIOUS
<1> HIDE DEF f, n
<1>9. /\ f[0] = base /\ \A i \in 1 .. n : f[i] = op(f[i - 1], s[i])
      /\ ListEntries(tables, st, s) = f[n]
  BY <1>1, <1>6, <1>7, <1>8
<1> QED BY <1>9 DEF op, n, base

\* The same of the lists of a phase.
LEMMA FoldPhaseEntries ==
  ASSUME NEW st, NEW s, NEW tables, Len(s) \in Nat, DOMAIN s = 1 .. Len(s)
  PROVE  \E f : /\ f[0] = [st |-> st, names |-> <<>>]
                /\ \A i \in 1 .. Len(s) : f[i] = PhaseEntry(tables, f[i - 1], s[i])
                /\ PhaseEntries(tables, st, s) = f[Len(s)]
<1> DEFINE n == Len(s)
           base == [st |-> st, names |-> <<>>]
           op(a, e) == PhaseEntry(tables, a, e)
           Rec(h, m) == h = [S \in SUBSET (1 .. m) |->
                               IF S = {} THEN base ELSE op(h[S \ {Max(S)}], s[Max(S)])]
           J == {m \in 0 .. n : \E h : Rec(h, m)}
           iter == CHOOSE h : Rec(h, n)
<1>1. PhaseEntries(tables, st, s) = iter[1 .. n]
  BY DEF PhaseEntries, FoldLeft, MapThenFoldSet
<1> HIDE DEF op, base
<1>2. 0 \in J
  <2> DEFINE h == [S \in SUBSET (1 .. 0) |-> base]
  <2>1. \A S \in SUBSET (1 .. 0) : S = {}
    OBVIOUS
  <2>2. Rec(h, 0)
    BY <2>1
  <2> QED BY <2>2
<1>3. ASSUME NEW m \in 1 .. n, m - 1 \in J PROVE m \in J
  <2>1. PICK h : Rec(h, m - 1)
    BY <1>3
  <2> DEFINE g == [S \in SUBSET (1 .. m) |-> IF m \in S THEN op(h[S \ {m}], s[m]) ELSE h[S]]
  <2>2. ASSUME NEW S \in SUBSET (1 .. m)
        PROVE  g[S] = IF S = {} THEN base ELSE op(g[S \ {Max(S)}], s[Max(S)])
    <3>1. CASE m \in S
      <4>1. Max(S) = m
        BY <3>1, MaxTop
      <4>2. S \ {m} \in SUBSET (1 .. m) /\ m \notin S \ {m}
        OBVIOUS
      <4> QED BY <3>1, <4>1, <4>2
    <3>2. CASE m \notin S
      <4>0. \A x \in S : x \in 1 .. (m - 1)
        BY <3>2
      <4>1. /\ S \in SUBSET (1 .. (m - 1))
            /\ \A x : S \ {x} \in SUBSET (1 .. (m - 1)) /\ S \ {x} \in SUBSET (1 .. m) /\ m \notin S \ {x}
        BY <3>2, <4>0
      <4>2. h[S] = IF S = {} THEN base ELSE op(h[S \ {Max(S)}], s[Max(S)])
        BY <2>1, <4>1
      <4> QED BY <3>2, <4>1, <4>2
    <3> QED BY <3>1, <3>2
  <2>3. g = [S \in SUBSET (1 .. m) |-> g[S]]
    OBVIOUS
  <2> HIDE DEF g
  <2>4. Rec(g, m)
    BY <2>2, <2>3
  <2>5. m \in 0 .. n
    OBVIOUS
  <2> HIDE DEF Rec, n
  <2> QED BY <2>4, <2>5
<1>4. n \in J
  <2> HIDE DEF J
  <2>1. n \in Nat /\ n \in 0 .. n
    OBVIOUS
  <2> HIDE DEF n
  <2>2. 0 .. n \subseteq J
    BY <1>2, <1>3, <2>1, UpTo
  <2> QED BY <2>1, <2>2
<1>5. Rec(iter, n)
  BY <1>4
<1> HIDE DEF iter
<1> DEFINE f == [i \in 0 .. n |-> iter[1 .. i]]
<1>6. f[0] = base
  BY <1>5
<1>7. ASSUME NEW i \in 1 .. n PROVE f[i] = op(f[i - 1], s[i])
  <2>1. Max(1 .. i) = i /\ (1 .. i) \ {i} = 1 .. (i - 1) /\ 1 .. i # {} /\ 1 .. i \in SUBSET (1 .. n)
    BY MaxTop
  <2>2. iter[1 .. i] = op(iter[1 .. (i - 1)], s[i])
    BY <1>5, <2>1
  <2> QED BY <2>2
<1>8. f[n] = iter[1 .. n]
  OBVIOUS
<1> HIDE DEF f, n
<1>9. /\ f[0] = base /\ \A i \in 1 .. n : f[i] = op(f[i - 1], s[i])
      /\ PhaseEntries(tables, st, s) = f[n]
  BY <1>1, <1>6, <1>7, <1>8
<1> QED BY <1>9 DEF op, n, base

\* And of the things of a document.
LEMMA FoldThings ==
  ASSUME NEW base, NEW s, NEW doc, NEW tables, Len(s) \in Nat, DOMAIN s = 1 .. Len(s)
  PROVE  \E f : /\ f[0] = base
                /\ \A i \in 1 .. Len(s) : f[i] = AddThing(doc, tables, f[i - 1], s[i][1], s[i][2])
                /\ AddThings(doc, tables, base, s) = f[Len(s)]
<1> DEFINE n == Len(s)
           op(a, e) == AddThing(doc, tables, a, e[1], e[2])
           Rec(h, m) == h = [S \in SUBSET (1 .. m) |->
                               IF S = {} THEN base ELSE op(h[S \ {Max(S)}], s[Max(S)])]
           J == {m \in 0 .. n : \E h : Rec(h, m)}
           iter == CHOOSE h : Rec(h, n)
<1>1. AddThings(doc, tables, base, s) = iter[1 .. n]
  BY DEF AddThings, FoldLeft, MapThenFoldSet
<1> HIDE DEF op
<1>2. 0 \in J
  <2> DEFINE h == [S \in SUBSET (1 .. 0) |-> base]
  <2>1. \A S \in SUBSET (1 .. 0) : S = {}
    OBVIOUS
  <2>2. Rec(h, 0)
    BY <2>1
  <2> QED BY <2>2
<1>3. ASSUME NEW m \in 1 .. n, m - 1 \in J PROVE m \in J
  <2>1. PICK h : Rec(h, m - 1)
    BY <1>3
  <2> DEFINE g == [S \in SUBSET (1 .. m) |-> IF m \in S THEN op(h[S \ {m}], s[m]) ELSE h[S]]
  <2>2. ASSUME NEW S \in SUBSET (1 .. m)
        PROVE  g[S] = IF S = {} THEN base ELSE op(g[S \ {Max(S)}], s[Max(S)])
    <3>1. CASE m \in S
      <4>1. Max(S) = m
        BY <3>1, MaxTop
      <4>2. S \ {m} \in SUBSET (1 .. m) /\ m \notin S \ {m}
        OBVIOUS
      <4> QED BY <3>1, <4>1, <4>2
    <3>2. CASE m \notin S
      <4>0. \A x \in S : x \in 1 .. (m - 1)
        BY <3>2
      <4>1. /\ S \in SUBSET (1 .. (m - 1))
            /\ \A x : S \ {x} \in SUBSET (1 .. (m - 1)) /\ S \ {x} \in SUBSET (1 .. m) /\ m \notin S \ {x}
        BY <3>2, <4>0
      <4>2. h[S] = IF S = {} THEN base ELSE op(h[S \ {Max(S)}], s[Max(S)])
        BY <2>1, <4>1
      <4> QED BY <3>2, <4>1, <4>2
    <3> QED BY <3>1, <3>2
  <2>3. g = [S \in SUBSET (1 .. m) |-> g[S]]
    OBVIOUS
  <2> HIDE DEF g
  <2>4. Rec(g, m)
    BY <2>2, <2>3
  <2>5. m \in 0 .. n
    OBVIOUS
  <2> HIDE DEF Rec, n
  <2> QED BY <2>4, <2>5
<1>4. n \in J
  <2> HIDE DEF J
  <2>1. n \in Nat /\ n \in 0 .. n
    OBVIOUS
  <2> HIDE DEF n
  <2>2. 0 .. n \subseteq J
    BY <1>2, <1>3, <2>1, UpTo
  <2> QED BY <2>1, <2>2
<1>5. Rec(iter, n)
  BY <1>4
<1> HIDE DEF iter
<1> DEFINE f == [i \in 0 .. n |-> iter[1 .. i]]
<1>6. f[0] = base
  BY <1>5
<1>7. ASSUME NEW i \in 1 .. n PROVE f[i] = op(f[i - 1], s[i])
  <2>1. Max(1 .. i) = i /\ (1 .. i) \ {i} = 1 .. (i - 1) /\ 1 .. i # {} /\ 1 .. i \in SUBSET (1 .. n)
    BY MaxTop
  <2>2. iter[1 .. i] = op(iter[1 .. (i - 1)], s[i])
    BY <1>5, <2>1
  <2> QED BY <2>2
<1>8. f[n] = iter[1 .. n]
  OBVIOUS
<1> HIDE DEF f, n
<1>9. /\ f[0] = base /\ \A i \in 1 .. n : f[i] = op(f[i - 1], s[i])
      /\ AddThings(doc, tables, base, s) = f[n]
  BY <1>1, <1>6, <1>7, <1>8
<1> QED BY <1>9 DEF op, n
-----------------------------------------------------------------------------
(* Sequences of anything.                                                  *)

\* An array is a sequence of its own elements.
LEMMA ArrayFacts ==
  ASSUME NEW s, Array(s)
  PROVE  Len(s) \in Nat /\ DOMAIN s = 1 .. Len(s) /\ s = [i \in 1 .. Len(s) |-> s[i]]
BY LenProperties DEF Array

LEMMA ArrayOf ==
  ASSUME NEW S, NEW s \in Seq(S)
  PROVE  Array(s)
BY SeqOfRange DEF Array

LEMMA ArrayIs ==
  ASSUME NEW n \in Nat, NEW s, DOMAIN s = 1 .. n, s = [i \in 1 .. n |-> s[i]]
  PROVE  Array(s) /\ Len(s) = n
<1> DEFINE S == {s[i] : i \in 1 .. n}
<1>1. s \in [1 .. n -> S]
  OBVIOUS
<1> HIDE DEF S
<1>2. s \in Seq(S)
  BY <1>1
<1>3. Len(s) = n
  BY <1>1
<1> QED BY <1>2, <1>3, ArrayOf

\* Two arrays, one after the other.
LEMMA Joined ==
  ASSUME NEW s, NEW t, Array(s), Array(t)
  PROVE  /\ Array(s \o t) /\ Len(s \o t) = Len(s) + Len(t)
         /\ \A i \in 1 .. Len(s) : (s \o t)[i] = s[i]
         /\ \A i \in 1 .. Len(t) : (s \o t)[Len(s) + i] = t[i]
         /\ ToSet(s \o t) = ToSet(s) \cup ToSet(t)
<1> DEFINE S == Range(s) \cup Range(t)
<1>1. s \in Seq(S) /\ t \in Seq(S)
  BY SeqMonotonic DEF Array
<1> HIDE DEF S
<1>2. /\ s \o t \in Seq(S) /\ Len(s \o t) = Len(s) + Len(t)
      /\ \A i \in 1 .. Len(s) + Len(t) : (s \o t)[i] = IF i <= Len(s) THEN s[i] ELSE t[i - Len(s)]
  BY <1>1, ConcatProperties
<1>3. Len(s) \in Nat /\ Len(t) \in Nat
  BY ArrayFacts
<1>4. \A i \in 1 .. Len(s) : (s \o t)[i] = s[i]
  BY <1>2, <1>3
<1>5. ASSUME NEW i \in 1 .. Len(t) PROVE (s \o t)[Len(s) + i] = t[i]
  <2>1. Len(s) + i \in 1 .. Len(s) + Len(t) /\ ~(Len(s) + i <= Len(s)) /\ Len(s) + i - Len(s) = i
    BY <1>3
  <2> QED BY <1>2, <2>1
<1>6. Range(s \o t) = Range(s) \cup Range(t)
  BY <1>1, RangeConcatenation
<1> QED BY <1>2, <1>4, <1>5, <1>6, ArrayOf DEF ToSet, Range

LEMMA JoinedTwice ==
  ASSUME NEW s, NEW t, NEW u, Array(s), Array(t), Array(u)
  PROVE  (s \o t) \o u = s \o (t \o u)
<1> DEFINE S == Range(s) \cup Range(t) \cup Range(u)
<1>1. s \in Seq(S) /\ t \in Seq(S) /\ u \in Seq(S)
  BY SeqMonotonic DEF Array
<1> HIDE DEF S
<1> QED BY <1>1, ConcatAssociative

LEMMA Appended ==
  ASSUME NEW s, NEW e, Array(s)
  PROVE  /\ Array(Append(s, e)) /\ Len(Append(s, e)) = Len(s) + 1
         /\ \A i \in 1 .. Len(s) : Append(s, e)[i] = s[i]
         /\ Append(s, e)[Len(s) + 1] = e
         /\ ToSet(Append(s, e)) = ToSet(s) \cup {e}
<1> DEFINE S == Range(s) \cup {e}
<1>1. s \in Seq(S) /\ e \in S
  BY SeqMonotonic DEF Array
<1> HIDE DEF S
<1>2. /\ Append(s, e) \in Seq(S) /\ Len(Append(s, e)) = Len(s) + 1
      /\ \A i \in 1 .. Len(s) : Append(s, e)[i] = s[i]
      /\ Append(s, e)[Len(s) + 1] = e
  BY <1>1, AppendProperties
<1>3. DOMAIN Append(s, e) = 1 .. Len(s) + 1 /\ DOMAIN s = 1 .. Len(s) /\ Len(s) \in Nat
  BY <1>1, <1>2, LenProperties
<1>4. ToSet(Append(s, e)) = ToSet(s) \cup {e}
  <2>1. \A i \in 1 .. Len(s) + 1 : i \in 1 .. Len(s) \/ i = Len(s) + 1
    BY <1>3
  <2>2. \A i \in 1 .. Len(s) : i \in 1 .. Len(s) + 1
    BY <1>3
  <2> QED BY <1>2, <1>3, <2>1, <2>2 DEF ToSet
<1> QED BY <1>2, <1>4, ArrayOf

LEMMA SingleArray ==
  ASSUME NEW e
  PROVE  Array(<<e>>) /\ Len(<<e>>) = 1 /\ <<e>>[1] = e /\ DOMAIN <<e>> = 1 .. 1
<1>1. <<e>> \in Seq({e})
  OBVIOUS
<1>2. Len(<<e>>) = 1 /\ <<e>>[1] = e
  OBVIOUS
<1>3. DOMAIN <<e>> = 1 .. Len(<<e>>)
  BY <1>1, LenProperties
<1> QED BY <1>1, <1>2, <1>3, ArrayOf

(* The concatenation of sequences has what they have.                      *)
LEMMA Flattens ==
  ASSUME NEW ss, Array(ss), Len(ss) # 0
  PROVE  \E f : /\ f[1] = ss[1]
                /\ \A i \in 2 .. Len(ss) : f[i] = f[i - 1] \o ss[i]
                /\ FlattenSeq(ss) = f[Len(ss)]
<1> DEFINE n == Len(ss)
           Rec(h, m) == h = [i \in 1 .. m |-> IF i = 1 THEN ss[i] ELSE h[i - 1] \o ss[i]]
           J == {m \in 0 .. n : \E h : Rec(h, m)}
           flat == CHOOSE h : Rec(h, n)
<1>0. n \in Nat \ {0}
  BY ArrayFacts
<1>1. FlattenSeq(ss) = flat[n]
  BY <1>0 DEF FlattenSeq
<1> HIDE DEF n
<1>2. 0 \in J
  <2> DEFINE h == [i \in 1 .. 0 |-> 0]
  <2>1. 1 .. 0 = {} /\ 0 \in 0 .. n
    BY <1>0
  <2>2. Rec(h, 0)
    BY <2>1
  <2> HIDE DEF Rec, h
  <2> QED BY <2>1, <2>2
<1>3. ASSUME NEW m \in 1 .. n, m - 1 \in J PROVE m \in J
  <2>1. PICK h : Rec(h, m - 1)
    BY <1>3
  <2> DEFINE g == [i \in 1 .. m |-> IF i = m THEN (IF m = 1 THEN ss[m] ELSE h[m - 1] \o ss[m]) ELSE h[i]]
  <2>2. ASSUME NEW i \in 1 .. m
        PROVE  g[i] = IF i = 1 THEN ss[i] ELSE g[i - 1] \o ss[i]
    <3>1. CASE i = m
      <4>1. i # 1 => i - 1 \in 1 .. m /\ i - 1 # m
        BY <3>1, <1>0
      <4> QED BY <3>1, <4>1
    <3>2. CASE i # m
      <4>1. i \in 1 .. (m - 1) /\ (i # 1 => i - 1 \in 1 .. m /\ i - 1 # m)
        BY <3>2, <1>0
      <4>2. h[i] = IF i = 1 THEN ss[i] ELSE h[i - 1] \o ss[i]
        BY <2>1, <4>1
      <4> QED BY <3>2, <4>1, <4>2
    <3> QED BY <3>1, <3>2
  <2>3. g = [i \in 1 .. m |-> g[i]]
    OBVIOUS
  <2> HIDE DEF g
  <2>4. Rec(g, m)
    BY <2>2, <2>3
  <2>5. m \in 0 .. n
    BY <1>0
  <2> HIDE DEF Rec
  <2> QED BY <2>4, <2>5
<1>4. n \in J
  <2> HIDE DEF J
  <2>1. n \in 0 .. n
    BY <1>0
  <2>2. 0 .. n \subseteq J
    BY <1>0, <1>2, <1>3, UpTo
  <2> QED BY <2>1, <2>2
<1>5. Rec(flat, n)
  BY <1>4
<1> HIDE DEF flat
<1>6. \A i \in 1 .. n : flat[i] = IF i = 1 THEN ss[i] ELSE flat[i - 1] \o ss[i]
  BY <1>5
<1>7. 1 \in 1 .. n /\ \A i \in 2 .. n : i \in 1 .. n /\ i # 1
  BY <1>0
<1>8. flat[1] = ss[1] /\ \A i \in 2 .. n : flat[i] = flat[i - 1] \o ss[i]
  BY <1>6, <1>7
<1> QED BY <1>1, <1>8 DEF n

\* All arrays of an array, one after the other.
LEMMA Flat ==
  ASSUME NEW ss, Array(ss), \A i \in DOMAIN ss : Array(ss[i])
  PROVE  /\ Array(FlattenSeq(ss))
         /\ ToSet(FlattenSeq(ss)) = UNION {ToSet(ss[i]) : i \in DOMAIN ss}
<1>0. Len(ss) \in Nat /\ DOMAIN ss = 1 .. Len(ss)
  BY ArrayFacts
<1>1. CASE Len(ss) = 0
  <2>1. FlattenSeq(ss) = ss /\ DOMAIN ss = {}
    BY <1>0, <1>1 DEF FlattenSeq
  <2> QED BY <2>1 DEF ToSet
<1>2. CASE Len(ss) # 0
  <2>1. PICK f : /\ f[1] = ss[1]
                 /\ \A i \in 2 .. Len(ss) : f[i] = f[i - 1] \o ss[i]
                 /\ FlattenSeq(ss) = f[Len(ss)]
    BY <1>2, Flattens
  <2> DEFINE Of(i) == UNION {ToSet(ss[k]) : k \in 1 .. i}
             J == {i \in 0 .. Len(ss) : i = 0 \/ (Array(f[i]) /\ ToSet(f[i]) = Of(i))}
  <2>2. ASSUME NEW i \in 1 .. Len(ss), i - 1 \in J PROVE i \in J
    <3>1. Array(ss[i])
      BY <1>0
    <3>2. CASE i = 1
      <4>1. Of(1) = ToSet(ss[1])
        OBVIOUS
      <4> HIDE DEF Of
      <4> QED BY <3>1, <3>2, <4>1, <2>1, <1>0
    <3>3. CASE i # 1
      <4>1. i \in 2 .. Len(ss) /\ i - 1 \in 1 .. Len(ss) /\ i - 1 # 0
        BY <3>3, <1>0
      <4>2. Array(f[i - 1]) /\ ToSet(f[i - 1]) = Of(i - 1)
        BY <2>2, <4>1
      <4>30. f[i] = f[i - 1] \o ss[i]
        BY <2>1, <4>1
      <4>31. Array(f[i - 1] \o ss[i]) /\ ToSet(f[i - 1] \o ss[i]) = ToSet(f[i - 1]) \cup ToSet(ss[i])
        BY <3>1, <4>2, Joined
      <4>3. Array(f[i]) /\ ToSet(f[i]) = Of(i - 1) \cup ToSet(ss[i])
        BY <4>30, <4>31, <4>2
      <4>4. 1 .. i = (1 .. i - 1) \cup {i}
        BY <4>1, <1>0
      <4>5. Of(i) = Of(i - 1) \cup ToSet(ss[i])
        BY <4>4
      <4> QED BY <4>3, <4>5, <1>0
    <3> QED BY <3>2, <3>3
  <2>3. 0 \in J
    BY <1>0
  <2>4. 0 .. Len(ss) \subseteq J
    <3> HIDE DEF J
    <3> QED BY <1>0, <2>2, <2>3, UpTo
  <2>5. Len(ss) \in J
    BY <2>4, <1>0
  <2> QED BY <2>1, <2>5, <1>0, <1>2
<1> QED BY <1>1, <1>2

\* An injection between finite sets of one size is onto.
LEMMA InjectionOnto ==
  ASSUME NEW S, IsFiniteSet(S), NEW s \in Injection(1 .. Cardinality(S), S)
  PROVE  ToSet(s) = S
<1> DEFINE n == Cardinality(S)
<1>1. n \in Nat
  BY FS_CardinalityType
<1>2. Cardinality(1 .. n) = n
  <2>1. Cardinality(1 .. n) = IF 1 > n THEN 0 ELSE n - 1 + 1
    BY <1>1, FS_Interval
  <2> QED BY <1>1, <2>1
<1>3. s \in Surjection(1 .. n, S)
  <2>1. s \in Injection(1 .. n, S) /\ Cardinality(1 .. n) = Cardinality(S)
    BY <1>2
  <2> QED BY <2>1, FS_Injection
<1> QED BY <1>3 DEF Surjection, ToSet

(* The elements of a finite set, one after the other.                      *)
LEMMA OrderedSet ==
  ASSUME NEW S, IsFiniteSet(S)
  PROVE  Array(SetToSeq(S)) /\ ToSet(SetToSeq(S)) = S
<1> DEFINE n == Cardinality(S)
<1>1. n \in Nat /\ ExistsBijection(1 .. n, S)
  BY FS_CardinalityType
<1>2. PICK f \in Bijection(1 .. n, S) : TRUE
  BY <1>1 DEF ExistsBijection
<1>3. f \in [1 .. n -> S] /\ IsInjective(f)
  BY <1>2 DEF Bijection, Injection
<1>4. SetToSeq(S) \in [1 .. n -> S] /\ IsInjective(SetToSeq(S))
  BY <1>3 DEF SetToSeq
<1> DEFINE s == SetToSeq(S)
<1> HIDE DEF s
<1>5. s \in Injection(1 .. n, S)
  BY <1>4 DEF s, Injection
<1>6. ToSet(s) = S
  BY <1>1, <1>5, InjectionOnto DEF n
<1>7. s \in Seq(S)
  BY <1>1, <1>4 DEF s
<1> QED BY <1>6, <1>7, ArrayOf DEF s

\* Any order of a finite set is an array of its elements.
LEMMA AnyOrder ==
  ASSUME NEW S, IsFiniteSet(S), NEW s \in SetToSeqs(S)
  PROVE  Array(s) /\ ToSet(s) = S /\ \A i, j \in DOMAIN s : s[i] = s[j] => i = j
<1> DEFINE n == Cardinality(S)
<1>1. n \in Nat
  BY FS_CardinalityType
<1>2. s \in [1 .. n -> S] /\ \A i, j \in 1 .. n : i # j => s[i] # s[j]
  BY DEF SetToSeqs
<1>3. s \in Injection(1 .. n, S)
  BY <1>2 DEF Injection, IsInjective
<1>4. ToSet(s) = S
  BY <1>1, <1>3, InjectionOnto DEF n
<1>5. s \in Seq(S)
  BY <1>1, <1>2
<1> QED BY <1>2, <1>4, <1>5, ArrayOf

-----------------------------------------------------------------------------
(* What a run of Ruleset.new has called for: nothing is given anything     *)
(* that is not there, as far as somebody follows it.                       *)

Has(calls, id, m) == \E j \in 1 .. m : calls[j].id = id

CallTypes == {"limiter", "rule", "list", "phase", "condition", "action", "string", "ruleset", "count"}

RulesetId == <<"ruleset", "", "">>

\* A call that may come after the first m of calls.
Sits(call, calls, m) ==
  /\ call.id[1] \in CallTypes
  /\ call.id[1] = "list" => \A id \in call.refs : id[1] = "rule" /\ Has(calls, id, m)
  /\ call.id[1] = "condition" => \A id \in call.refs : id[1] = "limiter" => Has(calls, id, m)
  /\ call.id[1] = "action" => ActionOK(call.id[3])
  /\ call.id[1] = "rule" => IsFiniteSet(call.of.conds)
  /\ call.id[1] = "ruleset" => call.id = RulesetId

Linked(calls) == \A i \in DOMAIN calls : Sits(calls[i], calls, i - 1)
Fits(calls, more) == \A call \in ToSet(more) : Sits(call, calls, Len(calls))

\* What a rule of that name is made of.
PartsOf(n, rule) ==
  {Part("condition", n, c) : c \in Leaves(rule)}
    \cup (IF rule.nest = "if" THEN {} ELSE {Part("condition", n, rule.nest)})
    \cup {Part("action", n, rule.act)}
    \cup (UNION {Strings(n, StringsOf(c)) : c \in Leaves(rule)})
    \cup Strings(n, ActionStrings(rule.act))

\* Everything that is a part belongs to a rule.
Owned(calls) ==
  \A i \in DOMAIN calls : calls[i].id[1] \in {"condition", "action", "string"} =>
     \E j \in DOMAIN calls : \E n : calls[j].id = Id("rule", n) /\ calls[i].id \in PartsOf(n, calls[j].of)

State(st) ==
  st \in [calls : {st.calls}, limiters : {st.limiters}, loaded : {st.loaded}, rules : {st.rules},
          lists : {st.lists}, n : {st.n}, last : {st.last}, ok : BOOLEAN]

Base(st) == State(st) /\ Array(st.calls) /\ Linked(st.calls)

Sound(st) ==
  /\ Base(st)
  /\ st.ok => Owned(st.calls) /\ \A r \in st.rules : Has(st.calls, Id("rule", r), Len(st.calls))

\* From a state to a later one.
After(st, z) ==
  /\ z.ok => st.ok
  /\ st.rules \subseteq z.rules /\ st.lists \subseteq z.lists
  /\ z.limiters = st.limiters /\ z.loaded = st.loaded
  /\ \A id : Has(st.calls, id, Len(st.calls)) => Has(z.calls, id, Len(z.calls))

\* What comes after, comes after.
LEMMA AfterTwice ==
  ASSUME NEW a, NEW b, NEW d, After(a, b), After(b, d)
  PROVE  After(a, d)
BY DEF After

\* What was called for once has been called for since.
LEMMA HasMore ==
  ASSUME NEW s, NEW t, Array(s), Array(t), NEW id
  PROVE  /\ \A m \in 0 .. Len(s) : Has(s, id, m) <=> Has(s \o t, id, m)
         /\ Has(s, id, Len(s)) => Has(s \o t, id, Len(s \o t))
         /\ (\E i \in DOMAIN t : t[i].id = id) => Has(s \o t, id, Len(s \o t))
<1>1. Len(s) \in Nat /\ Len(t) \in Nat /\ DOMAIN t = 1 .. Len(t)
  BY ArrayFacts
<1>2. /\ Len(s \o t) = Len(s) + Len(t)
      /\ \A i \in 1 .. Len(s) : (s \o t)[i] = s[i]
      /\ \A i \in 1 .. Len(t) : (s \o t)[Len(s) + i] = t[i]
  BY Joined
<1>3. ASSUME NEW m \in 0 .. Len(s) PROVE Has(s, id, m) <=> Has(s \o t, id, m)
  <2>1. \A j \in 1 .. m : j \in 1 .. Len(s)
    BY <1>1
  <2>2. \A j \in 1 .. m : (s \o t)[j] = s[j]
    BY <1>2, <2>1
  <2> QED BY <2>2 DEF Has
<1>4. Has(s, id, Len(s)) => Has(s \o t, id, Len(s \o t))
  <2>1. \A j \in 1 .. Len(s) : j \in 1 .. Len(s \o t) /\ (s \o t)[j] = s[j]
    BY <1>1, <1>2
  <2> QED BY <2>1 DEF Has
<1>5. ASSUME NEW i \in DOMAIN t, t[i].id = id PROVE Has(s \o t, id, Len(s \o t))
  <2>1. Len(s) + i \in 1 .. Len(s \o t) /\ (s \o t)[Len(s) + i] = t[i]
    BY <1>1, <1>2
  <2> QED BY <1>5, <2>1 DEF Has
<1> QED BY <1>3, <1>4, <1>5

LEMMA SitsLater ==
  ASSUME NEW call, NEW a, NEW m, NEW b, NEW k, Sits(call, a, m),
         \A id : Has(a, id, m) => Has(b, id, k)
  PROVE  Sits(call, b, k)
BY DEF Sits

\* Calls that fit after those that there are.
LEMMA LinkedMore ==
  ASSUME NEW s, NEW t, Array(s), Array(t), Linked(s), Fits(s, t)
  PROVE  Linked(s \o t)
<1>1. Len(s) \in Nat /\ Len(t) \in Nat /\ DOMAIN t = 1 .. Len(t) /\ DOMAIN s = 1 .. Len(s)
  BY ArrayFacts
<1>2. /\ Len(s \o t) = Len(s) + Len(t) /\ Array(s \o t)
      /\ \A i \in 1 .. Len(s) : (s \o t)[i] = s[i]
      /\ \A i \in 1 .. Len(t) : (s \o t)[Len(s) + i] = t[i]
  BY Joined
<1>3. DOMAIN (s \o t) = 1 .. Len(s) + Len(t)
  BY <1>2, ArrayFacts
<1>4. ASSUME NEW i \in 1 .. Len(s) PROVE Sits((s \o t)[i], s \o t, i - 1)
  <2>1. Sits(s[i], s, i - 1)
    BY <1>1 DEF Linked
  <2>2. i - 1 \in 0 .. Len(s)
    BY <1>1
  <2>3. \A id : Has(s, id, i - 1) => Has(s \o t, id, i - 1)
    BY <2>2, HasMore
  <2>4. Sits(s[i], s \o t, i - 1)
    BY <2>1, <2>3, SitsLater
  <2> QED BY <1>2, <2>4
<1>5. ASSUME NEW i \in 1 .. Len(t) PROVE Sits((s \o t)[Len(s) + i], s \o t, Len(s) + i - 1)
  <2>1. Sits(t[i], s, Len(s))
    BY <1>1 DEF Fits, ToSet
  <2>2. ASSUME NEW id, Has(s, id, Len(s)) PROVE Has(s \o t, id, Len(s) + i - 1)
    <3>1. PICK j \in 1 .. Len(s) : s[j].id = id
      BY <2>2 DEF Has
    <3>2. j \in 1 .. Len(s) + i - 1 /\ (s \o t)[j] = s[j]
      BY <1>1, <1>2
    <3> QED BY <3>1, <3>2 DEF Has
  <2>3. Sits(t[i], s \o t, Len(s) + i - 1)
    BY <2>1, <2>2, SitsLater
  <2> QED BY <1>2, <2>3
<1>6. ASSUME NEW i \in 1 .. Len(s) + Len(t) PROVE Sits((s \o t)[i], s \o t, i - 1)
  <2>1. CASE i <= Len(s)
    <3>1. i \in 1 .. Len(s)
      BY <1>1, <2>1
    <3> QED BY <1>4, <3>1
  <2>2. CASE ~(i <= Len(s))
    <3>1. i - Len(s) \in 1 .. Len(t) /\ Len(s) + (i - Len(s)) = i
      BY <1>1, <2>2
    <3>2. PICK k \in 1 .. Len(t) : Len(s) + k = i
      BY <3>1
    <3> QED BY <1>5, <3>2
  <2> QED BY <2>1, <2>2
<1> QED BY <1>3, <1>6 DEF Linked

\* The other fields of a state.
Same(st, z) ==
  /\ z.limiters = st.limiters /\ z.loaded = st.loaded /\ z.rules = st.rules
  /\ z.lists = st.lists /\ z.last = st.last

LEMMA WithCalls ==
  ASSUME NEW st, State(st), NEW x
  PROVE  /\ State([st EXCEPT !.calls = x])
         /\ Same(st, [st EXCEPT !.calls = x])
         /\ [st EXCEPT !.calls = x].calls = x
         /\ [st EXCEPT !.calls = x].ok = st.ok
BY DEF State, Same

\* A run with more calls, each of which fits.
LEMMA CallEachIs ==
  ASSUME NEW st, Base(st), NEW t, Array(t), st.ok => Fits(st.calls, t)
  PROVE  LET z == CallEach(st, t)
         IN  /\ Base(z) /\ Same(st, z) /\ z.ok = st.ok
             /\ st.ok => z.calls = st.calls \o t
             /\ ~st.ok => z = st
<1>1. CASE st.ok
  <2> DEFINE z == [st EXCEPT !.calls = st.calls \o t]
  <2>1. CallEach(st, t) = z
    BY <1>1 DEF CallEach
  <2>2. State(z) /\ Same(st, z) /\ z.calls = st.calls \o t /\ z.ok = st.ok
    BY WithCalls DEF Base
  <2>3. Array(st.calls \o t) /\ Linked(st.calls \o t)
    BY <1>1, Joined, LinkedMore DEF Base
  <2> HIDE DEF z
  <2> QED BY <1>1, <2>1, <2>2, <2>3 DEF Base
<1>2. CASE ~st.ok
  BY <1>2 DEF CallEach, Same
<1>3. st.ok \in BOOLEAN
  BY DEF Base, State
<1> QED BY <1>1, <1>2, <1>3

-----------------------------------------------------------------------------
(* The parts of a rule.                                                    *)

\* A state that differs by calls for these things, and may have stopped.
Extended(st, z, ids) ==
  /\ Base(z)
  /\ z.limiters = st.limiters /\ z.loaded = st.loaded /\ z.rules = st.rules /\ z.lists = st.lists
  /\ z.ok => st.ok
  /\ \E t : /\ Array(t) /\ z.calls = st.calls \o t
            /\ \A call \in ToSet(t) : call.id \in ids

LEMMA ExtendedNot ==
  ASSUME NEW st, Base(st), NEW ids
  PROVE  Extended(st, st, ids)
<1>1. Array(<<>>) /\ ToSet(<<>>) = {}
  <2>1. <<>> \in Seq({}) /\ DOMAIN <<>> = {}
    OBVIOUS
  <2> QED BY <2>1, ArrayOf DEF ToSet
<1>2. st.calls \in Seq(Range(st.calls))
  BY DEF Base, Array
<1>3. st.calls = st.calls \o <<>>
  BY <1>2, ConcatEmptySeq
<1> QED BY <1>1, <1>3 DEF Extended

LEMMA ExtendedBy ==
  ASSUME NEW st, Base(st), NEW t, Array(t), NEW ids, st.ok => Fits(st.calls, t),
         \A call \in ToSet(t) : call.id \in ids
  PROVE  Extended(st, CallEach(st, t), ids)
<1>1. CASE st.ok
  BY <1>1, CallEachIs DEF Extended, Same
<1>2. CASE ~st.ok
  BY <1>2, CallEachIs, ExtendedNot
<1> QED BY <1>1, <1>2

LEMMA ExtendedTwice ==
  ASSUME NEW a, NEW b, NEW d, NEW ids, Base(a), Extended(a, b, ids), Extended(b, d, ids)
  PROVE  Extended(a, d, ids)
<1>1. PICK t : Array(t) /\ b.calls = a.calls \o t /\ \A call \in ToSet(t) : call.id \in ids
  BY DEF Extended
<1>2. PICK u : Array(u) /\ d.calls = b.calls \o u /\ \A call \in ToSet(u) : call.id \in ids
  BY DEF Extended
<1>3. Array(t \o u) /\ d.calls = a.calls \o (t \o u)
  <2>1. PICK x : x = a.calls
    OBVIOUS
  <2>2. Array(x)
    BY <2>1 DEF Base
  <2>3. (x \o t) \o u = x \o (t \o u)
    BY <1>1, <1>2, <2>2, JoinedTwice
  <2>4. Array(t \o u)
    BY <1>1, <1>2, Joined
  <2> QED BY <1>1, <1>2, <2>1, <2>3, <2>4
<1>4. ASSUME NEW call \in ToSet(t \o u) PROVE call.id \in ids
  <2>1. ToSet(t \o u) = ToSet(t) \cup ToSet(u)
    BY <1>1, <1>2, Joined
  <2> QED BY <1>1, <1>2, <2>1
<1> QED BY <1>3, <1>4 DEF Extended

LEMMA StringsArray ==
  /\ \A c : Array(StringsOf(c))
  /\ \A act : Array(ActionStrings(act))
<1>1. Array(<<>>)
  <2>1. <<>> \in Seq({})
    OBVIOUS
  <2> QED BY <2>1, ArrayOf
<1>2. Array(<<"match", "match 2">>)
  <2>1. <<"match", "match 2">> \in Seq({"match", "match 2"})
    OBVIOUS
  <2> QED BY <2>1, ArrayOf
<1>3. \A c : Array(StringsOf(c))
  BY <1>1, <1>2, SingleArray DEF StringsOf
<1>4. \A act : Array(ActionStrings(act))
  BY <1>1, SingleArray DEF ActionStrings
<1> QED BY <1>3, <1>4

\* The calls for the strings of a condition or an action.
LEMMA StringCallsAre ==
  ASSUME NEW name, NEW strings, Array(strings)
  PROVE  /\ Array(StringCalls(name, strings))
         /\ \A call \in ToSet(StringCalls(name, strings)) :
              call.id \in Strings(name, strings) /\ call.id[1] = "string"
<1> DEFINE t == StringCalls(name, strings)
<1>1. Len(strings) \in Nat /\ DOMAIN strings = 1 .. Len(strings)
  BY ArrayFacts
<1>2. t = [i \in 1 .. Len(strings) |-> Made(Part("string", name, strings[i]), {}, None)]
  BY <1>1 DEF StringCalls
<1> HIDE DEF t
<1>3. DOMAIN t = 1 .. Len(strings) /\ t = [i \in 1 .. Len(strings) |-> t[i]]
  BY <1>2
<1>4. Array(t)
  BY <1>1, <1>3, ArrayIs
<1>5. ASSUME NEW call \in ToSet(t) PROVE call.id \in Strings(name, strings) /\ call.id[1] = "string"
  <2>1. PICK i \in 1 .. Len(strings) : call = t[i]
    BY <1>3 DEF ToSet
  <2>2. call.id = Part("string", name, strings[i])
    BY <1>2, <2>1 DEF Made
  <2>3. strings[i] \in ToSet(strings)
    BY <1>1 DEF ToSet
  <2> QED BY <2>2, <2>3 DEF Strings, Part
<1> QED BY <1>4, <1>5 DEF t

\* The limiters of a rule are there.
Limited(calls, rule) == \A c \in Leaves(rule) \ BuiltIn : Has(calls, Id("limiter", c), Len(calls))

\* Those for a condition: its strings are there before it, its limiter must
\* be.
LEMMA ConditionCallsAre ==
  ASSUME NEW name, NEW c, NEW calls, c \notin BuiltIn => Has(calls, Id("limiter", c), Len(calls))
  PROVE  LET t == ConditionCalls(name, c)
         IN  /\ Array(t) /\ Fits(calls, t)
             /\ \A call \in ToSet(t) : call.id \in Strings(name, StringsOf(c)) \cup {Part("condition", name, c)}
<1> DEFINE s == StringCalls(name, StringsOf(c))
           refs == Strings(name, StringsOf(c)) \cup (IF c \in BuiltIn THEN {} ELSE {Id("limiter", c)})
           last == Made(Part("condition", name, c), refs, None)
           t == ConditionCalls(name, c)
<1>1. Array(s) /\ \A call \in ToSet(s) : call.id \in Strings(name, StringsOf(c)) /\ call.id[1] = "string"
  BY StringsArray, StringCallsAre
<1>2. t = Append(s, last)
  BY DEF ConditionCalls
<1>3. Sits(last, calls, Len(calls))
  <2>1. last.id = Part("condition", name, c) /\ last.refs = refs
    BY DEF Made
  <2>2. last.id[1] = "condition"
    <3> HIDE DEF last, refs
    <3> QED BY <2>1 DEF Part
  <2>3. ASSUME NEW id \in refs, id[1] = "limiter" PROVE Has(calls, id, Len(calls))
    <3>1. id \notin Strings(name, StringsOf(c))
      BY <2>3 DEF Strings, Part
    <3> QED BY <3>1
  <2> HIDE DEF last, refs
  <2> QED BY <2>1, <2>2, <2>3 DEF Sits, CallTypes
<1>4. \A call \in ToSet(s) : Sits(call, calls, Len(calls))
  BY <1>1 DEF Sits, CallTypes
<1>5. last.id = Part("condition", name, c)
  BY DEF Made
<1> HIDE DEF s, last
<1>6. Array(t) /\ ToSet(t) = ToSet(s) \cup {last}
  BY <1>1, <1>2, Appended
<1> HIDE DEF t
<1>7. Fits(calls, t)
  BY <1>3, <1>4, <1>6 DEF Fits
<1>8. \A call \in ToSet(t) : call.id \in Strings(name, StringsOf(c)) \cup {Part("condition", name, c)}
  BY <1>1, <1>5, <1>6
<1> QED BY <1>6, <1>7, <1>8 DEF t

\* What a condition consists of.
ConditionParts(name, c) == Strings(name, StringsOf(c)) \cup {Part("condition", name, c)}

\* Those for the leaves of any and all.
LEMMA LeafCallsAre ==
  ASSUME NEW name, NEW leaves, Array(leaves), NEW calls,
         \A c \in ToSet(leaves) \ BuiltIn : Has(calls, Id("limiter", c), Len(calls))
  PROVE  LET t == LeafCalls(name, leaves)
         IN  /\ Array(t) /\ Fits(calls, t)
             /\ \A call \in ToSet(t) : \E c \in ToSet(leaves) : call.id \in ConditionParts(name, c)
<1> DEFINE ss == [i \in DOMAIN leaves |-> ConditionCalls(name, leaves[i])]
           t == LeafCalls(name, leaves)
<1>1. Len(leaves) \in Nat /\ DOMAIN leaves = 1 .. Len(leaves)
  BY ArrayFacts
<1>2. DOMAIN ss = 1 .. Len(leaves) /\ ss = [i \in 1 .. Len(leaves) |-> ss[i]]
  BY <1>1
<1>3. Array(ss)
  <2> HIDE DEF ss
  <2> QED BY <1>1, <1>2, ArrayIs
<1>4. ASSUME NEW i \in DOMAIN ss
      PROVE  /\ leaves[i] \in ToSet(leaves) /\ Array(ss[i]) /\ Fits(calls, ss[i])
             /\ \A call \in ToSet(ss[i]) : call.id \in ConditionParts(name, leaves[i])
  <2>1. ss[i] = ConditionCalls(name, leaves[i])
    BY <1>1, <1>2
  <2>2. leaves[i] \in ToSet(leaves)
    BY <1>1, <1>2 DEF ToSet
  <2> HIDE DEF ss
  <2> QED BY <2>1, <2>2, ConditionCallsAre DEF ConditionParts
<1>5. t = FlattenSeq(ss)
  BY DEF LeafCalls
<1> HIDE DEF ss, t
<1>6. Array(t) /\ ToSet(t) = UNION {ToSet(ss[i]) : i \in DOMAIN ss}
  BY <1>3, <1>4, <1>5, Flat
<1>7. ASSUME NEW call \in ToSet(t) PROVE \E i \in DOMAIN ss : call \in ToSet(ss[i])
  BY <1>6
<1>8. Fits(calls, t)
  BY <1>4, <1>7 DEF Fits
<1>9. \A call \in ToSet(t) : \E c \in ToSet(leaves) : call.id \in ConditionParts(name, c)
  BY <1>4, <1>7
<1> QED BY <1>6, <1>8, <1>9 DEF t

\* Those for any and all themselves.
LEMMA NestedAre ==
  ASSUME NEW name, NEW nest \in {"any", "all"}, NEW conds, IsFiniteSet(conds), NEW calls,
         \A c \in conds \ BuiltIn : Has(calls, Id("limiter", c), Len(calls))
  PROVE  LET t == Nested(name, nest, conds)
         IN  /\ Array(t) /\ Fits(calls, t)
             /\ \A call \in ToSet(t) : \/ call.id = Part("condition", name, nest)
                                       \/ \E c \in conds : call.id \in ConditionParts(name, c)
<1> DEFINE leaves == SetToSeq(conds)
           s == LeafCalls(name, leaves)
           refs == {Part("condition", name, c) : c \in conds}
           last == Made(Part("condition", name, nest), refs, None)
           t == Nested(name, nest, conds)
<1>1. Array(leaves) /\ ToSet(leaves) = conds
  BY OrderedSet
<1>2. /\ Array(s) /\ Fits(calls, s)
      /\ \A call \in ToSet(s) : \E c \in conds : call.id \in ConditionParts(name, c)
  <2> HIDE DEF leaves
  <2> QED BY <1>1, LeafCallsAre
<1>3. t = Append(s, last)
  BY DEF Nested
<1>4. last.id = Part("condition", name, nest) /\ last.refs = refs
  BY DEF Made
<1>5. Sits(last, calls, Len(calls))
  <2>1. last.id[1] = "condition"
    BY <1>4 DEF Part
  <2>2. \A id \in refs : id[1] # "limiter"
    BY DEF Part
  <2> HIDE DEF last, refs
  <2> QED BY <1>4, <2>1, <2>2 DEF Sits, CallTypes
<1> HIDE DEF s, last, t
<1>6. Array(t) /\ ToSet(t) = ToSet(s) \cup {last}
  BY <1>2, <1>3, Appended
<1>7. Fits(calls, t)
  BY <1>2, <1>5, <1>6 DEF Fits
<1>8. \A call \in ToSet(t) : \/ call.id = Part("condition", name, nest)
                             \/ \E c \in conds : call.id \in ConditionParts(name, c)
  BY <1>2, <1>4, <1>6
<1> QED BY <1>6, <1>7, <1>8 DEF t

\* Those for an action.
LEMMA ActionCallsAre ==
  ASSUME NEW name, NEW act, ActionOK(act), NEW calls
  PROVE  LET t == Append(StringCalls(name, ActionStrings(act)),
                         Made(Part("action", name, act), Strings(name, ActionStrings(act)), None))
         IN  /\ Array(t) /\ Fits(calls, t)
             /\ \A call \in ToSet(t) :
                  call.id \in Strings(name, ActionStrings(act)) \cup {Part("action", name, act)}
<1> DEFINE s == StringCalls(name, ActionStrings(act))
           last == Made(Part("action", name, act), Strings(name, ActionStrings(act)), None)
           t == Append(s, last)
<1>1. Array(s) /\ \A call \in ToSet(s) : call.id \in Strings(name, ActionStrings(act)) /\ call.id[1] = "string"
  BY StringsArray, StringCallsAre
<1>2. last.id = Part("action", name, act)
  BY DEF Made
<1>3. Sits(last, calls, Len(calls))
  <2>1. last.id[1] = "action" /\ last.id[3] = act
    BY <1>2 DEF Part
  <2> HIDE DEF last
  <2> QED BY <2>1 DEF Sits, CallTypes
<1>4. \A call \in ToSet(s) : Sits(call, calls, Len(calls))
  BY <1>1 DEF Sits, CallTypes
<1> HIDE DEF s, last
<1>5. Array(t) /\ ToSet(t) = ToSet(s) \cup {last}
  BY <1>1, Appended
<1> HIDE DEF t
<1>6. Fits(calls, t)
  BY <1>3, <1>4, <1>5 DEF Fits
<1>7. \A call \in ToSet(t) : call.id \in Strings(name, ActionStrings(act)) \cup {Part("action", name, act)}
  BY <1>1, <1>2, <1>5
<1> QED BY <1>5, <1>6, <1>7 DEF s, last, t

\* Leaves of what the parser has read.
LEMMA LeavesFinite ==
  ASSUME NEW rule, IsFiniteSet(rule.conds)
  PROVE  IsFiniteSet(Leaves(rule)) /\ Leaves(rule) # {}
BY FS_Singleton DEF Leaves

\* All parts of a rule, and nothing but its parts.
LEMMA ComponentsAre ==
  ASSUME NEW st, Base(st), NEW n, NEW rule, IsFiniteSet(rule.conds), ActionOK(rule.act),
         st.ok => Limited(st.calls, rule)
  PROVE  Extended(st, Components(st, n, rule), PartsOf(n, rule))
<1> DEFINE L == Leaves(rule)
           ids == PartsOf(n, rule)
           some == CHOOSE c \in L : TRUE
           a == CASE rule.nest = "any" -> NewAny(st, n, L)
                  [] rule.nest = "all" -> NewAll(st, n, L)
                  [] OTHER -> NewIf(st, n, some)
           acts == Append(StringCalls(n, ActionStrings(rule.act)),
                          Made(Part("action", n, rule.act), Strings(n, ActionStrings(rule.act)), None))
<1>0. Components(st, n, rule) = CallEach(a, acts)
  BY DEF Components, NewAction
<1>1. IsFiniteSet(L) /\ some \in L
  BY LeavesFinite
<1>2. \A c \in L : \A id \in ConditionParts(n, c) : id \in ids
  BY DEF PartsOf, ConditionParts
<1>3. rule.nest # "if" => Part("condition", n, rule.nest) \in ids
  BY DEF PartsOf
<1>4. \A id \in Strings(n, ActionStrings(rule.act)) \cup {Part("action", n, rule.act)} : id \in ids
  BY DEF PartsOf
<1>5. st.ok => \A c \in L \ BuiltIn : Has(st.calls, Id("limiter", c), Len(st.calls))
  BY DEF Limited
<1> HIDE DEF L, ids, some, acts
<1>6. Extended(st, a, ids)
  <2>1. ASSUME NEW nest \in {"any", "all"}, rule.nest = nest, NEW conds, conds = L
        PROVE  Extended(st, CallEach(st, Nested(n, nest, conds)), ids)
    <3> DEFINE t == Nested(n, nest, conds)
    <3>0. CASE ~st.ok
      BY <3>0, ExtendedNot DEF CallEach
    <3>1. CASE st.ok
      <4>1. /\ Array(t) /\ Fits(st.calls, t)
            /\ \A call \in ToSet(t) : \/ call.id = Part("condition", n, nest)
                                      \/ \E c \in conds : call.id \in ConditionParts(n, c)
        BY <1>1, <1>5, <2>1, <3>1, NestedAre
      <4> HIDE DEF t
      <4>2. \A call \in ToSet(t) : call.id \in ids
        BY <1>2, <1>3, <2>1, <4>1
      <4> QED BY <4>1, <4>2, ExtendedBy DEF t
    <3> QED BY <3>0, <3>1
  <2>2. CASE rule.nest = "any"
    <3>1. a = CallEach(st, Nested(n, "any", L))
      BY <2>2 DEF NewAny
    <3> QED BY <2>1, <2>2, <3>1
  <2>3. CASE rule.nest = "all"
    <3> DEFINE leaves == SetToSeq(L)
               found == {i \in DOMAIN leaves : \A j \in 1 .. i : leaves[j] \in BuiltIn}
               upto == [i \in found |-> leaves[i]]
               b == CallEach(st, LeafCalls(n, upto))
    <3>1. a = NewAll(st, n, L)
      BY <2>3
    <3>2. CASE L \subseteq BuiltIn
      <4>1. a = CallEach(st, Nested(n, "all", L))
        BY <3>1, <3>2 DEF NewAll
      <4> QED BY <2>1, <2>3, <4>1
    <3>3. CASE ~(L \subseteq BuiltIn)
      <4>1. a = Error(b)
        BY <3>1, <3>3 DEF NewAll
      <4>2. Array(upto) /\ \A c \in ToSet(upto) : c \in L
        <5>1. Array(leaves) /\ ToSet(leaves) = L
          BY <1>1, OrderedSet
        <5> HIDE DEF leaves
        <5>2. Len(leaves) \in Nat /\ DOMAIN leaves = 1 .. Len(leaves)
          BY <5>1, ArrayFacts
        <5>3. PICK m \in Nat : found = 1 .. m
          <6> DEFINE Bad == {i \in DOMAIN leaves : leaves[i] \notin BuiltIn}
          <6>1. PICK i \in DOMAIN leaves : leaves[i] \notin BuiltIn
            BY <3>3, <5>1 DEF ToSet
          <6>2. PICK k \in Bad : \A y \in Bad : k <= y
            <7>1. Bad \subseteq Nat /\ Bad # {}
              BY <6>1, <5>2
            <7> HIDE DEF Bad
            <7> QED BY <7>1, SmallestNat
          <6>3. found = 1 .. (k - 1) /\ k - 1 \in Nat
            BY <5>2, <6>2
          <6> QED BY <6>3
        <5>4. \A i \in 1 .. m : i \in DOMAIN leaves
          BY <5>3
        <5>5. DOMAIN upto = 1 .. m /\ upto = [i \in 1 .. m |-> upto[i]] /\ \A i \in 1 .. m : upto[i] = leaves[i]
          BY <5>3
        <5> HIDE DEF upto, found
        <5>6. Array(upto)
          BY <5>5, ArrayIs
        <5>7. \A c \in ToSet(upto) : c \in ToSet(leaves)
          BY <5>4, <5>5 DEF ToSet
        <5> QED BY <5>1, <5>6, <5>7
      <4> HIDE DEF upto
      <4>3. Extended(st, b, ids)
        <5>0. CASE ~st.ok
          BY <5>0, ExtendedNot DEF CallEach
        <5>1. CASE st.ok
          <6> DEFINE t == LeafCalls(n, upto)
          <6>1. \A c \in ToSet(upto) \ BuiltIn : Has(st.calls, Id("limiter", c), Len(st.calls))
            BY <1>5, <4>2, <5>1
          <6>2. /\ Array(t) /\ Fits(st.calls, t)
                /\ \A call \in ToSet(t) : \E c \in ToSet(upto) : call.id \in ConditionParts(n, c)
            BY <4>2, <6>1, LeafCallsAre
          <6> HIDE DEF t
          <6>3. \A call \in ToSet(t) : call.id \in ids
            BY <1>2, <4>2, <6>2
          <6> QED BY <6>2, <6>3, ExtendedBy DEF t
        <5> QED BY <5>0, <5>1
      <4> HIDE DEF b
      <4>4. /\ State(Error(b)) /\ Error(b).calls = b.calls /\ Error(b).ok = FALSE
            /\ Error(b).limiters = b.limiters /\ Error(b).loaded = b.loaded
            /\ Error(b).rules = b.rules /\ Error(b).lists = b.lists
        BY <4>3 DEF Error, Extended, Base, State
      <4> QED BY <4>1, <4>3, <4>4 DEF Extended, Base
    <3> QED BY <3>2, <3>3
  <2>4. CASE rule.nest \notin {"any", "all"}
    <3> DEFINE t == ConditionCalls(n, some)
    <3>1. a = CallEach(st, t)
      BY <2>4 DEF NewIf
    <3>2. CASE ~st.ok
      BY <3>1, <3>2, ExtendedNot DEF CallEach
    <3>3. CASE st.ok
      <4>1. /\ Array(t) /\ Fits(st.calls, t)
            /\ \A call \in ToSet(t) : call.id \in ConditionParts(n, some)
        BY <1>1, <1>5, <3>3, ConditionCallsAre DEF ConditionParts
      <4> HIDE DEF t, a
      <4>2. \A call \in ToSet(t) : call.id \in ids
        BY <1>1, <1>2, <4>1
      <4> QED BY <3>1, <4>1, <4>2, ExtendedBy
    <3> QED BY <3>2, <3>3
  <2> HIDE DEF a
  <2> QED BY <2>2, <2>3, <2>4
<1> HIDE DEF a
<1>7. Extended(a, CallEach(a, acts), ids)
  <2>1. /\ Array(acts) /\ Fits(a.calls, acts)
        /\ \A call \in ToSet(acts) :
             call.id \in Strings(n, ActionStrings(rule.act)) \cup {Part("action", n, rule.act)}
    BY ActionCallsAre DEF acts
  <2>2. Base(a)
    BY <1>6 DEF Extended
  <2>3. \A call \in ToSet(acts) : call.id \in ids
    BY <1>4, <2>1
  <2> QED BY <2>1, <2>2, <2>3, ExtendedBy
<1>8. Extended(st, CallEach(a, acts), ids)
  BY <1>6, <1>7, ExtendedTwice
<1> QED BY <1>0, <1>8 DEF ids

-----------------------------------------------------------------------------
(* A rule, a list and a phase.                                             *)

LEMMA HasSome ==
  ASSUME NEW s, Array(s), NEW id
  PROVE  Has(s, id, Len(s)) <=> \E call \in ToSet(s) : call.id = id
<1>1. DOMAIN s = 1 .. Len(s)
  BY ArrayFacts
<1> QED BY <1>1 DEF Has, ToSet

LEMMA OwnedIs ==
  ASSUME NEW s
  PROVE  Owned(s) <=>
           \A call \in ToSet(s) : call.id[1] \in {"condition", "action", "string"} =>
              \E other \in ToSet(s) : \E n : other.id = Id("rule", n) /\ call.id \in PartsOf(n, other.of)
BY DEF Owned, ToSet

\* More calls of which every part belongs to a rule.
LEMMA OwnedMore ==
  ASSUME NEW s, NEW t, Array(s), Array(t), Owned(s),
         \A call \in ToSet(t) : call.id[1] \in {"condition", "action", "string"} =>
            \E other \in ToSet(t) : \E n : other.id = Id("rule", n) /\ call.id \in PartsOf(n, other.of)
  PROVE  Owned(s \o t)
<1>1. ToSet(s \o t) = ToSet(s) \cup ToSet(t)
  BY Joined
<1> QED BY <1>1, OwnedIs

LEMMA AfterSelf ==
  ASSUME NEW st
  PROVE  After(st, st)
BY DEF After

\* A state that is sound stays so with one more call that is no part.
LEMMA CallIs ==
  ASSUME NEW st, Sound(st), NEW id, NEW refs, NEW of,
         id[1] \in CallTypes \ {"condition", "action", "string"},
         st.ok => Sits(Made(id, refs, of), st.calls, Len(st.calls))
  PROVE  LET z == Call(st, id, refs, of)
         IN  /\ Sound(z) /\ After(st, z) /\ Same(st, z) /\ z.ok = st.ok
             /\ z.ok => Has(z.calls, id, Len(z.calls))
             /\ z.ok => ToSet(z.calls) = ToSet(st.calls) \cup {Made(id, refs, of)}
<1> DEFINE call == Made(id, refs, of)
           z == Call(st, id, refs, of)
<1>1. CASE ~st.ok
  <2>1. z = st
    BY <1>1 DEF Call, CallEach
  <2> QED BY <1>1, <2>1, AfterSelf DEF Same
<1>2. CASE st.ok
  <2>1. /\ Array(<<call>>) /\ ToSet(<<call>>) = {call}
    BY SingleArray DEF ToSet
  <2>2. Fits(st.calls, <<call>>)
    BY <1>2, <2>1 DEF Fits
  <2>3. z = CallEach(st, <<call>>)
    BY DEF Call
  <2>30. Base(st)
    BY DEF Sound
  <2> HIDE DEF z
  <2>31. call.id = id
    BY DEF Made
  <2> HIDE DEF call
  <2>4. Base(z) /\ Same(st, z) /\ z.ok /\ z.calls = st.calls \o <<call>>
    BY <1>2, <2>1, <2>2, <2>3, <2>30, CallEachIs
  <2>5. Array(st.calls) /\ Owned(st.calls) /\ \A r \in st.rules : Has(st.calls, Id("rule", r), Len(st.calls))
    BY <1>2 DEF Sound, Base
  <2>6. Owned(z.calls)
    BY <2>1, <2>31, <2>4, <2>5, OwnedMore
  <2>7. \A x : Has(st.calls, x, Len(st.calls)) => Has(z.calls, x, Len(z.calls))
    <3>1. PICK a : a = st.calls
      OBVIOUS
    <3>2. \A x : Has(a, x, Len(a)) => Has(a \o <<call>>, x, Len(a \o <<call>>))
      BY <2>1, <2>5, <3>1, HasMore
    <3> QED BY <2>4, <3>1, <3>2
  <2>8. ToSet(z.calls) = ToSet(st.calls) \cup {call}
    BY <2>1, <2>4, <2>5, Joined
  <2>9. Has(z.calls, id, Len(z.calls))
    <3>1. Array(z.calls)
      BY <2>4 DEF Base
    <3> QED BY <2>31, <2>8, <3>1, HasSome
  <2>10. Sound(z)
    BY <2>4, <2>5, <2>6, <2>7 DEF Sound, Same
  <2>11. After(st, z)
    BY <1>2, <2>4, <2>7 DEF After, Same
  <2> QED BY <1>2, <2>4, <2>8, <2>9, <2>10, <2>11 DEF call, z
<1> QED BY <1>1, <1>2 DEF z

\* A generated name changes the count of its kind only.
LEMMA NumberedIs ==
  ASSUME NEW st, Sound(st), NEW thing, NEW k
  PROVE  LET z == Numbered(st, thing, k)
         IN  Sound(z) /\ After(st, z) /\ z.ok = st.ok
<1> DEFINE y == Call(st, Id("count", thing), {}, k)
           z == Numbered(st, thing, k)
<1>0. Id("count", thing)[1] = "count"
  BY DEF Id
<1>1. Sits(Made(Id("count", thing), {}, k), st.calls, Len(st.calls))
  BY DEF Sits, Made, Id, CallTypes
<1>2. Sound(y) /\ After(st, y) /\ y.ok = st.ok
  <2>1. "count" \in CallTypes \ {"condition", "action", "string"}
    BY DEF CallTypes
  <2> HIDE DEF y
  <2> QED BY <1>0, <1>1, <2>1, CallIs DEF y
<1>3. z = [y EXCEPT !.n[Counter(st, thing)] = k + 1, !.last = thing \o ToString(k)]
  BY DEF Numbered
<1> HIDE DEF y, z
<1>4. /\ State(z) /\ z.calls = y.calls /\ z.ok = y.ok /\ z.rules = y.rules /\ z.lists = y.lists
      /\ z.limiters = y.limiters /\ z.loaded = y.loaded
  <2>1. State(y)
    BY <1>2 DEF Sound, Base
  <2> QED BY <1>3, <2>1 DEF State
<1> QED BY <1>2, <1>4 DEF Sound, Base, After, z

\* The name of a rule or list that may have none.
LEMMA NamedIs ==
  ASSUME NEW st, Sound(st), NEW thing, NEW name, NEW table
  PROVE  LET z == Named(st, thing, name, table)
         IN  Sound(z) /\ After(st, z) /\ z.ok = st.ok
<1> DEFINE z == Named(st, thing, name, table)
<1>1. CASE name = None
  BY <1>1, NumberedIs DEF Named, Unique
<1>2. CASE name # None
  <2>1. z = [st EXCEPT !.last = name]
    BY <1>2 DEF Named
  <2> HIDE DEF z
  <2>2. /\ State(z) /\ z.calls = st.calls /\ z.ok = st.ok /\ z.rules = st.rules /\ z.lists = st.lists
        /\ z.limiters = st.limiters /\ z.loaded = st.loaded
    <3>1. State(st)
      BY DEF Sound, Base
    <3> QED BY <2>1, <3>1 DEF State
  <2> QED BY <2>2 DEF Sound, Base, After, z
<1> QED BY <1>1, <1>2

\* A rule that Ruleset.new may be given.
RuleFits(st, rule) ==
  /\ IsFiniteSet(rule.conds) /\ ActionOK(rule.act)
  /\ st.ok => Limited(st.calls, rule)

LEMMA RuleFitsLater ==
  ASSUME NEW st, NEW z, After(st, z), NEW rule, RuleFits(st, rule)
  PROVE  RuleFits(z, rule)
BY DEF RuleFits, After, Limited

\* A rule after its parts.
LEMMA MakeRuleIs ==
  ASSUME NEW st, Sound(st), NEW n, NEW rule, RuleFits(st, rule)
  PROVE  LET z == MakeRule(st, n, rule)
         IN  /\ Sound(z) /\ After(st, z)
             /\ z.last = n /\ n \in z.rules
<1> DEFINE y == Components(st, n, rule)
           x == [y EXCEPT !.rules = @ \cup {n}, !.last = n]
           refs == {Part("condition", n, Top(rule)), Part("action", n, rule.act)}
           z == Call(x, Id("rule", n), refs, rule)
           call == Made(Id("rule", n), refs, rule)
<1>0. MakeRule(st, n, rule) = z
  BY DEF MakeRule
<1>1. Extended(st, y, PartsOf(n, rule))
  <2>1. Base(st)
    BY DEF Sound
  <2> HIDE DEF y
  <2> QED BY <2>1, ComponentsAre DEF RuleFits, y
<1> HIDE DEF y
<1>2. /\ State(x) /\ x.calls = y.calls /\ x.ok = y.ok /\ x.rules = y.rules \cup {n} /\ x.lists = y.lists
      /\ x.limiters = y.limiters /\ x.loaded = y.loaded /\ x.last = n
  <2>1. State(y)
    BY <1>1 DEF Extended, Base
  <2> QED BY <2>1 DEF State
<1> HIDE DEF x
<1>3. call.id = Id("rule", n) /\ call.of = rule /\ call.id[1] = "rule"
  BY DEF Made, Id
<1> HIDE DEF call, refs
<1>4. PICK t : Array(t) /\ y.calls = st.calls \o t /\ \A c \in ToSet(t) : c.id \in PartsOf(n, rule)
  BY <1>1 DEF Extended
<1>5. Base(x) /\ Array(st.calls) /\ Base(st)
  BY <1>1, <1>2 DEF Extended, Base, Sound
<1>6. \A id : Has(st.calls, id, Len(st.calls)) => Has(x.calls, id, Len(x.calls))
  <2>1. PICK a : a = st.calls
    OBVIOUS
  <2>2. Array(a) /\ x.calls = a \o t
    BY <1>2, <1>4, <1>5, <2>1
  <2>3. \A id : Has(a, id, Len(a)) => Has(a \o t, id, Len(a \o t))
    BY <1>4, <2>2, HasMore
  <2> QED BY <2>1, <2>2, <2>3
<1>7. CASE ~x.ok
  <2>1. z = x
    BY <1>7 DEF Call, CallEach
  <2>2. Sound(x)
    BY <1>5, <1>7 DEF Sound
  <2>3. After(st, x)
    BY <1>1, <1>2, <1>6, <1>7 DEF After, Extended
  <2> QED BY <1>0, <1>2, <2>1, <2>2, <2>3
<1>8. CASE x.ok
  <2>0. st.ok /\ Owned(st.calls) /\ \A r \in st.rules : Has(st.calls, Id("rule", r), Len(st.calls))
    BY <1>1, <1>2, <1>8 DEF Extended, Sound
  <2>1. Array(<<call>>) /\ ToSet(<<call>>) = {call}
    BY SingleArray DEF ToSet
  <2>2. Fits(x.calls, <<call>>)
    BY <1>3, <2>1 DEF Fits, Sits, CallTypes, RuleFits
  <2>3. z = CallEach(x, <<call>>)
    BY DEF Call, call
  <2> HIDE DEF z
  <2>4. Base(z) /\ Same(x, z) /\ z.ok /\ z.calls = x.calls \o <<call>>
    BY <1>5, <1>8, <2>1, <2>2, <2>3, CallEachIs
  <2>5. PICK a : a = st.calls
    OBVIOUS
  <2>6. z.calls = a \o (t \o <<call>>) /\ Array(t \o <<call>>) /\ ToSet(t \o <<call>>) = ToSet(t) \cup {call}
    <3>1. (a \o t) \o <<call>> = a \o (t \o <<call>>)
      <4>1. Array(a)
        BY <1>5, <2>5
      <4> QED BY <1>4, <2>1, <4>1, JoinedTwice
    <3>2. z.calls = (a \o t) \o <<call>>
      BY <1>2, <1>4, <2>4, <2>5
    <3> QED BY <1>4, <2>1, <3>1, <3>2, Joined
  <2>7. \A other \in ToSet(t \o <<call>>) :
          other.id[1] \in {"condition", "action", "string"} => other.id \in PartsOf(n, rule)
    BY <1>3, <1>4, <2>6
  <2>8. Owned(z.calls)
    <3>1. call \in ToSet(t \o <<call>>)
      BY <2>6
    <3> QED BY <1>3, <1>5, <2>0, <2>5, <2>6, <2>7, <3>1, OwnedMore
  <2>9. \A id : Has(st.calls, id, Len(st.calls)) => Has(z.calls, id, Len(z.calls))
    <3>1. Array(x.calls)
      BY <1>5 DEF Base
    <3>2. \A id : Has(x.calls, id, Len(x.calls)) => Has(z.calls, id, Len(z.calls))
      <4>1. PICK b : b = x.calls
        OBVIOUS
      <4>2. \A id : Has(b, id, Len(b)) => Has(b \o <<call>>, id, Len(b \o <<call>>))
        BY <2>1, <3>1, <4>1, HasMore
      <4> QED BY <2>4, <4>1, <4>2
    <3> QED BY <1>6, <3>2
  <2>10. Has(z.calls, Id("rule", n), Len(z.calls))
    <3>1. Array(z.calls)
      BY <2>4 DEF Base
    <3>2. call \in ToSet(z.calls)
      BY <1>5, <2>5, <2>6, Joined
    <3> QED BY <1>3, <3>1, <3>2, HasSome
  <2>11. \A r \in z.rules : Has(z.calls, Id("rule", r), Len(z.calls))
    <3>1. z.rules = st.rules \cup {n}
      BY <1>1, <1>2, <2>4 DEF Same, Extended
    <3> QED BY <2>0, <2>9, <2>10, <3>1
  <2>12. Sound(z)
    BY <2>4, <2>8, <2>11 DEF Sound
  <2>13. After(st, z) /\ z.last = n /\ n \in z.rules
    BY <1>1, <1>2, <2>0, <2>4, <2>9 DEF After, Same, Extended
  <2> QED BY <1>0, <2>12, <2>13
<1> QED BY <1>7, <1>8

\* What may come from a list is a rule that is there, or can be made.
EntriesFit(st, entries) ==
  \A e \in ToSet(entries) :
     IF "rule" \in DOMAIN e THEN RuleFits(st, e.rule) ELSE st.ok => e.name \in st.rules

LEMMA EntriesFitLater ==
  ASSUME NEW st, NEW z, After(st, z), NEW entries, EntriesFit(st, entries)
  PROVE  EntriesFit(z, entries)
BY RuleFitsLater DEF EntriesFit, After

\* An error ends the run, and what was called for stays.
LEMMA ErrorIs ==
  ASSUME NEW st, Sound(st)
  PROVE  LET z == Error(st) IN Sound(z) /\ After(st, z) /\ ~z.ok
<1> DEFINE z == Error(st)
<1>1. State(st)
  BY DEF Sound, Base
<1>2. /\ State(z) /\ z.calls = st.calls /\ ~z.ok /\ z.rules = st.rules /\ z.lists = st.lists
      /\ z.limiters = st.limiters /\ z.loaded = st.loaded
  BY <1>1 DEF Error, State
<1> HIDE DEF z
<1>3. Sound(z) /\ After(st, z) /\ ~z.ok
  BY <1>2 DEF Sound, Base, After
<1> QED BY <1>3 DEF z

\* A rule that is to be found under its name afterwards.
LEMMA AddRuleIs ==
  ASSUME NEW st, Sound(st), NEW name, NEW rule, NEW table, RuleFits(st, rule)
  PROVE  LET z == AddRule(st, name, rule, table)
         IN  /\ Sound(z) /\ After(st, z)
             /\ z.ok => z.last \in z.rules
             /\ z.ok /\ name # None => name \in z.rules
<1> DEFINE y == Named(st, "rule", name, table)
           x == MakeRule(y, y.last, rule)
           z == AddRule(st, name, rule, table)
<1>1. CASE ~st.ok
  <2>1. z = st
    BY <1>1 DEF AddRule
  <2> QED BY <1>1, <2>1, AfterSelf
<1>2. CASE st.ok /\ name \in st.rules
  <2>1. z = Error(st)
    BY <1>2 DEF AddRule
  <2> QED BY <2>1, ErrorIs
<1>3. CASE st.ok /\ name \notin st.rules
  <2>1. z = x
    BY <1>3 DEF AddRule
  <2>2. Sound(y) /\ After(st, y)
    BY NamedIs
  <2>3. name # None => y.last = name
    <3>1. State(st)
      BY DEF Sound, Base
    <3> QED BY <3>1 DEF Named, State
  <2> HIDE DEF y, z
  <2>4. Sound(x) /\ After(y, x) /\ x.last = y.last /\ y.last \in x.rules
    <3>1. RuleFits(y, rule)
      BY <2>2, RuleFitsLater
    <3> QED BY <2>2, <3>1, MakeRuleIs
  <2> HIDE DEF x
  <2>5. After(st, x)
    BY <2>2, <2>4, AfterTwice
  <2> QED BY <2>1, <2>3, <2>4, <2>5 DEF z
<1> QED BY <1>1, <1>2, <1>3

\* The state with another name for the thing that was made last.
LEMMA LastIs ==
  ASSUME NEW st, Sound(st), NEW name
  PROVE  LET z == [st EXCEPT !.last = name]
         IN Sound(z) /\ After(st, z) /\ z.ok = st.ok /\ z.last = name
<1> DEFINE z == [st EXCEPT !.last = name]
<1>1. State(st)
  BY DEF Sound, Base
<1>2. /\ State(z) /\ z.calls = st.calls /\ z.ok = st.ok /\ z.rules = st.rules /\ z.lists = st.lists
      /\ z.limiters = st.limiters /\ z.loaded = st.loaded /\ z.last = name
  BY <1>1 DEF State
<1> HIDE DEF z
<1>3. Sound(z) /\ After(st, z) /\ z.ok = st.ok /\ z.last = name
  BY <1>2 DEF Sound, Base, After
<1> QED BY <1>3 DEF z

\* Where the entries of a list have led.
Listing(st, acc) ==
  /\ Sound(acc.st) /\ After(st, acc.st) /\ Array(acc.names)
  /\ acc.st.ok => \A r \in ToSet(acc.names) : r \in acc.st.rules

\* A name more among those of a list.
LEMMA EntryIs ==
  ASSUME NEW st, NEW acc, Listing(st, acc), NEW z, Sound(z), After(acc.st, z), z.ok => z.last \in z.rules
  PROVE  Listing(st, Entry(acc, z))
<1> DEFINE b == Entry(acc, z)
<1>1. b.st = z /\ b.names = Append(acc.names, z.last)
  BY DEF Entry
<1> HIDE DEF b
<1>2. Array(b.names) /\ ToSet(b.names) = ToSet(acc.names) \cup {z.last}
  BY <1>1, Appended DEF Listing
<1>3. After(st, z)
  BY AfterTwice DEF Listing
<1>4. z.ok => \A r \in ToSet(b.names) : r \in z.rules
  BY <1>2 DEF Listing, After
<1>5. Listing(st, b)
  BY <1>1, <1>2, <1>3, <1>4 DEF Listing
<1> QED BY <1>5 DEF b

\* An entry of a list: a rule that is there, or one made for it.
LEMMA ListEntryIs ==
  ASSUME NEW st, NEW tables, NEW acc, Listing(st, acc),
         NEW entries, NEW e \in ToSet(entries), EntriesFit(acc.st, entries)
  PROVE  Listing(st, ListEntry(tables, acc, e))
<1>0. Sound(acc.st)
  BY DEF Listing
<1>1. CASE ~acc.st.ok
  BY <1>1 DEF ListEntry
<1>2. CASE acc.st.ok /\ e.name \in acc.st.rules
  <2> DEFINE z == [acc.st EXCEPT !.last = e.name]
  <2>1. Sound(z) /\ After(acc.st, z) /\ z.last = e.name
    BY <1>0, LastIs
  <2>2. ListEntry(tables, acc, e) = Entry(acc, z)
    BY <1>2 DEF ListEntry
  <2> HIDE DEF z
  <2>3. z.last \in z.rules
    BY <1>2, <2>1 DEF After
  <2> QED BY <2>1, <2>2, <2>3, EntryIs
<1>3. CASE acc.st.ok /\ e.name \notin acc.st.rules
  <2> DEFINE table == acc.st.rules \cup tables.rules
             z == AddRule(acc.st, e.name, e.rule, table)
  <2>1. ListEntry(tables, acc, e) = Entry(acc, z)
    BY <1>3 DEF ListEntry
  <2>2. RuleFits(acc.st, e.rule)
    BY <1>3 DEF EntriesFit
  <2> HIDE DEF table
  <2>3. Sound(z) /\ After(acc.st, z) /\ (z.ok => z.last \in z.rules)
    <3>1. PICK name, rule : name = e.name /\ rule = e.rule
      OBVIOUS
    <3>2. PICK a : a = acc.st
      OBVIOUS
    <3> DEFINE y == AddRule(a, name, rule, table)
    <3>3. Sound(y) /\ After(a, y) /\ (y.ok => y.last \in y.rules)
      BY <1>0, <2>2, <3>1, <3>2, AddRuleIs
    <3>4. y = z
      BY <3>1, <3>2
    <3> HIDE DEF y, z
    <3> QED BY <3>2, <3>3, <3>4
  <2> HIDE DEF z
  <2> QED BY <2>1, <2>3, EntryIs
<1> QED BY <1>1, <1>2, <1>3

\* All entries of a list.
LEMMA ListingAll ==
  ASSUME NEW st, Sound(st), NEW tables, NEW entries, Array(entries), EntriesFit(st, entries)
  PROVE  Listing(st, ListEntries(tables, st, entries))
<1> DEFINE base == [st |-> st, names |-> <<>>]
<1>1. Len(entries) \in Nat /\ DOMAIN entries = 1 .. Len(entries)
  BY ArrayFacts
<1>2. Listing(st, base)
  <2>1. Array(<<>>) /\ ToSet(<<>>) = {}
    <3>1. <<>> \in Seq({}) /\ DOMAIN <<>> = {}
      OBVIOUS
    <3> QED BY <3>1, ArrayOf DEF ToSet
  <2>2. base.st = st /\ base.names = <<>>
    OBVIOUS
  <2> HIDE DEF base
  <2> QED BY <2>1, <2>2, AfterSelf DEF Listing
<1> HIDE DEF base
<1>3. PICK f : /\ f[0] = base
               /\ \A i \in 1 .. Len(entries) : f[i] = ListEntry(tables, f[i - 1], entries[i])
               /\ ListEntries(tables, st, entries) = f[Len(entries)]
  BY <1>1, FoldListEntries DEF base
<1> DEFINE J == {i \in 0 .. Len(entries) : Listing(st, f[i])}
<1>4. 0 \in J
  BY <1>1, <1>2, <1>3
<1>5. ASSUME NEW i \in 1 .. Len(entries), i - 1 \in J PROVE i \in J
  <2>1. Listing(st, f[i - 1]) /\ i \in 0 .. Len(entries)
    BY <1>1, <1>5
  <2>2. EntriesFit(f[i - 1].st, entries)
    BY <2>1, EntriesFitLater DEF Listing
  <2>3. entries[i] \in ToSet(entries)
    BY <1>1 DEF ToSet
  <2>4. Listing(st, ListEntry(tables, f[i - 1], entries[i]))
    BY <2>1, <2>2, <2>3, ListEntryIs
  <2> QED BY <1>3, <2>1, <2>4
<1>6. Len(entries) \in J
  <2> HIDE DEF J
  <2>1. 0 .. Len(entries) \subseteq J
    BY <1>1, <1>4, <1>5, UpTo
  <2> QED BY <1>1, <2>1
<1> QED BY <1>3, <1>6 DEF base

\* A list after its rules.
LEMMA MakeListIs ==
  ASSUME NEW st, NEW all, Listing(st, all), NEW n
  PROVE  LET z == MakeList(all, n)
         IN  Sound(z) /\ After(st, z) /\ z.last = n /\ n \in z.lists
<1> DEFINE y == all.st
           x == [y EXCEPT !.lists = @ \cup {n}, !.last = n]
           refs == {Id("rule", r) : r \in ToSet(all.names)}
           z == MakeList(all, n)
<1>1. Sound(y) /\ After(st, y) /\ (y.ok => \A r \in ToSet(all.names) : r \in y.rules)
  BY DEF Listing
<1>2. z = Call(x, Id("list", n), refs, all.names)
  BY DEF MakeList
<1> HIDE DEF y
<1>3. /\ State(x) /\ x.calls = y.calls /\ x.ok = y.ok /\ x.rules = y.rules /\ x.lists = y.lists \cup {n}
      /\ x.limiters = y.limiters /\ x.loaded = y.loaded /\ x.last = n
  <2>1. State(y)
    BY <1>1 DEF Sound, Base
  <2> QED BY <2>1 DEF State
<1> HIDE DEF x
<1>4. Sound(x) /\ After(st, x)
  BY <1>1, <1>3 DEF Sound, Base, After
<1>5. x.ok => Sits(Made(Id("list", n), refs, all.names), x.calls, Len(x.calls))
  <2> SUFFICES ASSUME x.ok PROVE Sits(Made(Id("list", n), refs, all.names), x.calls, Len(x.calls))
    OBVIOUS
  <2>1. \A id \in refs : id[1] = "rule" /\ Has(x.calls, id, Len(x.calls))
    <3>1. \A r \in x.rules : Has(x.calls, Id("rule", r), Len(x.calls))
      BY <1>4 DEF Sound
    <3>2. \A r : Id("rule", r)[1] = "rule"
      BY DEF Id
    <3> QED BY <1>1, <1>3, <3>1, <3>2
  <2> DEFINE call == Made(Id("list", n), refs, all.names)
  <2>2. call.id[1] = "list" /\ call.refs = refs
    BY DEF Made, Id
  <2> HIDE DEF call, refs
  <2> QED BY <2>1, <2>2 DEF Sits, CallTypes, call
<1>6. Id("list", n)[1] \in CallTypes \ {"condition", "action", "string"}
  BY DEF Id, CallTypes
<1> HIDE DEF refs, z
<1>7. Sound(z) /\ After(x, z) /\ Same(x, z)
  BY <1>2, <1>4, <1>5, <1>6, CallIs
<1>8. After(st, z)
  BY <1>4, <1>7, AfterTwice
<1>9. Sound(z) /\ After(st, z) /\ z.last = n /\ n \in z.lists
  BY <1>3, <1>7, <1>8 DEF Same
<1> QED BY <1>9 DEF z

\* A list that is to be found under its name afterwards.
LEMMA AddListIs ==
  ASSUME NEW st, Sound(st), NEW name, NEW entries, NEW tables, Array(entries), EntriesFit(st, entries)
  PROVE  LET z == AddList(st, name, entries, tables)
         IN  /\ Sound(z) /\ After(st, z)
             /\ z.ok => z.last \in z.lists
             /\ z.ok /\ name # None => name \in z.lists
<1> DEFINE y == Named(st, "list", name, st.lists \cup tables.lists)
           all == ListEntries(tables, y, entries)
           x == MakeList(all, y.last)
           z == AddList(st, name, entries, tables)
<1>1. CASE ~st.ok
  <2>1. z = st
    BY <1>1 DEF AddList
  <2> QED BY <1>1, <2>1, AfterSelf
<1>2. CASE st.ok /\ name \in st.lists
  <2>1. z = Error(st)
    BY <1>2 DEF AddList
  <2> QED BY <2>1, ErrorIs
<1>3. CASE st.ok /\ name \notin st.lists
  <2>1. z = x
    BY <1>3 DEF AddList
  <2>2. Sound(y) /\ After(st, y)
    BY NamedIs
  <2>3. name # None => y.last = name
    <3>1. State(st)
      BY DEF Sound, Base
    <3> QED BY <3>1 DEF Named, State
  <2> HIDE DEF y, z
  <2>4. Listing(y, all)
    <3>1. EntriesFit(y, entries)
      BY <2>2, EntriesFitLater
    <3> QED BY <2>2, <3>1, ListingAll
  <2> HIDE DEF all
  <2>5. Sound(x) /\ After(y, x) /\ x.last = y.last /\ y.last \in x.lists
    BY <2>4, MakeListIs
  <2> HIDE DEF x
  <2>6. After(st, x)
    BY <2>2, <2>5, AfterTwice
  <2> QED BY <2>1, <2>3, <2>5, <2>6 DEF z
<1> QED BY <1>1, <1>2, <1>3

\* What may come from a phase is a list that is there, or can be made.
PhaseFits(st, entries) ==
  \A e \in ToSet(entries) :
     IF "list" \in DOMAIN e THEN Array(e.list) /\ EntriesFit(st, e.list) ELSE st.ok => ListName(e) \in st.lists

LEMMA PhaseFitsLater ==
  ASSUME NEW st, NEW z, After(st, z), NEW entries, PhaseFits(st, entries)
  PROVE  PhaseFits(z, entries)
BY EntriesFitLater DEF PhaseFits, After

\* An entry of a phase.
LEMMA PhaseEntryIs ==
  ASSUME NEW tables, NEW acc, Sound(acc.st), NEW entries, NEW e \in ToSet(entries), PhaseFits(acc.st, entries)
  PROVE  LET z == PhaseEntry(tables, acc, e) IN Sound(z.st) /\ After(acc.st, z.st)
<1>1. CASE ~acc.st.ok
  BY <1>1, AfterSelf DEF PhaseEntry
<1>2. CASE acc.st.ok /\ ListName(e) \in acc.st.lists
  <2> DEFINE z == [acc.st EXCEPT !.last = ListName(e)]
  <2>1. Sound(z) /\ After(acc.st, z)
    BY LastIs
  <2>2. PhaseEntry(tables, acc, e).st = z
    BY <1>2 DEF PhaseEntry, Entry
  <2> HIDE DEF z
  <2> QED BY <2>1, <2>2
<1>3. CASE acc.st.ok /\ ListName(e) \notin acc.st.lists
  <2> DEFINE z == AddList(acc.st, ListName(e), e.list, tables)
  <2>1. PhaseEntry(tables, acc, e).st = z
    BY <1>3 DEF PhaseEntry, Entry
  <2>2. Array(e.list) /\ EntriesFit(acc.st, e.list)
    BY <1>3 DEF PhaseFits
  <2>3. Sound(z) /\ After(acc.st, z)
    <3>1. PICK a, name, list : a = acc.st /\ name = ListName(e) /\ list = e.list
      OBVIOUS
    <3> DEFINE y == AddList(a, name, list, tables)
    <3>2. Sound(y) /\ After(a, y)
      BY <2>2, <3>1, AddListIs
    <3>3. y = z
      BY <3>1
    <3> HIDE DEF y, z
    <3> QED BY <3>1, <3>2, <3>3
  <2> HIDE DEF z
  <2> QED BY <2>1, <2>3
<1> QED BY <1>1, <1>2, <1>3

\* A phase, or the error that there is none of that name.
LEMMA AddPhaseIs ==
  ASSUME NEW st, Sound(st), NEW name, NEW entries, NEW tables, Array(entries), PhaseFits(st, entries)
  PROVE  LET z == AddPhase(st, name, entries, tables) IN Sound(z) /\ After(st, z)
<1> DEFINE base == [st |-> st, names |-> <<>>]
           all == PhaseEntries(tables, st, entries)
           z == AddPhase(st, name, entries, tables)
<1>1. CASE ~st.ok
  <2>1. z = st
    BY <1>1 DEF AddPhase
  <2> QED BY <2>1, AfterSelf
<1>2. CASE st.ok /\ name \notin PossiblePhases
  <2>1. z = Error(st)
    BY <1>2 DEF AddPhase
  <2> QED BY <2>1, ErrorIs
<1>3. CASE st.ok /\ name \in PossiblePhases
  <2>1. z = MakePhase(all, name)
    BY <1>3 DEF AddPhase
  <2>2. Len(entries) \in Nat /\ DOMAIN entries = 1 .. Len(entries)
    BY ArrayFacts
  <2>3. base.st = st
    OBVIOUS
  <2> HIDE DEF base
  <2>4. PICK f : /\ f[0] = base
                 /\ \A i \in 1 .. Len(entries) : f[i] = PhaseEntry(tables, f[i - 1], entries[i])
                 /\ all = f[Len(entries)]
    BY <2>2, FoldPhaseEntries DEF base
  <2> DEFINE J == {i \in 0 .. Len(entries) : Sound(f[i].st) /\ After(st, f[i].st)}
  <2>5. 0 \in J
    BY <2>2, <2>3, <2>4, AfterSelf
  <2>6. ASSUME NEW i \in 1 .. Len(entries), i - 1 \in J PROVE i \in J
    <3>1. Sound(f[i - 1].st) /\ After(st, f[i - 1].st) /\ i \in 0 .. Len(entries)
      BY <2>2, <2>6
    <3>2. PhaseFits(f[i - 1].st, entries)
      BY <3>1, PhaseFitsLater
    <3>3. entries[i] \in ToSet(entries)
      BY <2>2 DEF ToSet
    <3>4. Sound(f[i].st) /\ After(f[i - 1].st, f[i].st)
      BY <2>4, <3>1, <3>2, <3>3, PhaseEntryIs
    <3>5. After(st, f[i].st)
      BY <3>1, <3>4, AfterTwice
    <3> QED BY <3>1, <3>4, <3>5
  <2>7. Len(entries) \in J
    <3> HIDE DEF J
    <3>1. 0 .. Len(entries) \subseteq J
      BY <2>2, <2>5, <2>6, UpTo
    <3> QED BY <2>2, <3>1
  <2>8. Sound(all.st) /\ After(st, all.st)
    BY <2>4, <2>7
  <2> HIDE DEF all, J
  <2> DEFINE refs == {Id("list", l) : l \in ToSet(all.names)}
             call == Made(Id("phase", name), refs, all.names)
  <2>9. Id("phase", name)[1] \in CallTypes \ {"condition", "action", "string"}
    BY DEF Id, CallTypes
  <2>10. Sits(call, all.st.calls, Len(all.st.calls))
    <3>1. call.id[1] = "phase"
      BY DEF Made, Id
    <3> HIDE DEF call
    <3> QED BY <3>1 DEF Sits, CallTypes
  <2>11. z = Call(all.st, Id("phase", name), refs, all.names)
    BY <2>1 DEF MakePhase
  <2> HIDE DEF refs, z
  <2>12. Sound(z) /\ After(all.st, z)
    BY <2>8, <2>9, <2>10, <2>11, CallIs
  <2>13. After(st, z)
    BY <2>8, <2>12, AfterTwice
  <2> QED BY <2>12, <2>13 DEF z
<1> QED BY <1>1, <1>2, <1>3

-----------------------------------------------------------------------------
(* A limiter, and the whole run.                                           *)

\* The chain of burst limiters is an array, and the limiter is in it.
LEMMA ChainIs ==
  ASSUME NEW doc, NEW there, NEW n, IsFiniteSet(DOMAIN doc.limiters)
  PROVE  LET c == Chain(doc, there, n)
         IN  Array(c) /\ n \in ToSet(c)
<1> DEFINE N == Cardinality(DOMAIN doc.limiters)
           step(c) == LET b == Burst(doc, Last(c))
                      IN IF b = None \/ b \in there \cup ToSet(c) THEN c ELSE Append(c, b)
           Rec(h, m) == h = [k \in 0 .. m |-> IF k = 0 THEN <<n>> ELSE step(h[k - 1])]
           chain == CHOOSE h : Rec(h, N)
           J == {m \in 0 .. N : \E h : Rec(h, m)}
<1>0. N \in Nat
  BY FS_CardinalityType
<1>1. Chain(doc, there, n) = chain[N]
  BY DEF Chain
<1> HIDE DEF N, step
<1>2. 0 \in J
  <2> DEFINE h == [k \in 0 .. 0 |-> <<n>>]
  <2>1. \A k \in 0 .. 0 : k = 0
    OBVIOUS
  <2>2. Rec(h, 0)
    BY <2>1
  <2>3. 0 \in 0 .. N
    BY <1>0
  <2> HIDE DEF Rec, h
  <2> QED BY <2>2, <2>3
<1>3. ASSUME NEW m \in 1 .. N, m - 1 \in J PROVE m \in J
  <2>1. PICK h : Rec(h, m - 1)
    BY <1>3
  <2> DEFINE g == [k \in 0 .. m |-> IF k = m THEN step(h[m - 1]) ELSE h[k]]
  <2>2. ASSUME NEW k \in 0 .. m
        PROVE  g[k] = IF k = 0 THEN <<n>> ELSE step(g[k - 1])
    <3>1. CASE k = m
      <4>1. k # 0 /\ k - 1 \in 0 .. m /\ k - 1 # m
        BY <3>1, <1>0
      <4> QED BY <3>1, <4>1
    <3>2. CASE k # m
      <4>1. k \in 0 .. (m - 1) /\ (k # 0 => k - 1 \in 0 .. m /\ k - 1 # m)
        BY <3>2, <1>0
      <4>2. h[k] = IF k = 0 THEN <<n>> ELSE step(h[k - 1])
        BY <2>1, <4>1
      <4> QED BY <3>2, <4>1, <4>2
    <3> QED BY <3>1, <3>2
  <2>3. g = [k \in 0 .. m |-> g[k]]
    OBVIOUS
  <2> HIDE DEF g
  <2>4. Rec(g, m)
    BY <2>2, <2>3
  <2>5. m \in 0 .. N
    BY <1>0
  <2> HIDE DEF Rec
  <2> QED BY <2>4, <2>5
<1>4. N \in J
  <2> HIDE DEF J
  <2>1. 0 .. N \subseteq J
    BY <1>0, <1>2, <1>3, UpTo
  <2> QED BY <1>0, <2>1
<1>5. Rec(chain, N)
  BY <1>4
<1> HIDE DEF chain
<1>6. \A k \in 0 .. N : chain[k] = IF k = 0 THEN <<n>> ELSE step(chain[k - 1])
  BY <1>5
<1> HIDE DEF Rec, J
<1> DEFINE K == {k \in 0 .. N : Array(chain[k]) /\ n \in ToSet(chain[k])}
<1>7. 0 \in K
  <2>1. chain[0] = <<n>> /\ 0 \in 0 .. N
    BY <1>0, <1>6
  <2>2. Array(<<n>>) /\ n \in ToSet(<<n>>)
    BY SingleArray DEF ToSet
  <2> QED BY <2>1, <2>2
<1>8. ASSUME NEW k \in 1 .. N, k - 1 \in K PROVE k \in K
  <2>1. k \in 0 .. N /\ k # 0 /\ Array(chain[k - 1]) /\ n \in ToSet(chain[k - 1])
    BY <1>0, <1>8
  <2>2. chain[k] = step(chain[k - 1])
    BY <1>6, <2>1
  <2>3. PICK c : c = chain[k - 1]
    OBVIOUS
  <2>4. step(c) = c \/ \E b : step(c) = Append(c, b)
    BY DEF step
  <2>5. \A b : Array(Append(c, b)) /\ n \in ToSet(Append(c, b))
    BY <2>1, <2>3, Appended
  <2> QED BY <2>1, <2>2, <2>3, <2>4, <2>5
<1>9. N \in K
  <2> HIDE DEF K
  <2>1. 0 .. N \subseteq K
    BY <1>0, <1>7, <1>8, UpTo
  <2> QED BY <1>0, <2>1
<1> QED BY <1>1, <1>9

\* A reversed array has the same elements.
LEMMA Reversed ==
  ASSUME NEW s, Array(s)
  PROVE  Array(Reverse(s)) /\ ToSet(Reverse(s)) = ToSet(s)
<1>1. Len(s) \in Nat /\ DOMAIN s = 1 .. Len(s)
  BY ArrayFacts
<1> DEFINE r == Reverse(s)
<1>2. r = [i \in 1 .. Len(s) |-> s[(Len(s) - i) + 1]]
  BY DEF Reverse
<1> HIDE DEF r
<1>3. DOMAIN r = 1 .. Len(s) /\ r = [i \in 1 .. Len(s) |-> r[i]]
  BY <1>2
<1>4. Array(r)
  BY <1>1, <1>3, ArrayIs
<1>5. ASSUME NEW i \in 1 .. Len(s)
      PROVE  /\ (Len(s) - i) + 1 \in 1 .. Len(s)
             /\ r[i] = s[(Len(s) - i) + 1]
             /\ r[(Len(s) - i) + 1] = s[i]
  <2>1. (Len(s) - i) + 1 \in 1 .. Len(s) /\ (Len(s) - ((Len(s) - i) + 1)) + 1 = i
    BY <1>1
  <2> QED BY <1>2, <2>1
<1>6. ASSUME NEW x \in ToSet(r) PROVE x \in ToSet(s)
  <2>1. PICK i \in 1 .. Len(s) : x = r[i]
    BY <1>3 DEF ToSet
  <2>2. (Len(s) - i) + 1 \in DOMAIN s /\ x = s[(Len(s) - i) + 1]
    BY <1>1, <1>5, <2>1
  <2> QED BY <2>2 DEF ToSet
<1>7. ASSUME NEW x \in ToSet(s) PROVE x \in ToSet(r)
  <2>1. PICK i \in 1 .. Len(s) : x = s[i]
    BY <1>1 DEF ToSet
  <2>2. (Len(s) - i) + 1 \in DOMAIN r /\ x = r[(Len(s) - i) + 1]
    BY <1>3, <1>5, <2>1
  <2> QED BY <2>2 DEF ToSet
<1>8. ToSet(r) = ToSet(s)
  BY <1>6, <1>7
<1> QED BY <1>4, <1>8 DEF r

\* An array without its first element.
LEMMA TailArray ==
  ASSUME NEW s, Array(s), Len(s) # 0
  PROVE  Array(Tail(s)) /\ Len(Tail(s)) = Len(s) - 1 /\ \A i \in 1 .. Len(s) - 1 : Tail(s)[i] = s[i + 1]
<1> DEFINE S == Range(s)
<1>1. s \in Seq(S)
  BY DEF Array
<1> HIDE DEF S
<1>2. s # <<>>
  BY <1>1
<1>3. Tail(s) \in Seq(S) /\ Len(Tail(s)) = Len(s) - 1 /\ \A i \in 1 .. Len(s) - 1 : Tail(s)[i] = s[i + 1]
  BY <1>1, <1>2, HeadTailProperties
<1> QED BY <1>3, ArrayOf

\* What was loaded ahead of its turn.
Ahead(st) == st.ok => \A l \in st.loaded : Has(st.calls, Id("limiter", l), Len(st.calls))

\* A limiter, after the burst limiters that are created with it.
LEMMA AddLimiterIs ==
  ASSUME NEW st, Sound(st), Ahead(st), NEW doc, NEW n, IsFiniteSet(DOMAIN doc.limiters)
  PROVE  LET z == AddLimiter(doc, st, n)
         IN  /\ Sound(z) /\ Ahead(z) /\ z.rules = st.rules /\ z.lists = st.lists /\ z.ok = st.ok
             /\ \A id : Has(st.calls, id, Len(st.calls)) => Has(z.calls, id, Len(z.calls))
             /\ z.ok => Has(z.calls, Id("limiter", n), Len(z.calls))
<1> DEFINE z == AddLimiter(doc, st, n)
<1>0. State(st) /\ Base(st)
  BY DEF Sound, Base
<1>1. CASE n \in st.loaded
  <2>1. z = [st EXCEPT !.loaded = @ \ {n}]
    BY <1>1 DEF AddLimiter
  <2> HIDE DEF z
  <2>2. /\ State(z) /\ z.calls = st.calls /\ z.ok = st.ok /\ z.rules = st.rules /\ z.lists = st.lists
        /\ z.loaded = st.loaded \ {n}
    BY <1>0, <2>1 DEF State
  <2>3. Sound(z) /\ Ahead(z)
    BY <2>2 DEF Sound, Base, Ahead
  <2> QED BY <1>1, <2>2, <2>3 DEF Ahead, z
<1>2. CASE n \notin st.loaded
  <2> DEFINE c == Chain(doc, st.limiters, n)
             each == [i \in DOMAIN c |-> LimiterCall(doc, c[i], i < Len(c))]
             t == Reverse(each)
             y == CallEach(st, t)
             more == ToSet(Tail(c))
  <2>1. z = [y EXCEPT !.limiters = @ \cup ToSet(c), !.loaded = @ \cup more]
    BY <1>2 DEF AddLimiter
  <2> HIDE DEF z
  <2>2. Array(c) /\ n \in ToSet(c)
    BY ChainIs
  <2> HIDE DEF c
  <2>3. Len(c) \in Nat /\ DOMAIN c = 1 .. Len(c)
    BY <2>2, ArrayFacts
  <2>4. DOMAIN each = 1 .. Len(c) /\ each = [i \in 1 .. Len(c) |-> each[i]]
    BY <2>3
  <2>5. ASSUME NEW i \in 1 .. Len(c) PROVE each[i].id = Id("limiter", c[i])
    BY <2>3 DEF LimiterCall, Made
  <2> HIDE DEF each
  <2>6. Array(each)
    BY <2>3, <2>4, ArrayIs
  <2>7. Array(t) /\ ToSet(t) = ToSet(each)
    BY <2>6, Reversed
  <2> HIDE DEF t
  <2>8. \A call \in ToSet(t) : call.id[1] = "limiter"
    <3>1. \A x : Id("limiter", x)[1] = "limiter"
      BY DEF Id
    <3>2. ASSUME NEW call \in ToSet(each) PROVE call.id[1] = "limiter"
      <4>1. PICK i \in 1 .. Len(c) : call = each[i]
        BY <2>4 DEF ToSet
      <4>2. call.id = Id("limiter", c[i])
        BY <2>5, <4>1
      <4> QED BY <3>1, <4>2
    <3> QED BY <2>7, <3>2
  <2>9. ASSUME NEW l \in ToSet(c) PROVE \E call \in ToSet(t) : call.id = Id("limiter", l)
    <3>1. PICK i \in 1 .. Len(c) : l = c[i]
      BY <2>3 DEF ToSet
    <3>2. each[i] \in ToSet(t)
      BY <2>4, <2>7 DEF ToSet
    <3>3. each[i].id = Id("limiter", l)
      BY <2>5, <3>1
    <3> QED BY <3>2, <3>3
  <2>10. Fits(st.calls, t)
    BY <2>8 DEF Fits, Sits, CallTypes
  <2>11. Base(y) /\ Same(st, y) /\ y.ok = st.ok /\ (st.ok => y.calls = st.calls \o t) /\ (~st.ok => y = st)
    BY <1>0, <2>7, <2>10, CallEachIs
  <2> HIDE DEF y
  <2>12. \A id : Has(st.calls, id, Len(st.calls)) => Has(y.calls, id, Len(y.calls))
    <3>1. PICK a : a = st.calls
      OBVIOUS
    <3>2. \A id : Has(a, id, Len(a)) => Has(a \o t, id, Len(a \o t))
      BY <1>0, <2>7, <3>1, HasMore DEF Base
    <3> QED BY <2>11, <3>1, <3>2
  <2>13. ASSUME st.ok, NEW l \in ToSet(c) PROVE Has(y.calls, Id("limiter", l), Len(y.calls))
    <3>1. PICK call \in ToSet(t) : call.id = Id("limiter", l)
      BY <2>9
    <3>2. PICK a : a = st.calls
      OBVIOUS
    <3>3. Array(a) /\ ToSet(a \o t) = ToSet(a) \cup ToSet(t)
      BY <1>0, <2>7, <3>2, Joined DEF Base
    <3>4. Array(y.calls) /\ call \in ToSet(y.calls)
      BY <2>11, <2>13, <3>1, <3>2, <3>3 DEF Base
    <3> QED BY <3>1, <3>4, HasSome
  <2>14. Sound(y)
    <3>1. CASE st.ok
      <4>1. Owned(st.calls) /\ \A r \in st.rules : Has(st.calls, Id("rule", r), Len(st.calls))
        BY <3>1 DEF Sound
      <4>2. Owned(y.calls)
        <5>1. PICK a : a = st.calls
          OBVIOUS
        <5>2. Array(a) /\ Owned(a)
          BY <1>0, <4>1, <5>1 DEF Base
        <5>3. Owned(a \o t)
          BY <2>7, <2>8, <5>2, OwnedMore
        <5> QED BY <2>11, <3>1, <5>1, <5>3
      <4> QED BY <2>11, <2>12, <4>1, <4>2 DEF Sound, Same
    <3>2. CASE ~st.ok
      BY <2>11, <3>2 DEF Sound
    <3> QED BY <3>1, <3>2
  <2>15. /\ State(z) /\ z.calls = y.calls /\ z.ok = y.ok /\ z.rules = y.rules /\ z.lists = y.lists
         /\ z.loaded = y.loaded \cup more
    BY <2>1, <2>11 DEF Base, State
  <2>16. \A l \in more : l \in ToSet(c)
    <3>1. Len(c) # 0
      BY <2>2, <2>3 DEF ToSet
    <3>2. Array(Tail(c)) /\ Len(Tail(c)) = Len(c) - 1 /\ \A i \in 1 .. Len(c) - 1 : Tail(c)[i] = c[i + 1]
      BY <2>2, <3>1, TailArray
    <3>3. DOMAIN Tail(c) = 1 .. Len(c) - 1
      BY <3>2, ArrayFacts
    <3>4. \A i \in 1 .. Len(c) - 1 : i + 1 \in 1 .. Len(c)
      BY <2>3
    <3> QED BY <2>3, <3>2, <3>3, <3>4 DEF ToSet
  <2> HIDE DEF more
  <2>17. Sound(z)
    BY <2>14, <2>15 DEF Sound, Base
  <2>18. Ahead(z)
    BY <2>11, <2>12, <2>13, <2>15, <2>16 DEF Ahead, Same
  <2> QED BY <2>2, <2>11, <2>12, <2>13, <2>15, <2>17, <2>18 DEF z, Same
<1> QED BY <1>1, <1>2

\* The things of a document, and those that have their turn before them.
Of(type, table) == {<<type, n>> : n \in DOMAIN table}
AllThings(doc) == 
  Of("limiter", doc.limiters) \cup Of("rule", doc.rules) \cup Of("list", doc.lists) \cup Of("phase", doc.phases)
Needs(doc, type) ==
  CASE type = "limiter" -> {}
    [] type = "rule"    -> Of("limiter", doc.limiters)
    [] type = "list"    -> Of("limiter", doc.limiters) \cup Of("rule", doc.rules)
    [] type = "phase"   -> Of("limiter", doc.limiters) \cup Of("rule", doc.rules) \cup Of("list", doc.lists)

InTurn(doc, s) ==
  \A i \in DOMAIN s :
     /\ s[i] \in AllThings(doc)
     /\ \A x \in Needs(doc, s[i][1]) : \E j \in 1 .. i - 1 : s[j] = x

\* An order of things in which each comes after what it needs.
LEMMA InTurnMore ==
  ASSUME NEW doc, NEW p, NEW q, Array(p), Array(q), InTurn(doc, p),
         \A x \in ToSet(q) : x \in AllThings(doc) /\ Needs(doc, x[1]) \subseteq ToSet(p)
  PROVE  InTurn(doc, p \o q)
<1> DEFINE s == p \o q
<1>1. Len(p) \in Nat /\ Len(q) \in Nat /\ DOMAIN p = 1 .. Len(p) /\ DOMAIN q = 1 .. Len(q)
  BY ArrayFacts
<1>2. /\ Len(s) = Len(p) + Len(q) /\ Array(s)
      /\ \A i \in 1 .. Len(p) : s[i] = p[i]
      /\ \A i \in 1 .. Len(q) : s[Len(p) + i] = q[i]
  BY Joined
<1> HIDE DEF s
<1>3. DOMAIN s = 1 .. Len(p) + Len(q)
  BY <1>2, ArrayFacts
<1>4. ASSUME NEW i \in 1 .. Len(p) + Len(q)
      PROVE  s[i] \in AllThings(doc) /\ \A x \in Needs(doc, s[i][1]) : \E j \in 1 .. i - 1 : s[j] = x
  <2>1. CASE i <= Len(p)
    <3>1. i \in 1 .. Len(p) /\ s[i] = p[i]
      BY <1>1, <1>2, <2>1
    <3>2. \A j \in 1 .. i - 1 : s[j] = p[j]
      BY <1>1, <1>2, <3>1
    <3>3. /\ p[i] \in AllThings(doc)
          /\ \A x \in Needs(doc, p[i][1]) : \E j \in 1 .. i - 1 : p[j] = x
      BY <1>1, <3>1 DEF InTurn
    <3>4. ASSUME NEW x \in Needs(doc, s[i][1]) PROVE \E j \in 1 .. i - 1 : s[j] = x
      <4>1. x \in Needs(doc, p[i][1])
        BY <3>1
      <4>2. PICK j \in 1 .. i - 1 : p[j] = x
        BY <3>3, <4>1
      <4>3. s[j] = x
        BY <3>2, <4>2
      <4> QED BY <4>3
    <3>5. s[i] \in AllThings(doc)
      BY <3>1, <3>3
    <3> QED BY <3>4, <3>5
  <2>2. CASE ~(i <= Len(p))
    <3>1. i - Len(p) \in 1 .. Len(q) /\ Len(p) + (i - Len(p)) = i
      BY <1>1, <2>2
    <3>2. s[i] = q[i - Len(p)]
      BY <1>2, <3>1
    <3>3. s[i] \in ToSet(q)
      BY <1>1, <3>1, <3>2 DEF ToSet
    <3>4. ASSUME NEW x \in ToSet(p) PROVE \E j \in 1 .. i - 1 : s[j] = x
      <4>1. PICK j \in 1 .. Len(p) : x = p[j]
        BY <1>1 DEF ToSet
      <4>2. j \in 1 .. i - 1 /\ s[j] = x
        BY <1>1, <1>2, <2>2, <4>1
      <4> QED BY <4>2
    <3> QED BY <3>3, <3>4
  <2> QED BY <2>1, <2>2
<1> QED BY <1>3, <1>4 DEF InTurn, s

\* Things of one kind, in any order.
LEMMA EachIs ==
  ASSUME NEW type, NEW names, Array(names), NEW table, ToSet(names) = DOMAIN table
  PROVE  LET s == [i \in DOMAIN names |-> <<type, names[i]>>]
         IN  Array(s) /\ ToSet(s) = Of(type, table)
<1> DEFINE s == [i \in DOMAIN names |-> <<type, names[i]>>]
<1>1. Len(names) \in Nat /\ DOMAIN names = 1 .. Len(names)
  BY ArrayFacts
<1>2. DOMAIN s = 1 .. Len(names) /\ s = [i \in 1 .. Len(names) |-> s[i]]
      /\ \A i \in DOMAIN names : s[i] = <<type, names[i]>>
  BY <1>1
<1> HIDE DEF s
<1>3. Array(s)
  BY <1>1, <1>2, ArrayIs
<1>4. ToSet(s) = {<<type, n>> : n \in ToSet(names)}
  <2>1. ASSUME NEW x \in ToSet(s) PROVE \E n \in ToSet(names) : x = <<type, n>>
    <3>1. PICK i \in DOMAIN names : x = s[i]
      BY <1>1, <1>2 DEF ToSet
    <3>2. names[i] \in ToSet(names) /\ x = <<type, names[i]>>
      BY <1>2, <3>1 DEF ToSet
    <3> QED BY <3>2
  <2>2. ASSUME NEW n \in ToSet(names) PROVE <<type, n>> \in ToSet(s)
    <3>1. PICK i \in DOMAIN names : n = names[i]
      BY DEF ToSet
    <3>2. s[i] = <<type, n>> /\ s[i] \in ToSet(s)
      BY <1>1, <1>2, <3>1 DEF ToSet
    <3> QED BY <3>2
  <2> QED BY <2>1, <2>2
<1> QED BY <1>3, <1>4 DEF s, Of

\* Limiters, rules, lists, phases: rules need limiters, lists rules, phases
\* lists.
LEMMA ThingsAre ==
  ASSUME NEW doc, NEW order, \A a \in Attributes : Array(order[a]) /\ ToSet(order[a]) = DOMAIN doc[a]
  PROVE  Array(Things(order)) /\ InTurn(doc, Things(order)) /\ ToSet(Things(order)) = AllThings(doc)
<1> DEFINE Each(type, names) == [i \in DOMAIN names |-> <<type, names[i]>>]
           a == Each("limiter", order.limiters)
           b == Each("rule", order.rules)
           c == Each("list", order.lists)
           d == Each("phase", order.phases)
<1>1. Array(a) /\ ToSet(a) = Of("limiter", doc.limiters)
  BY EachIs DEF Attributes
<1>2. Array(b) /\ ToSet(b) = Of("rule", doc.rules)
  BY EachIs DEF Attributes
<1>3. Array(c) /\ ToSet(c) = Of("list", doc.lists)
  BY EachIs DEF Attributes
<1>4. Array(d) /\ ToSet(d) = Of("phase", doc.phases)
  BY EachIs DEF Attributes
<1>5. Things(order) = ((a \o b) \o c) \o d
  BY DEF Things
<1> HIDE DEF a, b, c, d
<1>6. \A type, table : \A x \in Of(type, table) : x[1] = type
  BY DEF Of
<1>7. /\ Needs(doc, "limiter") = {}
      /\ Needs(doc, "rule") = Of("limiter", doc.limiters)
      /\ Needs(doc, "list") = Of("limiter", doc.limiters) \cup Of("rule", doc.rules)
      /\ Needs(doc, "phase") = Of("limiter", doc.limiters) \cup Of("rule", doc.rules) \cup Of("list", doc.lists)
  BY DEF Needs
<1>8. InTurn(doc, a)
  <2>1. \A i \in DOMAIN a : a[i] \in ToSet(a)
    BY DEF ToSet
  <2>2. \A i \in DOMAIN a : a[i] \in AllThings(doc) /\ a[i][1] = "limiter"
    BY <1>1, <1>6, <2>1 DEF AllThings
  <2> QED BY <1>7, <2>2 DEF InTurn
<1>9. Array(a \o b) /\ ToSet(a \o b) = ToSet(a) \cup ToSet(b) /\ InTurn(doc, a \o b)
  <2>1. \A x \in ToSet(b) : x \in AllThings(doc) /\ Needs(doc, x[1]) \subseteq ToSet(a)
    BY <1>1, <1>2, <1>6, <1>7 DEF AllThings
  <2> QED BY <1>1, <1>2, <1>8, <2>1, InTurnMore, Joined
<1> DEFINE ab == a \o b
<1> HIDE DEF ab
<1>10. Array(ab \o c) /\ ToSet(ab \o c) = ToSet(ab) \cup ToSet(c) /\ InTurn(doc, ab \o c)
  <2>1. Array(ab) /\ InTurn(doc, ab) /\ ToSet(ab) = ToSet(a) \cup ToSet(b)
    BY <1>9 DEF ab
  <2>2. \A x \in ToSet(c) : x \in AllThings(doc) /\ Needs(doc, x[1]) \subseteq ToSet(ab)
    BY <1>1, <1>2, <1>3, <1>6, <1>7, <2>1 DEF AllThings
  <2> QED BY <1>3, <2>1, <2>2, InTurnMore, Joined
<1> DEFINE abc == ab \o c
<1> HIDE DEF abc
<1>11. Array(abc \o d) /\ ToSet(abc \o d) = ToSet(abc) \cup ToSet(d) /\ InTurn(doc, abc \o d)
  <2>1. Array(abc) /\ InTurn(doc, abc) /\ ToSet(abc) = ToSet(a) \cup ToSet(b) \cup ToSet(c)
    BY <1>9, <1>10 DEF abc, ab
  <2>2. \A x \in ToSet(d) : x \in AllThings(doc) /\ Needs(doc, x[1]) \subseteq ToSet(abc)
    BY <1>1, <1>2, <1>3, <1>4, <1>6, <1>7, <2>1 DEF AllThings
  <2> QED BY <1>4, <2>1, <2>2, InTurnMore, Joined
<1>12. Things(order) = abc \o d
  BY <1>5 DEF abc, ab
<1>13. ToSet(abc \o d) = AllThings(doc)
  BY <1>1, <1>2, <1>3, <1>4, <1>9, <1>10, <1>11 DEF abc, ab, AllThings
<1> QED BY <1>11, <1>12, <1>13

-----------------------------------------------------------------------------
(* What is known once its turn is over.                                    *)
Done(st, x) ==
  st.ok =>
    /\ x[1] = "limiter" => Has(st.calls, Id("limiter", x[2]), Len(st.calls))
    /\ x[1] = "rule" => x[2] \in st.rules
    /\ x[1] = "list" => x[2] \in st.lists

LimitersDone(doc, st) == \A l \in DOMAIN doc.limiters : Done(st, <<"limiter", l>>)
RulesDone(doc, st) == \A r \in DOMAIN doc.rules : Done(st, <<"rule", r>>)
ListsDone(doc, st) == \A l \in DOMAIN doc.lists : Done(st, <<"list", l>>)

\* What a rule of the document needs was created in its turn.
LEMMA DocRuleFits ==
  ASSUME NEW doc, NEW st, LimitersDone(doc, st), NEW rule, RuleOK(doc, rule), IsFiniteSet(rule.conds)
  PROVE  RuleFits(st, rule)
<1>1. ASSUME st.ok, NEW c \in Leaves(rule) \ BuiltIn PROVE Has(st.calls, Id("limiter", c), Len(st.calls))
  <2>1. c \in rule.conds
    BY <1>1 DEF Leaves, BuiltIn, Simple
  <2>2. c \in DOMAIN doc.limiters
    BY <1>1, <2>1 DEF RuleOK, ConditionOK, LimitOK
  <2>3. Done(st, <<"limiter", c>>)
    BY <2>2 DEF LimitersDone
  <2> QED BY <1>1, <2>3 DEF Done
<1> QED BY <1>1 DEF RuleFits, RuleOK, Limited

LEMMA DocEntriesFit ==
  ASSUME NEW doc, NEW st, LimitersDone(doc, st), RulesDone(doc, st),
         NEW entries, EntriesOK(doc, entries), EntriesRead(entries)
  PROVE  Array(entries) /\ EntriesFit(st, entries)
<1>1. ASSUME NEW i \in DOMAIN entries, "rule" \in DOMAIN entries[i] PROVE RuleFits(st, entries[i].rule)
  BY <1>1, DocRuleFits DEF EntriesOK, EntriesRead
<1>2. ASSUME NEW i \in DOMAIN entries, "rule" \notin DOMAIN entries[i], st.ok PROVE entries[i].name \in st.rules
  <2>1. entries[i].name \in DOMAIN doc.rules
    BY <1>2 DEF EntriesOK
  <2> QED BY <1>2, <2>1 DEF RulesDone, Done
<1> QED BY <1>1, <1>2 DEF EntriesFit, EntriesRead, ToSet

LEMMA DocPhaseFits ==
  ASSUME NEW doc, NEW st, LimitersDone(doc, st), RulesDone(doc, st), ListsDone(doc, st),
         Accepts(doc), IsRead(doc), NEW n \in DOMAIN doc.phases
  PROVE  Array(doc.phases[n]) /\ PhaseFits(st, doc.phases[n])
<1> DEFINE entries == doc.phases[n]
<1>1. Array(entries) /\ PhaseOK(doc, entries)
      /\ \A i \in DOMAIN entries : "list" \in DOMAIN entries[i] => EntriesRead(entries[i].list)
  BY DEF Accepts, IsRead
<1> HIDE DEF entries
<1>2. ASSUME NEW i \in DOMAIN entries, "list" \in DOMAIN entries[i]
      PROVE  Array(entries[i].list) /\ EntriesFit(st, entries[i].list)
  BY <1>1, <1>2, DocEntriesFit DEF PhaseOK
<1>3. ASSUME NEW i \in DOMAIN entries, "list" \notin DOMAIN entries[i], st.ok PROVE ListName(entries[i]) \in st.lists
  <2>1. ListName(entries[i]) \in DOMAIN doc.lists
    BY <1>1, <1>3 DEF PhaseOK
  <2> QED BY <1>3, <2>1 DEF ListsDone, Done
<1> QED BY <1>1, <1>2, <1>3 DEF PhaseFits, ToSet, entries

LEMMA DoneLater ==
  ASSUME NEW st, NEW z, After(st, z), NEW x, Done(st, x)
  PROVE  Done(z, x)
BY DEF Done, After

LEMMA AheadLater ==
  ASSUME NEW st, NEW z, After(st, z), Ahead(st)
  PROVE  Ahead(z)
BY DEF Ahead, After

\* A thing of the document in its turn.
LEMMA AddThingIs ==
  ASSUME NEW doc, Accepts(doc), IsRead(doc), NEW tables, NEW st, Sound(st), Ahead(st),
         NEW x \in AllThings(doc), \A y \in Needs(doc, x[1]) : Done(st, y)
  PROVE  LET z == AddThing(doc, tables, st, x[1], x[2])
         IN  /\ Sound(z) /\ Ahead(z) /\ Done(z, x)
             /\ \A y : Done(st, y) => Done(z, y)
<1> DEFINE z == AddThing(doc, tables, st, x[1], x[2])
<1>0. \A a \in Attributes : IsFiniteSet(DOMAIN doc[a]) /\ None \notin DOMAIN doc[a]
  BY DEF IsRead
<1>1. ASSUME NEW n \in DOMAIN doc.limiters, x = <<"limiter", n>>
      PROVE  Sound(z) /\ Ahead(z) /\ Done(z, x) /\ \A y : Done(st, y) => Done(z, y)
  <2>1. z = AddLimiter(doc, st, n)
    BY <1>1 DEF AddThing
  <2> HIDE DEF z
  <2>2. IsFiniteSet(DOMAIN doc.limiters)
    BY <1>0 DEF Attributes
  <2>3. /\ Sound(z) /\ Ahead(z) /\ z.rules = st.rules /\ z.lists = st.lists /\ z.ok = st.ok
        /\ \A id : Has(st.calls, id, Len(st.calls)) => Has(z.calls, id, Len(z.calls))
        /\ z.ok => Has(z.calls, Id("limiter", n), Len(z.calls))
    BY <2>1, <2>2, AddLimiterIs
  <2>4. x[1] = "limiter" /\ x[2] = n
    BY <1>1
  <2>5. Done(z, x)
    BY <2>3, <2>4 DEF Done
  <2>6. \A y : Done(st, y) => Done(z, y)
    BY <2>3 DEF Done
  <2> QED BY <2>3, <2>5, <2>6
<1>2. ASSUME NEW n \in DOMAIN doc.rules, x = <<"rule", n>>
      PROVE  Sound(z) /\ Ahead(z) /\ Done(z, x) /\ \A y : Done(st, y) => Done(z, y)
  <2>1. z = AddRule(st, n, doc.rules[n], {})
    BY <1>2 DEF AddThing
  <2> HIDE DEF z
  <2>2. x[1] = "rule" /\ x[2] = n
    BY <1>2
  <2>3. LimitersDone(doc, st)
    BY <2>2 DEF LimitersDone, Needs, Of
  <2>4. RuleOK(doc, doc.rules[n]) /\ IsFiniteSet(doc.rules[n].conds)
    BY DEF Accepts, IsRead
  <2>5. RuleFits(st, doc.rules[n])
    BY <2>3, <2>4, DocRuleFits
  <2>6. n # None
    BY <1>0 DEF Attributes
  <2>7. Sound(z) /\ After(st, z) /\ (z.ok => n \in z.rules)
    BY <2>1, <2>5, <2>6, AddRuleIs
  <2> QED BY <2>2, <2>7, DoneLater, AheadLater DEF Done
<1>3. ASSUME NEW n \in DOMAIN doc.lists, x = <<"list", n>>
      PROVE  Sound(z) /\ Ahead(z) /\ Done(z, x) /\ \A y : Done(st, y) => Done(z, y)
  <2>1. z = AddList(st, n, doc.lists[n], tables)
    BY <1>3 DEF AddThing
  <2> HIDE DEF z
  <2>2. x[1] = "list" /\ x[2] = n
    BY <1>3
  <2>3. LimitersDone(doc, st) /\ RulesDone(doc, st)
    BY <2>2 DEF LimitersDone, RulesDone, Needs, Of
  <2>4. EntriesOK(doc, doc.lists[n]) /\ EntriesRead(doc.lists[n])
    BY DEF Accepts, IsRead
  <2>5. Array(doc.lists[n]) /\ EntriesFit(st, doc.lists[n])
    BY <2>3, <2>4, DocEntriesFit
  <2>6. n # None
    BY <1>0 DEF Attributes
  <2>7. Sound(z) /\ After(st, z) /\ (z.ok => n \in z.lists)
    BY <2>1, <2>5, <2>6, AddListIs
  <2> QED BY <2>2, <2>7, DoneLater, AheadLater DEF Done
<1>4. ASSUME NEW n \in DOMAIN doc.phases, x = <<"phase", n>>
      PROVE  Sound(z) /\ Ahead(z) /\ Done(z, x) /\ \A y : Done(st, y) => Done(z, y)
  <2>1. z = AddPhase(st, n, doc.phases[n], tables)
    BY <1>4 DEF AddThing
  <2> HIDE DEF z
  <2>2. x[1] = "phase" /\ x[2] = n
    BY <1>4
  <2>3. LimitersDone(doc, st) /\ RulesDone(doc, st) /\ ListsDone(doc, st)
    BY <2>2 DEF LimitersDone, RulesDone, ListsDone, Needs, Of
  <2>5. Array(doc.phases[n]) /\ PhaseFits(st, doc.phases[n])
    BY <2>3, DocPhaseFits
  <2>7. Sound(z) /\ After(st, z)
    BY <2>1, <2>5, AddPhaseIs
  <2> QED BY <2>2, <2>7, DoneLater, AheadLater DEF Done
<1> QED BY <1>1, <1>2, <1>3, <1>4 DEF AllThings, Of

\* The run before the first thing.
LEMMA StartIs ==
  ASSUME NEW counts
  PROVE  Sound(Start(counts)) /\ Ahead(Start(counts)) /\ Start(counts).ok
<1> DEFINE z == Start(counts)
<1>1. /\ State(z) /\ z.calls = <<>> /\ z.rules = {} /\ z.loaded = {} /\ z.ok
  BY DEF Start, State
<1> HIDE DEF z
<1>2. Array(<<>>) /\ Linked(<<>>) /\ Owned(<<>>)
  <2>1. <<>> \in Seq({}) /\ DOMAIN <<>> = {}
    OBVIOUS
  <2> QED BY <2>1, ArrayOf DEF Linked, Owned
<1>3. Sound(z) /\ Ahead(z) /\ z.ok
  BY <1>1, <1>2 DEF Sound, Base, Ahead
<1> QED BY <1>3 DEF z

\* What Ruleset.new calls for: everything after what it is given, and, unless
\* an error was raised, all parts with their rules, and the ruleset.
LEMMA NewIs ==
  ASSUME NEW doc, Accepts(doc), IsRead(doc), NEW order, \A a \in Attributes : order[a] \in SetToSeqs(DOMAIN doc[a]),
         NEW counts, NEW tables
  PROVE  LET z == New(doc, order, counts, tables)
         IN  /\ Array(z.calls) /\ Linked(z.calls) /\ z.ok \in BOOLEAN
             /\ z.ok => Owned(z.calls) /\ Has(z.calls, RulesetId, Len(z.calls))
<1> DEFINE s == Things(order)
           base == Start(counts)
           y == AddThings(doc, tables, base, s)
           z == New(doc, order, counts, tables)
<1>1. Array(s) /\ InTurn(doc, s)
  <2>1. \A a \in Attributes : Array(order[a]) /\ ToSet(order[a]) = DOMAIN doc[a]
    BY AnyOrder DEF IsRead
  <2> QED BY <2>1, ThingsAre
<1> HIDE DEF s
<1>2. Len(s) \in Nat /\ DOMAIN s = 1 .. Len(s)
  BY <1>1, ArrayFacts
<1>3. Sound(base) /\ Ahead(base)
  BY StartIs
<1> HIDE DEF base
<1>4. PICK f : /\ f[0] = base
               /\ \A i \in 1 .. Len(s) : f[i] = AddThing(doc, tables, f[i - 1], s[i][1], s[i][2])
               /\ y = f[Len(s)]
  BY <1>2, FoldThings
<1> DEFINE J == {i \in 0 .. Len(s) : Sound(f[i]) /\ Ahead(f[i]) /\ \A j \in 1 .. i : Done(f[i], s[j])}
<1>5. 0 \in J
  <2>1. 1 .. 0 = {} /\ 0 \in 0 .. Len(s)
    BY <1>2
  <2> QED BY <1>3, <1>4, <2>1
<1>6. ASSUME NEW i \in 1 .. Len(s), i - 1 \in J PROVE i \in J
  <2>1. Sound(f[i - 1]) /\ Ahead(f[i - 1]) /\ (\A j \in 1 .. i - 1 : Done(f[i - 1], s[j])) /\ i \in 0 .. Len(s)
    BY <1>2, <1>6
  <2>2. s[i] \in AllThings(doc) /\ \A x \in Needs(doc, s[i][1]) : Done(f[i - 1], x)
    BY <1>1, <1>2, <2>1 DEF InTurn
  <2>3. /\ Sound(f[i]) /\ Ahead(f[i]) /\ Done(f[i], s[i])
        /\ \A x : Done(f[i - 1], x) => Done(f[i], x)
    <3>1. PICK x, a : x = s[i] /\ a = f[i - 1]
      OBVIOUS
    <3> DEFINE b == AddThing(doc, tables, a, x[1], x[2])
    <3>2. Sound(a) /\ Ahead(a) /\ x \in AllThings(doc) /\ \A w \in Needs(doc, x[1]) : Done(a, w)
      BY <2>1, <2>2, <3>1
    <3>3. Sound(b) /\ Ahead(b) /\ Done(b, x) /\ \A w : Done(a, w) => Done(b, w)
      BY <3>2, AddThingIs
    <3>4. b = f[i]
      BY <1>4, <3>1
    <3> HIDE DEF b
    <3> QED BY <3>1, <3>3, <3>4
  <2>4. \A j \in 1 .. i : j = i \/ j \in 1 .. i - 1
    BY <1>2
  <2> QED BY <2>1, <2>3, <2>4
<1>7. Len(s) \in J
  <2> HIDE DEF J
  <2>1. 0 .. Len(s) \subseteq J
    BY <1>2, <1>5, <1>6, UpTo
  <2> QED BY <1>2, <2>1
<1>8. Sound(y)
  BY <1>4, <1>7
<1> HIDE DEF y, J
<1>9. RulesetId[1] \in CallTypes \ {"condition", "action", "string"}
  BY DEF RulesetId, CallTypes
<1>10. Sits(Made(RulesetId, {}, None), y.calls, Len(y.calls))
  BY DEF Sits, Made, RulesetId, CallTypes
<1>11. z = Call(y, RulesetId, {}, None)
  BY DEF New, RulesetId, y, base, s
<1> HIDE DEF z
<1>12. Sound(z) /\ (z.ok => Has(z.calls, RulesetId, Len(z.calls)))
  BY <1>8, <1>9, <1>10, <1>11, CallIs
<1> QED BY <1>12 DEF Sound, Base, State, z

(***************************************************************************)
(* The inductive invariant.                                                *)
(***************************************************************************)
Types == {"limiter", "rule", "list", "condition", "action", "string", "ruleset"}

\* A block says of which element it is.
Block(b) ==
  /\ b.id[1] \in Types /\ b.part \in Freed(b.id[1])
  /\ b.id[1] = "list" => \A id \in b.refs : id[1] = "rule"
  /\ b.id[1] = "rule" /\ b.part = "item" => IsFiniteSet(b.of.conds)
  /\ b.id[1] = "ruleset" => b.id = RulesetId

Closed == \A b \in alloc : \A id \in b.refs : Follows(b, id) => Held(b.by, b.rs, id)

Store == IsFiniteSet(alloc) /\ (\A b \in alloc : Block(b)) /\ Closed

\* Everything of a helper that has not failed belongs to a ruleset that is
\* complete, and every part to a rule.
OfRule(h, rs, id) ==
  \E r \in alloc : /\ r.by = h /\ r.rs = rs /\ r.part = "item"
                   /\ r.id[1] = "rule" /\ id \in PartsOf(r.id[2], r.of)
PartTypes == {"condition", "action", "string"}
Whole(h) ==
  \A b \in alloc : b.by = h =>
     /\ Held(h, b.rs, b.id) /\ Held(h, b.rs, RulesetId)
     /\ b.id[1] \in PartTypes => OfRule(h, b.rs, b.id)
Alive == \A h \in Helpers : helper[h] \in {"unborn", "starting", "up"} => Whole(h)

\* What a manager that leaves has still to delete is all that it has, and
\* nothing goes before what leads to it.
Target(rs, id) == [rs |-> rs, id |-> id]
InOrder(s, x, y) == \A i \in DOMAIN s : s[i] = y => \E j \in 1 .. i - 1 : s[j] = x
Deletes(h) ==
  /\ Array(doomed[h]) /\ \A x \in ToSet(doomed[h]) : x = Target(x.rs, x.id)
  /\ \/ \E x \in ToSet(doomed[h]) : x.id = Fatal
     \/ \A b \in alloc : b.by = h => Target(b.rs, b.id) \in ToSet(doomed[h])
  /\ \A b \in alloc : b.by = h =>
       \A id \in b.refs : Follows(b, id) => InOrder(doomed[h], Target(b.rs, b.id), Target(b.rs, id))
Leaving == \A h \in Helpers : helper[h] = "leaving" => quitting /\ Deletes(h)

\* What is said of the first place is true, until nginx quits.
Placed ==
  ~quitting =>
    /\ \A h \in Helpers : place[h][1] # Null => Complete(place[h][1])
    /\ \A w \in Workers : \A p \in Told(w) \ {Null} : Complete(p)

Typed ==
  /\ conf \in Configs
  /\ DOMAIN helper = Helpers /\ DOMAIN todo = Helpers /\ DOMAIN doomed = Helpers
  /\ DOMAIN place = Helpers /\ \A h \in Helpers : DOMAIN place[h] = 1 .. 3
  /\ DOMAIN known = Workers /\ \A w \in Workers : DOMAIN known[w] = 1 .. 3
  /\ DOMAIN answers = Workers /\ \A w \in Workers : Array(answers[w])
  /\ \A h \in Helpers : todo[h] \subseteq DOMAIN conf.file

IInv == Typed /\ Store /\ Alive /\ Leaving /\ Placed

(***************************************************************************)
(* What a call leaves in memory.                                           *)
(***************************************************************************)
Born(h, rs, call, blocks) ==
  /\ IsFiniteSet(blocks)
  /\ \A b \in blocks : /\ b.by = h /\ b.rs = rs /\ b.id = call.id /\ b.part \in Freed(call.id[1])
                       /\ b.refs \subseteq call.refs
                       /\ b.part = "item" => b.of = call.of
  /\ \E b \in blocks : b.part = "item" /\ b.id = call.id /\ b.by = h /\ b.rs = rs /\ b.of = call.of

\* The values of a function with a finite domain.
LEMMA ImageFinite ==
  ASSUME NEW S, IsFiniteSet(S), NEW f, DOMAIN f = S
  PROVE  IsFiniteSet({f[x] : x \in S})
<1> DEFINE T == {f[x] : x \in S}
           g == [x \in S |-> f[x]]
<1>1. g \in [S -> T] /\ \A y \in T : \E x \in S : g[x] = y
  OBVIOUS
<1> HIDE DEF g, T
<1>2. g \in Surjection(S, T)
  BY <1>1 DEF Surjection
<1>3. IsFiniteSet(T)
  BY <1>2, FS_Surjection
<1> QED BY <1>3 DEF T

\* The blocks of one element.
LEMMA BlocksAre ==
  ASSUME NEW h, NEW rs, NEW call, NEW parts, IsFiniteSet(parts), "item" \in parts,
         parts \subseteq Freed(call.id[1]),
         NEW refs, refs \subseteq call.refs
  PROVE  Born(h, rs, call, Blocks(h, rs, call, parts, refs))
<1> DEFINE block(part) == [by |-> h, rs |-> rs, id |-> call.id, part |-> part,
                           refs |-> IF part = "item" THEN refs ELSE {},
                           of |-> IF part = "item" THEN call.of ELSE None]
           S == Blocks(h, rs, call, parts, refs)
<1>1. S = {block(part) : part \in parts}
  BY DEF Blocks
<1>2. \A part : /\ block(part).by = h /\ block(part).rs = rs /\ block(part).id = call.id /\ block(part).part = part
                /\ block(part).refs \subseteq call.refs /\ (part = "item" => block(part).of = call.of)
  OBVIOUS
<1> HIDE DEF block, S
<1>3. IsFiniteSet({block(part) : part \in parts})
  <2> DEFINE f == [part \in parts |-> block(part)]
  <2>1. DOMAIN f = parts /\ \A part \in parts : f[part] = block(part)
    OBVIOUS
  <2> HIDE DEF f
  <2>2. IsFiniteSet({f[part] : part \in parts})
    BY <2>1, ImageFinite
  <2>3. {f[part] : part \in parts} = {block(part) : part \in parts}
    BY <2>1
  <2> QED BY <2>2, <2>3
<1>4. IsFiniteSet(S)
  BY <1>1, <1>3
<1> QED BY <1>1, <1>2, <1>4 DEF Born, S

LEMMA PartsFinite ==
  /\ IsFiniteSet({"item"}) /\ IsFiniteSet({"item", "name"})
  /\ IsFiniteSet({"item", "name", "actions"}) /\ IsFiniteSet({"item", "name", "rules"})
<1>1. IsFiniteSet({"item"}) /\ IsFiniteSet({"name"}) /\ IsFiniteSet({"actions"}) /\ IsFiniteSet({"rules"})
  BY FS_Singleton
<1>2. IsFiniteSet({"item"} \cup {"name"})
  BY <1>1, FS_Union
<1>3. {"item"} \cup {"name"} = {"item", "name"}
  OBVIOUS
<1>4. IsFiniteSet({"item", "name"} \cup {"actions"}) /\ IsFiniteSet({"item", "name"} \cup {"rules"})
  BY <1>1, <1>2, <1>3, FS_Union
<1>5. /\ {"item", "name"} \cup {"actions"} = {"item", "name", "actions"}
      /\ {"item", "name"} \cup {"rules"} = {"item", "name", "rules"}
  OBVIOUS
<1> QED BY <1>1, <1>2, <1>3, <1>4, <1>5

Blocked == CallTypes \ {"count", "phase"}

\* The create functions leave the blocks that the delete functions free.
LEMMA CreatedAre ==
  ASSUME NEW h, NEW rs, NEW call, call.id[1] \in Blocked, call.id[1] = "action" => ActionOK(call.id[3])
  PROVE  Born(h, rs, call, Created(h, rs, call))
<1>0. \A types : OfType(call, types) \subseteq call.refs
  BY DEF OfType
<1>1. CASE call.id[1] = "limiter"
  <2>1. Created(h, rs, call) = Blocks(h, rs, call, {"item", "name"}, call.refs)
    BY <1>1 DEF Created, LimiterCreate
  <2>2. {"item", "name"} \subseteq Freed(call.id[1])
    BY <1>1 DEF Freed, LimiterDelete
  <2> QED BY <2>1, <2>2, BlocksAre, PartsFinite
<1>2. CASE call.id[1] = "rule"
  <2>1. Created(h, rs, call) = Blocks(h, rs, call, {"item", "name", "actions"}, call.refs)
    BY <1>2 DEF Created, RuleCreate
  <2>2. {"item", "name", "actions"} \subseteq Freed(call.id[1])
    BY <1>2 DEF Freed, RuleDelete
  <2> QED BY <2>1, <2>2, BlocksAre, PartsFinite
<1>3. CASE call.id[1] = "list"
  <2>1. Created(h, rs, call) = Blocks(h, rs, call, {"item", "name", "rules"}, call.refs)
    BY <1>3 DEF Created, ListCreate
  <2>2. {"item", "name", "rules"} \subseteq Freed(call.id[1])
    BY <1>3 DEF Freed, ListDelete
  <2> QED BY <2>1, <2>2, BlocksAre, PartsFinite
<1>4. CASE call.id[1] = "condition"
  <2>1. PICK refs : /\ refs \subseteq call.refs
                     /\ ConditionBinding(h, rs, call) = Blocks(h, rs, call, {"item", "name"}, refs)
    <3>1. {} \subseteq call.refs
      OBVIOUS
    <3>2. CASE call.id[3] \in {"true", "false", ".delay"}
      <4>1. ConditionBinding(h, rs, call) = Blocks(h, rs, call, {"item", "name"}, {})
        BY <3>2 DEF ConditionBinding, PlainCreate, DelayCreate, ConditionCreate
      <4> QED BY <3>1, <4>1
    <3>3. CASE call.id[3] \in {"match", "tag-check"}
      <4>1. ConditionBinding(h, rs, call) = Blocks(h, rs, call, {"item", "name"}, OfType(call, {"string"}))
        BY <3>3 DEF ConditionBinding, MatchCreate, TagCheckCreate, ConditionCreate
      <4> QED BY <1>0, <4>1
    <3>4. CASE call.id[3] \in {"any", "all"}
      <4>1. ConditionBinding(h, rs, call) = Blocks(h, rs, call, {"item", "name"}, OfType(call, {"condition"}))
        BY <3>4 DEF ConditionBinding, ArrayCreate, ConditionCreate
      <4> QED BY <1>0, <4>1
    <3>5. CASE call.id[3] \notin {"true", "false", ".delay", "match", "tag-check", "any", "all"}
      <4>1. ConditionBinding(h, rs, call) = Blocks(h, rs, call, {"item", "name"}, OfType(call, {"string", "limiter"}))
        BY <3>5 DEF ConditionBinding, LimitCreate, ConditionCreate
      <4> QED BY <1>0, <4>1
    <3> QED BY <3>2, <3>3, <3>4, <3>5
  <2>2. Created(h, rs, call) = ConditionBinding(h, rs, call)
    BY <1>4 DEF Created
  <2>3. {"item", "name"} \subseteq Freed(call.id[1])
    BY <1>4 DEF Freed, ConditionDestroy
  <2> QED BY <2>1, <2>2, <2>3, BlocksAre, PartsFinite
<1>5. CASE call.id[1] = "action"
  <2>1. PICK refs : /\ refs \subseteq call.refs
                     /\ ActionBinding(h, rs, call) = Blocks(h, rs, call, {"item", "name"}, refs)
    <3>1. {} \subseteq call.refs
      OBVIOUS
    <3>2. CASE call.id[3] = "tag"
      <4>1. ActionBinding(h, rs, call) = Blocks(h, rs, call, {"item", "name"}, OfType(call, {"string"}))
        BY <3>2 DEF ActionBinding, TagCreate, ActionCreate
      <4> QED BY <1>0, <4>1
    <3>3. CASE call.id[3] # "tag"
      <4>1. ActionBinding(h, rs, call) = Blocks(h, rs, call, {"item", "name"}, {})
        BY <1>5, <3>3 DEF ActionBinding, ActionOK, Replies, WaitCreate, RejectCreate, AcceptCreate, ActionCreate
      <4> QED BY <3>1, <4>1
    <3> QED BY <3>2, <3>3
  <2>2. Created(h, rs, call) = ActionBinding(h, rs, call)
    BY <1>5 DEF Created
  <2>3. {"item", "name"} \subseteq Freed(call.id[1])
    BY <1>5 DEF Freed, ConditionDestroy
  <2> QED BY <2>1, <2>2, <2>3, BlocksAre, PartsFinite
<1>6. CASE call.id[1] = "string"
  <2>1. Created(h, rs, call) = Blocks(h, rs, call, {"item"}, {})
    BY <1>6 DEF Created, StringCreate
  <2>2. {"item"} \subseteq Freed(call.id[1]) /\ {} \subseteq call.refs
    BY <1>6 DEF Freed, StringDestroy
  <2> QED BY <2>1, <2>2, BlocksAre, PartsFinite
<1>7. CASE call.id[1] = "ruleset"
  <2>1. Created(h, rs, call) = Blocks(h, rs, call, {"item", "name"}, {})
    BY <1>7 DEF Created, RulesetCreate
  <2>2. {"item", "name"} \subseteq Freed(call.id[1]) /\ {} \subseteq call.refs
    BY <1>7 DEF Freed, RulesetDelete
  <2> QED BY <2>1, <2>2, BlocksAre, PartsFinite
<1> QED BY <1>1, <1>2, <1>3, <1>4, <1>5, <1>6, <1>7 DEF Blocked, CallTypes

\* The memory after some calls, none of which is for a phase.
Holds(blocks, h, rs, id) == \E c \in blocks : c.by = h /\ c.rs = rs /\ c.id = id /\ c.part = "item"

Remembers(blocks, h, rs, calls, n) ==
  /\ IsFiniteSet(blocks)
  /\ \A b \in blocks : b.by = h /\ b.rs = rs /\ Block(b) /\ Holds(blocks, h, rs, b.id)
  /\ \A b \in blocks : \A id \in b.refs : Follows(b, id) => Holds(blocks, h, rs, id)
  /\ \A id : Has(calls, id, n) /\ id[1] \in Blocked => Holds(blocks, h, rs, id)
  /\ \A b \in blocks : \E i \in 1 .. n : b.id = calls[i].id
  /\ \A i \in 1 .. n : calls[i].id[1] \in Blocked =>
       \E b \in blocks : b.part = "item" /\ b.id = calls[i].id /\ b.by = h /\ b.rs = rs /\ b.of = calls[i].of

\* Memory after the first calls, which a failure may have cut short.
LEMMA MemoryIs ==
  ASSUME NEW h, NEW rs, NEW calls, Array(calls), Linked(calls), NEW n \in 0 .. Len(calls),
         \A i \in 1 .. n : calls[i].id[1] # "phase"
  PROVE  Remembers(Memory(h, rs, calls, n), h, rs, calls, n)
<1> DEFINE blocks == Memory(h, rs, calls, n)
           of(i) == Created(h, rs, calls[i])
<1>1. Len(calls) \in Nat /\ DOMAIN calls = 1 .. Len(calls) /\ n \in Nat /\ \A i \in 1 .. n : i \in DOMAIN calls
  BY ArrayFacts
<1>2. blocks = UNION {of(i) : i \in 1 .. n}
  BY DEF Memory
<1>3. ASSUME NEW i \in 1 .. n PROVE Sits(calls[i], calls, i - 1)
  BY <1>1 DEF Linked
<1>4. ASSUME NEW i \in 1 .. n, calls[i].id[1] \in Blocked PROVE Born(h, rs, calls[i], of(i))
  BY <1>3, <1>4, CreatedAre DEF Sits
<1>5. ASSUME NEW i \in 1 .. n, calls[i].id[1] \notin Blocked PROVE of(i) = {}
  <2>1. calls[i].id[1] = "count"
    BY <1>3, <1>5 DEF Sits, Blocked
  <2> QED BY <2>1 DEF Created
<1> HIDE DEF of, blocks
<1>6. IsFiniteSet(blocks)
  <2> DEFINE f == [i \in 1 .. n |-> of(i)]
  <2>1. DOMAIN f = 1 .. n /\ \A i \in 1 .. n : f[i] = of(i)
    OBVIOUS
  <2> HIDE DEF f
  <2>2. IsFiniteSet(1 .. n)
    BY <1>1, FS_Interval
  <2>3. IsFiniteSet({f[i] : i \in 1 .. n})
    BY <2>1, <2>2, ImageFinite
  <2>4. \A T \in {f[i] : i \in 1 .. n} : IsFiniteSet(T)
    <3>1. ASSUME NEW i \in 1 .. n PROVE IsFiniteSet(of(i))
      BY <1>4, <1>5, FS_EmptySet DEF Born
    <3> QED BY <2>1, <3>1
  <2>5. {f[i] : i \in 1 .. n} = {of(i) : i \in 1 .. n}
    BY <2>1
  <2> QED BY <1>2, <2>3, <2>4, <2>5, FS_UNION
<1>7. ASSUME NEW b \in blocks
      PROVE  \E i \in 1 .. n : b \in of(i) /\ calls[i].id[1] \in Blocked /\ Born(h, rs, calls[i], of(i))
  <2>1. PICK i \in 1 .. n : b \in of(i)
    BY <1>2
  <2> QED BY <1>4, <1>5, <2>1
<1>8. ASSUME NEW i \in 1 .. n, calls[i].id[1] \in Blocked
      PROVE  \E b \in blocks : b.part = "item" /\ b.id = calls[i].id /\ b.by = h /\ b.rs = rs /\ b.of = calls[i].of
  <2>1. \A b \in of(i) : b \in blocks
    BY <1>2
  <2> QED BY <1>4, <1>8, <2>1 DEF Born
<1>9. ASSUME NEW id, NEW m \in 0 .. n, Has(calls, id, m), id[1] \in Blocked PROVE Holds(blocks, h, rs, id)
  <2>1. PICK j \in 1 .. m : calls[j].id = id
    BY <1>9 DEF Has
  <2>2. j \in 1 .. n
    BY <1>1
  <2> QED BY <1>8, <1>9, <2>1, <2>2 DEF Holds
<1>10. ASSUME NEW b \in blocks
       PROVE  /\ b.by = h /\ b.rs = rs /\ Block(b) /\ Holds(blocks, h, rs, b.id)
              /\ \A id \in b.refs : Follows(b, id) => Holds(blocks, h, rs, id)
              /\ \E i \in 1 .. n : b.id = calls[i].id
  <2>1. PICK i \in 1 .. n : b \in of(i) /\ calls[i].id[1] \in Blocked /\ Born(h, rs, calls[i], of(i))
    BY <1>7
  <2> DEFINE call == calls[i]
  <2> HIDE DEF call
  <2>2. /\ b.by = h /\ b.rs = rs /\ b.id = call.id /\ b.part \in Freed(call.id[1]) /\ b.refs \subseteq call.refs
        /\ b.part = "item" => b.of = call.of
        /\ call.id[1] \in Blocked
    BY <2>1 DEF Born, call
  <2>3. Sits(call, calls, i - 1) /\ i - 1 \in 0 .. n
    BY <1>1, <1>3 DEF call
  <2>4. Block(b)
    BY <2>2, <2>3 DEF Block, Sits, Types, Blocked, CallTypes
  <2>5. Holds(blocks, h, rs, b.id)
    BY <1>8, <2>1, <2>2 DEF Holds, call
  <2>6. ASSUME NEW id \in b.refs, Follows(b, id) PROVE Holds(blocks, h, rs, id)
    <3>1. Has(calls, id, i - 1) /\ id[1] \in Blocked
      BY <2>2, <2>3, <2>6 DEF Sits, Follows, Blocked, CallTypes
    <3> QED BY <1>9, <2>3, <3>1
  <2> QED BY <2>1, <2>2, <2>4, <2>5, <2>6 DEF call
<1>11. \A id : Has(calls, id, n) /\ id[1] \in Blocked => Holds(blocks, h, rs, id)
  BY <1>1, <1>9
<1>12. Remembers(blocks, h, rs, calls, n)
  BY <1>6, <1>8, <1>10, <1>11 DEF Remembers
<1> QED BY <1>12 DEF blocks

\* The runs of Ruleset.new for a document.
LEMMA NewOfIs ==
  ASSUME NEW doc \in Documents, NEW new \in NewOf[doc]
  PROVE  /\ Array(new.calls) /\ Linked(new.calls) /\ new.ok \in BOOLEAN
         /\ new.ok => Owned(new.calls) /\ Has(new.calls, RulesetId, Len(new.calls))
<1>1. Accepts(doc) /\ \E order \in OrdersOf(doc) : new = Calls(doc, order)
  BY DEF NewOf
<1>2. IsRead(doc)
  BY <1>1, StartupAssumption DEF Documents
<1>3. PICK order \in OrdersOf(doc) : new = Calls(doc, order)
  BY <1>1
<1>4. \A a \in Attributes : order[a] \in SetToSeqs(DOMAIN doc[a])
  BY DEF OrdersOf, Orders, Attributes
<1>5. new = New(doc, order, [any |-> 0], NoNames)
  BY <1>3 DEF Calls
<1> QED BY <1>1, <1>2, <1>4, <1>5, NewIs

(***************************************************************************)
(* Memory that grows, and what does not notice.                            *)
(***************************************************************************)
LEMMA Grows ==
  ASSUME IInv, NEW h, NEW rs, NEW blocks, IsFiniteSet(blocks), alloc' = alloc \cup blocks,
         \A b \in blocks : b.by = h /\ b.rs = rs /\ Block(b),
         \A b \in blocks : \A id \in b.refs : Follows(b, id) => Holds(blocks, h, rs, id)
  PROVE  /\ Store'
         /\ \A g, name, id : Held(g, name, id) => Held(g, name, id)'
         /\ \A id : Holds(blocks, h, rs, id) => Held(h, rs, id)'
         /\ \A g : g # h /\ Whole(g) => Whole(g)'
<1>1. IsFiniteSet(alloc)'
  BY FS_Union DEF IInv, Store
<1>2. ASSUME NEW g, NEW name, NEW id, Held(g, name, id) PROVE Held(g, name, id)'
  BY <1>2 DEF Held
<1>3. ASSUME NEW id, Holds(blocks, h, rs, id) PROVE Held(h, rs, id)'
  BY <1>3 DEF Holds, Held
<1>4. \A b \in alloc' : Block(b)
  BY DEF IInv, Store
<1>5. Closed'
  <2> SUFFICES ASSUME NEW b \in alloc', NEW id \in b.refs, Follows(b, id) PROVE Held(b.by, b.rs, id)'
    BY DEF Closed, Follows
  <2>1. CASE b \in alloc
    <3>1. Held(b.by, b.rs, id)
      BY <2>1 DEF IInv, Store, Closed
    <3> QED BY <1>2, <3>1
  <2>2. CASE b \in blocks
    BY <1>3, <2>2
  <2> QED BY <2>1, <2>2
<1>6. ASSUME NEW g, g # h, Whole(g) PROVE Whole(g)'
  <2> SUFFICES ASSUME NEW b \in alloc', b.by = g
               PROVE  /\ Held(g, b.rs, b.id)' /\ Held(g, b.rs, RulesetId)'
                      /\ b.id[1] \in PartTypes => OfRule(g, b.rs, b.id)'
    BY DEF Whole
  <2>1. b \in alloc
    BY <1>6
  <2>2. Held(g, b.rs, b.id) /\ Held(g, b.rs, RulesetId) /\ (b.id[1] \in PartTypes => OfRule(g, b.rs, b.id))
    BY <1>6, <2>1 DEF Whole
  <2>3. OfRule(g, b.rs, b.id) => OfRule(g, b.rs, b.id)'
    BY DEF OfRule
  <2> QED BY <1>2, <2>2, <2>3
<1>7. Store'
  BY <1>1, <1>4, <1>5 DEF Store, Block
<1> QED BY <1>2, <1>3, <1>6, <1>7

\* createRuleset, whether it succeeds or is the end of the helper.
LEMMA LoadIs ==
  ASSUME IInv, NEW h \in Helpers, helper[h] \in {"starting", "up"},
         NEW doc \in Documents, NEW rs, Load(h, rs, doc),
         UNCHANGED <<conf, doomed, quitting, known, answers>>
  PROVE  /\ Store' /\ Alive' /\ Leaving' /\ Placed'
         /\ DOMAIN helper' = Helpers /\ DOMAIN place' = Helpers /\ \A g \in Helpers : DOMAIN place'[g] = 1 .. 3
<1>1. PICK new \in NewOf[doc] : Loaded(h, rs, new) \/ Aborted(h, rs, new)
  BY DEF Load
<1>0. PICK calls : calls = new.calls
  OBVIOUS
<1>2. /\ Array(calls) /\ Linked(calls)
      /\ new.ok => Owned(calls) /\ Has(calls, RulesetId, Len(calls))
  BY <1>0, NewOfIs
<1> DEFINE mem(n) == Memory(h, rs, calls, n)
<1>3. Len(calls) \in Nat /\ DOMAIN calls = 1 .. Len(calls)
  BY <1>2, ArrayFacts
<1> HIDE DEF mem
<1>4. ASSUME NEW n \in 0 .. Len(calls), \A i \in 1 .. n : calls[i].id[1] # "phase", alloc' = alloc \cup mem(n)
      PROVE  /\ Store'
             /\ \A g, name, id : Held(g, name, id) => Held(g, name, id)'
             /\ \A id : Holds(mem(n), h, rs, id) => Held(h, rs, id)'
             /\ \A g : g # h /\ Whole(g) => Whole(g)'
             /\ \A b \in mem(n) : b.by = h
  <2>1. /\ IsFiniteSet(mem(n))
        /\ \A b \in mem(n) : b.by = h /\ b.rs = rs /\ Block(b)
        /\ \A b \in mem(n) : \A id \in b.refs : Follows(b, id) => Holds(mem(n), h, rs, id)
    <3>1. Remembers(mem(n), h, rs, calls, n)
      BY <1>2, <1>4, MemoryIs DEF mem
    <3> QED BY <3>1 DEF Remembers
  <2> QED BY <1>4, <2>1, Grows
<1>5. ASSUME NEW n \in 0 .. Len(calls), alloc' = alloc \cup mem(n),
             \A b \in mem(n) : b.by = h, \A g : helper'[g] = "leaving" => g # h /\ helper[g] = "leaving"
      PROVE  Leaving'
  <2> SUFFICES ASSUME NEW g \in Helpers, helper'[g] = "leaving" PROVE quitting' /\ Deletes(g)'
    BY DEF Leaving
  <2>1. quitting /\ Deletes(g) /\ g # h
    BY <1>5 DEF IInv, Leaving
  <2>2. \A b \in alloc' : b.by = g => b \in alloc
    BY <1>5, <2>1
  <2>3. \A b \in alloc : b \in alloc'
    BY <1>5
  <2> QED BY <2>1, <2>2, <2>3 DEF Deletes, Follows, InOrder
<1>6. CASE Loaded(h, rs, new)
  <2> DEFINE n == Len(calls)
  <2>1. new.ok /\ ~PhaseFails(calls) /\ alloc' = alloc \cup mem(n) /\ helper' = helper
    BY <1>0, <1>6 DEF Loaded, mem
  <2>2. n \in 0 .. Len(calls) /\ \A i \in 1 .. n : calls[i].id[1] # "phase"
    BY <1>3, <2>1 DEF PhaseFails
  <2>3. /\ Store'
        /\ \A g, name, id : Held(g, name, id) => Held(g, name, id)'
        /\ \A id : Holds(mem(n), h, rs, id) => Held(h, rs, id)'
        /\ \A g : g # h /\ Whole(g) => Whole(g)'
        /\ \A b \in mem(n) : b.by = h
    BY <1>4, <2>1, <2>2
  <2>4. /\ \A b \in mem(n) : b.by = h /\ b.rs = rs /\ Holds(mem(n), h, rs, b.id)
        /\ \A id : Has(calls, id, n) /\ id[1] \in Blocked => Holds(mem(n), h, rs, id)
        /\ \A b \in mem(n) : \E i \in 1 .. n : b.id = calls[i].id
        /\ \A i \in 1 .. n : calls[i].id[1] \in Blocked =>
             \E b \in mem(n) : b.part = "item" /\ b.id = calls[i].id /\ b.by = h /\ b.rs = rs /\ b.of = calls[i].of
    <3>1. Remembers(mem(n), h, rs, calls, n)
      BY <1>2, <2>2, MemoryIs DEF mem
    <3> HIDE DEF n
    <3> QED BY <3>1 DEF Remembers
  <2>5. Held(h, rs, RulesetId)'
    <3>1. Has(calls, RulesetId, n)
      BY <1>2, <2>1
    <3>2. RulesetId[1] \in Blocked
      BY DEF RulesetId, Blocked, CallTypes
    <3> QED BY <2>3, <2>4, <3>1, <3>2
  <2>6. Whole(h)'
    <3> SUFFICES ASSUME NEW b \in alloc', b.by = h
                 PROVE  /\ Held(h, b.rs, b.id)' /\ Held(h, b.rs, RulesetId)'
                        /\ b.id[1] \in PartTypes => OfRule(h, b.rs, b.id)'
      BY DEF Whole
    <3>1. CASE b \in alloc
      <4>1. Whole(h)
        BY DEF IInv, Alive
      <4>2. Held(h, b.rs, b.id) /\ Held(h, b.rs, RulesetId) /\ (b.id[1] \in PartTypes => OfRule(h, b.rs, b.id))
        BY <3>1, <4>1 DEF Whole
      <4>3. OfRule(h, b.rs, b.id) => OfRule(h, b.rs, b.id)'
        BY <2>1 DEF OfRule
      <4> QED BY <2>3, <4>2, <4>3
    <3>2. CASE b \in mem(n)
      <4>1. b.rs = rs /\ Held(h, b.rs, b.id)' /\ Held(h, b.rs, RulesetId)'
        BY <2>3, <2>4, <2>5, <3>2
      <4>2. ASSUME b.id[1] \in PartTypes PROVE OfRule(h, b.rs, b.id)'
        <5>1. PICK i \in 1 .. n : b.id = calls[i].id
          BY <2>4, <3>2
        <5>2. Owned(calls)
          BY <1>2, <2>1
        <5>3. PICK j \in 1 .. n : \E name : calls[j].id = Id("rule", name) /\ b.id \in PartsOf(name, calls[j].of)
          BY <1>3, <4>2, <5>1, <5>2 DEF Owned, PartTypes
        <5>4. PICK name : calls[j].id = Id("rule", name) /\ b.id \in PartsOf(name, calls[j].of)
          BY <5>3
        <5>50. Id("rule", name)[1] = "rule" /\ Id("rule", name)[2] = name
          BY DEF Id
        <5>5. calls[j].id[1] = "rule" /\ calls[j].id[2] = name
          BY <5>4, <5>50
        <5>6. PICK r \in mem(n) :
                  r.part = "item" /\ r.id = calls[j].id /\ r.by = h /\ r.rs = rs /\ r.of = calls[j].of
          BY <2>4, <5>5 DEF Blocked, CallTypes
        <5>7. r \in alloc'
          BY <2>1
        <5> QED BY <4>1, <5>4, <5>5, <5>6, <5>7 DEF OfRule
      <4> QED BY <4>1, <4>2
    <3> QED BY <2>1, <3>1, <3>2
  <2>7. Alive'
    BY <2>1, <2>3, <2>6 DEF Alive, IInv
  <2>8. Leaving'
    BY <1>5, <2>1, <2>2, <2>3
  <2>9. place' = [place EXCEPT ![h] = [i \in DOMAIN @ |->
                   IF i \in DOMAIN conf.places /\ conf.places[i] = rs /\ ~Stale(i)
                   THEN Pointer(h, rs) ELSE @[i]]]
    BY <1>6 DEF Loaded
  <2>10. DOMAIN place = Helpers /\ DOMAIN helper = Helpers /\ \A g \in Helpers : DOMAIN place[g] = 1 .. 3
    BY DEF IInv, Typed
  <2>11. DOMAIN place' = Helpers /\ \A g \in Helpers : DOMAIN place'[g] = 1 .. 3
    BY <2>9, <2>10
  <2>12. ASSUME NEW p, Complete(p) PROVE Complete(p)'
    BY <2>3, <2>12 DEF Complete, RulesetId
  <2>13. Placed'
    <3> SUFFICES ASSUME ~quitting
                 PROVE  /\ \A g \in Helpers : place'[g][1] # Null => Complete(place[g][1])'
                        /\ \A w \in Workers : \A p \in Told(w) \ {Null} : Complete(p)'
      BY DEF Placed, Told
    <3>1. /\ \A g \in Helpers : place[g][1] # Null => Complete(place[g][1])
          /\ \A w \in Workers : \A p \in Told(w) \ {Null} : Complete(p)
      BY DEF IInv, Placed
    <3>2. ASSUME NEW g \in Helpers, place'[g][1] # Null PROVE Complete(place[g][1])'
      <4>1. 1 \in DOMAIN place[h]
        BY <2>10
      <4>2. \/ place'[g][1] = place[g][1]
            \/ place'[g][1] = Pointer(h, rs) /\ conf.places[1] = rs
        BY <2>9, <2>10, <4>1
      <4>3. CASE place'[g][1] = place[g][1]
        <5>1. PICK p : p = place[g][1]
          OBVIOUS
        <5>2. Complete(p)'
          BY <2>12, <3>1, <3>2, <4>3, <5>1
        <5> QED BY <4>3, <5>1, <5>2 DEF Complete
      <4>4. CASE place'[g][1] = Pointer(h, rs) /\ conf.places[1] = rs
        <5>1. PICK p : p = Pointer(h, rs)
          OBVIOUS
        <5>2. Complete(p)'
          BY <2>5, <4>4, <5>1 DEF Complete, Pointer, RulesetId
        <5> QED BY <4>4, <5>1, <5>2 DEF Complete
      <4> QED BY <4>2, <4>3, <4>4
    <3> QED BY <2>12, <3>1, <3>2
  <2> QED BY <2>1, <2>3, <2>7, <2>8, <2>10, <2>11, <2>13
<1>7. CASE Aborted(h, rs, new)
  <2>1. PICK n \in 0 .. Len(calls) : (\A i \in 1 .. n : calls[i].id[1] # "phase") /\ alloc' = alloc \cup mem(n)
    <3> DEFINE B == BeforePhase(calls)
               most == Cardinality(B)
    <3>1. PICK m \in 0 .. Len(calls) : B = 1 .. m
      <4> DEFINE Bad == {i \in 1 .. Len(calls) : calls[i].id[1] = "phase"}
      <4>1. CASE Bad = {}
        <5>1. B = 1 .. Len(calls)
          BY <1>3, <4>1 DEF BeforePhase
        <5>2. Len(calls) \in 0 .. Len(calls)
          BY <1>3
        <5> HIDE DEF B
        <5> QED BY <5>1, <5>2
      <4>2. CASE Bad # {}
        <5>1. PICK k \in Bad : \A y \in Bad : k <= y
          <6>1. Bad \subseteq Nat
            OBVIOUS
          <6> HIDE DEF Bad
          <6> QED BY <4>2, <6>1, SmallestNat
        <5>2. B = 1 .. k - 1
          BY <1>3, <5>1 DEF BeforePhase
        <5>3. k - 1 \in 0 .. Len(calls)
          BY <1>3, <5>1
        <5> HIDE DEF B
        <5> QED BY <5>2, <5>3
      <4> QED BY <4>1, <4>2
    <3>2. most = m
      <4>1. Cardinality(1 .. m) = IF 1 > m THEN 0 ELSE m - 1 + 1
        BY <1>3, FS_Interval
      <4> HIDE DEF B
      <4> QED BY <1>3, <3>1, <4>1
    <3>3. \A n \in 0 .. most : n \in 0 .. Len(calls) /\ \A i \in 1 .. n : calls[i].id[1] # "phase"
      <4>1. \A i \in B : calls[i].id[1] # "phase"
        BY <1>3 DEF BeforePhase
      <4> HIDE DEF B
      <4> QED BY <1>3, <3>1, <3>2, <4>1
    <3>4. \E n \in 0 .. most : alloc' = alloc \cup mem(n)
      <4>1. most \in 0 .. most /\ \A n \in 0 .. most - 1 : n \in 0 .. most
        BY <1>3, <3>1, <3>2
      <4>2. alloc' = alloc \cup mem(most) \/ \E n \in 0 .. most - 1 : alloc' = alloc \cup mem(n)
        BY <1>0, <1>7 DEF Aborted, mem
      <4> HIDE DEF B
      <4> QED BY <4>1, <4>2
    <3> QED BY <3>3, <3>4
  <2>2. helper' = [helper EXCEPT ![h] = "gone"] /\ place' = place
    BY <1>7 DEF Aborted
  <2>3. /\ Store'
        /\ \A g, name, id : Held(g, name, id) => Held(g, name, id)'
        /\ \A g : g # h /\ Whole(g) => Whole(g)'
        /\ \A b \in mem(n) : b.by = h
    BY <1>4, <2>1
  <2>4. DOMAIN helper = Helpers /\ DOMAIN place = Helpers /\ \A g \in Helpers : DOMAIN place[g] = 1 .. 3
    BY DEF IInv, Typed
  <2>5. helper'[h] = "gone" /\ \A g : g # h => helper'[g] = helper[g]
    BY <2>2, <2>4
  <2>6. Alive'
    <3> SUFFICES ASSUME NEW g \in Helpers, helper'[g] \in {"unborn", "starting", "up"} PROVE Whole(g)'
      BY DEF Alive
    <3>1. g # h /\ Whole(g)
      BY <2>5 DEF IInv, Alive
    <3> QED BY <2>3, <3>1
  <2>7. Leaving'
    <3>1. \A g : helper'[g] = "leaving" => g # h /\ helper[g] = "leaving"
      BY <2>5
    <3> QED BY <1>5, <2>1, <2>3, <3>1
  <2>8. ASSUME NEW p, Complete(p) PROVE Complete(p)'
    BY <2>3, <2>8 DEF Complete, RulesetId
  <2>9. Placed'
    BY <2>2, <2>8 DEF IInv, Placed, Told
  <2> QED BY <2>2, <2>3, <2>4, <2>6, <2>7, <2>9
<1> QED BY <1>1, <1>6, <1>7

(***************************************************************************)
(* The order in which a ruleset is destroyed.                              *)
(***************************************************************************)
LEMMA OrderJoined ==
  ASSUME NEW p, NEW q, Array(p), Array(q), NEW x, NEW y, InOrder(p, x, y), InOrder(q, x, y) \/ x \in ToSet(p)
  PROVE  InOrder(p \o q, x, y)
<1> DEFINE s == p \o q
<1>1. Len(p) \in Nat /\ Len(q) \in Nat /\ DOMAIN p = 1 .. Len(p) /\ DOMAIN q = 1 .. Len(q)
  BY ArrayFacts
<1>2. /\ Len(s) = Len(p) + Len(q) /\ Array(s)
      /\ \A i \in 1 .. Len(p) : s[i] = p[i]
      /\ \A i \in 1 .. Len(q) : s[Len(p) + i] = q[i]
  BY Joined
<1> HIDE DEF s
<1>3. DOMAIN s = 1 .. Len(p) + Len(q)
  BY <1>2, ArrayFacts
<1>4. ASSUME NEW i \in 1 .. Len(p) + Len(q), s[i] = y PROVE \E j \in 1 .. i - 1 : s[j] = x
  <2>1. CASE i <= Len(p)
    <3>1. i \in 1 .. Len(p) /\ p[i] = y
      BY <1>1, <1>2, <1>4, <2>1
    <3>2. PICK j \in 1 .. i - 1 : p[j] = x
      BY <1>1, <3>1 DEF InOrder
    <3>3. s[j] = x
      BY <1>1, <1>2, <3>1, <3>2
    <3> QED BY <3>3
  <2>2. CASE ~(i <= Len(p))
    <3>1. i - Len(p) \in 1 .. Len(q) /\ Len(p) + (i - Len(p)) = i
      BY <1>1, <2>2
    <3>2. PICK k \in 1 .. Len(q) : Len(p) + k = i
      BY <3>1
    <3>3. q[k] = y
      BY <1>2, <1>4, <3>2
    <3>4. CASE x \in ToSet(p)
      <4>1. PICK j \in 1 .. Len(p) : p[j] = x
        BY <1>1, <3>4 DEF ToSet
      <4>2. j \in 1 .. i - 1 /\ s[j] = x
        BY <1>1, <1>2, <2>2, <4>1
      <4> QED BY <4>2
    <3>5. CASE InOrder(q, x, y)
      <4>1. PICK j \in 1 .. k - 1 : q[j] = x
        BY <1>1, <3>3, <3>5 DEF InOrder
      <4>2. j \in 1 .. Len(q)
        BY <1>1
      <4>3. Len(p) + j \in 1 .. i - 1 /\ s[Len(p) + j] = x
        BY <1>1, <1>2, <3>2, <4>1, <4>2
      <4> QED BY <4>3
    <3> QED BY <3>4, <3>5
  <2> QED BY <2>1, <2>2
<1> QED BY <1>3, <1>4 DEF InOrder, s

\* And in an array of arrays.
LEMMA OrderFlat ==
  ASSUME NEW ss, Array(ss), NEW x, NEW y, \A i \in DOMAIN ss : Array(ss[i]) /\ InOrder(ss[i], x, y)
  PROVE  InOrder(FlattenSeq(ss), x, y)
<1>0. Len(ss) \in Nat /\ DOMAIN ss = 1 .. Len(ss)
  BY ArrayFacts
<1>1. CASE Len(ss) = 0
  <2>1. FlattenSeq(ss) = ss /\ DOMAIN ss = {}
    BY <1>0, <1>1 DEF FlattenSeq
  <2> QED BY <2>1 DEF InOrder
<1>2. CASE Len(ss) # 0
  <2>1. PICK f : /\ f[1] = ss[1]
                 /\ \A i \in 2 .. Len(ss) : f[i] = f[i - 1] \o ss[i]
                 /\ FlattenSeq(ss) = f[Len(ss)]
    BY <1>2, Flattens
  <2> DEFINE J == {i \in 0 .. Len(ss) : i = 0 \/ (Array(f[i]) /\ InOrder(f[i], x, y))}
  <2>2. ASSUME NEW i \in 1 .. Len(ss), i - 1 \in J PROVE i \in J
    <3>1. Array(ss[i]) /\ InOrder(ss[i], x, y) /\ i \in 0 .. Len(ss)
      BY <1>0
    <3>2. CASE i = 1
      BY <2>1, <3>1, <3>2
    <3>3. CASE i # 1
      <4>1. i \in 2 .. Len(ss) /\ i - 1 # 0
        BY <1>0, <3>3
      <4>2. PICK g : g = f[i - 1]
        OBVIOUS
      <4>3. Array(g) /\ InOrder(g, x, y)
        BY <2>2, <4>1, <4>2
      <4>4. Array(g \o ss[i]) /\ InOrder(g \o ss[i], x, y)
        <5>1. PICK q : q = ss[i]
          OBVIOUS
        <5>2. Array(g \o q) /\ InOrder(g \o q, x, y)
          BY <3>1, <4>3, <5>1, OrderJoined, Joined
        <5> QED BY <5>1, <5>2
      <4>5. f[i] = g \o ss[i]
        BY <2>1, <4>1, <4>2
      <4> QED BY <3>1, <4>4, <4>5
    <3> QED BY <3>2, <3>3
  <2>3. 0 \in J
    BY <1>0
  <2>4. 0 .. Len(ss) \subseteq J
    <3> HIDE DEF J
    <3> QED BY <1>0, <2>2, <2>3, UpTo
  <2>5. Len(ss) \in J
    BY <2>4, <1>0
  <2> QED BY <2>1, <2>5, <1>2
<1> QED BY <1>1, <1>2

\* What is never deleted is in order with everything.
LEMMA NotThere ==
  ASSUME NEW s, NEW x, NEW y, y \notin ToSet(s)
  PROVE  InOrder(s, x, y)
BY DEF InOrder, ToSet

\* The strings of a condition or an action are all deleted.
LEMMA DeleteStringsIs ==
  ASSUME NEW n, NEW strings, Array(strings)
  PROVE  Array(DeleteStrings(n, strings)) /\ ToSet(DeleteStrings(n, strings)) = Strings(n, strings)
<1> DEFINE s == DeleteStrings(n, strings)
<1>1. Len(strings) \in Nat /\ DOMAIN strings = 1 .. Len(strings)
  BY ArrayFacts
<1>2. DOMAIN s = 1 .. Len(strings) /\ s = [i \in 1 .. Len(strings) |-> s[i]]
      /\ \A i \in 1 .. Len(strings) : s[i] = Part("string", n, strings[i])
  BY <1>1 DEF DeleteStrings
<1> HIDE DEF s
<1>3. Array(s)
  BY <1>1, <1>2, ArrayIs
<1>4. ToSet(s) = Strings(n, strings)
  <2>1. ASSUME NEW x \in ToSet(s) PROVE x \in Strings(n, strings)
    BY <1>1, <1>2 DEF ToSet, Strings
  <2>2. ASSUME NEW x \in Strings(n, strings) PROVE x \in ToSet(s)
    <3>1. PICK i \in 1 .. Len(strings) : x = Part("string", n, strings[i])
      BY <1>1 DEF ToSet, Strings
    <3> QED BY <1>2, <3>1 DEF ToSet
  <2> QED BY <2>1, <2>2
<1> QED BY <1>3, <1>4 DEF s

LEMMA LeafDeleteIs ==
  ASSUME NEW n, NEW l
  PROVE  Array(LeafDelete(n, l)) /\ ToSet(LeafDelete(n, l)) = ConditionParts(n, l)
<1>1. Array(DeleteStrings(n, StringsOf(l))) /\ ToSet(DeleteStrings(n, StringsOf(l))) = Strings(n, StringsOf(l))
  BY StringsArray, DeleteStringsIs
<1> QED BY <1>1, Appended DEF LeafDelete, ConditionParts

\* A condition is deleted with its parts.
LEMMA ConditionDeleteIs ==
  ASSUME NEW n, NEW rule, IsFiniteSet(rule.conds)
  PROVE  /\ Array(ConditionDelete(n, rule))
         /\ ToSet(ConditionDelete(n, rule)) =
              (UNION {ConditionParts(n, c) : c \in Leaves(rule)})
                \cup (IF rule.nest = "if" THEN {} ELSE {Part("condition", n, rule.nest)})
<1> DEFINE each == SetToSeq(Leaves(rule))
           ss == [i \in DOMAIN each |-> LeafDelete(n, each[i])]
           leaves == FlattenSeq(ss)
<1>1. Array(each) /\ ToSet(each) = Leaves(rule)
  BY LeavesFinite, OrderedSet
<1>2. ConditionDelete(n, rule) = IF rule.nest = "if" THEN leaves ELSE Append(leaves, Part("condition", n, rule.nest))
  BY DEF ConditionDelete
<1> HIDE DEF each
<1>3. Len(each) \in Nat /\ DOMAIN each = 1 .. Len(each)
  BY <1>1, ArrayFacts
<1>4. DOMAIN ss = 1 .. Len(each) /\ ss = [i \in 1 .. Len(each) |-> ss[i]]
      /\ \A i \in 1 .. Len(each) : ss[i] = LeafDelete(n, each[i])
  BY <1>3
<1> HIDE DEF ss
<1>5. Array(ss)
  BY <1>3, <1>4, ArrayIs
<1>6. \A i \in 1 .. Len(each) : Array(ss[i]) /\ ToSet(ss[i]) = ConditionParts(n, each[i])
  BY <1>4, LeafDeleteIs
<1>7. Array(leaves) /\ ToSet(leaves) = UNION {ToSet(ss[i]) : i \in DOMAIN ss}
  BY <1>4, <1>5, <1>6, Flat
<1> HIDE DEF leaves
<1>8. UNION {ToSet(ss[i]) : i \in DOMAIN ss} = UNION {ConditionParts(n, c) : c \in Leaves(rule)}
  <2>1. ASSUME NEW i \in DOMAIN ss PROVE each[i] \in Leaves(rule) /\ ToSet(ss[i]) = ConditionParts(n, each[i])
    BY <1>1, <1>3, <1>4, <1>6 DEF ToSet
  <2>2. ASSUME NEW c \in Leaves(rule) PROVE \E i \in DOMAIN ss : ToSet(ss[i]) = ConditionParts(n, c)
    <3>1. PICK i \in DOMAIN each : c = each[i]
      BY <1>1 DEF ToSet
    <3> QED BY <1>3, <1>4, <1>6, <3>1
  <2> QED BY <2>1, <2>2
<1>9. ToSet(leaves) = UNION {ConditionParts(n, c) : c \in Leaves(rule)}
  BY <1>7, <1>8
<1> QED BY <1>2, <1>7, <1>9, Appended

\* So is an action, unless it has no destroy function.
LEMMA ActionDeleteIs ==
  ASSUME NEW n, NEW rule
  PROVE  /\ Array(ActionDelete(n, rule))
         /\ ToSet(ActionDelete(n, rule)) =
              Strings(n, ActionStrings(rule.act))
                \cup {IF rule.act \in Replies THEN Fatal ELSE Part("action", n, rule.act)}
<1>1. /\ Array(DeleteStrings(n, ActionStrings(rule.act)))
      /\ ToSet(DeleteStrings(n, ActionStrings(rule.act))) = Strings(n, ActionStrings(rule.act))
  BY StringsArray, DeleteStringsIs
<1> QED BY <1>1, Appended DEF ActionDelete

RuleTypes == {"string", "condition", "action", "error", "rule"}

\* A rule is deleted with its parts, which go first.
LEMMA DeleteRuleIs ==
  ASSUME NEW b, b.id[1] = "rule", IsFiniteSet(b.of.conds)
  PROVE  LET s == DeleteRule(b)
         IN  /\ Array(s) /\ b.id \in ToSet(s)
             /\ \A id \in ToSet(s) : id[1] \in RuleTypes
             /\ \A id \in PartsOf(b.id[2], b.of) : id \in ToSet(s) \/ (id[1] = "action" /\ Fatal \in ToSet(s))
<1>0. PICK n, rule : n = b.id[2] /\ rule = b.of
  OBVIOUS
<1> DEFINE p == ConditionDelete(n, rule)
           q == ActionDelete(n, rule)
           s == DeleteRule(b)
           conds == UNION {ConditionParts(n, c) : c \in Leaves(rule)}
           nest == IF rule.nest = "if" THEN {} ELSE {Part("condition", n, rule.nest)}
           strings == Strings(n, ActionStrings(rule.act))
           act == IF rule.act \in Replies THEN Fatal ELSE Part("action", n, rule.act)
<1>1. Array(p) /\ ToSet(p) = conds \cup nest
  BY <1>0, ConditionDeleteIs
<1>2. Array(q) /\ ToSet(q) = strings \cup {act}
  BY ActionDeleteIs
<1>3. Array(<<b.id>>) /\ ToSet(<<b.id>>) = {b.id}
  BY SingleArray DEF ToSet
<1>4. s = (p \o q) \o <<b.id>>
  BY <1>0 DEF DeleteRule
<1>5. \A id \in conds : id[1] \in RuleTypes
  BY DEF ConditionParts, Strings, Part, RuleTypes
<1>6. \A id \in nest : id[1] \in RuleTypes
  BY DEF Part, RuleTypes
<1>7. \A id \in strings : id[1] \in RuleTypes
  BY DEF Strings, Part, RuleTypes
<1>8. act[1] \in RuleTypes
  BY DEF Part, RuleTypes, Fatal
<1>9. \A id \in PartsOf(n, rule) : \/ id \in conds \/ id \in nest \/ id \in strings \/ id = Part("action", n, rule.act)
  BY DEF PartsOf, ConditionParts
<1>10. Part("action", n, rule.act)[1] = "action"
  BY DEF Part
<1>11. act = Fatal \/ act = Part("action", n, rule.act)
  OBVIOUS
<1> HIDE DEF p, q, s, conds, nest, strings, act
<1>12. Array(p \o q) /\ ToSet(p \o q) = ToSet(p) \cup ToSet(q)
  BY <1>1, <1>2, Joined
<1>13. Array(s) /\ ToSet(s) = ToSet(p \o q) \cup {b.id}
  <2>1. PICK pq, t : pq = p \o q /\ t = <<b.id>>
    OBVIOUS
  <2>2. Array(pq \o t) /\ ToSet(pq \o t) = ToSet(pq) \cup ToSet(t)
    BY <1>3, <1>12, <2>1, Joined
  <2> QED BY <1>3, <1>4, <2>1, <2>2
<1>14. ToSet(s) = conds \cup nest \cup strings \cup {act} \cup {b.id}
  BY <1>1, <1>2, <1>12, <1>13
<1>15. \A id \in ToSet(s) : id[1] \in RuleTypes
  BY <1>5, <1>6, <1>7, <1>8, <1>14 DEF RuleTypes
<1>16. \A id \in PartsOf(n, rule) : id \in ToSet(s) \/ (id[1] = "action" /\ Fatal \in ToSet(s))
  BY <1>9, <1>10, <1>11, <1>14
<1> QED BY <1>0, <1>13, <1>14, <1>15, <1>16 DEF s

IdsOf(items) == [i \in DOMAIN items |-> items[i].id]

LEMMA IdsAre ==
  ASSUME NEW items, Array(items)
  PROVE  /\ Array(IdsOf(items))
         /\ \A b \in ToSet(items) : b.id \in ToSet(IdsOf(items))
         /\ \A id \in ToSet(IdsOf(items)) : \E b \in ToSet(items) : id = b.id
<1> DEFINE s == IdsOf(items)
<1>1. Len(items) \in Nat /\ DOMAIN items = 1 .. Len(items)
  BY ArrayFacts
<1>2. DOMAIN s = 1 .. Len(items) /\ s = [i \in 1 .. Len(items) |-> s[i]]
      /\ \A i \in 1 .. Len(items) : s[i] = items[i].id
  BY <1>1 DEF IdsOf
<1> HIDE DEF s
<1>3. Array(s)
  BY <1>1, <1>2, ArrayIs
<1>4. \A b \in ToSet(items) : b.id \in ToSet(s)
  BY <1>1, <1>2 DEF ToSet
<1>5. \A id \in ToSet(s) : \E b \in ToSet(items) : id = b.id
  BY <1>1, <1>2 DEF ToSet
<1> QED BY <1>3, <1>4, <1>5 DEF s

\* All rules of a ruleset are deleted.
LEMMA RulesDeleted ==
  ASSUME NEW rules, Array(rules), \A b \in ToSet(rules) : b.id[1] = "rule" /\ IsFiniteSet(b.of.conds)
  PROVE  LET s == FlattenSeq([i \in DOMAIN rules |-> DeleteRule(rules[i])])
         IN  /\ Array(s)
             /\ \A id \in ToSet(s) : id[1] \in RuleTypes
             /\ \A b \in ToSet(rules) : b.id \in ToSet(s)
             /\ \A b \in ToSet(rules) : \A id \in PartsOf(b.id[2], b.of) :
                  id \in ToSet(s) \/ (id[1] = "action" /\ Fatal \in ToSet(s))
<1> DEFINE ss == [i \in DOMAIN rules |-> DeleteRule(rules[i])]
           s == FlattenSeq(ss)
<1>1. Len(rules) \in Nat /\ DOMAIN rules = 1 .. Len(rules)
  BY ArrayFacts
<1>2. DOMAIN ss = 1 .. Len(rules) /\ ss = [i \in 1 .. Len(rules) |-> ss[i]]
      /\ \A i \in 1 .. Len(rules) : ss[i] = DeleteRule(rules[i])
  BY <1>1
<1> HIDE DEF ss
<1>3. Array(ss)
  BY <1>1, <1>2, ArrayIs
<1>4. ASSUME NEW i \in 1 .. Len(rules)
      PROVE  /\ Array(ss[i]) /\ rules[i].id \in ToSet(ss[i])
             /\ \A id \in ToSet(ss[i]) : id[1] \in RuleTypes
             /\ \A id \in PartsOf(rules[i].id[2], rules[i].of) :
                  id \in ToSet(ss[i]) \/ (id[1] = "action" /\ Fatal \in ToSet(ss[i]))
  <2>1. PICK b : b = rules[i]
    OBVIOUS
  <2>2. b \in ToSet(rules)
    BY <1>1, <2>1 DEF ToSet
  <2>3. ss[i] = DeleteRule(b)
    BY <1>2, <2>1
  <2>4. b.id[1] = "rule" /\ IsFiniteSet(b.of.conds)
    BY <2>2
  <2> QED BY <2>1, <2>3, <2>4, DeleteRuleIs
<1>5. Array(s) /\ ToSet(s) = UNION {ToSet(ss[i]) : i \in DOMAIN ss}
  BY <1>2, <1>3, <1>4, Flat
<1> HIDE DEF s
<1>6. \A id \in ToSet(s) : \E i \in 1 .. Len(rules) : id \in ToSet(ss[i])
  BY <1>2, <1>5
<1>7. \A i \in 1 .. Len(rules) : \A id \in ToSet(ss[i]) : id \in ToSet(s)
  BY <1>2, <1>5
<1>8. \A b \in ToSet(rules) : \E i \in 1 .. Len(rules) : b = rules[i]
  BY <1>1 DEF ToSet
<1>9. \A id \in ToSet(s) : id[1] \in RuleTypes
  BY <1>4, <1>6
<1>10. \A b \in ToSet(rules) : b.id \in ToSet(s)
  BY <1>4, <1>7, <1>8
<1>11. ASSUME NEW b \in ToSet(rules), NEW id \in PartsOf(b.id[2], b.of)
       PROVE  id \in ToSet(s) \/ (id[1] = "action" /\ Fatal \in ToSet(s))
  <2>1. PICK i \in 1 .. Len(rules) : b = rules[i]
    BY <1>8
  <2>2. id \in ToSet(ss[i]) \/ (id[1] = "action" /\ Fatal \in ToSet(ss[i]))
    BY <1>4, <1>11, <2>1
  <2> QED BY <1>7, <2>2
<1> QED BY <1>5, <1>9, <1>10, <1>11 DEF s, ss

\* A ruleset goes as a whole, unless an action cannot be destroyed, and
\* nothing in it goes before what leads to it.
Destroys(ids, h, rs) ==
  /\ Array(ids)
  /\ \A b \in alloc : b.by = h /\ b.rs = rs =>
       /\ b.id \in ToSet(ids) \/ Fatal \in ToSet(ids)
       /\ \A id \in b.refs : Follows(b, id) => InOrder(ids, b.id, id)

\* Ruleset:destroy deletes all that a ruleset consists of, lists before rules
\* before limiters.
LEMMA DestroyIs ==
  ASSUME Store, NEW h, Whole(h), NEW rs,
         NEW lists \in SetToSeqs(Items(h, rs, "list")), NEW rules \in SetToSeqs(Items(h, rs, "rule")),
         NEW limiters \in SetToSeqs(Items(h, rs, "limiter"))
  PROVE  Destroys(Destroy(lists, rules, limiters), h, rs)
<1> DEFINE L == IdsOf(lists)
           R == FlattenSeq([i \in DOMAIN rules |-> DeleteRule(rules[i])])
           M == IdsOf(limiters)
           X == <<RulesetId>>
           ids == Destroy(lists, rules, limiters)
<1>1. \A type : IsFiniteSet(Items(h, rs, type))
  <2>1. \A type : Items(h, rs, type) \in SUBSET alloc
    BY DEF Items
  <2> QED BY <2>1, FS_Subset DEF Store
<1>2. /\ Array(lists) /\ ToSet(lists) = Items(h, rs, "list")
      /\ Array(rules) /\ ToSet(rules) = Items(h, rs, "rule")
      /\ Array(limiters) /\ ToSet(limiters) = Items(h, rs, "limiter")
  BY <1>1, AnyOrder
<1>3. \A type : \A b : 
        b \in Items(h, rs, type) <=> (b \in alloc /\ b.by = h /\ b.rs = rs /\ b.id[1] = type /\ b.part = "item")
  BY DEF Items
<1>4. /\ Array(L) /\ \A b \in Items(h, rs, "list") : b.id \in ToSet(L)
      /\ \A id \in ToSet(L) : id[1] = "list"
  BY <1>2, <1>3, IdsAre
<1>5. /\ Array(M) /\ \A b \in Items(h, rs, "limiter") : b.id \in ToSet(M)
      /\ \A id \in ToSet(M) : id[1] = "limiter"
  BY <1>2, <1>3, IdsAre
<1>6. \A b \in ToSet(rules) : b.id[1] = "rule" /\ IsFiniteSet(b.of.conds)
  BY <1>2, <1>3 DEF Store, Block
<1>7. /\ Array(R) /\ \A id \in ToSet(R) : id[1] \in RuleTypes
      /\ \A b \in Items(h, rs, "rule") : b.id \in ToSet(R)
      /\ \A b \in Items(h, rs, "rule") : \A id \in PartsOf(b.id[2], b.of) :
           id \in ToSet(R) \/ (id[1] = "action" /\ Fatal \in ToSet(R))
  BY <1>2, <1>6, RulesDeleted
<1>8. Array(X) /\ ToSet(X) = {RulesetId}
  BY SingleArray DEF ToSet
<1>9. ids = ((L \o R) \o M) \o X
  BY DEF Destroy, IdsOf, RulesetId
<1> HIDE DEF L, R, M, X, ids
<1>10. PICK LR : LR = L \o R
  OBVIOUS
<1>11. Array(LR) /\ ToSet(LR) = ToSet(L) \cup ToSet(R)
  BY <1>4, <1>7, <1>10, Joined
<1>12. PICK LRM : LRM = LR \o M
  OBVIOUS
<1>13. Array(LRM) /\ ToSet(LRM) = ToSet(LR) \cup ToSet(M)
  BY <1>5, <1>11, <1>12, Joined
<1>14. ids = LRM \o X
  BY <1>9, <1>10, <1>12
<1>15. Array(ids) /\ ToSet(ids) = ToSet(L) \cup ToSet(R) \cup ToSet(M) \cup {RulesetId}
  BY <1>8, <1>11, <1>13, <1>14, Joined
<1>16. \A x, y : x \in ToSet(L) \cup ToSet(R) /\ InOrder(LR, x, y) => InOrder(ids, x, y)
  <2>1. \A x, y : x \in ToSet(LR) /\ InOrder(LR, x, y) => InOrder(LRM, x, y)
    BY <1>5, <1>11, <1>12, OrderJoined
  <2>2. \A x, y : x \in ToSet(LRM) /\ InOrder(LRM, x, y) => InOrder(ids, x, y)
    BY <1>8, <1>13, <1>14, OrderJoined
  <2> QED BY <1>11, <1>13, <2>1, <2>2
<1>17. ASSUME NEW b \in alloc, b.by = h, b.rs = rs
       PROVE  /\ b.id \in ToSet(ids) \/ Fatal \in ToSet(ids)
              /\ b.id[1] = "list" => b.id \in ToSet(L)
              /\ b.id[1] = "condition" => b.id \in ToSet(R)
  <2>0. /\ Held(h, rs, b.id) /\ (b.id[1] \in PartTypes => OfRule(h, rs, b.id)) /\ Block(b)
    BY <1>17 DEF Whole, Store
  <2>1. PICK c \in alloc : c.by = h /\ c.rs = rs /\ c.id = b.id /\ c.part = "item"
    BY <2>0 DEF Held
  <2>2. CASE b.id[1] \in {"list", "rule", "limiter"}
    BY <1>3, <1>4, <1>5, <1>7, <1>15, <2>1, <2>2
  <2>3. CASE b.id[1] = "ruleset"
    BY <1>15, <2>0, <2>3 DEF Block
  <2>4. CASE b.id[1] \in PartTypes
    <3>1. PICK r \in alloc : /\ r.by = h /\ r.rs = rs /\ r.part = "item"
                             /\ r.id[1] = "rule" /\ b.id \in PartsOf(r.id[2], r.of)
      BY <2>0, <2>4 DEF OfRule
    <3>2. b.id \in ToSet(R) \/ (b.id[1] = "action" /\ Fatal \in ToSet(R))
      BY <1>3, <1>7, <3>1
    <3> QED BY <1>15, <2>4, <3>2 DEF PartTypes
  <2> QED BY <2>0, <2>2, <2>3, <2>4 DEF Block, Types, PartTypes
<1>18. ASSUME NEW b \in alloc, b.by = h, b.rs = rs, NEW id \in b.refs, Follows(b, id)
       PROVE  InOrder(ids, b.id, id)
  <2>0. Block(b)
    BY DEF Store
  <2>1. CASE b.id[1] = "list"
    <3>1. id[1] = "rule"
      BY <2>0, <2>1 DEF Block
    <3>2. id \notin ToSet(L)
      BY <1>4, <3>1
    <3>3. b.id \in ToSet(L)
      BY <1>17, <1>18, <2>1
    <3>4. InOrder(LR, b.id, id)
      <4>1. PICK x : x = b.id
        OBVIOUS
      <4>2. InOrder(L, x, id)
        BY <3>2, NotThere
      <4>3. InOrder(LR, x, id)
        BY <1>4, <1>7, <1>10, <3>3, <4>1, <4>2, OrderJoined
      <4> QED BY <4>1, <4>3
    <3> QED BY <1>16, <3>3, <3>4
  <2>2. CASE b.id[1] = "condition" /\ id[1] = "limiter"
    <3>1. id \notin ToSet(LR)
      BY <1>4, <1>7, <1>11, <2>2 DEF RuleTypes
    <3>2. b.id \in ToSet(R)
      BY <1>17, <1>18, <2>2
    <3> QED BY <1>16, <3>1, <3>2, NotThere
  <2>3. b.id[1] # "phase"
    BY <2>0 DEF Block, Types
  <2> QED BY <1>18, <2>1, <2>2, <2>3 DEF Follows
<1>19. Destroys(ids, h, rs)
  BY <1>15, <1>17, <1>18 DEF Destroys
<1> QED BY <1>19 DEF ids

Targets(rs, ids) == [i \in DOMAIN ids |-> Target(rs, ids[i])]

\* The same with the name of the ruleset.
LEMMA TargetsAre ==
  ASSUME NEW rs, NEW ids, Array(ids)
  PROVE  LET s == Targets(rs, ids)
         IN  /\ Array(s) /\ \A x \in ToSet(s) : x = Target(x.rs, x.id)
             /\ \A id \in ToSet(ids) : Target(rs, id) \in ToSet(s)
             /\ \A name, x, y : (name = rs => InOrder(ids, x, y)) => InOrder(s, Target(name, x), Target(name, y))
<1> DEFINE s == Targets(rs, ids)
<1>1. Len(ids) \in Nat /\ DOMAIN ids = 1 .. Len(ids)
  BY ArrayFacts
<1>2. DOMAIN s = 1 .. Len(ids) /\ s = [i \in 1 .. Len(ids) |-> s[i]]
      /\ \A i \in 1 .. Len(ids) : s[i] = Target(rs, ids[i])
  BY <1>1 DEF Targets
<1> HIDE DEF s
<1>3. Array(s)
  BY <1>1, <1>2, ArrayIs
<1>4. \A id \in ToSet(ids) : Target(rs, id) \in ToSet(s)
  BY <1>1, <1>2 DEF ToSet
<1>5. ASSUME NEW name, NEW x, NEW y, name = rs => InOrder(ids, x, y)
      PROVE  InOrder(s, Target(name, x), Target(name, y))
  <2> SUFFICES ASSUME NEW i \in 1 .. Len(ids), s[i] = Target(name, y)
               PROVE  \E j \in 1 .. i - 1 : s[j] = Target(name, x)
    BY <1>2 DEF InOrder
  <2>1. rs = name /\ ids[i] = y
    <3>1. Target(rs, ids[i]) = Target(name, y)
      BY <1>2
    <3>2. \A a, b : Target(a, b).rs = a /\ Target(a, b).id = b
      BY DEF Target
    <3> HIDE DEF Target
    <3>3. /\ Target(rs, ids[i]).rs = rs /\ Target(rs, ids[i]).id = ids[i]
          /\ Target(name, y).rs = name /\ Target(name, y).id = y
      BY <3>2
    <3> QED BY <3>1, <3>3
  <2>2. PICK j \in 1 .. i - 1 : ids[j] = x
    BY <1>1, <1>5, <2>1 DEF InOrder
  <2>3. s[j] = Target(name, x)
    BY <1>1, <1>2, <2>1, <2>2
  <2> QED BY <2>3
<1>6. \A x \in ToSet(s) : x = Target(x.rs, x.id)
  <2>1. \A id : Target(rs, id) = Target(Target(rs, id).rs, Target(rs, id).id)
    BY DEF Target
  <2> QED BY <1>2, <2>1 DEF ToSet
<1> QED BY <1>3, <1>4, <1>5, <1>6 DEF s

\* Two states of a store with the same blocks.
LEMMA SameStore ==
  ASSUME alloc' = alloc
  PROVE  /\ Store => Store'
         /\ \A g : Whole(g) => Whole(g)'
         /\ \A g, rs, id : Held(g, rs, id) => Held(g, rs, id)'
<1>1. \A g, rs, id : Held(g, rs, id) <=> Held(g, rs, id)'
  BY DEF Held
<1>2. \A g, rs, id : OfRule(g, rs, id) => OfRule(g, rs, id)'
  BY DEF OfRule
<1>3. Store => Store'
  BY <1>1 DEF Store, Closed, Block, Follows
<1>4. \A g : Whole(g) => Whole(g)'
  BY <1>1, <1>2 DEF Whole
<1> QED BY <1>1, <1>3, <1>4

\* Nothing changes for a manager that leaves.
LEMMA SameDeletes ==
  ASSUME alloc' = alloc, NEW g, doomed'[g] = doomed[g], Deletes(g)
  PROVE  Deletes(g)'
BY DEF Deletes, InOrder, Follows

\* The manager begins to destroy its rulesets.
LEMMA ShutdownIs ==
  ASSUME IInv, NEW h \in Helpers, Shutdown(h)
  PROVE  IInv'
<1>1. /\ helper[h] = "up" /\ quitting
      /\ UNCHANGED <<conf, alloc, todo, later, place, registered, quitting, workers, asks, answers, count>>
      /\ helper' = [helper EXCEPT ![h] = "leaving"] \/ (helper' = [helper EXCEPT ![h] = "gone"] /\ UNCHANGED doomed)
  BY DEF Shutdown
<1>2. Typed /\ Store /\ Alive /\ Leaving
  BY DEF IInv
<1>3. DOMAIN helper = Helpers /\ DOMAIN doomed = Helpers
  BY <1>2 DEF Typed
<1>4. /\ \A g : g # h => helper'[g] = helper[g]
      /\ helper'[h] \in {"leaving", "gone"} /\ DOMAIN helper' = Helpers
  <2>1. \/ helper' = [helper EXCEPT ![h] = "leaving"]
        \/ helper' = [helper EXCEPT ![h] = "gone"]
    BY <1>1
  <2>2. CASE helper' = [helper EXCEPT ![h] = "leaving"]
    BY <1>3, <2>2
  <2>3. CASE helper' = [helper EXCEPT ![h] = "gone"]
    BY <1>3, <2>3
  <2> QED BY <2>1, <2>2, <2>3
<1>5. DOMAIN doomed' = Helpers /\ \A g \in Helpers : g # h => doomed'[g] = doomed[g]
  BY <1>3 DEF Shutdown
<1>6. Store' /\ \A g : Whole(g) => Whole(g)'
  BY <1>1, <1>2, SameStore
<1>7. Alive'
  BY <1>2, <1>4, <1>6 DEF Alive
<1>8. ASSUME helper'[h] = "leaving" PROVE Deletes(h)'
  <2>1. PICK names \in SetToSeqs(Mine(h)) :
           \E each \in [DOMAIN names -> UNION {Destroyed(h, rs) : rs \in Mine(h)}] :
              /\ \A i \in DOMAIN names : each[i] \in Destroyed(h, names[i])
              /\ doomed' = [doomed EXCEPT ![h] = FlattenSeq([i \in DOMAIN names |-> each[i]])]
    <3>1. ~(helper' = [helper EXCEPT ![h] = "gone"])
      BY <1>3, <1>8
    <3> QED BY <3>1 DEF Shutdown
  <2>2. PICK each \in [DOMAIN names -> UNION {Destroyed(h, rs) : rs \in Mine(h)}] :
              /\ \A i \in DOMAIN names : each[i] \in Destroyed(h, names[i])
              /\ doomed' = [doomed EXCEPT ![h] = FlattenSeq([i \in DOMAIN names |-> each[i]])]
    BY <2>1
  <2> DEFINE ss == [i \in DOMAIN names |-> each[i]]
  <2>3. IsFiniteSet(Mine(h))
    <3> DEFINE of == [b \in alloc |-> b.rs]
    <3>1. IsFiniteSet({of[b] : b \in alloc})
      <4>1. DOMAIN of = alloc /\ IsFiniteSet(alloc)
        BY <1>2 DEF Store
      <4> HIDE DEF of
      <4> QED BY <4>1, ImageFinite
    <3>2. Mine(h) \in SUBSET {of[b] : b \in alloc}
      BY DEF Mine
    <3> HIDE DEF of
    <3> QED BY <3>1, <3>2, FS_Subset
  <2>4. Array(names) /\ ToSet(names) = Mine(h)
    BY <2>3, AnyOrder
  <2>5. Len(names) \in Nat /\ DOMAIN names = 1 .. Len(names)
    BY <2>4, ArrayFacts
  <2>6. DOMAIN ss = 1 .. Len(names) /\ ss = [i \in 1 .. Len(names) |-> ss[i]]
        /\ \A i \in 1 .. Len(names) : ss[i] = each[i]
    BY <2>5
  <2>7. doomed'[h] = FlattenSeq(ss)
    BY <1>3, <2>2
  <2> HIDE DEF ss
  <2>8. Array(ss)
    BY <2>5, <2>6, ArrayIs
  <2>9. Whole(h)
    BY <1>1, <1>2 DEF Alive
  <2>10. ASSUME NEW i \in 1 .. Len(names)
         PROVE  \E ids : ss[i] = Targets(names[i], ids) /\ Destroys(ids, h, names[i])
    <3>1. PICK rs : rs = names[i]
      OBVIOUS
    <3>2. ss[i] \in Destroyed(h, rs)
      BY <2>2, <2>5, <2>6, <3>1
    <3>3. PICK l \in SetToSeqs(Items(h, rs, "list")), r \in SetToSeqs(Items(h, rs, "rule")),
               m \in SetToSeqs(Items(h, rs, "limiter")) :
             ss[i] = Targets(rs, Destroy(l, r, m))
      BY <3>2 DEF Destroyed, Targets, Target
    <3>4. Destroys(Destroy(l, r, m), h, rs)
      BY <1>2, <2>9, DestroyIs
    <3> QED BY <3>1, <3>3, <3>4
  <2>11. ASSUME NEW i \in 1 .. Len(names)
         PROVE  /\ Array(ss[i]) /\ \A x \in ToSet(ss[i]) : x = Target(x.rs, x.id)
                /\ \A b \in alloc : b.by = h /\ b.rs = names[i] =>
                     \/ Target(b.rs, b.id) \in ToSet(ss[i])
                     \/ Target(b.rs, Fatal) \in ToSet(ss[i])
                /\ \A b \in alloc : b.by = h =>
                     \A id \in b.refs : Follows(b, id) => InOrder(ss[i], Target(b.rs, b.id), Target(b.rs, id))
    <3>1. PICK ids : ss[i] = Targets(names[i], ids) /\ Destroys(ids, h, names[i])
      BY <2>10
    <3>2. PICK rs, s : rs = names[i] /\ s = ss[i]
      OBVIOUS
    <3>3. Destroys(ids, h, rs) /\ s = Targets(rs, ids)
      BY <3>1, <3>2
    <3>4. /\ Array(s) /\ \A x \in ToSet(s) : x = Target(x.rs, x.id)
          /\ \A id \in ToSet(ids) : Target(rs, id) \in ToSet(s)
          /\ \A name, x, y : (name = rs => InOrder(ids, x, y)) => InOrder(s, Target(name, x), Target(name, y))
      BY <3>3, TargetsAre DEF Destroys
    <3>5. ASSUME NEW b \in alloc, b.by = h, NEW id \in b.refs, Follows(b, id)
          PROVE  InOrder(s, Target(b.rs, b.id), Target(b.rs, id))
      <4>1. b.rs = rs => InOrder(ids, b.id, id)
        BY <3>3, <3>5 DEF Destroys
      <4>2. PICK name, x : name = b.rs /\ x = b.id
        OBVIOUS
      <4>3. InOrder(s, Target(name, x), Target(name, id))
        BY <3>4, <4>1, <4>2
      <4> QED BY <4>2, <4>3
    <3>6. ASSUME NEW b \in alloc, b.by = h, b.rs = rs
          PROVE  Target(b.rs, b.id) \in ToSet(s) \/ Target(b.rs, Fatal) \in ToSet(s)
      BY <3>3, <3>4, <3>6 DEF Destroys
    <3> QED BY <3>2, <3>4, <3>5, <3>6
  <2>12. Array(FlattenSeq(ss)) /\ ToSet(FlattenSeq(ss)) = UNION {ToSet(ss[i]) : i \in DOMAIN ss}
    BY <2>6, <2>8, <2>11, Flat
  <2>13. ASSUME NEW b \in alloc, b.by = h
         PROVE  \/ Target(b.rs, b.id) \in ToSet(FlattenSeq(ss))
                \/ Target(b.rs, Fatal) \in ToSet(FlattenSeq(ss))
    <3>1. Held(h, b.rs, RulesetId)
      BY <2>9, <2>13 DEF Whole
    <3>2. b.rs \in Mine(h)
      <4>1. RulesetId[1] = "ruleset"
        BY DEF RulesetId
      <4> QED BY <3>1, <4>1 DEF Held, Mine
    <3>3. PICK i \in 1 .. Len(names) : names[i] = b.rs
      BY <2>4, <2>5, <3>2 DEF ToSet
    <3>4. Target(b.rs, b.id) \in ToSet(ss[i]) \/ Target(b.rs, Fatal) \in ToSet(ss[i])
      BY <2>11, <2>13, <3>3
    <3> QED BY <2>6, <2>12, <3>4
  <2>14. \A rs : Target(rs, Fatal).id = Fatal
    BY DEF Target
  <2>15. ASSUME NEW b \in alloc, b.by = h, NEW id \in b.refs, Follows(b, id)
         PROVE  InOrder(FlattenSeq(ss), Target(b.rs, b.id), Target(b.rs, id))
    <3>1. PICK x, y : x = Target(b.rs, b.id) /\ y = Target(b.rs, id)
      OBVIOUS
    <3>2. \A i \in DOMAIN ss : Array(ss[i]) /\ InOrder(ss[i], x, y)
      BY <2>6, <2>11, <2>15, <3>1
    <3> QED BY <2>8, <3>1, <3>2, OrderFlat
  <2> DEFINE s == FlattenSeq(ss)
  <2> HIDE DEF s
  <2>160. \A x \in ToSet(s) : x = Target(x.rs, x.id)
    BY <2>6, <2>11, <2>12 DEF s
  <2>16. /\ Array(s)
         /\ \/ \E x \in ToSet(s) : x.id = Fatal
            \/ \A b \in alloc : b.by = h => Target(b.rs, b.id) \in ToSet(s)
         /\ \A b \in alloc : b.by = h =>
              \A id \in b.refs : Follows(b, id) => InOrder(s, Target(b.rs, b.id), Target(b.rs, id))
    BY <2>12, <2>13, <2>14, <2>15 DEF s
  <2>17. doomed'[h] = s /\ alloc' = alloc
    BY <1>1, <2>7 DEF s
  <2> QED BY <2>16, <2>160, <2>17 DEF Deletes, Follows, InOrder
<1>9. Leaving'
  <2> SUFFICES ASSUME NEW g \in Helpers, helper'[g] = "leaving" PROVE quitting' /\ Deletes(g)'
    BY DEF Leaving
  <2>1. CASE g = h
    BY <1>1, <1>8, <2>1
  <2>2. CASE g # h
    <3>1. Deletes(g) /\ quitting
      BY <1>2, <1>4, <2>2 DEF Leaving
    <3> QED BY <1>1, <1>5, <2>2, <3>1, SameDeletes
  <2> QED BY <2>1, <2>2
<1>10. Placed'
  BY <1>1 DEF Placed
<1>11. Typed'
  BY <1>1, <1>2, <1>4, <1>5 DEF Typed, workers
<1> QED BY <1>6, <1>7, <1>9, <1>10, <1>11 DEF IInv

\* The next delete.
LEMMA DeleteNextIs ==
  ASSUME IInv, NEW h \in Helpers, DeleteNext(h)
  PROVE  IInv'
<1> DEFINE next == Head(doomed[h])
           goes(b) == b.by = h /\ b.rs = next.rs /\ b.id = next.id
<1>1. /\ helper[h] = "leaving" /\ doomed[h] # <<>>
      /\ alloc' = {b \in alloc : ~(goes(b) /\ b.part \in Freed(next.id[1]))}
      /\ helper' = IF next.id = Fatal THEN [helper EXCEPT ![h] = "gone"] ELSE helper
      /\ doomed' = [doomed EXCEPT ![h] = Tail(@)]
      /\ UNCHANGED <<conf, todo, later, place, registered, quitting, workers, asks, answers, count>>
  BY DEF DeleteNext
<1>2. Typed /\ Store /\ Alive /\ Leaving
  BY DEF IInv
<1>3. quitting /\ Deletes(h)
  BY <1>1, <1>2 DEF Leaving
<1>4. PICK s : s = doomed[h]
  OBVIOUS
<1>5. Array(s) /\ Len(s) \in Nat /\ DOMAIN s = 1 .. Len(s) /\ Len(s) # 0
  <2>1. Array(s)
    BY <1>3, <1>4 DEF Deletes
  <2>2. s \in Seq(Range(s)) /\ s # <<>>
    BY <1>1, <1>4, <2>1 DEF Array
  <2>3. Len(s) # 0
    BY <2>2, EmptySeq
  <2> QED BY <2>1, <2>3, ArrayFacts
<1>6. Array(Tail(s)) /\ Len(Tail(s)) = Len(s) - 1 /\ \A i \in 1 .. Len(s) - 1 : Tail(s)[i] = s[i + 1]
  BY <1>5, TailArray
<1>7. DOMAIN Tail(s) = 1 .. Len(s) - 1
  BY <1>6, ArrayFacts
<1>80. Head(s) = s[1]
  <2> DEFINE S == Range(s)
  <2>1. s \in Seq(S)
    BY <1>5 DEF Array
  <2> HIDE DEF S
  <2> QED BY <2>1, <1>5
<1>8. next = s[1] /\ next = Target(next.rs, next.id)
  <2>1. s[1] \in ToSet(s)
    BY <1>5 DEF ToSet
  <2>2. next = s[1]
    BY <1>4, <1>80
  <2> QED BY <1>3, <1>4, <2>1, <2>2 DEF Deletes
<1> HIDE DEF next
<1>9. DOMAIN helper = Helpers /\ DOMAIN doomed = Helpers
  BY <1>2 DEF Typed
<1>10. /\ \A g : g # h => helper'[g] = helper[g]
       /\ helper'[h] \in {"leaving", "gone"} /\ (helper'[h] = "leaving" => next.id # Fatal)
       /\ DOMAIN helper' = Helpers
  BY <1>1, <1>9
<1>11. DOMAIN doomed' = Helpers /\ doomed'[h] = Tail(s) /\ \A g \in Helpers : g # h => doomed'[g] = doomed[g]
  BY <1>1, <1>4, <1>9
<1>12. /\ \A b \in alloc' : b \in alloc
       /\ \A b \in alloc : b \notin alloc' => goes(b)
       /\ \A b \in alloc' : ~goes(b)
  <2>1. \A b \in alloc : b.part \in Freed(b.id[1])
    BY <1>2 DEF Store, Block
  <2> QED BY <1>1, <2>1
<1>13. \A b \in alloc : goes(b) => b.by = h /\ Target(b.rs, b.id) = s[1]
  BY <1>8
<1>14. ASSUME NEW b \in alloc, b.by = h, NEW id \in b.refs, Follows(b, id)
       PROVE  InOrder(s, Target(b.rs, b.id), Target(b.rs, id))
  BY <1>3, <1>4, <1>14 DEF Deletes
<1>15. ASSUME NEW b \in alloc', NEW id \in b.refs, Follows(b, id) PROVE Held(b.by, b.rs, id)'
  <2>1. b \in alloc
    BY <1>12
  <2>2. PICK c \in alloc : c.by = b.by /\ c.rs = b.rs /\ c.id = id /\ c.part = "item"
    BY <1>2, <1>15, <2>1 DEF Store, Closed, Held
  <2>3. c \in alloc'
    <3> SUFFICES ASSUME c \notin alloc' PROVE FALSE
      OBVIOUS
    <3>1. c.by = h /\ Target(c.rs, c.id) = s[1]
      BY <1>12, <1>13
    <3>2. InOrder(s, Target(b.rs, b.id), s[1])
      BY <1>14, <1>15, <2>1, <2>2, <3>1
    <3>3. 1 \in DOMAIN s /\ 1 .. 1 - 1 = {}
      BY <1>5
    <3> QED BY <3>2, <3>3 DEF InOrder
  <2> QED BY <2>2, <2>3 DEF Held
<1>16. Store'
  <2>1. IsFiniteSet(alloc)'
    <3>1. alloc' \in SUBSET alloc
      BY <1>12
    <3> QED BY <1>2, <3>1, FS_Subset DEF Store
  <2>2. \A b \in alloc' : Block(b)
    BY <1>2, <1>12 DEF Store
  <2>3. Closed'
    BY <1>15 DEF Closed, Follows
  <2> QED BY <2>1, <2>2, <2>3 DEF Store, Block
<1>17. Alive'
  <2> SUFFICES ASSUME NEW g \in Helpers, helper'[g] \in {"unborn", "starting", "up"} PROVE Whole(g)'
    BY DEF Alive
  <2>1. g # h /\ Whole(g)
    BY <1>2, <1>10 DEF Alive
  <2>2. \A b \in alloc : b.by = g => b \in alloc'
    BY <1>12, <2>1
  <2>3. \A rs, id : Held(g, rs, id) => Held(g, rs, id)'
    BY <2>2 DEF Held
  <2>4. \A rs, id : OfRule(g, rs, id) => OfRule(g, rs, id)'
    BY <2>2 DEF OfRule
  <2> QED BY <1>12, <2>1, <2>3, <2>4 DEF Whole
<1>18. ASSUME helper'[h] = "leaving" PROVE Deletes(h)'
  <2> DEFINE t == Tail(s)
  <2>1. \A x \in ToSet(t) : x \in ToSet(s)
    <3>1. \A i \in 1 .. Len(s) - 1 : i + 1 \in 1 .. Len(s)
      BY <1>5
    <3> QED BY <1>5, <1>6, <1>7, <3>1 DEF ToSet
  <2>2. \A x \in ToSet(s) : x = s[1] \/ x \in ToSet(t)
    <3> SUFFICES ASSUME NEW i \in 1 .. Len(s), s[i] # s[1] PROVE s[i] \in ToSet(t)
      BY <1>5 DEF ToSet
    <3>1. i - 1 \in 1 .. Len(s) - 1 /\ (i - 1) + 1 = i
      BY <1>5
    <3>2. t[i - 1] = s[i]
      BY <1>6, <3>1
    <3> QED BY <1>7, <3>1, <3>2 DEF ToSet
  <2>3. next.id # Fatal
    BY <1>10, <1>18
  <2>4. \/ \E x \in ToSet(t) : x.id = Fatal
        \/ \A b \in alloc' : b.by = h => Target(b.rs, b.id) \in ToSet(t)
    <3>1. CASE \E x \in ToSet(s) : x.id = Fatal
      BY <1>8, <2>2, <2>3, <3>1
    <3>2. CASE \A b \in alloc : b.by = h => Target(b.rs, b.id) \in ToSet(s)
      <4>1. ASSUME NEW b \in alloc', b.by = h PROVE Target(b.rs, b.id) \in ToSet(t)
        <5>1. Target(b.rs, b.id) \in ToSet(s) /\ ~goes(b)
          BY <1>12, <3>2, <4>1
        <5>2. Target(b.rs, b.id) # s[1]
          <6>1. Target(b.rs, b.id).rs = b.rs /\ Target(b.rs, b.id).id = b.id
            BY DEF Target
          <6> QED BY <1>8, <4>1, <5>1, <6>1
        <5> QED BY <2>2, <5>1, <5>2
      <4> QED BY <4>1
    <3> QED BY <1>3, <1>4, <3>1, <3>2 DEF Deletes
  <2>5. ASSUME NEW b \in alloc', b.by = h, NEW id \in b.refs, Follows(b, id)
        PROVE  InOrder(t, Target(b.rs, b.id), Target(b.rs, id))
    <3>1. PICK x, y : x = Target(b.rs, b.id) /\ y = Target(b.rs, id)
      OBVIOUS
    <3>2. InOrder(s, x, y)
      BY <1>12, <1>14, <2>5, <3>1
    <3>3. x # s[1]
      <4>1. Target(b.rs, b.id).rs = b.rs /\ Target(b.rs, b.id).id = b.id
        BY DEF Target
      <4> QED BY <1>8, <1>12, <2>5, <3>1, <4>1
    <3>4. ASSUME NEW i \in 1 .. Len(s) - 1, t[i] = y PROVE \E j \in 1 .. i - 1 : t[j] = x
      <4>1. i + 1 \in 1 .. Len(s) /\ s[i + 1] = y
        BY <1>5, <1>6, <3>4
      <4>2. PICK j \in 1 .. (i + 1) - 1 : s[j] = x
        BY <1>5, <3>2, <4>1 DEF InOrder
      <4>3. j # 1 /\ j - 1 \in 1 .. i - 1 /\ j - 1 \in 1 .. Len(s) - 1 /\ (j - 1) + 1 = j
        BY <1>5, <3>3, <4>2
      <4>4. t[j - 1] = x
        BY <1>6, <4>2, <4>3
      <4> QED BY <4>3, <4>4
    <3> QED BY <1>7, <3>1, <3>4 DEF InOrder
  <2>6. /\ Array(t) /\ \A x \in ToSet(t) : x = Target(x.rs, x.id)
    BY <1>3, <1>4, <1>6, <2>1 DEF Deletes
  <2>7. t = doomed'[h]
    BY <1>11
  <2> HIDE DEF t
  <2> QED BY <2>4, <2>5, <2>6, <2>7 DEF Deletes, Follows, InOrder
<1>19. Leaving'
  <2> SUFFICES ASSUME NEW g \in Helpers, helper'[g] = "leaving" PROVE quitting' /\ Deletes(g)'
    BY DEF Leaving
  <2>1. CASE g = h
    BY <1>1, <1>3, <1>18, <2>1
  <2>2. CASE g # h
    <3>1. Deletes(g)
      BY <1>2, <1>10, <2>2 DEF Leaving
    <3>2. doomed'[g] = doomed[g]
      BY <1>11, <2>2
    <3>3. PICK t : t = doomed[g]
      OBVIOUS
    <3>4. \A b \in alloc' : b \in alloc
      BY <1>12
    <3>5. /\ Array(t) /\ \A x \in ToSet(t) : x = Target(x.rs, x.id)
          /\ \/ \E x \in ToSet(t) : x.id = Fatal
             \/ \A b \in alloc' : b.by = g => Target(b.rs, b.id) \in ToSet(t)
          /\ \A b \in alloc' : b.by = g =>
               \A id \in b.refs : Follows(b, id) => InOrder(t, Target(b.rs, b.id), Target(b.rs, id))
      BY <3>1, <3>3, <3>4 DEF Deletes
    <3>6. Deletes(g)'
      BY <3>2, <3>3, <3>5 DEF Deletes, Follows, InOrder
    <3> QED BY <1>1, <1>3, <3>6
  <2> QED BY <2>1, <2>2
<1>20. Placed'
  BY <1>1, <1>3 DEF Placed
<1>21. Typed'
  BY <1>1, <1>2, <1>10, <1>11 DEF Typed, workers
<1> QED BY <1>16, <1>17, <1>19, <1>20, <1>21 DEF IInv

(***************************************************************************)
(* The rest leaves memory alone.                                           *)
(***************************************************************************)
LEMMA Quiet ==
  ASSUME IInv, UNCHANGED <<conf, alloc, doomed, quitting>>,
         \A g \in Helpers :
            helper'[g] \in {"unborn", "starting", "up"} => helper[g] \in {"unborn", "starting", "up"},
         \A g \in Helpers : helper'[g] = "leaving" => helper[g] = "leaving"
  PROVE  Store' /\ Alive' /\ Leaving' /\ \A p : Complete(p) => Complete(p)'
<1>1. /\ Store => Store'
      /\ \A g : Whole(g) => Whole(g)'
      /\ \A g, rs, id : Held(g, rs, id) => Held(g, rs, id)'
  BY SameStore
<1>2. Alive'
  BY <1>1 DEF IInv, Alive
<1>3. Leaving'
  BY SameDeletes DEF IInv, Leaving
<1>4. \A p : Complete(p) => Complete(p)'
  <2> SUFFICES ASSUME NEW p, Complete(p) PROVE Complete(p)'
    OBVIOUS
  <2>1. \A g, rs, id : Held(g, rs, id) => Held(g, rs, id)'
    BY <1>1
  <2>2. Held(p[1], p[2], <<"ruleset", "", "">>) /\ p[2] = conf.places[1]
    BY DEF Complete
  <2> QED BY <2>1, <2>2 DEF Complete
<1> QED BY <1>1, <1>2, <1>3, <1>4 DEF IInv

\* A step that tells nobody of anything either.
LEMMA QuietKnown ==
  ASSUME IInv, UNCHANGED <<conf, alloc, doomed, quitting, place, known, answers>>,
         \A g \in Helpers :
            helper'[g] \in {"unborn", "starting", "up"} => helper[g] \in {"unborn", "starting", "up"},
         \A g \in Helpers : helper'[g] = "leaving" => helper[g] = "leaving",
         DOMAIN helper' = Helpers, DOMAIN todo' = Helpers, \A g \in Helpers : todo'[g] \subseteq DOMAIN conf.file
  PROVE  IInv'
<1>1. Store' /\ Alive' /\ Leaving' /\ \A p : Complete(p) => Complete(p)'
  BY Quiet
<1>2. Placed'
  BY <1>1 DEF IInv, Placed, Told
<1>3. Typed'
  BY DEF IInv, Typed
<1> QED BY <1>1, <1>2, <1>3 DEF IInv

\* An array with one element more.
LEMMA AppendedHas ==
  ASSUME NEW s, NEW e, Array(s)
  PROVE  Array(Append(s, e)) /\ \A i \in DOMAIN Append(s, e) :
           (i \in DOMAIN s /\ Append(s, e)[i] = s[i]) \/ Append(s, e)[i] = e
<1>1. /\ Array(Append(s, e)) /\ Len(Append(s, e)) = Len(s) + 1
      /\ \A i \in 1 .. Len(s) : Append(s, e)[i] = s[i]
      /\ Append(s, e)[Len(s) + 1] = e
  BY Appended
<1>2. Len(s) \in Nat /\ DOMAIN s = 1 .. Len(s) /\ DOMAIN Append(s, e) = 1 .. Len(s) + 1
  BY <1>1, ArrayFacts
<1>3. \A i \in 1 .. Len(s) + 1 : i \in 1 .. Len(s) \/ i = Len(s) + 1
  BY <1>2
<1> QED BY <1>1, <1>2, <1>3

\* A step of the workers that passes on what was known or told.
LEMMA WorkersAre ==
  ASSUME IInv, UNCHANGED <<conf, alloc, doomed, quitting, helper, todo, place>>,
         DOMAIN known' = Workers, \A w \in Workers : DOMAIN known'[w] = 1 .. 3,
         DOMAIN answers' = Workers, \A w \in Workers : Array(answers'[w]),
         \A w \in Workers : known'[w][1] \in Told(w) \cup {Null},
         \A w \in Workers : \A i \in DOMAIN answers'[w] :
            \/ answers'[w][i].ruleset \in Told(w) \cup {Null}
            \/ \E h \in Helpers : answers'[w][i].ruleset = place[h][1]
  PROVE  IInv'
<1>1. Store' /\ Alive' /\ Leaving' /\ \A p : Complete(p) => Complete(p)'
  BY Quiet
<1>2. Placed'
  <2> SUFFICES ASSUME ~quitting
               PROVE  /\ \A h \in Helpers : place'[h][1] # Null => Complete(place[h][1])'
                      /\ \A w \in Workers : \A p \in Told(w)' : p # Null => Complete(p)'
    BY DEF Placed, Told
  <2>1. /\ \A h \in Helpers : place[h][1] # Null => Complete(place[h][1])
        /\ \A w \in Workers : \A p \in Told(w) \ {Null} : Complete(p)
    BY DEF IInv, Placed
  <2>2. ASSUME NEW h \in Helpers, place'[h][1] # Null PROVE Complete(place[h][1])'
    <3>1. PICK p : p = place[h][1]
      OBVIOUS
    <3>2. Complete(p)'
      BY <1>1, <2>1, <2>2, <3>1
    <3> QED BY <3>1, <3>2 DEF Complete
  <2>3. ASSUME NEW w \in Workers, NEW p \in Told(w)', p # Null PROVE Complete(p)'
    <3>1. p = known'[w][1] \/ \E i \in DOMAIN answers'[w] : p = answers'[w][i].ruleset
      BY <2>3 DEF Told
    <3>2. p \in Told(w) \/ \E h \in Helpers : p = place[h][1]
      BY <2>3, <3>1
    <3>3. Complete(p)
      BY <2>1, <2>3, <3>2
    <3> QED BY <1>1, <3>3
  <2> QED BY <2>2, <2>3
<1>3. Typed'
  BY DEF IInv, Typed
<1> QED BY <1>1, <1>2, <1>3 DEF IInv

\* A worker that dies knows nothing.
LEMMA CrashIs ==
  ASSUME IInv, NEW w \in Workers, Crash(w), UNCHANGED <<conf, alloc, doomed, quitting, helper, todo, place>>,
         DOMAIN answers' = Workers, \A v \in Workers : Array(answers'[v]),
         \A v \in Workers : \A i \in DOMAIN answers'[v] : answers'[v][i].ruleset \in Told(v)
  PROVE  IInv'
<1>1. known' = [known EXCEPT ![w] = Nowhere]
  BY DEF Crash
<1>2. DOMAIN known = Workers /\ \A v \in Workers : DOMAIN known[v] = 1 .. 3
  BY DEF IInv, Typed
<1>3. DOMAIN Nowhere = 1 .. 3 /\ Nowhere[1] = Null
  BY DEF Nowhere
<1>4. DOMAIN known' = Workers /\ \A v \in Workers : known'[v] = IF v = w THEN Nowhere ELSE known[v]
  BY <1>1, <1>2
<1>5. \A v \in Workers : DOMAIN known'[v] = 1 .. 3
  BY <1>2, <1>3, <1>4
<1>6. \A v \in Workers : known'[v][1] \in Told(v) \cup {Null}
  BY <1>3, <1>4 DEF Told
<1> QED BY <1>4, <1>5, <1>6, WorkersAre

LEMMA BeginIs ==
  ASSUME IInv, NEW w \in Workers, NEW a \in Requests, Begin(w, a)
  PROVE  IInv'
<1>1. UNCHANGED <<conf, alloc, doomed, quitting, helper, todo, place>>
  BY DEF Begin, memory, helpers
<1>2. /\ DOMAIN known = Workers /\ \A v \in Workers : DOMAIN known[v] = 1 .. 3
      /\ DOMAIN answers = Workers /\ \A v \in Workers : Array(answers[v])
      /\ DOMAIN helper = Helpers /\ DOMAIN todo = Helpers /\ \A g \in Helpers : todo[g] \subseteq DOMAIN conf.file
  BY DEF IInv, Typed
<1>3. \A v \in Workers : known[v][1] \in Told(v) /\ \A i \in DOMAIN answers[v] : answers[v][i].ruleset \in Told(v)
  BY DEF Told
<1>4. \/ Crash(w) /\ UNCHANGED answers
      \/ UNCHANGED <<known, answers>>
      \/ known' = known /\ answers' = [answers EXCEPT ![0] = Append(@, [stray |-> TRUE, a |-> a, ruleset |-> Null])]
  BY DEF Begin
<1>5. CASE Crash(w) /\ UNCHANGED answers
  BY <1>1, <1>2, <1>3, <1>5, CrashIs
<1>6. CASE UNCHANGED <<known, answers>>
  BY <1>1, <1>2, <1>6, QuietKnown
<1>7. CASE /\ known' = known
           /\ answers' = [answers EXCEPT ![0] = Append(@, [stray |-> TRUE, a |-> a, ruleset |-> Null])]
  <2>1. PICK e : e = [stray |-> TRUE, a |-> a, ruleset |-> Null]
    OBVIOUS
  <2>2. e.ruleset = Null
    BY <2>1
  <2>3. /\ DOMAIN answers' = Workers
        /\ \A v \in Workers : answers'[v] = IF v = 0 THEN Append(answers[v], e) ELSE answers[v]
    BY <1>2, <1>7, <2>1
  <2>4. ASSUME NEW v \in Workers
        PROVE  Array(answers'[v]) /\ \A i \in DOMAIN answers'[v] : answers'[v][i].ruleset \in Told(v) \cup {Null}
    <3>1. PICK t, u : t = answers[v] /\ u = answers'[v]
      OBVIOUS
    <3>2. CASE u = t
      BY <1>2, <1>3, <3>1, <3>2
    <3>3. CASE u = Append(t, e)
      <4>1. Array(u) /\ \A i \in DOMAIN u : (i \in DOMAIN t /\ u[i] = t[i]) \/ u[i] = e
        BY <1>2, <3>1, <3>3, AppendedHas
      <4> QED BY <1>3, <2>2, <3>1, <4>1
    <3> QED BY <2>3, <3>1, <3>2, <3>3
  <2> QED BY <1>1, <1>2, <1>3, <1>7, <2>3, <2>4, WorkersAre
<1> QED BY <1>4, <1>5, <1>6, <1>7

LEMMA AnswerIs ==
  ASSUME IInv, NEW h \in Helpers, Answer(h)
  PROVE  IInv'
<1>1. UNCHANGED <<conf, alloc, doomed, quitting, helper, todo, place, known>>
  BY DEF Answer, memory, helpers
<1>2. /\ DOMAIN known = Workers /\ \A v \in Workers : DOMAIN known[v] = 1 .. 3
      /\ DOMAIN answers = Workers /\ \A v \in Workers : Array(answers[v])
      /\ DOMAIN helper = Helpers /\ DOMAIN todo = Helpers /\ \A g \in Helpers : todo[g] \subseteq DOMAIN conf.file
  BY DEF IInv, Typed
<1>3. \A v \in Workers : known[v][1] \in Told(v) /\ \A i \in DOMAIN answers[v] : answers[v][i].ruleset \in Told(v)
  BY DEF Told
<1>4. PICK d : d = Head(asks)
  OBVIOUS
<1>5. \/ UNCHANGED answers
      \/ answers' = [answers EXCEPT ![d.w] = Append(@, [stray |-> FALSE, a |-> d.a, ruleset |-> place[h][1]])]
  BY <1>4 DEF Answer
<1>6. CASE UNCHANGED answers
  BY <1>1, <1>2, <1>6, QuietKnown
<1>7. CASE answers' = [answers EXCEPT ![d.w] = Append(@, [stray |-> FALSE, a |-> d.a, ruleset |-> place[h][1]])]
  <2>1. PICK e : e = [stray |-> FALSE, a |-> d.a, ruleset |-> place[h][1]]
    OBVIOUS
  <2>2. e.ruleset = place[h][1]
    BY <2>1
  <2>3. /\ DOMAIN answers' = Workers
        /\ \A v \in Workers : answers'[v] = IF v = d.w THEN Append(answers[v], e) ELSE answers[v]
    BY <1>2, <1>7, <2>1
  <2>4. ASSUME NEW v \in Workers
        PROVE  Array(answers'[v]) /\ \A i \in DOMAIN answers'[v] :
                 answers'[v][i].ruleset \in Told(v) \/ answers'[v][i].ruleset = place[h][1]
    <3>1. PICK t, u : t = answers[v] /\ u = answers'[v]
      OBVIOUS
    <3>2. CASE u = t
      BY <1>2, <1>3, <3>1, <3>2
    <3>3. CASE u = Append(t, e)
      <4>1. Array(u) /\ \A i \in DOMAIN u : (i \in DOMAIN t /\ u[i] = t[i]) \/ u[i] = e
        BY <1>2, <3>1, <3>3, AppendedHas
      <4> QED BY <1>3, <2>2, <3>1, <4>1
    <3> QED BY <2>3, <3>1, <3>2, <3>3
  <2> QED BY <1>1, <1>2, <1>3, <2>3, <2>4, WorkersAre
<1> QED BY <1>5, <1>6, <1>7

LEMMA ResponseIs ==
  ASSUME IInv, NEW w \in Workers, Response(w)
  PROVE  IInv'
<1>1. UNCHANGED <<conf, alloc, doomed, quitting, helper, todo, place>>
  BY DEF Response, memory, helpers
<1>2. /\ DOMAIN known = Workers /\ \A v \in Workers : DOMAIN known[v] = 1 .. 3
      /\ DOMAIN answers = Workers /\ \A v \in Workers : Array(answers[v])
  BY DEF IInv, Typed
<1>3. \A v \in Workers : known[v][1] \in Told(v) /\ \A i \in DOMAIN answers[v] : answers[v][i].ruleset \in Told(v)
  BY DEF Told
<1>4. PICK s : s = answers[w]
  OBVIOUS
<1>5. Array(s) /\ s # <<>> /\ answers' = [answers EXCEPT ![w] = Tail(s)]
  BY <1>2, <1>4 DEF Response
<1>6. Len(s) \in Nat /\ Len(s) # 0 /\ DOMAIN s = 1 .. Len(s) /\ Head(s) = s[1]
  <2> DEFINE S == Range(s)
  <2>1. s \in Seq(S)
    BY <1>5 DEF Array
  <2> HIDE DEF S
  <2>2. Len(s) # 0 /\ Head(s) = s[1]
    BY <1>5, <2>1, EmptySeq
  <2> QED BY <1>5, <2>2, ArrayFacts
<1>7. Array(Tail(s)) /\ Len(Tail(s)) = Len(s) - 1 /\ \A i \in 1 .. Len(s) - 1 : Tail(s)[i] = s[i + 1]
  BY <1>5, <1>6, TailArray
<1>8. DOMAIN Tail(s) = 1 .. Len(s) - 1
  BY <1>7, ArrayFacts
<1>9. \A i \in 1 .. Len(s) : s[i].ruleset \in Told(w)
  BY <1>3, <1>4, <1>6
<1>10. \A i \in DOMAIN Tail(s) : Tail(s)[i].ruleset \in Told(w)
  <2>1. \A i \in 1 .. Len(s) - 1 : i + 1 \in 1 .. Len(s)
    BY <1>6
  <2> QED BY <1>7, <1>8, <1>9, <2>1
<1>11. DOMAIN answers' = Workers /\ \A v \in Workers : answers'[v] = IF v = w THEN Tail(s) ELSE answers[v]
  BY <1>2, <1>5
<1>12. \A v \in Workers : Array(answers'[v]) /\ \A i \in DOMAIN answers'[v] : answers'[v][i].ruleset \in Told(v)
  BY <1>2, <1>3, <1>7, <1>10, <1>11
<1>13. Crash(w) \/ known' = [known EXCEPT ![w][1] = s[1].ruleset]
  BY <1>4, <1>6 DEF Response
<1>14. CASE Crash(w)
  BY <1>1, <1>11, <1>12, <1>14, CrashIs
<1>15. CASE known' = [known EXCEPT ![w][1] = s[1].ruleset]
  <2>1. s[1].ruleset \in Told(w)
    BY <1>6, <1>9
  <2>2. /\ DOMAIN known' = Workers
        /\ \A v \in Workers : known'[v] = IF v = w THEN [known[w] EXCEPT ![1] = s[1].ruleset] ELSE known[v]
    BY <1>2, <1>15
  <2>3. \A v \in Workers : DOMAIN known'[v] = 1 .. 3
    BY <1>2, <2>2
  <2>4. ASSUME NEW v \in Workers PROVE known'[v][1] \in Told(v)
    <3>1. CASE v # w
      BY <1>3, <2>2, <3>1
    <3>2. CASE v = w
      BY <1>2, <2>1, <2>2, <3>2
    <3> QED BY <3>1, <3>2
  <2> QED BY <1>1, <1>11, <1>12, <2>2, <2>3, <2>4, WorkersAre
<1> QED BY <1>13, <1>14, <1>15

(***************************************************************************)
(* Loading.                                                                *)
(***************************************************************************)
LEMMA CreateDeferredIs ==
  ASSUME IInv, NEW h \in Helpers, CreateDeferred(h)
  PROVE  IInv'
<1>1. PICK rs \in todo[h] :
        /\ helper[h] = "starting" /\ todo' = [todo EXCEPT ![h] = @ \ {rs}]
        /\ Load(h, rs, conf.file[rs])
        /\ UNCHANGED <<conf, doomed, later, registered, quitting, workers, asks, answers>>
  BY DEF CreateDeferred
<1>2. /\ conf \in Configs /\ DOMAIN todo = Helpers /\ \A g \in Helpers : todo[g] \subseteq DOMAIN conf.file
      /\ DOMAIN doomed = Helpers
      /\ DOMAIN known = Workers /\ \A w \in Workers : DOMAIN known[w] = 1 .. 3
      /\ DOMAIN answers = Workers /\ \A w \in Workers : Array(answers[w])
  BY DEF IInv, Typed
<1>3. PICK doc : doc = conf.file[rs]
  OBVIOUS
<1>4. doc \in Documents
  BY <1>1, <1>2, <1>3 DEF Documents, Range
<1>5. Load(h, rs, doc) /\ UNCHANGED <<conf, doomed, quitting, known, answers>>
  BY <1>1, <1>3 DEF workers
<1>6. /\ Store' /\ Alive' /\ Leaving' /\ Placed'
      /\ DOMAIN helper' = Helpers /\ DOMAIN place' = Helpers /\ \A g \in Helpers : DOMAIN place'[g] = 1 .. 3
  BY <1>1, <1>4, <1>5, LoadIs
<1>7. DOMAIN todo' = Helpers /\ \A g \in Helpers : todo'[g] \subseteq todo[g]
  BY <1>1, <1>2
<1>8. Typed'
  BY <1>2, <1>5, <1>6, <1>7 DEF Typed
<1> QED BY <1>6, <1>8 DEF IInv

LEMMA LoadRedisIs ==
  ASSUME IInv, NEW h \in Helpers, LoadRedis(h)
  PROVE  IInv'
<1>1. PICK rs \in later[h] :
        /\ helper[h] = "up"
        /\ \/ rs \in DOMAIN conf.redis /\ Load(h, rs, conf.redis[rs])
           \/ helper' = [helper EXCEPT ![h] = "gone"] /\ UNCHANGED <<alloc, place, count>>
        /\ UNCHANGED <<conf, doomed, todo, registered, quitting, workers, asks, answers>>
  BY DEF LoadRedis
<1>2. /\ conf \in Configs /\ DOMAIN todo = Helpers /\ \A g \in Helpers : todo[g] \subseteq DOMAIN conf.file
      /\ DOMAIN helper = Helpers /\ DOMAIN doomed = Helpers
      /\ DOMAIN known = Workers /\ \A w \in Workers : DOMAIN known[w] = 1 .. 3
      /\ DOMAIN answers = Workers /\ \A w \in Workers : Array(answers[w])
  BY DEF IInv, Typed
<1>3. UNCHANGED <<conf, doomed, quitting, todo, known, answers>>
  BY <1>1 DEF workers
<1>4. CASE rs \in DOMAIN conf.redis /\ Load(h, rs, conf.redis[rs])
  <2>1. PICK doc : doc = conf.redis[rs]
    OBVIOUS
  <2>2. doc \in Documents
    BY <1>2, <1>4, <2>1 DEF Documents, Range
  <2>3. Load(h, rs, doc)
    BY <1>4, <2>1
  <2>4. /\ Store' /\ Alive' /\ Leaving' /\ Placed'
        /\ DOMAIN helper' = Helpers /\ DOMAIN place' = Helpers /\ \A g \in Helpers : DOMAIN place'[g] = 1 .. 3
    BY <1>1, <1>3, <2>2, <2>3, LoadIs
  <2>5. Typed'
    BY <1>2, <1>3, <2>4 DEF Typed
  <2> QED BY <2>4, <2>5 DEF IInv
<1>5. CASE helper' = [helper EXCEPT ![h] = "gone"] /\ UNCHANGED <<alloc, place, count>>
  <2>1. DOMAIN helper' = Helpers /\ helper'[h] = "gone" /\ \A g : g # h => helper'[g] = helper[g]
    BY <1>2, <1>5
  <2> QED BY <1>2, <1>3, <1>5, <2>1, QuietKnown
<1> QED BY <1>1, <1>4, <1>5

(***************************************************************************)
(* The states of a helper.                                                 *)
(***************************************************************************)
LEMMA HelperIs ==
  ASSUME IInv, NEW h \in Helpers, NEW state,
         helper' = [helper EXCEPT ![h] = state], state # "leaving",
         state \in {"unborn", "starting", "up"} => helper[h] \in {"unborn", "starting", "up"},
         UNCHANGED <<conf, alloc, doomed, quitting, place, known, answers>>,
         todo' = todo \/ todo' = [todo EXCEPT ![h] = Deferred]
  PROVE  IInv'
<1>1. DOMAIN helper = Helpers /\ DOMAIN todo = Helpers /\ \A g \in Helpers : todo[g] \subseteq DOMAIN conf.file
  BY DEF IInv, Typed
<1>2. DOMAIN helper' = Helpers /\ helper'[h] = state /\ \A g : g # h => helper'[g] = helper[g]
  BY <1>1
<1>3. DOMAIN todo' = Helpers /\ \A g \in Helpers : todo'[g] = todo[g] \/ todo'[g] = Deferred
  BY <1>1
<1>4. Deferred \subseteq DOMAIN conf.file
  BY DEF Deferred
<1>5. \A g \in Helpers : todo'[g] \subseteq DOMAIN conf.file
  BY <1>1, <1>3, <1>4
<1> QED BY <1>2, <1>3, <1>5, QuietKnown

LEMMA QuitIs ==
  ASSUME IInv, Quit
  PROVE  IInv'
<1>1. quitting' = TRUE /\ UNCHANGED <<conf, alloc, doomed, helper, todo, place, known, answers>>
  BY DEF Quit, memory, helpers, workers
<1>2. Store' /\ \A g : Whole(g) => Whole(g)'
  BY <1>1, SameStore DEF IInv
<1>3. Alive'
  BY <1>1, <1>2 DEF IInv, Alive
<1>4. Leaving'
  BY <1>1, SameDeletes DEF IInv, Leaving
<1>5. Placed'
  BY <1>1 DEF Placed
<1>6. Typed'
  BY <1>1 DEF IInv, Typed
<1> QED BY <1>2, <1>3, <1>4, <1>5, <1>6 DEF IInv

LEMMA InitIs ==
  ASSUME Init
  PROVE  IInv
<1>1. Typed
  <2>1. /\ conf \in Configs /\ DOMAIN helper = Helpers /\ DOMAIN todo = Helpers /\ DOMAIN doomed = Helpers
        /\ DOMAIN place = Helpers /\ DOMAIN known = Workers /\ DOMAIN answers = Workers
        /\ \A h \in Helpers : place[h] = Nowhere /\ todo[h] = {}
        /\ \A w \in Workers : known[w] = Nowhere /\ answers[w] = <<>>
    BY DEF Init
  <2>2. DOMAIN Nowhere = 1 .. 3 /\ Array(<<>>)
    <3>1. <<>> \in Seq(Range(<<>>))
      OBVIOUS
    <3> QED BY <3>1 DEF Nowhere, Array
  <2> QED BY <2>1, <2>2 DEF Typed
<1>2. Store /\ Alive
  <2>1. alloc = {} /\ IsFiniteSet({})
    BY FS_EmptySet DEF Init
  <2> QED BY <2>1 DEF Store, Closed, Alive, Whole
<1>3. Leaving
  BY DEF Init, Leaving
<1>4. Placed
  <2>1. Nowhere[1] = Null
    BY DEF Nowhere
  <2>2. ASSUME NEW w \in Workers PROVE Told(w) = {Null}
    <3>1. known[w] = Nowhere /\ answers[w] = <<>>
      BY DEF Init
    <3> QED BY <2>1, <3>1 DEF Told
  <2>3. \A h \in Helpers : place[h] = Nowhere
    BY DEF Init
  <2> QED BY <2>1, <2>2, <2>3 DEF Placed
<1> QED BY <1>1, <1>2, <1>3, <1>4 DEF IInv

LEMMA NextIs ==
  ASSUME IInv, [Next]_vars
  PROVE  IInv'
<1>1. CASE UNCHANGED vars
  <2>1. UNCHANGED <<conf, alloc, doomed, quitting, place, known, answers, helper, todo>>
    BY <1>1 DEF vars, memory, helpers, workers
  <2>2. DOMAIN helper = Helpers /\ DOMAIN todo = Helpers /\ \A g \in Helpers : todo[g] \subseteq DOMAIN conf.file
    BY DEF IInv, Typed
  <2> QED BY <2>1, <2>2, QuietKnown
<1>2. ASSUME NEW h \in Helpers, HelperStep(h) PROVE IInv'
  <2>1. CASE StartHelper(h)
    <3>1. /\ helper' = [helper EXCEPT ![h] = "starting"] /\ helper[h] = "unborn"
          /\ todo' = [todo EXCEPT ![h] = Deferred]
          /\ UNCHANGED <<conf, alloc, doomed, quitting, place, known, answers>>
      BY <2>1 DEF StartHelper, memory, workers
    <3> QED BY <3>1, HelperIs
  <2>2. CASE CreateDeferred(h)
    BY <2>2, CreateDeferredIs
  <2>3. CASE Ready(h)
    <3>1. /\ helper' = [helper EXCEPT ![h] = "up"] /\ helper[h] = "starting"
          /\ UNCHANGED <<conf, alloc, doomed, quitting, place, known, answers, todo>>
      BY <2>3 DEF Ready, memory, workers
    <3> QED BY <3>1, HelperIs
  <2>4. CASE Register(h)
    <3>1. UNCHANGED <<conf, alloc, doomed, quitting, place, known, answers, helper, todo>>
      BY <2>4 DEF Register, memory, helpers, workers
    <3>2. DOMAIN helper = Helpers /\ DOMAIN todo = Helpers /\ \A g \in Helpers : todo[g] \subseteq DOMAIN conf.file
      BY DEF IInv, Typed
    <3> QED BY <3>1, <3>2, QuietKnown
  <2>5. CASE Answer(h)
    BY <2>5, AnswerIs
  <2>6. CASE DeleteNext(h)
    BY <2>6, DeleteNextIs
  <2>7. CASE ManagerExits(h)
    <3>1. /\ helper' = [helper EXCEPT ![h] = "gone"]
          /\ UNCHANGED <<conf, alloc, doomed, quitting, place, known, answers, todo>>
      BY <2>7 DEF ManagerExits, memory, workers
    <3> QED BY <3>1, HelperIs
  <2> QED BY <1>2, <2>1, <2>2, <2>3, <2>4, <2>5, <2>6, <2>7 DEF HelperStep
<1>3. ASSUME NEW h \in Helpers, HelperDies(h) PROVE IInv'
  <2>1. /\ helper' = [helper EXCEPT ![h] = "gone"]
        /\ UNCHANGED <<conf, alloc, doomed, quitting, place, known, answers, todo>>
    BY <1>3 DEF HelperDies, memory, workers
  <2> QED BY <2>1, HelperIs
<1>4. CASE LoaderExits
  <2>1. /\ helper' = [helper EXCEPT ![0] = "gone"]
        /\ UNCHANGED <<conf, alloc, doomed, quitting, place, known, answers, todo>>
    BY <1>4 DEF LoaderExits, memory, workers
  <2>2. 0 \in Helpers
    BY StartupAssumption DEF Helpers
  <2> QED BY <2>1, <2>2, HelperIs
<1>5. ASSUME NEW w \in Workers, StartWorker(w) PROVE IInv'
  <2>1. UNCHANGED <<conf, alloc, doomed, quitting, place, known, answers, helper, todo>>
    BY <1>5 DEF StartWorker, memory, helpers
  <2>2. DOMAIN helper = Helpers /\ DOMAIN todo = Helpers /\ \A g \in Helpers : todo[g] \subseteq DOMAIN conf.file
    BY DEF IInv, Typed
  <2> QED BY <2>1, <2>2, QuietKnown
<1>6. ASSUME NEW w \in Workers, NEW a \in Requests, Close(w, a) PROVE IInv'
  <2>1. UNCHANGED <<conf, alloc, doomed, quitting, place, known, answers, helper, todo>>
    BY <1>6 DEF Close, memory, helpers
  <2>2. DOMAIN helper = Helpers /\ DOMAIN todo = Helpers /\ \A g \in Helpers : todo[g] \subseteq DOMAIN conf.file
    BY DEF IInv, Typed
  <2> QED BY <2>1, <2>2, QuietKnown
<1> QED BY <1>1, <1>2, <1>3, <1>4, <1>5, <1>6, LoadRedisIs, ShutdownIs, QuitIs, ResponseIs, BeginIs DEF Next

LEMMA PointersAre ==
  ASSUME IInv
  PROVE  Pointers
<1>1. \A b \in alloc : \A id \in b.refs : Follows(b, id) => Held(b.by, b.rs, id)
  BY DEF IInv, Store, Closed
<1>2. ~quitting => \A w \in Workers : \A p \in Told(w) \ {Null} : Complete(p)
  BY DEF IInv, Placed
<1>3. ASSUME NEW h \in Helpers, helper[h] = "leaving", doomed[h] = <<>>, NEW b \in alloc, b.by = h PROVE FALSE
  <2>1. Deletes(h)
    BY <1>3 DEF IInv, Leaving
  <2>2. ToSet(doomed[h]) = {}
    BY <1>3 DEF ToSet
  <2> QED BY <1>3, <2>1, <2>2 DEF Deletes
<1> QED BY <1>1, <1>2, <1>3 DEF Pointers

(***************************************************************************)
(* The theorems.                                                           *)
(***************************************************************************)

\* Shared memory is closed under the pointers that are followed, a helper
\* that has not failed has only whole rulesets in it, a manager that leaves
\* has everything of its own on the list of what it deletes, in an order in
\* which nothing goes before what leads to it, and what is said of the first
\* place is true until nginx quits.
THEOREM StartupInvariant == Spec => []IInv
<1>1. Init => IInv
  BY InitIs
<1>2. IInv /\ [Next]_vars => IInv'
  BY NextIs
<1> QED BY <1>1, <1>2, PTL DEF Spec

\* The rules of a list and the limiter of a condition are in memory whenever
\* their list or condition is, workers only learn of rulesets that are there,
\* and a manager that has deleted all it had to leaves nothing behind.
THEOREM StartupPointers == Spec => []Pointers
<1>1. IInv => Pointers
  BY PointersAre
<1> QED BY <1>1, StartupInvariant, PTL
=============================================================================
