-------------------------- MODULE RedisStoreProofs --------------------------
(***************************************************************************)
(* Proofs about the rulesets in Redis, for any documents and any number of *)
(* rulesets: every reference of what can be read back is counted, and a    *)
(* command about one rule that is refused has written nothing but the      *)
(* numbers of generated names.                                             *)
(*                                                                         *)
(* A script (ruleset_create.lua and the like) is what Ruleset.new calls    *)
(* for, stored call by call, and an error ends it where it is: Redis does  *)
(* not take back what a script has written.  So Sound has to hold after    *)
(* every call, and that needs two things of what comes before: a list is   *)
(* an array of names, and a thing is called for under an id of its kind    *)
(* (Storable).  They are proved of Ruleset.new for every order that its    *)
(* tables can be traversed in.                                             *)
(***************************************************************************)
EXTENDS RedisStore, FiniteSetTheorems, SequenceTheorems, TLAPS

-----------------------------------------------------------------------------
(* Induction over indexes, and folds as recursive functions.               *)

\* A set of numbers has a least one.
LEMMA SmallestNat ==
  ASSUME NEW T, T \subseteq Nat, T # {}
  PROVE  \E x \in T : \A y \in T : x <= y
<1> DEFINE R == OpToRel(<, Nat)
<1>1. IsWellFoundedOn(R, Nat)
  BY NatLessThanWellFounded
<1> HIDE DEF R
<1>2. PICK x \in T : \A y \in T : ~(<<y, x>> \in R)
  BY <1>1, WFMin
<1>3. \A y \in T : y < x => <<y, x>> \in R
  BY DEF R, OpToRel
<1>4. \A y \in T : y \in Nat /\ ~(y < x)
  BY <1>2, <1>3
<1>5. x \in Nat
  OBVIOUS
<1> QED
  BY <1>4, <1>5

\* Induction up to n, over a set of numbers.
LEMMA UpTo ==
  ASSUME NEW n \in Nat, NEW J, 0 \in J, \A i \in 1 .. n : i - 1 \in J => i \in J
  PROVE  0 .. n \subseteq J
<1> DEFINE Bad == (0 .. n) \ J
<1> SUFFICES ASSUME Bad # {} PROVE FALSE
  OBVIOUS
<1>1. PICK m \in Bad : \A k \in Bad : m <= k
  <2>1. Bad \subseteq Nat
    OBVIOUS
  <2> HIDE DEF Bad
  <2> QED BY <2>1, SmallestNat
<1>2. m \in 1 .. n /\ m - 1 \in 0 .. n
  OBVIOUS
<1>3. m - 1 \notin Bad
  BY <1>1, <1>2
<1> QED BY <1>2, <1>3

\* The greatest number of a set that has its upper bound.
LEMMA MaxTop ==
  ASSUME NEW m \in Nat, NEW S \in SUBSET (1 .. m), m \in S
  PROVE  Max(S) = m
<1>1. \A y \in S : m >= y /\ y \in Nat
  OBVIOUS
<1>2. \A x \in S : (\A y \in S : x >= y) => x = m
  BY <1>1
<1>3. Max(S) \in S /\ \A y \in S : Max(S) >= y
  BY <1>1 DEF Max
<1> QED BY <1>2, <1>3

\* The entries of a list, one by one: what the fold has after i of them.
LEMMA FoldListEntries ==
  ASSUME NEW st, NEW s, NEW tables, Len(s) \in Nat, DOMAIN s = 1 .. Len(s)
  PROVE  \E f : /\ f[0] = [st |-> st, names |-> <<>>]
                /\ \A i \in 1 .. Len(s) : f[i] = ListEntry(tables, f[i - 1], s[i])
                /\ ListEntries(tables, st, s) = f[Len(s)]
<1> DEFINE n == Len(s)
           base == [st |-> st, names |-> <<>>]
           op(a, e) == ListEntry(tables, a, e)
           Rec(h, m) == h = [S \in SUBSET (1 .. m) |->
                               IF S = {} THEN base ELSE op(h[S \ {Max(S)}], s[Max(S)])]
           J == {m \in 0 .. n : \E h : Rec(h, m)}
           iter == CHOOSE h : Rec(h, n)
<1>1. ListEntries(tables, st, s) = iter[1 .. n]
  BY DEF ListEntries, FoldLeft, MapThenFoldSet
<1> HIDE DEF op, base
<1>2. 0 \in J
  <2> DEFINE h == [S \in SUBSET (1 .. 0) |-> base]
  <2>1. \A S \in SUBSET (1 .. 0) : S = {}
    OBVIOUS
  <2>2. Rec(h, 0)
    BY <2>1
  <2>3. 0 \in 0 .. n
    OBVIOUS
  <2> HIDE DEF Rec, h, n
  <2> QED BY <2>2, <2>3
<1>3. ASSUME NEW m \in 1 .. n, m - 1 \in J PROVE m \in J
  <2>1. PICK h : Rec(h, m - 1)
    BY <1>3
  <2> DEFINE g == [S \in SUBSET (1 .. m) |-> IF m \in S THEN op(h[S \ {m}], s[m]) ELSE h[S]]
  <2>2. ASSUME NEW S \in SUBSET (1 .. m)
        PROVE  g[S] = IF S = {} THEN base ELSE op(g[S \ {Max(S)}], s[Max(S)])
    <3>1. CASE m \in S
      <4>1. Max(S) = m
        BY <3>1, MaxTop
      <4>2. S \ {m} \in SUBSET (1 .. m) /\ m \notin S \ {m}
        OBVIOUS
      <4> QED BY <3>1, <4>1, <4>2
    <3>2. CASE m \notin S
      <4>0. \A x \in S : x \in 1 .. (m - 1)
        BY <3>2
      <4>1. /\ S \in SUBSET (1 .. (m - 1))
            /\ \A x : S \ {x} \in SUBSET (1 .. (m - 1)) /\ S \ {x} \in SUBSET (1 .. m) /\ m \notin S \ {x}
        BY <3>2, <4>0
      <4>2. h[S] = IF S = {} THEN base ELSE op(h[S \ {Max(S)}], s[Max(S)])
        BY <2>1, <4>1
      <4> QED BY <3>2, <4>1, <4>2
    <3> QED BY <3>1, <3>2
  <2>3. g = [S \in SUBSET (1 .. m) |-> g[S]]
    OBVIOUS
  <2> HIDE DEF g
  <2>4. Rec(g, m)
    BY <2>2, <2>3
  <2>5. m \in 0 .. n
    OBVIOUS
  <2> HIDE DEF Rec, n
  <2> QED BY <2>4, <2>5
<1>4. n \in J
  <2> HIDE DEF J
  <2>1. n \in Nat /\ n \in 0 .. n
    OBVIOUS
  <2> HIDE DEF n
  <2>2. 0 .. n \subseteq J
    BY <1>2, <1>3, <2>1, UpTo
  <2> QED BY <2>1, <2>2
<1>5. Rec(iter, n)
  BY <1>4
<1> HIDE DEF iter
<1> DEFINE f == [i \in 0 .. n |-> iter[1 .. i]]
<1>6. f[0] = base
  BY <1>5
<1>7. ASSUME NEW i \in 1 .. n PROVE f[i] = op(f[i - 1], s[i])
  <2>1. Max(1 .. i) = i /\ (1 .. i) \ {i} = 1 .. (i - 1) /\ 1 .. i # {} /\ 1 .. i \in SUBSET (1 .. n)
    BY MaxTop
  <2>2. iter[1 .. i] = op(iter[1 .. (i - 1)], s[i])
    BY <1>5, <2>1
  <2> QED BY <2>2
<1>8. f[n] = iter[1 .. n]
  OBVIOUS
<1> HIDE DEF f, n
<1>9. /\ f[0] = base /\ \A i \in 1 .. n : f[i] = op(f[i - 1], s[i])
      /\ ListEntries(tables, st, s) = f[n]
  BY <1>1, <1>6, <1>7, <1>8
<1> QED BY <1>9 DEF op, n, base

\* The same of the lists of a phase.
LEMMA FoldPhaseEntries ==
  ASSUME NEW st, NEW s, NEW tables, Len(s) \in Nat, DOMAIN s = 1 .. Len(s)
  PROVE  \E f : /\ f[0] = [st |-> st, names |-> <<>>]
                /\ \A i \in 1 .. Len(s) : f[i] = PhaseEntry(tables, f[i - 1], s[i])
                /\ PhaseEntries(tables, st, s) = f[Len(s)]
<1> DEFINE n == Len(s)
           base == [st |-> st, names |-> <<>>]
           op(a, e) == PhaseEntry(tables, a, e)
           Rec(h, m) == h = [S \in SUBSET (1 .. m) |->
                               IF S = {} THEN base ELSE op(h[S \ {Max(S)}], s[Max(S)])]
           J == {m \in 0 .. n : \E h : Rec(h, m)}
           iter == CHOOSE h : Rec(h, n)
<1>1. PhaseEntries(tables, st, s) = iter[1 .. n]
  BY DEF PhaseEntries, FoldLeft, MapThenFoldSet
<1> HIDE DEF op, base
<1>2. 0 \in J
  <2> DEFINE h == [S \in SUBSET (1 .. 0) |-> base]
  <2>1. \A S \in SUBSET (1 .. 0) : S = {}
    OBVIOUS
  <2>2. Rec(h, 0)
    BY <2>1
  <2>3. 0 \in 0 .. n
    OBVIOUS
  <2> HIDE DEF Rec, h, n
  <2> QED BY <2>2, <2>3
<1>3. ASSUME NEW m \in 1 .. n, m - 1 \in J PROVE m \in J
  <2>1. PICK h : Rec(h, m - 1)
    BY <1>3
  <2> DEFINE g == [S \in SUBSET (1 .. m) |-> IF m \in S THEN op(h[S \ {m}], s[m]) ELSE h[S]]
  <2>2. ASSUME NEW S \in SUBSET (1 .. m)
        PROVE  g[S] = IF S = {} THEN base ELSE op(g[S \ {Max(S)}], s[Max(S)])
    <3>1. CASE m \in S
      <4>1. Max(S) = m
        BY <3>1, MaxTop
      <4>2. S \ {m} \in SUBSET (1 .. m) /\ m \notin S \ {m}
        OBVIOUS
      <4> QED BY <3>1, <4>1, <4>2
    <3>2. CASE m \notin S
      <4>0. \A x \in S : x \in 1 .. (m - 1)
        BY <3>2
      <4>1. /\ S \in SUBSET (1 .. (m - 1))
            /\ \A x : S \ {x} \in SUBSET (1 .. (m - 1)) /\ S \ {x} \in SUBSET (1 .. m) /\ m \notin S \ {x}
        BY <3>2, <4>0
      <4>2. h[S] = IF S = {} THEN base ELSE op(h[S \ {Max(S)}], s[Max(S)])
        BY <2>1, <4>1
      <4> QED BY <3>2, <4>1, <4>2
    <3> QED BY <3>1, <3>2
  <2>3. g = [S \in SUBSET (1 .. m) |-> g[S]]
    OBVIOUS
  <2> HIDE DEF g
  <2>4. Rec(g, m)
    BY <2>2, <2>3
  <2>5. m \in 0 .. n
    OBVIOUS
  <2> HIDE DEF Rec, n
  <2> QED BY <2>4, <2>5
<1>4. n \in J
  <2> HIDE DEF J
  <2>1. n \in Nat /\ n \in 0 .. n
    OBVIOUS
  <2> HIDE DEF n
  <2>2. 0 .. n \subseteq J
    BY <1>2, <1>3, <2>1, UpTo
  <2> QED BY <2>1, <2>2
<1>5. Rec(iter, n)
  BY <1>4
<1> HIDE DEF iter
<1> DEFINE f == [i \in 0 .. n |-> iter[1 .. i]]
<1>6. f[0] = base
  BY <1>5
<1>7. ASSUME NEW i \in 1 .. n PROVE f[i] = op(f[i - 1], s[i])
  <2>1. Max(1 .. i) = i /\ (1 .. i) \ {i} = 1 .. (i - 1) /\ 1 .. i # {} /\ 1 .. i \in SUBSET (1 .. n)
    BY MaxTop
  <2>2. iter[1 .. i] = op(iter[1 .. (i - 1)], s[i])
    BY <1>5, <2>1
  <2> QED BY <2>2
<1>8. f[n] = iter[1 .. n]
  OBVIOUS
<1> HIDE DEF f, n
<1>9. /\ f[0] = base /\ \A i \in 1 .. n : f[i] = op(f[i - 1], s[i])
      /\ PhaseEntries(tables, st, s) = f[n]
  BY <1>1, <1>6, <1>7, <1>8
<1> QED BY <1>9 DEF op, n, base

\* And of the things of a document.
LEMMA FoldThings ==
  ASSUME NEW base, NEW s, NEW doc, NEW tables, Len(s) \in Nat, DOMAIN s = 1 .. Len(s)
  PROVE  \E f : /\ f[0] = base
                /\ \A i \in 1 .. Len(s) : f[i] = AddThing(doc, tables, f[i - 1], s[i][1], s[i][2])
                /\ AddThings(doc, tables, base, s) = f[Len(s)]
<1> DEFINE n == Len(s)
           op(a, e) == AddThing(doc, tables, a, e[1], e[2])
           Rec(h, m) == h = [S \in SUBSET (1 .. m) |->
                               IF S = {} THEN base ELSE op(h[S \ {Max(S)}], s[Max(S)])]
           J == {m \in 0 .. n : \E h : Rec(h, m)}
           iter == CHOOSE h : Rec(h, n)
<1>1. AddThings(doc, tables, base, s) = iter[1 .. n]
  BY DEF AddThings, FoldLeft, MapThenFoldSet
<1> HIDE DEF op
<1>2. 0 \in J
  <2> DEFINE h == [S \in SUBSET (1 .. 0) |-> base]
  <2>1. \A S \in SUBSET (1 .. 0) : S = {}
    OBVIOUS
  <2>2. Rec(h, 0)
    BY <2>1
  <2>3. 0 \in 0 .. n
    OBVIOUS
  <2> HIDE DEF Rec, h, n
  <2> QED BY <2>2, <2>3
<1>3. ASSUME NEW m \in 1 .. n, m - 1 \in J PROVE m \in J
  <2>1. PICK h : Rec(h, m - 1)
    BY <1>3
  <2> DEFINE g == [S \in SUBSET (1 .. m) |-> IF m \in S THEN op(h[S \ {m}], s[m]) ELSE h[S]]
  <2>2. ASSUME NEW S \in SUBSET (1 .. m)
        PROVE  g[S] = IF S = {} THEN base ELSE op(g[S \ {Max(S)}], s[Max(S)])
    <3>1. CASE m \in S
      <4>1. Max(S) = m
        BY <3>1, MaxTop
      <4>2. S \ {m} \in SUBSET (1 .. m) /\ m \notin S \ {m}
        OBVIOUS
      <4> QED BY <3>1, <4>1, <4>2
    <3>2. CASE m \notin S
      <4>0. \A x \in S : x \in 1 .. (m - 1)
        BY <3>2
      <4>1. /\ S \in SUBSET (1 .. (m - 1))
            /\ \A x : S \ {x} \in SUBSET (1 .. (m - 1)) /\ S \ {x} \in SUBSET (1 .. m) /\ m \notin S \ {x}
        BY <3>2, <4>0
      <4>2. h[S] = IF S = {} THEN base ELSE op(h[S \ {Max(S)}], s[Max(S)])
        BY <2>1, <4>1
      <4> QED BY <3>2, <4>1, <4>2
    <3> QED BY <3>1, <3>2
  <2>3. g = [S \in SUBSET (1 .. m) |-> g[S]]
    OBVIOUS
  <2> HIDE DEF g
  <2>4. Rec(g, m)
    BY <2>2, <2>3
  <2>5. m \in 0 .. n
    OBVIOUS
  <2> HIDE DEF Rec, n
  <2> QED BY <2>4, <2>5
<1>4. n \in J
  <2> HIDE DEF J
  <2>1. n \in Nat /\ n \in 0 .. n
    OBVIOUS
  <2> HIDE DEF n
  <2>2. 0 .. n \subseteq J
    BY <1>2, <1>3, <2>1, UpTo
  <2> QED BY <2>1, <2>2
<1>5. Rec(iter, n)
  BY <1>4
<1> HIDE DEF iter
<1> DEFINE f == [i \in 0 .. n |-> iter[1 .. i]]
<1>6. f[0] = base
  BY <1>5
<1>7. ASSUME NEW i \in 1 .. n PROVE f[i] = op(f[i - 1], s[i])
  <2>1. Max(1 .. i) = i /\ (1 .. i) \ {i} = 1 .. (i - 1) /\ 1 .. i # {} /\ 1 .. i \in SUBSET (1 .. n)
    BY MaxTop
  <2>2. iter[1 .. i] = op(iter[1 .. (i - 1)], s[i])
    BY <1>5, <2>1
  <2> QED BY <2>2
<1>8. f[n] = iter[1 .. n]
  OBVIOUS
<1> HIDE DEF f, n
<1>9. /\ f[0] = base /\ \A i \in 1 .. n : f[i] = op(f[i - 1], s[i])
      /\ AddThings(doc, tables, base, s) = f[n]
  BY <1>1, <1>6, <1>7, <1>8
<1> QED BY <1>9 DEF op, n
-----------------------------------------------------------------------------
(* Sequences of anything.                                                  *)

\* An array is a sequence of its own elements.
LEMMA ArrayFacts ==
  ASSUME NEW s, Array(s)
  PROVE  Len(s) \in Nat /\ DOMAIN s = 1 .. Len(s) /\ s = [i \in 1 .. Len(s) |-> s[i]]
BY LenProperties DEF Array

\* A sequence in the sense of the standard module is an array.
LEMMA ArrayOf ==
  ASSUME NEW S, NEW s \in Seq(S)
  PROVE  Array(s)
BY SeqOfRange DEF Array

\* A function whose domain is 1 .. n is an array of n elements.
LEMMA ArrayIs ==
  ASSUME NEW n \in Nat, NEW s, DOMAIN s = 1 .. n, s = [i \in 1 .. n |-> s[i]]
  PROVE  Array(s) /\ Len(s) = n
<1> DEFINE S == {s[i] : i \in 1 .. n}
<1>1. s \in [1 .. n -> S]
  OBVIOUS
<1> HIDE DEF S
<1>2. s \in Seq(S)
  BY <1>1
<1>3. Len(s) = n
  BY <1>1
<1> QED BY <1>2, <1>3, ArrayOf

\* Two arrays, one after the other.
LEMMA Joined ==
  ASSUME NEW s, NEW t, Array(s), Array(t)
  PROVE  /\ Array(s \o t) /\ Len(s \o t) = Len(s) + Len(t)
         /\ \A i \in 1 .. Len(s) : (s \o t)[i] = s[i]
         /\ \A i \in 1 .. Len(t) : (s \o t)[Len(s) + i] = t[i]
         /\ ToSet(s \o t) = ToSet(s) \cup ToSet(t)
<1> DEFINE S == Range(s) \cup Range(t)
<1>1. s \in Seq(S) /\ t \in Seq(S)
  BY SeqMonotonic DEF Array
<1> HIDE DEF S
<1>2. /\ s \o t \in Seq(S) /\ Len(s \o t) = Len(s) + Len(t)
      /\ \A i \in 1 .. Len(s) + Len(t) : (s \o t)[i] = IF i <= Len(s) THEN s[i] ELSE t[i - Len(s)]
  BY <1>1, ConcatProperties
<1>3. Len(s) \in Nat /\ Len(t) \in Nat
  BY ArrayFacts
<1>4. \A i \in 1 .. Len(s) : (s \o t)[i] = s[i]
  BY <1>2, <1>3
<1>5. ASSUME NEW i \in 1 .. Len(t) PROVE (s \o t)[Len(s) + i] = t[i]
  <2>1. Len(s) + i \in 1 .. Len(s) + Len(t) /\ ~(Len(s) + i <= Len(s)) /\ Len(s) + i - Len(s) = i
    BY <1>3
  <2> QED BY <1>2, <2>1
<1>6. Range(s \o t) = Range(s) \cup Range(t)
  BY <1>1, RangeConcatenation
<1> QED BY <1>2, <1>4, <1>5, <1>6, ArrayOf DEF ToSet, Range

\* An array with one element more.
LEMMA Appended ==
  ASSUME NEW s, NEW e, Array(s)
  PROVE  /\ Array(Append(s, e)) /\ Len(Append(s, e)) = Len(s) + 1
         /\ \A i \in 1 .. Len(s) : Append(s, e)[i] = s[i]
         /\ Append(s, e)[Len(s) + 1] = e
         /\ ToSet(Append(s, e)) = ToSet(s) \cup {e}
<1> DEFINE S == Range(s) \cup {e}
<1>1. s \in Seq(S) /\ e \in S
  BY SeqMonotonic DEF Array
<1> HIDE DEF S
<1>2. /\ Append(s, e) \in Seq(S) /\ Len(Append(s, e)) = Len(s) + 1
      /\ \A i \in 1 .. Len(s) : Append(s, e)[i] = s[i]
      /\ Append(s, e)[Len(s) + 1] = e
  BY <1>1, AppendProperties
<1>3. DOMAIN Append(s, e) = 1 .. Len(s) + 1 /\ DOMAIN s = 1 .. Len(s) /\ Len(s) \in Nat
  BY <1>1, <1>2, LenProperties
<1>4. ToSet(Append(s, e)) = ToSet(s) \cup {e}
  <2>1. \A i \in 1 .. Len(s) + 1 : i \in 1 .. Len(s) \/ i = Len(s) + 1
    BY <1>3
  <2>2. \A i \in 1 .. Len(s) : i \in 1 .. Len(s) + 1
    BY <1>3
  <2> QED BY <1>2, <1>3, <2>1, <2>2 DEF ToSet
<1> QED BY <1>2, <1>4, ArrayOf

\* An array of one element.
LEMMA SingleArray ==
  ASSUME NEW e
  PROVE  Array(<<e>>) /\ Len(<<e>>) = 1 /\ <<e>>[1] = e /\ DOMAIN <<e>> = 1 .. 1
<1>1. <<e>> \in Seq({e})
  OBVIOUS
<1>2. Len(<<e>>) = 1 /\ <<e>>[1] = e
  OBVIOUS
<1>3. DOMAIN <<e>> = 1 .. Len(<<e>>)
  BY <1>1, LenProperties
<1> QED BY <1>1, <1>2, <1>3, ArrayOf

(* The concatenation of sequences has what they have.                      *)
LEMMA Flattens ==
  ASSUME NEW ss, Array(ss), Len(ss) # 0
  PROVE  \E f : /\ f[1] = ss[1]
                /\ \A i \in 2 .. Len(ss) : f[i] = f[i - 1] \o ss[i]
                /\ FlattenSeq(ss) = f[Len(ss)]
<1> DEFINE n == Len(ss)
           Rec(h, m) == h = [i \in 1 .. m |-> IF i = 1 THEN ss[i] ELSE h[i - 1] \o ss[i]]
           J == {m \in 0 .. n : \E h : Rec(h, m)}
           flat == CHOOSE h : Rec(h, n)
<1>0. n \in Nat \ {0}
  BY ArrayFacts
<1>1. FlattenSeq(ss) = flat[n]
  BY <1>0 DEF FlattenSeq
<1> HIDE DEF n
<1>2. 0 \in J
  <2> DEFINE h == [i \in 1 .. 0 |-> 0]
  <2>1. 1 .. 0 = {} /\ 0 \in 0 .. n
    BY <1>0
  <2>2. Rec(h, 0)
    BY <2>1
  <2> HIDE DEF Rec, h
  <2> QED BY <2>1, <2>2
<1>3. ASSUME NEW m \in 1 .. n, m - 1 \in J PROVE m \in J
  <2>1. PICK h : Rec(h, m - 1)
    BY <1>3
  <2> DEFINE g == [i \in 1 .. m |-> IF i = m THEN (IF m = 1 THEN ss[m] ELSE h[m - 1] \o ss[m]) ELSE h[i]]
  <2>2. ASSUME NEW i \in 1 .. m
        PROVE  g[i] = IF i = 1 THEN ss[i] ELSE g[i - 1] \o ss[i]
    <3>1. CASE i = m
      <4>1. i # 1 => i - 1 \in 1 .. m /\ i - 1 # m
        BY <3>1, <1>0
      <4> QED BY <3>1, <4>1
    <3>2. CASE i # m
      <4>1. i \in 1 .. (m - 1) /\ (i # 1 => i - 1 \in 1 .. m /\ i - 1 # m)
        BY <3>2, <1>0
      <4>2. h[i] = IF i = 1 THEN ss[i] ELSE h[i - 1] \o ss[i]
        BY <2>1, <4>1
      <4> QED BY <3>2, <4>1, <4>2
    <3> QED BY <3>1, <3>2
  <2>3. g = [i \in 1 .. m |-> g[i]]
    OBVIOUS
  <2> HIDE DEF g
  <2>4. Rec(g, m)
    BY <2>2, <2>3
  <2>5. m \in 0 .. n
    BY <1>0
  <2> HIDE DEF Rec
  <2> QED BY <2>4, <2>5
<1>4. n \in J
  <2> HIDE DEF J
  <2>1. n \in 0 .. n
    BY <1>0
  <2>2. 0 .. n \subseteq J
    BY <1>0, <1>2, <1>3, UpTo
  <2> QED BY <2>1, <2>2
<1>5. Rec(flat, n)
  BY <1>4
<1> HIDE DEF flat
<1>6. \A i \in 1 .. n : flat[i] = IF i = 1 THEN ss[i] ELSE flat[i - 1] \o ss[i]
  BY <1>5
<1>7. 1 \in 1 .. n /\ \A i \in 2 .. n : i \in 1 .. n /\ i # 1
  BY <1>0
<1>8. flat[1] = ss[1] /\ \A i \in 2 .. n : flat[i] = flat[i - 1] \o ss[i]
  BY <1>6, <1>7
<1> QED BY <1>1, <1>8 DEF n

\* All arrays of an array, one after the other.
LEMMA Flat ==
  ASSUME NEW ss, Array(ss), \A i \in DOMAIN ss : Array(ss[i])
  PROVE  /\ Array(FlattenSeq(ss))
         /\ ToSet(FlattenSeq(ss)) = UNION {ToSet(ss[i]) : i \in DOMAIN ss}
<1>0. Len(ss) \in Nat /\ DOMAIN ss = 1 .. Len(ss)
  BY ArrayFacts
<1>1. CASE Len(ss) = 0
  <2>1. FlattenSeq(ss) = ss /\ DOMAIN ss = {}
    BY <1>0, <1>1 DEF FlattenSeq
  <2> QED BY <2>1 DEF ToSet
<1>2. CASE Len(ss) # 0
  <2>1. PICK f : /\ f[1] = ss[1]
                 /\ \A i \in 2 .. Len(ss) : f[i] = f[i - 1] \o ss[i]
                 /\ FlattenSeq(ss) = f[Len(ss)]
    BY <1>2, Flattens
  <2> DEFINE Of(i) == UNION {ToSet(ss[k]) : k \in 1 .. i}
             J == {i \in 0 .. Len(ss) : i = 0 \/ (Array(f[i]) /\ ToSet(f[i]) = Of(i))}
  <2>2. ASSUME NEW i \in 1 .. Len(ss), i - 1 \in J PROVE i \in J
    <3>1. Array(ss[i])
      BY <1>0
    <3>2. CASE i = 1
      <4>1. Of(1) = ToSet(ss[1])
        OBVIOUS
      <4> HIDE DEF Of
      <4> QED BY <3>1, <3>2, <4>1, <2>1, <1>0
    <3>3. CASE i # 1
      <4>1. i \in 2 .. Len(ss) /\ i - 1 \in 1 .. Len(ss) /\ i - 1 # 0
        BY <3>3, <1>0
      <4>2. Array(f[i - 1]) /\ ToSet(f[i - 1]) = Of(i - 1)
        BY <2>2, <4>1
      <4>30. f[i] = f[i - 1] \o ss[i]
        BY <2>1, <4>1
      <4>31. Array(f[i - 1] \o ss[i]) /\ ToSet(f[i - 1] \o ss[i]) = ToSet(f[i - 1]) \cup ToSet(ss[i])
        BY <3>1, <4>2, Joined
      <4>3. Array(f[i]) /\ ToSet(f[i]) = Of(i - 1) \cup ToSet(ss[i])
        BY <4>30, <4>31, <4>2
      <4>4. 1 .. i = (1 .. i - 1) \cup {i}
        BY <4>1, <1>0
      <4>5. Of(i) = Of(i - 1) \cup ToSet(ss[i])
        BY <4>4
      <4> QED BY <4>3, <4>5, <1>0
    <3> QED BY <3>2, <3>3
  <2>3. 0 \in J
    BY <1>0
  <2>4. 0 .. Len(ss) \subseteq J
    <3> HIDE DEF J
    <3> QED BY <1>0, <2>2, <2>3, UpTo
  <2>5. Len(ss) \in J
    BY <2>4, <1>0
  <2> QED BY <2>1, <2>5, <1>0, <1>2
<1> QED BY <1>1, <1>2

\* An injection between finite sets of one size is onto.
LEMMA InjectionOnto ==
  ASSUME NEW S, IsFiniteSet(S), NEW s \in Injection(1 .. Cardinality(S), S)
  PROVE  ToSet(s) = S
<1> DEFINE n == Cardinality(S)
<1>1. n \in Nat
  BY FS_CardinalityType
<1>2. Cardinality(1 .. n) = n
  <2>1. Cardinality(1 .. n) = IF 1 > n THEN 0 ELSE n - 1 + 1
    BY <1>1, FS_Interval
  <2> QED BY <1>1, <2>1
<1>3. s \in Surjection(1 .. n, S)
  <2>1. s \in Injection(1 .. n, S) /\ Cardinality(1 .. n) = Cardinality(S)
    BY <1>2
  <2> QED BY <2>1, FS_Injection
<1> QED BY <1>3 DEF Surjection, ToSet

(* The elements of a finite set, one after the other.                      *)
LEMMA OrderedSet ==
  ASSUME NEW S, IsFiniteSet(S)
  PROVE  Array(SetToSeq(S)) /\ ToSet(SetToSeq(S)) = S
<1> DEFINE n == Cardinality(S)
<1>1. n \in Nat /\ ExistsBijection(1 .. n, S)
  BY FS_CardinalityType
<1>2. PICK f \in Bijection(1 .. n, S) : TRUE
  BY <1>1 DEF ExistsBijection
<1>3. f \in [1 .. n -> S] /\ IsInjective(f)
  BY <1>2 DEF Bijection, Injection
<1>4. SetToSeq(S) \in [1 .. n -> S] /\ IsInjective(SetToSeq(S))
  BY <1>3 DEF SetToSeq
<1> DEFINE s == SetToSeq(S)
<1> HIDE DEF s
<1>5. s \in Injection(1 .. n, S)
  BY <1>4 DEF s, Injection
<1>6. ToSet(s) = S
  BY <1>1, <1>5, InjectionOnto DEF n
<1>7. s \in Seq(S)
  BY <1>1, <1>4 DEF s
<1> QED BY <1>6, <1>7, ArrayOf DEF s

\* Any order of a finite set is an array of its elements.
LEMMA AnyOrder ==
  ASSUME NEW S, IsFiniteSet(S), NEW s \in SetToSeqs(S)
  PROVE  Array(s) /\ ToSet(s) = S /\ \A i, j \in DOMAIN s : s[i] = s[j] => i = j
<1> DEFINE n == Cardinality(S)
<1>1. n \in Nat
  BY FS_CardinalityType
<1>2. s \in [1 .. n -> S] /\ \A i, j \in 1 .. n : i # j => s[i] # s[j]
  BY DEF SetToSeqs
<1>3. s \in Injection(1 .. n, S)
  BY <1>2 DEF Injection, IsInjective
<1>4. ToSet(s) = S
  BY <1>1, <1>3, InjectionOnto DEF n
<1>5. s \in Seq(S)
  BY <1>1, <1>2
<1> QED BY <1>2, <1>4, <1>5, ArrayOf

-----------------------------------------------------------------------------
(* What a run of Ruleset.new has called for can be stored.                 *)

ThingTypes == {"limiter", "rule", "list", "phase"}
PartTypes == {"condition", "action", "string", "count"}

Storable(call) ==
  /\ call.id[1] \in ThingTypes => call.id = Id(call.id[1], call.id[2])
  /\ call.id[1] \in {"list", "phase"} => Array(call.of)

State(st) ==
  st \in [calls : {st.calls}, limiters : {st.limiters}, loaded : {st.loaded}, rules : {st.rules},
          lists : {st.lists}, n : {st.n}, last : {st.last}, ok : BOOLEAN]

Base(st) == State(st) /\ Array(st.calls)

Fine(st) == Base(st) /\ \A call \in ToSet(st.calls) : Storable(call)

\* From a state to a later one.
After(st, z) == (z.ok => st.ok) /\ st.rules \subseteq z.rules /\ st.lists \subseteq z.lists

\* Only parts of a rule were called for.
Extended(st, z) ==
  /\ Base(z) /\ After(st, z)
  /\ \A call \in ToSet(z.calls) : call \in ToSet(st.calls) \/ call.id[1] \in PartTypes

\* What was extended twice was extended.
LEMMA ExtendedTwice ==
  ASSUME NEW a, NEW b, NEW d, Extended(a, b), Extended(b, d)
  PROVE  Extended(a, d)
BY DEF Extended, After

\* Calls for the parts of a rule leave a run fine.
LEMMA ExtendedFine ==
  ASSUME NEW st, NEW z, Fine(st), Extended(st, z)
  PROVE  Fine(z)
<1>1. ASSUME NEW call, call.id[1] \in PartTypes PROVE Storable(call)
  BY <1>1 DEF Storable, PartTypes, ThingTypes
<1> QED BY <1>1 DEF Fine, Extended

\* A run with an error has called for nothing more.
LEMMA WithError ==
  ASSUME NEW st, Base(st), NEW z, z = Error(st)
  PROVE  Base(z) /\ z.calls = st.calls /\ ~z.ok /\ z.rules = st.rules /\ z.lists = st.lists
BY DEF Base, State, Error

\* Nor has one that notes the name of its last thing.
LEMMA WithLast ==
  ASSUME NEW st, Base(st), NEW x, NEW z, z = [st EXCEPT !.last = x]
  PROVE  Base(z) /\ z.calls = st.calls /\ z.ok = st.ok /\ z.rules = st.rules /\ z.lists = st.lists /\ z.last = x
BY DEF Base, State

\* A run with more calls.
LEMMA CallEachIs ==
  ASSUME NEW st, Base(st), NEW t, Array(t), NEW z, z = CallEach(st, t)
  PROVE  /\ Base(z) /\ After(st, z)
         /\ z.ok = st.ok /\ z.rules = st.rules /\ z.lists = st.lists /\ z.last = st.last
         /\ st.ok => z.calls = st.calls \o t
         /\ ~st.ok => z.calls = st.calls
         /\ \A call \in ToSet(z.calls) : call \in ToSet(st.calls) \/ call \in ToSet(t)
<1>1. CASE st.ok
  <2>1. PICK x : x = st.calls \o t
    OBVIOUS
  <2>2. z = [st EXCEPT !.calls = x]
    BY <1>1, <2>1 DEF CallEach
  <2>3. State(z) /\ z.calls = x /\ z.ok = st.ok /\ z.rules = st.rules /\ z.lists = st.lists /\ z.last = st.last
    BY <2>2 DEF Base, State
  <2>4. Array(x) /\ ToSet(x) = ToSet(st.calls) \cup ToSet(t)
    BY <2>1, Joined DEF Base
  <2> QED BY <1>1, <2>1, <2>3, <2>4 DEF After, Base
<1>2. CASE ~st.ok
  BY <1>2 DEF CallEach, After
<1>3. st.ok \in BOOLEAN
  BY DEF Base, State
<1> QED BY <1>1, <1>2, <1>3

\* A run with the calls for parts of a rule at its end.
LEMMA ExtendedBy ==
  ASSUME NEW st, Base(st), NEW t, Array(t), \A call \in ToSet(t) : call.id[1] \in PartTypes,
         NEW z, z = CallEach(st, t)
  PROVE  Extended(st, z)
BY CallEachIs DEF Extended

\* One call more.
LEMMA CallIs ==
  ASSUME NEW st, Base(st), NEW id, NEW refs, NEW of, NEW z, z = Call(st, id, refs, of)
  PROVE  /\ Base(z) /\ After(st, z)
         /\ z.ok = st.ok /\ z.rules = st.rules /\ z.lists = st.lists /\ z.last = st.last
         /\ \A c \in ToSet(z.calls) : c \in ToSet(st.calls) \/ c = Made(id, refs, of)
<1> DEFINE call == Made(id, refs, of)
           t == <<call>>
<1>0. Array(t)
  BY SingleArray
<1>1. ToSet(t) = {call}
  BY DEF ToSet
<1>2. z = CallEach(st, t)
  BY DEF Call
<1> HIDE DEF call, t
<1>3. /\ Base(z) /\ After(st, z)
      /\ z.ok = st.ok /\ z.rules = st.rules /\ z.lists = st.lists /\ z.last = st.last
      /\ \A c \in ToSet(z.calls) : c \in ToSet(st.calls) \/ c \in ToSet(t)
  BY <1>0, <1>2, CallEachIs
<1>4. \A c \in ToSet(z.calls) : c \in ToSet(st.calls) \/ c = call
  BY <1>1, <1>3
<1> QED BY <1>3, <1>4 DEF call

\* The strings of a condition, and of an action, are arrays.
LEMMA StringsArray ==
  /\ \A c : Array(StringsOf(c))
  /\ \A act : Array(ActionStrings(act))
<1>1. Array(<<>>)
  <2>1. <<>> \in Seq({})
    OBVIOUS
  <2> QED BY <2>1, ArrayOf
<1>2. Array(<<"match", "match 2">>)
  <2>1. <<"match", "match 2">> \in Seq({"match", "match 2"})
    OBVIOUS
  <2> QED BY <2>1, ArrayOf
<1>3. \A c : Array(StringsOf(c))
  BY <1>1, <1>2, SingleArray DEF StringsOf
<1>4. \A act : Array(ActionStrings(act))
  BY <1>1, SingleArray DEF ActionStrings
<1> QED BY <1>3, <1>4

\* The calls for the parts of a rule.
OnlyParts(t) == Array(t) /\ \A call \in ToSet(t) : call.id[1] \in PartTypes

\* One part more.
LEMMA PartAdded ==
  ASSUME NEW t, OnlyParts(t), NEW type \in PartTypes, NEW a, NEW b, NEW refs
  PROVE  OnlyParts(Append(t, Made(Part(type, a, b), refs, None)))
<1> DEFINE call == Made(Part(type, a, b), refs, None)
<1>1. call.id[1] = type
  BY DEF Made, Part
<1> HIDE DEF call
<1>2. Array(Append(t, call)) /\ ToSet(Append(t, call)) = ToSet(t) \cup {call}
  BY Appended DEF OnlyParts
<1> QED BY <1>1, <1>2 DEF OnlyParts, call

\* The strings that a condition or an action makes are parts.
LEMMA StringCallsAre ==
  ASSUME NEW name, NEW strings, Array(strings)
  PROVE  OnlyParts(StringCalls(name, strings))
<1> DEFINE t == StringCalls(name, strings)
<1>1. Len(strings) \in Nat /\ DOMAIN strings = 1 .. Len(strings)
  BY ArrayFacts
<1>2. t = [i \in 1 .. Len(strings) |-> Made(Part("string", name, strings[i]), {}, None)]
  BY <1>1 DEF StringCalls
<1> HIDE DEF t
<1>3. DOMAIN t = 1 .. Len(strings) /\ t = [i \in 1 .. Len(strings) |-> t[i]]
  BY <1>2
<1>4. Array(t)
  BY <1>1, <1>3, ArrayIs
<1>5. ASSUME NEW call \in ToSet(t) PROVE call.id[1] = "string"
  <2>1. PICK i \in 1 .. Len(strings) : call = t[i]
    BY <1>3 DEF ToSet
  <2>2. call.id = Part("string", name, strings[i])
    BY <1>2, <2>1 DEF Made
  <2> QED BY <2>2 DEF Part
<1> QED BY <1>4, <1>5 DEF t, OnlyParts, PartTypes

\* So is a condition with its strings.
LEMMA ConditionCallsAre ==
  ASSUME NEW name, NEW c
  PROVE  OnlyParts(ConditionCalls(name, c))
BY StringsArray, StringCallsAre, PartAdded DEF ConditionCalls, PartTypes

\* So are the conditions inside another one,
LEMMA LeafCallsAre ==
  ASSUME NEW name, NEW leaves, Array(leaves)
  PROVE  OnlyParts(LeafCalls(name, leaves))
<1> DEFINE ss == [i \in DOMAIN leaves |-> ConditionCalls(name, leaves[i])]
           t == LeafCalls(name, leaves)
<1>1. Len(leaves) \in Nat /\ DOMAIN leaves = 1 .. Len(leaves)
  BY ArrayFacts
<1>2. DOMAIN ss = 1 .. Len(leaves) /\ ss = [i \in 1 .. Len(leaves) |-> ss[i]]
  BY <1>1
<1>3. Array(ss)
  <2> HIDE DEF ss
  <2> QED BY <1>1, <1>2, ArrayIs
<1>4. ASSUME NEW i \in DOMAIN ss PROVE OnlyParts(ss[i])
  <2>1. ss[i] = ConditionCalls(name, leaves[i])
    BY <1>1, <1>2
  <2> HIDE DEF ss
  <2> QED BY <2>1, ConditionCallsAre
<1>5. t = FlattenSeq(ss)
  BY DEF LeafCalls
<1> HIDE DEF ss, t
<1>6. Array(t) /\ ToSet(t) = UNION {ToSet(ss[i]) : i \in DOMAIN ss}
  BY <1>3, <1>4, <1>5, Flat DEF OnlyParts
<1>7. ASSUME NEW call \in ToSet(t) PROVE call.id[1] \in PartTypes
  <2>1. PICK i \in DOMAIN ss : call \in ToSet(ss[i])
    BY <1>6
  <2> QED BY <1>4, <2>1 DEF OnlyParts
<1> QED BY <1>6, <1>7 DEF t, OnlyParts

\* and the condition around them.
LEMMA NestedAre ==
  ASSUME NEW name, NEW nest, NEW conds, IsFiniteSet(conds)
  PROVE  OnlyParts(Nested(name, nest, conds))
<1>1. OnlyParts(LeafCalls(name, SetToSeq(conds)))
  <2>1. Array(SetToSeq(conds))
    BY OrderedSet
  <2> QED BY <2>1, LeafCallsAre
<1> QED BY <1>1, PartAdded DEF Nested, PartTypes

\* A rule has finitely many innermost conditions, one at least.
LEMMA LeavesFinite ==
  ASSUME NEW rule, IsFiniteSet(rule.conds)
  PROVE  IsFiniteSet(Leaves(rule)) /\ Leaves(rule) # {}
BY FS_Singleton DEF Leaves

\* All parts of a rule, and nothing but its parts.
LEMMA ComponentsAre ==
  ASSUME NEW st, Base(st), NEW n, NEW rule, IsFiniteSet(rule.conds)
  PROVE  Extended(st, Components(st, n, rule))
<1> DEFINE L == Leaves(rule)
           some == CHOOSE c \in L : TRUE
           a == CASE rule.nest = "any" -> NewAny(st, n, L)
                  [] rule.nest = "all" -> NewAll(st, n, L)
                  [] OTHER -> NewIf(st, n, some)
           acts == Append(StringCalls(n, ActionStrings(rule.act)),
                          Made(Part("action", n, rule.act), Strings(n, ActionStrings(rule.act)), None))
<1>0. Components(st, n, rule) = CallEach(a, acts)
  BY DEF Components, NewAction
<1>1. IsFiniteSet(L)
  BY LeavesFinite
<1>2. OnlyParts(acts)
  BY StringsArray, StringCallsAre, PartAdded DEF PartTypes
<1> HIDE DEF L, some, acts
<1>3. ASSUME NEW t, OnlyParts(t) PROVE Extended(st, CallEach(st, t))
  BY <1>3, ExtendedBy DEF OnlyParts
<1>4. Extended(st, a)
  <2>1. CASE rule.nest = "any"
    <3>1. a = CallEach(st, Nested(n, "any", L))
      BY <2>1 DEF NewAny
    <3> HIDE DEF a
    <3> QED BY <1>1, <1>3, <3>1, NestedAre
  <2>2. CASE rule.nest = "all"
    <3> DEFINE leaves == SetToSeq(L)
               found == {i \in DOMAIN leaves : \A j \in 1 .. i : leaves[j] \in BuiltIn}
               upto == [i \in found |-> leaves[i]]
               b == CallEach(st, LeafCalls(n, upto))
    <3>1. a = NewAll(st, n, L)
      BY <2>2
    <3> HIDE DEF a
    <3>2. CASE L \subseteq BuiltIn
      <4>1. a = CallEach(st, Nested(n, "all", L))
        BY <3>1, <3>2 DEF NewAll
      <4> QED BY <1>1, <1>3, <4>1, NestedAre
    <3>3. CASE ~(L \subseteq BuiltIn)
      <4>1. a = Error(b)
        BY <3>1, <3>3 DEF NewAll
      <4>2. Array(upto)
        <5>1. Array(leaves) /\ ToSet(leaves) = L
          BY <1>1, OrderedSet
        <5> HIDE DEF leaves
        <5>2. Len(leaves) \in Nat /\ DOMAIN leaves = 1 .. Len(leaves)
          BY <5>1, ArrayFacts
        <5>3. PICK m \in Nat : found = 1 .. m
          <6> DEFINE Bad == {i \in DOMAIN leaves : leaves[i] \notin BuiltIn}
          <6>1. PICK i \in DOMAIN leaves : leaves[i] \notin BuiltIn
            BY <3>3, <5>1 DEF ToSet
          <6>2. PICK k \in Bad : \A y \in Bad : k <= y
            <7>1. Bad \subseteq Nat /\ Bad # {}
              BY <6>1, <5>2
            <7> HIDE DEF Bad
            <7> QED BY <7>1, SmallestNat
          <6>3. found = 1 .. (k - 1) /\ k - 1 \in Nat
            BY <5>2, <6>2
          <6> QED BY <6>3
        <5>5. DOMAIN upto = 1 .. m /\ upto = [i \in 1 .. m |-> upto[i]]
          BY <5>3
        <5> HIDE DEF upto, found
        <5> QED BY <5>5, ArrayIs
      <4> HIDE DEF upto
      <4>3. Extended(st, b)
        <5>1. OnlyParts(LeafCalls(n, upto))
          BY <4>2, LeafCallsAre
        <5> QED BY <1>3, <5>1
      <4> HIDE DEF b
      <4>4. Base(a) /\ a.calls = b.calls /\ ~a.ok /\ a.rules = b.rules /\ a.lists = b.lists
        BY <4>1, <4>3, WithError DEF Extended
      <4> QED BY <4>3, <4>4 DEF Extended, After
    <3> QED BY <3>2, <3>3
  <2>3. CASE rule.nest \notin {"any", "all"}
    <3>1. a = CallEach(st, ConditionCalls(n, some))
      BY <2>3 DEF NewIf
    <3> HIDE DEF a
    <3> QED BY <1>3, <3>1, ConditionCallsAre
  <2> HIDE DEF a
  <2> QED BY <2>1, <2>2, <2>3
<1> HIDE DEF a
<1>5. Extended(a, CallEach(a, acts))
  BY <1>2, <1>4, ExtendedBy DEF OnlyParts, Extended
<1> QED BY <1>0, <1>4, <1>5, ExtendedTwice

\* A generated name is counted.
LEMMA NamedIs ==
  ASSUME NEW st, Base(st), NEW thing, NEW name, NEW table
  PROVE  LET z == Named(st, thing, name, table)
         IN  Extended(st, z) /\ z.ok = st.ok /\ (name # None => z.last = name)
<1> DEFINE z == Named(st, thing, name, table)
<1>1. ASSUME NEW k
      PROVE  Extended(st, Numbered(st, thing, k)) /\ Numbered(st, thing, k).ok = st.ok
  <2> DEFINE y == Call(st, Id("count", thing), {}, k)
             x == Numbered(st, thing, k)
             call == Made(Id("count", thing), {}, k)
  <2>1. call.id[1] = "count"
    BY DEF Made, Id
  <2>2. /\ Base(y) /\ After(st, y) /\ y.ok = st.ok
        /\ \A c \in ToSet(y.calls) : c \in ToSet(st.calls) \/ c = call
    <3>1. PICK a, id : a = y /\ id = Id("count", thing)
      OBVIOUS
    <3>2. a = Call(st, id, {}, k)
      BY <3>1
    <3>3. /\ Base(a) /\ After(st, a) /\ a.ok = st.ok
          /\ \A c \in ToSet(a.calls) : c \in ToSet(st.calls) \/ c = Made(id, {}, k)
      BY <3>2, CallIs
    <3> QED BY <3>1, <3>3
  <2>3. x = [y EXCEPT !.n[Counter(st, thing)] = k + 1, !.last = thing \o ToString(k)]
    BY DEF Numbered
  <2> HIDE DEF x, y, call
  <2>4. Base(x) /\ x.calls = y.calls /\ x.ok = y.ok /\ x.rules = y.rules /\ x.lists = y.lists
    BY <2>2, <2>3 DEF Base, State
  <2>5. Extended(st, x) /\ x.ok = st.ok
    BY <2>1, <2>2, <2>4 DEF Extended, After, PartTypes
  <2> QED BY <2>5 DEF x
<1>2. CASE name = None
  BY <1>1, <1>2 DEF Named, Unique
<1>3. CASE name # None
  <2>1. z = [st EXCEPT !.last = name]
    BY <1>3 DEF Named
  <2> HIDE DEF z
  <2>2. Base(z) /\ z.calls = st.calls /\ z.ok = st.ok /\ z.rules = st.rules /\ z.lists = st.lists /\ z.last = name
    BY <2>1, WithLast
  <2> QED BY <2>2 DEF Extended, After, z
<1> QED BY <1>2, <1>3

\* A rule after its parts.
LEMMA MakeRuleIs ==
  ASSUME NEW st, Base(st), NEW n, NEW rule, IsFiniteSet(rule.conds),
         NEW z, z = MakeRule(st, n, rule)
  PROVE  /\ Base(z) /\ After(st, z) /\ z.last = n /\ n \in z.rules
         /\ \E x, refs : /\ Extended(st, x) /\ z = Call(x, Id("rule", n), refs, rule)
                         /\ z.ok = x.ok
                         /\ \A c \in ToSet(z.calls) : c \in ToSet(x.calls) \/ c = Made(Id("rule", n), refs, rule)
<1> DEFINE y == Components(st, n, rule)
           x == [y EXCEPT !.rules = @ \cup {n}, !.last = n]
           refs == {Part("condition", n, Top(rule)), Part("action", n, rule.act)}
<1>0. z = Call(x, Id("rule", n), refs, rule)
  BY DEF MakeRule
<1>1. Extended(st, y)
  BY ComponentsAre
<1> HIDE DEF y
<1>2. Base(x) /\ x.calls = y.calls /\ x.ok = y.ok /\ x.rules = y.rules \cup {n} /\ x.lists = y.lists /\ x.last = n
  <2>1. Base(y)
    BY <1>1 DEF Extended
  <2> QED BY <2>1 DEF Base, State
<1> HIDE DEF x, refs
<1>3. Extended(st, x)
  BY <1>1, <1>2 DEF Extended, After
<1>4. /\ Base(z)
      /\ z.ok = x.ok /\ z.rules = x.rules /\ z.lists = x.lists /\ z.last = x.last
      /\ \A c \in ToSet(z.calls) : c \in ToSet(x.calls) \/ c = Made(Id("rule", n), refs, rule)
  <2>1. PICK id : id = Id("rule", n)
    OBVIOUS
  <2>2. z = Call(x, id, refs, rule)
    BY <1>0, <2>1
  <2> QED BY <1>2, <2>1, <2>2, CallIs
<1>5. After(st, z) /\ z.last = n /\ n \in z.rules
  BY <1>1, <1>2, <1>4 DEF Extended, After
<1> QED BY <1>0, <1>3, <1>4, <1>5

-----------------------------------------------------------------------------
(* Rules, lists and phases of a document.                                  *)

\* Later than later is later.
LEMMA AfterTwice ==
  ASSUME NEW a, NEW b, NEW d, After(a, b), After(b, d)
  PROVE  After(a, d)
BY DEF After

\* A state is as late as itself.
LEMMA AfterSelf ==
  ASSUME NEW st
  PROVE  After(st, st)
BY DEF After

\* A thing that is one more in a run.
LEMMA ThingCalled ==
  ASSUME NEW st, Fine(st), NEW type \in {"limiter", "rule", "list", "phase", "ruleset"}, NEW n, NEW refs, NEW of,
         type \in {"list", "phase"} => Array(of), NEW z, z = Call(st, Id(type, n), refs, of)
  PROVE  Fine(z) /\ After(st, z) /\ z.ok = st.ok /\ z.rules = st.rules /\ z.lists = st.lists /\ z.last = st.last
<1>1. PICK id : id = Id(type, n)
  OBVIOUS
<1> DEFINE call == Made(id, refs, of)
<1>2. call.id = id /\ call.of = of /\ id[1] = type /\ id[2] = n
  BY <1>1 DEF Made, Id
<1>50. call = Made(id, refs, of)
  OBVIOUS
<1> HIDE DEF call
<1>3. Storable(call)
  BY <1>1, <1>2 DEF Storable, ThingTypes
<1>4. z = Call(st, id, refs, of) /\ Base(st)
  BY <1>1 DEF Fine
<1>5. /\ Base(z) /\ After(st, z)
      /\ z.ok = st.ok /\ z.rules = st.rules /\ z.lists = st.lists /\ z.last = st.last
      /\ \A c \in ToSet(z.calls) : c \in ToSet(st.calls) \/ c = call
  BY <1>4, <1>50, CallIs
<1> QED BY <1>3, <1>5 DEF Fine

\* What the parser has read, or what is there by now.
RuleRead(rule) == IsFiniteSet(rule.conds)

\* A rule, under its name, after its parts.
LEMMA MakeRuleFine ==
  ASSUME NEW st, Fine(st), NEW n, NEW rule, RuleRead(rule)
  PROVE  LET z == MakeRule(st, n, rule)
         IN  Fine(z) /\ After(st, z) /\ z.last = n /\ n \in z.rules
<1> DEFINE z == MakeRule(st, n, rule)
<1>1. PICK a : a = z
  OBVIOUS
<1>2. /\ Base(a) /\ After(st, a) /\ a.last = n /\ n \in a.rules
      /\ \E y, refs : /\ Extended(st, y)
                      /\ \A c \in ToSet(a.calls) : c \in ToSet(y.calls) \/ c = Made(Id("rule", n), refs, rule)
  BY <1>1, MakeRuleIs DEF RuleRead, Fine
<1>3. PICK y, refs : /\ Extended(st, y)
                     /\ \A c \in ToSet(a.calls) : c \in ToSet(y.calls) \/ c = Made(Id("rule", n), refs, rule)
  BY <1>2
<1>4. Fine(y)
  BY <1>3, ExtendedFine
<1> DEFINE call == Made(Id("rule", n), refs, rule)
<1>5. call.id = Id("rule", n) /\ call.id[1] = "rule" /\ call.id[2] = n
  BY DEF Made, Id
<1> HIDE DEF z
<1>6. Storable(call)
  <2> HIDE DEF call
  <2> QED BY <1>5 DEF Storable
<1>7. Fine(a)
  BY <1>2, <1>3, <1>4, <1>6 DEF Fine
<1>8. Fine(z) /\ After(st, z) /\ z.last = n /\ n \in z.rules
  BY <1>1, <1>2, <1>7
<1> QED BY <1>8 DEF z

\* An error is a later state of the run.
LEMMA ErrorIs ==
  ASSUME NEW st, Fine(st)
  PROVE  LET z == Error(st) IN Fine(z) /\ After(st, z) /\ ~z.ok
<1> DEFINE z == Error(st)
<1>1. Base(z) /\ z.calls = st.calls /\ ~z.ok /\ z.rules = st.rules /\ z.lists = st.lists
  BY WithError DEF Fine
<1> HIDE DEF z
<1>2. Fine(z) /\ After(st, z) /\ ~z.ok
  BY <1>1 DEF Fine, After
<1> QED BY <1>2 DEF z

\* So is one that notes the name of its last thing.
LEMMA LastIs ==
  ASSUME NEW st, Fine(st), NEW name
  PROVE  LET z == [st EXCEPT !.last = name] IN Fine(z) /\ After(st, z)
<1> DEFINE z == [st EXCEPT !.last = name]
<1>1. Base(z) /\ z.calls = st.calls /\ z.ok = st.ok /\ z.rules = st.rules /\ z.lists = st.lists
  BY WithLast DEF Fine
<1> HIDE DEF z
<1>2. Fine(z) /\ After(st, z)
  BY <1>1 DEF Fine, After
<1> QED BY <1>2 DEF z

\* A rule that is to be found under its name afterwards.
LEMMA AddRuleIs ==
  ASSUME NEW st, Fine(st), NEW name, NEW rule, NEW table, RuleRead(rule)
  PROVE  LET z == AddRule(st, name, rule, table)
         IN  Fine(z) /\ After(st, z) /\ (z.ok /\ name # None => name \in z.rules)
<1> DEFINE y == Named(st, "rule", name, table)
           x == MakeRule(y, y.last, rule)
           z == AddRule(st, name, rule, table)
<1>1. CASE ~st.ok
  <2>1. z = st
    BY <1>1 DEF AddRule
  <2> QED BY <1>1, <2>1, AfterSelf
<1>2. CASE st.ok /\ name \in st.rules
  <2>1. z = Error(st)
    BY <1>2 DEF AddRule
  <2> QED BY <2>1, ErrorIs
<1>3. CASE st.ok /\ name \notin st.rules
  <2>1. z = x
    BY <1>3 DEF AddRule
  <2>2. Extended(st, y) /\ (name # None => y.last = name)
    BY NamedIs DEF Fine
  <2> HIDE DEF y, z
  <2>3. Fine(y) /\ After(st, y)
    BY <2>2, ExtendedFine DEF Extended
  <2>4. Fine(x) /\ After(y, x) /\ y.last \in x.rules
    BY <2>3, MakeRuleFine
  <2> HIDE DEF x
  <2>5. After(st, x)
    BY <2>3, <2>4, AfterTwice
  <2> QED BY <2>1, <2>2, <2>4, <2>5 DEF z
<1> QED BY <1>1, <1>2, <1>3

\* What may come from a list is a rule that is there, or can be made.
EntriesFit(st, entries) ==
  \A e \in ToSet(entries) : IF "rule" \in DOMAIN e THEN RuleRead(e.rule) ELSE st.ok => e.name \in st.rules

\* What fits now fits later: Ruleset.new drops no rule.
LEMMA EntriesFitLater ==
  ASSUME NEW st, NEW z, After(st, z), NEW entries, EntriesFit(st, entries)
  PROVE  EntriesFit(z, entries)
BY DEF EntriesFit, After

\* Where the entries of a list, or of a phase, have led.
Listing(st, acc) == Fine(acc.st) /\ After(st, acc.st) /\ Array(acc.names)

\* A list before its first entry.
LEMMA ListingFirst ==
  ASSUME NEW st, Fine(st)
  PROVE  Listing(st, [st |-> st, names |-> <<>>])
<1>1. Array(<<>>)
  <2>1. <<>> \in Seq({})
    OBVIOUS
  <2> QED BY <2>1, ArrayOf
<1> DEFINE base == [st |-> st, names |-> <<>>]
<1>2. base.st = st /\ base.names = <<>>
  OBVIOUS
<1> HIDE DEF base
<1>3. Listing(st, base)
  BY <1>1, <1>2, AfterSelf DEF Listing
<1> QED BY <1>3 DEF base

\* One entry more.
LEMMA EntryIs ==
  ASSUME NEW st, NEW acc, Listing(st, acc), NEW z, Fine(z), After(acc.st, z)
  PROVE  Listing(st, Entry(acc, z))
<1> DEFINE b == Entry(acc, z)
<1>1. b.st = z /\ b.names = Append(acc.names, z.last)
  BY DEF Entry
<1> HIDE DEF b
<1>2. Array(b.names)
  BY <1>1, Appended DEF Listing
<1>3. After(st, z)
  BY AfterTwice DEF Listing
<1>4. Listing(st, b)
  BY <1>1, <1>2, <1>3 DEF Listing
<1> QED BY <1>4 DEF b

\* An entry of a list: a rule that is there, or one made for it.
LEMMA ListEntryIs ==
  ASSUME NEW st, NEW tables, NEW acc, Listing(st, acc),
         NEW entries, NEW e \in ToSet(entries), EntriesFit(acc.st, entries)
  PROVE  Listing(st, ListEntry(tables, acc, e))
<1>0. Fine(acc.st)
  BY DEF Listing
<1>1. CASE ~acc.st.ok
  BY <1>1 DEF ListEntry
<1>2. CASE acc.st.ok /\ e.name \in acc.st.rules
  <2> DEFINE z == [acc.st EXCEPT !.last = e.name]
  <2>1. Fine(z) /\ After(acc.st, z)
    BY <1>0, LastIs
  <2>2. ListEntry(tables, acc, e) = Entry(acc, z)
    BY <1>2 DEF ListEntry
  <2> HIDE DEF z
  <2> QED BY <2>1, <2>2, EntryIs
<1>3. CASE acc.st.ok /\ e.name \notin acc.st.rules
  <2> DEFINE table == acc.st.rules \cup tables.rules
             z == AddRule(acc.st, e.name, e.rule, table)
  <2>1. ListEntry(tables, acc, e) = Entry(acc, z)
    BY <1>3 DEF ListEntry
  <2>2. RuleRead(e.rule)
    BY <1>3 DEF EntriesFit
  <2> HIDE DEF table
  <2>3. PICK name, rule, a : name = e.name /\ rule = e.rule /\ a = acc.st
    OBVIOUS
  <2>4. z = AddRule(a, name, rule, table)
    BY <2>3
  <2> HIDE DEF z
  <2>5. Fine(z) /\ After(a, z)
    BY <1>0, <2>2, <2>3, <2>4, AddRuleIs
  <2> QED BY <2>1, <2>3, <2>5, EntryIs
<1> QED BY <1>1, <1>2, <1>3

\* All entries of a list.
LEMMA ListingAll ==
  ASSUME NEW st, Fine(st), NEW tables, NEW entries, Array(entries), EntriesFit(st, entries)
  PROVE  Listing(st, ListEntries(tables, st, entries))
<1> DEFINE base == [st |-> st, names |-> <<>>]
<1>1. Len(entries) \in Nat /\ DOMAIN entries = 1 .. Len(entries)
  BY ArrayFacts
<1>2. Listing(st, base)
  BY ListingFirst
<1> HIDE DEF base
<1>3. PICK f : /\ f[0] = base
               /\ \A i \in 1 .. Len(entries) : f[i] = ListEntry(tables, f[i - 1], entries[i])
               /\ ListEntries(tables, st, entries) = f[Len(entries)]
  BY <1>1, FoldListEntries DEF base
<1> DEFINE J == {i \in 0 .. Len(entries) : Listing(st, f[i])}
<1>4. 0 \in J
  BY <1>1, <1>2, <1>3
<1>5. ASSUME NEW i \in 1 .. Len(entries), i - 1 \in J PROVE i \in J
  <2>1. Listing(st, f[i - 1]) /\ i \in 0 .. Len(entries)
    BY <1>1, <1>5
  <2>2. EntriesFit(f[i - 1].st, entries)
    BY <2>1, EntriesFitLater DEF Listing
  <2>3. entries[i] \in ToSet(entries)
    BY <1>1 DEF ToSet
  <2>4. Listing(st, ListEntry(tables, f[i - 1], entries[i]))
    BY <2>1, <2>2, <2>3, ListEntryIs
  <2> QED BY <1>3, <2>1, <2>4
<1>6. Len(entries) \in J
  <2> HIDE DEF J
  <2>1. 0 .. Len(entries) \subseteq J
    BY <1>1, <1>4, <1>5, UpTo
  <2> QED BY <1>1, <2>1
<1> QED BY <1>3, <1>6 DEF base

\* A list after its rules.
LEMMA MakeListIs ==
  ASSUME NEW st, NEW all, Listing(st, all), NEW n
  PROVE  LET z == MakeList(all, n)
         IN  Fine(z) /\ After(st, z) /\ n \in z.lists
<1> DEFINE y == all.st
           x == [y EXCEPT !.lists = @ \cup {n}, !.last = n]
           refs == {Id("rule", r) : r \in ToSet(all.names)}
           z == MakeList(all, n)
<1>1. Fine(y) /\ After(st, y) /\ Array(all.names)
  BY DEF Listing
<1>2. z = Call(x, Id("list", n), refs, all.names)
  BY DEF MakeList
<1> HIDE DEF y
<1>3. Base(x) /\ x.calls = y.calls /\ x.ok = y.ok /\ x.rules = y.rules /\ x.lists = y.lists \cup {n}
  <2>1. Base(y)
    BY <1>1 DEF Fine
  <2> QED BY <2>1 DEF Base, State
<1> HIDE DEF x, refs, z
<1>4. Fine(x) /\ After(st, x)
  BY <1>1, <1>3 DEF Fine, After
<1>5. PICK names : names = all.names
  OBVIOUS
<1>6. z = Call(x, Id("list", n), refs, names) /\ Array(names)
  BY <1>1, <1>2, <1>5
<1>7. Fine(z) /\ After(x, z) /\ z.lists = x.lists
  BY <1>4, <1>6, ThingCalled
<1>8. Fine(z) /\ After(st, z) /\ n \in z.lists
  BY <1>3, <1>4, <1>7, AfterTwice
<1> QED BY <1>8 DEF z

\* A list that is to be found under its name afterwards.
LEMMA AddListIs ==
  ASSUME NEW st, Fine(st), NEW name, NEW entries, NEW tables, Array(entries), EntriesFit(st, entries)
  PROVE  LET z == AddList(st, name, entries, tables)
         IN  Fine(z) /\ After(st, z) /\ (z.ok /\ name # None => name \in z.lists)
<1> DEFINE y == Named(st, "list", name, st.lists \cup tables.lists)
           all == ListEntries(tables, y, entries)
           x == MakeList(all, y.last)
           z == AddList(st, name, entries, tables)
<1>1. CASE ~st.ok
  <2>1. z = st
    BY <1>1 DEF AddList
  <2> QED BY <1>1, <2>1, AfterSelf
<1>2. CASE st.ok /\ name \in st.lists
  <2>1. z = Error(st)
    BY <1>2 DEF AddList
  <2> QED BY <2>1, ErrorIs
<1>3. CASE st.ok /\ name \notin st.lists
  <2>1. z = x
    BY <1>3 DEF AddList
  <2>2. Extended(st, y) /\ (name # None => y.last = name)
    <3>1. PICK table : table = st.lists \cup tables.lists
      OBVIOUS
    <3> QED BY <3>1, NamedIs DEF Fine
  <2> HIDE DEF y, z
  <2>3. Fine(y) /\ After(st, y)
    BY <2>2, ExtendedFine DEF Extended
  <2>4. Listing(y, all)
    <3>1. EntriesFit(y, entries)
      BY <2>3, EntriesFitLater
    <3> QED BY <2>3, <3>1, ListingAll
  <2> HIDE DEF all
  <2>5. Fine(x) /\ After(y, x) /\ y.last \in x.lists
    BY <2>4, MakeListIs
  <2> HIDE DEF x
  <2>6. After(st, x)
    BY <2>3, <2>5, AfterTwice
  <2> QED BY <2>1, <2>2, <2>5, <2>6 DEF z
<1> QED BY <1>1, <1>2, <1>3

\* What may come from a phase is a list that is there, or can be made.
PhaseFits(st, entries) ==
  \A e \in ToSet(entries) :
     IF "list" \in DOMAIN e THEN Array(e.list) /\ EntriesFit(st, e.list) ELSE st.ok => ListName(e) \in st.lists

\* The same of the lists of a phase.
LEMMA PhaseFitsLater ==
  ASSUME NEW st, NEW z, After(st, z), NEW entries, PhaseFits(st, entries)
  PROVE  PhaseFits(z, entries)
BY EntriesFitLater DEF PhaseFits, After

\* An entry of a phase.
LEMMA PhaseEntryIs ==
  ASSUME NEW st, NEW tables, NEW acc, Listing(st, acc),
         NEW entries, NEW e \in ToSet(entries), PhaseFits(acc.st, entries)
  PROVE  Listing(st, PhaseEntry(tables, acc, e))
<1>0. Fine(acc.st)
  BY DEF Listing
<1>1. CASE ~acc.st.ok
  BY <1>1 DEF PhaseEntry
<1>2. CASE acc.st.ok /\ ListName(e) \in acc.st.lists
  <2> DEFINE z == [acc.st EXCEPT !.last = ListName(e)]
  <2>1. Fine(z) /\ After(acc.st, z)
    BY <1>0, LastIs
  <2>2. PhaseEntry(tables, acc, e) = Entry(acc, z)
    BY <1>2 DEF PhaseEntry
  <2> HIDE DEF z
  <2> QED BY <2>1, <2>2, EntryIs
<1>3. CASE acc.st.ok /\ ListName(e) \notin acc.st.lists
  <2> DEFINE z == AddList(acc.st, ListName(e), e.list, tables)
  <2>1. PhaseEntry(tables, acc, e) = Entry(acc, z)
    BY <1>3 DEF PhaseEntry
  <2>2. Array(e.list) /\ EntriesFit(acc.st, e.list)
    BY <1>3 DEF PhaseFits
  <2>3. PICK name, list, a : name = ListName(e) /\ list = e.list /\ a = acc.st
    OBVIOUS
  <2>4. z = AddList(a, name, list, tables)
    BY <2>3
  <2> HIDE DEF z
  <2>5. Fine(z) /\ After(a, z)
    BY <1>0, <2>2, <2>3, <2>4, AddListIs
  <2> QED BY <2>1, <2>3, <2>5, EntryIs
<1> QED BY <1>1, <1>2, <1>3

\* A phase, or the error that there is none of that name.
LEMMA AddPhaseIs ==
  ASSUME NEW st, Fine(st), NEW name, NEW entries, NEW tables, Array(entries), PhaseFits(st, entries)
  PROVE  LET z == AddPhase(st, name, entries, tables) IN Fine(z) /\ After(st, z)
<1> DEFINE base == [st |-> st, names |-> <<>>]
           all == PhaseEntries(tables, st, entries)
           z == AddPhase(st, name, entries, tables)
<1>1. CASE ~st.ok
  <2>1. z = st
    BY <1>1 DEF AddPhase
  <2> QED BY <2>1, AfterSelf
<1>2. CASE st.ok /\ name \notin PossiblePhases
  <2>1. z = Error(st)
    BY <1>2 DEF AddPhase
  <2> QED BY <2>1, ErrorIs
<1>3. CASE st.ok /\ name \in PossiblePhases
  <2>1. z = MakePhase(all, name)
    BY <1>3 DEF AddPhase
  <2>2. Len(entries) \in Nat /\ DOMAIN entries = 1 .. Len(entries)
    BY ArrayFacts
  <2>3. Listing(st, base)
    BY ListingFirst
  <2> HIDE DEF base
  <2>4. PICK f : /\ f[0] = base
                 /\ \A i \in 1 .. Len(entries) : f[i] = PhaseEntry(tables, f[i - 1], entries[i])
                 /\ all = f[Len(entries)]
    BY <2>2, FoldPhaseEntries DEF base
  <2> DEFINE J == {i \in 0 .. Len(entries) : Listing(st, f[i])}
  <2>5. 0 \in J
    BY <2>2, <2>3, <2>4
  <2>6. ASSUME NEW i \in 1 .. Len(entries), i - 1 \in J PROVE i \in J
    <3>1. Listing(st, f[i - 1]) /\ i \in 0 .. Len(entries)
      BY <2>2, <2>6
    <3>2. PhaseFits(f[i - 1].st, entries)
      BY <3>1, PhaseFitsLater DEF Listing
    <3>3. entries[i] \in ToSet(entries)
      BY <2>2 DEF ToSet
    <3>4. Listing(st, PhaseEntry(tables, f[i - 1], entries[i]))
      BY <3>1, <3>2, <3>3, PhaseEntryIs
    <3> QED BY <2>4, <3>1, <3>4
  <2>7. Len(entries) \in J
    <3> HIDE DEF J
    <3>1. 0 .. Len(entries) \subseteq J
      BY <2>2, <2>5, <2>6, UpTo
    <3> QED BY <2>2, <3>1
  <2>8. Listing(st, all)
    BY <2>4, <2>7
  <2> HIDE DEF all, J
  <2>9. PICK x, names : x = all.st /\ names = all.names
    OBVIOUS
  <2> DEFINE refs == {Id("list", l) : l \in ToSet(all.names)}
  <2>10. Fine(x) /\ After(st, x) /\ Array(names)
    BY <2>8, <2>9 DEF Listing
  <2>11. z = Call(x, Id("phase", name), refs, names)
    BY <2>1, <2>9 DEF MakePhase
  <2> HIDE DEF refs, z
  <2>12. Fine(z) /\ After(x, z)
    BY <2>10, <2>11, ThingCalled
  <2> QED BY <2>10, <2>12, AfterTwice DEF z
<1> QED BY <1>1, <1>2, <1>3

-----------------------------------------------------------------------------
(* Burst limiters, the order of things, and a whole document.              *)

\* The chain of burst limiters is an array, and the limiter is in it.
LEMMA ChainIs ==
  ASSUME NEW doc, NEW there, NEW n, IsFiniteSet(DOMAIN doc.limiters)
  PROVE  LET c == Chain(doc, there, n)
         IN  Array(c) /\ n \in ToSet(c)
<1> DEFINE N == Cardinality(DOMAIN doc.limiters)
           step(c) == LET b == Burst(doc, Last(c))
                      IN IF b = None \/ b \in there \cup ToSet(c) THEN c ELSE Append(c, b)
           Rec(h, m) == h = [k \in 0 .. m |-> IF k = 0 THEN <<n>> ELSE step(h[k - 1])]
           chain == CHOOSE h : Rec(h, N)
           J == {m \in 0 .. N : \E h : Rec(h, m)}
<1>0. N \in Nat
  BY FS_CardinalityType
<1>1. Chain(doc, there, n) = chain[N]
  BY DEF Chain
<1> HIDE DEF N, step
<1>2. 0 \in J
  <2> DEFINE h == [k \in 0 .. 0 |-> <<n>>]
  <2>1. \A k \in 0 .. 0 : k = 0
    OBVIOUS
  <2>2. Rec(h, 0)
    BY <2>1
  <2>3. 0 \in 0 .. N
    BY <1>0
  <2> HIDE DEF Rec, h
  <2> QED BY <2>2, <2>3
<1>3. ASSUME NEW m \in 1 .. N, m - 1 \in J PROVE m \in J
  <2>1. PICK h : Rec(h, m - 1)
    BY <1>3
  <2> DEFINE g == [k \in 0 .. m |-> IF k = m THEN step(h[m - 1]) ELSE h[k]]
  <2>2. ASSUME NEW k \in 0 .. m
        PROVE  g[k] = IF k = 0 THEN <<n>> ELSE step(g[k - 1])
    <3>1. CASE k = m
      <4>1. k # 0 /\ k - 1 \in 0 .. m /\ k - 1 # m
        BY <3>1, <1>0
      <4> QED BY <3>1, <4>1
    <3>2. CASE k # m
      <4>1. k \in 0 .. (m - 1) /\ (k # 0 => k - 1 \in 0 .. m /\ k - 1 # m)
        BY <3>2, <1>0
      <4>2. h[k] = IF k = 0 THEN <<n>> ELSE step(h[k - 1])
        BY <2>1, <4>1
      <4> QED BY <3>2, <4>1, <4>2
    <3> QED BY <3>1, <3>2
  <2>3. g = [k \in 0 .. m |-> g[k]]
    OBVIOUS
  <2> HIDE DEF g
  <2>4. Rec(g, m)
    BY <2>2, <2>3
  <2>5. m \in 0 .. N
    BY <1>0
  <2> HIDE DEF Rec
  <2> QED BY <2>4, <2>5
<1>4. N \in J
  <2> HIDE DEF J
  <2>1. 0 .. N \subseteq J
    BY <1>0, <1>2, <1>3, UpTo
  <2> QED BY <1>0, <2>1
<1>5. Rec(chain, N)
  BY <1>4
<1> HIDE DEF chain
<1>6. \A k \in 0 .. N : chain[k] = IF k = 0 THEN <<n>> ELSE step(chain[k - 1])
  BY <1>5
<1> HIDE DEF Rec, J
<1> DEFINE K == {k \in 0 .. N : Array(chain[k]) /\ n \in ToSet(chain[k])}
<1>7. 0 \in K
  <2>1. chain[0] = <<n>> /\ 0 \in 0 .. N
    BY <1>0, <1>6
  <2>2. Array(<<n>>) /\ n \in ToSet(<<n>>)
    BY SingleArray DEF ToSet
  <2> QED BY <2>1, <2>2
<1>8. ASSUME NEW k \in 1 .. N, k - 1 \in K PROVE k \in K
  <2>1. k \in 0 .. N /\ k # 0 /\ Array(chain[k - 1]) /\ n \in ToSet(chain[k - 1])
    BY <1>0, <1>8
  <2>2. chain[k] = step(chain[k - 1])
    BY <1>6, <2>1
  <2>3. PICK c : c = chain[k - 1]
    OBVIOUS
  <2>4. step(c) = c \/ \E b : step(c) = Append(c, b)
    BY DEF step
  <2>5. \A b : Array(Append(c, b)) /\ n \in ToSet(Append(c, b))
    BY <2>1, <2>3, Appended
  <2> QED BY <2>1, <2>2, <2>3, <2>4, <2>5
<1>9. N \in K
  <2> HIDE DEF K
  <2>1. 0 .. N \subseteq K
    BY <1>0, <1>7, <1>8, UpTo
  <2> QED BY <1>0, <2>1
<1> QED BY <1>1, <1>9

\* A reversed array has the same elements.
LEMMA Reversed ==
  ASSUME NEW s, Array(s)
  PROVE  Array(Reverse(s)) /\ ToSet(Reverse(s)) = ToSet(s)
<1>1. Len(s) \in Nat /\ DOMAIN s = 1 .. Len(s)
  BY ArrayFacts
<1> DEFINE r == Reverse(s)
<1>2. r = [i \in 1 .. Len(s) |-> s[(Len(s) - i) + 1]]
  BY DEF Reverse
<1> HIDE DEF r
<1>3. DOMAIN r = 1 .. Len(s) /\ r = [i \in 1 .. Len(s) |-> r[i]]
  BY <1>2
<1>4. Array(r)
  BY <1>1, <1>3, ArrayIs
<1>5. ASSUME NEW i \in 1 .. Len(s)
      PROVE  /\ (Len(s) - i) + 1 \in 1 .. Len(s)
             /\ r[i] = s[(Len(s) - i) + 1]
             /\ r[(Len(s) - i) + 1] = s[i]
  <2>1. (Len(s) - i) + 1 \in 1 .. Len(s) /\ (Len(s) - ((Len(s) - i) + 1)) + 1 = i
    BY <1>1
  <2> QED BY <1>2, <2>1
<1>6. ASSUME NEW x \in ToSet(r) PROVE x \in ToSet(s)
  <2>1. PICK i \in 1 .. Len(s) : x = r[i]
    BY <1>3 DEF ToSet
  <2>2. (Len(s) - i) + 1 \in DOMAIN s /\ x = s[(Len(s) - i) + 1]
    BY <1>1, <1>5, <2>1
  <2> QED BY <2>2 DEF ToSet
<1>7. ASSUME NEW x \in ToSet(s) PROVE x \in ToSet(r)
  <2>1. PICK i \in 1 .. Len(s) : x = s[i]
    BY <1>1 DEF ToSet
  <2>2. (Len(s) - i) + 1 \in DOMAIN r /\ x = r[(Len(s) - i) + 1]
    BY <1>3, <1>5, <2>1
  <2> QED BY <2>2 DEF ToSet
<1>8. ToSet(r) = ToSet(s)
  BY <1>6, <1>7
<1> QED BY <1>4, <1>8 DEF r

\* A limiter, after the burst limiters that are created with it.
LEMMA AddLimiterIs ==
  ASSUME NEW st, Fine(st), NEW doc, NEW n, IsFiniteSet(DOMAIN doc.limiters), NEW z, z = AddLimiter(doc, st, n)
  PROVE  Fine(z) /\ After(st, z)
<1>1. CASE n \in st.loaded
  <2>1. z = [st EXCEPT !.loaded = @ \ {n}]
    BY <1>1 DEF AddLimiter
  <2>2. Base(z) /\ z.calls = st.calls /\ z.ok = st.ok /\ z.rules = st.rules /\ z.lists = st.lists
    BY <2>1 DEF Fine, Base, State
  <2> QED BY <2>2 DEF Fine, After
<1>2. CASE n \notin st.loaded
  <2> DEFINE c == Chain(doc, st.limiters, n)
             each == [i \in DOMAIN c |-> LimiterCall(doc, c[i], i < Len(c))]
             t == Reverse(each)
             y == CallEach(st, t)
  <2>1. z = [y EXCEPT !.limiters = @ \cup ToSet(c), !.loaded = @ \cup ToSet(Tail(c))]
    BY <1>2 DEF AddLimiter
  <2>2. Array(c)
    BY ChainIs
  <2> HIDE DEF c
  <2>3. Len(c) \in Nat /\ DOMAIN c = 1 .. Len(c)
    BY <2>2, ArrayFacts
  <2>4. DOMAIN each = 1 .. Len(c) /\ each = [i \in 1 .. Len(c) |-> each[i]]
    BY <2>3
  <2>5. ASSUME NEW i \in 1 .. Len(c) PROVE each[i].id = Id("limiter", c[i])
    BY <2>3 DEF LimiterCall, Made
  <2> HIDE DEF each
  <2>6. Array(each)
    BY <2>3, <2>4, ArrayIs
  <2>7. Array(t) /\ ToSet(t) = ToSet(each)
    BY <2>6, Reversed
  <2> HIDE DEF t
  <2>8. \A call \in ToSet(t) : Storable(call)
    <3>0. \A x : Id("limiter", x)[1] = "limiter" /\ Id("limiter", x)[2] = x
      BY DEF Id
    <3>1. ASSUME NEW call \in ToSet(each) PROVE Storable(call)
      <4>1. PICK i \in 1 .. Len(c) : call = each[i]
        BY <2>4 DEF ToSet
      <4>2. call.id = Id("limiter", c[i])
        BY <2>5, <4>1
      <4>3. call.id[1] = "limiter" /\ call.id[2] = c[i]
        BY <3>0, <4>2
      <4>4. call.id = Id(call.id[1], call.id[2]) /\ call.id[1] \notin {"list", "phase"}
        BY <4>2, <4>3
      <4> QED BY <4>4 DEF Storable
    <3> QED BY <2>7, <3>1
  <2>9. /\ Base(y) /\ After(st, y)
        /\ \A call \in ToSet(y.calls) : call \in ToSet(st.calls) \/ call \in ToSet(t)
    BY <2>7, CallEachIs DEF Fine
  <2> HIDE DEF y
  <2>10. Fine(y)
    BY <2>8, <2>9 DEF Fine
  <2>11. Base(z) /\ z.calls = y.calls /\ z.ok = y.ok /\ z.rules = y.rules /\ z.lists = y.lists
    BY <2>1, <2>9 DEF Base, State
  <2>12. Fine(z)
    BY <2>10, <2>11 DEF Fine
  <2>13. After(st, z)
    BY <2>9, <2>11 DEF After
  <2> QED BY <2>12, <2>13
<1> QED BY <1>1, <1>2

\* The things of a document, and those that have their turn before them.
Of(type, table) == {<<type, n>> : n \in DOMAIN table}
AllThings(doc) == 
  Of("limiter", doc.limiters) \cup Of("rule", doc.rules) \cup Of("list", doc.lists) \cup Of("phase", doc.phases)
Needs(doc, type) ==
  CASE type = "limiter" -> {}
    [] type = "rule"    -> Of("limiter", doc.limiters)
    [] type = "list"    -> Of("limiter", doc.limiters) \cup Of("rule", doc.rules)
    [] type = "phase"   -> Of("limiter", doc.limiters) \cup Of("rule", doc.rules) \cup Of("list", doc.lists)

InTurn(doc, s) ==
  \A i \in DOMAIN s :
     /\ s[i] \in AllThings(doc)
     /\ \A x \in Needs(doc, s[i][1]) : \E j \in 1 .. i - 1 : s[j] = x

\* An order of things in which each comes after what it needs.
LEMMA InTurnMore ==
  ASSUME NEW doc, NEW p, NEW q, Array(p), Array(q), InTurn(doc, p),
         \A x \in ToSet(q) : x \in AllThings(doc) /\ Needs(doc, x[1]) \subseteq ToSet(p)
  PROVE  InTurn(doc, p \o q)
<1> DEFINE s == p \o q
<1>1. Len(p) \in Nat /\ Len(q) \in Nat /\ DOMAIN p = 1 .. Len(p) /\ DOMAIN q = 1 .. Len(q)
  BY ArrayFacts
<1>2. /\ Len(s) = Len(p) + Len(q) /\ Array(s)
      /\ \A i \in 1 .. Len(p) : s[i] = p[i]
      /\ \A i \in 1 .. Len(q) : s[Len(p) + i] = q[i]
  BY Joined
<1> HIDE DEF s
<1>3. DOMAIN s = 1 .. Len(p) + Len(q)
  BY <1>2, ArrayFacts
<1>4. ASSUME NEW i \in 1 .. Len(p) + Len(q)
      PROVE  s[i] \in AllThings(doc) /\ \A x \in Needs(doc, s[i][1]) : \E j \in 1 .. i - 1 : s[j] = x
  <2>1. CASE i <= Len(p)
    <3>1. i \in 1 .. Len(p) /\ s[i] = p[i]
      BY <1>1, <1>2, <2>1
    <3>2. \A j \in 1 .. i - 1 : s[j] = p[j]
      BY <1>1, <1>2, <3>1
    <3>3. /\ p[i] \in AllThings(doc)
          /\ \A x \in Needs(doc, p[i][1]) : \E j \in 1 .. i - 1 : p[j] = x
      BY <1>1, <3>1 DEF InTurn
    <3>4. ASSUME NEW x \in Needs(doc, s[i][1]) PROVE \E j \in 1 .. i - 1 : s[j] = x
      <4>1. x \in Needs(doc, p[i][1])
        BY <3>1
      <4>2. PICK j \in 1 .. i - 1 : p[j] = x
        BY <3>3, <4>1
      <4>3. s[j] = x
        BY <3>2, <4>2
      <4> QED BY <4>3
    <3>5. s[i] \in AllThings(doc)
      BY <3>1, <3>3
    <3> QED BY <3>4, <3>5
  <2>2. CASE ~(i <= Len(p))
    <3>1. i - Len(p) \in 1 .. Len(q) /\ Len(p) + (i - Len(p)) = i
      BY <1>1, <2>2
    <3>2. s[i] = q[i - Len(p)]
      BY <1>2, <3>1
    <3>3. s[i] \in ToSet(q)
      BY <1>1, <3>1, <3>2 DEF ToSet
    <3>4. ASSUME NEW x \in ToSet(p) PROVE \E j \in 1 .. i - 1 : s[j] = x
      <4>1. PICK j \in 1 .. Len(p) : x = p[j]
        BY <1>1 DEF ToSet
      <4>2. j \in 1 .. i - 1 /\ s[j] = x
        BY <1>1, <1>2, <2>2, <4>1
      <4> QED BY <4>2
    <3> QED BY <3>3, <3>4
  <2> QED BY <2>1, <2>2
<1> QED BY <1>3, <1>4 DEF InTurn, s

\* Things of one kind, in any order.
LEMMA EachIs ==
  ASSUME NEW type, NEW names, Array(names), NEW table, ToSet(names) = DOMAIN table
  PROVE  LET s == [i \in DOMAIN names |-> <<type, names[i]>>]
         IN  Array(s) /\ ToSet(s) = Of(type, table)
<1> DEFINE s == [i \in DOMAIN names |-> <<type, names[i]>>]
<1>1. Len(names) \in Nat /\ DOMAIN names = 1 .. Len(names)
  BY ArrayFacts
<1>2. DOMAIN s = 1 .. Len(names) /\ s = [i \in 1 .. Len(names) |-> s[i]]
      /\ \A i \in DOMAIN names : s[i] = <<type, names[i]>>
  BY <1>1
<1> HIDE DEF s
<1>3. Array(s)
  BY <1>1, <1>2, ArrayIs
<1>4. ToSet(s) = {<<type, n>> : n \in ToSet(names)}
  <2>1. ASSUME NEW x \in ToSet(s) PROVE \E n \in ToSet(names) : x = <<type, n>>
    <3>1. PICK i \in DOMAIN names : x = s[i]
      BY <1>1, <1>2 DEF ToSet
    <3>2. names[i] \in ToSet(names) /\ x = <<type, names[i]>>
      BY <1>2, <3>1 DEF ToSet
    <3> QED BY <3>2
  <2>2. ASSUME NEW n \in ToSet(names) PROVE <<type, n>> \in ToSet(s)
    <3>1. PICK i \in DOMAIN names : n = names[i]
      BY DEF ToSet
    <3>2. s[i] = <<type, n>> /\ s[i] \in ToSet(s)
      BY <1>1, <1>2, <3>1 DEF ToSet
    <3> QED BY <3>2
  <2> QED BY <2>1, <2>2
<1> QED BY <1>3, <1>4 DEF s, Of

\* Limiters, rules, lists, phases: rules need limiters, lists rules, phases
\* lists.
LEMMA ThingsAre ==
  ASSUME NEW doc, NEW order, \A a \in Attributes : Array(order[a]) /\ ToSet(order[a]) = DOMAIN doc[a]
  PROVE  Array(Things(order)) /\ InTurn(doc, Things(order)) /\ ToSet(Things(order)) = AllThings(doc)
<1> DEFINE Each(type, names) == [i \in DOMAIN names |-> <<type, names[i]>>]
           a == Each("limiter", order.limiters)
           b == Each("rule", order.rules)
           c == Each("list", order.lists)
           d == Each("phase", order.phases)
<1>1. Array(a) /\ ToSet(a) = Of("limiter", doc.limiters)
  BY EachIs DEF Attributes
<1>2. Array(b) /\ ToSet(b) = Of("rule", doc.rules)
  BY EachIs DEF Attributes
<1>3. Array(c) /\ ToSet(c) = Of("list", doc.lists)
  BY EachIs DEF Attributes
<1>4. Array(d) /\ ToSet(d) = Of("phase", doc.phases)
  BY EachIs DEF Attributes
<1>5. Things(order) = ((a \o b) \o c) \o d
  BY DEF Things
<1> HIDE DEF a, b, c, d
<1>6. \A type, table : \A x \in Of(type, table) : x[1] = type
  BY DEF Of
<1>7. /\ Needs(doc, "limiter") = {}
      /\ Needs(doc, "rule") = Of("limiter", doc.limiters)
      /\ Needs(doc, "list") = Of("limiter", doc.limiters) \cup Of("rule", doc.rules)
      /\ Needs(doc, "phase") = Of("limiter", doc.limiters) \cup Of("rule", doc.rules) \cup Of("list", doc.lists)
  BY DEF Needs
<1>8. InTurn(doc, a)
  <2>1. \A i \in DOMAIN a : a[i] \in ToSet(a)
    BY DEF ToSet
  <2>2. \A i \in DOMAIN a : a[i] \in AllThings(doc) /\ a[i][1] = "limiter"
    BY <1>1, <1>6, <2>1 DEF AllThings
  <2> QED BY <1>7, <2>2 DEF InTurn
<1>9. Array(a \o b) /\ ToSet(a \o b) = ToSet(a) \cup ToSet(b) /\ InTurn(doc, a \o b)
  <2>1. \A x \in ToSet(b) : x \in AllThings(doc) /\ Needs(doc, x[1]) \subseteq ToSet(a)
    BY <1>1, <1>2, <1>6, <1>7 DEF AllThings
  <2> QED BY <1>1, <1>2, <1>8, <2>1, InTurnMore, Joined
<1> DEFINE ab == a \o b
<1> HIDE DEF ab
<1>10. Array(ab \o c) /\ ToSet(ab \o c) = ToSet(ab) \cup ToSet(c) /\ InTurn(doc, ab \o c)
  <2>1. Array(ab) /\ InTurn(doc, ab) /\ ToSet(ab) = ToSet(a) \cup ToSet(b)
    BY <1>9 DEF ab
  <2>2. \A x \in ToSet(c) : x \in AllThings(doc) /\ Needs(doc, x[1]) \subseteq ToSet(ab)
    BY <1>1, <1>2, <1>3, <1>6, <1>7, <2>1 DEF AllThings
  <2> QED BY <1>3, <2>1, <2>2, InTurnMore, Joined
<1> DEFINE abc == ab \o c
<1> HIDE DEF abc
<1>11. Array(abc \o d) /\ ToSet(abc \o d) = ToSet(abc) \cup ToSet(d) /\ InTurn(doc, abc \o d)
  <2>1. Array(abc) /\ InTurn(doc, abc) /\ ToSet(abc) = ToSet(a) \cup ToSet(b) \cup ToSet(c)
    BY <1>9, <1>10 DEF abc, ab
  <2>2. \A x \in ToSet(d) : x \in AllThings(doc) /\ Needs(doc, x[1]) \subseteq ToSet(abc)
    BY <1>1, <1>2, <1>3, <1>4, <1>6, <1>7, <2>1 DEF AllThings
  <2> QED BY <1>4, <2>1, <2>2, InTurnMore, Joined
<1>12. Things(order) = abc \o d
  BY <1>5 DEF abc, ab
<1>13. ToSet(abc \o d) = AllThings(doc)
  BY <1>1, <1>2, <1>3, <1>4, <1>9, <1>10, <1>11 DEF abc, ab, AllThings
<1> QED BY <1>11, <1>12, <1>13

\* What is known once its turn is over.
Had(st, x) ==
  st.ok => (x[1] = "rule" => x[2] \in st.rules) /\ (x[1] = "list" => x[2] \in st.lists)

RulesHad(doc, st) == \A r \in DOMAIN doc.rules : Had(st, <<"rule", r>>)
ListsHad(doc, st) == \A l \in DOMAIN doc.lists : Had(st, <<"list", l>>)

\* Lists have their turn after all rules, so what they name is there.
LEMMA DocEntriesFit ==
  ASSUME NEW doc, NEW st, RulesHad(doc, st), NEW entries, EntriesOK(doc, entries), EntriesRead(entries)
  PROVE  Array(entries) /\ EntriesFit(st, entries)
<1>1. ASSUME NEW i \in DOMAIN entries, "rule" \in DOMAIN entries[i] PROVE RuleRead(entries[i].rule)
  BY <1>1 DEF EntriesRead, RuleRead
<1>2. ASSUME NEW i \in DOMAIN entries, "rule" \notin DOMAIN entries[i], st.ok PROVE entries[i].name \in st.rules
  <2>1. entries[i].name \in DOMAIN doc.rules
    BY <1>2 DEF EntriesOK
  <2> QED BY <1>2, <2>1 DEF RulesHad, Had
<1> QED BY <1>1, <1>2 DEF EntriesFit, EntriesRead, ToSet

\* Phases have their turn after all lists.
LEMMA DocPhaseFits ==
  ASSUME NEW doc, NEW st, RulesHad(doc, st), ListsHad(doc, st), Accepts(doc), IsRead(doc), NEW n \in DOMAIN doc.phases
  PROVE  Array(doc.phases[n]) /\ PhaseFits(st, doc.phases[n])
<1> DEFINE entries == doc.phases[n]
<1>1. Array(entries) /\ PhaseOK(doc, entries)
      /\ \A i \in DOMAIN entries : "list" \in DOMAIN entries[i] => EntriesRead(entries[i].list)
  BY DEF Accepts, IsRead
<1> HIDE DEF entries
<1>2. ASSUME NEW i \in DOMAIN entries, "list" \in DOMAIN entries[i]
      PROVE  Array(entries[i].list) /\ EntriesFit(st, entries[i].list)
  BY <1>1, <1>2, DocEntriesFit DEF PhaseOK
<1>3. ASSUME NEW i \in DOMAIN entries, "list" \notin DOMAIN entries[i], st.ok PROVE ListName(entries[i]) \in st.lists
  <2>1. ListName(entries[i]) \in DOMAIN doc.lists
    BY <1>1, <1>3 DEF PhaseOK
  <2> QED BY <1>3, <2>1 DEF ListsHad, Had
<1> QED BY <1>1, <1>2, <1>3 DEF PhaseFits, ToSet, entries

\* What is known stays known.
LEMMA HadLater ==
  ASSUME NEW st, NEW z, After(st, z), NEW x, Had(st, x)
  PROVE  Had(z, x)
BY DEF Had, After

\* A thing of the document in its turn.
LEMMA AddThingIs ==
  ASSUME NEW doc, Accepts(doc), IsRead(doc), NEW tables, NEW st, Fine(st),
         NEW x \in AllThings(doc), \A y \in Needs(doc, x[1]) : Had(st, y)
  PROVE  LET z == AddThing(doc, tables, st, x[1], x[2])
         IN  Fine(z) /\ After(st, z) /\ Had(z, x)
<1> DEFINE z == AddThing(doc, tables, st, x[1], x[2])
<1>0. \A a \in Attributes : IsFiniteSet(DOMAIN doc[a]) /\ None \notin DOMAIN doc[a]
  BY DEF IsRead
<1>1. ASSUME NEW n \in DOMAIN doc.limiters, x = <<"limiter", n>>
      PROVE  Fine(z) /\ After(st, z) /\ Had(z, x)
  <2>1. z = AddLimiter(doc, st, n)
    BY <1>1 DEF AddThing
  <2> HIDE DEF z
  <2>2. IsFiniteSet(DOMAIN doc.limiters)
    BY <1>0 DEF Attributes
  <2>3. Fine(z) /\ After(st, z)
    BY <2>1, <2>2, AddLimiterIs
  <2>4. x[1] = "limiter"
    BY <1>1
  <2> QED BY <2>3, <2>4 DEF Had
<1>2. ASSUME NEW n \in DOMAIN doc.rules, x = <<"rule", n>>
      PROVE  Fine(z) /\ After(st, z) /\ Had(z, x)
  <2>1. z = AddRule(st, n, doc.rules[n], {})
    BY <1>2 DEF AddThing
  <2> HIDE DEF z
  <2>2. x[1] = "rule" /\ x[2] = n
    BY <1>2
  <2>4. RuleRead(doc.rules[n])
    BY DEF IsRead, RuleRead
  <2>6. n # None
    BY <1>0 DEF Attributes
  <2>7. Fine(z) /\ After(st, z) /\ (z.ok => n \in z.rules)
    BY <2>1, <2>4, <2>6, AddRuleIs
  <2> QED BY <2>2, <2>7 DEF Had
<1>3. ASSUME NEW n \in DOMAIN doc.lists, x = <<"list", n>>
      PROVE  Fine(z) /\ After(st, z) /\ Had(z, x)
  <2>1. z = AddList(st, n, doc.lists[n], tables)
    BY <1>3 DEF AddThing
  <2> HIDE DEF z
  <2>2. x[1] = "list" /\ x[2] = n
    BY <1>3
  <2>3. RulesHad(doc, st)
    BY <2>2 DEF RulesHad, Needs, Of
  <2>4. EntriesOK(doc, doc.lists[n]) /\ EntriesRead(doc.lists[n])
    BY DEF Accepts, IsRead
  <2>5. Array(doc.lists[n]) /\ EntriesFit(st, doc.lists[n])
    BY <2>3, <2>4, DocEntriesFit
  <2>6. n # None
    BY <1>0 DEF Attributes
  <2>7. Fine(z) /\ After(st, z) /\ (z.ok => n \in z.lists)
    BY <2>1, <2>5, <2>6, AddListIs
  <2> QED BY <2>2, <2>7 DEF Had
<1>4. ASSUME NEW n \in DOMAIN doc.phases, x = <<"phase", n>>
      PROVE  Fine(z) /\ After(st, z) /\ Had(z, x)
  <2>1. z = AddPhase(st, n, doc.phases[n], tables)
    BY <1>4 DEF AddThing
  <2> HIDE DEF z
  <2>2. x[1] = "phase"
    BY <1>4
  <2>3. RulesHad(doc, st) /\ ListsHad(doc, st)
    BY <2>2 DEF RulesHad, ListsHad, Needs, Of
  <2>5. Array(doc.phases[n]) /\ PhaseFits(st, doc.phases[n])
    BY <2>3, DocPhaseFits
  <2>7. Fine(z) /\ After(st, z)
    BY <2>1, <2>5, AddPhaseIs
  <2> QED BY <2>2, <2>7 DEF Had
<1> QED BY <1>1, <1>2, <1>3, <1>4 DEF AllThings, Of

\* The run before the first thing.
LEMMA StartIs ==
  ASSUME NEW counts
  PROVE  Fine(Start(counts)) /\ Start(counts).calls = <<>> /\ Start(counts).ok /\ Start(counts).rules = {}
<1> DEFINE z == Start(counts)
<1>1. State(z) /\ z.calls = <<>> /\ z.ok /\ z.rules = {}
  BY DEF Start, State
<1> HIDE DEF z
<1>2. Array(<<>>) /\ ToSet(<<>>) = {}
  <2>1. <<>> \in Seq({}) /\ DOMAIN <<>> = {}
    OBVIOUS
  <2> QED BY <2>1, ArrayOf DEF ToSet
<1>3. Fine(z)
  BY <1>1, <1>2 DEF Fine, Base
<1> QED BY <1>1, <1>3 DEF z

\* All that Ruleset.new calls for can be stored.
LEMMA NewIs ==
  ASSUME NEW doc, Accepts(doc), IsRead(doc), NEW order, \A a \in Attributes : order[a] \in SetToSeqs(DOMAIN doc[a]),
         NEW counts, NEW tables
  PROVE  Fine(New(doc, order, counts, tables))
<1> DEFINE s == Things(order)
           base == Start(counts)
           y == AddThings(doc, tables, base, s)
           z == New(doc, order, counts, tables)
<1>1. Array(s) /\ InTurn(doc, s)
  <2>1. \A a \in Attributes : Array(order[a]) /\ ToSet(order[a]) = DOMAIN doc[a]
    BY AnyOrder DEF IsRead
  <2> QED BY <2>1, ThingsAre
<1> HIDE DEF s
<1>2. Len(s) \in Nat /\ DOMAIN s = 1 .. Len(s)
  BY <1>1, ArrayFacts
<1>3. Fine(base)
  BY StartIs
<1> HIDE DEF base
<1>4. PICK f : /\ f[0] = base
               /\ \A i \in 1 .. Len(s) : f[i] = AddThing(doc, tables, f[i - 1], s[i][1], s[i][2])
               /\ y = f[Len(s)]
  BY <1>2, FoldThings
<1> DEFINE J == {i \in 0 .. Len(s) : Fine(f[i]) /\ \A j \in 1 .. i : Had(f[i], s[j])}
<1>5. 0 \in J
  <2>1. 1 .. 0 = {} /\ 0 \in 0 .. Len(s)
    BY <1>2
  <2> QED BY <1>3, <1>4, <2>1
<1>6. ASSUME NEW i \in 1 .. Len(s), i - 1 \in J PROVE i \in J
  <2>1. Fine(f[i - 1]) /\ (\A j \in 1 .. i - 1 : Had(f[i - 1], s[j])) /\ i \in 0 .. Len(s)
    BY <1>2, <1>6
  <2>2. s[i] \in AllThings(doc) /\ \A x \in Needs(doc, s[i][1]) : Had(f[i - 1], x)
    BY <1>1, <1>2, <2>1 DEF InTurn
  <2>3. /\ Fine(f[i]) /\ Had(f[i], s[i])
        /\ \A x : Had(f[i - 1], x) => Had(f[i], x)
    <3>1. PICK x, a : x = s[i] /\ a = f[i - 1]
      OBVIOUS
    <3> DEFINE b == AddThing(doc, tables, a, x[1], x[2])
    <3>2. Fine(a) /\ x \in AllThings(doc) /\ \A w \in Needs(doc, x[1]) : Had(a, w)
      BY <2>1, <2>2, <3>1
    <3>3. Fine(b) /\ After(a, b) /\ Had(b, x)
      BY <3>2, AddThingIs
    <3>4. b = f[i]
      BY <1>4, <3>1
    <3> HIDE DEF b
    <3>5. \A w : Had(a, w) => Had(b, w)
      BY <3>3, HadLater
    <3> QED BY <3>1, <3>3, <3>4, <3>5
  <2>4. \A j \in 1 .. i : j = i \/ j \in 1 .. i - 1
    BY <1>2
  <2> QED BY <2>1, <2>3, <2>4
<1>7. Len(s) \in J
  <2> HIDE DEF J
  <2>1. 0 .. Len(s) \subseteq J
    BY <1>2, <1>5, <1>6, UpTo
  <2> QED BY <1>2, <2>1
<1>8. Fine(y)
  BY <1>4, <1>7
<1> HIDE DEF y, J
<1>9. z = Call(y, Id("ruleset", ""), {}, None)
  BY DEF New, Id, y, base, s
<1> HIDE DEF z
<1>10. Fine(z)
  BY <1>8, <1>9, ThingCalled
<1> QED BY <1>10 DEF z

-----------------------------------------------------------------------------
(* Redis' commands, key by key.                                            *)

\* Keys of the ruleset, of its sets, of its things and of their references
\* differ by their lengths.
LEMMA KeysDiffer ==
  ASSUME NEW a, NEW b, NEW c, NEW x, NEW y, NEW z, NEW w
  PROVE  /\ <<a>> # <<x, y>> /\ <<a>> # <<x, y, z>> /\ <<a>> # <<x, y, z, w>>
         /\ <<a, b>> # <<x, y, z>> /\ <<a, b>> # <<x, y, z, w>> /\ <<a, b, c>> # <<x, y, z, w>>
         /\ DOMAIN <<>> = {}
OBVIOUS

\* A score is an entry of a hash, 0 where there is none.
LEMMA ScoreIs ==
  ASSUME NEW d, NEW key, NEW m
  PROVE  Score(d, key, m) = IF m \in DOMAIN Hash(d, key) THEN Hash(d, key)[m] ELSE 0
<1>1. m \in DOMAIN Hash(d, key) => key \in DOMAIN d
  BY KeysDiffer DEF Hash, Exists
<1>2. key \in DOMAIN d => Hash(d, key) = d[key]
  BY DEF Hash, Exists
<1> QED BY <1>1, <1>2 DEF Score

\* One key is written, every other stays.
LEMMA WithIs ==
  ASSUME NEW d, NEW key, NEW value, NEW e, e = With(d, key, value)
  PROVE  /\ \A x : x \in DOMAIN e <=> x \in DOMAIN d \/ x = key
         /\ \A k \in DOMAIN d : k # key => e[k] = d[k]
         /\ Hash(e, key) = value
         /\ Members(e, key) = value
<1>1. /\ \A x : x \in DOMAIN e <=> x \in DOMAIN d \/ x = key
      /\ e[key] = value
      /\ \A k \in DOMAIN d : k # key => e[k] = d[k]
  BY DEF With, Over
<1>2. key \in DOMAIN e /\ e[key] = value
  BY <1>1
<1>3. Hash(e, key) = value
  BY <1>2 DEF Hash, Exists
<1>4. Members(e, key) = value
  BY <1>2 DEF Members, Exists
<1>5. /\ \A x : x \in DOMAIN e <=> x \in DOMAIN d \/ x = key
      /\ \A k \in DOMAIN d : k # key => e[k] = d[k]
  BY <1>1
<1> QED BY <1>3, <1>4, <1>5

\* What is the same under a key.
Same(d, e, k) == Hash(e, k) = Hash(d, k) /\ Members(e, k) = Members(d, k) /\ \A m : Score(e, k, m) = Score(d, k, m)

\* What is stored the same reads the same.
LEMMA SameIs ==
  ASSUME NEW d, NEW e, NEW k, k \in DOMAIN e <=> k \in DOMAIN d, k \in DOMAIN d => e[k] = d[k]
  PROVE  Same(d, e, k)
<1>1. Hash(e, k) = Hash(d, k) /\ Members(e, k) = Members(d, k)
  BY DEF Hash, Members, Exists
<1> QED BY <1>1, ScoreIs DEF Same

\* A write under one key is not seen under another.
LEMMA WithSame ==
  ASSUME NEW d, NEW key, NEW value, NEW e, e = With(d, key, value), NEW k, k # key
  PROVE  Same(d, e, k)
<1>1. (\A x : x \in DOMAIN e <=> x \in DOMAIN d \/ x = key) /\ \A x \in DOMAIN d : x # key => e[x] = d[x]
  BY WithIs
<1> QED BY <1>1, SameIs

\* HSET: the fields that are given, and the others as they were.
LEMMA HsetIs ==
  ASSUME NEW d, NEW key, NEW fields, NEW e, e = Hset(d, key, fields)
  PROVE  /\ \A x : x \in DOMAIN e <=> x \in DOMAIN d \/ x = key
         /\ \A x : x \in DOMAIN Hash(e, key) <=> x \in DOMAIN Hash(d, key) \/ x \in DOMAIN fields
         /\ \A f \in DOMAIN fields : Hash(e, key)[f] = fields[f]
         /\ \A f \in DOMAIN Hash(d, key) \ DOMAIN fields : Hash(e, key)[f] = Hash(d, key)[f]
         /\ \A k : k # key => Same(d, e, k)
         /\ \A k \in DOMAIN d : k # key => e[k] = d[k]
<1> DEFINE v == Over(Hash(d, key), fields)
<1>1. e = With(d, key, v)
  BY DEF Hset
<1>2. /\ \A x : x \in DOMAIN v <=> x \in DOMAIN Hash(d, key) \/ x \in DOMAIN fields
      /\ \A f \in DOMAIN fields : v[f] = fields[f]
      /\ \A f \in DOMAIN Hash(d, key) \ DOMAIN fields : v[f] = Hash(d, key)[f]
  BY DEF Over
<1> HIDE DEF v
<1>3. /\ \A x : x \in DOMAIN e <=> x \in DOMAIN d \/ x = key
      /\ Hash(e, key) = v
      /\ \A k \in DOMAIN d : k # key => e[k] = d[k]
  BY <1>1, WithIs
<1>4. \A k : k # key => Same(d, e, k)
  BY <1>1, WithSame
<1> QED BY <1>2, <1>3, <1>4

\* SADD: one member more.
LEMMA SaddIs ==
  ASSUME NEW d, NEW key, NEW member, NEW e, e = Sadd(d, key, member)
  PROVE  /\ \A x : x \in DOMAIN e <=> x \in DOMAIN d \/ x = key
         /\ \A x : x \in Members(e, key) <=> x \in Members(d, key) \/ x = member
         /\ \A k : k # key => Same(d, e, k)
         /\ \A k \in DOMAIN d : k # key => e[k] = d[k]
<1> DEFINE v == Members(d, key) \cup {member}
<1>1. e = With(d, key, v)
  BY DEF Sadd
<1> HIDE DEF v
<1>2. /\ \A x : x \in DOMAIN e <=> x \in DOMAIN d \/ x = key
      /\ Members(e, key) = v
      /\ \A k \in DOMAIN d : k # key => e[k] = d[k]
  BY <1>1, WithIs
<1>3. \A k : k # key => Same(d, e, k)
  BY <1>1, WithSame
<1> QED BY <1>2, <1>3 DEF v

\* ZINCRBY, in every sorted set at once: one member's score, no other.
LEMMA ZincrIs ==
  ASSUME NEW d, NEW times, NEW who, NEW e, e = Zincr(d, times, who)
  PROVE  /\ \A x : x \in DOMAIN e <=> x \in DOMAIN d \/ x \in DOMAIN times
         /\ \A k : k \notin DOMAIN times => Same(d, e, k)
         /\ \A k \in DOMAIN times : /\ Score(e, k, who) = Score(d, k, who) + times[k]
                                    /\ \A m : m # who => Score(e, k, m) = Score(d, k, m)
         /\ \A k \in DOMAIN d : k \notin DOMAIN times => e[k] = d[k]
<1> DEFINE v(k) == With(Hash(d, k), who, Score(d, k, who) + times[k])
<1>1. /\ \A x : x \in DOMAIN e <=> x \in DOMAIN d \/ x \in DOMAIN times
      /\ \A k \in DOMAIN times : e[k] = v(k)
      /\ \A k \in DOMAIN d : k \notin DOMAIN times => e[k] = d[k]
  BY DEF Zincr, Over
<1>2. \A k : k \notin DOMAIN times => Same(d, e, k)
  BY <1>1, SameIs
<1>3. ASSUME NEW k \in DOMAIN times
      PROVE  /\ Score(e, k, who) = Score(d, k, who) + times[k]
             /\ \A m : m # who => Score(e, k, m) = Score(d, k, m)
  <2> DEFINE n == Score(d, k, who) + times[k]
  <2>1. PICK h : h = With(Hash(d, k), who, n)
    OBVIOUS
  <2>2. Hash(e, k) = h
    BY <1>1, <2>1 DEF Hash, Exists
  <2> HIDE DEF n
  <2>3. /\ \A x : x \in DOMAIN h <=> x \in DOMAIN Hash(d, k) \/ x = who
        /\ h[who] = n
        /\ \A m \in DOMAIN Hash(d, k) : m # who => h[m] = Hash(d, k)[m]
    BY <2>1 DEF With, Over
  <2>4. Score(e, k, who) = n
    BY <2>2, <2>3, ScoreIs
  <2>5. ASSUME NEW m, m # who PROVE Score(e, k, m) = Score(d, k, m)
    <3>1. m \in DOMAIN h <=> m \in DOMAIN Hash(d, k)
      BY <2>3, <2>5
    <3>2. m \in DOMAIN Hash(d, k) => h[m] = Hash(d, k)[m]
      BY <2>3, <2>5
    <3> QED BY <2>2, <3>1, <3>2, ScoreIs
  <2> QED BY <2>4, <2>5 DEF n
<1> QED BY <1>1, <1>2, <1>3

\* ZREMRANGEBYSCORE -inf 0: what is gone had no score above 0.
LEMMA ZremDownIs ==
  ASSUME NEW d, NEW keys, NEW e, e = ZremDown(d, keys)
  PROVE  /\ \A k : k \notin keys => Same(d, e, k)
         /\ \A k \in keys : \A m : Score(e, k, m) = IF Score(d, k, m) > 0 THEN Score(d, k, m) ELSE 0
<1> DEFINE left == {k \in DOMAIN d : k \in keys => Left(d, k) # {}}
<1>1. /\ DOMAIN e = left
      /\ \A k \in left : e[k] = IF k \in keys THEN [m \in Left(d, k) |-> d[k][m]] ELSE d[k]
  BY DEF ZremDown
<1>2. \A k : k \notin keys => Same(d, e, k)
  BY <1>1, SameIs
<1>3. ASSUME NEW k \in keys, NEW m
      PROVE  Score(e, k, m) = IF Score(d, k, m) > 0 THEN Score(d, k, m) ELSE 0
  <2>1. m \in Left(d, k) <=> m \in DOMAIN Hash(d, k) /\ Score(d, k, m) > 0
    BY DEF Left, Score
  <2>2. DOMAIN Hash(e, k) = Left(d, k) /\ \A x \in Left(d, k) : Hash(e, k)[x] = d[k][x]
    <3>1. Left(d, k) # {} => k \in DOMAIN d
      BY KeysDiffer DEF Left, Hash, Exists
    <3>2. CASE Left(d, k) = {}
      <4>1. k \notin DOMAIN e
        BY <1>1, <3>2
      <4> QED BY <3>2, <4>1, KeysDiffer DEF Hash, Exists
    <3>3. CASE Left(d, k) # {}
      <4>1. k \in DOMAIN e /\ e[k] = [x \in Left(d, k) |-> d[k][x]]
        BY <1>1, <3>1, <3>3
      <4> QED BY <4>1 DEF Hash, Exists
    <3> QED BY <3>2, <3>3
  <2>3. CASE m \in Left(d, k)
    <3>1. Score(e, k, m) = d[k][m] /\ Score(d, k, m) = d[k][m]
      BY <2>1, <2>2, <2>3, ScoreIs DEF Score
    <3> QED BY <2>1, <2>3, <3>1
  <2>4. CASE m \notin Left(d, k)
    <3>1. Score(e, k, m) = 0
      BY <2>2, <2>4, ScoreIs
    <3>2. ~(Score(d, k, m) > 0)
      BY <2>1, <2>4 DEF Score
    <3> QED BY <3>1, <3>2
  <2> QED BY <2>3, <2>4
<1> QED BY <1>2, <1>3

-----------------------------------------------------------------------------
(* Things, references and sets of a ruleset; what is sound.                *)

SetNames == {"limiters", "rules", "lists", "phases"}
HashOf(d, rs, type, n) == Hash(d, <<rs, type, n>>)
ScoreOf(d, rs, rtype, r, type, n) == Score(d, <<rs, rtype, r, "refs">>, Id(type, n))

\* The keys that Redis knows a thing, its references and the sets by.
LEMMA Keys ==
  ASSUME NEW rs, NEW type, NEW n, NEW s
  PROVE  /\ ThingKey(rs, Id(type, n)) = <<rs, type, n>>
         /\ RefsKey(rs, Id(type, n)) = <<rs, type, n, "refs">>
         /\ SetKey(rs, s) = <<rs, s>>
         /\ Id(type, n)[1] = type /\ Id(type, n)[2] = n
BY DEF ThingKey, RefsKey, SetKey, Id

\* Which keys of things, of references and of sets are the same.
SameThings(d, e) == \A rs, type, n : Same(d, e, <<rs, type, n>>)
SameThingsBut(d, e, key) == \A rs, type, n : <<rs, type, n>> # key => Same(d, e, <<rs, type, n>>)
SameRefs(d, e) == \A rs, type, n : Same(d, e, <<rs, type, n, "refs">>)
SameSets(d, e) == \A rs : \A s \in SetNames : Same(d, e, <<rs, s>>)

\* What stays the same twice stays the same.
LEMMA SameTwice ==
  ASSUME NEW a, NEW b, NEW c, NEW k, Same(a, b, k), Same(b, c, k)
  PROVE  Same(a, c, k)
BY DEF Same

\* Everything is the same as itself.
LEMMA SameSelf ==
  ASSUME NEW a, NEW k
  PROVE  Same(a, a, k)
BY DEF Same

\* HSET of a thing changes no other thing, no references, no set.
LEMMA HsetThing ==
  ASSUME NEW d, NEW rs, NEW type, NEW n, NEW fields, NEW e, e = Hset(d, <<rs, type, n>>, fields)
  PROVE  SameThingsBut(d, e, <<rs, type, n>>) /\ SameRefs(d, e) /\ SameSets(d, e)
<1>1. \A k : k # <<rs, type, n>> => Same(d, e, k)
  BY HsetIs
<1>2. SameThingsBut(d, e, <<rs, type, n>>)
  BY <1>1 DEF SameThingsBut
<1>3. SameRefs(d, e)
  BY <1>1, KeysDiffer DEF SameRefs
<1>4. SameSets(d, e)
  BY <1>1, KeysDiffer DEF SameSets
<1> QED BY <1>2, <1>3, <1>4

\* SADD to a set changes no thing and no references.
LEMMA SaddSet ==
  ASSUME NEW d, NEW rs, NEW s, NEW member, NEW e, e = Sadd(d, <<rs, s>>, member)
  PROVE  SameThings(d, e) /\ SameRefs(d, e)
<1>1. \A k : k # <<rs, s>> => Same(d, e, k)
  BY SaddIs
<1>2. SameThings(d, e)
  BY <1>1, KeysDiffer DEF SameThings
<1>3. SameRefs(d, e)
  BY <1>1, KeysDiffer DEF SameRefs
<1> QED BY <1>2, <1>3

\* ZINCRBY of references changes no thing and no set.
LEMMA ZincrRefs ==
  ASSUME NEW d, NEW rs, NEW refs, NEW times, DOMAIN times = RefsKeys(rs, refs), NEW who,
         NEW e, e = Zincr(d, times, who)
  PROVE  SameThings(d, e) /\ SameSets(d, e)
<1>1. \A k : k \notin RefsKeys(rs, refs) => Same(d, e, k)
  BY ZincrIs
<1>2. \A k \in RefsKeys(rs, refs) : \E x, y : k = <<rs, x, y, "refs">>
  BY DEF RefsKeys, RefsKey
<1>3. ASSUME NEW k, NEW a, NEW b, NEW c, k = <<a, b>> \/ k = <<a, b, c>> PROVE k \notin RefsKeys(rs, refs)
  BY <1>2, <1>3, KeysDiffer
<1>4. SameThings(d, e)
  BY <1>1, <1>3 DEF SameThings
<1>5. SameSets(d, e)
  BY <1>1, <1>3 DEF SameSets
<1> QED BY <1>4, <1>5

\* Nor does the removal of references that are down to 0.
LEMMA ZremRefs ==
  ASSUME NEW d, NEW rs, NEW refs, NEW e, e = ZremDown(d, RefsKeys(rs, refs))
  PROVE  SameThings(d, e) /\ SameSets(d, e)
<1>1. \A k : k \notin RefsKeys(rs, refs) => Same(d, e, k)
  BY ZremDownIs
<1>2. \A k \in RefsKeys(rs, refs) : \E x, y : k = <<rs, x, y, "refs">>
  BY DEF RefsKeys, RefsKey
<1>3. ASSUME NEW k, NEW a, NEW b, NEW c, k = <<a, b>> \/ k = <<a, b, c>> PROVE k \notin RefsKeys(rs, refs)
  BY <1>2, <1>3, KeysDiffer
<1>4. SameThings(d, e)
  BY <1>1, <1>3 DEF SameThings
<1>5. SameSets(d, e)
  BY <1>1, <1>3 DEF SameSets
<1> QED BY <1>4, <1>5

\* The counters of generated names, and what is known of the ruleset itself.
LEMMA HsetCount ==
  ASSUME NEW d, NEW rs, NEW fields, NEW key, key = <<rs>> \/ key = <<"rulesets", "n">>, NEW e, e = Hset(d, key, fields)
  PROVE  SameThings(d, e) /\ SameRefs(d, e) /\ SameSets(d, e)
<1>1. \A k : k # key => Same(d, e, k)
  BY HsetIs
<1>2. SameThings(d, e)
  BY <1>1, KeysDiffer DEF SameThings
<1>3. SameRefs(d, e)
  BY <1>1, KeysDiffer DEF SameRefs
<1>4. ASSUME NEW r, NEW s \in SetNames PROVE <<r, s>> # key
  <2>1. s # "n"
    BY DEF SetNames
  <2>2. <<r, s>> # <<"rulesets", "n">>
    BY <2>1
  <2> QED BY <2>2, KeysDiffer
<1>5. SameSets(d, e)
  BY <1>1, <1>4 DEF SameSets
<1> QED BY <1>2, <1>3, <1>5

-----------------------------------------------------------------------------
\* How often a thing refers to another, by its hash.
Refers(type, h, rtype, r) ==
  CASE type = "limiter" /\ rtype = "limiter" /\ "burst" \in DOMAIN h /\ h["burst"] = r /\ r # None -> 1
    [] type = "rule" /\ rtype = "limiter" /\ "rule" \in DOMAIN h /\ r \in LimitsOf(h["rule"]) -> 1
    [] type = "list" /\ rtype = "rule" /\ "names" \in DOMAIN h -> Times(h["names"], r)
    [] type = "phase" /\ rtype = "list" /\ "names" \in DOMAIN h -> Times(h["names"], r)
    [] OTHER -> 0

Natural(d) == \A rs, rtype, r, m : Score(d, <<rs, rtype, r, "refs">>, m) \in Nat
NamesRead(type, h) == type \in {"list", "phase"} /\ "names" \in DOMAIN h => Array(h["names"])
AllNamed(d) == \A rs, type, n : NamesRead(type, HashOf(d, rs, type, n))
Covers(d, rs, type, n) ==
  \A rtype, r : ScoreOf(d, rs, rtype, r, type, n) >= Refers(type, HashOf(d, rs, type, n), rtype, r)
Covered(d) == \A rs, type, n : Covers(d, rs, type, n)
ListedAs(d, rs, s, type, field) == \A n \in Members(d, <<rs, s>>) : field \in DOMAIN HashOf(d, rs, type, n)
Listed(d) ==
  \A rs : /\ ListedAs(d, rs, "rules", "rule", "rule")
          /\ ListedAs(d, rs, "lists", "list", "names")
          /\ ListedAs(d, rs, "phases", "phase", "names")
Sound(d) == Natural(d) /\ AllNamed(d) /\ Covered(d) /\ Listed(d)

\* A name is in a list so many times.
LEMMA TimesNat ==
  ASSUME NEW names, Array(names), NEW r
  PROVE  Times(names, r) \in Nat
<1>1. DOMAIN names = 1 .. Len(names) /\ Len(names) \in Nat
  BY LenProperties DEF Array
<1>2. IsFiniteSet(1 .. Len(names))
  BY <1>1, FS_Interval
<1>3. IsFiniteSet({i \in DOMAIN names : names[i] = r})
  BY <1>1, <1>2, FS_Subset
<1> QED BY <1>3, FS_CardinalityType DEF Times

\* A thing refers to another so many times.
LEMMA RefersNat ==
  ASSUME NEW type, NEW h, NamesRead(type, h), NEW rtype, NEW r
  PROVE  Refers(type, h, rtype, r) \in Nat
<1>1. type \in {"list", "phase"} /\ "names" \in DOMAIN h => Times(h["names"], r) \in Nat
  BY TimesNat DEF NamesRead
<1> QED BY <1>1 DEF Refers

\* Nothing referred to loses anything, and the things but one are the same.
LEMMA StillSound ==
  ASSUME NEW d, NEW e, Natural(d), AllNamed(d), Covered(d), NEW rs0, NEW type0, NEW n0,
         SameThingsBut(d, e, <<rs0, type0, n0>>), Natural(e),
         \A rs, rtype, r, type, n : <<rs, type, n>> # <<rs0, type0, n0>> =>
            ScoreOf(e, rs, rtype, r, type, n) >= ScoreOf(d, rs, rtype, r, type, n),
         NamesRead(type0, HashOf(e, rs0, type0, n0)), Covers(e, rs0, type0, n0)
  PROVE  AllNamed(e) /\ Covered(e)
<1>1. ASSUME NEW rs, NEW type, NEW n PROVE NamesRead(type, HashOf(e, rs, type, n)) /\ Covers(e, rs, type, n)
  <2>1. CASE <<rs, type, n>> = <<rs0, type0, n0>>
    <3>1. rs = rs0 /\ type = type0 /\ n = n0
      BY <2>1
    <3> QED BY <3>1
  <2>2. CASE <<rs, type, n>> # <<rs0, type0, n0>>
    <3>1. HashOf(e, rs, type, n) = HashOf(d, rs, type, n)
      BY <2>2 DEF HashOf, SameThingsBut, Same
    <3>2. NamesRead(type, HashOf(d, rs, type, n)) /\ Covers(d, rs, type, n)
      BY DEF AllNamed, Covered
    <3>3. ASSUME NEW rtype, NEW r
          PROVE  ScoreOf(e, rs, rtype, r, type, n) >= Refers(type, HashOf(e, rs, type, n), rtype, r)
      <4>1. Refers(type, HashOf(d, rs, type, n), rtype, r) \in Nat
        BY <3>2, RefersNat
      <4>2. ScoreOf(d, rs, rtype, r, type, n) \in Nat /\ ScoreOf(e, rs, rtype, r, type, n) \in Nat
        BY DEF Natural, ScoreOf
      <4>3. ScoreOf(d, rs, rtype, r, type, n) >= Refers(type, HashOf(d, rs, type, n), rtype, r)
        BY <3>2 DEF Covers
      <4>4. ScoreOf(e, rs, rtype, r, type, n) >= ScoreOf(d, rs, rtype, r, type, n)
        BY <2>2
      <4> QED BY <3>1, <4>1, <4>2, <4>3, <4>4
    <3> QED BY <3>1, <3>2, <3>3 DEF Covers
  <2> QED BY <2>1, <2>2
<1> QED BY <1>1 DEF AllNamed, Covered

-----------------------------------------------------------------------------
(* How what is sound stays sound.                                          *)

Gains(d, e, rs0, s0, n0) ==
  \A rs : \A s \in SetNames : \A m \in Members(e, <<rs, s>>) :
     m \in Members(d, <<rs, s>>) \/ (rs = rs0 /\ s = s0 /\ m = n0)
Keeps(d, e, rs, type, n) == \A f \in DOMAIN HashOf(d, rs, type, n) : f \in DOMAIN HashOf(e, rs, type, n)
Fits(e, s, rs, type, n) ==
  /\ s = "rules" => type = "rule" /\ "rule" \in DOMAIN HashOf(e, rs, type, n)
  /\ s = "lists" => type = "list" /\ "names" \in DOMAIN HashOf(e, rs, type, n)
  /\ s = "phases" => type = "phase" /\ "names" \in DOMAIN HashOf(e, rs, type, n)

\* Sets of names that gain at most one thing, whose hash has what it has to
\* have, list what can be read.
LEMMA StillListed ==
  ASSUME NEW d, NEW e, Listed(d), NEW rs0, NEW type0, NEW n0, NEW s0,
         SameThingsBut(d, e, <<rs0, type0, n0>>), Gains(d, e, rs0, s0, n0),
         Keeps(d, e, rs0, type0, n0), Fits(e, s0, rs0, type0, n0)
  PROVE  Listed(e)
<1>1. ASSUME NEW rs, NEW s \in SetNames, NEW type, NEW field, ListedAs(d, rs, s, type, field),
             s = s0 => type = type0 /\ field \in DOMAIN HashOf(e, rs0, type0, n0)
      PROVE  ListedAs(e, rs, s, type, field)
  <2> SUFFICES ASSUME NEW n \in Members(e, <<rs, s>>)
               PROVE  field \in DOMAIN HashOf(e, rs, type, n)
    BY DEF ListedAs
  <2>1. CASE n \in Members(d, <<rs, s>>)
    <3>1. field \in DOMAIN HashOf(d, rs, type, n)
      BY <1>1, <2>1 DEF ListedAs
    <3>2. CASE <<rs, type, n>> = <<rs0, type0, n0>>
      <4>1. rs = rs0 /\ type = type0 /\ n = n0
        BY <3>2
      <4> QED BY <3>1, <4>1 DEF Keeps
    <3>3. CASE <<rs, type, n>> # <<rs0, type0, n0>>
      <4>1. HashOf(e, rs, type, n) = HashOf(d, rs, type, n)
        BY <3>3 DEF HashOf, SameThingsBut, Same
      <4> QED BY <3>1, <4>1
    <3> QED BY <3>2, <3>3
  <2>2. CASE n \notin Members(d, <<rs, s>>)
    <3>1. rs = rs0 /\ s = s0 /\ n = n0
      BY <2>2 DEF Gains
    <3> QED BY <1>1, <3>1
  <2> QED BY <2>1, <2>2
<1>2. ASSUME NEW rs PROVE ListedAs(e, rs, "rules", "rule", "rule")
  <2>1. ListedAs(d, rs, "rules", "rule", "rule") /\ "rules" \in SetNames
    BY DEF Listed, SetNames
  <2> QED BY <1>1, <2>1 DEF Fits
<1>3. ASSUME NEW rs PROVE ListedAs(e, rs, "lists", "list", "names")
  <2>1. ListedAs(d, rs, "lists", "list", "names") /\ "lists" \in SetNames
    BY DEF Listed, SetNames
  <2> QED BY <1>1, <2>1 DEF Fits
<1>4. ASSUME NEW rs PROVE ListedAs(e, rs, "phases", "phase", "names")
  <2>1. ListedAs(d, rs, "phases", "phase", "names") /\ "phases" \in SetNames
    BY DEF Listed, SetNames
  <2> QED BY <1>1, <2>1 DEF Fits
<1> QED BY <1>2, <1>3, <1>4 DEF Listed

\* What only the counters of generated names tell apart is as sound.
LEMMA SameSound ==
  ASSUME NEW d, NEW e, Sound(d), SameThings(d, e), SameRefs(d, e), SameSets(d, e)
  PROVE  Sound(e)
<1>1. \A rs, type, n : HashOf(e, rs, type, n) = HashOf(d, rs, type, n)
  BY DEF HashOf, SameThings, Same
<1>2. \A rs, type, n, m : Score(e, <<rs, type, n, "refs">>, m) = Score(d, <<rs, type, n, "refs">>, m)
  BY DEF SameRefs, Same
<1>3. \A rs : \A s \in SetNames : Members(e, <<rs, s>>) = Members(d, <<rs, s>>)
  BY DEF SameSets, Same
<1>4. Natural(e)
  <2>1. Natural(d)
    BY DEF Sound
  <2>2. ASSUME NEW rs, NEW rtype, NEW r, NEW m PROVE Score(e, <<rs, rtype, r, "refs">>, m) \in Nat
    <3>1. Score(e, <<rs, rtype, r, "refs">>, m) = Score(d, <<rs, rtype, r, "refs">>, m)
      BY <1>2
    <3>2. Score(d, <<rs, rtype, r, "refs">>, m) \in Nat
      BY <2>1 DEF Natural
    <3> QED BY <3>1, <3>2
  <2> QED BY <2>2 DEF Natural
<1>5. AllNamed(e)
  BY <1>1 DEF AllNamed, Sound
<1>6. Covered(e)
  <2>1. \A rs, rtype, r, type, n : ScoreOf(e, rs, rtype, r, type, n) = ScoreOf(d, rs, rtype, r, type, n)
    BY <1>2 DEF ScoreOf
  <2> SUFFICES ASSUME NEW rs, NEW type, NEW n, NEW rtype, NEW r
               PROVE  ScoreOf(e, rs, rtype, r, type, n) >= Refers(type, HashOf(e, rs, type, n), rtype, r)
    BY DEF Covered, Covers
  <2>2. ScoreOf(d, rs, rtype, r, type, n) >= Refers(type, HashOf(d, rs, type, n), rtype, r)
    BY DEF Covered, Covers, Sound
  <2> QED BY <1>1, <2>1, <2>2
<1>7. Listed(e)
  <2>1. \A rs : \A s \in {"rules", "lists", "phases"} : Members(e, <<rs, s>>) = Members(d, <<rs, s>>)
    BY <1>3 DEF SetNames
  <2>2. ASSUME NEW rs, NEW s \in {"rules", "lists", "phases"}, NEW type, NEW field, ListedAs(d, rs, s, type, field)
        PROVE  ListedAs(e, rs, s, type, field)
    BY <1>1, <2>1, <2>2 DEF ListedAs
  <2> QED BY <2>2 DEF Listed, Sound
<1> QED BY <1>4, <1>5, <1>6, <1>7 DEF Sound

\* One thing is written, its references are counted, one set may have gained it.
LEMMA WrittenSound ==
  ASSUME NEW d, NEW e, Sound(d), NEW rs0, NEW type0, NEW n0, NEW s0,
         SameThingsBut(d, e, <<rs0, type0, n0>>), Natural(e),
         \A rs, rtype, r, m : rs # rs0 \/ m # Id(type0, n0) =>
            Score(e, <<rs, rtype, r, "refs">>, m) >= Score(d, <<rs, rtype, r, "refs">>, m),
         NamesRead(type0, HashOf(e, rs0, type0, n0)), Covers(e, rs0, type0, n0),
         Gains(d, e, rs0, s0, n0), Keeps(d, e, rs0, type0, n0), Fits(e, s0, rs0, type0, n0)
  PROVE  Sound(e)
<1>1. \A rs, rtype, r, type, n : <<rs, type, n>> # <<rs0, type0, n0>> =>
            ScoreOf(e, rs, rtype, r, type, n) >= ScoreOf(d, rs, rtype, r, type, n)
  <2> SUFFICES ASSUME NEW rs, NEW rtype, NEW r, NEW type, NEW n, <<rs, type, n>> # <<rs0, type0, n0>>
               PROVE  ScoreOf(e, rs, rtype, r, type, n) >= ScoreOf(d, rs, rtype, r, type, n)
    OBVIOUS
  <2>1. rs # rs0 \/ Id(type, n) # Id(type0, n0)
    <3>1. rs = rs0 => type # type0 \/ n # n0
      OBVIOUS
    <3> QED BY <3>1 DEF Id
  <2> QED BY <2>1 DEF ScoreOf
<1>2. AllNamed(e) /\ Covered(e)
  BY <1>1, StillSound DEF Sound
<1>3. Listed(e)
  BY StillListed DEF Sound
<1> QED BY <1>2, <1>3 DEF Sound

\* A set that gains one member, the rest as before.
LEMMA SaddGains ==
  ASSUME NEW d, NEW rs, NEW s, NEW n, NEW e, e = Sadd(d, <<rs, s>>, n)
  PROVE  Gains(d, e, rs, s, n)
<1>1. \A x : x \in Members(e, <<rs, s>>) <=> x \in Members(d, <<rs, s>>) \/ x = n
  BY SaddIs
<1>2. \A k : k # <<rs, s>> => Members(e, k) = Members(d, k)
  BY SaddIs DEF Same
<1> SUFFICES ASSUME NEW rs1, NEW s1 \in SetNames, NEW m \in Members(e, <<rs1, s1>>)
             PROVE  m \in Members(d, <<rs1, s1>>) \/ (rs1 = rs /\ s1 = s /\ m = n)
  BY DEF Gains
<1>3. CASE <<rs1, s1>> = <<rs, s>>
  BY <1>1, <1>3
<1>4. CASE <<rs1, s1>> # <<rs, s>>
  BY <1>2, <1>4
<1> QED BY <1>3, <1>4

\* A gain of one set, before or after no gain at all.
LEMMA GainsWith ==
  ASSUME NEW d, NEW b, NEW e, NEW rs, NEW s, NEW n
  PROVE  /\ SameSets(d, b) /\ Gains(b, e, rs, s, n) => Gains(d, e, rs, s, n)
         /\ Gains(d, b, rs, s, n) /\ SameSets(b, e) => Gains(d, e, rs, s, n)
<1>1. ASSUME SameSets(d, b), Gains(b, e, rs, s, n) PROVE Gains(d, e, rs, s, n)
  <2>1. \A rs1 : \A s1 \in SetNames : Members(b, <<rs1, s1>>) = Members(d, <<rs1, s1>>)
    BY <1>1 DEF SameSets, Same
  <2> QED BY <1>1, <2>1 DEF Gains
<1>2. ASSUME Gains(d, b, rs, s, n), SameSets(b, e) PROVE Gains(d, e, rs, s, n)
  <2>1. \A rs1 : \A s1 \in SetNames : Members(e, <<rs1, s1>>) = Members(b, <<rs1, s1>>)
    BY <1>2 DEF SameSets, Same
  <2> QED BY <1>2, <2>1 DEF Gains
<1> QED BY <1>1, <1>2

\* What only references have more of.
LEMMA ZincrMore ==
  ASSUME NEW d, Natural(d), NEW rs, NEW refs, NEW times, DOMAIN times = RefsKeys(rs, refs), 
         \A k \in DOMAIN times : times[k] \in Nat, NEW who, NEW e, e = Zincr(d, times, who)
  PROVE  /\ Natural(e)
         /\ \A rs1, rtype, r, m : Score(e, <<rs1, rtype, r, "refs">>, m) >= Score(d, <<rs1, rtype, r, "refs">>, m)
         /\ \A k \in DOMAIN times : Score(e, k, who) = Score(d, k, who) + times[k]
<1>1. /\ \A k : k \notin DOMAIN times => Same(d, e, k)
      /\ \A k \in DOMAIN times : /\ Score(e, k, who) = Score(d, k, who) + times[k]
                                 /\ \A m : m # who => Score(e, k, m) = Score(d, k, m)
  BY ZincrIs
<1>2. ASSUME NEW rs1, NEW rtype, NEW r, NEW m
      PROVE  LET k == <<rs1, rtype, r, "refs">> IN Score(e, k, m) \in Nat /\ Score(e, k, m) >= Score(d, k, m)
  <2> DEFINE k == <<rs1, rtype, r, "refs">>
  <2>1. Score(d, k, m) \in Nat
    BY DEF Natural
  <2> HIDE DEF k
  <2>2. CASE k \notin DOMAIN times
    <3>1. Score(e, k, m) = Score(d, k, m)
      BY <1>1, <2>2 DEF Same
    <3> QED BY <2>1, <3>1 DEF k
  <2>3. CASE k \in DOMAIN times /\ m = who
    <3>1. Score(e, k, m) = Score(d, k, m) + times[k] /\ times[k] \in Nat
      BY <1>1, <2>3
    <3> QED BY <2>1, <3>1 DEF k
  <2>4. CASE k \in DOMAIN times /\ m # who
    <3>1. Score(e, k, m) = Score(d, k, m)
      BY <1>1, <2>4
    <3> QED BY <2>1, <3>1 DEF k
  <2> QED BY <2>2, <2>3, <2>4
<1> QED BY <1>1, <1>2 DEF Natural

-----------------------------------------------------------------------------
(* What one write after another does; limiters.                            *)

\* Scores that are the same are no less natural.
LEMMA SameNatural ==
  ASSUME NEW d, NEW e, Natural(d), SameRefs(d, e)
  PROVE  Natural(e)
<1>1. \A rs, type, n, m : Score(e, <<rs, type, n, "refs">>, m) = Score(d, <<rs, type, n, "refs">>, m)
  BY DEF SameRefs, Same
<1>2. ASSUME NEW rs, NEW rtype, NEW r, NEW m PROVE Score(e, <<rs, rtype, r, "refs">>, m) \in Nat
  <2>1. Score(e, <<rs, rtype, r, "refs">>, m) = Score(d, <<rs, rtype, r, "refs">>, m)
    BY <1>1
  <2>2. Score(d, <<rs, rtype, r, "refs">>, m) \in Nat
    BY DEF Natural
  <2> QED BY <2>1, <2>2
<1> QED BY <1>2 DEF Natural

\* The two ends of a script: done, or an error that leaves what was written.
LEMMA DoneIs ==
  ASSUME NEW d
  PROVE  Done(d).db = d /\ Raise(d).db = d /\ Done(d).ok = TRUE /\ Raise(d).ok = FALSE
BY DEF Done, Raise

\* No reference less.
More(d, e) == \A rs, rtype, r, m : Score(e, <<rs, rtype, r, "refs">>, m) >= Score(d, <<rs, rtype, r, "refs">>, m)

\* References that are the same are no fewer.
LEMMA SameMore ==
  ASSUME NEW d, NEW e, Natural(d), SameRefs(d, e)
  PROVE  More(d, e)
<1> SUFFICES ASSUME NEW rs, NEW rtype, NEW r, NEW m
             PROVE  Score(e, <<rs, rtype, r, "refs">>, m) >= Score(d, <<rs, rtype, r, "refs">>, m)
  BY DEF More
<1>1. Score(e, <<rs, rtype, r, "refs">>, m) = Score(d, <<rs, rtype, r, "refs">>, m)
  BY DEF SameRefs, Same
<1>2. Score(d, <<rs, rtype, r, "refs">>, m) \in Nat
  BY DEF Natural
<1> QED BY <1>1, <1>2

\* The same, then no fewer.
LEMMA MoreThen ==
  ASSUME NEW d, NEW b, NEW e, SameRefs(d, b), More(b, e)
  PROVE  More(d, e)
<1> SUFFICES ASSUME NEW rs, NEW rtype, NEW r, NEW m
             PROVE  Score(e, <<rs, rtype, r, "refs">>, m) >= Score(d, <<rs, rtype, r, "refs">>, m)
  BY DEF More
<1>1. Score(b, <<rs, rtype, r, "refs">>, m) = Score(d, <<rs, rtype, r, "refs">>, m)
  BY DEF SameRefs, Same
<1>2. Score(e, <<rs, rtype, r, "refs">>, m) >= Score(b, <<rs, rtype, r, "refs">>, m)
  BY DEF More
<1> QED BY <1>1, <1>2

\* The same twice, of things, references and sets.
LEMMA SameThen ==
  ASSUME NEW a, NEW b, NEW c, NEW key
  PROVE  /\ SameThingsBut(a, b, key) /\ SameThingsBut(b, c, key) => SameThingsBut(a, c, key)
         /\ SameThings(a, b) => SameThingsBut(a, b, key)
         /\ SameRefs(a, b) /\ SameRefs(b, c) => SameRefs(a, c)
         /\ SameSets(a, b) /\ SameSets(b, c) => SameSets(a, c)
<1>1. SameThingsBut(a, b, key) /\ SameThingsBut(b, c, key) => SameThingsBut(a, c, key)
  BY SameTwice DEF SameThingsBut
<1>2. SameThings(a, b) => SameThingsBut(a, b, key)
  BY DEF SameThings, SameThingsBut
<1>3. SameRefs(a, b) /\ SameRefs(b, c) => SameRefs(a, c)
  BY SameTwice DEF SameRefs
<1>4. SameSets(a, b) /\ SameSets(b, c) => SameSets(a, c)
  BY SameTwice DEF SameSets
<1> QED BY <1>1, <1>2, <1>3, <1>4

\* A thing that was not there has an empty hash.
LEMMA NothingThere ==
  ASSUME NEW d, NEW rs, NEW type, NEW n, ~Exists(d, <<rs, type, n>>)
  PROVE  DOMAIN HashOf(d, rs, type, n) = {}
BY KeysDiffer DEF HashOf, Hash

\* A limiter: of its own first; with its burst limiter it is counted there.
LEMMA LimiterSound ==
  ASSUME NEW d, Sound(d), NEW rs, NEW n, NEW of, NEW z, z = CreateLimiter(d, rs, Id("limiter", n), of)
  PROVE  Sound(z.db)
<1> DEFINE key == <<rs, "limiter", n>>
           id == Id("limiter", n)
           e1 == Hset(d, key, [interval |-> of.interval])
           e2 == Hset(e1, key, [burst |-> of.burst])
           e3 == Sadd(e2, <<rs, "limiters">>, n)
           refs == {Id("limiter", of.burst)}
           times == [k \in RefsKeys(rs, refs) |-> 1]
           e4 == Zincr(e3, times, id)
<1>1. CASE Exists(d, key)
  <2>1. z = Raise(d)
    BY <1>1, Keys DEF CreateLimiter
  <2> QED BY <2>1, DoneIs
<1> SUFFICES ASSUME ~Exists(d, key) PROVE Sound(z.db)
  BY <1>1
<1>2. z = IF ~of.resolved THEN Raise(e1) ELSE Done(IF of.burst = None THEN e3 ELSE e4)
  <2>1. ThingKey(rs, id) = key /\ SetKey(rs, "limiters") = <<rs, "limiters">> /\ id[2] = n
    BY Keys
  <2> HIDE DEF key
  <2> QED BY <2>1 DEF CreateLimiter, RefAll
<1>3. DOMAIN HashOf(d, rs, "limiter", n) = {}
  BY NothingThere
<1>4. SameThingsBut(d, e1, key) /\ SameRefs(d, e1) /\ SameSets(d, e1)
  BY HsetThing
<1>5. "burst" \notin DOMAIN HashOf(e1, rs, "limiter", n)
  <2>1. \A x : x \in DOMAIN Hash(e1, key) <=> x \in DOMAIN Hash(d, key) \/ x \in DOMAIN [interval |-> of.interval]
    BY HsetIs
  <2>2. "burst" \notin DOMAIN [interval |-> of.interval]
    OBVIOUS
  <2> HIDE DEF e1
  <2> QED BY <1>3, <2>1, <2>2 DEF HashOf
<1> HIDE DEF e1
<1>6. SameThingsBut(e1, e2, key) /\ SameRefs(e1, e2) /\ SameSets(e1, e2)
  BY HsetThing
<1>7. "burst" \in DOMAIN HashOf(e2, rs, "limiter", n) /\ HashOf(e2, rs, "limiter", n)["burst"] = of.burst
  <2> DEFINE fields == [burst |-> of.burst]
  <2>1. /\ \A x : x \in DOMAIN Hash(e2, key) <=> x \in DOMAIN Hash(e1, key) \/ x \in DOMAIN fields
        /\ \A f \in DOMAIN fields : Hash(e2, key)[f] = fields[f]
    BY HsetIs
  <2>2. "burst" \in DOMAIN fields /\ fields["burst"] = of.burst
    OBVIOUS
  <2> HIDE DEF e2, fields
  <2> QED BY <2>1, <2>2 DEF HashOf
<1> HIDE DEF e2
<1>8. SameThings(e2, e3) /\ SameRefs(e2, e3) /\ Gains(e2, e3, rs, "limiters", n)
  BY SaddSet, SaddGains
<1> HIDE DEF e3
<1>9. Natural(d) /\ Natural(e1) /\ Natural(e3)
  BY <1>4, <1>6, <1>8, SameNatural DEF Sound
<1>10. Sound(e1)
  <2>1. Covers(e1, rs, "limiter", n)
    <3>1. \A rtype, r : Refers("limiter", HashOf(e1, rs, "limiter", n), rtype, r) = 0
      BY <1>5 DEF Refers
    <3>2. \A rtype, r : ScoreOf(e1, rs, rtype, r, "limiter", n) \in Nat
      BY <1>9 DEF Natural, ScoreOf
    <3> QED BY <3>1, <3>2 DEF Covers
  <2>2. Gains(d, e1, rs, "limiters", n)
    BY <1>4 DEF Gains, SameSets, Same
  <2>3. Keeps(d, e1, rs, "limiter", n) /\ Fits(e1, "limiters", rs, "limiter", n) /\ NamesRead("limiter", HashOf(e1, rs, "limiter", n))
    BY <1>3 DEF Keeps, Fits, NamesRead
  <2>4. More(d, e1)
    BY <1>4, <1>9, SameMore
  <2> QED BY <1>4, <1>9, <2>1, <2>2, <2>3, <2>4, WrittenSound DEF More
<1>11. SameThingsBut(d, e3, key) /\ SameRefs(d, e3) /\ Gains(d, e3, rs, "limiters", n)
  <2>1. SameThingsBut(d, e3, key)
    BY <1>4, <1>6, <1>8, SameThen
  <2>2. SameRefs(d, e3)
    BY <1>4, <1>6, <1>8, SameThen
  <2>3. Gains(d, e3, rs, "limiters", n)
    <3>1. SameSets(d, e2)
      BY <1>4, <1>6, SameThen
    <3> QED BY <1>8, <3>1, GainsWith
  <2> QED BY <2>1, <2>2, <2>3
<1>12. HashOf(e3, rs, "limiter", n) = HashOf(e2, rs, "limiter", n)
  BY <1>8 DEF SameThings, Same, HashOf
<1>13. ASSUME NEW e, SameThingsBut(d, e, key), Gains(d, e, rs, "limiters", n), Natural(e),
              HashOf(e, rs, "limiter", n) = HashOf(e2, rs, "limiter", n),
              More(d, e),
              of.burst # None => ScoreOf(e, rs, "limiter", of.burst, "limiter", n) >= 1
       PROVE  Sound(e)
  <2>1. Covers(e, rs, "limiter", n)
    <3> SUFFICES ASSUME NEW rtype, NEW r
                 PROVE  ScoreOf(e, rs, rtype, r, "limiter", n) >= Refers("limiter", HashOf(e, rs, "limiter", n), rtype, r)
      BY DEF Covers
    <3>1. ScoreOf(e, rs, rtype, r, "limiter", n) \in Nat
      BY <1>13 DEF Natural, ScoreOf
    <3>2. CASE rtype = "limiter" /\ r = of.burst /\ r # None
      <4>1. Refers("limiter", HashOf(e, rs, "limiter", n), rtype, r) = 1
        BY <1>7, <1>13, <3>2 DEF Refers
      <4> QED BY <1>13, <3>2, <4>1
    <3>3. CASE ~(rtype = "limiter" /\ r = of.burst /\ r # None)
      <4>1. Refers("limiter", HashOf(e, rs, "limiter", n), rtype, r) = 0
        BY <1>7, <1>13, <3>3 DEF Refers
      <4> QED BY <3>1, <4>1
    <3> QED BY <3>2, <3>3
  <2>2. Keeps(d, e, rs, "limiter", n) /\ Fits(e, "limiters", rs, "limiter", n) /\ NamesRead("limiter", HashOf(e, rs, "limiter", n))
    BY <1>3 DEF Keeps, Fits, NamesRead
  <2> QED BY <1>13, <2>1, <2>2, WrittenSound DEF More
<1>14. ASSUME of.burst = None PROVE Sound(e3)
  <2>1. More(d, e3)
    BY <1>9, <1>11, SameMore
  <2> QED BY <1>9, <1>11, <1>12, <1>13, <1>14, <2>1
<1>15. ASSUME of.burst # None PROVE Sound(e4)
  <2>1. DOMAIN times = RefsKeys(rs, refs) /\ (\A k \in DOMAIN times : times[k] = 1)
    OBVIOUS
  <2>2. RefsKey(rs, Id("limiter", of.burst)) \in RefsKeys(rs, refs)
    BY DEF RefsKeys
  <2>3. RefsKey(rs, Id("limiter", of.burst)) = <<rs, "limiter", of.burst, "refs">>
    BY Keys
  <2> HIDE DEF times, refs
  <2>4. SameThings(e3, e4) /\ SameSets(e3, e4)
    BY <2>1, ZincrRefs
  <2>5. /\ Natural(e4)
        /\ More(e3, e4)
        /\ \A k \in DOMAIN times : Score(e4, k, id) = Score(e3, k, id) + times[k]
    BY <1>9, <2>1, ZincrMore DEF More
  <2> HIDE DEF e4
  <2>6. More(d, e4)
    BY <1>11, <2>5, MoreThen
  <2>7. ScoreOf(e4, rs, "limiter", of.burst, "limiter", n) >= 1
    <3>1. ScoreOf(e4, rs, "limiter", of.burst, "limiter", n) = ScoreOf(e3, rs, "limiter", of.burst, "limiter", n) + 1
      BY <2>1, <2>2, <2>3, <2>5 DEF ScoreOf
    <3>2. ScoreOf(e3, rs, "limiter", of.burst, "limiter", n) \in Nat
      BY <1>9 DEF Natural, ScoreOf
    <3> QED BY <3>1, <3>2
  <2>8. SameThingsBut(d, e4, key)
    BY <1>11, <2>4, SameThen
  <2>9. Gains(d, e4, rs, "limiters", n)
    BY <1>11, <2>4, GainsWith
  <2>10. HashOf(e4, rs, "limiter", n) = HashOf(e2, rs, "limiter", n)
    BY <1>12, <2>4 DEF SameThings, Same, HashOf
  <2> QED BY <1>13, <2>5, <2>6, <2>7, <2>8, <2>9, <2>10
<1> HIDE DEF e4
<1>16. CASE ~of.resolved
  <2>1. z = Raise(e1)
    BY <1>2, <1>16
  <2> QED BY <1>10, <2>1, DoneIs
<1>17. CASE of.resolved
  <2>1. CASE of.burst = None
    <3>1. z = Done(e3)
      BY <1>2, <1>17, <2>1
    <3> QED BY <1>14, <2>1, <3>1, DoneIs
  <2>2. CASE of.burst # None
    <3>1. z = Done(e4)
      BY <1>2, <1>17, <2>2
    <3> QED BY <1>15, <2>2, <3>1, DoneIs
  <2> QED BY <2>1, <2>2
<1> QED BY <1>16, <1>17

-----------------------------------------------------------------------------
(* A thing that is new; rules.                                             *)

\* A thing that is written, counted where it refers to, and added to its set.
LEMMA CreatedSound ==
  ASSUME NEW d, Sound(d), NEW rs, NEW type, NEW n, NEW s, NEW fields, NEW refs, NEW times,
         DOMAIN times = RefsKeys(rs, refs), \A k \in DOMAIN times : times[k] \in Nat,
         NEW e1, e1 = Hset(d, <<rs, type, n>>, fields),
         NEW e2, e2 = Zincr(e1, times, Id(type, n)),
         NEW e3, e3 = Sadd(e2, <<rs, s>>, n),
         ~Exists(d, <<rs, type, n>>),
         NamesRead(type, HashOf(e1, rs, type, n)), Fits(e1, s, rs, type, n),
         \A rtype, r : LET k == <<rs, rtype, r, "refs">>
                           m == Refers(type, HashOf(e1, rs, type, n), rtype, r)
                       IN  m = 0 \/ (k \in DOMAIN times /\ times[k] >= m)
  PROVE  Sound(e3)
<1> DEFINE key == <<rs, type, n>>
           h == HashOf(e1, rs, type, n)
<1>1. DOMAIN HashOf(d, rs, type, n) = {}
  BY NothingThere
<1>2. SameThingsBut(d, e1, key) /\ SameRefs(d, e1) /\ SameSets(d, e1)
  BY HsetThing
<1>3. Natural(e1)
  BY <1>2, SameNatural DEF Sound
<1>4. SameThings(e1, e2) /\ SameSets(e1, e2)
  BY ZincrRefs
<1>5. /\ Natural(e2) /\ More(e1, e2)
      /\ \A k \in DOMAIN times : Score(e2, k, Id(type, n)) = Score(e1, k, Id(type, n)) + times[k]
  BY <1>3, ZincrMore DEF More
<1>6. SameThings(e2, e3) /\ SameRefs(e2, e3) /\ Gains(e2, e3, rs, s, n)
  BY SaddSet, SaddGains
<1>7. SameThingsBut(d, e3, key)
  BY <1>2, <1>4, <1>6, SameThen
<1>8. Natural(e3)
  BY <1>5, <1>6, SameNatural
<1>9. More(d, e3)
  <2>1. More(e2, e3)
    BY <1>5, <1>6, SameMore
  <2> SUFFICES ASSUME NEW rs1, NEW rtype, NEW r, NEW m
               PROVE  Score(e3, <<rs1, rtype, r, "refs">>, m) >= Score(d, <<rs1, rtype, r, "refs">>, m)
    BY DEF More
  <2>2. Score(e3, <<rs1, rtype, r, "refs">>, m) = Score(e2, <<rs1, rtype, r, "refs">>, m)
    BY <1>6 DEF SameRefs, Same
  <2>3. Score(e1, <<rs1, rtype, r, "refs">>, m) = Score(d, <<rs1, rtype, r, "refs">>, m)
    BY <1>2 DEF SameRefs, Same
  <2>4. Score(e2, <<rs1, rtype, r, "refs">>, m) >= Score(e1, <<rs1, rtype, r, "refs">>, m)
    BY <1>5 DEF More
  <2> QED BY <2>2, <2>3, <2>4
<1>10. Gains(d, e3, rs, s, n)
  <2>1. SameSets(d, e2)
    BY <1>2, <1>4, SameThen
  <2> QED BY <1>6, <2>1, GainsWith
<1>11. HashOf(e3, rs, type, n) = h
  BY <1>4, <1>6 DEF SameThings, Same, HashOf
<1>12. Covers(e3, rs, type, n)
  <2> SUFFICES ASSUME NEW rtype, NEW r
               PROVE  ScoreOf(e3, rs, rtype, r, type, n) >= Refers(type, h, rtype, r)
    BY <1>11 DEF Covers
  <2> DEFINE k == <<rs, rtype, r, "refs">>
             m == Refers(type, h, rtype, r)
             who == Id(type, n)
  <2>1. ScoreOf(e3, rs, rtype, r, type, n) = Score(e2, k, who)
    BY <1>6 DEF SameRefs, Same, ScoreOf
  <2>2. Score(e2, k, who) \in Nat /\ Score(e1, k, who) \in Nat
    BY <1>3, <1>5 DEF Natural
  <2>3. m = 0 \/ (k \in DOMAIN times /\ times[k] >= m)
    OBVIOUS
  <2>4. k \in DOMAIN times => Score(e2, k, who) = Score(e1, k, who) + times[k] /\ times[k] \in Nat
    BY <1>5
  <2>5. m \in Nat
    BY RefersNat
  <2> HIDE DEF k, m, who
  <2>6. Score(e2, k, who) >= m
    BY <2>2, <2>3, <2>4, <2>5
  <2> QED BY <2>1, <2>6 DEF m
<1>13. /\ Keeps(d, e3, rs, type, n) /\ NamesRead(type, HashOf(e3, rs, type, n))
       /\ Fits(e3, s, rs, type, n)
  BY <1>1, <1>11 DEF Keeps, Fits
<1> HIDE DEF key, h
<1> QED BY <1>7, <1>8, <1>9, <1>10, <1>12, <1>13, WrittenSound DEF More, key

\* One field that is written where nothing was.
LEMMA FieldThere ==
  ASSUME NEW d, NEW rs, NEW type, NEW n, NEW fields, NEW e, e = Hset(d, <<rs, type, n>>, fields)
  PROVE  \A f \in DOMAIN fields : f \in DOMAIN HashOf(e, rs, type, n) /\ HashOf(e, rs, type, n)[f] = fields[f]
<1>1. /\ \A x : x \in DOMAIN Hash(e, <<rs, type, n>>) <=> x \in DOMAIN Hash(d, <<rs, type, n>>) \/ x \in DOMAIN fields
      /\ \A f \in DOMAIN fields : Hash(e, <<rs, type, n>>)[f] = fields[f]
  BY HsetIs
<1> QED BY <1>1 DEF HashOf

\* A rule: its limiters are counted before the set of rules has its name.
LEMMA RuleSound ==
  ASSUME NEW d, Sound(d), NEW rs, NEW n, NEW rule, NEW z, z = CreateRule(d, rs, Id("rule", n), rule)
  PROVE  Sound(z.db)
<1> DEFINE key == <<rs, "rule", n>>
           id == Id("rule", n)
           fields == [rule |-> rule]
           e1 == Hset(d, key, fields)
           refs == RefsOf(rule)
           times == [k \in RefsKeys(rs, refs) |-> 1]
           e2 == Zincr(e1, times, id)
           e3 == Sadd(e2, <<rs, "rules">>, n)
<1>0. ThingKey(rs, id) = key /\ SetKey(rs, "rules") = <<rs, "rules">> /\ id[2] = n
  BY Keys
<1>1. CASE Exists(d, key) \/ rule.key
  <2>1. z = Raise(d)
    BY <1>0, <1>1 DEF CreateRule
  <2> QED BY <2>1, DoneIs
<1>2. CASE ~(Exists(d, key) \/ rule.key)
  <2>1. z = Done(e3)
    <3> HIDE DEF key
    <3> QED BY <1>0, <1>2 DEF CreateRule, RefAll
  <2>2. DOMAIN times = RefsKeys(rs, refs) /\ \A k \in DOMAIN times : times[k] = 1
    OBVIOUS
  <2>3. "rule" \in DOMAIN HashOf(e1, rs, "rule", n) /\ HashOf(e1, rs, "rule", n)["rule"] = rule
    <3>1. "rule" \in DOMAIN fields /\ fields["rule"] = rule
      OBVIOUS
    <3> HIDE DEF fields
    <3> QED BY <3>1, FieldThere
  <2>4. ASSUME NEW rtype, NEW r
        PROVE  LET k == <<rs, rtype, r, "refs">>
                   m == Refers("rule", HashOf(e1, rs, "rule", n), rtype, r)
               IN  m = 0 \/ (k \in DOMAIN times /\ times[k] >= m)
    <3> DEFINE k == <<rs, rtype, r, "refs">>
               m == Refers("rule", HashOf(e1, rs, "rule", n), rtype, r)
    <3> HIDE DEF e1, times
    <3>1. CASE rtype = "limiter" /\ r \in LimitsOf(rule)
      <4>1. m = 1
        BY <2>3, <3>1 DEF Refers
      <4>2. Id("limiter", r) \in refs
        BY <3>1 DEF RefsOf
      <4>3. RefsKey(rs, Id("limiter", r)) = k
        BY <3>1, Keys
      <4>4. k \in DOMAIN times
        BY <2>2, <4>2, <4>3 DEF RefsKeys
      <4>5. times[k] = 1
        BY <2>2, <4>4
      <4> HIDE DEF k, m
      <4>6. k \in DOMAIN times /\ times[k] >= m
        BY <4>1, <4>4, <4>5
      <4> QED BY <4>6 DEF k, m
    <3>2. CASE ~(rtype = "limiter" /\ r \in LimitsOf(rule))
      <4>1. m = 0
        BY <2>3, <3>2 DEF Refers
      <4> QED BY <4>1
    <3> QED BY <3>1, <3>2
  <2>5. NamesRead("rule", HashOf(e1, rs, "rule", n)) /\ Fits(e1, "rules", rs, "rule", n)
    BY <2>3 DEF NamesRead, Fits
  <2>6. \A k \in DOMAIN times : times[k] \in Nat
    BY <2>2
  <2> HIDE DEF times, refs, fields
  <2>7. PICK a1, a2, a3 : a1 = e1 /\ a2 = e2 /\ a3 = e3
    OBVIOUS
  <2>8. a1 = Hset(d, <<rs, "rule", n>>, fields) /\ a2 = Zincr(a1, times, Id("rule", n)) /\ a3 = Sadd(a2, <<rs, "rules">>, n)
    BY <2>7
  <2>9. Sound(a3)
    <3> HIDE DEF e1
    <3> QED BY <1>2, <2>2, <2>4, <2>5, <2>6, <2>7, <2>8, CreatedSound
  <2> QED BY <2>1, <2>7, <2>9, DoneIs
<1> QED BY <1>1, <1>2

-----------------------------------------------------------------------------
(* Lists and phases; one call of a script.                                 *)

\* A list counts its rules, a phase its lists, each as often as it has it.
LEMMA ListSound ==
  ASSUME NEW d, Sound(d), NEW rs, NEW n, NEW names, Array(names), NEW kind, NEW type,
         (kind = "list" /\ type = "rule") \/ (kind = "phase" /\ type = "list"),
         NEW z, z = CreateList(d, rs, Id(kind, n), names, type)
  PROVE  Sound(z.db)
<1> DEFINE key == <<rs, kind, n>>
           id == Id(kind, n)
           s == SetOf[kind]
           fields == [names |-> names]
           e1 == Hset(d, key, fields)
           refs == {Id(type, m) : m \in ToSet(names)}
           times == [k \in RefsKeys(rs, refs) |-> Times(names, k[3])]
           e2 == Zincr(e1, times, id)
           e3 == Sadd(e2, <<rs, s>>, n)
<1>0. ThingKey(rs, id) = key /\ SetKey(rs, s) = <<rs, s>> /\ id[2] = n /\ id[1] = kind
  BY Keys
<1>1. CASE Exists(d, key)
  <2>1. z = Raise(d)
    BY <1>0, <1>1 DEF CreateList
  <2> QED BY <2>1, DoneIs
<1>2. CASE ~Exists(d, key)
  <2>1. z = Done(e3)
    <3> HIDE DEF key
    <3> QED BY <1>0, <1>2 DEF CreateList
  <2>2. DOMAIN times = RefsKeys(rs, refs) /\ \A k \in DOMAIN times : times[k] = Times(names, k[3])
    OBVIOUS
  <2>3. "names" \in DOMAIN HashOf(e1, rs, kind, n) /\ HashOf(e1, rs, kind, n)["names"] = names
    <3>1. "names" \in DOMAIN fields /\ fields["names"] = names
      OBVIOUS
    <3> HIDE DEF fields
    <3> QED BY <3>1, FieldThere
  <2>4. ASSUME NEW rtype, NEW r
        PROVE  LET k == <<rs, rtype, r, "refs">>
                   m == Refers(kind, HashOf(e1, rs, kind, n), rtype, r)
               IN  m = 0 \/ (k \in DOMAIN times /\ times[k] >= m)
    <3> DEFINE k == <<rs, rtype, r, "refs">>
               m == Refers(kind, HashOf(e1, rs, kind, n), rtype, r)
    <3> HIDE DEF e1, times
    <3>1. CASE rtype = type /\ r \in ToSet(names)
      <4>1. m = Times(names, r)
        BY <2>3, <3>1 DEF Refers
      <4>2. Id(type, r) \in refs
        BY <3>1
      <4>3. RefsKey(rs, Id(type, r)) = k
        BY <3>1, Keys
      <4>4. k \in DOMAIN times
        BY <2>2, <4>2, <4>3 DEF RefsKeys
      <4>5. times[k] = Times(names, r)
        BY <2>2, <4>4
      <4>6. Times(names, r) \in Nat
        BY TimesNat
      <4> HIDE DEF k, m
      <4>7. k \in DOMAIN times /\ times[k] >= m
        BY <4>1, <4>4, <4>5, <4>6
      <4> QED BY <4>7 DEF k, m
    <3>2. CASE rtype # type
      <4>1. m = 0
        BY <2>3, <3>2 DEF Refers
      <4> QED BY <4>1
    <3>3. CASE rtype = type /\ r \notin ToSet(names)
      <4>1. m = Times(names, r)
        BY <2>3, <3>3 DEF Refers
      <4>2. {i \in DOMAIN names : names[i] = r} = {}
        BY <3>3 DEF ToSet
      <4>3. Times(names, r) = 0
        BY <4>2, FS_EmptySet DEF Times
      <4> QED BY <4>1, <4>3
    <3> QED BY <3>1, <3>2, <3>3
  <2>5. NamesRead(kind, HashOf(e1, rs, kind, n)) /\ Fits(e1, s, rs, kind, n)
    BY <2>3 DEF NamesRead, Fits, SetOf
  <2>6. \A k \in DOMAIN times : times[k] \in Nat
    BY <2>2, TimesNat
  <2> HIDE DEF times, refs, fields, s
  <2>7. PICK a1, a2, a3 : a1 = e1 /\ a2 = e2 /\ a3 = e3
    OBVIOUS
  <2>8. a1 = Hset(d, <<rs, kind, n>>, fields) /\ a2 = Zincr(a1, times, Id(kind, n)) /\ a3 = Sadd(a2, <<rs, s>>, n)
    BY <2>7
  <2>9. Sound(a3)
    <3> HIDE DEF e1
    <3> QED BY <1>2, <2>2, <2>4, <2>5, <2>6, <2>7, <2>8, CreatedSound
  <2> QED BY <2>1, <2>7, <2>9, DoneIs
<1> QED BY <1>1, <1>2

\* The ruleset itself, and its counters.
LEMMA CountSound ==
  ASSUME NEW d, Sound(d), NEW key, NEW rs, key = <<rs>> \/ key = <<"rulesets", "n">>, NEW fields
  PROVE  Sound(Hset(d, key, fields))
<1>1. PICK e : e = Hset(d, key, fields)
  OBVIOUS
<1>2. SameThings(d, e) /\ SameRefs(d, e) /\ SameSets(d, e)
  BY <1>1, HsetCount
<1> QED BY <1>1, <1>2, SameSound

\* The hash of the ruleset itself is none of its things.
LEMMA RulesetSound ==
  ASSUME NEW d, Sound(d), NEW rs, NEW z, z = CreateRulesetHash(d, rs)
  PROVE  Sound(z.db)
<1> DEFINE e1 == Hset(d, <<rs>>, [name |-> rs])
           e2 == Sadd(e1, <<"rulesets">>, rs)
<1>1. z = Raise(d) \/ z = Done(e2)
  BY DEF CreateRulesetHash, RulesetKey, ListedKey
<1>2. Sound(e1)
  BY CountSound
<1> HIDE DEF e1
<1>3. Sound(e2)
  <2>1. \A k : k # <<"rulesets">> => Same(e1, e2, k)
    BY SaddIs
  <2>2. SameThings(e1, e2)
    BY <2>1, KeysDiffer DEF SameThings
  <2>3. SameRefs(e1, e2)
    BY <2>1, KeysDiffer DEF SameRefs
  <2>4. SameSets(e1, e2)
    BY <2>1, KeysDiffer DEF SameSets
  <2> QED BY <1>2, <2>2, <2>3, <2>4, SameSound
<1> QED BY <1>1, <1>3, DoneIs

\* Where the numbers for generated names are kept.
LEMMA CountKeyIs ==
  ASSUME NEW rs
  PROVE  CountKey(rs) = <<rs>> \/ CountKey(rs) = <<"rulesets", "n">>
BY DEF CountKey, RulesetKey

\* A call that can be stored.
LEMMA ApplySound ==
  ASSUME NEW d, Sound(d), NEW rs, NEW call, Storable(call), NEW z, z = Apply(d, rs, call)
  PROVE  Sound(z.db)
<1> DEFINE type == call.id[1]
           n == call.id[2]
<1>1. type \in ThingTypes => call.id = Id(type, n)
  BY DEF Storable
<1>2. CASE type = "limiter"
  <2>1. z = CreateLimiter(d, rs, Id("limiter", n), call.of)
    BY <1>1, <1>2 DEF Apply, ThingTypes
  <2> QED BY <2>1, LimiterSound
<1>3. CASE type = "rule"
  <2>1. z = CreateRule(d, rs, Id("rule", n), call.of)
    BY <1>1, <1>3 DEF Apply, ThingTypes
  <2> QED BY <2>1, RuleSound
<1>4. CASE type = "list"
  <2>1. z = CreateList(d, rs, Id("list", n), call.of, "rule")
    BY <1>1, <1>4 DEF Apply, ThingTypes
  <2>2. Array(call.of)
    BY <1>4 DEF Storable
  <2> QED BY <2>1, <2>2, ListSound
<1>5. CASE type = "phase"
  <2>1. z = CreateList(d, rs, Id("phase", n), call.of, "list")
    BY <1>1, <1>5 DEF Apply, ThingTypes
  <2>2. Array(call.of)
    BY <1>5 DEF Storable
  <2> QED BY <2>1, <2>2, ListSound
<1>6. CASE type = "ruleset"
  <2>1. z = CreateRulesetHash(d, rs)
    BY <1>6 DEF Apply
  <2> QED BY <2>1, RulesetSound
<1>7. CASE type = "count"
  <2> DEFINE fields == [f \in {n} |-> call.of]
  <2>1. z = Done(Hset(d, CountKey(rs), fields))
    BY <1>7 DEF Apply
  <2> HIDE DEF fields
  <2>2. Sound(Hset(d, CountKey(rs), fields))
    BY CountKeyIs, CountSound
  <2> QED BY <2>1, <2>2, DoneIs
<1>8. CASE type \notin {"limiter", "rule", "list", "phase", "ruleset", "count"}
  <2>1. z = Done(d)
    BY <1>8 DEF Apply
  <2> QED BY <2>1, DoneIs
<1> QED BY <1>2, <1>3, <1>4, <1>5, <1>6, <1>7, <1>8

-----------------------------------------------------------------------------
(* A whole script.                                                         *)

Apply1(rs, acc, call) == IF acc.ok THEN Apply(acc.db, rs, call) ELSE acc

\* A script is its calls, one by one: f holds what is stored after each.
LEMMA FoldRun ==
  ASSUME NEW d, NEW rs, NEW st, NEW s, s = st.calls, Len(s) \in Nat, DOMAIN s = 1 .. Len(s)
  PROVE  \E f : /\ f[0] = Done(d)
                /\ \A i \in 1 .. Len(s) : f[i] = Apply1(rs, f[i - 1], s[i])
                /\ Run(d, rs, st) = [db |-> f[Len(s)].db, ok |-> f[Len(s)].ok /\ st.ok]
<1> DEFINE n == Len(s)
           base == Done(d)
           op(a, e) == Apply1(rs, a, e)
           Rec(h, m) == h = [S \in SUBSET (1 .. m) |->
                               IF S = {} THEN base ELSE op(h[S \ {Max(S)}], s[Max(S)])]
           J == {m \in 0 .. n : \E h : Rec(h, m)}
           iter == CHOOSE h : Rec(h, n)
<1>1. Run(d, rs, st) = [db |-> iter[1 .. n].db, ok |-> iter[1 .. n].ok /\ st.ok]
  BY DEF Run, Apply1, FoldLeft, MapThenFoldSet
<1> HIDE DEF op
<1>2. 0 \in J
  <2> DEFINE h == [S \in SUBSET (1 .. 0) |-> base]
  <2>1. \A S \in SUBSET (1 .. 0) : S = {}
    OBVIOUS
  <2>2. Rec(h, 0)
    BY <2>1
  <2>3. 0 \in 0 .. n
    OBVIOUS
  <2> HIDE DEF Rec, h, n
  <2> QED BY <2>2, <2>3
<1>3. ASSUME NEW m \in 1 .. n, m - 1 \in J PROVE m \in J
  <2>1. PICK h : Rec(h, m - 1)
    BY <1>3
  <2> DEFINE g == [S \in SUBSET (1 .. m) |-> IF m \in S THEN op(h[S \ {m}], s[m]) ELSE h[S]]
  <2>2. ASSUME NEW S \in SUBSET (1 .. m)
        PROVE  g[S] = IF S = {} THEN base ELSE op(g[S \ {Max(S)}], s[Max(S)])
    <3>1. CASE m \in S
      <4>1. Max(S) = m
        BY <3>1, MaxTop
      <4>2. S \ {m} \in SUBSET (1 .. m) /\ m \notin S \ {m}
        OBVIOUS
      <4> QED BY <3>1, <4>1, <4>2
    <3>2. CASE m \notin S
      <4>0. \A x \in S : x \in 1 .. (m - 1)
        BY <3>2
      <4>1. /\ S \in SUBSET (1 .. (m - 1))
            /\ \A x : S \ {x} \in SUBSET (1 .. (m - 1)) /\ S \ {x} \in SUBSET (1 .. m) /\ m \notin S \ {x}
        BY <3>2, <4>0
      <4>2. h[S] = IF S = {} THEN base ELSE op(h[S \ {Max(S)}], s[Max(S)])
        BY <2>1, <4>1
      <4> QED BY <3>2, <4>1, <4>2
    <3> QED BY <3>1, <3>2
  <2>3. g = [S \in SUBSET (1 .. m) |-> g[S]]
    OBVIOUS
  <2> HIDE DEF g
  <2>4. Rec(g, m)
    BY <2>2, <2>3
  <2>5. m \in 0 .. n
    OBVIOUS
  <2> HIDE DEF Rec, n
  <2> QED BY <2>4, <2>5
<1>4. n \in J
  <2> HIDE DEF J
  <2>1. n \in Nat /\ n \in 0 .. n
    OBVIOUS
  <2> HIDE DEF n
  <2>2. 0 .. n \subseteq J
    BY <1>2, <1>3, <2>1, UpTo
  <2> QED BY <2>1, <2>2
<1>5. Rec(iter, n)
  BY <1>4
<1> HIDE DEF iter
<1> DEFINE f == [i \in 0 .. n |-> iter[1 .. i]]
<1>6. f[0] = base
  BY <1>5
<1>7. ASSUME NEW i \in 1 .. n PROVE f[i] = op(f[i - 1], s[i])
  <2>1. Max(1 .. i) = i /\ (1 .. i) \ {i} = 1 .. (i - 1) /\ 1 .. i # {} /\ 1 .. i \in SUBSET (1 .. n)
    <3>1. i \in Nat /\ i # 0 /\ i \in 1 .. i /\ 1 .. i \subseteq 1 .. n
      OBVIOUS
    <3> HIDE DEF n
    <3> QED BY <3>1, MaxTop
  <2>2. iter[1 .. i] = op(iter[1 .. (i - 1)], s[i])
    BY <1>5, <2>1
  <2> QED BY <2>2
<1>8. f[n] = iter[1 .. n]
  OBVIOUS
<1> HIDE DEF f, n
<1>9. /\ f[0] = base /\ \A i \in 1 .. n : f[i] = op(f[i - 1], s[i])
      /\ Run(d, rs, st) = [db |-> f[n].db, ok |-> f[n].ok /\ st.ok]
  BY <1>1, <1>6, <1>7, <1>8
<1> QED BY <1>9 DEF op, n

\* A script, whatever it comes to.
LEMMA RunSound ==
  ASSUME NEW d, Sound(d), NEW rs, NEW st, Fine(st)
  PROVE  Sound(Run(d, rs, st).db)
<1>1. PICK s : s = st.calls
  OBVIOUS
<1>2. Len(s) \in Nat /\ DOMAIN s = 1 .. Len(s)
  BY <1>1, ArrayFacts DEF Fine, Base
<1>3. PICK f : /\ f[0] = Done(d)
               /\ \A i \in 1 .. Len(s) : f[i] = Apply1(rs, f[i - 1], s[i])
               /\ Run(d, rs, st) = [db |-> f[Len(s)].db, ok |-> f[Len(s)].ok /\ st.ok]
  BY <1>1, <1>2, FoldRun
<1> DEFINE J == {i \in 0 .. Len(s) : Sound(f[i].db)}
<1>4. 0 \in J
  <2>1. 0 \in 0 .. Len(s)
    BY <1>2
  <2> QED BY <1>3, <2>1, DoneIs
<1>5. ASSUME NEW i \in 1 .. Len(s), i - 1 \in J PROVE i \in J
  <2>1. Sound(f[i - 1].db) /\ i \in 0 .. Len(s)
    BY <1>2, <1>5
  <2>2. Storable(s[i])
    BY <1>1, <1>2 DEF Fine, ToSet
  <2>3. PICK a, call : a = f[i - 1] /\ call = s[i]
    OBVIOUS
  <2>4. f[i] = IF a.ok THEN Apply(a.db, rs, call) ELSE a
    BY <1>3, <2>3 DEF Apply1
  <2>5. Sound(f[i].db)
    <3>1. CASE a.ok
      BY <2>1, <2>2, <2>3, <2>4, <3>1, ApplySound
    <3>2. CASE ~a.ok
      BY <2>1, <2>3, <2>4, <3>2
    <3> QED BY <3>1, <3>2
  <2> QED BY <2>1, <2>5
<1>6. Len(s) \in J
  <2> HIDE DEF J
  <2>1. 0 .. Len(s) \subseteq J
    BY <1>2, <1>4, <1>5, UpTo
  <2> QED BY <1>2, <2>1
<1> QED BY <1>3, <1>6

-----------------------------------------------------------------------------
(* What changed nothing but counters.                                      *)
Counters(e) == {RulesetKey(k[1]) : k \in DOMAIN e} \cup {CountKey(None)}
OnlyCounters(d, e) ==
  /\ DOMAIN d \subseteq DOMAIN e
  /\ \A k \in DOMAIN e : k \notin Counters(e) => k \in DOMAIN d /\ e[k] = d[k]

\* Nothing at all has changed no more than counters.
LEMMA CountersSelf ==
  ASSUME NEW d
  PROVE  OnlyCounters(d, d)
BY DEF OnlyCounters

\* No more than counters twice is no more than counters.
LEMMA CountersTwice ==
  ASSUME NEW a, NEW b, NEW c, OnlyCounters(a, b), OnlyCounters(b, c)
  PROVE  OnlyCounters(a, c)
<1>1. Counters(b) \subseteq Counters(c)
  BY DEF Counters, OnlyCounters
<1>2. DOMAIN a \subseteq DOMAIN c
  BY DEF OnlyCounters
<1>3. ASSUME NEW k \in DOMAIN c, k \notin Counters(c) PROVE k \in DOMAIN a /\ c[k] = a[k]
  <2>1. k \in DOMAIN b /\ c[k] = b[k]
    BY <1>3 DEF OnlyCounters
  <2>2. k \notin Counters(b)
    BY <1>1, <1>3
  <2> QED BY <2>1, <2>2 DEF OnlyCounters
<1> QED BY <1>2, <1>3 DEF OnlyCounters

\* The next generated name is a counter.
LEMMA CountersHset ==
  ASSUME NEW d, NEW rs, NEW fields, NEW e, e = Hset(d, CountKey(rs), fields)
  PROVE  OnlyCounters(d, e)
<1>1. PICK key : key = CountKey(rs)
  OBVIOUS
<1>2. /\ \A x : x \in DOMAIN e <=> x \in DOMAIN d \/ x = key
      /\ \A k \in DOMAIN d : k # key => e[k] = d[k]
  BY <1>1, HsetIs
<1>3. key \in Counters(e)
  <2>1. CASE rs = None
    BY <1>1, <2>1 DEF Counters
  <2>2. CASE rs # None
    <3>1. key = RulesetKey(rs) /\ key[1] = rs
      BY <1>1, <2>2 DEF CountKey, RulesetKey
    <3>2. key \in DOMAIN e
      BY <1>2
    <3> QED BY <3>1, <3>2 DEF Counters
  <2> QED BY <2>1, <2>2
<1>4. ASSUME NEW k \in DOMAIN e, k \notin Counters(e) PROVE k \in DOMAIN d /\ e[k] = d[k]
  <2>1. k # key
    BY <1>3, <1>4
  <2> QED BY <1>2, <2>1
<1> QED BY <1>2, <1>4 DEF OnlyCounters

\* A part of a rule is not stored, a counter is counted.
LEMMA PartApplied ==
  ASSUME NEW d, NEW rs, NEW call, call.id[1] \in PartTypes, NEW z, z = Apply(d, rs, call)
  PROVE  OnlyCounters(d, z.db) /\ z.ok
<1>1. CASE call.id[1] = "count"
  <2> DEFINE fields == [f \in {call.id[2]} |-> call.of]
             e == Hset(d, CountKey(rs), fields)
  <2>1. z = Done(e)
    BY <1>1 DEF Apply
  <2> HIDE DEF fields
  <2>2. OnlyCounters(d, e)
    BY CountersHset
  <2> HIDE DEF e
  <2> QED BY <2>1, <2>2, DoneIs
<1>2. CASE call.id[1] # "count"
  <2>1. call.id[1] \notin {"limiter", "rule", "list", "phase", "ruleset", "count"}
    BY <1>2 DEF PartTypes
  <2>2. z = Done(d)
    BY <2>1 DEF Apply
  <2> QED BY <2>2, CountersSelf, DoneIs
<1> QED BY <1>1, <1>2

\* The last call of a run.
LEMMA CallOrder ==
  ASSUME NEW st, Base(st), st.ok, NEW id, NEW refs, NEW of, NEW z, z = Call(st, id, refs, of)
  PROVE  /\ Len(z.calls) = Len(st.calls) + 1
         /\ \A i \in 1 .. Len(st.calls) : z.calls[i] = st.calls[i]
         /\ z.calls[Len(st.calls) + 1] = Made(id, refs, of)
<1>1. PICK call : call = Made(id, refs, of)
  OBVIOUS
<1> DEFINE t == <<call>>
<1>2. z = [st EXCEPT !.calls = @ \o t]
  BY <1>1 DEF Call, CallEach
<1>3. Array(t) /\ Len(t) = 1 /\ t[1] = call
  BY SingleArray
<1> HIDE DEF t
<1>4. PICK a, b : a = st.calls /\ b = st.calls \o t
  OBVIOUS
<1>5. z.calls = b
  <2>1. z = [st EXCEPT !.calls = b]
    BY <1>2, <1>4
  <2> QED BY <2>1 DEF Base, State
<1>6. Array(a)
  BY <1>4 DEF Base
<1>7. /\ Len(b) = Len(a) + Len(t)
      /\ \A i \in 1 .. Len(a) : b[i] = a[i]
      /\ \A i \in 1 .. Len(t) : b[Len(a) + i] = t[i]
  <2>1. b = a \o t
    BY <1>4
  <2>2. /\ Len(a \o t) = Len(a) + Len(t)
        /\ \A i \in 1 .. Len(a) : (a \o t)[i] = a[i]
        /\ \A i \in 1 .. Len(t) : (a \o t)[Len(a) + i] = t[i]
    <3>1. Array(a) /\ Array(t)
      BY <1>3, <1>6
    <3> QED BY <3>1, Joined
  <2> QED BY <2>1, <2>2
<1> QED BY <1>1, <1>3, <1>4, <1>5, <1>7

\* The script of one rule that raises an error has counted names, no more.
LEMMA RuleRun ==
  ASSUME NEW d, NEW rs, NEW x, Base(x), \A call \in ToSet(x.calls) : call.id[1] \in PartTypes,
         NEW n, NEW refs, NEW rule, NEW st, st = Call(x, Id("rule", n), refs, rule),
         Base(st), st.ok = x.ok, NEW run, run = Run(d, rs, st), ~run.ok
  PROVE  OnlyCounters(d, run.db)
<1>0. x.ok \in BOOLEAN
  BY DEF Base, State
<1>1. PICK s, a : s = st.calls /\ a = x.calls
  OBVIOUS
<1>2. Len(s) \in Nat /\ DOMAIN s = 1 .. Len(s) /\ Len(a) \in Nat /\ DOMAIN a = 1 .. Len(a)
  BY <1>1, ArrayFacts DEF Base
<1>3. PICK f : /\ f[0] = Done(d)
               /\ \A i \in 1 .. Len(s) : f[i] = Apply1(rs, f[i - 1], s[i])
               /\ run = [db |-> f[Len(s)].db, ok |-> f[Len(s)].ok /\ st.ok]
  BY <1>1, <1>2, FoldRun
<1>4. Len(a) <= Len(s) /\ \A i \in 1 .. Len(a) : s[i] = a[i]
  <2>1. CASE x.ok
    <3>1. PICK id : id = Id("rule", n)
      OBVIOUS
    <3>2. Len(s) = Len(a) + 1 /\ \A i \in 1 .. Len(a) : s[i] = a[i]
      BY <1>1, <2>1, <3>1, CallOrder
    <3> QED BY <1>2, <3>2
  <2>2. CASE ~x.ok
    <3>1. st = x
      BY <2>2 DEF Call, CallEach
    <3> QED BY <1>1, <1>2, <3>1
  <2> QED BY <1>0, <2>1, <2>2
<1> DEFINE J == {i \in 0 .. Len(a) : OnlyCounters(d, f[i].db) /\ f[i].ok}
<1>5. 0 \in J
  <2>1. 0 \in 0 .. Len(a)
    BY <1>2
  <2> QED BY <1>3, <2>1, DoneIs, CountersSelf
<1>6. ASSUME NEW i \in 1 .. Len(a), i - 1 \in J PROVE i \in J
  <2>1. OnlyCounters(d, f[i - 1].db) /\ f[i - 1].ok /\ i \in 0 .. Len(a) /\ i \in 1 .. Len(s)
    BY <1>2, <1>4, <1>6
  <2>2. s[i].id[1] \in PartTypes
    BY <1>1, <1>2, <1>4 DEF ToSet
  <2>3. PICK b, call : b = f[i - 1] /\ call = s[i]
    OBVIOUS
  <2>4. f[i] = Apply(b.db, rs, call)
    BY <1>3, <2>1, <2>3 DEF Apply1
  <2>5. OnlyCounters(b.db, f[i].db) /\ f[i].ok
    BY <2>2, <2>3, <2>4, PartApplied
  <2> QED BY <2>1, <2>3, <2>5, CountersTwice
<1>7. OnlyCounters(d, f[Len(a)].db) /\ f[Len(a)].ok
  <2> HIDE DEF J
  <2>1. 0 .. Len(a) \subseteq J
    BY <1>2, <1>5, <1>6, UpTo
  <2>2. Len(a) \in J
    BY <1>2, <2>1
  <2> QED BY <2>2 DEF J
<1>8. CASE ~x.ok
  <2>1. st = x
    BY <1>8 DEF Call, CallEach
  <2> QED BY <1>1, <1>3, <1>7, <2>1
<1>9. CASE x.ok
  <2>1. PICK id : id = Id("rule", n)
    OBVIOUS
  <2>2. Len(s) = Len(a) + 1 /\ s[Len(a) + 1] = Made(id, refs, rule)
    BY <1>1, <1>9, <2>1, CallOrder
  <2>3. PICK b, call : b = f[Len(a)] /\ call = Made(id, refs, rule)
    OBVIOUS
  <2>4. f[Len(s)] = Apply(b.db, rs, call)
    <3>1. Len(s) \in 1 .. Len(s) /\ Len(s) - 1 = Len(a)
      BY <1>2, <2>2
    <3> QED BY <1>3, <1>7, <2>2, <2>3, <3>1 DEF Apply1
  <2>5. call.id[1] = "rule" /\ call.id = id /\ call.of = rule
    BY <2>1, <2>3 DEF Made, Id
  <2>6. Apply(b.db, rs, call) = CreateRule(b.db, rs, id, rule)
    BY <2>5 DEF Apply
  <2>7. PICK z : z = CreateRule(b.db, rs, id, rule)
    OBVIOUS
  <2>8. (\E e : z = Done(e)) \/ z = Raise(b.db)
    BY <2>7 DEF CreateRule
  <2>9. ~z.ok
    <3>1. PICK c, ok : c = f[Len(s)] /\ ok = (c.ok /\ st.ok)
      OBVIOUS
    <3>2. run.ok = ok
      BY <1>3, <3>1
    <3>3. c = z
      BY <2>4, <2>6, <2>7, <3>1
    <3> QED BY <1>9, <3>1, <3>2, <3>3
  <2>10. z.db = b.db
    BY <2>8, <2>9, DoneIs
  <2> QED BY <1>3, <1>7, <2>3, <2>4, <2>6, <2>7, <2>10
<1> QED BY <1>0, <1>8, <1>9

-----------------------------------------------------------------------------
(* Rules on their own.                                                     *)

\* A rule of its own: parts, names that are counted, and itself.
LEMMA NewRuleIs ==
  ASSUME NEW d, NEW rs, NEW name, NEW rule, IsFiniteSet(rule.conds), NEW st, st = NewRule(d, rs, name, rule)
  PROVE  /\ Fine(st)
         /\ \E x, n, refs : /\ Base(x) /\ \A call \in ToSet(x.calls) : call.id[1] \in PartTypes
                            /\ st = Call(x, Id("rule", n), refs, rule)
                            /\ st.ok = x.ok
<1> DEFINE base == Start(Counts(d, rs))
           given == IF name = "" THEN None ELSE name
           table == Known(d, rs).rules
           y == Named(base, "rule", given, table)
<1>1. st = AddRule(base, given, rule, table)
  BY DEF NewRule
<1>2. Fine(base) /\ base.calls = <<>> /\ base.ok /\ base.rules = {}
  BY StartIs
<1> HIDE DEF base, given, table
<1>3. Fine(st)
  BY <1>1, <1>2, AddRuleIs DEF RuleRead
<1>4. st = MakeRule(y, y.last, rule)
  BY <1>1, <1>2 DEF AddRule
<1>5. Extended(base, y)
  BY <1>2, NamedIs DEF Fine
<1> HIDE DEF y
<1>6. PICK n : n = y.last
  OBVIOUS
<1>7. PICK x, refs : Extended(y, x) /\ st = Call(x, Id("rule", n), refs, rule) /\ st.ok = x.ok
  <2>1. Base(y)
    BY <1>5 DEF Extended
  <2> QED BY <1>4, <1>6, <2>1, MakeRuleIs
<1>8. Extended(base, x)
  BY <1>5, <1>7, ExtendedTwice
<1>9. ToSet(base.calls) = {}
  <2>1. DOMAIN <<>> = {}
    OBVIOUS
  <2> QED BY <1>2, <2>1 DEF ToSet
<1>10. Base(x) /\ \A call \in ToSet(x.calls) : call.id[1] \in PartTypes
  BY <1>8, <1>9 DEF Extended
<1> QED BY <1>3, <1>7, <1>10

\* The name that the server makes for a ruleset is a counter.
LEMMA ExternalIs ==
  ASSUME NEW d, NEW rs
  PROVE  OnlyCounters(d, External(d, rs).db) /\ (Sound(d) => Sound(External(d, rs).db))
<1> DEFINE n == FirstFree("ruleset", Count(d, None, "ruleset") + 1, Members(d, ListedKey))
           fields == [ruleset |-> n]
           e == Hset(d, CountKey(None), fields)
           in == External(d, rs)
<1>1. in.db = d \/ in.db = e
  BY DEF External
<1> HIDE DEF fields, in
<1>2. OnlyCounters(d, e)
  BY CountersHset
<1>3. ASSUME Sound(d) PROVE Sound(e)
  BY <1>3, CountKeyIs, CountSound
<1> HIDE DEF e
<1>4. OnlyCounters(d, in.db) /\ (Sound(d) => Sound(in.db))
  BY <1>1, <1>2, <1>3, CountersSelf
<1> QED BY <1>4 DEF in

\* The references of a rule, counted anew.
LEMMA RecountIs ==
  ASSUME NEW d, Natural(d), NEW rs, NEW n, NEW old, NEW rule, NEW e, e = Recount(d, rs, Id("rule", n), old, rule)
  PROVE  /\ Natural(e) /\ SameThings(d, e) /\ SameSets(d, e)
         /\ \A rs1, rtype, r, m : rs1 # rs \/ m # Id("rule", n) =>
               Score(e, <<rs1, rtype, r, "refs">>, m) >= Score(d, <<rs1, rtype, r, "refs">>, m)
         /\ \A r \in LimitsOf(rule) : ScoreOf(e, rs, "limiter", r, "rule", n) >= 1
<1> DEFINE who == Id("rule", n)
           refs == RefsOf(old)
           more == RefsOf(rule)
           down == [k \in RefsKeys(rs, refs) |-> -1]
           up == [k \in RefsKeys(rs, more) |-> 1]
           a == Zincr(d, down, who)
           b == ZremDown(a, RefsKeys(rs, refs))
           c == Zincr(b, up, who)
           k4(rs1, rtype, r) == <<rs1, rtype, r, "refs">>
<1>1. CASE more = {}
  <2>1. e = d
    BY <1>1 DEF Recount
  <2>2. \A r \in LimitsOf(rule) : FALSE
    BY <1>1 DEF RefsOf
  <2>3. SameThings(d, e) /\ SameSets(d, e) /\ SameRefs(d, e)
    BY <2>1, SameSelf DEF SameThings, SameSets, SameRefs
  <2>4. More(d, e)
    BY <2>3, SameMore
  <2> QED BY <2>1, <2>2, <2>3, <2>4 DEF More
<1>2. CASE more # {}
  <2>1. e = c
    BY <1>2 DEF Recount, RefAll, DropAll
  <2>2. /\ DOMAIN down = RefsKeys(rs, refs) /\ \A k \in DOMAIN down : down[k] = -1
        /\ DOMAIN up = RefsKeys(rs, more) /\ \A k \in DOMAIN up : up[k] = 1
    OBVIOUS
  <2> HIDE DEF down, up, refs
  <2>3. SameThings(d, a) /\ SameSets(d, a)
    BY <2>2, ZincrRefs
  <2>4. /\ \A k : k \notin DOMAIN down => Same(d, a, k)
        /\ \A k \in DOMAIN down : /\ Score(a, k, who) = Score(d, k, who) + down[k]
                                  /\ \A m : m # who => Score(a, k, m) = Score(d, k, m)
    BY ZincrIs
  <2> HIDE DEF a
  <2>5. SameThings(a, b) /\ SameSets(a, b)
    BY ZremRefs
  <2>6. /\ \A k : k \notin RefsKeys(rs, refs) => Same(a, b, k)
        /\ \A k \in RefsKeys(rs, refs) : \A m : Score(b, k, m) = IF Score(a, k, m) > 0 THEN Score(a, k, m) ELSE 0
    BY ZremDownIs
  <2> HIDE DEF b
  <2>7. ASSUME NEW rs1, NEW rtype, NEW r, NEW m
        PROVE  LET k == k4(rs1, rtype, r)
               IN  Score(b, k, m) \in Nat /\ (m # who => Score(b, k, m) = Score(d, k, m))
    <3> DEFINE k == k4(rs1, rtype, r)
    <3>1. Score(d, k, m) \in Nat
      BY DEF Natural
    <3> HIDE DEF k
    <3>2. CASE k \notin RefsKeys(rs, refs)
      <4>1. Score(b, k, m) = Score(d, k, m)
        BY <2>2, <2>4, <2>6, <3>2 DEF Same
      <4> QED BY <3>1, <4>1 DEF k
    <3>3. CASE k \in RefsKeys(rs, refs) /\ m # who
      <4>1. Score(a, k, m) = Score(d, k, m)
        BY <2>2, <2>4, <3>3
      <4>2. Score(b, k, m) = IF Score(a, k, m) > 0 THEN Score(a, k, m) ELSE 0
        BY <2>6, <3>3
      <4> QED BY <3>1, <4>1, <4>2 DEF k
    <3>4. CASE k \in RefsKeys(rs, refs) /\ m = who
      <4>1. Score(a, k, m) = Score(d, k, m) + (-1)
        BY <2>2, <2>4, <3>4
      <4>2. Score(b, k, m) = IF Score(a, k, m) > 0 THEN Score(a, k, m) ELSE 0
        BY <2>6, <3>4
      <4>3. Score(b, k, m) \in Nat
        BY <3>1, <4>1, <4>2
      <4> QED BY <3>4, <4>3 DEF k
    <3> QED BY <3>2, <3>3, <3>4
  <2>8. Natural(b)
    BY <2>7 DEF Natural
  <2>9. SameThings(b, c) /\ SameSets(b, c)
    BY <2>2, ZincrRefs
  <2>10. /\ Natural(c) /\ More(b, c)
         /\ \A k \in DOMAIN up : Score(c, k, who) = Score(b, k, who) + up[k]
    <3>1. \A k \in DOMAIN up : up[k] \in Nat
      BY <2>2
    <3> QED BY <2>2, <2>8, <3>1, ZincrMore DEF More
  <2> HIDE DEF c
  <2>11. ASSUME NEW r \in LimitsOf(rule) PROVE ScoreOf(c, rs, "limiter", r, "rule", n) >= 1
    <3> DEFINE k == k4(rs, "limiter", r)
    <3>1. Id("limiter", r) \in more
      BY DEF RefsOf
    <3>2. RefsKey(rs, Id("limiter", r)) = k
      BY Keys
    <3>3. k \in DOMAIN up
      BY <2>2, <3>1, <3>2 DEF RefsKeys
    <3>4. Score(b, k, who) \in Nat
      BY <2>8 DEF Natural
    <3>5. ScoreOf(c, rs, "limiter", r, "rule", n) = Score(c, k, who)
      BY DEF ScoreOf
    <3> HIDE DEF k, who
    <3>6. Score(c, k, who) = Score(b, k, who) + 1
      BY <2>2, <2>10, <3>3
    <3> QED BY <3>4, <3>5, <3>6
  <2>12. ASSUME NEW rs1, NEW rtype, NEW r, NEW m, rs1 # rs \/ m # who
         PROVE  Score(c, k4(rs1, rtype, r), m) >= Score(d, k4(rs1, rtype, r), m)
    <3> DEFINE k == k4(rs1, rtype, r)
    <3>1. Score(b, k, m) = Score(d, k, m)
      <4>1. CASE m # who
        BY <2>7, <4>1
      <4>2. CASE rs1 # rs
        <5>1. k \notin RefsKeys(rs, refs)
          BY <4>2 DEF RefsKeys, RefsKey
        <5> HIDE DEF k
        <5> QED BY <2>2, <2>4, <2>6, <5>1 DEF Same
      <4> QED BY <2>12, <4>1, <4>2
    <3>2. Score(c, k, m) >= Score(b, k, m)
      BY <2>10 DEF More
    <3> QED BY <3>1, <3>2
  <2>13. SameThings(d, c)
    BY <2>3, <2>5, <2>9, SameTwice DEF SameThings
  <2>14. SameSets(d, c)
    BY <2>3, <2>5, <2>9, SameThen
  <2> QED BY <2>1, <2>10, <2>11, <2>12, <2>13, <2>14
<1> QED BY <1>1, <1>2

\* A rule that is updated.
LEMMA UpdateSound ==
  ASSUME NEW d, Sound(d), NEW rs, NEW n, NEW old, NEW rule, IsRule(rule), NEW b, b = Recount(d, rs, Id("rule", n), old, rule),
         NEW e, e = Hset(b, <<rs, "rule", n>>, [rule |-> Stored(rule)])
  PROVE  Sound(e)
<1> DEFINE key == <<rs, "rule", n>>
           stored == Stored(rule)
           fields == [rule |-> stored]
<1>1. /\ Natural(b) /\ SameThings(d, b) /\ SameSets(d, b)
      /\ \A rs1, rtype, r, m : rs1 # rs \/ m # Id("rule", n) =>
               Score(b, <<rs1, rtype, r, "refs">>, m) >= Score(d, <<rs1, rtype, r, "refs">>, m)
      /\ \A r \in LimitsOf(rule) : ScoreOf(b, rs, "limiter", r, "rule", n) >= 1
  BY RecountIs DEF Sound
<1>2. LimitsOf(stored) = LimitsOf(rule)
  <2>1. stored.conds = rule.conds
    BY DEF Stored, IsRule
  <2> QED BY <2>1 DEF LimitsOf
<1>3. "rule" \in DOMAIN fields /\ fields["rule"] = stored
  OBVIOUS
<1> HIDE DEF stored, fields
<1>4. e = Hset(b, key, fields)
  BY DEF stored, fields
<1>5. SameThingsBut(b, e, key) /\ SameRefs(b, e) /\ SameSets(b, e)
  BY <1>4, HsetThing
<1>6. "rule" \in DOMAIN HashOf(e, rs, "rule", n) /\ HashOf(e, rs, "rule", n)["rule"] = stored
  BY <1>3, <1>4, FieldThere
<1>7. Keeps(d, e, rs, "rule", n)
  <2>1. \A x : x \in DOMAIN Hash(e, key) <=> x \in DOMAIN Hash(b, key) \/ x \in DOMAIN fields
    BY <1>4, HsetIs
  <2>2. Hash(b, key) = Hash(d, key)
    BY <1>1 DEF SameThings, Same
  <2> QED BY <2>1, <2>2 DEF Keeps, HashOf
<1>8. Natural(e)
  BY <1>1, <1>5, SameNatural
<1>9. SameThingsBut(d, e, key)
  BY <1>1, <1>5, SameThen
<1>10. Gains(d, e, rs, "limiters", n)
  <2>1. SameSets(d, e)
    BY <1>1, <1>5, SameThen
  <2> QED BY <2>1 DEF SameSets, Same, Gains
<1>11. ASSUME NEW rs1, NEW rtype, NEW r, NEW m, rs1 # rs \/ m # Id("rule", n)
       PROVE  Score(e, <<rs1, rtype, r, "refs">>, m) >= Score(d, <<rs1, rtype, r, "refs">>, m)
  <2>1. Score(e, <<rs1, rtype, r, "refs">>, m) = Score(b, <<rs1, rtype, r, "refs">>, m)
    BY <1>5 DEF SameRefs, Same
  <2>2. Score(b, <<rs1, rtype, r, "refs">>, m) >= Score(d, <<rs1, rtype, r, "refs">>, m)
    BY <1>1, <1>11
  <2> QED BY <2>1, <2>2
<1>12. Covers(e, rs, "rule", n)
  <2> SUFFICES ASSUME NEW rtype, NEW r
               PROVE  ScoreOf(e, rs, rtype, r, "rule", n) >= Refers("rule", HashOf(e, rs, "rule", n), rtype, r)
    BY DEF Covers
  <2>1. ScoreOf(e, rs, rtype, r, "rule", n) = ScoreOf(b, rs, rtype, r, "rule", n)
    BY <1>5 DEF SameRefs, Same, ScoreOf
  <2>2. ScoreOf(b, rs, rtype, r, "rule", n) \in Nat
    BY <1>1 DEF Natural, ScoreOf
  <2>3. CASE rtype = "limiter" /\ r \in LimitsOf(rule)
    <3>1. Refers("rule", HashOf(e, rs, "rule", n), rtype, r) = 1
      BY <1>2, <1>6, <2>3 DEF Refers
    <3> QED BY <1>1, <2>1, <2>3, <3>1
  <2>4. CASE ~(rtype = "limiter" /\ r \in LimitsOf(rule))
    <3>1. Refers("rule", HashOf(e, rs, "rule", n), rtype, r) = 0
      BY <1>2, <1>6, <2>4 DEF Refers
    <3> QED BY <2>1, <2>2, <3>1
  <2> QED BY <2>3, <2>4
<1>13. NamesRead("rule", HashOf(e, rs, "rule", n)) /\ Fits(e, "limiters", rs, "rule", n)
  BY DEF NamesRead, Fits
<1> HIDE DEF key
<1> QED BY <1>7, <1>8, <1>9, <1>10, <1>11, <1>12, <1>13, WrittenSound DEF key

-----------------------------------------------------------------------------
(* The steps, and the theorems.                                            *)

-----------------------------------------------------------------------------
\* Nothing is stored at first.
LEMMA Initially ==
  ASSUME Init
  PROVE  Sound(db)
<1>1. \A k, m : Hash(db, k) = <<>> /\ Members(db, k) = {} /\ Score(db, k, m) = 0
  <2>1. DOMAIN db = {}
    BY KeysDiffer DEF Init
  <2> QED BY <2>1, KeysDiffer DEF Hash, Members, Score, Exists
<1>2. \A rs, type, n : DOMAIN HashOf(db, rs, type, n) = {}
  BY <1>1, KeysDiffer DEF HashOf
<1>3. Natural(db)
  BY <1>1 DEF Natural
<1>4. AllNamed(db)
  BY <1>2 DEF AllNamed, NamesRead
<1>5. Covered(db)
  <2> SUFFICES ASSUME NEW rs, NEW type, NEW n, NEW rtype, NEW r
               PROVE  ScoreOf(db, rs, rtype, r, type, n) >= Refers(type, HashOf(db, rs, type, n), rtype, r)
    BY DEF Covered, Covers
  <2>1. ScoreOf(db, rs, rtype, r, type, n) = 0
    BY <1>1 DEF ScoreOf
  <2>2. Refers(type, HashOf(db, rs, type, n), rtype, r) = 0
    BY <1>2 DEF Refers
  <2> QED BY <2>1, <2>2
<1>6. Listed(db)
  BY <1>1 DEF Listed, ListedAs
<1> QED BY <1>3, <1>4, <1>5, <1>6 DEF Sound

\* A ruleset is created from a document that the parser accepts.
LEMMA RulesetCreateSound ==
  ASSUME Sound(db), NEW rs, NEW doc \in Documents, RulesetCreate(rs, doc)
  PROVE  Sound(db')
<1>1. CASE Exists(db, RulesetKey(rs)) \/ ~Accepts(doc)
  <2>1. db' = db
    BY <1>1 DEF RulesetCreate, Answer
  <2> QED BY <2>1
<1>2. CASE ~(Exists(db, RulesetKey(rs)) \/ ~Accepts(doc))
  <2>1. PICK l \in Orders(doc).limiters, r \in Orders(doc).rules, i \in Orders(doc).lists, p \in Orders(doc).phases :
          Outcome(<<"ruleset", rs>>,
                  Run(db, rs, NewObject(rs, doc, [limiters |-> l, rules |-> r, lists |-> i, phases |-> p])),
                  With(written, rs, doc))
    BY <1>2 DEF RulesetCreate
  <2> DEFINE order == [limiters |-> l, rules |-> r, lists |-> i, phases |-> p]
  <2>2. \A a \in Attributes : order[a] \in SetToSeqs(DOMAIN doc[a])
    <3>1. /\ order["limiters"] = l /\ order["rules"] = r /\ order["lists"] = i /\ order["phases"] = p
      OBVIOUS
    <3>2. \A a \in Attributes : Orders(doc)[a] = SetToSeqs(DOMAIN doc[a])
      BY DEF Orders
    <3>3. /\ Orders(doc).limiters = SetToSeqs(DOMAIN doc["limiters"]) /\ Orders(doc).rules = SetToSeqs(DOMAIN doc["rules"])
          /\ Orders(doc).lists = SetToSeqs(DOMAIN doc["lists"]) /\ Orders(doc).phases = SetToSeqs(DOMAIN doc["phases"])
      BY <3>2 DEF Attributes
    <3> HIDE DEF order
    <3> QED BY <3>1, <3>3 DEF Attributes
  <2> HIDE DEF order
  <2>3. Accepts(doc) /\ IsRead(doc)
    BY <1>2, Inputs
  <2>4. PICK counts, tables : counts = Counts(db, rs) /\ tables = Known(db, rs)
    OBVIOUS
  <2>5. Fine(New(doc, order, counts, tables))
    BY <2>2, <2>3, NewIs
  <2>6. PICK st : st = NewObject(rs, doc, order)
    OBVIOUS
  <2>7. Fine(st)
    BY <2>4, <2>5, <2>6 DEF NewObject
  <2>8. db' = Run(db, rs, st).db
    BY <2>1, <2>6 DEF Outcome, Answer, order
  <2> QED BY <2>7, <2>8, RunSound
<1> QED BY <1>1, <1>2

\* Whether a command about one rule wrote more than counters.
LEMMA RuleCreateIs ==
  ASSUME NEW rs, NEW name, NEW rule \in Rules, RuleCreate(rs, name, rule)
  PROVE  (Sound(db) => Sound(db')) /\ (answer' # "1" => OnlyCounters(db, db'))
<1>1. CASE db' = db
  BY <1>1, CountersSelf
<1>2. CASE Outcome(<<"rule", rs, name>>,
                   Run(External(db, rs).db, External(db, rs).rs, NewRule(External(db, rs).db, External(db, rs).rs, name, rule)),
                   WithRule(External(db, rs).rs, NewRule(External(db, rs).db, External(db, rs).rs, name, rule).last, rule))
  <2>1. PICK d, to, st, run : /\ d = External(db, rs).db /\ to = External(db, rs).rs
                              /\ st = NewRule(d, to, name, rule) /\ run = Run(d, to, st)
    OBVIOUS
  <2>2. db' = run.db /\ answer' = IF run.ok THEN "1" ELSE "error"
    BY <1>2, <2>1 DEF Outcome, Answer
  <2>3. IsFiniteSet(rule.conds)
    BY Inputs DEF IsRule
  <2>4. /\ Fine(st)
        /\ \E x, n, refs : /\ Base(x) /\ \A call \in ToSet(x.calls) : call.id[1] \in PartTypes
                           /\ st = Call(x, Id("rule", n), refs, rule)
                           /\ st.ok = x.ok
    BY <2>1, <2>3, NewRuleIs
  <2>5. OnlyCounters(db, d) /\ (Sound(db) => Sound(d))
    BY <2>1, ExternalIs
  <2>6. ASSUME Sound(db) PROVE Sound(db')
    <3>1. Sound(run.db)
      BY <2>1, <2>4, <2>5, <2>6, RunSound
    <3> QED BY <2>2, <3>1
  <2>7. ASSUME answer' # "1" PROVE OnlyCounters(db, db')
    <3>1. ~run.ok
      BY <2>2, <2>7
    <3>2. PICK x, n, refs : /\ Base(x) /\ \A call \in ToSet(x.calls) : call.id[1] \in PartTypes
                            /\ st = Call(x, Id("rule", n), refs, rule)
                            /\ st.ok = x.ok
      BY <2>4
    <3>3. Base(st)
      BY <2>4 DEF Fine
    <3>4. OnlyCounters(d, run.db)
      BY <2>1, <3>1, <3>2, <3>3, RuleRun
    <3> QED BY <2>2, <2>5, <3>4, CountersTwice
  <2> QED BY <2>6, <2>7
<1>3. db' = db \/ Outcome(<<"rule", rs, name>>,
                   Run(External(db, rs).db, External(db, rs).rs, NewRule(External(db, rs).db, External(db, rs).rs, name, rule)),
                   WithRule(External(db, rs).rs, NewRule(External(db, rs).db, External(db, rs).rs, name, rule).last, rule))
  <2>1. CASE Exists(db, <<rs, "rule", name>>)
    BY <2>1 DEF RuleCreate, Answer
  <2>2. CASE ~Exists(db, <<rs, "rule", name>>) /\ ~RuleOK(NewParser, rule)
    BY <2>2 DEF RuleCreate, Answer
  <2>3. CASE ~Exists(db, <<rs, "rule", name>>) /\ RuleOK(NewParser, rule) /\ ~Exists(db, RulesetKey(rs))
    BY <2>3 DEF RuleCreate, Answer
  <2>4. CASE ~Exists(db, <<rs, "rule", name>>) /\ RuleOK(NewParser, rule) /\ Exists(db, RulesetKey(rs))
    BY <2>4 DEF RuleCreate
  <2> QED BY <2>1, <2>2, <2>3, <2>4
<1> QED BY <1>1, <1>2, <1>3

\* A rule that is updated: an error comes before anything is written.
LEMMA RuleUpdateIs ==
  ASSUME NEW rs, NEW name, NEW rule \in Rules, RuleUpdate(rs, name, rule)
  PROVE  (Sound(db) => Sound(db')) /\ (answer' # "1" => OnlyCounters(db, db'))
<1> DEFINE key == <<rs, "rule", name>>
           in == External(db, rs)
           old == db[key].rule
           b == Recount(db, rs, Id("rule", name), old, rule)
           e == Hset(b, key, [rule |-> Stored(rule)])
<1>1. \/ db' = db
      \/ db' = in.db
      \/ db' = e /\ answer' = "1"
  <2>0. PICK none, unread, fits : /\ none = ~Exists(db, key)
                                  /\ unread = ~Readable(old)
                                  /\ fits = (in.rs = rs /\ Makes(rule))
    OBVIOUS
  <2>1. CASE none
    BY <2>0, <2>1 DEF RuleUpdate, Answer
  <2>2. CASE ~none /\ unread
    BY <2>0, <2>2 DEF RuleUpdate, Answer
  <2>3. CASE ~none /\ ~unread /\ (~Parses(rs, rule) \/ ~Exists(db, RulesetKey(rs)))
    BY <2>0, <2>3 DEF RuleUpdate, Answer
  <2>4. CASE ~none /\ ~unread /\ ~(~Parses(rs, rule) \/ ~Exists(db, RulesetKey(rs)))
    BY <2>0, <2>4 DEF RuleUpdate, Answer
  <2> QED BY <2>0, <2>1, <2>2, <2>3, <2>4
<1>2. CASE db' = db
  BY <1>2, CountersSelf
<1>3. CASE db' = in.db
  BY <1>3, ExternalIs
<1>4. CASE db' = e /\ answer' = "1"
  <2>1. IsRule(rule)
    BY Inputs
  <2>2. PICK was, a, c : was = old /\ a = b /\ c = e
    OBVIOUS
  <2>3. ASSUME Sound(db) PROVE Sound(c)
    <3>1. a = Recount(db, rs, Id("rule", name), was, rule) /\ c = Hset(a, <<rs, "rule", name>>, [rule |-> Stored(rule)])
      BY <2>2
    <3> QED BY <2>1, <2>3, <3>1, UpdateSound
  <2> QED BY <1>4, <2>2, <2>3
<1> QED BY <1>1, <1>2, <1>3, <1>4

\* The commands that are only answered.
LEMMA AnsweredIs ==
  ASSUME NEW rs, \/ \E doc \in Parts : ListCommand(rs, doc) \/ LimiterCommand(rs, doc)
                 \/ RulesetUpdate(rs) \/ Delete(rs)
  PROVE  (Sound(db) => Sound(db')) /\ OnlyCounters(db, db')
<1>1. ASSUME NEW key, NEW parsed, UpdateThing(rs, key, parsed) PROVE db' = db \/ db' = External(db, rs).db
  BY <1>1 DEF UpdateThing, Answer
<1>2. db' = db \/ db' = External(db, rs).db
  <2>1. ASSUME NEW doc, ListCommand(rs, doc) PROVE db' = db \/ db' = External(db, rs).db
    <3>1. PICK n \in DOMAIN doc.lists : ListCreate(rs, n, doc.lists[n]) \/ ListUpdate(rs, n, doc.lists[n])
      BY <2>1 DEF ListCommand
    <3>2. CASE ListCreate(rs, n, doc.lists[n])
      BY <3>2 DEF ListCreate, Answer
    <3>3. CASE ListUpdate(rs, n, doc.lists[n])
      BY <1>1, <3>3 DEF ListUpdate
    <3> QED BY <3>1, <3>2, <3>3
  <2>2. ASSUME NEW doc, LimiterCommand(rs, doc) PROVE db' = db \/ db' = External(db, rs).db
    <3>1. PICK n \in DOMAIN doc.limiters : \/ LimiterUpdate(rs, n, doc.limiters[n])
                                           \/ \E k \in Lengths : LimiterCreate(rs, k, doc.limiters[n])
      BY <2>2 DEF LimiterCommand
    <3>2. CASE LimiterUpdate(rs, n, doc.limiters[n])
      BY <1>1, <3>2 DEF LimiterUpdate
    <3>3. CASE \E k \in Lengths : LimiterCreate(rs, k, doc.limiters[n])
      BY <3>3 DEF LimiterCreate, Answer
    <3> QED BY <3>1, <3>2, <3>3
  <2>3. CASE RulesetUpdate(rs)
    BY <2>3 DEF RulesetUpdate, Answer
  <2>4. CASE Delete(rs)
    BY <2>4 DEF Delete, Answer
  <2> QED BY <2>1, <2>2, <2>3, <2>4
<1> QED BY <1>2, ExternalIs, CountersSelf

\* Every command leaves what is stored sound, done or refused.
LEMMA StepSound ==
  ASSUME Sound(db), [Next]_vars
  PROVE  Sound(db')
<1>1. CASE Next
  <2>1. PICK rs \in Rulesets :
          \/ \E doc \in Documents : RulesetCreate(rs, doc)
          \/ \E doc \in Parts : ListCommand(rs, doc) \/ LimiterCommand(rs, doc)
          \/ \E name \in RuleNames, rule \in Rules : RuleCreate(rs, name, rule) \/ RuleUpdate(rs, name, rule)
          \/ RulesetUpdate(rs) \/ Delete(rs)
    BY <1>1 DEF Next
  <2> QED BY <2>1, RulesetCreateSound, RuleCreateIs, RuleUpdateIs, AnsweredIs
<1>2. CASE UNCHANGED vars
  BY <1>2 DEF vars
<1> QED BY <1>1, <1>2

\* What is sound has every reference that a document read back has.
LEMMA SoundCovers ==
  ASSUME Sound(db)
  PROVE  RefsCover
<1> SUFFICES ASSUME NEW rs \in Rulesets
             PROVE  LET doc == Read(rs)
                    IN /\ \A n \in DOMAIN doc.limiters :
                            doc.limiters[n].burst # None => Counted(rs, Id("limiter", doc.limiters[n].burst), Id("limiter", n), 1)
                       /\ \A n \in DOMAIN doc.rules :
                            \A ref \in RefsOf(doc.rules[n]) : Counted(rs, ref, Id("rule", n), 1)
                       /\ \A n \in DOMAIN doc.lists :
                            LET names == Get(rs, "list", n).names
                            IN \A r \in ToSet(names) : Counted(rs, Id("rule", r), Id("list", n), Times(names, r))
                       /\ \A n \in DOMAIN doc.phases :
                            LET names == Get(rs, "phase", n).names
                            IN \A l \in ToSet(names) : Counted(rs, Id("list", l), Id("phase", n), Times(names, l))
  BY DEF RefsCover
<1> DEFINE doc == Read(rs)
<1>0. \A type, n, rtype, r : Score(db, RefsKey(rs, Id(rtype, r)), Id(type, n)) >= Refers(type, HashOf(db, rs, type, n), rtype, r)
  BY Keys DEF Sound, Covered, Covers, ScoreOf
<1>1. \A type, n : Get(rs, type, n) = HashOf(db, rs, type, n)
  BY DEF Get, HashOf
<1>2. /\ doc.limiters = [n \in Members(db, SetKey(rs, "limiters")) |-> LimiterOf(Get(rs, "limiter", n))]
      /\ doc.rules = [n \in Members(db, SetKey(rs, "rules")) |-> Get(rs, "rule", n).rule]
      /\ DOMAIN doc.lists = Members(db, SetKey(rs, "lists"))
      /\ DOMAIN doc.phases = Members(db, SetKey(rs, "phases"))
  BY DEF Read
<1> HIDE DEF doc
<1>3. ASSUME NEW n \in DOMAIN doc.limiters, doc.limiters[n].burst # None
      PROVE  Counted(rs, Id("limiter", doc.limiters[n].burst), Id("limiter", n), 1)
  <2>1. PICK h, burst : h = HashOf(db, rs, "limiter", n) /\ burst = doc.limiters[n].burst
    OBVIOUS
  <2>2. doc.limiters[n] = LimiterOf(h)
    BY <1>1, <1>2, <2>1
  <2>3. burst = IF "burst" \in DOMAIN h THEN h["burst"] ELSE None
    <3>1. LimiterOf(h).burst = IF "burst" \in DOMAIN h THEN h.burst ELSE None
      BY DEF LimiterOf
    <3>2. burst = LimiterOf(h).burst
      BY <2>1, <2>2
    <3> QED BY <3>1, <3>2
  <2>4. Refers("limiter", h, "limiter", burst) = 1
    BY <1>3, <2>1, <2>3 DEF Refers
  <2> QED BY <1>0, <2>1, <2>4 DEF Counted
<1>4. ASSUME NEW n \in DOMAIN doc.rules, NEW ref \in RefsOf(doc.rules[n])
      PROVE  Counted(rs, ref, Id("rule", n), 1)
  <2>1. PICK h : h = HashOf(db, rs, "rule", n)
    OBVIOUS
  <2>2. "rule" \in DOMAIN h
    <3>1. n \in Members(db, <<rs, "rules">>)
      BY <1>2, Keys
    <3> QED BY <2>1, <3>1 DEF Sound, Listed, ListedAs
  <2>3. doc.rules[n] = h["rule"]
    BY <1>1, <1>2, <2>1
  <2>4. PICK r \in LimitsOf(h["rule"]) : ref = Id("limiter", r)
    BY <2>3 DEF RefsOf
  <2>5. Refers("rule", h, "limiter", r) = 1
    BY <2>2 DEF Refers
  <2> QED BY <1>0, <2>1, <2>4, <2>5 DEF Counted
<1>5. ASSUME NEW n \in DOMAIN doc.lists, NEW r
      PROVE  Counted(rs, Id("rule", r), Id("list", n), Times(Get(rs, "list", n).names, r))
  <2>1. PICK h : h = HashOf(db, rs, "list", n)
    OBVIOUS
  <2>2. "names" \in DOMAIN h
    <3>1. n \in Members(db, <<rs, "lists">>)
      BY <1>2, Keys
    <3> QED BY <2>1, <3>1 DEF Sound, Listed, ListedAs
  <2>3. Refers("list", h, "rule", r) = Times(h["names"], r)
    BY <2>2 DEF Refers
  <2> QED BY <1>0, <1>1, <2>1, <2>3 DEF Counted
<1>6. ASSUME NEW n \in DOMAIN doc.phases, NEW l
      PROVE  Counted(rs, Id("list", l), Id("phase", n), Times(Get(rs, "phase", n).names, l))
  <2>1. PICK h : h = HashOf(db, rs, "phase", n)
    OBVIOUS
  <2>2. "names" \in DOMAIN h
    <3>1. n \in Members(db, <<rs, "phases">>)
      BY <1>2, Keys
    <3> QED BY <2>1, <3>1 DEF Sound, Listed, ListedAs
  <2>3. Refers("phase", h, "list", l) = Times(h["names"], l)
    BY <2>2 DEF Refers
  <2> QED BY <1>0, <1>1, <2>1, <2>3 DEF Counted
<1> QED BY <1>3, <1>4, <1>5, <1>6 DEF doc

\* Whatever commands come, in any order and number, done or refused half way:
\* scores are natural numbers; lists and phases have arrays of names; every
\* thing that refers to another is counted there at least as often; what the
\* sets of a ruleset name has a hash that can be read.
THEOREM StoreInvariant == Spec => []Sound(db)
<1>1. Init => Sound(db)
  BY Initially
<1>2. Sound(db) /\ [Next]_vars => Sound(db)'
  BY StepSound
<1> QED BY <1>1, <1>2, PTL DEF Spec

\* A reference that a ruleset has, read back from Redis, is counted: as long
\* as a thing is needed its sorted set of references is not empty, so the
\* count that lets a thing be deleted never says too little.
THEOREM StoreRefs == Spec => []RefsCover
<1>1. Sound(db) => RefsCover
  BY SoundCovers
<1> QED BY <1>1, StoreInvariant, PTL

\* A command about one rule, one list or one limiter that answers with an
\* error has left everything stored as it was, but for the numbers that
\* generated names are made of.
THEOREM StoreRefused == Spec => RefusedIsUndone
<1> DEFINE A == answer' # "1" /\ command'[1] # "ruleset"
                 => \A k \in (DOMAIN db \cup DOMAIN db') \ CounterKeys :
                       k \in DOMAIN db \cap DOMAIN db' /\ db[k] = db'[k]
<1>1. ASSUME Next PROVE A
  <2> SUFFICES ASSUME answer' # "1", command'[1] # "ruleset" PROVE A
    OBVIOUS
  <2>1. PICK rs \in Rulesets :
          \/ \E doc \in Documents : RulesetCreate(rs, doc)
          \/ \E doc \in Parts : ListCommand(rs, doc) \/ LimiterCommand(rs, doc)
          \/ \E name \in RuleNames, rule \in Rules : RuleCreate(rs, name, rule) \/ RuleUpdate(rs, name, rule)
          \/ RulesetUpdate(rs) \/ Delete(rs)
    BY <1>1 DEF Next
  <2>2. ASSUME NEW doc, RulesetCreate(rs, doc) PROVE FALSE
    <3>1. command' = <<"ruleset", rs>>
      BY <2>2 DEF RulesetCreate, Outcome, Answer
    <3> QED BY <3>1
  <2>3. OnlyCounters(db, db')
    BY <2>1, <2>2, RuleCreateIs, RuleUpdateIs, AnsweredIs
  <2>4. CounterKeys = Counters(db')
    BY DEF CounterKeys, Counters
  <2> QED BY <2>3, <2>4 DEF OnlyCounters
<1>2. Next => A
  BY <1>1
<1> HIDE DEF A
<1>3. [Next]_vars => [A]_vars
  BY <1>2
<1>4. Spec => [][A]_vars
  BY <1>3, PTL DEF Spec
<1> QED BY <1>4 DEF RefusedIsUndone, A
=============================================================================
