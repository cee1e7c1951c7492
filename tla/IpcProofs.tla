------------------------------ MODULE IpcProofs ------------------------------
(***************************************************************************)
(* Proofs about the interprocess alerts, src/src/util/ipc.c, for any       *)
(* number of workers, any room in the pipes, any number of alerts and      *)
(* crashes, and whatever may happen: their types, that they reach          *)
(* processes that handle them, how packets and parts hang together, no     *)
(* alert twice, slot 0 apart, and what AlertQueue promises.  The last two  *)
(* rest on the alerts that one slot has sent to another in the order they  *)
(* go: those handed over, those in the pipe, those that wait for it.       *)
(*                                                                         *)
(* First what the elements At some indexes of a sequence are, and what     *)
(* that says of the slots that SlotsOf finds.                              *)
(***************************************************************************)
EXTENDS Ipc, SequenceTheorems, WellFoundedInduction, TLAPS

-----------------------------------------------------------------------------
(* Induction over indexes, as the smallest counterexample.                 *)
LEMMA SmallestNat ==
  ASSUME NEW T, T \subseteq Nat, T # {}
  PROVE  \E x \in T : \A y \in T : x <= y
<1> DEFINE R == OpToRel(<, Nat)
<1>1. IsWellFoundedOn(R, Nat)
  BY NatLessThanWellFounded
<1> HIDE DEF R
<1>2. PICK x \in T : \A y \in T : ~(<<y, x>> \in R)
  BY <1>1, WFMin
<1>3. \A y \in T : y < x => <<y, x>> \in R
  BY DEF R, OpToRel
<1>4. \A y \in T : y \in Nat /\ ~(y < x)
  BY <1>2, <1>3
<1>5. x \in Nat
  OBVIOUS
<1> QED
  BY <1>4, <1>5

-----------------------------------------------------------------------------
(* What the elements At some indexes are.                                  *)

\* f[n] are the elements at the indexes in I, of the first n of seq.
Upto(f, seq, I) ==
  /\ f[0] = <<>>
  /\ \A n \in 1 .. Len(seq) :
       f[n] = IF n \in I THEN Append(f[n - 1], seq[n]) ELSE f[n - 1]

LEMMA UptoExists ==
  ASSUME NEW T, NEW seq \in Seq(T), NEW I
  PROVE  \E f \in [0 .. Len(seq) -> Seq(T)] : Upto(f, seq, I)
<1> DEFINE To(f, m) ==
             /\ f[0] = <<>>
             /\ \A n \in 1 .. m :
                  f[n] = IF n \in I THEN Append(f[n - 1], seq[n]) ELSE f[n - 1]
           Bad == {m \in 0 .. Len(seq) : ~\E f \in [0 .. m -> Seq(T)] : To(f, m)}
<1>1. Len(seq) \in Nat /\ \A n \in 1 .. Len(seq) : seq[n] \in T
  BY ElementOfSeq, LenProperties
<1>2. Bad = {}
  <2> SUFFICES ASSUME Bad # {} PROVE FALSE
    OBVIOUS
  <2>1. PICK m \in Bad : \A n \in Bad : m <= n
    <3> Bad \subseteq Nat
      OBVIOUS
    <3> QED
      BY SmallestNat
  <2>2. m # 0
    <3> DEFINE f == [n \in 0 .. 0 |-> <<>>]
    <3>1. f \in [0 .. 0 -> Seq(T)] /\ To(f, 0)
      BY EmptySeq
    <3> HIDE DEF f
    <3> QED
      BY <3>1
  <2>3. m - 1 \in 0 .. Len(seq) /\ m - 1 \notin Bad /\ m \in 1 .. Len(seq)
    <3>1. m \in 0 .. Len(seq)
      OBVIOUS
    <3> HIDE DEF Bad
    <3> QED
      BY <1>1, <2>1, <2>2, <3>1
  <2>4. PICK g \in [0 .. m - 1 -> Seq(T)] : To(g, m - 1)
    BY <2>3
  <2>5. PICK x : x = IF m \in I THEN Append(g[m - 1], seq[m]) ELSE g[m - 1]
    OBVIOUS
  <2>6. x \in Seq(T)
    <3>1. g[m - 1] \in Seq(T) /\ seq[m] \in T
      BY <1>1, <2>3, <2>4
    <3> QED
      BY <2>5, <3>1, AppendProperties
  <2> DEFINE f == [n \in 0 .. m |-> IF n = m THEN x ELSE g[n]]
  <2>7. f \in [0 .. m -> Seq(T)]
    BY <2>3, <2>4, <2>6
  <2>8. f[0] = g[0] /\ f[m] = x /\ \A n \in 1 .. m - 1 : f[n] = g[n]
    BY <2>3
  <2>9. f[m - 1] = g[m - 1] /\ \A n \in 1 .. m - 1 : f[n - 1] = g[n - 1]
    BY <2>3
  <2> HIDE DEF f
  <2>10. To(f, m)
    <3>1. f[0] = <<>>
      BY <2>4, <2>8
    <3>2. ASSUME NEW n \in 1 .. m
          PROVE  f[n] = IF n \in I THEN Append(f[n - 1], seq[n]) ELSE f[n - 1]
      <4>1. CASE n = m
        BY <2>5, <2>8, <2>9, <4>1
      <4>2. CASE n # m
        <5>1. n \in 1 .. m - 1
          BY <2>3, <4>2
        <5> QED
          BY <2>4, <2>8, <2>9, <5>1
      <4> QED
        BY <4>1, <4>2
    <3> QED
      BY <3>1, <3>2
  <2> HIDE DEF To
  <2> QED
    BY <2>1, <2>7, <2>10
<1>3. PICK f \in [0 .. Len(seq) -> Seq(T)] : To(f, Len(seq))
  <2>1. Len(seq) \in 0 .. Len(seq)
    BY <1>1
  <2> HIDE DEF To
  <2> QED
    BY <1>2, <2>1
<1> QED
  BY <1>3 DEF Upto

\* The first m of two sequences, and the indexes in I and J, are the same.
Agree(seq, other, I, J, m) ==
  /\ Len(seq) \in Nat /\ Len(other) \in Nat
  /\ m \in Nat /\ m <= Len(seq) /\ m <= Len(other)
  /\ \A n \in 1 .. m : seq[n] = other[n] /\ (n \in I <=> n \in J)

LEMMA UptoSame ==
  ASSUME NEW seq, NEW I, NEW f, Upto(f, seq, I),
         NEW other, NEW J, NEW g, Upto(g, other, J),
         NEW m, Agree(seq, other, I, J, m)
  PROVE  \A n \in 0 .. m : f[n] = g[n]
<1> DEFINE Bad == {n \in 0 .. m : f[n] # g[n]}
<1> SUFFICES ASSUME Bad # {} PROVE FALSE
  OBVIOUS
<1>1. PICK n \in Bad : \A k \in Bad : n <= k
  <2> Bad \subseteq Nat
    OBVIOUS
  <2> QED
    BY SmallestNat
<1>2. n # 0 /\ m \in Nat
  BY <1>1 DEF Upto, Agree
<1>3. n \in 1 .. m /\ n - 1 \in 0 .. m /\ n - 1 \notin Bad
  BY <1>1, <1>2
<1>4. f[n - 1] = g[n - 1] /\ n \in 1 .. Len(seq) /\ n \in 1 .. Len(other)
  BY <1>3 DEF Agree
<1>5. seq[n] = other[n] /\ (n \in I <=> n \in J)
  BY <1>3 DEF Agree
<1> QED
  BY <1>1, <1>3, <1>4, <1>5 DEF Upto

LEMMA AtUpto ==
  ASSUME NEW T, NEW seq \in Seq(T), NEW I
  PROVE  \E f \in [0 .. Len(seq) -> Seq(T)] :
           Upto(f, seq, I) /\ At(seq, I) = f[Len(seq)]
<1> DEFINE Rec(f) ==
             f = [n \in 0 .. Len(seq) |->
                    IF n = 0 THEN <<>>
                    ELSE IF n \in I THEN Append(f[n - 1], seq[n])
                                    ELSE f[n - 1]]
           upto == CHOOSE f : Rec(f)
<1>1. Len(seq) \in Nat
  BY LenProperties
<1>2. PICK g \in [0 .. Len(seq) -> Seq(T)] : Upto(g, seq, I)
  BY UptoExists
<1>3. Rec(g)
  <2>1. g[0] = <<>>
    BY <1>2 DEF Upto
  <2>2. ASSUME NEW n \in 0 .. Len(seq), n # 0
        PROVE  g[n] = IF n \in I THEN Append(g[n - 1], seq[n]) ELSE g[n - 1]
    <3>1. n \in 1 .. Len(seq)
      BY <1>1, <2>2
    <3> QED
      BY <1>2, <3>1 DEF Upto
  <2> QED
    BY <1>2, <2>1, <2>2
<1>4. Rec(upto)
  BY <1>3
<1>5. At(seq, I) = upto[Len(seq)]
  BY DEF At
<1> HIDE DEF upto
<1>6. DOMAIN upto = 0 .. Len(seq) /\ Upto(upto, seq, I)
  <2>1. upto[0] = <<>>
    BY <1>1, <1>4
  <2>2. ASSUME NEW n \in 1 .. Len(seq)
        PROVE  upto[n] = IF n \in I THEN Append(upto[n - 1], seq[n]) ELSE upto[n - 1]
    <3>1. n \in 0 .. Len(seq) /\ n # 0
      BY <1>1
    <3> QED
      BY <1>4, <3>1
  <2> QED
    BY <1>1, <1>4, <2>1, <2>2 DEF Upto
<1>7. \A n \in 0 .. Len(seq) : upto[n] = g[n]
  <2>1. Agree(seq, seq, I, I, Len(seq))
    BY <1>1 DEF Agree
  <2> QED
    BY <1>2, <1>6, <2>1, UptoSame
<1>8. At(seq, I) = g[Len(seq)]
  BY <1>1, <1>5, <1>7
<1> QED
  BY <1>2, <1>8

LEMMA AtType ==
  ASSUME NEW T, NEW seq \in Seq(T), NEW I
  PROVE  At(seq, I) \in Seq(T)
<1>1. PICK f \in [0 .. Len(seq) -> Seq(T)] :
             Upto(f, seq, I) /\ At(seq, I) = f[Len(seq)]
  BY AtUpto
<1> QED
  BY <1>1, LenProperties

LEMMA AtEmpty ==
  ASSUME NEW I
  PROVE  At(<<>>, I) = <<>>
<1>1. <<>> \in Seq({}) /\ Len(<<>>) = 0
  BY EmptySeq
<1>2. PICK f \in [0 .. Len(<<>>) -> Seq({})] :
             Upto(f, <<>>, I) /\ At(<<>>, I) = f[Len(<<>>)]
  BY <1>1, AtUpto
<1> QED
  BY <1>1, <1>2 DEF Upto

LEMMA AtAppend ==
  ASSUME NEW T, NEW seq \in Seq(T), NEW x \in T, NEW I, NEW J,
         \A n \in 1 .. Len(seq) : n \in I <=> n \in J
  PROVE  At(Append(seq, x), J) = IF Len(seq) + 1 \in J THEN Append(At(seq, I), x)
                                                     ELSE At(seq, I)
<1> PICK all : all = Append(seq, x)
  OBVIOUS
<1> PICK len : len = Len(seq)
  OBVIOUS
<1>1. /\ all \in Seq(T) /\ Len(all) = len + 1 /\ len \in Nat /\ len = Len(seq)
      /\ all[len + 1] = x
      /\ \A n \in 1 .. len : all[n] = seq[n]
  BY AppendProperties, LenProperties
<1>2. PICK f \in [0 .. Len(seq) -> Seq(T)] :
             Upto(f, seq, I) /\ At(seq, I) = f[Len(seq)]
  BY AtUpto
<1>3. PICK g \in [0 .. Len(all) -> Seq(T)] :
             Upto(g, all, J) /\ At(all, J) = g[Len(all)]
  BY <1>1, AtUpto
<1>4. \A n \in 0 .. len : f[n] = g[n]
  <2>1. Agree(seq, all, I, J, len)
    BY <1>1 DEF Agree
  <2>2. Upto(f, seq, I) /\ Upto(g, all, J)
    BY <1>2, <1>3
  <2> QED
    BY <2>1, <2>2, UptoSame
<1>5. g[len + 1] = IF len + 1 \in J THEN Append(g[len], x) ELSE g[len]
  <2>1. len + 1 \in 1 .. Len(all) /\ (len + 1) - 1 = len
    BY <1>1
  <2> QED
    BY <1>1, <1>3, <2>1 DEF Upto
<1>6. f[len] = g[len]
  BY <1>1, <1>4
<1> QED
  BY <1>1, <1>2, <1>3, <1>5, <1>6

LEMMA AtHead ==
  ASSUME NEW T, NEW seq \in Seq(T), seq # <<>>, NEW I, NEW J,
         \A n \in 1 .. Len(seq) - 1 : n \in J <=> n + 1 \in I
  PROVE  At(seq, I) = IF 1 \in I THEN <<Head(seq)>> \o At(Tail(seq), J)
                                 ELSE At(Tail(seq), J)
<1>a. PICK tail : tail = Tail(seq)
  OBVIOUS
<1>b. PICK len : len = Len(tail)
  OBVIOUS
<1>c. PICK one : one = IF 1 \in I THEN <<Head(seq)>> ELSE <<>>
  OBVIOUS
<1>1. /\ tail \in Seq(T) /\ Len(seq) = len + 1 /\ len \in Nat
      /\ Head(seq) \in T /\ Head(seq) = seq[1]
      /\ \A n \in 1 .. len : tail[n] = seq[n + 1]
  <2>1. Len(tail) \in Nat /\ Len(seq) \in Nat
    BY <1>a, HeadTailProperties, LenProperties
  <2>2. Head(seq) = seq[1]
    OBVIOUS
  <2> QED
    BY <1>a, <1>b, <2>1, <2>2, HeadTailProperties
<1>2. PICK f \in [0 .. Len(seq) -> Seq(T)] :
             Upto(f, seq, I) /\ At(seq, I) = f[Len(seq)]
  BY AtUpto
<1>3. PICK g \in [0 .. Len(tail) -> Seq(T)] :
             Upto(g, tail, J) /\ At(tail, J) = g[Len(tail)]
  <2>1. tail \in Seq(T)
    BY <1>1
  <2> QED
    BY <2>1, AtUpto
<1>4. one \in Seq(T) /\ f[1] = one \o g[0]
  <2>1. f[1] = IF 1 \in I THEN Append(f[0], seq[1]) ELSE f[0]
    <3>1. 1 \in 1 .. Len(seq) /\ 1 - 1 = 0
      BY <1>1
    <3> QED
      BY <1>2, <3>1 DEF Upto
  <2>2. f[0] = <<>> /\ g[0] = <<>>
    BY <1>2, <1>3 DEF Upto
  <2>3. Append(<<>>, seq[1]) = <<seq[1]>>
    OBVIOUS
  <2>4. one \in Seq(T)
    BY <1>1, <1>c
  <2> QED
    BY <1>1, <1>c, <2>1, <2>2, <2>3, <2>4, ConcatEmptySeq
<1>5. ASSUME NEW n \in 1 .. len, f[n] = one \o g[n - 1]
      PROVE  f[n + 1] = one \o g[n]
  <2>1. f[n + 1] = IF n + 1 \in I THEN Append(f[n], seq[n + 1]) ELSE f[n]
    <3>1. n + 1 \in 1 .. Len(seq) /\ (n + 1) - 1 = n
      BY <1>1
    <3> QED
      BY <1>2, <3>1 DEF Upto
  <2>2. g[n] = IF n \in J THEN Append(g[n - 1], tail[n]) ELSE g[n - 1]
    BY <1>3, <1>b DEF Upto
  <2>a. PICK h : h = g[n - 1]
    OBVIOUS
  <2>b. PICK y : y = tail[n]
    OBVIOUS
  <2>3. h \in Seq(T)
    <3>1. n - 1 \in 0 .. len
      BY <1>1
    <3> QED
      BY <1>3, <1>b, <2>a, <3>1
  <2>4. y = seq[n + 1] /\ y \in T /\ (n \in J <=> n + 1 \in I)
    BY <1>1, <1>b, <2>b, ElementOfSeq
  <2>5. one \o Append(h, y) = Append(one \o h, y)
    <3>1. one \in Seq(T)
      BY <1>4
    <3> QED
      BY <2>3, <2>4, <3>1
  <2> QED
    BY <1>5, <2>1, <2>2, <2>4, <2>5, <2>a, <2>b
<1> DEFINE Bad == {n \in 1 .. len + 1 : f[n] # one \o g[n - 1]}
<1>6. f[len + 1] = one \o g[len]
  <2>a. SUFFICES ASSUME f[len + 1] # one \o g[len] PROVE FALSE
    OBVIOUS
  <2>1. len + 1 \in Bad /\ Bad \subseteq Nat
    <3>1. len + 1 \in 1 .. len + 1 /\ (len + 1) - 1 = len
      BY <1>1
    <3>2. f[len + 1] # one \o g[(len + 1) - 1]
      BY <2>a, <3>1
    <3> QED
      BY <1>1, <3>1, <3>2
  <2>2. PICK n \in Bad : \A k \in Bad : n <= k
    <3> HIDE DEF Bad
    <3> QED
      BY <2>1, SmallestNat
  <2>3. n \in 1 .. len + 1 /\ f[n] # one \o g[n - 1] /\ n # 1
    <3>1. n \in 1 .. len + 1 /\ f[n] # one \o g[n - 1]
      OBVIOUS
    <3>2. 1 - 1 = 0
      OBVIOUS
    <3> QED
      BY <1>4, <3>1, <3>2
  <2>4. PICK k \in 1 .. len : n = k + 1 /\ n - 1 = k
    BY <1>1, <2>3
  <2>5. k \notin Bad
    <3> HIDE DEF Bad
    <3> QED
      BY <2>2, <2>4
  <2>6. f[k] = one \o g[k - 1]
    <3>1. k \in 1 .. len + 1
      BY <1>1
    <3> QED
      BY <2>5, <3>1
  <2> QED
    BY <1>5, <2>3, <2>4, <2>6
<1>7. g[len] \in Seq(T)
  <2>1. len \in 0 .. Len(tail)
    BY <1>1, <1>b
  <2> QED
    BY <1>3, <2>1
<1>8. At(seq, I) = one \o At(tail, J) /\ At(tail, J) \in Seq(T)
  BY <1>1, <1>2, <1>3, <1>6, <1>7, <1>b
<1> QED
  BY <1>8, <1>a, <1>c, ConcatEmptySeq

(* The elements At some indexes are those at the indexes, in their order.  *)
Spells(h, chosen, seq, I, n) ==
  /\ h \in [1 .. Len(chosen) -> 1 .. n]
  /\ \A i \in 1 .. Len(chosen) : h[i] \in I /\ chosen[i] = seq[h[i]]
  /\ \A i, j \in 1 .. Len(chosen) : i < j => h[i] < h[j]
  /\ \A k \in 1 .. n : k \in I => \E i \in 1 .. Len(chosen) : h[i] = k

LEMMA SpellsMore ==
  ASSUME NEW T, NEW seq \in Seq(T), NEW I, NEW n \in Nat, n + 1 <= Len(seq),
         NEW chosen \in Seq(T), NEW h, Spells(h, chosen, seq, I, n)
  PROVE  \E g : Spells(g, IF n + 1 \in I THEN Append(chosen, seq[n + 1]) ELSE chosen,
                       seq, I, n + 1)
<1>1. seq[n + 1] \in T /\ Len(chosen) \in Nat
  BY ElementOfSeq, LenProperties
<1>2. CASE n + 1 \notin I
  <2>1. h \in [1 .. Len(chosen) -> 1 .. n + 1]
    BY DEF Spells
  <2>2. \A k \in 1 .. n + 1 : k \in I => \E i \in 1 .. Len(chosen) : h[i] = k
    <3>1. \A k \in 1 .. n + 1 : k \in I => k \in 1 .. n
      BY <1>2
    <3> QED
      BY <3>1 DEF Spells
  <2>3. Spells(h, chosen, seq, I, n + 1)
    BY <2>1, <2>2 DEF Spells
  <2> QED
    BY <1>2, <2>3
<1>3. CASE n + 1 \in I
  <2>a. PICK all : all = Append(chosen, seq[n + 1])
    OBVIOUS
  <2>b. PICK len : len = Len(chosen)
    OBVIOUS
  <2>1. /\ len \in Nat /\ Len(all) = len + 1
        /\ all[len + 1] = seq[n + 1]
        /\ \A i \in 1 .. len : all[i] = chosen[i]
    BY <1>1, <2>a, <2>b, AppendProperties
  <2>2. /\ h \in [1 .. len -> 1 .. n]
        /\ \A i \in 1 .. len : h[i] \in I /\ chosen[i] = seq[h[i]]
        /\ \A i, j \in 1 .. len : i < j => h[i] < h[j]
        /\ \A k \in 1 .. n : k \in I => \E i \in 1 .. len : h[i] = k
    BY <2>b DEF Spells
  <2> DEFINE g == [i \in 1 .. len + 1 |-> IF i = len + 1 THEN n + 1 ELSE h[i]]
  <2>3. g[len + 1] = n + 1 /\ \A i \in 1 .. len : g[i] = h[i]
    BY <2>1
  <2>4. g \in [1 .. Len(all) -> 1 .. n + 1]
    BY <2>1, <2>2
  <2> HIDE DEF g
  <2>5. \A i \in 1 .. len + 1 : g[i] \in I /\ all[i] = seq[g[i]]
    <3> TAKE i \in 1 .. len + 1
    <3>1. CASE i = len + 1
      BY <1>3, <2>1, <2>3, <3>1
    <3>2. CASE i \in 1 .. len
      BY <2>1, <2>2, <2>3, <3>2
    <3> QED
      BY <2>1, <3>1, <3>2
  <2>6. \A i, j \in 1 .. len + 1 : i < j => g[i] < g[j]
    <3> TAKE i, j \in 1 .. len + 1
    <3> HAVE i < j
    <3>1. i \in 1 .. len /\ h[i] \in 1 .. n
      BY <2>1, <2>2
    <3>2. CASE j = len + 1
      BY <2>3, <3>1, <3>2
    <3>3. CASE j \in 1 .. len
      BY <2>2, <2>3, <3>1, <3>3
    <3> QED
      BY <2>1, <3>2, <3>3
  <2>7. \A k \in 1 .. n + 1 : k \in I => \E i \in 1 .. len + 1 : g[i] = k
    <3> TAKE k \in 1 .. n + 1
    <3> HAVE k \in I
    <3>1. CASE k = n + 1
      <4>1. len + 1 \in 1 .. len + 1
        BY <2>1
      <4> QED
        BY <2>3, <3>1, <4>1
    <3>2. CASE k \in 1 .. n
      <4>1. PICK i \in 1 .. len : h[i] = k
        BY <2>2, <3>2
      <4>2. i \in 1 .. len + 1
        BY <2>1
      <4> QED
        BY <2>3, <4>1, <4>2
    <3> QED
      BY <3>1, <3>2
  <2>8. Spells(g, all, seq, I, n + 1)
    BY <2>1, <2>4, <2>5, <2>6, <2>7 DEF Spells
  <2> QED
    BY <1>3, <2>8, <2>a
<1> QED
  BY <1>2, <1>3

LEMMA AtSpells ==
  ASSUME NEW T, NEW seq \in Seq(T), NEW I
  PROVE  \E h : Spells(h, At(seq, I), seq, I, Len(seq))
<1>a. PICK len : len = Len(seq)
  OBVIOUS
<1>1. PICK f \in [0 .. len -> Seq(T)] : Upto(f, seq, I) /\ At(seq, I) = f[len]
  BY <1>a, AtUpto
<1>2. len \in Nat
  BY <1>a, LenProperties
<1> DEFINE Bad == {n \in 0 .. len : ~\E h : Spells(h, f[n], seq, I, n)}
<1>3. Bad = {}
  <2>a. SUFFICES ASSUME Bad # {} PROVE FALSE
    OBVIOUS
  <2>1. PICK n \in Bad : \A k \in Bad : n <= k
    <3>1. Bad \subseteq Nat
      BY <1>2
    <3> HIDE DEF Bad
    <3> QED
      BY <2>a, <3>1, SmallestNat
  <2>2. n \in 0 .. len /\ ~\E h : Spells(h, f[n], seq, I, n)
    OBVIOUS
  <2>3. n # 0
    <3>a. SUFFICES ASSUME n = 0 PROVE FALSE
      OBVIOUS
    <3> DEFINE h == [i \in 1 .. 0 |-> 1]
    <3>1. f[0] = <<>> /\ Len(f[0]) = 0
      BY <1>1 DEF Upto
    <3>2. h \in [1 .. 0 -> 1 .. 0]
      OBVIOUS
    <3>3. Spells(h, f[0], seq, I, 0)
      BY <3>1, <3>2 DEF Spells
    <3> QED
      BY <2>2, <3>3, <3>a
  <2>4. /\ n \in 1 .. len /\ n - 1 \in 0 .. len /\ ~(n <= n - 1)
        /\ (n - 1) + 1 = n /\ n - 1 \in Nat
    BY <1>2, <2>2, <2>3
  <2>5. n - 1 \notin Bad
    <3> HIDE DEF Bad
    <3> QED
      BY <2>1, <2>4
  <2>6. PICK h : Spells(h, f[n - 1], seq, I, n - 1)
    BY <2>4, <2>5
  <2>7. f[n] = IF n \in I THEN Append(f[n - 1], seq[n]) ELSE f[n - 1]
    BY <1>1, <1>a, <2>4 DEF Upto
  <2>8. f[n - 1] \in Seq(T) /\ (n - 1) + 1 <= Len(seq)
    BY <1>1, <1>a, <2>4
  <2>9. \E g : Spells(g, IF (n - 1) + 1 \in I THEN Append(f[n - 1], seq[(n - 1) + 1])
                         ELSE f[n - 1], seq, I, (n - 1) + 1)
    BY <2>4, <2>6, <2>8, SpellsMore
  <2> QED
    BY <2>2, <2>4, <2>7, <2>9
<1>4. len \in 0 .. len
  BY <1>2
<1> QED
  BY <1>1, <1>3, <1>4, <1>a

-----------------------------------------------------------------------------
(* Types.                                                                  *)

Job == [dests : Seq(Slots), part : 1 .. 2, alert : Alert]
Buf == [pid : Nat, parts : 0 .. 2, ids : Seq(1 .. MaxAlerts)]
Handing == Slots \X (Seq(1 .. MaxAlerts) \ {<<>>})

Types ==
  /\ setting \in Settings
  /\ up \in [Slots -> BOOLEAN]
  /\ pid \in [Slots -> Nat]
  /\ process_type \in [Slots -> ProcessType]
  /\ process_count = Workers + starts
  /\ pipe \in [Slots -> Seq(Packet)]
  /\ wbuf \in [Slots -> [Slots -> Seq(Packet)]]
  /\ writing \in [Slots -> Slots \cup {Unknown}]
  /\ rbuf \in [Slots -> [Slots -> Buf]]
  /\ job \in [Slots -> Job]
  /\ cached \in [Slots -> Slots \cup {Unknown}]
  /\ sent \in 0 .. MaxAlerts
  /\ crashes \in 0 .. MaxCrashes
  /\ starts \in Nat
  /\ handed \in [Slots -> Seq(Handing)]

\* a pipe never holds more than it takes, and a buffer of a reader holds the
\* first part of two
Bounded ==
  /\ \A d \in Slots : Len(pipe[d]) <= PipeRoom
  /\ \A d, s \in Slots :
       rbuf[d][s] # NoBuf => rbuf[d][s].parts = 2 /\ Len(rbuf[d][s].ids) = 1

LEMMA Numbers ==
  /\ Workers \in Nat \ {0} /\ MaxProcesses \in Nat /\ MaxProcesses = Workers + 2
  /\ Slots \subseteq Nat /\ 0 \in Slots /\ Manager \in Slots /\ Loader \in Slots
  /\ Manager = Workers /\ Loader = Workers + 1
  /\ \A s \in Slots : s < Workers \/ s = Manager \/ s = Loader
  /\ \A s : s \in Nat /\ s < Workers => s \in Slots
  /\ Unknown \notin Slots
  /\ MaxAlerts \in Nat \ {0} /\ 1 \in 1 .. MaxAlerts
  /\ PipeRoom \in Nat \ {0}
BY IpcAssumption DEF MaxProcesses, NGX_MAX_HELPER_PROCESSES, Slots, Manager, Loader,
                     Unknown

LEMMA Records ==
  /\ NoJob \in Job /\ NoBuf \in Buf
  /\ FreshW \in [Slots -> Seq(Packet)] /\ FreshR \in [Slots -> Buf]
  /\ Activated \in [Slots -> Seq(Packet)]
<1>1. <<>> \in Seq(Packet) /\ <<>> \in Seq(Slots) /\ <<>> \in Seq(1 .. MaxAlerts)
  OBVIOUS
<1>2. [id |-> 1, kind |-> "any", parts |-> 1] \in Alert
  BY Numbers DEF Alert, Kind
<1>3. NoJob \in Job
  BY <1>1, <1>2 DEF NoJob, Job
<1>4. NoBuf \in Buf
  BY <1>1 DEF NoBuf, Buf
<1> QED
  BY <1>1, <1>3, <1>4 DEF FreshW, FreshR, Activated

LEMMA EntriesType ==
  ASSUME Types
  PROVE  /\ DOMAIN Entries = 1 .. process_count /\ process_count \in Nat
         /\ Len(Entries) = process_count
         /\ \A i \in 1 .. process_count :
              Entries[i] = IF i <= MaxProcesses
                           THEN [slot |-> i - 1, type |-> process_type[i - 1]]
                           ELSE [slot |-> 0, type |-> "worker"]
         /\ [i \in DOMAIN Entries |-> Entries[i].slot] \in Seq(Slots)
         /\ Len([i \in DOMAIN Entries |-> Entries[i].slot]) = process_count
<1>1. process_count \in Nat
  BY Numbers DEF Types
<1>2. /\ DOMAIN Entries = 1 .. process_count
      /\ \A i \in 1 .. process_count :
              Entries[i] = IF i <= MaxProcesses
                           THEN [slot |-> i - 1, type |-> process_type[i - 1]]
                           ELSE [slot |-> 0, type |-> "worker"]
  BY DEF Entries
<1>3. Len(Entries) = process_count
  BY <1>1 DEF Entries
<1>4. \A i \in 1 .. process_count : Entries[i].slot \in Slots
  <2> TAKE i \in 1 .. process_count
  <2>1. CASE i <= MaxProcesses
    <3>1. Entries[i].slot = i - 1
      BY <1>2, <2>1
    <3>2. i - 1 \in Slots
      BY <1>1, <2>1, Numbers DEF Slots
    <3> QED
      BY <3>1, <3>2
  <2>2. CASE ~(i <= MaxProcesses)
    BY <1>2, <2>2, Numbers
  <2> QED
    BY <2>1, <2>2
<1> DEFINE slots == [i \in 1 .. process_count |-> Entries[i].slot]
<1>5. slots \in Seq(Slots) /\ Len(slots) = process_count
  <2>1. slots \in [1 .. process_count -> Slots]
    BY <1>4
  <2> QED
    BY <1>1, <2>1, LenProperties, IsASeq
<1> QED
  BY <1>1, <1>2, <1>3, <1>5

LEMMA SlotsOfType ==
  ASSUME Types, NEW type
  PROVE  SlotsOf(type) \in Seq(Slots)
BY EntriesType, AtType DEF SlotsOf

(* What SlotsOf finds are slots of processes of that type, each once, and  *)
(* then slot 0 for the entries beyond the table.                           *)
LEMMA SlotsFound ==
  ASSUME Types, NEW type
  PROVE  /\ \A i \in DOMAIN SlotsOf(type) :
              \/ process_type[SlotsOf(type)[i]] = type
              \/ type = "worker" /\ SlotsOf(type)[i] = 0
         /\ \A i, j \in DOMAIN SlotsOf(type) :
              i # j /\ SlotsOf(type)[i] = SlotsOf(type)[j] =>
                SlotsOf(type)[i] = 0 /\ process_count > MaxProcesses
         /\ \A s \in Slots : process_type[s] = type /\ s < process_count =>
              SlotsOf(type) # <<>>
<1>a. PICK slots : slots = [i \in DOMAIN Entries |-> Entries[i].slot]
  OBVIOUS
<1>b. PICK I : I = {i \in DOMAIN Entries : Entries[i].type = type}
  OBVIOUS
<1>c. PICK found : found = SlotsOf(type)
  OBVIOUS
<1>1. slots \in Seq(Slots) /\ Len(slots) = process_count /\ process_count \in Nat
  BY <1>a, EntriesType
<1>2. found = At(slots, I) /\ found \in Seq(Slots)
  BY <1>a, <1>b, <1>c, SlotsOfType DEF SlotsOf
<1>3. PICK h : Spells(h, found, slots, I, process_count)
  BY <1>1, <1>2, AtSpells
<1>4. DOMAIN found = 1 .. Len(found) /\ Len(found) \in Nat
  BY <1>2, LenProperties
<1>5. \A i \in DOMAIN found :
        /\ h[i] \in 1 .. process_count /\ Entries[h[i]].type = type
        /\ found[i] = Entries[h[i]].slot
  BY <1>3, <1>4, <1>a, <1>b, EntriesType DEF Spells
<1>6. \A i \in DOMAIN found :
        \/ h[i] <= MaxProcesses /\ found[i] = h[i] - 1 /\ process_type[found[i]] = type
        \/ h[i] > MaxProcesses /\ found[i] = 0 /\ type = "worker"
  <2> TAKE i \in DOMAIN found
  <2>1. CASE h[i] <= MaxProcesses
    BY <1>5, <2>1, EntriesType
  <2>2. CASE ~(h[i] <= MaxProcesses)
    BY <1>1, <1>5, <2>2, EntriesType, Numbers
  <2> QED
    BY <2>1, <2>2
<1>7. \A i, j \in DOMAIN found : i < j /\ found[i] = found[j] =>
        found[i] = 0 /\ process_count > MaxProcesses
  <2> TAKE i, j \in DOMAIN found
  <2> HAVE i < j /\ found[i] = found[j]
  <2>1. h[i] < h[j] /\ h[i] \in 1 .. process_count /\ h[j] \in 1 .. process_count
    BY <1>3, <1>4, <1>5 DEF Spells
  <2> QED
    BY <1>1, <1>6, <2>1, Numbers
<1>8. \A i, j \in DOMAIN found : i # j /\ found[i] = found[j] =>
        found[i] = 0 /\ process_count > MaxProcesses
  <2> TAKE i, j \in DOMAIN found
  <2> HAVE i # j /\ found[i] = found[j]
  <2>1. i < j \/ j < i
    BY <1>4
  <2> QED
    BY <1>7, <2>1
<1>9. \A s \in Slots : process_type[s] = type /\ s < process_count => found # <<>>
  <2> TAKE s \in Slots
  <2> HAVE process_type[s] = type /\ s < process_count
  <2>1. s + 1 \in 1 .. process_count /\ s + 1 <= MaxProcesses /\ (s + 1) - 1 = s
    BY <1>1, Numbers DEF Slots
  <2>2. s + 1 \in I
    BY <1>b, <2>1, EntriesType
  <2>3. \E i \in 1 .. Len(found) : h[i] = s + 1
    BY <1>3, <2>1, <2>2 DEF Spells
  <2>4. Len(found) # 0
    BY <1>4, <2>3
  <2> QED
    BY <1>2, <2>4, EmptySeq
<1> QED
  BY <1>6, <1>8, <1>9, <1>c

LEMMA DeadTypes ==
  ASSUME Types, Bounded, NEW s \in Slots, Dead(s)
  PROVE  /\ up' \in [Slots -> BOOLEAN]
         /\ wbuf' \in [Slots -> [Slots -> Seq(Packet)]]
         /\ writing' \in [Slots -> Slots \cup {Unknown}]
         /\ rbuf' \in [Slots -> [Slots -> Buf]]
         /\ job' \in [Slots -> Job]
         /\ cached' \in [Slots -> Slots \cup {Unknown}]
         /\ \A d, t \in Slots :
              rbuf'[d][t] # NoBuf => rbuf'[d][t].parts = 2 /\ Len(rbuf'[d][t].ids) = 1
<1>1. /\ up' \in [Slots -> BOOLEAN]
      /\ writing' \in [Slots -> Slots \cup {Unknown}]
      /\ cached' \in [Slots -> Slots \cup {Unknown}]
  BY DEF Types, Dead
<1>2. wbuf' \in [Slots -> [Slots -> Seq(Packet)]]
  BY Records DEF Types, Dead
<1>3. job' \in [Slots -> Job]
  BY Records DEF Types, Dead
<1>4. rbuf' \in [Slots -> [Slots -> Buf]]
  BY Records DEF Types, Dead
<1>5. ASSUME NEW d \in Slots, NEW t \in Slots, rbuf'[d][t] # NoBuf
      PROVE  rbuf'[d][t].parts = 2 /\ Len(rbuf'[d][t].ids) = 1
  <2>1. rbuf'[d] = IF d = s THEN FreshR ELSE rbuf[d]
    BY DEF Types, Dead
  <2>2. FreshR[t] = NoBuf
    BY DEF FreshR
  <2>3. rbuf'[d][t] = rbuf[d][t]
    BY <1>5, <2>1, <2>2
  <2> QED
    BY <1>5, <2>3 DEF Bounded
<1> QED
  BY <1>1, <1>2, <1>3, <1>4, <1>5

LEMMA WriteTypes ==
  ASSUME Types, Bounded, NEW s \in Slots, NEW d \in Slots,
         NEW waiting \in Seq(Packet), waiting # <<>>, WriteFirst(s, d, waiting)
  PROVE  /\ pipe' \in [Slots -> Seq(Packet)]
         /\ wbuf' \in [Slots -> [Slots -> Seq(Packet)]]
         /\ writing' \in [Slots -> Slots \cup {Unknown}]
         /\ \A x \in Slots : Len(pipe'[x]) <= PipeRoom
<1>1. Head(waiting) \in Packet /\ Tail(waiting) \in Seq(Packet)
  BY HeadTailProperties
<1>2. pipe \in [Slots -> Seq(Packet)] /\ wbuf \in [Slots -> [Slots -> Seq(Packet)]]
  BY DEF Types
<1>3. writing' \in [Slots -> Slots \cup {Unknown}]
  <2>1. \/ writing' = [writing EXCEPT ![s] = Unknown]
        \/ writing' = [writing EXCEPT ![s] = d]
    BY DEF WriteFirst
  <2> QED
    BY <2>1 DEF Types
<1>4. CASE Len(pipe[d]) < PipeRoom
  <2>1. /\ pipe' = [pipe EXCEPT ![d] = Append(pipe[d], Head(waiting))]
        /\ wbuf' = [wbuf EXCEPT ![s][d] = Tail(waiting)]
    BY <1>4 DEF WriteFirst
  <2>2. Append(pipe[d], Head(waiting)) \in Seq(Packet)
    BY <1>1, <1>2, AppendProperties
  <2>3. Len(Append(pipe[d], Head(waiting))) = Len(pipe[d]) + 1 /\ Len(pipe[d]) \in Nat
    BY <1>1, <1>2, AppendProperties, LenProperties
  <2>4. \A x \in Slots : Len(pipe'[x]) <= PipeRoom
    BY <1>2, <1>4, <2>1, <2>3, Numbers DEF Bounded
  <2>5. pipe' \in [Slots -> Seq(Packet)]
    BY <1>2, <2>1, <2>2
  <2>6. wbuf' \in [Slots -> [Slots -> Seq(Packet)]]
    BY <1>1, <1>2, <2>1
  <2> QED
    BY <1>3, <2>4, <2>5, <2>6
<1>5. CASE ~(Len(pipe[d]) < PipeRoom)
  <2>1. pipe' = pipe /\ wbuf' = [wbuf EXCEPT ![s][d] = waiting]
    BY <1>5 DEF WriteFirst
  <2>2. wbuf' \in [Slots -> [Slots -> Seq(Packet)]]
    BY <1>2, <2>1
  <2> QED
    BY <1>2, <1>3, <2>1, <2>2 DEF Bounded
<1> QED
  BY <1>4, <1>5

\* the packet that SendPart makes
Made(s) == [src |-> s, pid |-> pid[s], part |-> job[s].part, alert |-> job[s].alert]

LEMMA MadeType ==
  ASSUME Types, NEW s \in Slots, job[s].dests # <<>>
  PROVE  /\ Made(s) \in Packet
         /\ Head(job[s].dests) \in Slots /\ Tail(job[s].dests) \in Seq(Slots)
         /\ NextPart(job[s]) \in Job
<1>1. job[s] \in Job /\ pid[s] \in Nat
  BY DEF Types
<1>2. /\ job[s].dests \in Seq(Slots) /\ job[s].part \in 1 .. 2 /\ job[s].alert \in Alert
      /\ job[s].alert.parts \in 1 .. 2
  BY <1>1 DEF Job, Alert
<1>3. Made(s) \in Packet
  BY <1>1, <1>2 DEF Made, Packet
<1>4. Head(job[s].dests) \in Slots /\ Tail(job[s].dests) \in Seq(Slots)
  BY <1>2, HeadTailProperties
<1>5. NextPart(job[s]) \in Job
  <2>1. CASE job[s].part < job[s].alert.parts
    <3>1. NextPart(job[s]) = [job[s] EXCEPT !.part = job[s].part + 1]
      BY <2>1 DEF NextPart
    <3>2. job[s].part + 1 \in 1 .. 2
      BY <1>2, <2>1
    <3> QED
      BY <1>1, <3>1, <3>2 DEF Job
  <2>2. CASE ~(job[s].part < job[s].alert.parts)
    <3>1. NextPart(job[s]) = [job[s] EXCEPT !.part = 1, !.dests = Tail(job[s].dests)]
      BY <2>2 DEF NextPart
    <3>2. NextPart(job[s]) = [dests |-> Tail(job[s].dests), part |-> 1,
                              alert |-> job[s].alert]
      BY <1>1, <3>1 DEF Job
    <3> QED
      BY <1>2, <1>4, <3>2 DEF Job
  <2> QED
    BY <2>1, <2>2
<1> QED
  BY <1>3, <1>4, <1>5

LEMMA BeginTypes ==
  ASSUME Types, NEW s \in Slots, NEW dests \in Seq(Slots), NEW kind \in Kind,
         NEW parts \in 1 .. 2, Begin(s, dests, kind, parts)
  PROVE  job' \in [Slots -> Job] /\ sent' \in 1 .. MaxAlerts
<1>1. setting.alerts \in 0 .. MaxAlerts
  BY IpcAssumption DEF Types
<1>2. sent' = sent + 1 /\ sent' \in 1 .. MaxAlerts
  <2>1. sent' = sent + 1 /\ sent < setting.alerts
    BY DEF Begin
  <2>2. sent \in 0 .. MaxAlerts
    BY DEF Types
  <2> QED
    BY <1>1, <2>1, <2>2, Numbers
<1>3. [id |-> sent', kind |-> kind, parts |-> parts] \in Alert
  BY <1>2 DEF Alert
<1>4. [dests |-> dests, part |-> 1,
       alert |-> [id |-> sent', kind |-> kind, parts |-> parts]] \in Job
  BY <1>3 DEF Job
<1> QED
  BY <1>2, <1>4 DEF Begin, Types

LEMMA HandTypes ==
  ASSUME Types, NEW d \in Slots, NEW s \in Slots, NEW ids \in Seq(1 .. MaxAlerts), ids # <<>>,
         handed' = [handed EXCEPT ![d] = Append(handed[d], <<s, ids>>)]
  PROVE  handed' \in [Slots -> Seq(Handing)]
<1>1. <<s, ids>> \in Handing
  BY DEF Handing
<1>2. handed \in [Slots -> Seq(Handing)] /\ handed[d] \in Seq(Handing)
  BY DEF Types
<1>3. Append(handed[d], <<s, ids>>) \in Seq(Handing)
  BY <1>1, <1>2, AppendProperties
<1> QED
  BY <1>2, <1>3

LEMMA OneId ==
  ASSUME NEW p \in Packet
  PROVE  <<p.alert.id>> \in Seq(1 .. MaxAlerts) /\ Len(<<p.alert.id>>) = 1
         /\ p.src \in Slots /\ p.pid \in Nat /\ p.alert \in Alert
         /\ p.alert.id \in 1 .. MaxAlerts
         /\ p.part \in 1 .. 2 /\ p.alert.parts \in 1 .. 2
BY DEF Packet, Alert

LEMMA JoinedType ==
  ASSUME NEW buf \in Buf, NEW p \in Packet, p.alert.parts > 1,
         buf # NoBuf => buf.parts = 2 /\ Len(buf.ids) = 1,
         Joined(buf, p) # NoBuf
  PROVE  /\ Joined(buf, p) \in Buf /\ Joined(buf, p).parts = 2
         /\ Joined(buf, p).pid = p.pid
         /\ \/ /\ buf.pid = p.pid /\ p.part = 2
               /\ Joined(buf, p).ids = Append(buf.ids, p.alert.id)
               /\ buf # NoBuf => Len(Joined(buf, p).ids) = 2
            \/ /\ buf.pid # p.pid /\ p.part = 1
               /\ Joined(buf, p).ids = <<p.alert.id>>
               /\ Len(Joined(buf, p).ids) = 1
<1>1. p.alert.parts = 2 /\ p.pid \in Nat
  BY OneId
<1>2. CASE buf.pid = p.pid
  <2>1. /\ p.part # 1 /\ p.alert.parts = buf.parts
        /\ Joined(buf, p) = [buf EXCEPT !.ids = Append(buf.ids, p.alert.id)]
    BY <1>2 DEF Joined
  <2>2. buf.ids \in Seq(1 .. MaxAlerts) /\ buf.parts \in 0 .. 2 /\ buf.pid \in Nat
    BY DEF Buf
  <2>3. Append(buf.ids, p.alert.id) \in Seq(1 .. MaxAlerts)
    BY <2>2, OneId, AppendProperties
  <2>4. Joined(buf, p) \in Buf /\ Joined(buf, p).parts = 2
        /\ Joined(buf, p).pid = p.pid /\ Joined(buf, p).ids = Append(buf.ids, p.alert.id)
    BY <1>1, <1>2, <2>1, <2>3 DEF Buf
  <2>5. Len(Append(buf.ids, p.alert.id)) = Len(buf.ids) + 1
    BY <2>2, OneId, AppendProperties
  <2>6. p.part = 2
    BY <2>1, OneId
  <2>7. ASSUME buf # NoBuf PROVE Len(Joined(buf, p).ids) = 2
    <3>1. Len(buf.ids) = 1
      BY <2>7
    <3>2. Len(Append(buf.ids, p.alert.id)) = 2
      BY <2>5, <3>1
    <3> QED
      BY <2>4, <3>2
  <2> QED
    BY <1>2, <2>4, <2>6, <2>7
<1>3. CASE buf.pid # p.pid
  <2>1. p.part = 1 /\ Joined(buf, p) = [pid |-> p.pid, parts |-> p.alert.parts,
                                         ids |-> <<p.alert.id>>]
    BY <1>3 DEF Joined
  <2> QED
    BY <1>1, <1>3, <2>1, OneId DEF Buf
<1> QED
  BY <1>2, <1>3


LEMMA TypesStep == Types /\ Bounded /\ [Next]_vars => Types' /\ Bounded'
<1> SUFFICES ASSUME Types, Bounded, [Next]_vars
             PROVE  Types' /\ Bounded'
  OBVIOUS
<1>1. ASSUME NEW s \in Slots, Start(s)
      PROVE  Types' /\ Bounded'
  <2>1. /\ up' = [up EXCEPT ![s] = TRUE] /\ starts' = starts + 1
        /\ pid' = [pid EXCEPT ![s] = starts + 1] /\ process_count' = process_count + 1
        /\ UNCHANGED <<setting, process_type, pipe, wbuf, writing, rbuf, job,
                       cached, sent, crashes, handed>>
    BY <1>1 DEF Start
  <2>2. process_count' = Workers + starts'
    BY <2>1, Numbers DEF Types
  <2> QED
    BY <2>1, <2>2 DEF Types, Bounded
<1>2. ASSUME NEW s \in Slots, Scrape(s)
      PROVE  Types' /\ Bounded'
  <2>1. TitleOf(s) \in ProcessType
    BY DEF TitleOf, ProcessType
  <2> QED
    BY <1>2, <2>1 DEF Scrape, Types, Bounded
<1>3. ASSUME NEW s \in Slots, Die(s)
      PROVE  Types' /\ Bounded'
  <2>1. /\ crashes' = crashes + 1 /\ crashes < MaxCrashes /\ Dead(s)
        /\ UNCHANGED <<setting, pid, process_type, process_count, pipe, sent, starts,
                       handed>>
    BY <1>3 DEF Die, table
  <2>2. crashes' \in 0 .. MaxCrashes
    BY <2>1, IpcAssumption DEF Types
  <2> QED
    BY <2>1, <2>2, DeadTypes DEF Types, Bounded
<1>4. ASSUME NEW s \in Slots, NEW dests \in Seq(Slots), NEW kind \in Kind,
             NEW parts \in 1 .. 2, Begin(s, dests, kind, parts),
             cached' \in [Slots -> Slots \cup {Unknown}]
      PROVE  Types' /\ Bounded'
  <2>1. UNCHANGED <<setting, up, pid, process_type, process_count, pipe, wbuf, writing,
                    rbuf, crashes, starts, handed>>
    BY <1>4 DEF Begin, table
  <2>2. job' \in [Slots -> Job] /\ sent' \in 1 .. MaxAlerts
    BY <1>4, BeginTypes
  <2>3. sent' \in 0 .. MaxAlerts
    BY <2>2
  <2> QED
    BY <1>4, <2>1, <2>2, <2>3 DEF Types, Bounded
<1>5. ASSUME NEW s \in Slots, Alerting(s)
      PROVE  Types' /\ Bounded'
  <2>1. PICK parts \in 1 .. 2 : \/ \E d \in Slots : AlertSlot(s, d, parts)
                                \/ AlertAllWorkers(s, parts)
                                \/ AlertManager(s, parts)
    BY <1>5 DEF Alerting
  <2>2. cached \in [Slots -> Slots \cup {Unknown}]
    BY DEF Types
  <2>3. "worker" \in Kind /\ "manager" \in Kind
    BY DEF Kind
  <2>4. ASSUME NEW d \in Slots, AlertSlot(s, d, parts)
        PROVE  Types' /\ Bounded'
    <3>1. <<d>> \in Seq(Slots)
      OBVIOUS
    <3> QED
      BY <1>4, <2>2, <2>3, <2>4, <3>1 DEF AlertSlot
  <2>5. CASE AlertAllWorkers(s, parts)
    <3>1. SlotsOf("worker") \in Seq(Slots)
      BY SlotsOfType
    <3> QED
      BY <1>4, <2>2, <2>3, <2>5, <3>1 DEF AlertAllWorkers
  <2>6. CASE AlertManager(s, parts)
    <3>1. PICK slot : slot = IF cached[s] = Unknown THEN ManagerSlot ELSE cached[s]
      OBVIOUS
    <3>2. ManagerSlot \in Slots
      <4>1. SlotsOf("manager") \in Seq(Slots)
        BY SlotsOfType
      <4>2. SlotsOf("manager") # <<>> => SlotsOf("manager")[1] \in Slots
        BY <4>1, HeadTailProperties
      <4> QED
        BY <4>2, Numbers DEF ManagerSlot
    <3>3. slot \in Slots /\ <<slot>> \in Seq(Slots)
      BY <2>2, <3>1, <3>2
    <3>4. Begin(s, <<slot>>, "manager", parts) /\ cached' = [cached EXCEPT ![s] = slot]
      BY <2>6, <3>1 DEF AlertManager
    <3>5. cached' \in [Slots -> Slots \cup {Unknown}]
      BY <2>2, <3>3, <3>4
    <3> QED
      BY <1>4, <2>3, <3>3, <3>4, <3>5
  <2> QED
    BY <2>1, <2>4, <2>5, <2>6
<1>6. ASSUME NEW s \in Slots, SendPart(s)
      PROVE  Types' /\ Bounded'
  <2>1. PICK d : d = Head(job[s].dests)
    OBVIOUS
  <2>2. PICK waiting : waiting = Append(wbuf[s][d], Made(s))
    OBVIOUS
  <2>3. /\ job[s].dests # <<>> /\ WriteFirst(s, d, waiting)
        /\ job' = [job EXCEPT ![s] = NextPart(job[s])]
        /\ UNCHANGED <<setting, up, pid, process_type, process_count, rbuf, cached, sent,
                       crashes, starts, handed>>
    BY <1>6, <2>1, <2>2 DEF SendPart, Made, table
  <2>4. d \in Slots /\ Made(s) \in Packet /\ NextPart(job[s]) \in Job
    BY <2>1, <2>3, MadeType
  <2>5. waiting \in Seq(Packet) /\ waiting # <<>>
    <3>1. wbuf[s][d] \in Seq(Packet)
      BY <2>4 DEF Types
    <3> QED
      BY <2>2, <2>4, <3>1, AppendProperties
  <2>6. job' \in [Slots -> Job]
    BY <2>3, <2>4 DEF Types
  <2>7. /\ pipe' \in [Slots -> Seq(Packet)]
        /\ wbuf' \in [Slots -> [Slots -> Seq(Packet)]]
        /\ writing' \in [Slots -> Slots \cup {Unknown}]
        /\ \A x \in Slots : Len(pipe'[x]) <= PipeRoom
    BY <2>3, <2>4, <2>5, WriteTypes
  <2> QED
    BY <2>3, <2>6, <2>7 DEF Types, Bounded
<1>7. ASSUME NEW s \in Slots, NEW d \in Slots, WriteHandler(s, d)
      PROVE  Types' /\ Bounded'
  <2>1. /\ wbuf[s][d] # <<>> /\ WriteFirst(s, d, wbuf[s][d])
        /\ UNCHANGED <<setting, up, pid, process_type, process_count, rbuf, job, cached,
                       sent, crashes, starts, handed>>
    BY <1>7 DEF WriteHandler, table
  <2>2. wbuf[s][d] \in Seq(Packet)
    BY DEF Types
  <2>3. /\ pipe' \in [Slots -> Seq(Packet)]
        /\ wbuf' \in [Slots -> [Slots -> Seq(Packet)]]
        /\ writing' \in [Slots -> Slots \cup {Unknown}]
        /\ \A x \in Slots : Len(pipe'[x]) <= PipeRoom
    BY <2>1, <2>2, WriteTypes
  <2> QED
    BY <2>1, <2>3 DEF Types, Bounded
<1>8. ASSUME NEW s \in Slots, SendOwn(s)
      PROVE  Types' /\ Bounded'
  <2>1. /\ job[s].dests # <<>>
        /\ UNCHANGED <<setting, pid, process_type, process_count, pipe, sent, crashes,
                       starts>>
    BY <1>8 DEF SendOwn, table
  <2>2. CASE HasHandler(s, job[s].alert.kind)
    <3>1. /\ handed' = [handed EXCEPT ![s] = Append(handed[s], <<s, <<job[s].alert.id>>>>)]
          /\ job' = [job EXCEPT ![s] = [job[s] EXCEPT !.dests = Tail(job[s].dests)]]
          /\ UNCHANGED <<up, wbuf, writing, rbuf, cached>>
      BY <1>8, <2>2 DEF SendOwn
    <3>2. job[s] \in Job /\ Tail(job[s].dests) \in Seq(Slots)
      BY <2>1, MadeType DEF Types
    <3>3. <<job[s].alert.id>> \in Seq(1 .. MaxAlerts)
      BY <3>2 DEF Job, Alert
    <3>7. <<job[s].alert.id>> # <<>>
      OBVIOUS
    <3>4. [job[s] EXCEPT !.dests = Tail(job[s].dests)] \in Job
      BY <3>2 DEF Job
    <3>5. job' \in [Slots -> Job]
      BY <3>1, <3>4 DEF Types
    <3>6. handed' \in [Slots -> Seq(Handing)]
      BY <3>1, <3>3, <3>7, HandTypes
    <3> QED
      BY <2>1, <3>1, <3>5, <3>6 DEF Types, Bounded
  <2>3. CASE ~HasHandler(s, job[s].alert.kind)
    <3>1. Dead(s) /\ UNCHANGED handed
      BY <1>8, <2>3 DEF SendOwn
    <3> QED
      BY <2>1, <3>1, DeadTypes DEF Types, Bounded
  <2> QED
    BY <2>2, <2>3
(* What the three ways of reading do to the pipe.                          *)
<1>9. ASSUME NEW d \in Slots, pipe[d] # <<>>,
             pipe' = [pipe EXCEPT ![d] = Tail(pipe[d])]
      PROVE  /\ pipe' \in [Slots -> Seq(Packet)]
             /\ \A x \in Slots : Len(pipe'[x]) <= PipeRoom
  <2>1. /\ pipe \in [Slots -> Seq(Packet)] /\ pipe[d] \in Seq(Packet)
        /\ Tail(pipe[d]) \in Seq(Packet) /\ Len(Tail(pipe[d])) = Len(pipe[d]) - 1
        /\ Len(pipe[d]) \in Nat
    BY <1>9, HeadTailProperties, LenProperties DEF Types
  <2> QED
    BY <1>9, <2>1, Numbers DEF Bounded
<1>10. ASSUME NEW d \in Slots, pipe[d] # <<>>
       PROVE  Head(pipe[d]) \in Packet /\ rbuf[d][Head(pipe[d]).src] \in Buf
  <2>1. Head(pipe[d]) \in Packet
    BY <1>10, HeadTailProperties DEF Types
  <2> QED
    BY <2>1, OneId DEF Types
<1>11. ASSUME NEW d \in Slots, ReadWhole(d)
       PROVE  Types' /\ Bounded'
  <2>1. PICK p : p = Head(pipe[d])
    OBVIOUS
  <2>2. /\ pipe[d] # <<>> /\ pipe' = [pipe EXCEPT ![d] = Tail(pipe[d])]
        /\ UNCHANGED <<setting, pid, process_type, process_count, sent, crashes, starts>>
    BY <1>11 DEF ReadWhole, table
  <2>3. p \in Packet
    BY <1>10, <2>1, <2>2
  <2>4. /\ pipe' \in [Slots -> Seq(Packet)]
        /\ \A x \in Slots : Len(pipe'[x]) <= PipeRoom
    BY <1>9, <2>2
  <2>5. CASE HasHandler(d, p.alert.kind)
    <3>1. /\ handed' = [handed EXCEPT ![d] = Append(handed[d], <<p.src, <<p.alert.id>>>>)]
          /\ UNCHANGED <<up, wbuf, writing, rbuf, job, cached>>
      BY <1>11, <2>1, <2>5 DEF ReadWhole
    <3>2. handed' \in [Slots -> Seq(Handing)]
      <4>1. <<p.alert.id>> # <<>>
        OBVIOUS
      <4> QED
        BY <2>3, <3>1, <4>1, HandTypes, OneId
    <3> QED
      BY <2>2, <2>4, <3>1, <3>2 DEF Types, Bounded
  <2>6. CASE ~HasHandler(d, p.alert.kind)
    <3>1. Dead(d) /\ UNCHANGED handed
      BY <1>11, <2>1, <2>6 DEF ReadWhole
    <3> QED
      BY <2>2, <2>4, <3>1, DeadTypes DEF Types, Bounded
  <2> QED
    BY <2>5, <2>6
<1>12. ASSUME NEW d \in Slots, ReadPart(d)
       PROVE  Types' /\ Bounded'
  <2>1. PICK p : p = Head(pipe[d])
    OBVIOUS
  <2>2. PICK buf : buf = Joined(rbuf[d][p.src], p)
    OBVIOUS
  <2>3. /\ pipe[d] # <<>> /\ pipe' = [pipe EXCEPT ![d] = Tail(pipe[d])]
        /\ p.alert.parts > 1 /\ buf # NoBuf
        /\ UNCHANGED <<setting, pid, process_type, process_count, sent, crashes, starts>>
    BY <1>12, <2>1, <2>2 DEF ReadPart, table
  <2>4. p \in Packet /\ rbuf[d][p.src] \in Buf /\ p.src \in Slots
    BY <1>10, <2>1, <2>3, OneId
  <2>5. /\ pipe' \in [Slots -> Seq(Packet)]
        /\ \A x \in Slots : Len(pipe'[x]) <= PipeRoom
    BY <1>9, <2>3
  <2>6. rbuf[d][p.src] # NoBuf =>
          rbuf[d][p.src].parts = 2 /\ Len(rbuf[d][p.src].ids) = 1
    BY <2>4 DEF Bounded
  <2>7. /\ buf \in Buf /\ buf.parts = 2
        /\ Len(buf.ids) # 2 => Len(buf.ids) = 1
    <3>2. buf \in Buf /\ buf.parts = 2
      BY <2>2, <2>3, <2>4, <2>6, JoinedType
    <3>3. CASE rbuf[d][p.src] # NoBuf
      BY <2>2, <2>3, <2>4, <2>6, <3>3, JoinedType
    <3>4. CASE rbuf[d][p.src] = NoBuf
      <4>1. ~(NoBuf.pid = p.pid /\ p.alert.parts = NoBuf.parts)
        BY <2>3 DEF NoBuf
      <4>2. p.pid # NoBuf.pid
        BY <2>2, <2>3, <3>4, <4>1 DEF Joined
      <4> QED
        BY <2>2, <2>3, <2>4, <2>6, <3>4, <4>2, JoinedType
    <3> QED
      BY <3>2, <3>3, <3>4
  <2>8. CASE Len(buf.ids) = buf.parts /\ ~HasHandler(d, p.alert.kind)
    <3>1. Dead(d) /\ UNCHANGED handed
      BY <1>12, <2>1, <2>2, <2>8 DEF ReadPart
    <3> QED
      BY <2>3, <2>5, <3>1, DeadTypes DEF Types, Bounded
  <2>9. CASE ~(Len(buf.ids) = buf.parts /\ ~HasHandler(d, p.alert.kind))
    <3>1. PICK b : b = IF Len(buf.ids) = buf.parts THEN NoBuf ELSE buf
      OBVIOUS
    <3>2. /\ rbuf' = [rbuf EXCEPT ![d][p.src] = b]
          /\ handed' = IF Len(buf.ids) = buf.parts
                       THEN [handed EXCEPT ![d] = Append(handed[d], <<p.src, buf.ids>>)]
                       ELSE handed
          /\ UNCHANGED <<up, wbuf, writing, job, cached>>
      BY <1>12, <2>1, <2>2, <2>9, <3>1 DEF ReadPart
    <3>3. b \in Buf /\ (b # NoBuf => b.parts = 2 /\ Len(b.ids) = 1)
      BY <2>7, <3>1, Records
    <3>4. rbuf' \in [Slots -> [Slots -> Buf]]
      BY <2>4, <3>2, <3>3 DEF Types
    <3>5. \A x, s \in Slots :
            rbuf'[x][s] # NoBuf => rbuf'[x][s].parts = 2 /\ Len(rbuf'[x][s].ids) = 1
      <4>1. \A x, s \in Slots :
              rbuf'[x][s] = IF x = d /\ s = p.src THEN b ELSE rbuf[x][s]
        BY <2>4, <3>2 DEF Types
      <4> QED
        BY <3>3, <4>1 DEF Bounded
    <3>6. handed' \in [Slots -> Seq(Handing)]
      <4>1. buf.ids \in Seq(1 .. MaxAlerts)
        BY <2>7 DEF Buf
      <4>2. CASE Len(buf.ids) = buf.parts
        <5>1. Len(buf.ids) = 2
          BY <2>7, <4>2
        <5>2. ASSUME buf.ids = <<>>
              PROVE  FALSE
          <6>1. Len(<<>>) = 0
            OBVIOUS
          <6>2. Len(buf.ids) = 0
            BY <5>2, <6>1, Zenon
          <6> QED
            BY <5>1, <6>2
        <5> QED
          BY <2>4, <3>2, <4>1, <4>2, <5>2, HandTypes
      <4>3. CASE Len(buf.ids) # buf.parts
        BY <3>2, <4>3 DEF Types
      <4> QED
        BY <4>2, <4>3
    <3> QED
      BY <2>3, <2>5, <3>2, <3>4, <3>5, <3>6 DEF Types, Bounded
  <2> QED
    BY <2>8, <2>9
<1>13. ASSUME NEW d \in Slots, ReadWeird(d)
       PROVE  Types' /\ Bounded'
  <2>1. PICK p : p = Head(pipe[d])
    OBVIOUS
  <2>2. /\ pipe[d] # <<>> /\ pipe' = [pipe EXCEPT ![d] = <<>>]
        /\ rbuf' = [rbuf EXCEPT ![d][p.src] = NoBuf]
        /\ UNCHANGED <<setting, up, pid, process_type, process_count, wbuf, writing, job,
                       cached, sent, crashes, starts, handed>>
    BY <1>13, <2>1 DEF ReadWeird, table
  <2>3. p.src \in Slots
    BY <1>10, <2>1, <2>2, OneId
  <2>4. /\ pipe' \in [Slots -> Seq(Packet)]
        /\ \A x \in Slots : Len(pipe'[x]) <= PipeRoom
    <3>1. <<>> \in Seq(Packet) /\ Len(<<>>) = 0 /\ 0 <= PipeRoom
      BY Numbers
    <3>2. \A x \in Slots : pipe'[x] = IF x = d THEN <<>> ELSE pipe[x]
      BY <2>2 DEF Types
    <3>3. \A x \in Slots : Len(pipe'[x]) <= PipeRoom
      BY <3>1, <3>2 DEF Bounded
    <3>4. pipe' \in [Slots -> Seq(Packet)]
      BY <2>2, <3>1 DEF Types
    <3> QED
      BY <3>3, <3>4
  <2>5. rbuf' \in [Slots -> [Slots -> Buf]]
    BY <2>2, <2>3, Records DEF Types
  <2>6. \A x, s \in Slots :
          rbuf'[x][s] # NoBuf => rbuf'[x][s].parts = 2 /\ Len(rbuf'[x][s].ids) = 1
    <3>1. \A x, s \in Slots :
            rbuf'[x][s] = IF x = d /\ s = p.src THEN NoBuf ELSE rbuf[x][s]
      BY <2>2, <2>3 DEF Types
    <3> QED
      BY <3>1 DEF Bounded
  <2> QED
    BY <2>2, <2>4, <2>5, <2>6 DEF Types, Bounded
<1>14. CASE UNCHANGED vars
  BY <1>14 DEF vars, table, Types, Bounded
<1> QED
  BY <1>1, <1>2, <1>3, <1>5, <1>6, <1>7, <1>8, <1>11, <1>12, <1>13, <1>14
     DEF Next, Writing, Reading

LEMMA TypesInit == Init => Types /\ Bounded
<1> SUFFICES ASSUME Init PROVE Types /\ Bounded
  OBVIOUS
<1>1. /\ setting \in Settings
      /\ up = [s \in Slots |-> s < Workers \/ (~setting.startup /\ s = Manager)]
      /\ pid = [s \in Slots |-> IF setting.startup /\ s >= Workers THEN 0
                                ELSE s + 1]
      /\ process_type = [s \in Slots |-> IF setting.startup THEN "worker"
                                         ELSE TitleOf(s)]
      /\ starts = IF setting.startup THEN Workers ELSE MaxProcesses
      /\ process_count = Workers + starts
      /\ pipe = Activated
      /\ wbuf = [s \in Slots |-> FreshW]
      /\ writing = [s \in Slots |-> Unknown]
      /\ rbuf = [d \in Slots |-> FreshR]
      /\ job = [s \in Slots |-> NoJob]
      /\ cached = [s \in Slots |-> Unknown]
      /\ sent = 0 /\ crashes = 0
      /\ handed = [d \in Slots |-> <<>>]
  BY DEF Init
<1>2. up \in [Slots -> BOOLEAN]
  <2>1. \A s \in Slots : (s < Workers \/ (~setting.startup /\ s = Manager)) \in BOOLEAN
    OBVIOUS
  <2> QED
    BY <1>1, <2>1
<1>3. pid \in [Slots -> Nat]
  BY <1>1, Numbers
<1>4. process_type \in [Slots -> ProcessType]
  BY <1>1 DEF ProcessType, TitleOf
<1>5. starts \in Nat /\ sent \in 0 .. MaxAlerts /\ crashes \in 0 .. MaxCrashes
  BY <1>1, Numbers, IpcAssumption
<1>6. handed \in [Slots -> Seq(Handing)]
  BY <1>1
<1>7. /\ pipe \in [Slots -> Seq(Packet)]
      /\ wbuf \in [Slots -> [Slots -> Seq(Packet)]]
      /\ rbuf \in [Slots -> [Slots -> Buf]]
      /\ job \in [Slots -> Job]
  BY <1>1, Records
<1>8. Types
  BY <1>1, <1>2, <1>3, <1>4, <1>5, <1>6, <1>7 DEF Types
<1>9. \A d \in Slots : Len(pipe[d]) <= PipeRoom
  BY <1>1, Numbers DEF Activated
<1>10. \A d, s \in Slots : rbuf[d][s] = NoBuf
  BY <1>1 DEF FreshR
<1> QED
  BY <1>8, <1>9, <1>10 DEF Bounded

(* In every behaviour the variables have their types, no pipe holds more   *)
(* than it takes, and a reader keeps no more than the first part of two of *)
(* an alert: what channel_get_readbuf puts together is handed over or      *)
(* thrown away as soon as its second part is there.                        *)
THEOREM TypesAlways == Spec => [](Types /\ Bounded)
<1>1. Init => Types /\ Bounded
  BY TypesInit
<1>2. Types /\ Bounded /\ [Next]_vars => Types' /\ Bounded'
  BY TypesStep
<1>3. (Types /\ Bounded) /\ [Next]_vars => (Types /\ Bounded)'
  BY <1>2
<1> QED
  BY <1>1, <1>3, PTL DEF Spec

-----------------------------------------------------------------------------
(* What the steps do, slot by slot.                                        *)

LEMMA Died ==
  ASSUME Types, NEW s \in Slots, Dead(s)
  PROVE  \A x \in Slots :
           /\ up'[x] = IF x = s THEN FALSE ELSE up[x]
           /\ wbuf'[x] = IF x = s THEN FreshW ELSE wbuf[x]
           /\ writing'[x] = IF x = s THEN Unknown ELSE writing[x]
           /\ rbuf'[x] = IF x = s THEN FreshR ELSE rbuf[x]
           /\ job'[x] = IF x = s THEN NoJob ELSE job[x]
           /\ cached'[x] = IF x = s THEN Unknown ELSE cached[x]
BY DEF Types, Dead

LEMMA DiedWaits ==
  ASSUME Types, NEW s \in Slots, Dead(s), NEW x \in Slots
  PROVE  wbuf'[s][x] = <<>>
<1>1. wbuf'[s] = FreshW
  BY Died
<1>2. FreshW[x] = <<>>
  BY DEF FreshW
<1> QED
  BY <1>1, <1>2

\* Either the first packet that waits is written, or none is.
LEMMA Written ==
  ASSUME Types, NEW s \in Slots, NEW d \in Slots, NEW waiting, WriteFirst(s, d, waiting)
  PROVE  /\ \A x \in Slots \ {d} : pipe'[x] = pipe[x]
         /\ \A t, x \in Slots : t # s \/ x # d => wbuf'[t][x] = wbuf[t][x]
         /\ \A t \in Slots \ {s} : writing'[t] = writing[t]
         /\ \/ /\ pipe'[d] = Append(pipe[d], Head(waiting))
               /\ wbuf'[s][d] = Tail(waiting)
            \/ pipe'[d] = pipe[d] /\ wbuf'[s][d] = waiting
<1>1. CASE Len(pipe[d]) < PipeRoom
  <2>1. /\ pipe' = [pipe EXCEPT ![d] = Append(pipe[d], Head(waiting))]
        /\ wbuf' = [wbuf EXCEPT ![s][d] = Tail(waiting)]
        /\ writing' = [writing EXCEPT ![s] = IF Tail(waiting) = <<>> THEN Unknown ELSE d]
    BY <1>1 DEF WriteFirst
  <2> QED
    BY <2>1 DEF Types
<1>2. CASE ~(Len(pipe[d]) < PipeRoom)
  <2>1. /\ pipe' = pipe
        /\ wbuf' = [wbuf EXCEPT ![s][d] = waiting]
        /\ writing' = [writing EXCEPT ![s] = Unknown]
    BY <1>2 DEF WriteFirst
  <2> QED
    BY <2>1 DEF Types
<1> QED
  BY <1>1, <1>2

\* What is true of every packet that waits, and what is true of every packet
\* in the pipe, stays so.
LEMMA WrittenKeeps ==
  ASSUME Types, NEW s \in Slots, NEW d \in Slots, NEW waiting, WriteFirst(s, d, waiting),
         NEW W, NEW V, W \subseteq V, waiting \in Seq(W), waiting # <<>>,
         pipe[d] \in Seq(V)
  PROVE  pipe'[d] \in Seq(V) /\ wbuf'[s][d] \in Seq(W)
<1>1. Head(waiting) \in W /\ Tail(waiting) \in Seq(W)
  BY HeadTailProperties
<1>2. Append(pipe[d], Head(waiting)) \in Seq(V)
  BY <1>1, AppendProperties
<1>3. \/ pipe'[d] = Append(pipe[d], Head(waiting)) /\ wbuf'[s][d] = Tail(waiting)
      \/ pipe'[d] = pipe[d] /\ wbuf'[s][d] = waiting
  BY Written
<1> QED
  BY <1>1, <1>2, <1>3

\* The packet that SendPart adds, and what it does to the job.
LEMMA Sending ==
  ASSUME Types, NEW s \in Slots, SendPart(s)
  PROVE  /\ job[s].dests # <<>> /\ Head(job[s].dests) # s /\ Head(job[s].dests) \in Slots
         /\ WriteFirst(s, Head(job[s].dests), Append(wbuf[s][Head(job[s].dests)], Made(s)))
         /\ \A x \in Slots : job'[x] = IF x = s THEN NextPart(job[s]) ELSE job[x]
         /\ UNCHANGED <<setting, up, pid, process_type, process_count, rbuf, cached, sent,
                        crashes, starts, handed>>
<1>1. /\ job[s].dests # <<>> /\ Head(job[s].dests) # s
      /\ WriteFirst(s, Head(job[s].dests), Append(wbuf[s][Head(job[s].dests)], Made(s)))
      /\ job' = [job EXCEPT ![s] = NextPart(job[s])]
      /\ UNCHANGED <<setting, up, pid, process_type, process_count, rbuf, cached, sent,
                     crashes, starts, handed>>
  BY DEF SendPart, Made, table
<1>2. Head(job[s].dests) \in Slots
  BY <1>1, MadeType
<1>3. \A x \in Slots : job'[x] = IF x = s THEN NextPart(job[s]) ELSE job[x]
  BY <1>1 DEF Types
<1> QED
  BY <1>1, <1>2, <1>3

LEMMA NextParts ==
  ASSUME Types, NEW s \in Slots
  PROVE  /\ job[s].part < job[s].alert.parts =>
              NextPart(job[s]) = [dests |-> job[s].dests, part |-> 2,
                                  alert |-> job[s].alert]
              /\ job[s].part = 1 /\ job[s].alert.parts = 2
         /\ ~(job[s].part < job[s].alert.parts) =>
              NextPart(job[s]) = [dests |-> Tail(job[s].dests), part |-> 1,
                                  alert |-> job[s].alert]
         /\ NextPart(job[s]).alert = job[s].alert
         /\ NextPart(job[s]).part = IF job[s].part < job[s].alert.parts THEN 2 ELSE 1
         /\ NextPart(job[s]).dests = IF job[s].part < job[s].alert.parts
                                     THEN job[s].dests ELSE Tail(job[s].dests)
<1>1. job[s] \in Job /\ job[s].part \in 1 .. 2 /\ job[s].alert.parts \in 1 .. 2
  BY DEF Types, Job, Alert
<1>2. CASE job[s].part < job[s].alert.parts
  <2>1. NextPart(job[s]) = [job[s] EXCEPT !.part = job[s].part + 1]
        /\ job[s].part + 1 = 2 /\ job[s].part = 1 /\ job[s].alert.parts = 2
    BY <1>1, <1>2 DEF NextPart
  <2> QED
    BY <1>1, <1>2, <2>1 DEF Job
<1>3. CASE ~(job[s].part < job[s].alert.parts)
  <2>1. NextPart(job[s]) = [job[s] EXCEPT !.part = 1, !.dests = Tail(job[s].dests)]
    BY <1>3 DEF NextPart
  <2> QED
    BY <1>1, <1>3, <2>1 DEF Job
<1> QED
  BY <1>2, <1>3

\* An alert begins: what Alerting can do.
Begins(s, dests, kind, parts) ==
  /\ Idle(s) /\ sent' = sent + 1
  /\ \A x \in Slots : job'[x] =
       IF x = s THEN [dests |-> dests, part |-> 1,
                      alert |-> [id |-> sent + 1, kind |-> kind, parts |-> parts]]
       ELSE job[x]
  /\ UNCHANGED <<setting, up, pid, process_type, process_count, pipe, wbuf, writing, rbuf,
                 crashes, starts, handed>>

\* to whom: to a worker, to all of them, or to the manager
ToWorker(dests) == \E d \in Slots : d < Workers /\ dests = <<d>>
ToManager(s, dests) ==
  \E slot \in Slots : /\ slot = IF cached[s] = Unknown THEN ManagerSlot ELSE cached[s]
                      /\ dests = <<slot>>
                      /\ cached' = [cached EXCEPT ![s] = slot]
To(s, dests, kind) ==
  \/ ToWorker(dests) /\ kind = "worker" /\ UNCHANGED cached
  \/ dests = SlotsOf("worker") /\ kind = "worker" /\ UNCHANGED cached
  \/ ToManager(s, dests) /\ kind = "manager"

LEMMA Beginning ==
  ASSUME Types, NEW s \in Slots, Alerting(s)
  PROVE  \E dests \in Seq(Slots), kind \in Kind, parts \in 1 .. 2 :
           Begins(s, dests, kind, parts) /\ To(s, dests, kind)
<1>1. PICK parts \in 1 .. 2 : \/ \E d \in Slots : AlertSlot(s, d, parts)
                              \/ AlertAllWorkers(s, parts)
                              \/ AlertManager(s, parts)
  BY DEF Alerting
<1>2. "worker" \in Kind /\ "manager" \in Kind
  BY DEF Kind
<1>3. ASSUME NEW dests, NEW kind, Begin(s, dests, kind, parts)
      PROVE  Begins(s, dests, kind, parts)
  <2>1. /\ Idle(s) /\ sent' = sent + 1
        /\ job' = [job EXCEPT ![s] =
             [dests |-> dests, part |-> 1,
              alert |-> [id |-> sent', kind |-> kind, parts |-> parts]]]
        /\ UNCHANGED <<setting, up, pid, process_type, process_count, pipe, wbuf,
                       writing, rbuf, crashes, starts, handed>>
    BY <1>3 DEF Begin, table
  <2> QED
    BY <2>1 DEF Types, Begins
<1>4. ASSUME NEW d \in Slots, AlertSlot(s, d, parts)
      PROVE  \E dests \in Seq(Slots), kind \in Kind :
               Begins(s, dests, kind, parts) /\ To(s, dests, kind)
  <2>1. d < Workers /\ <<d>> \in Seq(Slots) /\ Begins(s, <<d>>, "worker", parts)
        /\ UNCHANGED cached
    BY <1>3, <1>4 DEF AlertSlot
  <2>2. To(s, <<d>>, "worker")
    BY <2>1 DEF To, ToWorker
  <2> QED
    BY <1>2, <2>1, <2>2
<1>5. ASSUME AlertAllWorkers(s, parts)
      PROVE  \E dests \in Seq(Slots), kind \in Kind :
               Begins(s, dests, kind, parts) /\ To(s, dests, kind)
  <2>1. SlotsOf("worker") \in Seq(Slots) /\ Begins(s, SlotsOf("worker"), "worker", parts)
        /\ UNCHANGED cached
    BY <1>3, <1>5, SlotsOfType DEF AlertAllWorkers
  <2>2. To(s, SlotsOf("worker"), "worker")
    BY <2>1 DEF To
  <2> QED
    BY <1>2, <2>1, <2>2
<1>6. ASSUME AlertManager(s, parts)
      PROVE  \E dests \in Seq(Slots), kind \in Kind :
               Begins(s, dests, kind, parts) /\ To(s, dests, kind)
  <2>a. PICK slot : slot = IF cached[s] = Unknown THEN ManagerSlot ELSE cached[s]
    OBVIOUS
  <2>2. Begins(s, <<slot>>, "manager", parts) /\ cached' = [cached EXCEPT ![s] = slot]
    BY <1>3, <1>6, <2>a DEF AlertManager
  <2>3. ManagerSlot \in Slots
    <3>1. SlotsOf("manager") \in Seq(Slots)
      BY SlotsOfType
    <3>2. SlotsOf("manager") # <<>> => SlotsOf("manager")[1] \in Slots
      BY <3>1, HeadTailProperties
    <3> QED
      BY <3>2, Numbers DEF ManagerSlot
  <2>4. slot \in Slots /\ <<slot>> \in Seq(Slots)
    BY <2>a, <2>3 DEF Types
  <2>5. To(s, <<slot>>, "manager")
    BY <2>a, <2>2, <2>4 DEF To, ToManager
  <2> QED
    BY <1>2, <2>2, <2>4, <2>5
<1> QED
  BY <1>1, <1>4, <1>5, <1>6

\* A whole alert that is read is handed over, or kills the process.
LEMMA WholeRead ==
  ASSUME Types, NEW d \in Slots, ReadWhole(d), NEW p, p = Head(pipe[d])
  PROVE  /\ up[d] /\ job[d].dests = <<>> /\ pipe[d] # <<>> /\ p \in Packet
         /\ p.alert.parts = 1 /\ p.part \in 1 .. 2
         /\ \A x \in Slots : pipe'[x] = IF x = d THEN Tail(pipe[d]) ELSE pipe[x]
         /\ UNCHANGED <<setting, pid, process_type, process_count, sent, crashes, starts>>
         /\ \/ /\ HasHandler(d, p.alert.kind)
               /\ \A x \in Slots : handed'[x] =
                    IF x = d THEN Append(handed[d], <<p.src, <<p.alert.id>>>>)
                    ELSE handed[x]
               /\ UNCHANGED <<up, wbuf, writing, rbuf, job, cached>>
            \/ Dead(d) /\ UNCHANGED handed
<1>1. /\ up[d] /\ job[d].dests = <<>> /\ pipe[d] # <<>> /\ p.alert.parts = 1
      /\ pipe' = [pipe EXCEPT ![d] = Tail(pipe[d])]
      /\ UNCHANGED <<setting, pid, process_type, process_count, sent, crashes, starts>>
  BY DEF ReadWhole, Idle, table
<1>2. \/ /\ HasHandler(d, p.alert.kind)
         /\ handed' = [handed EXCEPT ![d] = Append(handed[d], <<p.src, <<p.alert.id>>>>)]
         /\ UNCHANGED <<up, wbuf, writing, rbuf, job, cached>>
      \/ Dead(d) /\ UNCHANGED handed
  BY DEF ReadWhole
<1>3. p \in Packet
  BY <1>1, HeadTailProperties DEF Types
<1>4. p.part \in 1 .. 2
  BY <1>3, OneId
<1>5. \A x \in Slots : pipe'[x] = IF x = d THEN Tail(pipe[d]) ELSE pipe[x]
  BY <1>1 DEF Types
<1>6. \/ /\ HasHandler(d, p.alert.kind)
         /\ \A x \in Slots : handed'[x] =
              IF x = d THEN Append(handed[d], <<p.src, <<p.alert.id>>>>) ELSE handed[x]
         /\ UNCHANGED <<up, wbuf, writing, rbuf, job, cached>>
      \/ Dead(d) /\ UNCHANGED handed
  BY <1>2 DEF Types
<1> QED
  BY <1>1, <1>3, <1>4, <1>5, <1>6

\* What reading a part does: it begins an alert, or completes one that is
\* handed over or kills the process.
\* A first part is kept, or a second one makes an alert whole.
KeepsPart(d, p, old) ==
  /\ p.part = 1 /\ old.pid # p.pid
  /\ \A x, s \in Slots : rbuf'[x][s] =
       IF x = d /\ s = p.src THEN [pid |-> p.pid, parts |-> 2, ids |-> <<p.alert.id>>]
       ELSE rbuf[x][s]
  /\ UNCHANGED <<up, wbuf, writing, job, cached, handed>>
HandsParts(d, p, old) ==
  /\ p.part = 2 /\ old.pid = p.pid /\ old # NoBuf
  /\ HasHandler(d, p.alert.kind)
  /\ \A x, s \in Slots : rbuf'[x][s] = IF x = d /\ s = p.src THEN NoBuf ELSE rbuf[x][s]
  /\ \A x \in Slots : handed'[x] =
       IF x = d THEN Append(handed[d], <<p.src, Append(old.ids, p.alert.id)>>)
       ELSE handed[x]
  /\ UNCHANGED <<up, wbuf, writing, job, cached>>

LEMMA PartRead ==
  ASSUME Types, Bounded, NEW d \in Slots, ReadPart(d), NEW p, p = Head(pipe[d]),
         NEW old, old = rbuf[d][p.src]
  PROVE  /\ up[d] /\ job[d].dests = <<>> /\ pipe[d] # <<>> /\ p \in Packet
         /\ p.alert.parts = 2
         /\ \A x \in Slots : pipe'[x] = IF x = d THEN Tail(pipe[d]) ELSE pipe[x]
         /\ UNCHANGED <<setting, pid, process_type, process_count, sent, crashes, starts>>
         /\ \/ KeepsPart(d, p, old)
            \/ HandsParts(d, p, old)
            \/ p.part = 2 /\ Dead(d) /\ UNCHANGED handed
<1>a. PICK buf : buf = Joined(old, p)
  OBVIOUS
<1>1. /\ up[d] /\ job[d].dests = <<>> /\ pipe[d] # <<>>
      /\ p.alert.parts > 1 /\ buf # NoBuf
      /\ pipe' = [pipe EXCEPT ![d] = Tail(pipe[d])]
      /\ UNCHANGED <<setting, pid, process_type, process_count, sent, crashes, starts>>
  BY <1>a DEF ReadPart, Idle, table
<1>2. p \in Packet
  BY <1>1, HeadTailProperties DEF Types
<1>3. /\ p.src \in Slots /\ p.part \in 1 .. 2 /\ p.alert.parts = 2 /\ p.alert.id \in 1 .. MaxAlerts
      /\ p.pid \in Nat
  BY <1>1, <1>2, OneId
<1>4. old \in Buf /\ (old # NoBuf => old.parts = 2 /\ Len(old.ids) = 1)
  BY <1>3 DEF Types, Bounded
<1>5. \A x \in Slots : pipe'[x] = IF x = d THEN Tail(pipe[d]) ELSE pipe[x]
  BY <1>1 DEF Types
<1>6. CASE old.pid # p.pid
  <2>1. p.part = 1 /\ buf = [pid |-> p.pid, parts |-> 2, ids |-> <<p.alert.id>>]
    BY <1>1, <1>3, <1>6, <1>a DEF Joined
  <2>2. Len(buf.ids) # buf.parts
    BY <2>1
  <2>3. /\ rbuf' = [rbuf EXCEPT ![d][p.src] = buf]
        /\ UNCHANGED <<up, wbuf, writing, job, cached, handed>>
    BY <1>a, <2>2 DEF ReadPart
  <2>4. \A x, s \in Slots : rbuf'[x][s] = IF x = d /\ s = p.src THEN buf ELSE rbuf[x][s]
    BY <2>3, <1>3 DEF Types
  <2>5. \A x, s \in Slots : rbuf'[x][s] =
          IF x = d /\ s = p.src
          THEN [pid |-> p.pid, parts |-> 2, ids |-> <<p.alert.id>>] ELSE rbuf[x][s]
    BY <2>1, <2>4
  <2>6. KeepsPart(d, p, old)
    BY <1>6, <2>1, <2>3, <2>5 DEF KeepsPart
  <2> QED
    BY <1>1, <1>2, <1>3, <1>5, <2>6
<1>7. CASE old.pid = p.pid
  <2>1. /\ p.part = 2 /\ p.alert.parts = old.parts
        /\ buf = [old EXCEPT !.ids = Append(old.ids, p.alert.id)]
    <3>1. /\ p.part # 1 /\ p.alert.parts = old.parts
          /\ buf = [old EXCEPT !.ids = Append(old.ids, p.alert.id)]
      BY <1>1, <1>7, <1>a DEF Joined
    <3> QED
      BY <1>3, <3>1
  <2>2. old # NoBuf
    BY <1>3, <2>1 DEF NoBuf
  <2>3. buf.ids = Append(old.ids, p.alert.id) /\ buf.parts = 2
    BY <1>3, <1>4, <2>1 DEF Buf
  <2>4. Len(buf.ids) = buf.parts
    <3>1. old.ids \in Seq(1 .. MaxAlerts)
      BY <1>4 DEF Buf
    <3>2. Len(old.ids) = 1
      BY <1>4, <2>2
    <3>3. Len(Append(old.ids, p.alert.id)) = Len(old.ids) + 1
      BY <1>3, <3>1, AppendProperties
    <3>4. Len(Append(old.ids, p.alert.id)) = 2
      BY <3>2, <3>3
    <3> QED
      BY <2>3, <3>4
  <2>5. CASE HasHandler(d, p.alert.kind)
    <3>1. /\ rbuf' = [rbuf EXCEPT ![d][p.src] = NoBuf]
          /\ handed' = [handed EXCEPT ![d] = Append(handed[d], <<p.src, buf.ids>>)]
          /\ UNCHANGED <<up, wbuf, writing, job, cached>>
      BY <1>a, <2>4, <2>5 DEF ReadPart
    <3>2. \A x, s \in Slots : rbuf'[x][s] = IF x = d /\ s = p.src THEN NoBuf ELSE rbuf[x][s]
      BY <3>1, <1>3 DEF Types
    <3>3. \A x \in Slots : handed'[x] =
            IF x = d THEN Append(handed[d], <<p.src, Append(old.ids, p.alert.id)>>)
            ELSE handed[x]
      BY <3>1, <2>3 DEF Types
    <3>4. HandsParts(d, p, old)
      BY <1>7, <2>1, <2>2, <2>5, <3>1, <3>2, <3>3 DEF HandsParts
    <3> QED
      BY <1>1, <1>2, <1>3, <1>5, <3>4
  <2>6. CASE ~HasHandler(d, p.alert.kind)
    <3>1. Dead(d) /\ UNCHANGED handed
      BY <1>a, <2>4, <2>6 DEF ReadPart
    <3> QED
      BY <1>1, <1>2, <1>3, <1>5, <2>1, <3>1
  <2> QED
    BY <2>5, <2>6
<1> QED
  BY <1>6, <1>7

\* A part that does not fit.
LEMMA WeirdRead ==
  ASSUME Types, NEW d \in Slots, ReadWeird(d), NEW p, p = Head(pipe[d])
  PROVE  /\ up[d] /\ job[d].dests = <<>> /\ pipe[d] # <<>> /\ p \in Packet
         /\ p.alert.parts = 2 /\ Joined(rbuf[d][p.src], p) = NoBuf
         /\ \A x \in Slots : pipe'[x] = IF x = d THEN <<>> ELSE pipe[x]
         /\ \A x, s \in Slots : rbuf'[x][s] = IF x = d /\ s = p.src THEN NoBuf ELSE rbuf[x][s]
         /\ UNCHANGED <<setting, up, pid, process_type, process_count, wbuf, writing, job,
                        cached, sent, crashes, starts, handed>>
<1>1. /\ up[d] /\ job[d].dests = <<>> /\ pipe[d] # <<>>
      /\ p.alert.parts > 1 /\ Joined(rbuf[d][p.src], p) = NoBuf
      /\ pipe' = [pipe EXCEPT ![d] = <<>>]
      /\ rbuf' = [rbuf EXCEPT ![d][p.src] = NoBuf]
      /\ UNCHANGED <<setting, up, pid, process_type, process_count, wbuf, writing, job,
                     cached, sent, crashes, starts, handed>>
  BY DEF ReadWeird, Idle, table
<1>2. p \in Packet
  BY <1>1, HeadTailProperties DEF Types
<1>3. p.src \in Slots /\ p.alert.parts = 2
  BY <1>1, <1>2, OneId
<1>4. \A x \in Slots : pipe'[x] = IF x = d THEN <<>> ELSE pipe[x]
  BY <1>1 DEF Types
<1>5. \A x, s \in Slots : rbuf'[x][s] = IF x = d /\ s = p.src THEN NoBuf ELSE rbuf[x][s]
  BY <1>1, <1>3 DEF Types
<1> QED
  BY <1>1, <1>2, <1>3, <1>4, <1>5

\* An alert to oneself is handed over at once, or kills the process.
LEMMA OwnSent ==
  ASSUME Types, NEW s \in Slots, SendOwn(s)
  PROVE  /\ job[s].dests # <<>> /\ Head(job[s].dests) = s
         /\ UNCHANGED <<setting, pid, process_type, process_count, pipe, sent, crashes,
                        starts>>
         /\ \/ /\ HasHandler(s, job[s].alert.kind)
               /\ \A x \in Slots : handed'[x] =
                    IF x = s THEN Append(handed[s], <<s, <<job[s].alert.id>>>>)
                    ELSE handed[x]
               /\ \A x \in Slots : job'[x] =
                    IF x = s THEN [dests |-> Tail(job[s].dests), part |-> job[s].part,
                                   alert |-> job[s].alert]
                    ELSE job[x]
               /\ UNCHANGED <<up, wbuf, writing, rbuf, cached>>
            \/ Dead(s) /\ UNCHANGED handed
<1>1. /\ job[s].dests # <<>> /\ Head(job[s].dests) = s
      /\ UNCHANGED <<setting, pid, process_type, process_count, pipe, sent, crashes, starts>>
  BY DEF SendOwn, table
<1>2. CASE HasHandler(s, job[s].alert.kind)
  <2>1. /\ handed' = [handed EXCEPT ![s] = Append(handed[s], <<s, <<job[s].alert.id>>>>)]
        /\ job' = [job EXCEPT ![s] = [job[s] EXCEPT !.dests = Tail(job[s].dests)]]
        /\ UNCHANGED <<up, wbuf, writing, rbuf, cached>>
    BY <1>2 DEF SendOwn
  <2>2. [job[s] EXCEPT !.dests = Tail(job[s].dests)]
          = [dests |-> Tail(job[s].dests), part |-> job[s].part, alert |-> job[s].alert]
    <3>a. PICK j : j = job[s]
      OBVIOUS
    <3>1. j \in [dests : Seq(Slots), part : 1 .. 2, alert : Alert]
      BY <3>a DEF Types, Job
    <3>b. PICK rest : rest = Tail(j.dests)
      OBVIOUS
    <3>2. rest \in Seq(Slots)
      BY <1>1, <3>a, <3>b, MadeType
    <3>3. [j EXCEPT !.dests = rest] = [dests |-> rest, part |-> j.part, alert |-> j.alert]
      BY <3>1, <3>2
    <3> QED
      BY <3>a, <3>b, <3>3
  <2>3. \A x \in Slots : handed'[x] =
          IF x = s THEN Append(handed[s], <<s, <<job[s].alert.id>>>>) ELSE handed[x]
    BY <2>1 DEF Types
  <2>4. \A x \in Slots : job'[x] =
          IF x = s THEN [dests |-> Tail(job[s].dests), part |-> job[s].part,
                         alert |-> job[s].alert]
          ELSE job[x]
    BY <2>1, <2>2 DEF Types
  <2> QED
    BY <1>1, <1>2, <2>1, <2>3, <2>4
<1>3. CASE ~HasHandler(s, job[s].alert.kind)
  BY <1>1, <1>3 DEF SendOwn
<1> QED
  BY <1>2, <1>3

-----------------------------------------------------------------------------
(* Processes: every one that starts has a number greater than those before *)
(* it, and what is not there has nothing.                                  *)

Numbered ==
  /\ starts >= Workers /\ (~setting.startup => starts >= MaxProcesses)
  /\ \A s \in Slots : /\ pid[s] <= starts
                      /\ pid[s] = 0 => ~up[s]
                      /\ s >= Workers => pid[s] = 0 \/ pid[s] > Workers

Absent(s) ==
  wbuf[s] = FreshW /\ rbuf[s] = FreshR /\ job[s] = NoJob /\ writing[s] = Unknown
Fresh == \A s \in Slots : ~up[s] => Absent(s)

LEMMA NumberedStep == Types /\ Numbered /\ [Next]_vars => Numbered'
<1> SUFFICES ASSUME Types, Numbered, [Next]_vars PROVE Numbered'
  OBVIOUS
<1>1. ASSUME NEW s \in Slots, Start(s)
      PROVE  Numbered'
  <2>1. /\ starts' = starts + 1 /\ setting' = setting
        /\ \A x \in Slots : /\ pid'[x] = IF x = s THEN starts + 1 ELSE pid[x]
                            /\ up'[x] = IF x = s THEN TRUE ELSE up[x]
    BY <1>1 DEF Start, Types
  <2>2. starts \in Nat /\ \A x \in Slots : pid[x] \in Nat
    BY DEF Types
  <2>3. starts' >= Workers /\ (~setting'.startup => starts' >= MaxProcesses)
    BY <2>1, <2>2, Numbers DEF Numbered
  <2>4. ASSUME NEW x \in Slots
        PROVE  /\ pid'[x] <= starts' /\ (pid'[x] = 0 => ~up'[x])
               /\ x >= Workers => pid'[x] = 0 \/ pid'[x] > Workers
    <3>1. CASE x = s
      <4>1. pid'[x] = starts + 1 /\ starts >= Workers /\ Workers \in Nat
        BY <2>1, <3>1, Numbers DEF Numbered
      <4> QED
        BY <2>1, <2>2, <4>1
    <3>2. CASE x # s
      <4>1. pid'[x] = pid[x] /\ up'[x] = up[x] /\ pid[x] <= starts
        BY <2>1, <3>2 DEF Numbered
      <4>2. pid'[x] <= starts'
        BY <2>1, <2>2, <4>1
      <4> QED
        BY <4>1, <4>2 DEF Numbered
    <3> QED
      BY <3>1, <3>2
  <2> QED
    BY <2>3, <2>4 DEF Numbered
<1>2. ASSUME UNCHANGED <<setting, pid, starts>>,
             UNCHANGED up \/ \E s \in Slots : Dead(s)
      PROVE  Numbered'
  <2>1. \A x \in Slots : up'[x] => up[x]
    BY <1>2, Died
  <2> QED
    BY <1>2, <2>1 DEF Numbered
<1>3. ASSUME NEW s \in Slots, Scrape(s) \/ Die(s) \/ Alerting(s) \/ Writing(s) \/ Reading(s)
      PROVE  Numbered'
  <2>1. CASE Scrape(s) \/ Die(s)
    BY <1>2, <2>1 DEF Scrape, Die, table
  <2>2. CASE Alerting(s)
    BY <1>2, <2>2, Beginning DEF Begins
  <2>3. CASE SendPart(s)
    BY <1>2, <2>3, Sending
  <2>4. CASE SendOwn(s)
    BY <1>2, <2>4, OwnSent
  <2>5. ASSUME NEW d \in Slots, WriteHandler(s, d)
        PROVE  Numbered'
    BY <1>2, <2>5 DEF WriteHandler, table
  <2>6. CASE Reading(s)
    <3>1. UNCHANGED <<setting, pid, starts>>
      BY <2>6 DEF Reading, ReadWhole, ReadPart, ReadWeird, table
    <3>2. UNCHANGED up \/ Dead(s)
      BY <2>6 DEF Reading, ReadWhole, ReadPart, ReadWeird
    <3> QED
      BY <1>2, <3>1, <3>2
  <2> QED
    BY <1>3, <2>1, <2>2, <2>3, <2>4, <2>5, <2>6 DEF Writing
<1>4. CASE UNCHANGED vars
  BY <1>2, <1>4 DEF vars, table
<1> QED
  BY <1>1, <1>3, <1>4 DEF Next

\* Only what is there sends, writes or reads.
LEMMA There ==
  ASSUME Types, Fresh, NEW s \in Slots,
         Alerting(s) \/ Writing(s) \/ Reading(s)
  PROVE  up[s]
<1>1. job[s].dests # <<>> => up[s]
  BY DEF Fresh, Absent, NoJob
<1>2. ASSUME Alerting(s) PROVE up[s]
  BY <1>2, Beginning DEF Begins, Idle
<1> QED
  BY <1>1, <1>2
     DEF Writing, Reading, SendPart, SendOwn, WriteHandler, ReadWhole, ReadPart,
         ReadWeird, Idle

LEMMA FreshStep == Types /\ Bounded /\ Fresh /\ [Next]_vars => Fresh'
<1> SUFFICES ASSUME Types, Bounded, Fresh, [Next]_vars PROVE Fresh'
  OBVIOUS
<1>1. ASSUME NEW s \in Slots, Dead(s)
      PROVE  Fresh'
  BY <1>1, Died DEF Fresh, Absent
<1>2. ASSUME NEW s \in Slots, up[s], up' = up,
             \A x \in Slots \ {s} : /\ wbuf'[x] = wbuf[x] /\ rbuf'[x] = rbuf[x]
                                    /\ job'[x] = job[x] /\ writing'[x] = writing[x]
      PROVE  Fresh'
  BY <1>2 DEF Fresh, Absent
<1>3. ASSUME NEW s \in Slots, Start(s)
      PROVE  Fresh'
  BY <1>3 DEF Start, Fresh, Absent, Types
<1>4. ASSUME NEW s \in Slots, Scrape(s) \/ Die(s)
      PROVE  Fresh'
  <2>1. CASE Scrape(s)
    BY <2>1 DEF Scrape, Fresh, Absent
  <2> QED
    BY <1>1, <1>4, <2>1 DEF Die
<1>5. ASSUME NEW s \in Slots, Alerting(s)
      PROVE  Fresh'
  <2>1. up[s]
    BY <1>5, There
  <2>2. up' = up /\ UNCHANGED <<wbuf, rbuf, writing>>
        /\ \A x \in Slots \ {s} : job'[x] = job[x]
    BY <1>5, Beginning DEF Begins
  <2> QED
    BY <1>2, <2>1, <2>2
<1>6. ASSUME NEW s \in Slots, NEW d \in Slots, NEW waiting, WriteFirst(s, d, waiting)
      PROVE  \A x \in Slots \ {s} : wbuf'[x] = wbuf[x] /\ writing'[x] = writing[x]
  <2>1. \/ wbuf' = [wbuf EXCEPT ![s][d] = waiting]
        \/ wbuf' = [wbuf EXCEPT ![s][d] = Tail(waiting)]
    BY <1>6 DEF WriteFirst
  <2>2. \A x \in Slots \ {s} : wbuf'[x] = wbuf[x]
    BY <2>1 DEF Types
  <2> QED
    BY <1>6, <2>2, Written
<1>7. ASSUME NEW s \in Slots, Writing(s)
      PROVE  Fresh'
  <2>1. up[s]
    BY <1>7, There
  <2>2. CASE SendPart(s)
    <3>1. up' = up /\ rbuf' = rbuf /\ \A x \in Slots \ {s} : job'[x] = job[x]
      BY <2>2, Sending
    <3>2. \A x \in Slots \ {s} : wbuf'[x] = wbuf[x] /\ writing'[x] = writing[x]
      BY <2>2, <1>6, Sending
    <3> QED
      BY <1>2, <2>1, <3>1, <3>2
  <2>3. CASE SendOwn(s)
    <3>1. CASE Dead(s)
      BY <1>1, <3>1
    <3>2. CASE ~Dead(s)
      <4>1. UNCHANGED <<up, wbuf, writing, rbuf>>
            /\ \A x \in Slots \ {s} : job'[x] = job[x]
        BY <2>3, <3>2, OwnSent
      <4> QED
        BY <1>2, <2>1, <4>1
    <3> QED
      BY <3>1, <3>2
  <2>4. ASSUME NEW d \in Slots, WriteHandler(s, d)
        PROVE  Fresh'
    <3>1. UNCHANGED <<up, rbuf, job>> /\ WriteFirst(s, d, wbuf[s][d])
      BY <2>4 DEF WriteHandler
    <3>2. \A x \in Slots \ {s} : wbuf'[x] = wbuf[x] /\ writing'[x] = writing[x]
      BY <1>6, <3>1
    <3> QED
      BY <1>2, <2>1, <3>1, <3>2
  <2> QED
    BY <1>7, <2>2, <2>3, <2>4 DEF Writing
<1>8. ASSUME NEW d \in Slots, Reading(d)
      PROVE  Fresh'
  <2>1. up[d]
    BY <1>8, There
  <2>2. CASE Dead(d)
    BY <1>1, <2>2
  <2>3. CASE ~Dead(d)
    <3>1. UNCHANGED <<up, wbuf, writing, job>>
      BY <1>8, <2>3 DEF Reading, ReadWhole, ReadPart, ReadWeird
    <3>2. \/ rbuf' = rbuf
          \/ \E b : rbuf' = [rbuf EXCEPT ![d][Head(pipe[d]).src] = b]
      BY <1>8, <2>3 DEF Reading, ReadWhole, ReadPart, ReadWeird
    <3>3. \A x \in Slots \ {d} : rbuf'[x] = rbuf[x]
      BY <3>2 DEF Types
    <3> QED
      BY <1>2, <2>1, <3>1, <3>3
  <2> QED
    BY <2>2, <2>3
<1>9. CASE UNCHANGED vars
  BY <1>9 DEF vars, table, Fresh, Absent
<1> QED
  BY <1>3, <1>4, <1>5, <1>7, <1>8, <1>9 DEF Next

-----------------------------------------------------------------------------
(* Jobs and packets: the second part of an alert is never one to oneself,  *)
(* and the packets that wait in a process, or are in its pipe, are its own *)
(* or come from others.                                                    *)

Halfway(s) == job[s].part = 2
Jobs ==
  \A s \in Slots :
    Halfway(s) => /\ job[s].dests # <<>> /\ Head(job[s].dests) # s
                  /\ job[s].alert.parts = 2

Route(s, d) == {p \in Packet : p.src = s /\ s # d /\ p.part <= p.alert.parts}
Inlet(d) == {p \in Packet : p.src # d /\ p.part <= p.alert.parts}
Senders ==
  /\ \A s, d \in Slots : wbuf[s][d] \in Seq(Route(s, d))
  /\ \A d \in Slots : pipe[d] \in Seq(Inlet(d))

LEMMA NoJobPart == NoJob.part = 1 /\ NoJob.dests = <<>>
BY DEF NoJob

LEMMA JobsStep == Types /\ Bounded /\ Jobs /\ [Next]_vars => Jobs'
<1> SUFFICES ASSUME Types, Bounded, Jobs, [Next]_vars PROVE Jobs'
  OBVIOUS
<1>1. ASSUME NEW s \in Slots, Dead(s)
      PROVE  Jobs'
  <2>1. \A x \in Slots : job'[x] = IF x = s THEN NoJob ELSE job[x]
    BY <1>1, Died
  <2> QED
    BY <2>1, NoJobPart DEF Jobs, Halfway
<1>2. ASSUME job' = job
      PROVE  Jobs'
  BY <1>2 DEF Jobs, Halfway
<1>3. ASSUME NEW s \in Slots, Start(s) \/ Scrape(s) \/ Die(s)
      PROVE  Jobs'
  BY <1>1, <1>2, <1>3 DEF Start, Scrape, Die
<1>4. ASSUME NEW s \in Slots, Alerting(s)
      PROVE  Jobs'
  <2>1. PICK dests, kind, parts : Begins(s, dests, kind, parts)
    BY <1>4, Beginning
  <2>2. job'[s].part = 1 /\ \A x \in Slots \ {s} : job'[x] = job[x]
    BY <2>1 DEF Begins
  <2> QED
    BY <2>2 DEF Jobs, Halfway
<1>5. ASSUME NEW s \in Slots, SendPart(s)
      PROVE  Jobs'
  <2>1. /\ job[s].dests # <<>> /\ Head(job[s].dests) # s
        /\ \A x \in Slots : job'[x] = IF x = s THEN NextPart(job[s]) ELSE job[x]
    BY <1>5, Sending
  <2>2. NextPart(job[s]).part = 2 =>
          NextPart(job[s]).dests = job[s].dests /\ NextPart(job[s]).alert.parts = 2
    <3>1. CASE job[s].part < job[s].alert.parts
      BY <3>1, NextParts
    <3>2. CASE ~(job[s].part < job[s].alert.parts)
      <4>1. NextPart(job[s]).part = 1
        BY <3>2, NextParts
      <4> QED
        BY <4>1
    <3> QED
      BY <3>1, <3>2
  <2> QED
    BY <2>1, <2>2 DEF Jobs, Halfway
<1>6. ASSUME NEW s \in Slots, SendOwn(s)
      PROVE  Jobs'
  <2>1. CASE Dead(s)
    BY <1>1, <2>1
  <2>2. CASE ~Dead(s)
    <3>1. /\ Head(job[s].dests) = s /\ job'[s].part = job[s].part
          /\ \A x \in Slots \ {s} : job'[x] = job[x]
      <4>1. /\ Head(job[s].dests) = s
            /\ \A x \in Slots : job'[x] =
                 IF x = s THEN [dests |-> Tail(job[s].dests), part |-> job[s].part,
                                alert |-> job[s].alert]
                 ELSE job[x]
        BY <1>6, <2>2, OwnSent
      <4> QED
        BY <4>1
    <3> QED
      BY <3>1 DEF Jobs, Halfway
  <2> QED
    BY <2>1, <2>2
<1>7. ASSUME NEW s \in Slots, Reading(s) \/ \E d \in Slots : WriteHandler(s, d)
      PROVE  Jobs'
  <2>1. job' = job \/ Dead(s)
    BY <1>7 DEF WriteHandler, Reading, ReadWhole, ReadPart, ReadWeird
  <2> QED
    BY <1>1, <1>2, <2>1
<1>8. CASE UNCHANGED vars
  BY <1>2, <1>8 DEF vars
<1> QED
  BY <1>3, <1>4, <1>5, <1>6, <1>7, <1>8 DEF Next, Writing

LEMMA MadeRoute ==
  ASSUME Types, Jobs, NEW s \in Slots, job[s].dests # <<>>, NEW d \in Slots, d # s
  PROVE  Made(s) \in Route(s, d)
<1>1. /\ Made(s) \in Packet /\ Made(s).src = s /\ Made(s).part = job[s].part
      /\ Made(s).alert = job[s].alert
  BY MadeType DEF Made
<1>2. job[s].part \in 1 .. 2 /\ job[s].alert.parts \in 1 .. 2
  BY DEF Types, Job, Alert
<1>3. job[s].part <= job[s].alert.parts
  BY <1>2 DEF Jobs, Halfway
<1> QED
  BY <1>1, <1>3 DEF Route

LEMMA SendersStep == Types /\ Bounded /\ Jobs /\ Senders /\ [Next]_vars => Senders'
<1> SUFFICES ASSUME Types, Bounded, Jobs, Senders, [Next]_vars PROVE Senders'
  OBVIOUS
<1>1. ASSUME wbuf' = wbuf \/ \E s \in Slots : Dead(s)
      PROVE  \A s, d \in Slots : wbuf'[s][d] \in Seq(Route(s, d))
  <2>1. ASSUME NEW s \in Slots, NEW d \in Slots
        PROVE  wbuf'[s][d] \in Seq(Route(s, d))
    <3>1. wbuf'[s] = wbuf[s] \/ wbuf'[s] = FreshW
      BY <1>1, Died
    <3>2. FreshW[d] = <<>> /\ <<>> \in Seq(Route(s, d))
      BY DEF FreshW
    <3> QED
      BY <3>1, <3>2 DEF Senders
  <2> QED
    BY <2>1
<1>2. ASSUME NEW s \in Slots, Start(s) \/ Scrape(s) \/ Die(s) \/ Alerting(s)
      PROVE  Senders'
  <2>1. pipe' = pipe /\ (wbuf' = wbuf \/ Dead(s))
    BY <1>2, Beginning DEF Start, Scrape, Die, Begins
  <2> QED
    BY <1>1, <2>1 DEF Senders
<1>3. ASSUME NEW s \in Slots, NEW d \in Slots, NEW waiting, WriteFirst(s, d, waiting),
             waiting \in Seq(Route(s, d)), waiting # <<>>
      PROVE  Senders'
  <2>1. Route(s, d) \subseteq Inlet(d) /\ pipe[d] \in Seq(Inlet(d))
    BY DEF Route, Inlet, Senders
  <2>2. pipe'[d] \in Seq(Inlet(d)) /\ wbuf'[s][d] \in Seq(Route(s, d))
    BY <1>3, <2>1, WrittenKeeps
  <2>3. /\ \A x \in Slots \ {d} : pipe'[x] = pipe[x]
        /\ \A t, x \in Slots : t # s \/ x # d => wbuf'[t][x] = wbuf[t][x]
    BY <1>3, Written
  <2> QED
    BY <2>2, <2>3 DEF Senders
<1>4. ASSUME NEW s \in Slots, SendPart(s)
      PROVE  Senders'
  <2>a. PICK d : d = Head(job[s].dests)
    OBVIOUS
  <2>b. PICK waiting : waiting = Append(wbuf[s][d], Made(s))
    OBVIOUS
  <2>1. d \in Slots /\ d # s /\ job[s].dests # <<>> /\ WriteFirst(s, d, waiting)
    BY <1>4, <2>a, <2>b, Sending
  <2>3. Made(s) \in Route(s, d) /\ wbuf[s][d] \in Seq(Route(s, d))
    BY <2>1, MadeRoute DEF Senders
  <2>4. waiting \in Seq(Route(s, d)) /\ waiting # <<>>
    BY <2>b, <2>3, AppendProperties
  <2> QED
    BY <1>3, <2>1, <2>4
<1>5. ASSUME NEW s \in Slots, NEW d \in Slots, WriteHandler(s, d)
      PROVE  Senders'
  <2>1. wbuf[s][d] # <<>> /\ WriteFirst(s, d, wbuf[s][d])
    BY <1>5 DEF WriteHandler
  <2>2. wbuf[s][d] \in Seq(Route(s, d))
    BY DEF Senders
  <2> QED
    BY <1>3, <2>1, <2>2
<1>6. ASSUME NEW s \in Slots, SendOwn(s)
      PROVE  Senders'
  <2>1. pipe' = pipe /\ (wbuf' = wbuf \/ Dead(s))
    BY <1>6, OwnSent
  <2> QED
    BY <1>1, <2>1 DEF Senders
<1>7. ASSUME NEW d \in Slots, Reading(d)
      PROVE  Senders'
  <2>1. wbuf' = wbuf \/ Dead(d)
    BY <1>7 DEF Reading, ReadWhole, ReadPart, ReadWeird
  <2>2. /\ pipe[d] # <<>> /\ (pipe'[d] = Tail(pipe[d]) \/ pipe'[d] = <<>>)
        /\ \A x \in Slots \ {d} : pipe'[x] = pipe[x]
    <3>1. /\ pipe[d] # <<>>
          /\ \/ pipe' = [pipe EXCEPT ![d] = Tail(pipe[d])]
             \/ pipe' = [pipe EXCEPT ![d] = <<>>]
      BY <1>7 DEF Reading, ReadWhole, ReadPart, ReadWeird
    <3>2. pipe \in [Slots -> Seq(Packet)]
      BY DEF Types
    <3>3. pipe'[d] = Tail(pipe[d]) \/ pipe'[d] = <<>>
      BY <3>1, <3>2
    <3>4. \A x \in Slots \ {d} : pipe'[x] = pipe[x]
      BY <3>1, <3>2
    <3> QED
      BY <3>1, <3>3, <3>4
  <2>3. pipe[d] \in Seq(Inlet(d)) /\ Tail(pipe[d]) \in Seq(Inlet(d))
        /\ <<>> \in Seq(Inlet(d))
    BY <2>2, HeadTailProperties DEF Senders
  <2>4. \A x \in Slots : pipe'[x] \in Seq(Inlet(x))
    BY <2>2, <2>3 DEF Senders
  <2> QED
    BY <1>1, <2>1, <2>4 DEF Senders
<1>8. CASE UNCHANGED vars
  BY <1>8 DEF vars, Senders
<1> QED
  BY <1>2, <1>4, <1>5, <1>6, <1>7, <1>8 DEF Next, Writing

-----------------------------------------------------------------------------
(* Handlers: once every process has said what it is, the slots that are    *)
(* looked up, and so the packets under way, have the handler they are for. *)

Served(kind) == {d \in Slots : HasHandler(d, kind)}
Fit(d) == {p \in Packet : HasHandler(d, p.alert.kind)}
Handled ==
  /\ \A s \in Slots : /\ process_type[s] = TitleOf(s)
                      /\ cached[s] \in {Unknown, Manager}
                      /\ job[s].dests \in Seq(Served(job[s].alert.kind))
  /\ \A s, d \in Slots : wbuf[s][d] \in Seq(Fit(d))
  /\ \A d \in Slots : pipe[d] \in Seq(Fit(d))
Handlers == ~setting.startup => Handled

LEMMA Titles ==
  /\ \A s \in Slots : TitleOf(s) = "worker" => s < Workers
  /\ \A s \in Slots : TitleOf(s) = "manager" => s = Manager
  /\ TitleOf(Manager) = "manager"
  /\ Manager \in Served("manager") /\ 0 \in Served("worker")
  /\ \A s \in Slots : s < Workers => s \in Served("worker")
BY Numbers DEF TitleOf, Served, HasHandler

LEMMA ElementsIn ==
  ASSUME NEW S, NEW T, NEW seq \in Seq(S), \A i \in DOMAIN seq : seq[i] \in T
  PROVE  seq \in Seq(T)
<1>1. seq \in [1 .. Len(seq) -> T] /\ Len(seq) \in Nat
  BY LenProperties
<1> QED
  BY <1>1, SeqDef

\* Whoever an alert is sent to has a handler for it.
LEMMA ToServed ==
  ASSUME Types, Numbered, ~setting.startup, Handled, NEW s \in Slots,
         NEW dests \in Seq(Slots), NEW kind \in Kind, To(s, dests, kind)
  PROVE  /\ dests \in Seq(Served(kind))
         /\ \A x \in Slots : cached'[x] \in {Unknown, Manager}
<1>1. ASSUME NEW d \in Slots, d < Workers, dests = <<d>>, kind = "worker"
      PROVE  dests \in Seq(Served(kind))
  <2>1. d \in Served("worker")
    BY <1>1, Titles
  <2> QED
    BY <1>1, <2>1
<1>2. ASSUME dests = SlotsOf("worker"), kind = "worker"
      PROVE  dests \in Seq(Served(kind))
  <2>1. ASSUME NEW i \in DOMAIN dests
        PROVE  dests[i] \in Served("worker")
    <3>1. dests[i] \in Slots
      BY LenProperties
    <3>2. process_type[dests[i]] = "worker" \/ dests[i] = 0
      BY <1>2, <2>1, SlotsFound
    <3> QED
      BY <3>1, <3>2, Titles DEF Handled
  <2>2. dests \in Seq(Served("worker"))
    BY <2>1, ElementsIn
  <2> QED
    BY <1>2, <2>2
<1>3. ManagerSlot = Manager
  <2>a. PICK found : found = SlotsOf("manager")
    OBVIOUS
  <2>1. Manager \in Slots /\ process_type[Manager] = "manager" /\ Manager < process_count
    <3>1. starts \in Nat /\ starts >= MaxProcesses /\ process_count = Workers + starts
      BY DEF Types, Numbered
    <3>2. Manager \in Slots /\ Manager = Workers /\ MaxProcesses = Workers + 2
          /\ Workers \in Nat
      BY Numbers
    <3>3. Manager < process_count
      BY <3>1, <3>2
    <3> QED
      BY <3>2, <3>3, Titles DEF Handled
  <2>2. found # <<>> /\ found \in Seq(Slots)
    BY <2>1, <2>a, SlotsFound, SlotsOfType
  <2>3. 1 \in DOMAIN found /\ found[1] \in Slots
    BY <2>2, EmptySeq, LenProperties
  <2>4. process_type[found[1]] = "manager" \/ "manager" = "worker"
    BY <2>3, <2>a, SlotsFound
  <2>5. found[1] = Manager
    BY <2>3, <2>4, Titles DEF Handled
  <2> QED
    BY <2>2, <2>5, <2>a DEF ManagerSlot
<1>4. ASSUME ToManager(s, dests), kind = "manager"
      PROVE  /\ dests \in Seq(Served(kind))
             /\ \A x \in Slots : cached'[x] \in {Unknown, Manager}
  <2>1. PICK slot \in Slots :
               /\ slot = IF cached[s] = Unknown THEN ManagerSlot ELSE cached[s]
               /\ dests = <<slot>>
               /\ cached' = [cached EXCEPT ![s] = slot]
    BY <1>4 DEF ToManager
  <2>2. slot = Manager
    BY <1>3, <2>1 DEF Handled
  <2>3. dests \in Seq(Served(kind))
    BY <1>4, <2>1, <2>2, Titles
  <2>4. \A x \in Slots : cached'[x] \in {Unknown, Manager}
    BY <2>1, <2>2 DEF Handled, Types
  <2> QED
    BY <2>3, <2>4
<1>5. CASE ToWorker(dests) /\ kind = "worker" /\ UNCHANGED cached
  BY <1>1, <1>5 DEF ToWorker, Handled
<1>6. CASE dests = SlotsOf("worker") /\ kind = "worker" /\ UNCHANGED cached
  BY <1>2, <1>6 DEF Handled
<1> QED
  BY <1>4, <1>5, <1>6 DEF To

LEMMA HandlersStep ==
  Types /\ Bounded /\ Numbered /\ Jobs /\ Handlers /\ [Next]_vars => Handlers'
<1> SUFFICES ASSUME Types, Bounded, Numbered, Jobs, Handlers, [Next]_vars,
                    ~setting'.startup
             PROVE  Handled'
  BY DEF Handlers
<1>0. setting' = setting
  BY DEF Next, Start, Scrape, Die, Alerting, AlertSlot, AlertAllWorkers, AlertManager, Begin,
         Writing, SendPart, SendOwn, WriteHandler, Reading, ReadWhole, ReadPart, ReadWeird,
         vars
<1>a. ~setting.startup /\ Handled
  BY <1>0 DEF Handlers
<1> DEFINE Jobs1 == \A x \in Slots : job'[x].dests \in Seq(Served(job'[x].alert.kind))
           Known == \A x \in Slots : /\ process_type'[x] = TitleOf(x)
                                     /\ cached'[x] \in {Unknown, Manager}
           Waits == \A t, x \in Slots : wbuf'[t][x] \in Seq(Fit(x))
           Pipes == \A x \in Slots : pipe'[x] \in Seq(Fit(x))
<1>1. ASSUME NEW s \in Slots, Dead(s)
      PROVE  /\ Jobs1 /\ Waits
             /\ \A x \in Slots : cached'[x] \in {Unknown, Manager}
  <2>1. \A x \in Slots : /\ wbuf'[x] = FreshW \/ wbuf'[x] = wbuf[x]
                         /\ job'[x] = NoJob \/ job'[x] = job[x]
                         /\ cached'[x] = Unknown \/ cached'[x] = cached[x]
    BY <1>1, Died
  <2>2. NoJob.dests \in Seq(Served(NoJob.alert.kind))
    BY NoJobPart
  <2>3. \A x \in Slots : FreshW[x] \in Seq(Fit(x))
    BY DEF FreshW
  <2> QED
    BY <1>a, <2>1, <2>2, <2>3 DEF Handled
<1>2. ASSUME UNCHANGED <<job, wbuf, cached>> PROVE
             /\ Jobs1 /\ Waits
             /\ \A x \in Slots : cached'[x] \in {Unknown, Manager}
  BY <1>a, <1>2 DEF Handled
<1>3. ASSUME Jobs1, Known, Waits, Pipes PROVE Handled'
  BY <1>3 DEF Handled
<1>4. ASSUME UNCHANGED process_type, \A x \in Slots : cached'[x] \in {Unknown, Manager}
      PROVE  Known
  BY <1>a, <1>4 DEF Handled
<1>5. ASSUME UNCHANGED pipe PROVE Pipes
  BY <1>a, <1>5 DEF Handled
<1>6. ASSUME NEW s \in Slots, NEW d \in Slots, NEW waiting, WriteFirst(s, d, waiting),
             waiting \in Seq(Fit(d)), waiting # <<>>
      PROVE  Waits /\ Pipes
  <2>1. pipe[d] \in Seq(Fit(d))
    BY <1>a DEF Handled
  <2>2. pipe'[d] \in Seq(Fit(d)) /\ wbuf'[s][d] \in Seq(Fit(d))
    BY <1>6, <2>1, WrittenKeeps
  <2>3. /\ \A x \in Slots \ {d} : pipe'[x] = pipe[x]
        /\ \A t, x \in Slots : t # s \/ x # d => wbuf'[t][x] = wbuf[t][x]
    BY <1>6, Written
  <2> QED
    BY <1>a, <2>2, <2>3 DEF Handled
<1> HIDE DEF Jobs1, Known, Waits, Pipes
<1>7. ASSUME NEW s \in Slots, Start(s) \/ Die(s)
      PROVE  Handled'
  <2>1. UNCHANGED <<process_type, pipe>> /\ (UNCHANGED <<job, wbuf, cached>> \/ Dead(s))
    BY <1>7 DEF Start, Die, table
  <2> QED
    BY <1>1, <1>2, <1>3, <1>4, <1>5, <2>1
<1>8. ASSUME NEW s \in Slots, Scrape(s)
      PROVE  Handled'
  <2>1. UNCHANGED <<job, wbuf, cached, pipe>> /\ process_type[s] # TitleOf(s)
    BY <1>8 DEF Scrape
  <2> QED
    BY <1>a, <2>1 DEF Handled
<1>9. ASSUME NEW s \in Slots, Alerting(s)
      PROVE  Handled'
  <2>1. PICK dests \in Seq(Slots), kind \in Kind, parts \in 1 .. 2 :
               Begins(s, dests, kind, parts) /\ To(s, dests, kind)
    BY <1>9, Beginning
  <2>2. /\ dests \in Seq(Served(kind))
        /\ \A x \in Slots : cached'[x] \in {Unknown, Manager}
    BY <1>a, <2>1, ToServed
  <2>3. UNCHANGED <<process_type, pipe, wbuf>>
    BY <2>1 DEF Begins
  <2>4. job'[s].dests = dests /\ job'[s].alert.kind = kind
        /\ \A x \in Slots \ {s} : job'[x] = job[x]
    BY <2>1 DEF Begins
  <2>5. Jobs1
    BY <1>a, <2>2, <2>4 DEF Handled, Jobs1
  <2>6. Waits
    BY <1>a, <2>3 DEF Handled, Waits
  <2> QED
    BY <1>3, <1>4, <1>5, <2>2, <2>3, <2>5, <2>6
<1>10. ASSUME NEW s \in Slots, SendPart(s)
       PROVE  Handled'
  <2>a. PICK d : d = Head(job[s].dests)
    OBVIOUS
  <2>b. PICK waiting : waiting = Append(wbuf[s][d], Made(s))
    OBVIOUS
  <2>1. /\ d \in Slots /\ job[s].dests # <<>> /\ WriteFirst(s, d, waiting)
        /\ UNCHANGED <<process_type, cached>>
        /\ \A x \in Slots : job'[x] = IF x = s THEN NextPart(job[s]) ELSE job[x]
    BY <1>10, <2>a, <2>b, Sending
  <2>2. job[s].dests \in Seq(Served(job[s].alert.kind))
    BY <1>a DEF Handled
  <2>3. d \in Served(job[s].alert.kind)
        /\ Tail(job[s].dests) \in Seq(Served(job[s].alert.kind))
    BY <2>1, <2>2, <2>a, HeadTailProperties
  <2>4. Made(s) \in Packet /\ Made(s).alert = job[s].alert
    BY <2>1, MadeType DEF Made
  <2>5. Made(s) \in Fit(d) /\ wbuf[s][d] \in Seq(Fit(d))
    BY <1>a, <2>1, <2>3, <2>4 DEF Fit, Served, Handled
  <2>6. waiting \in Seq(Fit(d)) /\ waiting # <<>>
    BY <2>b, <2>5, AppendProperties
  <2>7. Waits /\ Pipes
    BY <1>6, <2>1, <2>6
  <2>8. NextPart(job[s]).dests \in Seq(Served(NextPart(job[s]).alert.kind))
    BY <2>2, <2>3, NextParts
  <2>9. Jobs1
    BY <1>a, <2>1, <2>8 DEF Handled, Jobs1
  <2>10. \A x \in Slots : cached'[x] \in {Unknown, Manager}
    BY <1>a, <2>1 DEF Handled
  <2> QED
    BY <1>3, <1>4, <2>1, <2>7, <2>9, <2>10
<1>11. ASSUME NEW s \in Slots, NEW d \in Slots, WriteHandler(s, d)
       PROVE  Handled'
  <2>1. /\ wbuf[s][d] # <<>> /\ WriteFirst(s, d, wbuf[s][d])
        /\ UNCHANGED <<process_type, job, cached>>
    BY <1>11 DEF WriteHandler, table
  <2>2. wbuf[s][d] \in Seq(Fit(d))
    BY <1>a DEF Handled
  <2>3. Waits /\ Pipes
    BY <1>6, <2>1, <2>2
  <2>4. Jobs1 /\ \A x \in Slots : cached'[x] \in {Unknown, Manager}
    BY <1>a, <2>1 DEF Handled, Jobs1
  <2> QED
    BY <1>3, <1>4, <2>1, <2>3, <2>4
<1>12. ASSUME NEW s \in Slots, SendOwn(s)
       PROVE  Handled'
  <2>1. UNCHANGED <<process_type, pipe>> /\ job[s].dests # <<>>
    BY <1>12, OwnSent
  <2>2. CASE Dead(s)
    BY <1>1, <1>3, <1>4, <1>5, <2>1, <2>2
  <2>3. CASE ~Dead(s)
    <3>1. /\ UNCHANGED <<wbuf, cached>>
          /\ \A x \in Slots : job'[x] =
               IF x = s THEN [dests |-> Tail(job[s].dests), part |-> job[s].part,
                              alert |-> job[s].alert]
               ELSE job[x]
      BY <1>12, <2>3, OwnSent
    <3>2. job'[s].dests = Tail(job[s].dests) /\ job'[s].alert = job[s].alert
          /\ \A x \in Slots \ {s} : job'[x] = job[x]
      <4>1. job'[s] = [dests |-> Tail(job[s].dests), part |-> job[s].part,
                       alert |-> job[s].alert]
        BY <3>1
      <4>2. job'[s].dests = Tail(job[s].dests)
        BY <4>1
      <4>3. job'[s].alert = job[s].alert
        BY <4>1
      <4> QED
        BY <3>1, <4>2, <4>3
    <3>3. Tail(job[s].dests) \in Seq(Served(job[s].alert.kind))
      BY <1>a, <2>1, HeadTailProperties DEF Handled
    <3>4. Jobs1
      BY <1>a, <3>2, <3>3 DEF Handled, Jobs1
    <3>5. Waits /\ \A x \in Slots : cached'[x] \in {Unknown, Manager}
      BY <1>a, <3>1 DEF Handled, Waits
    <3> QED
      BY <1>3, <1>4, <1>5, <2>1, <3>4, <3>5
  <2> QED
    BY <2>2, <2>3
<1>13. ASSUME NEW d \in Slots, Reading(d)
       PROVE  Handled'
  <2>1. UNCHANGED process_type /\ (UNCHANGED <<job, wbuf, cached>> \/ Dead(d))
    BY <1>13 DEF Reading, ReadWhole, ReadPart, ReadWeird, table
  <2>2. /\ pipe[d] # <<>>
        /\ \/ pipe' = [pipe EXCEPT ![d] = Tail(pipe[d])]
           \/ pipe' = [pipe EXCEPT ![d] = <<>>]
    BY <1>13 DEF Reading, ReadWhole, ReadPart, ReadWeird
  <2>3. pipe[d] \in Seq(Fit(d)) /\ Tail(pipe[d]) \in Seq(Fit(d)) /\ <<>> \in Seq(Fit(d))
    BY <1>a, <2>2, HeadTailProperties DEF Handled
  <2>4. pipe \in [Slots -> Seq(Packet)]
    BY DEF Types
  <2>5. pipe'[d] \in Seq(Fit(d)) /\ \A x \in Slots \ {d} : pipe'[x] = pipe[x]
    BY <2>2, <2>3, <2>4
  <2>6. Pipes
    BY <1>a, <2>5 DEF Handled, Pipes
  <2> QED
    BY <1>1, <1>2, <1>3, <1>4, <2>1, <2>6
<1>14. CASE UNCHANGED vars
  BY <1>a, <1>14 DEF vars, table, Handled
<1> QED
  BY <1>7, <1>8, <1>9, <1>10, <1>11, <1>12, <1>13, <1>14 DEF Next, Writing

-----------------------------------------------------------------------------
(* What holds of every process, buffer and packet.                         *)

Order == (Types /\ Bounded) /\ Numbered /\ Fresh /\ Jobs /\ Senders

LEMMA OrderInit == Init => Order /\ Handlers
<1> SUFFICES ASSUME Init PROVE Order /\ Handlers
  OBVIOUS
<1>0. Types /\ Bounded
  BY TypesInit
<1>1. /\ up = [s \in Slots |-> s < Workers \/ (~setting.startup /\ s = Manager)]
      /\ pid = [s \in Slots |-> IF setting.startup /\ s >= Workers THEN 0
                                ELSE s + 1]
      /\ process_type = [s \in Slots |-> IF setting.startup THEN "worker"
                                         ELSE TitleOf(s)]
      /\ starts = IF setting.startup THEN Workers ELSE MaxProcesses
      /\ pipe = [d \in Slots |-> <<>>]
      /\ wbuf = [s \in Slots |-> FreshW]
      /\ writing = [s \in Slots |-> Unknown]
      /\ rbuf = [d \in Slots |-> FreshR]
      /\ job = [s \in Slots |-> NoJob]
      /\ cached = [s \in Slots |-> Unknown]
  BY DEF Init, Activated
<1>2. Numbered
  <2>1. /\ Workers \in Nat \ {0} /\ MaxProcesses = Workers + 2
        /\ \A s \in Slots : s \in Nat /\ s < MaxProcesses
    BY Numbers DEF Slots
  <2>2. starts >= Workers /\ (~setting.startup => starts >= MaxProcesses)
    BY <1>1, <2>1
  <2>3. ASSUME NEW s \in Slots
        PROVE  /\ pid[s] <= starts /\ (pid[s] = 0 => ~up[s])
               /\ s >= Workers => pid[s] = 0 \/ pid[s] > Workers
    <3>1. pid[s] = IF setting.startup /\ s >= Workers THEN 0 ELSE s + 1
      BY <1>1
    <3>2. up[s] = (s < Workers \/ (~setting.startup /\ s = Manager))
      BY <1>1
    <3>3. s \in Nat /\ s < MaxProcesses
      BY <2>1
    <3>4. CASE setting.startup /\ s >= Workers
      <4>1. pid[s] = 0 /\ starts \in Nat
        BY <1>1, <2>1, <3>1, <3>4
      <4>2. ~up[s]
        <5>1. ~(s < Workers)
          BY <2>1, <3>3, <3>4
        <5> QED
          BY <3>2, <3>4, <5>1, Zenon
      <4>3. pid[s] <= starts
        BY <4>1
      <4> QED
        BY <4>1, <4>2, <4>3
    <3>5. CASE ~(setting.startup /\ s >= Workers)
      BY <1>1, <2>1, <3>1, <3>3, <3>5
    <3> QED
      BY <3>4, <3>5
  <2> QED
    BY <2>2, <2>3 DEF Numbered
<1>3. Fresh
  BY <1>1 DEF Fresh, Absent
<1>4. Jobs
  BY <1>1, NoJobPart DEF Jobs, Halfway
<1>5. Senders
  <2>1. \A s, d \in Slots : wbuf[s][d] = <<>> /\ pipe[d] = <<>>
    BY <1>1 DEF FreshW
  <2>2. \A s, d \in Slots : <<>> \in Seq(Route(s, d)) /\ <<>> \in Seq(Inlet(d))
    OBVIOUS
  <2>3. \A s, d \in Slots : wbuf[s][d] \in Seq(Route(s, d))
    BY <2>1, <2>2
  <2>4. \A d \in Slots : pipe[d] \in Seq(Inlet(d))
    BY <2>1, <2>2
  <2> QED
    BY <2>3, <2>4 DEF Senders
<1>6. Handlers
  <2> SUFFICES ASSUME ~setting.startup PROVE Handled
    BY DEF Handlers
  <2>1. \A s, d \in Slots : wbuf[s][d] = <<>> /\ pipe[d] = <<>>
    BY <1>1 DEF FreshW
  <2>2. \A s \in Slots : process_type[s] = TitleOf(s) /\ cached[s] = Unknown
                         /\ job[s] = NoJob
    BY <1>1
  <2>3. NoJob.dests \in Seq(Served(NoJob.alert.kind))
    BY NoJobPart
  <2>4. \A d \in Slots : <<>> \in Seq(Fit(d))
    OBVIOUS
  <2>5. \A s, d \in Slots : wbuf[s][d] \in Seq(Fit(d))
    BY <2>1, <2>4
  <2>6. \A d \in Slots : pipe[d] \in Seq(Fit(d))
    BY <2>1, <2>4
  <2> QED
    BY <2>2, <2>3, <2>5, <2>6 DEF Handled
<1> QED
  BY <1>0, <1>2, <1>3, <1>4, <1>5, <1>6 DEF Order

LEMMA OrderStep == Order /\ [Next]_vars => Order'
<1> SUFFICES ASSUME Order, [Next]_vars PROVE Order'
  OBVIOUS
<1>1. Types /\ Bounded /\ Numbered /\ Fresh /\ Jobs /\ Senders
  BY DEF Order
<1>2. Types' /\ Bounded'
  BY <1>1, TypesStep
<1>3. Numbered' /\ Fresh' /\ Jobs' /\ Senders'
  BY <1>1, NumberedStep, FreshStep, JobsStep, SendersStep
<1> QED
  BY <1>2, <1>3 DEF Order

LEMMA OrderAlways == Spec => []Order
<1>1. Init => Order
  BY OrderInit
<1> QED
  BY <1>1, OrderStep, PTL DEF Spec

(* Once every process has said what it is, every alert in a pipe is for a  *)
(* kind of process that has a handler for it, in the slot it is read from: *)
(* what ipc_get_process_slots finds by type, and what                      *)
(* ipc_alert_cachemanager remembers of it, stays right, whoever is started *)
(* again.                                                                  *)
THEOREM FindsItsHandler == Spec => []ToItsHandler
<1>1. Init => Order /\ Handlers
  BY OrderInit
<1>2. (Order /\ Handlers) /\ [Next]_vars => (Order /\ Handlers)'
  <2>1. Order => Types /\ Bounded /\ Numbered /\ Jobs
    BY DEF Order
  <2> QED
    BY <2>1, OrderStep, HandlersStep
<1>3. Handlers => ToItsHandler
  <2> SUFFICES ASSUME Handlers, ~setting.startup, NEW d \in Slots,
                      NEW p \in ToSet(pipe[d])
               PROVE  HasHandler(d, p.alert.kind)
    BY DEF ToItsHandler
  <2>1. pipe[d] \in Seq(Fit(d))
    BY DEF Handlers, Handled
  <2>2. PICK i \in DOMAIN pipe[d] : p = pipe[d][i]
    BY DEF ToSet
  <2>3. p \in Fit(d)
    BY <2>1, <2>2, ElementOfSeq, LenProperties
  <2> QED
    BY <2>3 DEF Fit
<1> QED
  BY <1>1, <1>2, <1>3, PTL DEF Spec

-----------------------------------------------------------------------------
(* The alerts whose last packet is among some packets.                     *)

Id == 1 .. MaxAlerts
IdsIn(ps) == [i \in DOMAIN ps |-> ps[i].alert.id]
LastOf(p, s) == p.src = s /\ p.part = p.alert.parts
LastAt(ps, s) == {i \in DOMAIN ps : LastOf(ps[i], s)}

LEMMA LastParts1 ==
  ASSUME NEW ps \in Seq(Packet), NEW s
  PROVE  /\ LastParts(ps, s) = At(IdsIn(ps), LastAt(ps, s))
         /\ IdsIn(ps) \in Seq(Id) /\ Len(IdsIn(ps)) = Len(ps)
         /\ LastParts(ps, s) \in Seq(Id)
<1>1. LastParts(ps, s) = At(IdsIn(ps), LastAt(ps, s))
  BY DEF LastParts, IdsIn, LastAt, LastOf
<1>2. DOMAIN ps = 1 .. Len(ps) /\ Len(ps) \in Nat
  BY LenProperties
<1>3. \A i \in 1 .. Len(ps) : ps[i].alert.id \in Id
  BY ElementOfSeq, OneId DEF Id
<1>4. IdsIn(ps) \in [1 .. Len(ps) -> Id]
  BY <1>2, <1>3 DEF IdsIn
<1>5. IdsIn(ps) \in Seq(Id) /\ Len(IdsIn(ps)) = Len(ps)
  <2>1. IdsIn(ps) \in Seq(Id)
    BY <1>2, <1>4, SeqDef
  <2>2. IdsIn(ps) = [i \in 1 .. Len(ps) |-> ps[i].alert.id]
    BY <1>2 DEF IdsIn
  <2>3. Len([i \in 1 .. Len(ps) |-> ps[i].alert.id]) = Len(ps)
    BY <1>2
  <2> QED
    BY <2>1, <2>2, <2>3
<1> QED
  BY <1>1, <1>5, AtType

LEMMA LastEmpty ==
  ASSUME NEW s
  PROVE  LastParts(<<>>, s) = <<>>
<1>1. IdsIn(<<>>) = <<>>
  BY DEF IdsIn
<1>2. LastParts(<<>>, s) = At(IdsIn(<<>>), LastAt(<<>>, s))
  BY DEF LastParts, IdsIn, LastAt, LastOf
<1> QED
  BY <1>1, <1>2, AtEmpty

LEMMA LastAppend ==
  ASSUME NEW ps \in Seq(Packet), NEW p \in Packet, NEW s
  PROVE  LastParts(Append(ps, p), s) = IF LastOf(p, s)
                                       THEN Append(LastParts(ps, s), p.alert.id)
                                       ELSE LastParts(ps, s)
<1>a. PICK all : all = Append(ps, p)
  OBVIOUS
<1>b. PICK len : len = Len(ps)
  OBVIOUS
<1>1. /\ all \in Seq(Packet) /\ Len(all) = len + 1 /\ len \in Nat /\ all[len + 1] = p
      /\ \A i \in 1 .. len : all[i] = ps[i]
  BY <1>a, <1>b, AppendProperties, LenProperties
<1>2. DOMAIN all = 1 .. len + 1 /\ DOMAIN ps = 1 .. len
  BY <1>1, <1>b, LenProperties
<1>3. /\ IdsIn(ps) \in Seq(Id) /\ Len(IdsIn(ps)) = len /\ p.alert.id \in Id
      /\ IdsIn(all) \in Seq(Id) /\ Len(IdsIn(all)) = len + 1
  BY <1>1, <1>b, LastParts1, OneId DEF Id
<1>4. IdsIn(all) = Append(IdsIn(ps), p.alert.id)
  <2>a. PICK more : more = Append(IdsIn(ps), p.alert.id)
    OBVIOUS
  <2>1. /\ more \in Seq(Id) /\ Len(more) = len + 1 /\ more[len + 1] = p.alert.id
        /\ \A i \in 1 .. len : more[i] = IdsIn(ps)[i]
    BY <1>3, <2>a, AppendProperties
  <2>2. \A i \in 1 .. len + 1 : IdsIn(all)[i] = all[i].alert.id
    BY <1>2 DEF IdsIn
  <2>3. \A i \in 1 .. len : IdsIn(ps)[i] = ps[i].alert.id
    BY <1>2 DEF IdsIn
  <2>4. \A i \in 1 .. len + 1 : IdsIn(all)[i] = more[i]
    <3> TAKE i \in 1 .. len + 1
    <3>1. CASE i = len + 1
      BY <1>1, <2>1, <2>2, <3>1
    <3>2. CASE i \in 1 .. len
      BY <1>1, <2>1, <2>2, <2>3, <3>2
    <3> QED
      BY <1>1, <3>1, <3>2
  <2> QED
    BY <1>3, <2>1, <2>4, <2>a, SeqEqual
<1>5. /\ \A n \in 1 .. Len(IdsIn(ps)) : n \in LastAt(ps, s) <=> n \in LastAt(all, s)
      /\ Len(IdsIn(ps)) + 1 \in LastAt(all, s) <=> LastOf(p, s)
  <2>1. \A n \in 1 .. len : n \in 1 .. len + 1
    BY <1>1
  <2>2. len + 1 \in 1 .. len + 1
    BY <1>1
  <2> QED
    BY <1>1, <1>2, <1>3, <2>1, <2>2 DEF LastAt
<1>6. At(Append(IdsIn(ps), p.alert.id), LastAt(all, s))
        = IF Len(IdsIn(ps)) + 1 \in LastAt(all, s)
          THEN Append(At(IdsIn(ps), LastAt(ps, s)), p.alert.id)
          ELSE At(IdsIn(ps), LastAt(ps, s))
  <2>a. PICK I, J : I = LastAt(ps, s) /\ J = LastAt(all, s)
    OBVIOUS
  <2>b. PICK seq, x : seq = IdsIn(ps) /\ x = p.alert.id
    OBVIOUS
  <2>1. \A n \in 1 .. Len(seq) : n \in I <=> n \in J
    BY <1>5, <2>a, <2>b
  <2>2. seq \in Seq(Id) /\ x \in Id
    BY <1>3, <2>b
  <2>3. At(Append(seq, x), J) = IF Len(seq) + 1 \in J THEN Append(At(seq, I), x)
                                                     ELSE At(seq, I)
    BY <2>1, <2>2, AtAppend
  <2> QED
    BY <2>3, <2>a, <2>b
<1>7. LastParts(all, s) = At(IdsIn(all), LastAt(all, s))
      /\ LastParts(ps, s) = At(IdsIn(ps), LastAt(ps, s))
  BY <1>1, LastParts1
<1> QED
  BY <1>4, <1>5, <1>6, <1>7, <1>a

LEMMA LastHead ==
  ASSUME NEW ps \in Seq(Packet), ps # <<>>, NEW s
  PROVE  LastParts(ps, s) = IF LastOf(Head(ps), s)
                            THEN <<Head(ps).alert.id>> \o LastParts(Tail(ps), s)
                            ELSE LastParts(Tail(ps), s)
<1>a. PICK rest : rest = Tail(ps)
  OBVIOUS
<1>b. PICK len : len = Len(rest)
  OBVIOUS
<1>1. /\ rest \in Seq(Packet) /\ Len(ps) = len + 1 /\ len \in Nat
      /\ Head(ps) \in Packet /\ Head(ps) = ps[1]
      /\ \A i \in 1 .. len : rest[i] = ps[i + 1]
  <2>1. Len(rest) \in Nat /\ Len(ps) \in Nat
    BY <1>a, HeadTailProperties, LenProperties
  <2>2. Head(ps) = ps[1]
    OBVIOUS
  <2> QED
    BY <1>a, <1>b, <2>1, <2>2, HeadTailProperties
<1>2. DOMAIN ps = 1 .. len + 1 /\ DOMAIN rest = 1 .. len
  BY <1>1, <1>b, LenProperties
<1>c. PICK ids : ids = IdsIn(ps)
  OBVIOUS
<1>3. /\ ids \in Seq(Id) /\ Len(ids) = len + 1
      /\ IdsIn(rest) \in Seq(Id) /\ Len(IdsIn(rest)) = len
  BY <1>1, <1>b, <1>c, LastParts1
<1>4. ids # <<>> /\ Head(ids) = Head(ps).alert.id
  <2>1. ids # <<>>
    BY <1>1, <1>3, EmptySeq
  <2>2. Head(ids) = ids[1]
    OBVIOUS
  <2>3. ids[1] = ps[1].alert.id
    <3>1. 1 \in 1 .. len + 1
      BY <1>1
    <3> QED
      BY <1>2, <1>c, <3>1 DEF IdsIn
  <2> QED
    BY <1>1, <2>1, <2>2, <2>3
<1>5. Tail(ids) = IdsIn(rest)
  <2>a. PICK less : less = Tail(ids)
    OBVIOUS
  <2>1. /\ less \in Seq(Id) /\ Len(less) = len
        /\ \A i \in 1 .. len : less[i] = ids[i + 1]
    <3>1. Len(ids) - 1 = len
      BY <1>1, <1>3
    <3> QED
      BY <1>3, <1>4, <2>a, <3>1, HeadTailProperties
  <2>2. \A i \in 1 .. len + 1 : ids[i] = ps[i].alert.id
    BY <1>2, <1>c DEF IdsIn
  <2>3. \A i \in 1 .. len : IdsIn(rest)[i] = rest[i].alert.id
    BY <1>2 DEF IdsIn
  <2>4. \A i \in 1 .. len : i + 1 \in 1 .. len + 1
    BY <1>1
  <2>5. \A i \in 1 .. len : less[i] = IdsIn(rest)[i]
    BY <1>1, <2>1, <2>2, <2>3, <2>4
  <2> QED
    BY <1>3, <2>1, <2>5, <2>a, SeqEqual
<1>6. /\ \A n \in 1 .. Len(ids) - 1 : n \in LastAt(rest, s) <=> n + 1 \in LastAt(ps, s)
      /\ 1 \in LastAt(ps, s) <=> LastOf(Head(ps), s)
  <2>1. \A n \in 1 .. len : n + 1 \in 1 .. len + 1
    BY <1>1
  <2>2. 1 \in 1 .. len + 1 /\ Len(ids) - 1 = len
    BY <1>1, <1>3
  <2> QED
    BY <1>1, <1>2, <2>1, <2>2 DEF LastAt
<1>7. At(ids, LastAt(ps, s)) = IF 1 \in LastAt(ps, s)
                               THEN <<Head(ids)>> \o At(Tail(ids), LastAt(rest, s))
                               ELSE At(Tail(ids), LastAt(rest, s))
  BY <1>3, <1>4, <1>6, AtHead
<1>8. LastParts(ps, s) = At(ids, LastAt(ps, s))
      /\ LastParts(rest, s) = At(IdsIn(rest), LastAt(rest, s))
  BY <1>1, <1>c, LastParts1
<1> QED
  BY <1>4, <1>5, <1>6, <1>7, <1>8, <1>a

\* no process reads what it has sent itself
LEMMA LastNone ==
  ASSUME NEW d \in Slots, NEW ps \in Seq(Inlet(d))
  PROVE  LastParts(ps, d) = <<>>
<1>1. ps \in Seq(Packet)
  <2>1. Inlet(d) \subseteq Packet
    BY DEF Inlet
  <2> QED
    BY <2>1, SeqMonotonic
<1>2. LastAt(ps, d) = {}
  <2>1. \A i \in DOMAIN ps : ps[i].src # d
    <3> TAKE i \in DOMAIN ps
    <3>1. ps[i] \in Inlet(d)
      BY ElementOfSeq, LenProperties
    <3> QED
      BY <3>1 DEF Inlet
  <2> QED
    BY <2>1 DEF LastAt, LastOf
<1>a. PICK chosen : chosen = LastParts(ps, d)
  OBVIOUS
<1>b. PICK ids : ids = IdsIn(ps)
  OBVIOUS
<1>3. ids \in Seq(Id) /\ chosen = At(ids, {}) /\ chosen \in Seq(Id)
  BY <1>1, <1>2, <1>a, <1>b, LastParts1
<1>4. PICK h : Spells(h, chosen, ids, {}, Len(ids))
  BY <1>3, AtSpells
<1>5. ~(1 \in 1 .. Len(chosen))
  BY <1>4 DEF Spells
<1>6. Len(chosen) \in Nat
  BY <1>3, LenProperties
<1>7. Len(chosen) = 0
  BY <1>5, <1>6
<1> QED
  BY <1>3, <1>7, <1>a, EmptySeq

-----------------------------------------------------------------------------
(* The alerts whose last packet is under way, and what the steps do to     *)
(* them.                                                                   *)

Piped(s, d) == LastParts(pipe[d], s)
Waiting(s, d) == LastParts(wbuf[s][d], s)
UnderWay(s, d) == Piped(s, d) \o Waiting(s, d)

LEMMA WayTypes ==
  ASSUME Types, NEW s \in Slots, NEW d \in Slots
  PROVE  Piped(s, d) \in Seq(Id) /\ Waiting(s, d) \in Seq(Id) /\ UnderWay(s, d) \in Seq(Id)
<1>1. Piped(s, d) \in Seq(Id) /\ Waiting(s, d) \in Seq(Id)
  BY LastParts1 DEF Types, Piped, Waiting
<1> QED
  BY <1>1, ConcatProperties DEF UnderWay

LEMMA MovedOver ==
  ASSUME NEW S, NEW a \in Seq(S), NEW b \in Seq(S), NEW x \in S
  PROVE  /\ a \o (<<x>> \o b) = Append(a, x) \o b
         /\ a \o Append(b, x) = Append(a \o b, x)
         /\ (a \o b) \o <<x>> = Append(a \o b, x)
         /\ a \o <<>> = a /\ <<>> \o a = a
<1>1. a \o (<<x>> \o b) = Append(a, x) \o b
  <2>1. <<x>> \in Seq(S) /\ Append(a, x) = a \o <<x>>
    BY AppendIsConcat
  <2>2. (a \o <<x>>) \o b = a \o (<<x>> \o b)
    BY <2>1, ConcatAssociative
  <2> QED
    BY <2>1, <2>2
<1>2. a \o Append(b, x) = Append(a \o b, x)
  OBVIOUS
<1>3. (a \o b) \o <<x>> = Append(a \o b, x)
  <2>1. a \o b \in Seq(S)
    BY ConcatProperties
  <2> QED
    BY <2>1, AppendIsConcat
<1> QED
  BY <1>1, <1>2, <1>3, ConcatEmptySeq

\* Writing a packet that waits changes nothing.
LEMMA WayWritten ==
  ASSUME Types, Senders, NEW s \in Slots, NEW d \in Slots, NEW waiting,
         WriteFirst(s, d, waiting), waiting \in Seq(Route(s, d)), waiting # <<>>
  PROVE  \A t, x \in Slots :
           UnderWay(t, x)' = IF t = s /\ x = d THEN Piped(s, d) \o LastParts(waiting, s)
                             ELSE UnderWay(t, x)
<1>1. /\ \A x \in Slots \ {d} : pipe'[x] = pipe[x]
      /\ \A t, x \in Slots : t # s \/ x # d => wbuf'[t][x] = wbuf[t][x]
      /\ \/ /\ pipe'[d] = Append(pipe[d], Head(waiting))
            /\ wbuf'[s][d] = Tail(waiting)
         \/ pipe'[d] = pipe[d] /\ wbuf'[s][d] = waiting
  BY Written
<1>2. /\ Head(waiting) \in Route(s, d) /\ Tail(waiting) \in Seq(Route(s, d))
      /\ Head(waiting).src = s /\ Head(waiting) \in Packet
      /\ waiting \in Seq(Packet) /\ Tail(waiting) \in Seq(Packet)
  <2>1. Head(waiting) \in Route(s, d) /\ Tail(waiting) \in Seq(Route(s, d))
    BY HeadTailProperties
  <2>2. Route(s, d) \subseteq Packet /\ Head(waiting).src = s
    BY <2>1 DEF Route
  <2> QED
    BY <2>1, <2>2, SeqMonotonic
<1>3. pipe[d] \in Seq(Packet)
  BY DEF Types
<1>a. PICK h : h = Head(waiting)
  OBVIOUS
<1>4. \A t \in Slots : LastParts(Append(pipe[d], h), t) =
        IF LastOf(h, t) THEN Append(Piped(t, d), h.alert.id) ELSE Piped(t, d)
  BY <1>2, <1>3, <1>a, LastAppend DEF Piped
<1>5. ASSUME NEW t \in Slots, t # s
      PROVE  LastParts(pipe'[d], t) = Piped(t, d)
  <2>1. ~LastOf(h, t)
    BY <1>2, <1>5, <1>a DEF LastOf
  <2> QED
    BY <1>1, <1>4, <1>a, <2>1 DEF Piped
<1>6. LastParts(pipe'[d], s) \o LastParts(wbuf'[s][d], s) = Piped(s, d) \o LastParts(waiting, s)
  <2>1. CASE pipe'[d] = pipe[d] /\ wbuf'[s][d] = waiting
    BY <2>1 DEF Piped
  <2>2. CASE pipe'[d] = Append(pipe[d], h) /\ wbuf'[s][d] = Tail(waiting)
    <3>1. LastParts(waiting, s) = IF LastOf(h, s)
                                  THEN <<h.alert.id>> \o LastParts(Tail(waiting), s)
                                  ELSE LastParts(Tail(waiting), s)
      BY <1>2, <1>a, LastHead
    <3>2. CASE LastOf(h, s)
      <4>1. /\ Piped(s, d) \in Seq(Id) /\ LastParts(Tail(waiting), s) \in Seq(Id)
            /\ h.alert.id \in Id
        BY <1>2, <1>a, WayTypes, LastParts1, OneId DEF Id
      <4>2. Append(Piped(s, d), h.alert.id) \o LastParts(Tail(waiting), s)
              = Piped(s, d) \o (<<h.alert.id>> \o LastParts(Tail(waiting), s))
        BY <4>1, MovedOver
      <4> QED
        BY <1>4, <2>2, <3>1, <3>2, <4>2
    <3>3. CASE ~LastOf(h, s)
      BY <1>4, <2>2, <3>1, <3>3
    <3> QED
      BY <3>2, <3>3
  <2> QED
    BY <1>1, <1>a, <2>1, <2>2
<1>7. ASSUME NEW t \in Slots, NEW x \in Slots
      PROVE  LastParts(pipe'[x], t) \o LastParts(wbuf'[t][x], t)
               = IF t = s /\ x = d THEN Piped(s, d) \o LastParts(waiting, s)
                 ELSE Piped(t, x) \o Waiting(t, x)
  <2>1. CASE t = s /\ x = d
    BY <1>6, <2>1
  <2>2. CASE x # d
    BY <1>1, <2>2 DEF Piped, Waiting
  <2>3. CASE x = d /\ t # s
    <3>1. wbuf'[t][x] = wbuf[t][x]
      BY <1>1, <2>3
    <3>2. LastParts(pipe'[x], t) = Piped(t, x)
      BY <1>5, <2>3
    <3> QED
      BY <2>3, <3>1, <3>2 DEF Waiting
  <2> QED
    BY <2>1, <2>2, <2>3
<1> QED
  BY <1>7 DEF UnderWay, Piped, Waiting

\* Making a packet adds an alert with its last part.
LEMMA WaySent ==
  ASSUME Types, Jobs, Senders, NEW s \in Slots, SendPart(s), NEW d, d = Head(job[s].dests)
  PROVE  \A t, x \in Slots :
           UnderWay(t, x)' = IF t = s /\ x = d /\ job[s].part = job[s].alert.parts
                             THEN Append(UnderWay(s, d), job[s].alert.id)
                             ELSE UnderWay(t, x)
<1>b. PICK waiting : waiting = Append(wbuf[s][d], Made(s))
  OBVIOUS
<1>1. d \in Slots /\ d # s /\ job[s].dests # <<>> /\ WriteFirst(s, d, waiting)
  BY <1>b, Sending
<1>2. /\ Made(s) \in Packet /\ Made(s).src = s /\ Made(s).part = job[s].part
      /\ Made(s).alert = job[s].alert
  BY <1>1, MadeType DEF Made
<1>3. Made(s) \in Route(s, d) /\ wbuf[s][d] \in Seq(Route(s, d))
  BY <1>1, MadeRoute DEF Senders
<1>4. waiting \in Seq(Route(s, d)) /\ waiting # <<>>
  BY <1>b, <1>3, AppendProperties
<1>5. \A t, x \in Slots :
        UnderWay(t, x)' = IF t = s /\ x = d THEN Piped(s, d) \o LastParts(waiting, s)
                          ELSE UnderWay(t, x)
  BY <1>1, <1>4, WayWritten
<1>6. wbuf[s][d] \in Seq(Packet)
  BY <1>1 DEF Types
<1>7. LastParts(waiting, s) = IF job[s].part = job[s].alert.parts
                              THEN Append(Waiting(s, d), job[s].alert.id)
                              ELSE Waiting(s, d)
  <2>1. LastOf(Made(s), s) <=> job[s].part = job[s].alert.parts
    BY <1>2 DEF LastOf
  <2>2. LastParts(Append(wbuf[s][d], Made(s)), s) =
          IF LastOf(Made(s), s) THEN Append(LastParts(wbuf[s][d], s), Made(s).alert.id)
          ELSE LastParts(wbuf[s][d], s)
    BY <1>2, <1>6, LastAppend
  <2> QED
    BY <1>2, <1>b, <2>1, <2>2 DEF Waiting
<1>8. Piped(s, d) \o Append(Waiting(s, d), job[s].alert.id)
        = Append(UnderWay(s, d), job[s].alert.id)
  <2>1. Piped(s, d) \in Seq(Id) /\ Waiting(s, d) \in Seq(Id) /\ job[s].alert.id \in Id
    <3>1. job[s].alert.id \in Id
      BY <1>2, OneId DEF Id
    <3> QED
      BY <1>1, <3>1, WayTypes
  <2> QED
    BY <2>1, MovedOver DEF UnderWay
<1> QED
  BY <1>5, <1>7, <1>8 DEF UnderWay

\* Of what a process has sent, its death leaves what is in the pipes.
LEMMA WayDead ==
  ASSUME Types, NEW s \in Slots, Dead(s), pipe' = pipe
  PROVE  \A t, x \in Slots :
           UnderWay(t, x)' = IF t = s THEN Piped(s, x) ELSE UnderWay(t, x)
<1>1. ASSUME NEW t \in Slots, NEW x \in Slots
      PROVE  LastParts(pipe'[x], t) \o LastParts(wbuf'[t][x], t)
               = IF t = s THEN Piped(s, x) ELSE Piped(t, x) \o Waiting(t, x)
  <2>1. CASE t = s
    <3>1. wbuf'[t][x] = <<>>
      BY <2>1, DiedWaits
    <3>2. LastParts(wbuf'[t][x], t) = <<>>
      BY <3>1, LastEmpty
    <3> QED
      BY <2>1, <3>2, WayTypes, ConcatEmptySeq DEF Piped
  <2>2. CASE t # s
    BY <2>2, Died DEF Piped, Waiting
  <2> QED
    BY <2>1, <2>2
<1> QED
  BY <1>1 DEF UnderWay, Piped, Waiting

\* Reading a packet takes away an alert with its last part, and the death of
\* the reader what it was writing.
LEMMA WayRead ==
  ASSUME Types, Senders, NEW d \in Slots, pipe[d] # <<>>, NEW p, p = Head(pipe[d]),
         \A x \in Slots : pipe'[x] = IF x = d THEN Tail(pipe[d]) ELSE pipe[x],
         wbuf' = wbuf \/ Dead(d)
  PROVE  /\ p \in Packet /\ p.src # d /\ p.part <= p.alert.parts
         /\ \A t, x \in Slots :
              /\ x = d /\ t # d /\ LastOf(p, t) =>
                   UnderWay(t, x) = <<p.alert.id>> \o UnderWay(t, x)'
              /\ (x # d /\ t # d) \/ (t # d /\ ~LastOf(p, t)) \/ (t = d /\ wbuf' = wbuf) =>
                   UnderWay(t, x)' = UnderWay(t, x)
              /\ t = d /\ Dead(d) => UnderWay(t, x)' = Piped(t, x)
<1>1. p \in Inlet(d) /\ p \in Packet /\ p.src # d /\ p.part <= p.alert.parts
  <2>1. p \in Inlet(d)
    BY HeadTailProperties DEF Senders
  <2> QED
    BY <2>1 DEF Inlet
<1>2. pipe[d] \in Seq(Packet) /\ Tail(pipe[d]) \in Seq(Packet)
      /\ Tail(pipe[d]) \in Seq(Inlet(d)) /\ p.alert.id \in Id
  BY <1>1, HeadTailProperties, OneId DEF Senders, Types, Id
<1>3. \A t \in Slots :
        Piped(t, d) = IF LastOf(p, t) THEN <<p.alert.id>> \o LastParts(Tail(pipe[d]), t)
                      ELSE LastParts(Tail(pipe[d]), t)
  BY <1>2, LastHead DEF Piped
<1>4. ~LastOf(p, d)
  BY <1>1 DEF LastOf
<1>5. \A t, x \in Slots : (t # d \/ wbuf' = wbuf) => wbuf'[t][x] = wbuf[t][x]
  <2>1. Dead(d) => \A t \in Slots \ {d} : wbuf'[t] = wbuf[t]
    BY Died
  <2> QED
    BY <2>1
<1>6. ASSUME NEW t \in Slots, NEW x \in Slots
      PROVE  /\ x = d /\ t # d /\ LastOf(p, t) =>
                  Piped(t, x) \o Waiting(t, x)
                    = <<p.alert.id>> \o (LastParts(pipe'[x], t) \o LastParts(wbuf'[t][x], t))
             /\ (x # d /\ t # d) \/ (t # d /\ ~LastOf(p, t)) \/ (t = d /\ wbuf' = wbuf) =>
                  LastParts(pipe'[x], t) \o LastParts(wbuf'[t][x], t)
                    = Piped(t, x) \o Waiting(t, x)
             /\ t = d /\ Dead(d) =>
                  LastParts(pipe'[x], t) \o LastParts(wbuf'[t][x], t) = Piped(t, x)
  <2>1. ~(x = d /\ LastOf(p, t)) => LastParts(pipe'[x], t) = Piped(t, x)
    BY <1>3 DEF Piped
  <2>2. (t # d \/ wbuf' = wbuf) => LastParts(wbuf'[t][x], t) = Waiting(t, x)
    BY <1>5 DEF Waiting
  <2>3. t = d /\ Dead(d) => LastParts(wbuf'[t][x], t) = <<>>
    BY DiedWaits, LastEmpty
  <2>4. ASSUME x = d, t # d, LastOf(p, t)
        PROVE  Piped(t, x) \o Waiting(t, x)
                 = <<p.alert.id>> \o (LastParts(pipe'[x], t) \o LastParts(wbuf'[t][x], t))
    <3>a. PICK rest : rest = LastParts(Tail(pipe[d]), t)
      OBVIOUS
    <3>1. LastParts(pipe'[x], t) = rest /\ Piped(t, x) = <<p.alert.id>> \o rest
      BY <1>3, <2>4, <3>a
    <3>2. rest \in Seq(Id) /\ <<p.alert.id>> \in Seq(Id) /\ Waiting(t, x) \in Seq(Id)
      <4>1. rest \in Seq(Id)
        BY <1>2, <3>a, LastParts1
      <4>2. Waiting(t, x) \in Seq(Id)
        BY WayTypes
      <4> QED
        BY <1>2, <4>1, <4>2
    <3>3. (<<p.alert.id>> \o rest) \o Waiting(t, x) = <<p.alert.id>> \o (rest \o Waiting(t, x))
      BY <3>2, ConcatAssociative
    <3> QED
      BY <2>2, <2>4, <3>1, <3>3
  <2>5. Piped(t, x) \o <<>> = Piped(t, x)
    BY WayTypes, ConcatEmptySeq
  <2> QED
    BY <1>4, <2>1, <2>2, <2>3, <2>4, <2>5
<1> QED
  BY <1>1, <1>6 DEF UnderWay, Piped, Waiting

\* What is thrown away is what is in the pipe.
LEMMA WayCleared ==
  ASSUME Types, NEW d \in Slots, wbuf' = wbuf,
         \A x \in Slots : pipe'[x] = IF x = d THEN <<>> ELSE pipe[x]
  PROVE  \A t, x \in Slots :
           UnderWay(t, x)' = IF x = d THEN Waiting(t, d) ELSE UnderWay(t, x)
<1>1. ASSUME NEW t \in Slots, NEW x \in Slots
      PROVE  LastParts(pipe'[x], t) \o LastParts(wbuf'[t][x], t)
               = IF x = d THEN Waiting(t, d) ELSE Piped(t, x) \o Waiting(t, x)
  <2>1. CASE x = d
    <3>1. LastParts(pipe'[x], t) = <<>>
      BY <2>1, LastEmpty
    <3>2. <<>> \o Waiting(t, d) = Waiting(t, d)
      BY WayTypes, ConcatEmptySeq
    <3> QED
      BY <2>1, <3>1, <3>2 DEF Waiting
  <2>2. CASE x # d
    BY <2>2 DEF Piped, Waiting
  <2> QED
    BY <2>1, <2>2
<1> QED
  BY <1>1 DEF UnderWay, Piped, Waiting

-----------------------------------------------------------------------------
(* Streams.  To the first process of a slot, what each sender has in its   *)
(* pipe and in the buffers are whole alerts, but for the one that a sender *)
(* is making or died making: every second part follows the first of the    *)
(* same alert, and a first part follows none that its sender left open.    *)

First(d) == pid[d] = 0 \/ (up[d] /\ pid[d] = d + 1)
Opened(n, id) == [pid |-> n, parts |-> 2, ids |-> <<id>>]

\* Reading packet p turns what is kept for slot s, o, into e.
Takes(o, p, s, e) ==
  IF p.src # s \/ p.alert.parts = 1 THEN e = o
  ELSE \/ p.part = 1 /\ o.pid # p.pid /\ e = Opened(p.pid, p.alert.id)
       \/ p.part = 2 /\ o = Opened(p.pid, p.alert.id) /\ e = NoBuf

\* the same for several packets, of processes up to number N
Reads(o, ps, s, e, N) ==
  \E r : /\ r[0] = o /\ r[Len(ps)] = e
         /\ \A n \in 0 .. Len(ps) : r[n].pid \in 0 .. N
         /\ \A n \in 1 .. Len(ps) : Takes(r[n - 1], ps[n], s, r[n])

\* e is what the reader keeps when it has read all that s has sent: the alert
\* that s is making, if there is one and s is there.
Ends(e, there, halfway, n, id) ==
  there => IF halfway THEN e = Opened(n, id) ELSE e.pid # n

StreamOf(o, ps, waiting, s, N, there, halfway, n, id) ==
  \E m, e : /\ Reads(o, ps, s, m, N) /\ Reads(m, waiting, s, e, N)
            /\ Ends(e, there, halfway, n, id)

Midway(s, d) == Halfway(s) /\ Head(job[s].dests) = d
Stream(s, d) ==
  StreamOf(rbuf[d][s], pipe[d], wbuf[s][d], s, starts, up[s], Midway(s, d), pid[s],
           job[s].alert.id)
Streams == \A s, d \in Slots : First(d) => Stream(s, d)

LEMMA ReadsEmpty ==
  ASSUME NEW o, NEW s, NEW N, o.pid \in 0 .. N
  PROVE  Reads(o, <<>>, s, o, N)
<1> DEFINE r == [n \in 0 .. 0 |-> o]
<1>1. Len(<<>>) = 0 /\ r[0] = o
  OBVIOUS
<1>2. \A n \in 0 .. 0 : n = 0
  OBVIOUS
<1>3. \A n \in 1 .. 0 : FALSE
  OBVIOUS
<1> HIDE DEF r
<1> QED
  BY <1>1, <1>2, <1>3 DEF Reads

LEMMA ReadsBounds ==
  ASSUME NEW ps \in Seq(Packet), NEW o, NEW e, NEW s, NEW N, Reads(o, ps, s, e, N)
  PROVE  o.pid \in 0 .. N /\ e.pid \in 0 .. N
<1>1. Len(ps) \in Nat /\ 0 \in 0 .. Len(ps) /\ Len(ps) \in 0 .. Len(ps)
  BY LenProperties
<1> QED
  BY <1>1 DEF Reads

LEMMA ReadsMore ==
  ASSUME NEW ps, NEW o, NEW e, NEW s, NEW N \in Nat, Reads(o, ps, s, e, N)
  PROVE  Reads(o, ps, s, e, N + 1)
<1>1. PICK r : /\ r[0] = o /\ r[Len(ps)] = e
               /\ \A n \in 0 .. Len(ps) : r[n].pid \in 0 .. N
               /\ \A n \in 1 .. Len(ps) : Takes(r[n - 1], ps[n], s, r[n])
  BY DEF Reads
<1>2. 0 .. N \subseteq 0 .. N + 1
  OBVIOUS
<1>3. \A n \in 0 .. Len(ps) : r[n].pid \in 0 .. N + 1
  BY <1>1, <1>2
<1> QED
  BY <1>1, <1>3 DEF Reads

LEMMA ReadsAppend ==
  ASSUME NEW ps \in Seq(Packet), NEW p \in Packet, NEW o, NEW m, NEW e, NEW s, NEW N,
         Reads(o, ps, s, m, N), Takes(m, p, s, e), e.pid \in 0 .. N
  PROVE  Reads(o, Append(ps, p), s, e, N)
<1>a. PICK all : all = Append(ps, p)
  OBVIOUS
<1>b. PICK len : len = Len(ps)
  OBVIOUS
<1>1. /\ Len(all) = len + 1 /\ len \in Nat /\ all[len + 1] = p
      /\ \A i \in 1 .. len : all[i] = ps[i]
  BY <1>a, <1>b, AppendProperties, LenProperties
<1>2. PICK r : /\ r[0] = o /\ r[len] = m
               /\ \A n \in 0 .. len : r[n].pid \in 0 .. N
               /\ \A n \in 1 .. len : Takes(r[n - 1], ps[n], s, r[n])
  BY <1>b DEF Reads
<1> DEFINE q == [n \in 0 .. len + 1 |-> IF n = len + 1 THEN e ELSE r[n]]
<1>3. q[len + 1] = e /\ \A n \in 0 .. len : q[n] = r[n]
  BY <1>1
<1> HIDE DEF q
<1>4. \A n \in 0 .. len + 1 : q[n].pid \in 0 .. N
  <2> TAKE n \in 0 .. len + 1
  <2>1. n = len + 1 \/ n \in 0 .. len
    BY <1>1
  <2> QED
    BY <1>2, <1>3, <2>1
<1>5. \A n \in 1 .. len + 1 : Takes(q[n - 1], all[n], s, q[n])
  <2> TAKE n \in 1 .. len + 1
  <2>1. CASE n = len + 1
    <3>1. n - 1 = len /\ len \in 0 .. len
      BY <1>1, <2>1
    <3> QED
      BY <1>1, <1>2, <1>3, <2>1, <3>1
  <2>2. CASE n # len + 1
    <3>1. n \in 1 .. len /\ n \in 0 .. len /\ n - 1 \in 0 .. len
      BY <1>1, <2>2
    <3> QED
      BY <1>1, <1>2, <1>3, <3>1
  <2> QED
    BY <2>1, <2>2
<1>6. q[0] = o
  BY <1>1, <1>2, <1>3
<1>7. Reads(o, all, s, e, N)
  BY <1>1, <1>3, <1>4, <1>5, <1>6 DEF Reads
<1> QED
  BY <1>7, <1>a

LEMMA ReadsHead ==
  ASSUME NEW ps \in Seq(Packet), ps # <<>>, NEW o, NEW e, NEW s, NEW N,
         Reads(o, ps, s, e, N)
  PROVE  \E m : Takes(o, Head(ps), s, m) /\ Reads(m, Tail(ps), s, e, N)
<1>a. PICK rest : rest = Tail(ps)
  OBVIOUS
<1>b. PICK len : len = Len(rest)
  OBVIOUS
<1>1. /\ rest \in Seq(Packet) /\ Len(ps) = len + 1 /\ len \in Nat
      /\ Head(ps) = ps[1] /\ \A i \in 1 .. len : rest[i] = ps[i + 1]
  <2>1. Len(rest) \in Nat /\ Len(ps) \in Nat
    BY <1>a, HeadTailProperties, LenProperties
  <2>2. Head(ps) = ps[1]
    OBVIOUS
  <2> QED
    BY <1>a, <1>b, <2>1, <2>2, HeadTailProperties
<1>2. PICK r : /\ r[0] = o /\ r[len + 1] = e
               /\ \A n \in 0 .. len + 1 : r[n].pid \in 0 .. N
               /\ \A n \in 1 .. len + 1 : Takes(r[n - 1], ps[n], s, r[n])
  BY <1>1 DEF Reads
<1> DEFINE q == [n \in 0 .. len |-> r[n + 1]]
<1>3. \A n \in 0 .. len : q[n] = r[n + 1]
  OBVIOUS
<1> HIDE DEF q
<1>4. q[0] = r[1] /\ q[len] = e
  <2>1. 0 \in 0 .. len /\ len \in 0 .. len /\ 0 + 1 = 1
    BY <1>1
  <2> QED
    BY <1>2, <1>3, <2>1
<1>5. \A n \in 0 .. len : q[n].pid \in 0 .. N
  <2>1. \A n \in 0 .. len : n + 1 \in 0 .. len + 1
    BY <1>1
  <2> QED
    BY <1>2, <1>3, <2>1
<1>6. \A n \in 1 .. len : Takes(q[n - 1], rest[n], s, q[n])
  <2> TAKE n \in 1 .. len
  <2>1. n - 1 \in 0 .. len /\ n \in 0 .. len /\ n + 1 \in 1 .. len + 1
        /\ (n - 1) + 1 = n /\ (n + 1) - 1 = n
    BY <1>1
  <2>2. Takes(r[n], ps[n + 1], s, r[n + 1])
    BY <1>2, <2>1
  <2> QED
    BY <1>1, <1>3, <2>1, <2>2
<1>7. Takes(o, Head(ps), s, r[1])
  <2>1. 1 \in 1 .. len + 1 /\ 1 - 1 = 0
    BY <1>1
  <2> QED
    BY <1>1, <1>2, <2>1
<1>8. Reads(r[1], rest, s, e, N)
  BY <1>4, <1>5, <1>6, <1>b DEF Reads
<1> QED
  BY <1>7, <1>8, <1>a

\* What fits, as channel_get_readbuf sees it.
LEMMA TakesJoined ==
  ASSUME NEW o \in Buf, NEW p \in Packet, p.alert.parts = 2, NEW e,
         Takes(o, p, p.src, e)
  PROVE  /\ Joined(o, p) # NoBuf
         /\ p.part = 1 => o.pid # p.pid /\ e = Opened(p.pid, p.alert.id)
         /\ p.part = 2 => o.pid = p.pid /\ o.ids = <<p.alert.id>> /\ e = NoBuf
<1>1. \/ p.part = 1 /\ o.pid # p.pid /\ e = Opened(p.pid, p.alert.id)
      \/ p.part = 2 /\ o = Opened(p.pid, p.alert.id) /\ e = NoBuf
  BY DEF Takes
<1>2. CASE p.part = 1 /\ o.pid # p.pid /\ e = Opened(p.pid, p.alert.id)
  <2>1. Joined(o, p) = [pid |-> p.pid, parts |-> p.alert.parts, ids |-> <<p.alert.id>>]
    BY <1>2 DEF Joined
  <2>2. Joined(o, p).parts = 2
    BY <2>1
  <2>3. NoBuf.parts = 0
    BY DEF NoBuf
  <2> QED
    BY <1>2, <2>2, <2>3
<1>3. CASE p.part = 2 /\ o = Opened(p.pid, p.alert.id) /\ e = NoBuf
  <2>1. o.pid = p.pid /\ o.parts = 2 /\ o.ids = <<p.alert.id>>
    BY <1>3 DEF Opened
  <2>2. Joined(o, p) = [o EXCEPT !.ids = Append(o.ids, p.alert.id)]
    BY <1>3, <2>1 DEF Joined
  <2>3. Joined(o, p).parts = 2
    BY <2>1, <2>2 DEF Buf
  <2>4. NoBuf.parts = 0
    BY DEF NoBuf
  <2> QED
    BY <1>3, <2>1, <2>3, <2>4
<1> QED
  BY <1>1, <1>2, <1>3

\* The stream of a sender that dies is what its pipe holds.
LEMMA StreamDead ==
  ASSUME NEW o, NEW ps \in Seq(Packet), NEW waiting \in Seq(Packet), NEW s, NEW N,
         NEW there, NEW halfway, NEW n, NEW id,
         StreamOf(o, ps, waiting, s, N, there, halfway, n, id),
         NEW half, NEW n1, NEW id1
  PROVE  StreamOf(o, ps, <<>>, s, N, FALSE, half, n1, id1)
<1>1. PICK m, e : Reads(o, ps, s, m, N) /\ Reads(m, waiting, s, e, N)
  BY DEF StreamOf
<1>2. m.pid \in 0 .. N
  BY <1>1, ReadsBounds
<1>3. Reads(m, <<>>, s, m, N)
  BY <1>2, ReadsEmpty
<1> QED
  BY <1>1, <1>3 DEF StreamOf, Ends

\* A stream that one process more starts.
LEMMA StreamStart ==
  ASSUME NEW o, NEW ps \in Seq(Packet), NEW waiting \in Seq(Packet), NEW s, NEW N \in Nat,
         NEW there, NEW halfway, NEW n, NEW id,
         StreamOf(o, ps, waiting, s, N, there, halfway, n, id)
  PROVE  /\ StreamOf(o, ps, waiting, s, N + 1, there, halfway, n, id)
         /\ StreamOf(o, ps, waiting, s, N + 1, TRUE, FALSE, N + 1, id)
<1>1. PICK m, e : /\ Reads(o, ps, s, m, N) /\ Reads(m, waiting, s, e, N)
                  /\ Ends(e, there, halfway, n, id)
  BY DEF StreamOf
<1>2. Reads(o, ps, s, m, N + 1) /\ Reads(m, waiting, s, e, N + 1)
  BY <1>1, ReadsMore
<1>3. e.pid # N + 1
  <2>1. e.pid \in 0 .. N
    BY <1>1, ReadsBounds
  <2> QED
    BY <2>1
<1>4. Ends(e, TRUE, FALSE, N + 1, id)
  BY <1>3 DEF Ends
<1> QED
  BY <1>1, <1>2, <1>4 DEF StreamOf

\* A packet that is written moves from the buffer to the pipe.
LEMMA StreamWritten ==
  ASSUME NEW o, NEW ps \in Seq(Packet), NEW waiting \in Seq(Packet), waiting # <<>>, NEW s,
         NEW N, NEW there, NEW halfway, NEW n, NEW id,
         StreamOf(o, ps, waiting, s, N, there, halfway, n, id)
  PROVE  StreamOf(o, Append(ps, Head(waiting)), Tail(waiting), s, N, there, halfway, n, id)
<1>1. PICK m, e : /\ Reads(o, ps, s, m, N) /\ Reads(m, waiting, s, e, N)
                  /\ Ends(e, there, halfway, n, id)
  BY DEF StreamOf
<1>2. PICK k : Takes(m, Head(waiting), s, k) /\ Reads(k, Tail(waiting), s, e, N)
  BY <1>1, ReadsHead
<1>3. Head(waiting) \in Packet /\ Tail(waiting) \in Seq(Packet)
  BY HeadTailProperties
<1>4. k.pid \in 0 .. N
  BY <1>2, <1>3, ReadsBounds
<1>5. Reads(o, Append(ps, Head(waiting)), s, k, N)
  BY <1>1, <1>2, <1>3, <1>4, ReadsAppend
<1> QED
  BY <1>1, <1>2, <1>5 DEF StreamOf

\* A packet of another sender is none of the stream.
LEMMA StreamOther ==
  ASSUME NEW o, NEW ps \in Seq(Packet), NEW waiting \in Seq(Packet), NEW s,
         NEW N, NEW there, NEW halfway, NEW n, NEW id,
         StreamOf(o, ps, waiting, s, N, there, halfway, n, id),
         NEW p \in Packet, p.src # s
  PROVE  StreamOf(o, Append(ps, p), waiting, s, N, there, halfway, n, id)
<1>1. PICK m, e : /\ Reads(o, ps, s, m, N) /\ Reads(m, waiting, s, e, N)
                  /\ Ends(e, there, halfway, n, id)
  BY DEF StreamOf
<1>2. m.pid \in 0 .. N /\ Takes(m, p, s, m)
  BY <1>1, ReadsBounds DEF Takes
<1>3. Reads(o, Append(ps, p), s, m, N)
  BY <1>1, <1>2, ReadsAppend
<1> QED
  BY <1>1, <1>3 DEF StreamOf

\* A packet that a sender makes, with what it does to its job.
LEMMA StreamMade ==
  ASSUME NEW o, NEW ps \in Seq(Packet), NEW waiting \in Seq(Packet), NEW s,
         NEW N \in Nat, NEW halfway, NEW n, NEW id,
         StreamOf(o, ps, waiting, s, N, TRUE, halfway, n, id),
         NEW p \in Packet, p.src = s, p.pid = n, p.alert.id = id, n \in 1 .. N,
         halfway <=> p.part = 2, p.part = 2 => p.alert.parts = 2,
         NEW half, half <=> (p.part = 1 /\ p.alert.parts = 2)
  PROVE  StreamOf(o, ps, Append(waiting, p), s, N, TRUE, half, n, id)
<1>1. PICK m, e : /\ Reads(o, ps, s, m, N) /\ Reads(m, waiting, s, e, N)
                  /\ Ends(e, TRUE, halfway, n, id)
  BY DEF StreamOf
<1>2. p.part \in 1 .. 2 /\ p.alert.parts \in 1 .. 2
  BY OneId
<1>3. e.pid \in 0 .. N
  BY <1>1, ReadsBounds
<1>4. \E k : Takes(e, p, s, k) /\ k.pid \in 0 .. N /\ Ends(k, TRUE, half, n, id)
  <2>1. CASE p.alert.parts = 1
    <3>1. Takes(e, p, s, e)
      BY <2>1 DEF Takes
    <3>2. ~half /\ ~halfway
      BY <2>1
    <3>3. Ends(e, TRUE, half, n, id)
      BY <1>1, <3>2 DEF Ends
    <3> QED
      BY <1>3, <3>1, <3>3
  <2>2. CASE p.alert.parts = 2 /\ p.part = 1
    <3>1. e.pid # n
      BY <1>1, <2>2 DEF Ends
    <3>2. Takes(e, p, s, Opened(n, id))
      BY <2>2, <3>1 DEF Takes
    <3>3. Opened(n, id).pid \in 0 .. N
      BY DEF Opened
    <3>4. Ends(Opened(n, id), TRUE, half, n, id)
      BY <2>2 DEF Ends
    <3> QED
      BY <3>2, <3>3, <3>4
  <2>3. CASE p.alert.parts = 2 /\ p.part = 2
    <3>1. e = Opened(n, id)
      BY <1>1, <2>3 DEF Ends
    <3>2. Takes(e, p, s, NoBuf)
      BY <2>3, <3>1 DEF Takes
    <3>3. NoBuf.pid = 0
      BY DEF NoBuf
    <3>4. ~half
      BY <2>3
    <3>5. Ends(NoBuf, TRUE, half, n, id)
      BY <3>3, <3>4 DEF Ends
    <3>6. NoBuf.pid \in 0 .. N
      BY <3>3
    <3> QED
      BY <3>2, <3>5, <3>6
  <2>4. \/ p.alert.parts = 1
        \/ p.alert.parts = 2 /\ p.part = 1
        \/ p.alert.parts = 2 /\ p.part = 2
    BY <1>2
  <2> QED
    BY <2>1, <2>2, <2>3, <2>4
<1>5. PICK k : Takes(e, p, s, k) /\ k.pid \in 0 .. N /\ Ends(k, TRUE, half, n, id)
  BY <1>4
<1>6. Reads(m, Append(waiting, p), s, k, N)
  BY <1>1, <1>5, ReadsAppend
<1> QED
  BY <1>1, <1>5, <1>6 DEF StreamOf

\* Reading the first packet.
LEMMA StreamRead ==
  ASSUME NEW o, NEW ps \in Seq(Packet), ps # <<>>, NEW waiting, NEW s,
         NEW N, NEW there, NEW halfway, NEW n, NEW id,
         StreamOf(o, ps, waiting, s, N, there, halfway, n, id)
  PROVE  \E k : /\ Takes(o, Head(ps), s, k)
                /\ StreamOf(k, Tail(ps), waiting, s, N, there, halfway, n, id)
<1>1. PICK m, e : /\ Reads(o, ps, s, m, N) /\ Reads(m, waiting, s, e, N)
                  /\ Ends(e, there, halfway, n, id)
  BY DEF StreamOf
<1>2. PICK k : Takes(o, Head(ps), s, k) /\ Reads(k, Tail(ps), s, m, N)
  BY <1>1, ReadsHead
<1> QED
  BY <1>1, <1>2 DEF StreamOf

\* The first process of a slot stays the first as long as it lives.
LEMMA FirstStep ==
  ASSUME Types, Numbered
  PROVE  /\ \A s \in Slots : up[s] => pid[s] \in 1 .. starts
         /\ \A x \in Slots : Dead(x) /\ pid' = pid =>
              \A d \in Slots : First(d)' => First(d) /\ (d # x \/ ~up[x])
         /\ \A x \in Slots : Start(x) => \A d \in Slots : First(d)' => First(d)
<1>1. ASSUME NEW s \in Slots, up[s]
      PROVE  pid[s] \in 1 .. starts
  <2>1. pid[s] \in Nat /\ pid[s] # 0 /\ pid[s] <= starts /\ starts \in Nat
    BY <1>1 DEF Types, Numbered
  <2> QED
    BY <2>1
<1>2. ASSUME NEW x \in Slots, Dead(x), pid' = pid, NEW d \in Slots,
             pid'[d] = 0 \/ (up'[d] /\ pid'[d] = d + 1)
      PROVE  First(d) /\ (d # x \/ ~up[x])
  <2>1. up'[d] = IF d = x THEN FALSE ELSE up[d]
    BY <1>2, Died
  <2>2. CASE pid[d] = 0
    <3>1. ~up[d]
      BY <2>2 DEF Numbered
    <3> QED
      BY <2>2, <3>1 DEF First
  <2>3. CASE pid[d] # 0
    BY <1>2, <2>1, <2>3 DEF First
  <2> QED
    BY <2>2, <2>3
<1>3. ASSUME NEW x \in Slots, Start(x), NEW d \in Slots,
             pid'[d] = 0 \/ (up'[d] /\ pid'[d] = d + 1)
      PROVE  First(d)
  <2>1. /\ ~up[x] /\ (x = Loader => pid[x] = 0)
        /\ \A y \in Slots : pid'[y] = IF y = x THEN starts + 1 ELSE pid[y]
        /\ \A y \in Slots : y # x => up'[y] = up[y]
    BY <1>3 DEF Start, Types
  <2>2. CASE d # x
    BY <1>3, <2>1, <2>2 DEF First
  <2>3. CASE d = x
    <3>1. starts \in Nat /\ d \in Nat /\ pid[d] \in Nat
      BY Numbers DEF Types
    <3>2. starts + 1 = d + 1
      BY <1>3, <2>1, <2>3, <3>1
    <3>3. starts = d
      BY <3>1, <3>2
    <3>4. starts >= Workers /\ pid[d] <= starts
          /\ (d >= Workers => pid[d] = 0 \/ pid[d] > Workers)
      BY DEF Numbered
    <3>5. pid[d] = 0
      <4>1. CASE d = Loader
        BY <2>1, <2>3, <4>1
      <4>2. CASE d # Loader
        <5>1. d = Workers
          BY <3>1, <3>3, <3>4, <4>2, Numbers
        <5> QED
          BY <3>1, <3>3, <3>4, <5>1, Numbers
      <4> QED
        BY <4>1, <4>2
    <3> QED
      BY <3>5 DEF First
  <2> QED
    BY <2>2, <2>3
<1> QED
  BY <1>1, <1>2, <1>3 DEF First

\* The same buffers and job, the same stream.
LEMMA StreamsSame ==
  ASSUME Streams, NEW s \in Slots, NEW d \in Slots, First(d),
         rbuf'[d][s] = rbuf[d][s], pipe'[d] = pipe[d], wbuf'[s][d] = wbuf[s][d],
         starts' = starts, up'[s] = up[s], pid'[s] = pid[s],
         \/ job'[s] = job[s]
         \/ ~Midway(s, d) /\ ~Midway(s, d)'
  PROVE  Stream(s, d)'
<1>1. StreamOf(rbuf[d][s], pipe[d], wbuf[s][d], s, starts, up[s], Midway(s, d), pid[s],
               job[s].alert.id)
  BY DEF Streams, Stream
<1>2. CASE job'[s] = job[s]
  <2>1. Midway(s, d)' <=> Midway(s, d)
    BY <1>2 DEF Midway, Halfway
  <2>2. StreamOf(rbuf[d][s], pipe[d], wbuf[s][d], s, starts, up[s], Midway(s, d)', pid[s],
                 job[s].alert.id)
    BY <1>1, <2>1 DEF StreamOf, Ends
  <2> QED
    BY <1>2, <2>2 DEF Stream
<1>3. CASE ~Midway(s, d) /\ ~Midway(s, d)'
  <2>1. StreamOf(rbuf[d][s], pipe[d], wbuf[s][d], s, starts, up[s], Midway(s, d)', pid[s],
                 job'[s].alert.id)
    BY <1>1, <1>3 DEF StreamOf, Ends
  <2> QED
    BY <2>1 DEF Stream
<1> QED
  BY <1>2, <1>3

LEMMA StreamsDead ==
  ASSUME Types, Numbered, Streams, NEW x \in Slots, Dead(x), up[x], pid' = pid,
         starts' = starts, \A d \in Slots \ {x} : pipe'[d] = pipe[d]
  PROVE  Streams'
<1>1. ASSUME NEW s \in Slots, NEW d \in Slots, First(d)'
      PROVE  Stream(s, d)'
  <2>1. First(d) /\ d # x
    BY <1>1, FirstStep
  <2>2. rbuf'[d] = rbuf[d] /\ pipe'[d] = pipe[d]
    BY <2>1, Died
  <2>3. CASE s = x
    <3>1. StreamOf(rbuf[d][s], pipe[d], wbuf[s][d], s, starts, up[s], Midway(s, d), pid[s],
                   job[s].alert.id)
      BY <2>1 DEF Streams, Stream
    <3>2. wbuf'[s][d] = <<>> /\ ~up'[s]
      BY <2>3, Died, DiedWaits
    <3>3. pipe[d] \in Seq(Packet) /\ wbuf[s][d] \in Seq(Packet)
      BY DEF Types
    <3>4. StreamOf(rbuf[d][s], pipe[d], <<>>, s, starts, FALSE, Midway(s, d)', pid[s],
                   job'[s].alert.id)
      BY <3>1, <3>3, StreamDead
    <3>5. StreamOf(rbuf[d][s], pipe[d], <<>>, s, starts, up'[s], Midway(s, d)', pid[s],
                   job'[s].alert.id)
      BY <3>2, <3>4 DEF StreamOf, Ends
    <3> QED
      BY <2>2, <3>2, <3>5 DEF Stream
  <2>4. CASE s # x
    <3>1. wbuf'[s][d] = wbuf[s][d] /\ up'[s] = up[s] /\ job'[s] = job[s]
      BY <2>4, Died
    <3> QED
      BY <2>1, <2>2, <3>1, StreamsSame
  <2> QED
    BY <2>3, <2>4
<1> QED
  BY <1>1 DEF Streams

LEMMA StreamsWrite ==
  ASSUME Types, Senders, NEW s \in Slots, NEW d \in Slots, NEW waiting,
         WriteFirst(s, d, waiting), waiting \in Seq(Route(s, d)), waiting # <<>>,
         NEW t \in Slots, NEW o, NEW N, NEW there, NEW halfway, NEW n, NEW id,
         StreamOf(o, pipe[d], IF t = s THEN waiting ELSE wbuf[t][d], t, N, there, halfway,
                  n, id)
  PROVE  StreamOf(o, pipe'[d], wbuf'[t][d], t, N, there, halfway, n, id)
<1>1. /\ t # s => wbuf'[t][d] = wbuf[t][d]
      /\ \/ /\ pipe'[d] = Append(pipe[d], Head(waiting))
            /\ wbuf'[s][d] = Tail(waiting)
         \/ pipe'[d] = pipe[d] /\ wbuf'[s][d] = waiting
  BY Written
<1>2. /\ Head(waiting) \in Packet /\ Head(waiting).src = s /\ waiting \in Seq(Packet)
  <2>1. Head(waiting) \in Route(s, d)
    BY HeadTailProperties
  <2>2. Route(s, d) \subseteq Packet
    BY DEF Route
  <2> QED
    BY <2>1, <2>2, SeqMonotonic DEF Route
<1>3. pipe[d] \in Seq(Packet) /\ wbuf[t][d] \in Seq(Packet)
  BY DEF Types
<1>4. CASE pipe'[d] = pipe[d] /\ wbuf'[s][d] = waiting
  BY <1>1, <1>4
<1>5. CASE pipe'[d] = Append(pipe[d], Head(waiting)) /\ wbuf'[s][d] = Tail(waiting)
  <2>1. CASE t = s
    BY <1>2, <1>3, <1>5, <2>1, StreamWritten
  <2>2. CASE t # s
    BY <1>1, <1>2, <1>3, <1>5, <2>2, StreamOther
  <2> QED
    BY <2>1, <2>2
<1> QED
  BY <1>1, <1>4, <1>5

LEMMA StreamsStep == Order /\ Streams /\ [Next]_vars => Streams'
<1> SUFFICES ASSUME Order, Streams, [Next]_vars PROVE Streams'
  OBVIOUS
<1>a. Types /\ Bounded /\ Numbered /\ Fresh /\ Jobs /\ Senders
  BY DEF Order
<1>1. ASSUME NEW x \in Slots, Start(x)
      PROVE  Streams'
  <2>1. /\ ~up[x] /\ starts' = starts + 1 /\ UNCHANGED <<rbuf, pipe, wbuf, job>>
        /\ \A y \in Slots : pid'[y] = IF y = x THEN starts + 1 ELSE pid[y]
        /\ \A y \in Slots : up'[y] = IF y = x THEN TRUE ELSE up[y]
    BY <1>1, <1>a DEF Start, Types
  <2>2. ASSUME NEW s \in Slots, NEW d \in Slots, First(d)'
        PROVE  Stream(s, d)'
    <3>1. First(d)
      BY <1>1, <1>a, <2>2, FirstStep
    <3>2. StreamOf(rbuf[d][s], pipe[d], wbuf[s][d], s, starts, up[s], Midway(s, d), pid[s],
                   job[s].alert.id)
      BY <3>1 DEF Streams, Stream
    <3>3. pipe[d] \in Seq(Packet) /\ wbuf[s][d] \in Seq(Packet) /\ starts \in Nat
      BY <1>a DEF Types
    <3>4. /\ StreamOf(rbuf[d][s], pipe[d], wbuf[s][d], s, starts + 1, up[s], Midway(s, d),
                      pid[s], job[s].alert.id)
          /\ StreamOf(rbuf[d][s], pipe[d], wbuf[s][d], s, starts + 1, TRUE, FALSE,
                      starts + 1, job[s].alert.id)
      BY <3>2, <3>3, StreamStart
    <3>5. Midway(s, d)' <=> Midway(s, d)
      BY <2>1 DEF Midway, Halfway
    <3>6. CASE s = x
      <4>1. ~Midway(s, d)'
        <5>1. job[s] = NoJob
          BY <1>a, <2>1, <3>6 DEF Fresh, Absent
        <5> QED
          BY <3>5, <5>1, NoJobPart DEF Midway, Halfway
      <4>2. up'[s] /\ pid'[s] = starts + 1
        BY <2>1, <3>6
      <4>3. StreamOf(rbuf[d][s], pipe[d], wbuf[s][d], s, starts + 1, up'[s], Midway(s, d)',
                      starts + 1, job[s].alert.id)
        BY <3>4, <4>1, <4>2 DEF StreamOf, Ends
      <4> QED
        BY <2>1, <4>2, <4>3 DEF Stream
    <3>7. CASE s # x
      <4>1. up'[s] = up[s] /\ pid'[s] = pid[s]
        BY <2>1, <3>7
      <4>2. StreamOf(rbuf[d][s], pipe[d], wbuf[s][d], s, starts + 1, up[s], Midway(s, d)',
                      pid[s], job[s].alert.id)
        BY <3>4, <3>5 DEF StreamOf, Ends
      <4> QED
        BY <2>1, <4>1, <4>2 DEF Stream
    <3> QED
      BY <3>6, <3>7
  <2> QED
    BY <2>2 DEF Streams
<1>2. ASSUME NEW s \in Slots, Scrape(s)
      PROVE  Streams'
  <2>1. UNCHANGED <<rbuf, pipe, wbuf, starts, up, pid, job>>
    BY <1>2 DEF Scrape
  <2> QED
    BY <2>1 DEF Streams, Stream, First, Midway, Halfway
<1>3. ASSUME NEW s \in Slots, Die(s)
      PROVE  Streams'
  <2>1. up[s] /\ Dead(s) /\ UNCHANGED <<pid, pipe, starts>>
    BY <1>3 DEF Die, table
  <2> QED
    BY <1>a, <2>1, StreamsDead
<1>4. ASSUME NEW s \in Slots, Alerting(s)
      PROVE  Streams'
  <2>1. PICK dests \in Seq(Slots), kind \in Kind, parts \in 1 .. 2 :
               Begins(s, dests, kind, parts)
    BY <1>4, <1>a, Beginning
  <2>2. /\ UNCHANGED <<rbuf, pipe, wbuf, starts, up, pid>> /\ job[s].dests = <<>>
        /\ job'[s].part = 1 /\ \A x \in Slots \ {s} : job'[x] = job[x]
    BY <2>1 DEF Begins, Idle
  <2>3. ASSUME NEW t \in Slots, NEW d \in Slots, First(d)'
        PROVE  Stream(t, d)'
    <3>1. First(d)
      BY <2>2, <2>3 DEF First
    <3>2. t = s => ~Midway(t, d) /\ ~Midway(t, d)'
      BY <1>a, <2>2 DEF Jobs, Midway, Halfway
    <3> QED
      BY <2>2, <3>1, <3>2, StreamsSame
  <2> QED
    BY <2>3 DEF Streams
<1>5. ASSUME NEW s \in Slots, SendPart(s)
      PROVE  Streams'
  <2>a. PICK d : d = Head(job[s].dests)
    OBVIOUS
  <2>b. PICK waiting : waiting = Append(wbuf[s][d], Made(s))
    OBVIOUS
  <2>1. /\ d \in Slots /\ d # s /\ job[s].dests # <<>> /\ WriteFirst(s, d, waiting)
        /\ \A x \in Slots : job'[x] = IF x = s THEN NextPart(job[s]) ELSE job[x]
        /\ UNCHANGED <<up, pid, rbuf, starts>>
    BY <1>5, <1>a, <2>a, <2>b, Sending
  <2>2. /\ Made(s) \in Packet /\ Made(s).src = s /\ Made(s).part = job[s].part
        /\ Made(s).alert = job[s].alert /\ Made(s).pid = pid[s]
    BY <1>a, <2>1, MadeType DEF Made
  <2>3. Made(s) \in Route(s, d) /\ wbuf[s][d] \in Seq(Route(s, d))
    BY <1>a, <2>1, MadeRoute DEF Senders
  <2>4. waiting \in Seq(Route(s, d)) /\ waiting # <<>>
    BY <2>b, <2>3, AppendProperties
  <2>5. /\ \A x \in Slots \ {d} : pipe'[x] = pipe[x]
        /\ \A t, x \in Slots : t # s \/ x # d => wbuf'[t][x] = wbuf[t][x]
    BY <1>a, <2>1, Written
  <2>6. up[s] /\ pid[s] \in 1 .. starts /\ starts \in Nat
    <3>1. up[s]
      BY <1>5, <1>a, There DEF Writing
    <3> QED
      BY <1>a, <3>1, FirstStep DEF Types
  <2>7. /\ job'[s].alert = job[s].alert
        /\ \A x \in Slots : Midway(s, x) <=> job[s].part = 2 /\ d = x
        /\ \A x \in Slots :
             Midway(s, x)' <=> job[s].part = 1 /\ job[s].alert.parts = 2 /\ d = x
    <3>1. job[s].part \in 1 .. 2 /\ job[s].alert.parts \in 1 .. 2
      BY <1>a DEF Types, Job, Alert
    <3>2. job'[s] = NextPart(job[s])
      BY <2>1
    <3>3. /\ job'[s].alert = job[s].alert
          /\ job'[s].part = IF job[s].part < job[s].alert.parts THEN 2 ELSE 1
          /\ job'[s].dests = IF job[s].part < job[s].alert.parts
                             THEN job[s].dests ELSE Tail(job[s].dests)
      BY <1>a, <3>2, NextParts
    <3>4. job[s].part < job[s].alert.parts <=> job[s].part = 1 /\ job[s].alert.parts = 2
      BY <3>1
    <3> QED
      BY <2>a, <3>3, <3>4 DEF Midway, Halfway
  <2>8. ASSUME NEW t \in Slots, NEW x \in Slots, First(x)'
        PROVE  Stream(t, x)'
    <3>1. First(x)
      BY <2>1, <2>8 DEF First
    <3>2. CASE x # d
      <4>1. t = s => ~Midway(t, x) /\ ~Midway(t, x)'
        BY <2>7, <3>2
      <4>2. t # s => job'[t] = job[t]
        BY <2>1
      <4> QED
        BY <2>1, <2>5, <3>1, <3>2, <4>1, <4>2, StreamsSame
    <3>3. CASE x = d /\ t # s
      <4>1. StreamOf(rbuf[d][t], pipe[d], wbuf[t][d], t, starts, up[t], Midway(t, d),
                     pid[t], job[t].alert.id)
        BY <3>1, <3>3 DEF Streams, Stream
      <4>2. StreamOf(rbuf[d][t], pipe'[d], wbuf'[t][d], t, starts, up[t], Midway(t, d),
                     pid[t], job[t].alert.id)
        BY <1>a, <2>1, <2>4, <3>3, <4>1, StreamsWrite
      <4>3. job'[t] = job[t] /\ (Midway(t, d)' <=> Midway(t, d))
        BY <2>1, <3>3 DEF Midway, Halfway
      <4>4. StreamOf(rbuf[d][t], pipe'[d], wbuf'[t][d], t, starts, up[t], Midway(t, d)',
                     pid[t], job[t].alert.id)
        BY <4>2, <4>3 DEF StreamOf, Ends
      <4> QED
        BY <2>1, <3>3, <4>3, <4>4 DEF Stream
    <3>4. CASE x = d /\ t = s
      <4>1. StreamOf(rbuf[d][s], pipe[d], wbuf[s][d], s, starts, up[s], Midway(s, d),
                     pid[s], job[s].alert.id)
        BY <3>1, <3>4 DEF Streams, Stream
      <4>2. StreamOf(rbuf[d][s], pipe[d], wbuf[s][d], s, starts, TRUE, Midway(s, d),
                     pid[s], job[s].alert.id)
        BY <2>6, <4>1 DEF StreamOf, Ends
      <4>3. pipe[d] \in Seq(Packet) /\ wbuf[s][d] \in Seq(Packet)
        BY <1>a, <2>1 DEF Types
      <4>4. Midway(s, d) <=> Made(s).part = 2
        BY <2>1, <2>2, <2>7
      <4>5. Midway(s, d)' <=> Made(s).part = 1 /\ Made(s).alert.parts = 2
        BY <2>1, <2>2, <2>7
      <4>6. Made(s).part = 2 => Made(s).alert.parts = 2
        BY <1>a, <2>2 DEF Jobs, Halfway
      <4>7. StreamOf(rbuf[d][s], pipe[d], Append(wbuf[s][d], Made(s)), s, starts, TRUE,
                     Midway(s, d)', pid[s], job[s].alert.id)
        <5>a. PICK id, n, half, halfway : /\ id = job[s].alert.id /\ n = pid[s]
                                         /\ half = Midway(s, d)' /\ halfway = Midway(s, d)
          OBVIOUS
        <5>1. /\ Made(s).src = s /\ Made(s).pid = n /\ Made(s).alert.id = id
              /\ n \in 1 .. starts /\ starts \in Nat /\ Made(s) \in Packet
          BY <2>2, <2>6, <5>a
        <5>2. halfway <=> Made(s).part = 2
          BY <4>4, <5>a
        <5>3. half <=> Made(s).part = 1 /\ Made(s).alert.parts = 2
          BY <4>5, <5>a
        <5>4. StreamOf(rbuf[d][s], pipe[d], wbuf[s][d], s, starts, TRUE, halfway, n, id)
          BY <4>2, <5>a
        <5>5. StreamOf(rbuf[d][s], pipe[d], Append(wbuf[s][d], Made(s)), s, starts, TRUE,
                       half, n, id)
          BY <4>3, <4>6, <5>1, <5>2, <5>3, <5>4, StreamMade
        <5> QED
          BY <5>5, <5>a
      <4>8. StreamOf(rbuf[d][s], pipe'[d], wbuf'[s][d], s, starts, TRUE,
                     Midway(s, d)', pid[s], job[s].alert.id)
        <5>1. StreamOf(rbuf[d][s], pipe[d], IF s = s THEN waiting ELSE wbuf[s][d], s,
                       starts, TRUE, Midway(s, d)', pid[s], job[s].alert.id)
          BY <2>b, <4>7
        <5> QED
          BY <1>a, <2>1, <2>4, <5>1, StreamsWrite
      <4>9. StreamOf(rbuf[d][s], pipe'[d], wbuf'[s][d], s, starts, up[s],
                     Midway(s, d)', pid[s], job[s].alert.id)
        BY <2>6, <4>8 DEF StreamOf, Ends
      <4> QED
        BY <2>1, <2>7, <3>4, <4>9 DEF Stream
    <3> QED
      BY <3>2, <3>3, <3>4
  <2> QED
    BY <2>8 DEF Streams
<1>6. ASSUME NEW s \in Slots, NEW d \in Slots, WriteHandler(s, d)
      PROVE  Streams'
  <2>1. /\ wbuf[s][d] # <<>> /\ WriteFirst(s, d, wbuf[s][d])
        /\ UNCHANGED <<up, pid, rbuf, starts, job>>
    BY <1>6 DEF WriteHandler, table
  <2>2. wbuf[s][d] \in Seq(Route(s, d))
    BY <1>a DEF Senders
  <2>3. /\ \A x \in Slots \ {d} : pipe'[x] = pipe[x]
        /\ \A t, x \in Slots : t # s \/ x # d => wbuf'[t][x] = wbuf[t][x]
    BY <1>a, <2>1, Written
  <2>4. ASSUME NEW t \in Slots, NEW x \in Slots, First(x)'
        PROVE  Stream(t, x)'
    <3>1. First(x)
      BY <2>1, <2>4 DEF First
    <3>2. CASE x # d
      BY <2>1, <2>3, <3>1, <3>2, StreamsSame
    <3>3. CASE x = d
      <4>1. StreamOf(rbuf[d][t], pipe[d], wbuf[t][d], t, starts, up[t], Midway(t, d),
                     pid[t], job[t].alert.id)
        BY <3>1, <3>3 DEF Streams, Stream
      <4>2. (IF t = s THEN wbuf[s][d] ELSE wbuf[t][d]) = wbuf[t][d]
        OBVIOUS
      <4>3. StreamOf(rbuf[d][t], pipe'[d], wbuf'[t][d], t, starts, up[t], Midway(t, d),
                     pid[t], job[t].alert.id)
        BY <1>a, <2>1, <2>2, <4>1, <4>2, StreamsWrite
      <4>4. Midway(t, d)' <=> Midway(t, d)
        BY <2>1 DEF Midway, Halfway
      <4>5. StreamOf(rbuf[d][t], pipe'[d], wbuf'[t][d], t, starts, up[t], Midway(t, d)',
                     pid[t], job[t].alert.id)
        BY <4>3, <4>4 DEF StreamOf, Ends
      <4> QED
        BY <2>1, <3>3, <4>5 DEF Stream
    <3> QED
      BY <3>2, <3>3
  <2> QED
    BY <2>4 DEF Streams
<1>7. ASSUME NEW s \in Slots, SendOwn(s)
      PROVE  Streams'
  <2>1. /\ Head(job[s].dests) = s /\ job[s].dests # <<>>
        /\ UNCHANGED <<pid, pipe, starts>>
    BY <1>7, <1>a, OwnSent
  <2>2. CASE Dead(s)
    <3>1. up[s]
      BY <1>7, <1>a, There DEF Writing
    <3> QED
      BY <1>a, <2>1, <2>2, <3>1, StreamsDead
  <2>3. CASE ~Dead(s)
    <3>1. /\ UNCHANGED <<up, wbuf, rbuf>>
          /\ \A x \in Slots : job'[x] =
               IF x = s THEN [dests |-> Tail(job[s].dests), part |-> job[s].part,
                              alert |-> job[s].alert]
               ELSE job[x]
      BY <1>7, <1>a, <2>3, OwnSent
    <3>2. job'[s].part = job[s].part /\ \A x \in Slots \ {s} : job'[x] = job[x]
      <4>1. job'[s] = [dests |-> Tail(job[s].dests), part |-> job[s].part,
                       alert |-> job[s].alert]
        BY <3>1
      <4>2. job'[s].part = job[s].part
        BY <4>1
      <4> QED
        BY <3>1, <4>2
    <3>3. ASSUME NEW t \in Slots, NEW d \in Slots, First(d)'
          PROVE  Stream(t, d)'
      <4>1. First(d)
        BY <2>1, <3>1, <3>3 DEF First
      <4>2. t = s => ~Midway(t, d) /\ ~Midway(t, d)'
        BY <1>a, <2>1, <3>2 DEF Jobs, Midway, Halfway
      <4> QED
        BY <2>1, <3>1, <3>2, <4>1, <4>2, StreamsSame
    <3> QED
      BY <3>3 DEF Streams
  <2> QED
    BY <2>2, <2>3
(* What reading a packet leaves of the streams.                            *)
<1>8. ASSUME NEW d \in Slots, pipe[d] # <<>>, NEW p, p = Head(pipe[d]), p \in Packet,
             \A x \in Slots : pipe'[x] = IF x = d THEN Tail(pipe[d]) ELSE pipe[x],
             UNCHANGED <<up, pid, starts, wbuf, job>>,
             \A x, s \in Slots : x # d => rbuf'[x][s] = rbuf[x][s],
             \A s \in Slots : \A k : First(d) /\ Takes(rbuf[d][s], p, s, k) => rbuf'[d][s] = k
      PROVE  Streams'
  <2>1. ASSUME NEW s \in Slots, NEW x \in Slots, First(x)'
        PROVE  Stream(s, x)'
    <3>1. First(x)
      BY <1>8, <2>1 DEF First
    <3>2. CASE x # d
      BY <1>8, <3>1, <3>2, StreamsSame
    <3>3. CASE x = d
      <4>1. StreamOf(rbuf[d][s], pipe[d], wbuf[s][d], s, starts, up[s], Midway(s, d),
                     pid[s], job[s].alert.id)
        BY <3>1, <3>3 DEF Streams, Stream
      <4>2. pipe[d] \in Seq(Packet)
        BY <1>a DEF Types
      <4>3. PICK k : /\ Takes(rbuf[d][s], p, s, k)
                     /\ StreamOf(k, Tail(pipe[d]), wbuf[s][d], s, starts, up[s],
                                 Midway(s, d), pid[s], job[s].alert.id)
        BY <1>8, <4>1, <4>2, StreamRead
      <4>4. rbuf'[d][s] = k
        BY <1>8, <3>1, <3>3, <4>3
      <4>5. (Midway(s, d)' <=> Midway(s, d)) /\ pipe'[d] = Tail(pipe[d])
        BY <1>8 DEF Midway, Halfway
      <4>6. StreamOf(k, Tail(pipe[d]), wbuf[s][d], s, starts, up[s], Midway(s, d)', pid[s],
                     job[s].alert.id)
        BY <4>3, <4>5 DEF StreamOf, Ends
      <4> QED
        BY <1>8, <3>3, <4>4, <4>5, <4>6 DEF Stream
    <3> QED
      BY <3>2, <3>3
  <2> QED
    BY <2>1 DEF Streams
<1>9. ASSUME NEW d \in Slots, Dead(d), up[d], UNCHANGED <<pid, starts>>,
             \A x \in Slots : pipe'[x] = IF x = d THEN Tail(pipe[d]) ELSE pipe[x]
      PROVE  Streams'
  BY <1>9, <1>a, StreamsDead
<1>10. ASSUME NEW d \in Slots, ReadWhole(d)
       PROVE  Streams'
  <2>a. PICK p : p = Head(pipe[d])
    OBVIOUS
  <2>1. /\ up[d] /\ pipe[d] # <<>> /\ p \in Packet /\ p.alert.parts = 1
        /\ \A x \in Slots : pipe'[x] = IF x = d THEN Tail(pipe[d]) ELSE pipe[x]
        /\ UNCHANGED <<pid, starts>>
    BY <1>10, <1>a, <2>a, WholeRead
  <2>2. CASE Dead(d)
    BY <1>9, <2>1, <2>2
  <2>3. CASE ~Dead(d)
    <3>1. UNCHANGED <<up, wbuf, rbuf, job>>
      BY <1>10, <1>a, <2>3, <2>a, WholeRead
    <3>2. \A s \in Slots : \A k : Takes(rbuf[d][s], p, s, k) => rbuf'[d][s] = k
      BY <2>1, <3>1 DEF Takes
    <3> QED
      BY <1>8, <2>1, <2>a, <3>1, <3>2
  <2> QED
    BY <2>2, <2>3
<1>11. ASSUME NEW d \in Slots, ReadPart(d)
       PROVE  Streams'
  <2>a. PICK p : p = Head(pipe[d])
    OBVIOUS
  <2>b. PICK old : old = rbuf[d][p.src]
    OBVIOUS
  <2>1. /\ up[d] /\ pipe[d] # <<>> /\ p \in Packet /\ p.alert.parts = 2
        /\ \A x \in Slots : pipe'[x] = IF x = d THEN Tail(pipe[d]) ELSE pipe[x]
        /\ UNCHANGED <<pid, starts>>
    BY <1>11, <1>a, <2>a, <2>b, PartRead
  <2>2. old \in Buf
    BY <1>a, <2>1, <2>b, OneId DEF Types
  <2>3. CASE Dead(d)
    BY <1>9, <2>1, <2>3
  <2>4. CASE KeepsPart(d, p, old)
    <3>a. /\ p.part = 1 /\ UNCHANGED <<up, wbuf, job>>
          /\ \A x, s \in Slots : rbuf'[x][s] =
               IF x = d /\ s = p.src
               THEN [pid |-> p.pid, parts |-> 2, ids |-> <<p.alert.id>>]
               ELSE rbuf[x][s]
      BY <2>4 DEF KeepsPart
    <3>1. \A s \in Slots : \A k : First(d) /\ Takes(rbuf[d][s], p, s, k) => rbuf'[d][s] = k
      <4>a. SUFFICES ASSUME NEW s \in Slots, NEW k, Takes(rbuf[d][s], p, s, k)
                     PROVE  rbuf'[d][s] = k
        OBVIOUS
      <4>1. CASE s # p.src
        <5>1. k = rbuf[d][s]
          BY <4>a, <4>1 DEF Takes
        <5> QED
          BY <3>a, <4>1, <5>1
      <4>2. CASE s = p.src
        <5>1. Takes(old, p, p.src, k)
          BY <2>b, <4>a, <4>2
        <5>2. k = Opened(p.pid, p.alert.id)
          BY <2>1, <2>2, <3>a, <5>1, TakesJoined
        <5> QED
          BY <3>a, <4>2, <5>2 DEF Opened
      <4> QED
        BY <4>1, <4>2
    <3>2. \A x, s \in Slots : x # d => rbuf'[x][s] = rbuf[x][s]
      BY <3>a
    <3>3. UNCHANGED <<up, pid, starts, wbuf, job>>
      BY <2>1, <3>a
    <3> QED
      BY <1>8, <2>1, <2>a, <3>1, <3>2, <3>3
  <2>5. CASE HandsParts(d, p, old)
    <3>a. /\ p.part = 2 /\ UNCHANGED <<up, wbuf, job>>
          /\ \A x, s \in Slots : rbuf'[x][s] =
               IF x = d /\ s = p.src THEN NoBuf ELSE rbuf[x][s]
      BY <2>5 DEF HandsParts
    <3>1. \A s \in Slots : \A k : First(d) /\ Takes(rbuf[d][s], p, s, k) => rbuf'[d][s] = k
      <4>a. SUFFICES ASSUME NEW s \in Slots, NEW k, Takes(rbuf[d][s], p, s, k)
                     PROVE  rbuf'[d][s] = k
        OBVIOUS
      <4>1. CASE s # p.src
        <5>1. k = rbuf[d][s]
          BY <4>a, <4>1 DEF Takes
        <5> QED
          BY <3>a, <4>1, <5>1
      <4>2. CASE s = p.src
        <5>1. Takes(old, p, p.src, k)
          BY <2>b, <4>a, <4>2
        <5>2. k = NoBuf
          BY <2>1, <2>2, <3>a, <5>1, TakesJoined
        <5> QED
          BY <3>a, <4>2, <5>2
      <4> QED
        BY <4>1, <4>2
    <3>2. \A x, s \in Slots : x # d => rbuf'[x][s] = rbuf[x][s]
      BY <3>a
    <3>3. UNCHANGED <<up, pid, starts, wbuf, job>>
      BY <2>1, <3>a
    <3> QED
      BY <1>8, <2>1, <2>a, <3>1, <3>2, <3>3
  <2> QED
    BY <1>11, <1>a, <2>3, <2>4, <2>5, <2>a, <2>b, PartRead
<1>12. ASSUME NEW d \in Slots, ReadWeird(d)
       PROVE  Streams' /\ ~First(d)
  <2>a. PICK p : p = Head(pipe[d])
    OBVIOUS
  <2>1. /\ pipe[d] # <<>> /\ p \in Packet
        /\ p.alert.parts = 2 /\ Joined(rbuf[d][p.src], p) = NoBuf
        /\ \A x \in Slots : pipe'[x] = IF x = d THEN <<>> ELSE pipe[x]
        /\ \A x, s \in Slots : rbuf'[x][s] = IF x = d /\ s = p.src THEN NoBuf ELSE rbuf[x][s]
        /\ UNCHANGED <<up, pid, wbuf, job, starts>>
    BY <1>12, <1>a, <2>a, WeirdRead
  <2>2. p.src \in Slots /\ rbuf[d][p.src] \in Buf /\ pipe[d] \in Seq(Packet)
    BY <1>a, <2>1, OneId DEF Types
  <2>3. ~First(d)
    <3>a. SUFFICES ASSUME First(d) PROVE FALSE
      OBVIOUS
    <3>1. StreamOf(rbuf[d][p.src], pipe[d], wbuf[p.src][d], p.src, starts, up[p.src],
                   Midway(p.src, d), pid[p.src], job[p.src].alert.id)
      BY <2>2, <3>a DEF Streams, Stream
    <3>2. PICK k : Takes(rbuf[d][p.src], p, p.src, k)
      BY <2>1, <2>2, <2>a, <3>1, StreamRead
    <3> QED
      BY <2>1, <2>2, <3>2, TakesJoined
  <2>4. ASSUME NEW s \in Slots, NEW x \in Slots, First(x)'
        PROVE  Stream(s, x)'
    <3>1. First(x) /\ x # d
      BY <2>1, <2>3, <2>4 DEF First
    <3>2. rbuf'[x][s] = rbuf[x][s] /\ pipe'[x] = pipe[x]
      BY <2>1, <3>1
    <3> QED
      BY <2>1, <3>1, <3>2, StreamsSame
  <2> QED
    BY <2>3, <2>4 DEF Streams
<1>13. CASE UNCHANGED vars
  <2>1. UNCHANGED <<rbuf, pipe, wbuf, starts, up, pid, job>>
    BY <1>13 DEF vars, table
  <2> QED
    BY <2>1 DEF Streams, Stream, First, Midway, Halfway
<1> QED
  BY <1>1, <1>2, <1>3, <1>4, <1>5, <1>6, <1>7, <1>10, <1>11, <1>12, <1>13
     DEF Next, Writing, Reading

-----------------------------------------------------------------------------
(* The alerts that a handler was called with for one sender.               *)

LastId(h) == h[2][Len(h[2])]
GotIds(hs) == [i \in DOMAIN hs |-> LastId(hs[i])]
GotAt(hs, s) == {i \in DOMAIN hs : hs[i][1] = s}
Got(hs, s) == At(GotIds(hs), GotAt(hs, s))

LEMMA LastIdType ==
  ASSUME NEW h \in Handing
  PROVE  LastId(h) \in Id /\ h[1] \in Slots
<1>1. h[1] \in Slots /\ h[2] \in Seq(Id) /\ h[2] # <<>>
  BY DEF Handing, Id
<1>2. Len(h[2]) \in 1 .. Len(h[2])
  BY <1>1, EmptySeq, LenProperties
<1> QED
  BY <1>1, <1>2, ElementOfSeq DEF LastId

LEMMA GotType ==
  ASSUME NEW hs \in Seq(Handing), NEW s
  PROVE  /\ GotIds(hs) \in Seq(Id) /\ Len(GotIds(hs)) = Len(hs)
         /\ Got(hs, s) \in Seq(Id)
<1>1. DOMAIN hs = 1 .. Len(hs) /\ Len(hs) \in Nat
  BY LenProperties
<1>2. \A i \in 1 .. Len(hs) : LastId(hs[i]) \in Id
  BY ElementOfSeq, LastIdType
<1>3. GotIds(hs) \in [1 .. Len(hs) -> Id]
  BY <1>1, <1>2 DEF GotIds
<1>4. GotIds(hs) \in Seq(Id)
  BY <1>1, <1>3, SeqDef
<1>5. GotIds(hs) = [i \in 1 .. Len(hs) |-> LastId(hs[i])]
  BY <1>1 DEF GotIds
<1>6. Len([i \in 1 .. Len(hs) |-> LastId(hs[i])]) = Len(hs)
  BY <1>1
<1>7. At(GotIds(hs), GotAt(hs, s)) \in Seq(Id)
  BY <1>4, AtType
<1> QED
  BY <1>4, <1>5, <1>6, <1>7 DEF Got

LEMMA GotAppend ==
  ASSUME NEW hs \in Seq(Handing), NEW h \in Handing, NEW s
  PROVE  Got(Append(hs, h), s) = IF h[1] = s THEN Append(Got(hs, s), LastId(h))
                                 ELSE Got(hs, s)
<1>a. PICK all : all = Append(hs, h)
  OBVIOUS
<1>b. PICK len : len = Len(hs)
  OBVIOUS
<1>1. /\ all \in Seq(Handing) /\ Len(all) = len + 1 /\ len \in Nat /\ all[len + 1] = h
      /\ \A i \in 1 .. len : all[i] = hs[i]
  BY <1>a, <1>b, AppendProperties, LenProperties
<1>2. DOMAIN all = 1 .. len + 1 /\ DOMAIN hs = 1 .. len
  BY <1>1, <1>b, LenProperties
<1>3. /\ GotIds(hs) \in Seq(Id) /\ Len(GotIds(hs)) = len /\ LastId(h) \in Id
      /\ GotIds(all) \in Seq(Id) /\ Len(GotIds(all)) = len + 1
  BY <1>1, <1>b, GotType, LastIdType
<1>4. GotIds(all) = Append(GotIds(hs), LastId(h))
  <2>a. PICK more : more = Append(GotIds(hs), LastId(h))
    OBVIOUS
  <2>1. /\ more \in Seq(Id) /\ Len(more) = len + 1 /\ more[len + 1] = LastId(h)
        /\ \A i \in 1 .. len : more[i] = GotIds(hs)[i]
    BY <1>3, <2>a, AppendProperties
  <2>2. \A i \in 1 .. len + 1 : GotIds(all)[i] = LastId(all[i])
    BY <1>2 DEF GotIds
  <2>3. \A i \in 1 .. len : GotIds(hs)[i] = LastId(hs[i])
    BY <1>2 DEF GotIds
  <2>4. \A i \in 1 .. len + 1 : GotIds(all)[i] = more[i]
    <3> TAKE i \in 1 .. len + 1
    <3>1. CASE i = len + 1
      BY <1>1, <2>1, <2>2, <3>1
    <3>2. CASE i \in 1 .. len
      BY <1>1, <2>1, <2>2, <2>3, <3>2
    <3> QED
      BY <1>1, <3>1, <3>2
  <2> QED
    BY <1>3, <2>1, <2>4, <2>a, SeqEqual
<1>5. /\ \A n \in 1 .. Len(GotIds(hs)) : n \in GotAt(hs, s) <=> n \in GotAt(all, s)
      /\ Len(GotIds(hs)) + 1 \in GotAt(all, s) <=> h[1] = s
  <2>1. \A n \in 1 .. len : n \in 1 .. len + 1
    BY <1>1
  <2>2. len + 1 \in 1 .. len + 1
    BY <1>1
  <2> QED
    BY <1>1, <1>2, <1>3, <2>1, <2>2 DEF GotAt
<1>6. At(Append(GotIds(hs), LastId(h)), GotAt(all, s))
        = IF Len(GotIds(hs)) + 1 \in GotAt(all, s)
          THEN Append(At(GotIds(hs), GotAt(hs, s)), LastId(h))
          ELSE At(GotIds(hs), GotAt(hs, s))
  <2>a. PICK I, J : I = GotAt(hs, s) /\ J = GotAt(all, s)
    OBVIOUS
  <2>b. PICK seq, x : seq = GotIds(hs) /\ x = LastId(h)
    OBVIOUS
  <2>1. \A n \in 1 .. Len(seq) : n \in I <=> n \in J
    BY <1>5, <2>a, <2>b
  <2>2. seq \in Seq(Id) /\ x \in Id
    BY <1>3, <2>b
  <2>3. At(Append(seq, x), J) = IF Len(seq) + 1 \in J THEN Append(At(seq, I), x)
                                                     ELSE At(seq, I)
    BY <2>1, <2>2, AtAppend
  <2> QED
    BY <2>3, <2>a, <2>b
<1> QED
  BY <1>4, <1>5, <1>6, <1>a DEF Got

LEMMA GotOwn ==
  ASSUME NEW hs \in Seq(Handing), NEW x \in Slots, NEW id \in Id
  PROVE  \A s : Got(Append(hs, <<x, <<id>>>>), s)
                  = IF s = x THEN Append(Got(hs, s), id) ELSE Got(hs, s)
<1>a. PICK h : h = <<x, <<id>>>>
  OBVIOUS
<1>1. h \in Handing /\ h[1] = x /\ LastId(h) = id
  <2>1. <<id>> \in Seq(Id) /\ <<id>> # <<>> /\ Len(<<id>>) = 1 /\ <<id>>[1] = id
    OBVIOUS
  <2> QED
    BY <1>a, <2>1 DEF Handing, Id, LastId
<1>2. ASSUME NEW s
      PROVE  Got(Append(hs, h), s) = IF h[1] = s THEN Append(Got(hs, s), LastId(h))
                                     ELSE Got(hs, s)
  BY <1>1, GotAppend
<1> QED
  BY <1>1, <1>2, <1>a

LEMMA GotEmpty ==
  ASSUME NEW s
  PROVE  Got(<<>>, s) = <<>>
<1>1. GotIds(<<>>) = <<>>
  BY DEF GotIds
<1> QED
  BY <1>1, AtEmpty DEF Got

-----------------------------------------------------------------------------
(* Alerts are numbered as they begin: what one slot sends to another has   *)
(* greater and greater numbers, however much of it is lost.                *)

Below(track, n) == \A i \in 1 .. Len(track) : track[i] < n
Strict(track) == \A i, j \in 1 .. Len(track) : i < j => track[i] < track[j]

LEMMA BelowDrop ==
  ASSUME NEW a \in Seq(Id), NEW b \in Seq(Id), NEW c \in Seq(Id)
  PROVE  /\ \A n : Below((a \o b) \o c, n) => Below(a \o c, n)
         /\ Strict((a \o b) \o c) => Strict(a \o c)
<1>a. PICK k, l, m : k = Len(a) /\ l = Len(b) /\ m = Len(c)
  OBVIOUS
<1>b. PICK all, rest : all = (a \o b) \o c /\ rest = a \o c
  OBVIOUS
<1>1. k \in Nat /\ l \in Nat /\ m \in Nat
  BY <1>a, LenProperties
<1>2. /\ a \o b \in Seq(Id) /\ Len(a \o b) = k + l
      /\ \A i \in 1 .. k : (a \o b)[i] = a[i]
  BY <1>a, <1>1, ConcatProperties
<1>3. /\ Len(all) = k + l + m
      /\ \A i \in 1 .. k + l : all[i] = (a \o b)[i]
      /\ \A i \in 1 .. m : all[k + l + i] = c[i]
  <2>a. PICK ab : ab = a \o b
    OBVIOUS
  <2>1. ab \in Seq(Id) /\ Len(ab) = k + l
    BY <1>2, <2>a
  <2>2. /\ Len(ab \o c) = Len(ab) + Len(c)
        /\ \A i \in 1 .. Len(ab) + Len(c) :
             (ab \o c)[i] = IF i <= Len(ab) THEN ab[i] ELSE c[i - Len(ab)]
    BY <2>1, ConcatProperties
  <2>3. /\ Len(all) = k + l + m
        /\ \A i \in 1 .. k + l + m : all[i] = IF i <= k + l THEN ab[i] ELSE c[i - (k + l)]
    BY <1>a, <1>b, <2>1, <2>2, <2>a
  <2>4. \A i \in 1 .. k + l : all[i] = ab[i]
    BY <1>1, <2>3
  <2>5. \A i \in 1 .. m : all[k + l + i] = c[i]
    <3> TAKE i \in 1 .. m
    <3>1. /\ k + l + i \in 1 .. k + l + m /\ ~(k + l + i <= k + l)
          /\ (k + l + i) - (k + l) = i
      BY <1>1
    <3> QED
      BY <2>3, <3>1
  <2> QED
    BY <2>3, <2>4, <2>5, <2>a
<1>4. /\ Len(rest) = k + m
      /\ \A i \in 1 .. k : rest[i] = a[i]
      /\ \A i \in 1 .. m : rest[k + i] = c[i]
  <2>1. /\ Len(rest) = k + m
        /\ \A i \in 1 .. k + m : rest[i] = IF i <= k THEN a[i] ELSE c[i - k]
    BY <1>a, <1>b, ConcatProperties
  <2>2. \A i \in 1 .. m : k + i \in 1 .. k + m /\ ~(k + i <= k) /\ (k + i) - k = i
    BY <1>1
  <2> QED
    BY <1>1, <2>1, <2>2
<1> DEFINE at(i) == IF i <= k THEN i ELSE l + i
<1>5. \A i \in 1 .. k + m : at(i) \in 1 .. k + l + m /\ rest[i] = all[at(i)]
  <2> TAKE i \in 1 .. k + m
  <2>1. CASE i <= k
    <3>1. i \in 1 .. k /\ i \in 1 .. k + l /\ i \in 1 .. k + l + m
      BY <1>1, <2>1
    <3>2. rest[i] = a[i] /\ all[i] = a[i]
      BY <1>2, <1>3, <1>4, <3>1
    <3> QED
      BY <2>1, <3>1, <3>2
  <2>2. CASE ~(i <= k)
    <3>1. i - k \in 1 .. m /\ k + (i - k) = i /\ k + l + (i - k) = l + i
      BY <1>1, <2>2
    <3>2. rest[i] = c[i - k] /\ all[l + i] = c[i - k]
      BY <1>3, <1>4, <3>1
    <3> QED
      BY <1>1, <2>2, <3>1, <3>2
  <2> QED
    BY <2>1, <2>2
<1>6. \A i, j \in 1 .. k + m : i < j => at(i) < at(j)
  BY <1>1
<1>7. \A n : Below(all, n) => Below(rest, n)
  BY <1>3, <1>4, <1>5 DEF Below
<1>8. ASSUME Strict(all) PROVE Strict(rest)
  <2> SUFFICES ASSUME NEW i \in 1 .. k + m, NEW j \in 1 .. k + m, i < j
               PROVE  rest[i] < rest[j]
    BY <1>4 DEF Strict
  <2>1. at(i) < at(j) /\ at(i) \in 1 .. Len(all) /\ at(j) \in 1 .. Len(all)
    BY <1>3, <1>5, <1>6
  <2>2. rest[i] = all[at(i)] /\ rest[j] = all[at(j)]
    BY <1>5
  <2> HIDE DEF at
  <2>3. all[at(i)] < all[at(j)]
    BY <1>8, <2>1 DEF Strict
  <2> QED
    BY <2>2, <2>3
<1> QED
  BY <1>7, <1>8, <1>b

LEMMA BelowAppend ==
  ASSUME NEW track \in Seq(Id), NEW id \in Id
  PROVE  /\ Strict(track) /\ Below(track, id) => Strict(Append(track, id))
         /\ \A n : Below(track, n) /\ id < n => Below(Append(track, id), n)
<1>a. PICK all, len : all = Append(track, id) /\ len = Len(track)
  OBVIOUS
<1>1. /\ len \in Nat /\ Len(all) = len + 1 /\ all[len + 1] = id
      /\ \A i \in 1 .. len : all[i] = track[i]
  BY <1>a, AppendProperties, LenProperties
<1>2. ASSUME Strict(track), Below(track, id) PROVE Strict(all)
  <2> SUFFICES ASSUME NEW i \in 1 .. len + 1, NEW j \in 1 .. len + 1, i < j
               PROVE  all[i] < all[j]
    BY <1>1 DEF Strict
  <2>1. i \in 1 .. len
    BY <1>1
  <2>2. CASE j = len + 1
    BY <1>1, <1>2, <1>a, <2>1, <2>2 DEF Below
  <2>3. CASE j \in 1 .. len
    BY <1>1, <1>2, <1>a, <2>1, <2>3 DEF Strict
  <2> QED
    BY <1>1, <2>2, <2>3
<1>3. ASSUME NEW n, Below(track, n), id < n PROVE Below(all, n)
  <2> SUFFICES ASSUME NEW i \in 1 .. len + 1 PROVE all[i] < n
    BY <1>1 DEF Below
  <2> QED
    BY <1>1, <1>3, <1>a DEF Below
<1> QED
  BY <1>2, <1>3, <1>a

(* What one slot has sent to another, d, is in order, and the alert it is  *)
(* sending, id of n, goes to d once and is later than all of them; unless  *)
(* loose, where an alert may be sent more than once.                       *)
Once(dests, d) == \A i, j \in 1 .. Len(dests) : dests[i] = d /\ dests[j] = d => i = j
Among(dests, d) == \E i \in 1 .. Len(dests) : dests[i] = d
Good(track, dests, id, n, d, loose) ==
  /\ Below(track, n + 1)
  /\ dests # <<>> => id <= n
  /\ ~loose => /\ Strict(track)
               /\ Once(dests, d)
               /\ Among(dests, d) => Below(track, id)

LEMMA GoodDrop ==
  ASSUME NEW a \in Seq(Id), NEW b \in Seq(Id), NEW c \in Seq(Id),
         NEW dests, NEW id, NEW n, NEW d, NEW loose,
         Good((a \o b) \o c, dests, id, n, d, loose)
  PROVE  Good(a \o c, dests, id, n, d, loose)
<1>1. /\ \A m : Below((a \o b) \o c, m) => Below(a \o c, m)
      /\ Strict((a \o b) \o c) => Strict(a \o c)
  BY BelowDrop
<1> QED
  BY <1>1, Zenon DEF Good

LEMMA GoodDead ==
  ASSUME NEW track, NEW dests, NEW id, NEW n, NEW d, NEW loose,
         Good(track, dests, id, n, d, loose), NEW other
  PROVE  Good(track, <<>>, other, n, d, loose)
<1>1. Once(<<>>, d) /\ ~Among(<<>>, d)
  BY DEF Once, Among
<1> QED
  BY <1>1 DEF Good

LEMMA GoodLater ==
  ASSUME NEW track \in Seq(Id), NEW dests, NEW id \in Id, NEW n \in Nat, NEW d,
         NEW loose \in BOOLEAN, Good(track, dests, id, n, d, loose),
         NEW m \in Nat, n <= m, NEW more \in BOOLEAN, loose => more
  PROVE  Good(track, dests, id, m, d, more)
<1>1. \A i \in 1 .. Len(track) : track[i] \in Nat
  BY IpcAssumption, ElementOfSeq, LenProperties DEF Id
<1>2. Below(track, m + 1)
  <2>1. \A i \in 1 .. Len(track) : track[i] < n + 1
    BY DEF Good, Below
  <2>2. \A i \in 1 .. Len(track) : track[i] < m + 1
    BY <1>1, <2>1
  <2> QED
    BY <2>2 DEF Below
<1>3. dests # <<>> => id <= m
  <2>1. dests # <<>> => id <= n
    BY DEF Good
  <2> QED
    BY <2>1, IpcAssumption DEF Id
<1> QED
  BY <1>2, <1>3 DEF Good

LEMMA GoodTail ==
  ASSUME NEW track, NEW dests \in Seq(Slots), dests # <<>>, Head(dests) \in Slots,
         NEW id, NEW n, NEW d, NEW loose, Good(track, dests, id, n, d, loose)
  PROVE  Good(track, Tail(dests), id, n, d, loose)
<1>a. PICK tail, len : tail = Tail(dests) /\ len = Len(tail)
  OBVIOUS
<1>1. /\ len \in Nat /\ Len(dests) = len + 1
      /\ \A i \in 1 .. len : tail[i] = dests[i + 1]
  BY <1>a, HeadTailProperties, LenProperties
<1>2. \A i \in 1 .. len : i + 1 \in 1 .. Len(dests)
  BY <1>1
<1>3. Once(dests, d) => Once(tail, d)
  <2> SUFFICES ASSUME Once(dests, d), NEW i \in 1 .. len, NEW j \in 1 .. len,
                      tail[i] = d, tail[j] = d
               PROVE  i = j
    BY <1>a DEF Once
  <2>1. i + 1 = j + 1
    BY <1>1, <1>2 DEF Once
  <2> QED
    BY <2>1
<1>4. Among(tail, d) => Among(dests, d)
  BY <1>1, <1>2, <1>a DEF Among
<1> QED
  BY <1>3, <1>4, <1>a DEF Good

LEMMA GoodSent ==
  ASSUME NEW track \in Seq(Id), NEW dests \in Seq(Slots), dests # <<>>, NEW id \in Id,
         NEW n \in Nat, NEW d, d = Head(dests), NEW loose,
         Good(track, dests, id, n, d, loose)
  PROVE  Good(Append(track, id), Tail(dests), id, n, d, loose)
<1>a. PICK tail, len : tail = Tail(dests) /\ len = Len(tail)
  OBVIOUS
<1>1. /\ len \in Nat /\ Len(dests) = len + 1 /\ dests[1] = d
      /\ \A i \in 1 .. len : tail[i] = dests[i + 1]
  BY <1>a, HeadTailProperties, LenProperties
<1>2. 1 \in 1 .. Len(dests) /\ \A i \in 1 .. len : i + 1 \in 1 .. Len(dests) /\ i + 1 # 1
  BY <1>1
<1>3. Below(Append(track, id), n + 1)
  <2>1. Below(track, n + 1) /\ id <= n
    BY DEF Good
  <2>2. id < n + 1
    BY <2>1, IpcAssumption DEF Id
  <2> QED
    BY <2>1, <2>2, BelowAppend
<1>4. tail # <<>> => id <= n
  BY DEF Good
<1>5. ASSUME ~loose
      PROVE  Strict(Append(track, id)) /\ Once(tail, d) /\ ~Among(tail, d)
  <2>1. Strict(track) /\ Once(dests, d) /\ Below(track, id)
    BY <1>1, <1>2, <1>5 DEF Good, Among
  <2>2. ~Among(tail, d)
    BY <1>1, <1>2, <1>a, <2>1 DEF Among, Once
  <2>3. Once(tail, d)
    BY <2>2 DEF Once, Among
  <2> QED
    BY <2>1, <2>2, <2>3, BelowAppend
<1> QED
  BY <1>3, <1>4, <1>5, <1>a DEF Good

LEMMA GoodBegin ==
  ASSUME NEW track \in Seq(Id), NEW old, NEW n \in Nat, NEW d, NEW loose,
         Good(track, <<>>, old, n, d, loose),
         NEW dests, ~loose => Once(dests, d)
  PROVE  Good(track, dests, n + 1, n + 1, d, loose)
<1>1. \A i \in 1 .. Len(track) : track[i] \in Nat
  BY IpcAssumption, ElementOfSeq, LenProperties DEF Id
<1>2. \A i \in 1 .. Len(track) : track[i] < n + 1
  BY DEF Good, Below
<1>3. \A i \in 1 .. Len(track) : track[i] < n + 1 + 1
  BY <1>1, <1>2
<1>4. n + 1 <= n + 1
  OBVIOUS
<1> QED
  BY <1>2, <1>3, <1>4 DEF Good, Below

-----------------------------------------------------------------------------
(* What s has sent to d of whole alerts: what d was called with, and what  *)
(* is under way.                                                           *)

Track(s, d) == Got(handed[d], s) \o UnderWay(s, d)
Loose(d) == d = 0 /\ process_count > MaxProcesses
Passed(s, d) == Good(Track(s, d), job[s].dests, job[s].alert.id, sent, d, Loose(d))
Tracks == \A s, d \in Slots : Passed(s, d)

LEMMA TrackType ==
  ASSUME Types, NEW s \in Slots, NEW d \in Slots
  PROVE  /\ Got(handed[d], s) \in Seq(Id) /\ Track(s, d) \in Seq(Id)
         /\ job[s].alert.id \in Id /\ job[s].dests \in Seq(Slots)
         /\ sent \in Nat /\ process_count \in Nat /\ Loose(d) \in BOOLEAN
<1>1. handed[d] \in Seq(Handing)
  BY DEF Types
<1>2. Got(handed[d], s) \in Seq(Id)
  BY <1>1, GotType
<1>3. UnderWay(s, d) \in Seq(Id)
  BY WayTypes
<1>4. Got(handed[d], s) \o UnderWay(s, d) \in Seq(Id)
  BY <1>2, <1>3, ConcatProperties
<1>5. job[s].alert.id \in Id /\ job[s].dests \in Seq(Slots)
  BY DEF Types, Job, Alert, Id
<1>6. sent \in Nat /\ process_count \in Nat
  BY IpcAssumption DEF Types
<1>7. Loose(d) \in BOOLEAN
  BY DEF Loose
<1> QED
  BY <1>2, <1>4, <1>5, <1>6, <1>7 DEF Track

\* Nothing is counted down.
LEMMA Grows ==
  ASSUME Types, [Next]_vars
  PROVE  sent <= sent' /\ process_count <= process_count'
<1>1. sent \in Nat /\ process_count \in Nat /\ starts \in Nat
  BY IpcAssumption DEF Types
<1>2. ASSUME NEW s \in Slots, Alerting(s) PROVE sent <= sent' /\ process_count <= process_count'
  <2>1. sent' = sent + 1 /\ process_count' = process_count
    BY <1>2, Beginning DEF Begins
  <2> QED
    BY <1>1, <2>1
<1>3. ASSUME NEW s \in Slots, Start(s) PROVE sent <= sent' /\ process_count <= process_count'
  <2>1. sent' = sent /\ process_count' = process_count + 1
    BY <1>3 DEF Start
  <2> QED
    BY <1>1, <2>1
<1>4. ASSUME sent' = sent, process_count' = process_count
      PROVE  sent <= sent' /\ process_count <= process_count'
  BY <1>1, <1>4
<1>5. ASSUME NEW s \in Slots, Scrape(s) \/ Die(s) \/ Writing(s) \/ Reading(s)
      PROVE  sent' = sent /\ process_count' = process_count
  BY <1>5 DEF Scrape, Die, Writing, SendPart, SendOwn, WriteHandler, Reading, ReadWhole,
              ReadPart, ReadWeird, table
<1>6. CASE UNCHANGED vars
  BY <1>4, <1>6 DEF vars, table
<1> QED
  BY <1>2, <1>3, <1>4, <1>5, <1>6 DEF Next

LEMMA PassedLater ==
  ASSUME Types, Types', sent <= sent', process_count <= process_count',
         NEW s \in Slots, NEW d \in Slots,
         Good(Track(s, d)', job'[s].dests, job'[s].alert.id, sent, d, Loose(d))
  PROVE  Passed(s, d)'
<1>a. PICK track, dests, id, loose, more :
        /\ track = Track(s, d)' /\ dests = job'[s].dests /\ id = job'[s].alert.id
        /\ loose = Loose(d) /\ more = Loose(d)'
  OBVIOUS
<1>1. /\ sent \in Nat /\ process_count \in Nat /\ loose \in BOOLEAN
  BY <1>a, TrackType
<1>2. (/\ Track(s, d) \in Seq(Id) /\ job[s].alert.id \in Id /\ sent \in Nat
       /\ process_count \in Nat /\ Loose(d) \in BOOLEAN)'
  BY TrackType, PTL
<1>3. loose => more
  <2>1. process_count > MaxProcesses => process_count' > MaxProcesses
    BY <1>1, <1>2, Numbers
  <2>2. Loose(d) => Loose(d)'
    BY <2>1 DEF Loose
  <2> QED
    BY <1>a, <2>2
<1>4. Good(track, dests, id, sent, d, loose)
  BY <1>a
<1>5. track \in Seq(Id) /\ id \in Id /\ sent' \in Nat /\ more \in BOOLEAN
  BY <1>2, <1>a
<1>6. Good(track, dests, id, sent', d, more)
  BY <1>1, <1>3, <1>4, <1>5, GoodLater
<1> QED
  BY <1>6, <1>a DEF Passed

LEMMA PassedSame ==
  ASSUME Types, Types', sent <= sent', process_count <= process_count',
         NEW s \in Slots, NEW d \in Slots, Passed(s, d),
         handed'[d] = handed[d], UnderWay(s, d)' = UnderWay(s, d), job'[s] = job[s]
  PROVE  Passed(s, d)'
<1>1. Track(s, d)' = Track(s, d)
  BY DEF Track
<1>2. Good(Track(s, d)', job'[s].dests, job'[s].alert.id, sent, d, Loose(d))
  BY <1>1 DEF Passed
<1> QED
  BY <1>2, PassedLater

LEMMA WayTypesNext ==
  ASSUME Types', NEW s \in Slots, NEW d \in Slots
  PROVE  UnderWay(s, d)' \in Seq(Id)
<1>1. LastParts(pipe'[d], s) \in Seq(Id) /\ LastParts(wbuf'[s][d], s) \in Seq(Id)
  BY LastParts1 DEF Types
<1> QED
  BY <1>1, ConcatProperties DEF UnderWay, Piped, Waiting

\* A part that is not the last changes nothing.
LEMMA WayPart ==
  ASSUME Types, Senders, NEW d \in Slots, pipe[d] # <<>>, NEW p, p = Head(pipe[d]),
         \A x \in Slots : pipe'[x] = IF x = d THEN Tail(pipe[d]) ELSE pipe[x],
         wbuf' = wbuf, p.part # p.alert.parts, NEW s \in Slots, NEW y \in Slots
  PROVE  UnderWay(s, y)' = UnderWay(s, y)
<1>1. ~LastOf(p, s)
  BY DEF LastOf
<1>2. /\ y = d /\ s # d /\ LastOf(p, s) => UnderWay(s, y) = <<p.alert.id>> \o UnderWay(s, y)'
      /\ (y # d /\ s # d) \/ (s # d /\ ~LastOf(p, s)) \/ (s = d /\ wbuf' = wbuf) =>
           UnderWay(s, y)' = UnderWay(s, y)
  BY WayRead
<1> QED
  BY <1>1, <1>2

\* With a process what it was writing is lost, and what it was reading.
LEMMA PassedDead ==
  ASSUME Types, Types', Senders, sent <= sent', process_count <= process_count', Tracks,
         NEW x \in Slots, Dead(x), UNCHANGED handed,
         \/ pipe' = pipe
         \/ /\ pipe[x] # <<>>
            /\ \A y \in Slots : pipe'[y] = IF y = x THEN Tail(pipe[x]) ELSE pipe[y]
  PROVE  Tracks'
<1>1. ASSUME NEW s \in Slots, NEW d \in Slots
      PROVE  \/ s = x /\ UnderWay(s, d)' = Piped(s, d)
             \/ s # x /\ \E b \in Seq(Id) : UnderWay(s, d) = b \o UnderWay(s, d)'
  <2>0. UnderWay(s, d) \in Seq(Id) /\ <<>> \in Seq(Id)
    BY WayTypes
  <2>1. CASE pipe' = pipe
    <3>1. UnderWay(s, d)' = IF s = x THEN Piped(x, d) ELSE UnderWay(s, d)
      BY <2>1, WayDead
    <3>2. UnderWay(s, d) = <<>> \o UnderWay(s, d)
      BY <2>0, ConcatEmptySeq
    <3> QED
      BY <2>0, <3>1, <3>2
  <2>2. CASE /\ pipe[x] # <<>>
             /\ \A y \in Slots : pipe'[y] = IF y = x THEN Tail(pipe[x]) ELSE pipe[y]
    <3>a. PICK p : p = Head(pipe[x])
      OBVIOUS
    <3>1. /\ p \in Packet
          /\ d = x /\ s # x /\ LastOf(p, s) =>
               UnderWay(s, d) = <<p.alert.id>> \o UnderWay(s, d)'
          /\ (d # x /\ s # x) \/ (s # x /\ ~LastOf(p, s)) =>
               UnderWay(s, d)' = UnderWay(s, d)
          /\ s = x => UnderWay(s, d)' = Piped(s, d)
      BY <2>2, <3>a, WayRead
    <3>2. UnderWay(s, d) = <<>> \o UnderWay(s, d)
      BY <2>0, ConcatEmptySeq
    <3>3. <<p.alert.id>> \in Seq(Id)
      BY <3>1, OneId DEF Id
    <3> QED
      BY <2>0, <3>1, <3>2, <3>3
  <2> QED
    BY <2>1, <2>2
<1>2. ASSUME NEW s \in Slots, NEW d \in Slots
      PROVE  Passed(s, d)'
  <2>a. PICK got, way, later : /\ got = Got(handed[d], s) /\ way = UnderWay(s, d)
                              /\ later = UnderWay(s, d)'
    OBVIOUS
  <2>b. PICK dests, id : dests = job[s].dests /\ id = job[s].alert.id
    OBVIOUS
  <2>1. /\ got \in Seq(Id) /\ way \in Seq(Id) /\ later \in Seq(Id)
        /\ Track(s, d)' = got \o later
    <3>1. UnderWay(s, d)' \in Seq(Id)
      BY WayTypesNext
    <3> QED
      BY <2>a, <3>1, TrackType, WayTypes DEF Track
  <2>2. Good(got \o way, dests, id, sent, d, Loose(d))
    BY <2>a, <2>b DEF Tracks, Passed, Track
  <2>3. CASE s = x
    <3>a. PICK piped, waiting : piped = Piped(s, d) /\ waiting = Waiting(s, d)
      OBVIOUS
    <3>1. piped \in Seq(Id) /\ waiting \in Seq(Id) /\ way = piped \o waiting /\ later = piped
      BY <1>1, <2>3, <2>a, <3>a, WayTypes DEF UnderWay
    <3>2. (got \o piped) \o waiting = got \o way
      BY <2>1, <3>1, ConcatAssociative
    <3>3. /\ got \o piped \in Seq(Id) /\ <<>> \in Seq(Id)
          /\ got \o way \in Seq(Id)
      BY <2>1, <3>1, ConcatProperties
    <3>4. ((got \o piped) \o waiting) \o <<>> = got \o way /\ (got \o piped) \o <<>> = got \o piped
      BY <3>2, <3>3, ConcatEmptySeq
    <3>5. Good(got \o piped, dests, id, sent, d, Loose(d))
      <4>a. PICK gp : gp = got \o piped
        OBVIOUS
      <4>1. Good((gp \o waiting) \o <<>>, dests, id, sent, d, Loose(d))
        BY <2>2, <3>4, <4>a
      <4>2. Good(gp \o <<>>, dests, id, sent, d, Loose(d))
        BY <3>1, <3>3, <4>1, <4>a, GoodDrop
      <4> QED
        BY <3>4, <4>2, <4>a
    <3>6. job'[s].dests = <<>>
      <4>1. job'[s] = NoJob
        BY <2>3, Died
      <4> QED
        BY <4>1, NoJobPart
    <3>7. Good(got \o later, job'[s].dests, job'[s].alert.id, sent, d, Loose(d))
      BY <3>1, <3>5, <3>6, GoodDead
    <3> QED
      BY <2>1, <3>7, PassedLater
  <2>4. CASE s # x
    <3>1. PICK b \in Seq(Id) : way = b \o later
      BY <1>1, <2>4, <2>a
    <3>2. got \o way = (got \o b) \o later
      <4>1. (got \o b) \o later = got \o (b \o later)
        BY <2>1, <3>1, ConcatAssociative
      <4> QED
        BY <3>1, <4>1
    <3>3. Good(got \o later, dests, id, sent, d, Loose(d))
      BY <2>1, <2>2, <3>1, <3>2, GoodDrop
    <3>4. job'[s] = job[s]
      BY <2>4, Died
    <3>5. Good(got \o later, job'[s].dests, job'[s].alert.id, sent, d, Loose(d))
      BY <2>b, <3>3, <3>4
    <3> QED
      BY <2>1, <3>5, PassedLater
  <2> QED
    BY <2>3, <2>4
<1> QED
  BY <1>2 DEF Tracks

\* A last part that is read is an alert handed over.
LEMMA PassedRead ==
  ASSUME Types, Types', Senders, sent <= sent', process_count <= process_count', Tracks,
         NEW d \in Slots, pipe[d] # <<>>, NEW p, p = Head(pipe[d]), p.part = p.alert.parts,
         \A y \in Slots : pipe'[y] = IF y = d THEN Tail(pipe[d]) ELSE pipe[y],
         UNCHANGED <<wbuf, job>>,
         NEW h, h \in Handing, h[1] = p.src, LastId(h) = p.alert.id,
         \A y \in Slots : handed'[y] = IF y = d THEN Append(handed[d], h) ELSE handed[y]
  PROVE  Tracks'
<1>1. /\ p \in Packet /\ p.src # d /\ \A s : LastOf(p, s) <=> s = p.src
      /\ \A s, y \in Slots :
           /\ y = d /\ s = p.src => UnderWay(s, y) = <<p.alert.id>> \o UnderWay(s, y)'
           /\ ~(y = d /\ s = p.src) => UnderWay(s, y)' = UnderWay(s, y)
  <2>1. p \in Packet /\ p.src # d
    BY WayRead
  <2>2. \A s : LastOf(p, s) <=> s = p.src
    BY DEF LastOf
  <2>3. ASSUME NEW s \in Slots, NEW y \in Slots
        PROVE  /\ y = d /\ s = p.src => UnderWay(s, y) = <<p.alert.id>> \o UnderWay(s, y)'
               /\ ~(y = d /\ s = p.src) => UnderWay(s, y)' = UnderWay(s, y)
    <3>1. /\ y = d /\ s # d /\ LastOf(p, s) =>
               UnderWay(s, y) = <<p.alert.id>> \o UnderWay(s, y)'
          /\ (y # d /\ s # d) \/ (s # d /\ ~LastOf(p, s)) \/ (s = d /\ wbuf' = wbuf) =>
               UnderWay(s, y)' = UnderWay(s, y)
      BY WayRead
    <3> QED
      BY <2>1, <2>2, <3>1
  <2> QED
    BY <2>1, <2>2, <2>3
<1>2. ASSUME NEW s \in Slots, NEW y \in Slots
      PROVE  Track(s, y)' = Track(s, y)
  <2>a. PICK got, way, later : /\ got = Got(handed[y], s) /\ way = UnderWay(s, y)
                              /\ later = UnderWay(s, y)'
    OBVIOUS
  <2>b. PICK id : id = p.alert.id
    OBVIOUS
  <2>1. got \in Seq(Id) /\ way \in Seq(Id) /\ later \in Seq(Id) /\ id \in Id
    BY <1>1, <2>a, <2>b, TrackType, WayTypes, WayTypesNext, OneId DEF Id
  <2>2. handed[d] \in Seq(Handing)
    BY DEF Types
  <2>3. CASE y = d /\ s = p.src
    <3>1. Got(handed'[y], s) = Append(got, id)
      BY <2>2, <2>3, <2>a, <2>b, GotAppend
    <3>2. way = <<id>> \o later
      BY <1>1, <2>3, <2>a, <2>b
    <3>3. got \o (<<id>> \o later) = Append(got, id) \o later
      BY <2>1, MovedOver
    <3> QED
      BY <2>a, <3>1, <3>2, <3>3 DEF Track
  <2>4. CASE ~(y = d /\ s = p.src)
    <3>1. Got(handed'[y], s) = got
      BY <2>2, <2>4, <2>a, GotAppend
    <3>2. later = way
      BY <1>1, <2>4, <2>a
    <3> QED
      BY <2>a, <3>1, <3>2 DEF Track
  <2> QED
    BY <2>3, <2>4
<1>3. ASSUME NEW s \in Slots, NEW y \in Slots
      PROVE  Passed(s, y)'
  <2>1. Good(Track(s, y)', job'[s].dests, job'[s].alert.id, sent, y, Loose(y))
    BY <1>2 DEF Tracks, Passed
  <2> QED
    BY <2>1, PassedLater
<1> QED
  BY <1>3 DEF Tracks

\* A packet is sent: with its last part an alert is under way.
LEMMA PassedSent ==
  ASSUME Types, Types', Jobs, Senders, sent <= sent', process_count <= process_count',
         Tracks, NEW x \in Slots, SendPart(x)
  PROVE  Tracks'
<1>a. PICK to : to = Head(job[x].dests)
  OBVIOUS
<1>1. /\ job[x].dests # <<>> /\ to \in Slots /\ to # x /\ handed' = handed
      /\ job'[x] = NextPart(job[x]) /\ \A s \in Slots \ {x} : job'[s] = job[s]
  BY <1>a, Sending
<1>2. \A s, d \in Slots :
        UnderWay(s, d)' = IF s = x /\ d = to /\ job[x].part = job[x].alert.parts
                          THEN Append(UnderWay(x, to), job[x].alert.id)
                          ELSE UnderWay(s, d)
  BY <1>a, WaySent
<1>3. /\ job[x].part \in 1 .. 2 /\ job[x].alert.parts \in 1 .. 2
      /\ job[x].part <= job[x].alert.parts
  <2>1. job[x].part \in 1 .. 2 /\ job[x].alert.parts \in 1 .. 2
    BY DEF Types, Job, Alert
  <2> QED
    BY <2>1 DEF Jobs, Halfway
<1>4. /\ job'[x].alert = job[x].alert
      /\ job'[x].dests = IF job[x].part = job[x].alert.parts THEN Tail(job[x].dests)
                         ELSE job[x].dests
  <2>1. /\ NextPart(job[x]).alert = job[x].alert
        /\ NextPart(job[x]).dests = IF job[x].part < job[x].alert.parts
                                    THEN job[x].dests ELSE Tail(job[x].dests)
    BY NextParts
  <2>2. job[x].part < job[x].alert.parts <=> job[x].part # job[x].alert.parts
    BY <1>3
  <2> QED
    BY <1>1, <2>1, <2>2
<1>5. ASSUME NEW s \in Slots, NEW d \in Slots
      PROVE  Passed(s, d)'
  <2>a. PICK got, way : got = Got(handed[d], s) /\ way = UnderWay(s, d)
    OBVIOUS
  <2>b. PICK dests, id : dests = job[s].dests /\ id = job[s].alert.id
    OBVIOUS
  <2>1. /\ got \in Seq(Id) /\ way \in Seq(Id) /\ id \in Id /\ dests \in Seq(Slots)
        /\ got \o way \in Seq(Id) /\ sent \in Nat
    BY <2>a, <2>b, TrackType, WayTypes DEF Track
  <2>2. Good(got \o way, dests, id, sent, d, Loose(d))
    BY <2>a, <2>b DEF Tracks, Passed, Track
  <2>3. Got(handed'[d], s) = got
    BY <1>1, <2>a
  <2>4. CASE s # x
    <3>1. UnderWay(s, d)' = UnderWay(s, d) /\ job'[s] = job[s]
      BY <1>1, <1>2, <2>4
    <3> QED
      BY <1>1, <3>1, PassedSame DEF Tracks
  <2>5. CASE s = x /\ job[x].part # job[x].alert.parts
    <3>1. UnderWay(s, d)' = way /\ job'[s].dests = dests /\ job'[s].alert = job[s].alert
      BY <1>2, <1>4, <2>5, <2>a, <2>b
    <3>2. Good(Track(s, d)', job'[s].dests, job'[s].alert.id, sent, d, Loose(d))
      BY <2>2, <2>3, <2>b, <3>1 DEF Track
    <3> QED
      BY <3>2, PassedLater
  <2>6. CASE s = x /\ job[x].part = job[x].alert.parts /\ d # to
    <3>1. UnderWay(s, d)' = way /\ job'[s].dests = Tail(dests) /\ job'[s].alert.id = id
      BY <1>2, <1>4, <2>6, <2>a, <2>b
    <3>2. dests # <<>> /\ Head(dests) \in Slots /\ Head(dests) # d
      BY <1>1, <1>a, <2>6, <2>b
    <3>3. Good(got \o way, Tail(dests), id, sent, d, Loose(d))
      BY <2>1, <2>2, <3>2, GoodTail
    <3>4. Good(Track(s, d)', job'[s].dests, job'[s].alert.id, sent, d, Loose(d))
      BY <2>3, <3>1, <3>3 DEF Track
    <3> QED
      BY <3>4, PassedLater
  <2>7. CASE s = x /\ job[x].part = job[x].alert.parts /\ d = to
    <3>1. /\ UnderWay(s, d)' = Append(way, id) /\ job'[s].dests = Tail(dests)
          /\ job'[s].alert.id = id
      BY <1>2, <1>4, <2>7, <2>a, <2>b
    <3>2. dests # <<>> /\ d = Head(dests)
      BY <1>1, <1>a, <2>7, <2>b
    <3>3. Good(Append(got \o way, id), Tail(dests), id, sent, d, Loose(d))
      BY <2>1, <2>2, <3>2, GoodSent
    <3>4. got \o Append(way, id) = Append(got \o way, id)
      BY <2>1, MovedOver
    <3>5. Good(Track(s, d)', job'[s].dests, job'[s].alert.id, sent, d, Loose(d))
      BY <2>3, <3>1, <3>3, <3>4 DEF Track
    <3> QED
      BY <3>5, PassedLater
  <2> QED
    BY <2>4, <2>5, <2>6, <2>7
<1> QED
  BY <1>5 DEF Tracks

\* An alert to oneself is handed over at once.
LEMMA PassedOwn ==
  ASSUME Types, Types', Senders, sent <= sent', process_count <= process_count', Tracks,
         NEW x \in Slots, job[x].dests # <<>>, Head(job[x].dests) = x,
         UNCHANGED <<pipe, wbuf>>,
         \A y \in Slots : handed'[y] =
           IF y = x THEN Append(handed[x], <<x, <<job[x].alert.id>>>>) ELSE handed[y],
         \A s \in Slots : job'[s] =
           IF s = x THEN [dests |-> Tail(job[x].dests), part |-> job[x].part,
                          alert |-> job[x].alert]
           ELSE job[s]
  PROVE  Tracks'
<1>1. \A s, d \in Slots : UnderWay(s, d)' = UnderWay(s, d)
  BY DEF UnderWay, Piped, Waiting
<1>2. UnderWay(x, x) = <<>>
  <2>1. Piped(x, x) = <<>>
    BY LastNone DEF Senders, Piped
  <2>2. wbuf[x][x] = <<>>
    <3>1. Route(x, x) = {} /\ wbuf[x][x] \in Seq(Route(x, x))
      BY DEF Route, Senders
    <3> QED
      BY <3>1, EmptySeq, HeadTailProperties
  <2>3. Waiting(x, x) = <<>>
    BY <2>2, LastEmpty DEF Waiting
  <2> QED
    BY <2>1, <2>3 DEF UnderWay
<1>4. job'[x].dests = Tail(job[x].dests) /\ job'[x].alert = job[x].alert
  <2>1. job'[x] = [dests |-> Tail(job[x].dests), part |-> job[x].part,
                   alert |-> job[x].alert]
    OBVIOUS
  <2> QED
    BY <2>1
<1>5. ASSUME NEW s \in Slots, NEW d \in Slots
      PROVE  Passed(s, d)'
  <2>a. PICK got, way : got = Got(handed[d], s) /\ way = UnderWay(s, d)
    OBVIOUS
  <2>b. PICK dests, id : dests = job[s].dests /\ id = job[s].alert.id
    OBVIOUS
  <2>1. /\ got \in Seq(Id) /\ way \in Seq(Id) /\ id \in Id /\ dests \in Seq(Slots)
        /\ got \o way \in Seq(Id) /\ sent \in Nat
    BY <2>a, <2>b, TrackType, WayTypes DEF Track
  <2>2. Good(got \o way, dests, id, sent, d, Loose(d))
    BY <2>a, <2>b DEF Tracks, Passed, Track
  <2>3. handed[x] \in Seq(Handing)
    BY DEF Types
  <2>4. Got(handed'[d], s) = IF s = x /\ d = x THEN Append(got, id) ELSE got
    <3>1. CASE d = x
      <4>1. job[x].alert.id \in Id
        BY TrackType
      <4>2. \A t : Got(Append(handed[x], <<x, <<job[x].alert.id>>>>), t)
                     = IF t = x THEN Append(Got(handed[x], t), job[x].alert.id)
                       ELSE Got(handed[x], t)
        BY <2>3, <4>1, GotOwn
      <4> QED
        BY <2>a, <2>b, <3>1, <4>2
    <3>2. CASE d # x
      BY <2>a, <3>2
    <3> QED
      BY <3>1, <3>2
  <2>5. CASE s # x
    <3>1. job'[s] = job[s]
      BY <2>5
    <3>2. Good(Track(s, d)', job'[s].dests, job'[s].alert.id, sent, d, Loose(d))
      BY <1>1, <2>2, <2>4, <2>5, <2>a, <2>b, <3>1 DEF Track
    <3> QED
      BY <3>2, PassedLater
  <2>6. CASE s = x /\ d # x
    <3>1. Good(got \o way, Tail(dests), id, sent, d, Loose(d))
      BY <2>1, <2>2, <2>6, <2>b, GoodTail
    <3>2. Good(Track(s, d)', job'[s].dests, job'[s].alert.id, sent, d, Loose(d))
      BY <1>1, <1>4, <2>4, <2>6, <2>a, <2>b, <3>1 DEF Track
    <3> QED
      BY <3>2, PassedLater
  <2>7. CASE s = x /\ d = x
    <3>1. Good(Append(got \o way, id), Tail(dests), id, sent, d, Loose(d))
      BY <2>1, <2>2, <2>7, <2>b, GoodSent
    <3>2. got \o way = got /\ Append(got, id) \o way = Append(got, id)
      <4>1. way = <<>> /\ Append(got, id) \in Seq(Id)
        BY <1>2, <2>1, <2>7, <2>a, AppendProperties
      <4> QED
        BY <2>1, <4>1, ConcatEmptySeq
    <3>3. Track(s, d)' = Append(got, id) \o way
      BY <1>1, <2>4, <2>7, <2>a DEF Track
    <3>4. Good(Track(s, d)', job'[s].dests, job'[s].alert.id, sent, d, Loose(d))
      BY <1>4, <2>7, <2>b, <3>1, <3>2, <3>3
    <3> QED
      BY <3>4, PassedLater
  <2> QED
    BY <2>5, <2>6, <2>7
<1> QED
  BY <1>5 DEF Tracks

\* What was in the pipe is thrown away.
LEMMA PassedWeird ==
  ASSUME Types, Types', sent <= sent', process_count <= process_count', Tracks,
         NEW x \in Slots, UNCHANGED <<wbuf, job, handed>>,
         \A y \in Slots : pipe'[y] = IF y = x THEN <<>> ELSE pipe[y]
  PROVE  Tracks'
<1>1. \A s, d \in Slots :
        UnderWay(s, d)' = IF d = x THEN Waiting(s, x) ELSE UnderWay(s, d)
  BY WayCleared
<1>2. ASSUME NEW s \in Slots, NEW d \in Slots
      PROVE  Passed(s, d)'
  <2>1. CASE d # x
    <3>1. UnderWay(s, d)' = UnderWay(s, d)
      BY <1>1, <2>1
    <3> QED
      BY <3>1, PassedSame DEF Tracks
  <2>2. CASE d = x
    <3>a. PICK got, piped, waiting : /\ got = Got(handed[d], s) /\ piped = Piped(s, d)
                                    /\ waiting = Waiting(s, d)
      OBVIOUS
    <3>b. PICK dests, id : dests = job[s].dests /\ id = job[s].alert.id
      OBVIOUS
    <3>1. got \in Seq(Id) /\ piped \in Seq(Id) /\ waiting \in Seq(Id)
      BY <3>a, TrackType, WayTypes
    <3>2. Good(got \o (piped \o waiting), dests, id, sent, d, Loose(d))
      BY <3>a, <3>b DEF Tracks, Passed, Track, UnderWay
    <3>3. (got \o piped) \o waiting = got \o (piped \o waiting)
      BY <3>1, ConcatAssociative
    <3>4. Good(got \o waiting, dests, id, sent, d, Loose(d))
      BY <3>1, <3>2, <3>3, GoodDrop
    <3>5. Track(s, d)' = got \o waiting
      BY <1>1, <2>2, <3>a DEF Track
    <3>6. Good(Track(s, d)', job'[s].dests, job'[s].alert.id, sent, d, Loose(d))
      BY <3>4, <3>5, <3>b
    <3> QED
      BY <3>6, PassedLater
  <2> QED
    BY <2>1, <2>2
<1> QED
  BY <1>2 DEF Tracks

LEMMA TracksStep == Order /\ Tracks /\ [Next]_vars => Tracks'
<1> SUFFICES ASSUME Order, Tracks, [Next]_vars PROVE Tracks'
  OBVIOUS
<1>a. Types /\ Bounded /\ Fresh /\ Jobs /\ Senders
  BY DEF Order
<1>b. Types' /\ sent <= sent' /\ process_count <= process_count'
  BY <1>a, TypesStep, Grows
<1>1. ASSUME UNCHANGED <<handed, pipe, wbuf, job>>
      PROVE  Tracks'
  <2>1. ASSUME NEW s \in Slots, NEW d \in Slots
        PROVE  Passed(s, d)'
    <3>1. UnderWay(s, d)' = UnderWay(s, d)
      BY <1>1 DEF UnderWay, Piped, Waiting
    <3> QED
      BY <1>1, <1>a, <1>b, <3>1, PassedSame DEF Tracks
  <2> QED
    BY <2>1 DEF Tracks
<1>2. ASSUME NEW s \in Slots, Start(s) \/ Scrape(s)
      PROVE  Tracks'
  <2>1. UNCHANGED <<handed, pipe, wbuf, job>>
    BY <1>2 DEF Start, Scrape
  <2> QED
    BY <1>1, <2>1
<1>3. ASSUME NEW s \in Slots, Die(s)
      PROVE  Tracks'
  <2>1. Dead(s) /\ pipe' = pipe /\ handed' = handed
    BY <1>3 DEF Die
  <2> QED
    BY <1>a, <1>b, <2>1, PassedDead
<1>4. ASSUME NEW x \in Slots, Alerting(x)
      PROVE  Tracks'
  <2>1. PICK dests \in Seq(Slots), kind \in Kind, parts \in 1 .. 2 :
               Begins(x, dests, kind, parts) /\ To(x, dests, kind)
    BY <1>4, <1>a, Beginning
  <2>2. /\ job[x].dests = <<>> /\ sent' = sent + 1
        /\ \A s \in Slots \ {x} : job'[s] = job[s]
        /\ job'[x].dests = dests /\ job'[x].alert.id = sent + 1
        /\ UNCHANGED <<handed, pipe, wbuf, process_count>>
    <3>1. /\ job[x].dests = <<>> /\ sent' = sent + 1
          /\ \A s \in Slots : job'[s] =
               IF s = x THEN [dests |-> dests, part |-> 1,
                              alert |-> [id |-> sent + 1, kind |-> kind, parts |-> parts]]
               ELSE job[s]
          /\ UNCHANGED <<handed, pipe, wbuf, process_count>>
      BY <2>1 DEF Begins, Idle
    <3>2. job'[x] = [dests |-> dests, part |-> 1,
                     alert |-> [id |-> sent + 1, kind |-> kind, parts |-> parts]]
      BY <3>1
    <3>3. job'[x].dests = dests
      BY <3>2
    <3>4. job'[x].alert = [id |-> sent + 1, kind |-> kind, parts |-> parts]
      BY <3>2
    <3>5. job'[x].alert.id = sent + 1
      BY <3>4
    <3> QED
      BY <3>1, <3>3, <3>5
  <2>3. ASSUME NEW d \in Slots, ~Loose(d)
        PROVE  Once(dests, d)
    <3>1. ASSUME NEW y, dests = <<y>> PROVE Once(dests, d)
      BY <3>1 DEF Once
    <3>2. ASSUME dests = SlotsOf("worker") PROVE Once(dests, d)
      <4> SUFFICES ASSUME NEW i \in 1 .. Len(dests), NEW j \in 1 .. Len(dests),
                          dests[i] = d, dests[j] = d, i # j
                   PROVE  FALSE
        BY DEF Once
      <4>1. i \in DOMAIN dests /\ j \in DOMAIN dests
        BY <2>1, LenProperties
      <4>2. dests[i] = 0 /\ process_count > MaxProcesses
        BY <1>a, <3>2, <4>1, SlotsFound
      <4> QED
        BY <2>3, <4>2 DEF Loose
    <3> QED
      BY <2>1, <3>1, <3>2 DEF To, ToWorker, ToManager
  <2>4. ASSUME NEW s \in Slots, NEW d \in Slots
        PROVE  Passed(s, d)'
    <3>1. UnderWay(s, d)' = UnderWay(s, d)
      BY <2>2 DEF UnderWay, Piped, Waiting
    <3>2. CASE s # x
      BY <1>a, <1>b, <2>2, <3>1, <3>2, PassedSame DEF Tracks
    <3>3. CASE s = x
      <4>1. Track(s, d)' = Track(s, d) /\ (Loose(d)' <=> Loose(d))
        BY <2>2, <3>1 DEF Track, Loose
      <4>2. Good(Track(s, d), <<>>, job[s].alert.id, sent, d, Loose(d))
        BY <2>2, <3>3 DEF Tracks, Passed
      <4>3. Track(s, d) \in Seq(Id) /\ sent \in Nat
        BY <1>a, TrackType
      <4>4. Good(Track(s, d), dests, sent + 1, sent + 1, d, Loose(d))
        BY <2>3, <4>2, <4>3, GoodBegin
      <4>5. Good(Track(s, d)', job'[s].dests, job'[s].alert.id, sent', d, Loose(d)')
        <5>1. Good(Track(s, d), dests, sent + 1, sent + 1, d, Loose(d)')
          BY <4>1, <4>4 DEF Good
        <5> QED
          BY <2>2, <3>3, <4>1, <5>1
      <4> QED
        BY <4>5 DEF Passed
    <3> QED
      BY <3>2, <3>3
  <2> QED
    BY <2>4 DEF Tracks
<1>5. ASSUME NEW s \in Slots, SendPart(s)
      PROVE  Tracks'
  BY <1>5, <1>a, <1>b, PassedSent
<1>6. ASSUME NEW s \in Slots, NEW d \in Slots, WriteHandler(s, d)
      PROVE  Tracks'
  <2>1. /\ wbuf[s][d] # <<>> /\ WriteFirst(s, d, wbuf[s][d])
        /\ UNCHANGED <<handed, job>>
    BY <1>6 DEF WriteHandler
  <2>2. wbuf[s][d] \in Seq(Route(s, d))
    BY <1>a DEF Senders
  <2>3. ASSUME NEW t \in Slots, NEW y \in Slots
        PROVE  Passed(t, y)'
    <3>1. UnderWay(t, y)' = UnderWay(t, y)
      <4>1. UnderWay(t, y)' = IF t = s /\ y = d THEN Piped(s, d) \o LastParts(wbuf[s][d], s)
                              ELSE UnderWay(t, y)
        BY <1>a, <2>1, <2>2, WayWritten
      <4> QED
        BY <4>1 DEF UnderWay, Waiting
    <3> QED
      BY <1>a, <1>b, <2>1, <3>1, PassedSame DEF Tracks
  <2> QED
    BY <2>3 DEF Tracks
<1>7. ASSUME NEW s \in Slots, SendOwn(s)
      PROVE  Tracks'
  <2>1. CASE Dead(s) /\ UNCHANGED <<pipe, handed>>
    BY <1>a, <1>b, <2>1, PassedDead
  <2>2. CASE /\ job[s].dests # <<>> /\ Head(job[s].dests) = s
             /\ UNCHANGED <<pipe, wbuf>>
             /\ \A y \in Slots : handed'[y] =
                  IF y = s THEN Append(handed[s], <<s, <<job[s].alert.id>>>>) ELSE handed[y]
             /\ \A x \in Slots : job'[x] =
                  IF x = s THEN [dests |-> Tail(job[s].dests), part |-> job[s].part,
                                 alert |-> job[s].alert]
                  ELSE job[x]
    BY <1>a, <1>b, <2>2, PassedOwn
  <2> QED
    BY <1>7, <1>a, <2>1, <2>2, OwnSent
<1>8. ASSUME NEW d \in Slots, ReadWhole(d)
      PROVE  Tracks'
  <2>a. PICK p : p = Head(pipe[d])
    OBVIOUS
  <2>1. /\ pipe[d] # <<>> /\ p \in Packet /\ p.alert.parts = 1 /\ p.part \in 1 .. 2
        /\ \A x \in Slots : pipe'[x] = IF x = d THEN Tail(pipe[d]) ELSE pipe[x]
        /\ \/ /\ \A x \in Slots : handed'[x] =
                   IF x = d THEN Append(handed[d], <<p.src, <<p.alert.id>>>>) ELSE handed[x]
              /\ UNCHANGED <<wbuf, job>>
           \/ Dead(d) /\ UNCHANGED handed
    BY <1>8, <1>a, <2>a, WholeRead
  <2>2. CASE Dead(d) /\ UNCHANGED handed
    BY <1>a, <1>b, <2>1, <2>2, PassedDead
  <2>3. CASE /\ \A x \in Slots : handed'[x] =
                   IF x = d THEN Append(handed[d], <<p.src, <<p.alert.id>>>>) ELSE handed[x]
             /\ UNCHANGED <<wbuf, job>>
    <3>a. PICK h : h = <<p.src, <<p.alert.id>>>>
      OBVIOUS
    <3>1. h \in Handing /\ h[1] = p.src /\ LastId(h) = p.alert.id
      <4>1. <<p.alert.id>> \in Seq(1 .. MaxAlerts) /\ <<p.alert.id>> # <<>> /\ p.src \in Slots
        BY <2>1, OneId
      <4>2. Len(<<p.alert.id>>) = 1 /\ <<p.alert.id>>[1] = p.alert.id
        OBVIOUS
      <4> QED
        BY <3>a, <4>1, <4>2 DEF Handing, LastId
    <3>2. p.part = p.alert.parts
      <4>1. p.part <= p.alert.parts
        BY <1>a, <2>1, <2>3, <2>a, WayRead
      <4> QED
        BY <2>1, <4>1
    <3> QED
      BY <1>a, <1>b, <2>1, <2>3, <2>a, <3>1, <3>2, <3>a, PassedRead
  <2> QED
    BY <2>1, <2>2, <2>3
<1>9. ASSUME NEW d \in Slots, ReadPart(d)
      PROVE  Tracks'
  <2>a. PICK p : p = Head(pipe[d])
    OBVIOUS
  <2>b. PICK old : old = rbuf[d][p.src]
    OBVIOUS
  <2>1. /\ pipe[d] # <<>> /\ p \in Packet /\ p.alert.parts = 2
        /\ \A x \in Slots : pipe'[x] = IF x = d THEN Tail(pipe[d]) ELSE pipe[x]
        /\ \/ KeepsPart(d, p, old)
           \/ HandsParts(d, p, old)
           \/ p.part = 2 /\ Dead(d) /\ UNCHANGED handed
    BY <1>9, <1>a, <2>a, <2>b, PartRead
  <2>2. CASE Dead(d) /\ UNCHANGED handed
    BY <1>a, <1>b, <2>1, <2>2, PassedDead
  <2>3. CASE KeepsPart(d, p, old)
    <3>1. p.part = 1 /\ UNCHANGED <<wbuf, job, handed>>
      BY <2>3 DEF KeepsPart
    <3>2. ASSUME NEW s \in Slots, NEW y \in Slots
          PROVE  Passed(s, y)'
      <4>1. /\ pipe[d] # <<>> /\ wbuf' = wbuf /\ p.part # p.alert.parts
            /\ \A x \in Slots : pipe'[x] = IF x = d THEN Tail(pipe[d]) ELSE pipe[x]
        BY <2>1, <3>1
      <4>2. UnderWay(s, y)' = UnderWay(s, y)
        BY <1>a, <2>a, <4>1, WayPart
      <4> QED
        BY <1>a, <1>b, <3>1, <4>2, PassedSame DEF Tracks
    <3> QED
      BY <3>2 DEF Tracks
  <2>4. CASE HandsParts(d, p, old)
    <3>a. PICK h : h = <<p.src, Append(old.ids, p.alert.id)>>
      OBVIOUS
    <3>1. /\ p.part = 2 /\ UNCHANGED <<wbuf, job>>
          /\ \A x \in Slots : handed'[x] = IF x = d THEN Append(handed[d], h) ELSE handed[x]
      BY <2>4, <3>a DEF HandsParts
    <3>2. h \in Handing /\ h[1] = p.src /\ LastId(h) = p.alert.id
      <4>a. PICK ids, all, id : /\ ids = old.ids /\ id = p.alert.id /\ all = Append(ids, id)
        OBVIOUS
      <4>1. p.src \in Slots /\ id \in 1 .. MaxAlerts
        BY <2>1, <4>a, OneId
      <4>2. ids \in Seq(1 .. MaxAlerts)
        BY <1>a, <2>b, <4>1, <4>a DEF Types, Buf
      <4>3. all \in Seq(1 .. MaxAlerts) /\ all # <<>> /\ all[Len(all)] = id
        BY <4>1, <4>2, <4>a, AppendProperties
      <4> QED
        BY <3>a, <4>1, <4>3, <4>a DEF Handing, LastId
    <3> QED
      BY <1>a, <1>b, <2>1, <2>a, <3>1, <3>2, PassedRead
  <2> QED
    BY <2>1, <2>2, <2>3, <2>4
<1>10. ASSUME NEW d \in Slots, ReadWeird(d)
       PROVE  Tracks'
  <2>a. PICK p : p = Head(pipe[d])
    OBVIOUS
  <2>1. /\ \A x \in Slots : pipe'[x] = IF x = d THEN <<>> ELSE pipe[x]
        /\ UNCHANGED <<wbuf, job, handed>>
    BY <1>10, <1>a, <2>a, WeirdRead
  <2> QED
    BY <1>a, <1>b, <2>1, PassedWeird
<1>11. CASE UNCHANGED vars
  <2>1. UNCHANGED <<handed, pipe, wbuf, job>>
    BY <1>11 DEF vars
  <2> QED
    BY <1>1, <2>1
<1> QED
  BY <1>2, <1>3, <1>4, <1>5, <1>6, <1>7, <1>8, <1>9, <1>10, <1>11
     DEF Next, Writing, Reading

LEMMA TracksInit == Init => Tracks
<1> SUFFICES ASSUME Init, NEW s \in Slots, NEW d \in Slots PROVE Passed(s, d)
  BY DEF Tracks
<1>1. handed[d] = <<>> /\ job[s] = NoJob /\ sent = 0
  BY DEF Init
<1>2. pipe[d] = <<>>
  BY DEF Init, Activated
<1>3. wbuf[s][d] = <<>>
  <2>1. wbuf[s] = FreshW
    BY DEF Init
  <2> QED
    BY <2>1 DEF FreshW
<1>4. Track(s, d) = <<>>
  <2>1. Piped(s, d) = <<>> /\ Waiting(s, d) = <<>> /\ Got(handed[d], s) = <<>>
    BY <1>1, <1>2, <1>3, LastEmpty, GotEmpty DEF Piped, Waiting
  <2>2. <<>> \o <<>> = <<>>
    OBVIOUS
  <2> QED
    BY <2>1, <2>2 DEF Track, UnderWay
<1>5. Below(<<>>, 1) /\ Strict(<<>>) /\ Once(<<>>, d) /\ ~Among(<<>>, d)
  BY DEF Below, Strict, Once, Among
<1>6. job[s].dests = <<>> /\ sent + 1 = 1
  BY <1>1, NoJobPart
<1> QED
  BY <1>4, <1>5, <1>6 DEF Passed, Good

\* The alerts of a sender are handed over in the order of their numbers.
LEMMA HandedInOrder ==
  ASSUME Types, Tracks, NEW d \in Slots, ~Loose(d), NEW s \in Slots
  PROVE  Strict(Got(handed[d], s))
<1>a. PICK got, way : got = Got(handed[d], s) /\ way = UnderWay(s, d)
  OBVIOUS
<1>1. got \in Seq(Id) /\ way \in Seq(Id) /\ <<>> \in Seq(Id)
  BY <1>a, TrackType, WayTypes
<1>2. Strict(got \o way)
  BY <1>a DEF Tracks, Passed, Good, Track
<1>3. (got \o way) \o <<>> = got \o way /\ got \o <<>> = got
  <2>1. got \o way \in Seq(Id)
    BY <1>1, ConcatProperties
  <2> QED
    BY <1>1, <2>1, ConcatEmptySeq
<1>4. Strict((got \o way) \o <<>>) => Strict(got \o <<>>)
  BY <1>1, BelowDrop
<1> QED
  BY <1>2, <1>3, <1>4, <1>a

LEMMA HandedOnceOnly ==
  ASSUME Types, Tracks, NEW d \in Slots, ~Loose(d),
         NEW i \in DOMAIN handed[d], NEW j \in DOMAIN handed[d], handed[d][i] = handed[d][j]
  PROVE  i = j
<1>a. PICK hs : hs = handed[d]
  OBVIOUS
<1>b. PICK s : s = hs[i][1]
  OBVIOUS
<1>c. PICK ids, I : ids = GotIds(hs) /\ I = GotAt(hs, s)
  OBVIOUS
<1>d. PICK chosen : chosen = At(ids, I)
  OBVIOUS
<1>1. /\ hs \in Seq(Handing) /\ DOMAIN hs = 1 .. Len(hs) /\ ids \in Seq(Id)
      /\ Len(ids) = Len(hs) /\ hs[i] = hs[j] /\ i \in DOMAIN hs /\ j \in DOMAIN hs
  <2>1. hs \in Seq(Handing)
    BY <1>a DEF Types
  <2> QED
    BY <1>a, <1>c, <2>1, GotType, LenProperties
<1>2. s \in Slots /\ chosen \in Seq(Id)
  <2>1. hs[i] \in Handing
    BY <1>1, ElementOfSeq
  <2> QED
    BY <1>1, <1>b, <1>d, <2>1, LastIdType, AtType
<1>3. Strict(chosen)
  BY <1>2, <1>a, <1>c, <1>d, HandedInOrder DEF Got
<1>4. PICK h : Spells(h, chosen, ids, I, Len(ids))
  BY <1>1, <1>d, AtSpells
<1>5. i \in I /\ j \in I /\ i \in 1 .. Len(ids) /\ j \in 1 .. Len(ids)
  BY <1>1, <1>b, <1>c DEF GotAt
<1>6. PICK a, b \in 1 .. Len(chosen) : h[a] = i /\ h[b] = j
  BY <1>4, <1>5 DEF Spells
<1>7. chosen[a] = ids[i] /\ chosen[b] = ids[j]
  BY <1>4, <1>6 DEF Spells
<1>8. ids[i] = ids[j]
  BY <1>1, <1>c DEF GotIds
<1>9. a \in 1 .. Len(chosen) /\ b \in 1 .. Len(chosen) /\ Len(chosen) \in Nat
  BY <1>2, <1>6, LenProperties
<1>10. chosen[a] \in Nat
  BY <1>2, <1>9, IpcAssumption, ElementOfSeq DEF Id
<1>11. ~(a < b) /\ ~(b < a)
  <2>1. a < b => chosen[a] < chosen[b]
    BY <1>3, <1>9 DEF Strict
  <2>2. b < a => chosen[b] < chosen[a]
    BY <1>3, <1>9 DEF Strict
  <2> QED
    BY <1>7, <1>8, <1>10, <2>1, <2>2
<1>12. a = b
  BY <1>9, <1>11
<1> QED
  BY <1>6, <1>12

(* No handler is called twice with the same alert, in a slot other than 0  *)
(* or while process_count does not exceed the table: whatever is lost with *)
(* a process, waits for a write event, or is put together of parts, an     *)
(* alert that ipc_alert_all_processes sends goes to a slot once, and leaves *)
(* the pipe with the call of the handler.                                  *)
THEOREM HandedOnce == Spec => []OnceOrToSlotZero
<1>1. Init => Order /\ Tracks
  BY OrderInit, TracksInit
<1>2. (Order /\ Tracks) /\ [Next]_vars => (Order /\ Tracks)'
  BY OrderStep, TracksStep
<1>3. Order /\ Tracks => OnceOrToSlotZero
  <2> SUFFICES ASSUME Order, Tracks PROVE OnceOrToSlotZero
    OBVIOUS
  <2>1. Types /\ Bounded
    BY DEF Order
  <2>2. TypeOK
    <3>1. ASSUME NEW d \in Slots, NEW s \in Slots, rbuf[d][s] # NoBuf
          PROVE  Len(rbuf[d][s].ids) < rbuf[d][s].parts
      <4>1. rbuf[d][s].parts = 2 /\ Len(rbuf[d][s].ids) = 1
        BY <2>1, <3>1, Zenon DEF Bounded
      <4> QED
        BY <4>1
    <3>2. \A d \in Slots : job[d].dests \in Seq(Slots) /\ job[d].alert \in Alert
      BY <2>1 DEF Types, Job
    <3> QED
      BY <2>1, <3>1, <3>2 DEF TypeOK, Types, Bounded
  <2>3. ASSUME NEW d \in Slots, NEW i \in DOMAIN handed[d], NEW j \in DOMAIN handed[d],
               i # j, handed[d][i] = handed[d][j]
        PROVE  d = 0 /\ process_count > MaxProcesses
    BY <2>1, <2>3, HandedOnceOnly DEF Loose
  <2> QED
    BY <2>2, <2>3 DEF OnceOrToSlotZero
<1> QED
  BY <1>1, <1>2, <1>3, PTL DEF Spec

-----------------------------------------------------------------------------
(* The refinement of AlertQueue: what its variables are here, and what has *)
(* to be shown for each of its actions.                                    *)

Wholes(hs) == [i \in DOMAIN hs |-> Whole(hs[i])]
Ways == [w \in Slots \X Slots |-> OnTheWay(w[1], w[2])]
Calls == [d \in Slots |-> Wholes(handed[d])]
Heirs == {d \in Slots : pid[d] \notin {0, d + 1}}

LEMMA WayAt ==
  /\ \A s, d \in Slots : <<s, d>> \in Slots \X Slots /\ Ways[<<s, d>>] = OnTheWay(s, d)
  /\ \A s, d \in Slots : Ways'[<<s, d>>] = OnTheWay(s, d)'
  /\ \A w \in Slots \X Slots : \E s, d \in Slots : w = <<s, d>> /\ w[1] = s /\ w[2] = d
BY DEF Ways

LEMMA WaysChanged ==
  ASSUME NEW x \in Slots, NEW y \in Slots, NEW q,
         \A s, d \in Slots :
           OnTheWay(s, d)' = IF s = x /\ d = y THEN q ELSE OnTheWay(s, d)
  PROVE  Ways' = [Ways EXCEPT ![<<x, y>>] = q]
<1>1. DOMAIN Ways = Slots \X Slots /\ DOMAIN Ways' = Slots \X Slots
  BY DEF Ways
<1>2. ASSUME NEW w \in Slots \X Slots
      PROVE  Ways'[w] = IF w = <<x, y>> THEN q ELSE Ways[w]
  <2>1. PICK s, d \in Slots : w = <<s, d>>
    OBVIOUS
  <2>2. w = <<x, y>> <=> s = x /\ d = y
    BY <2>1
  <2> QED
    BY <2>1, <2>2, WayAt
<1>3. Ways' = [w \in Slots \X Slots |-> IF w = <<x, y>> THEN q ELSE Ways[w]]
  <2>1. Ways' = [w \in Slots \X Slots |-> Ways'[w]]
    BY DEF Ways
  <2> QED
    BY <1>2, <2>1
<1>4. [Ways EXCEPT ![<<x, y>>] = q]
        = [w \in Slots \X Slots |-> IF w = <<x, y>> THEN q ELSE Ways[w]]
  BY <1>1
<1> QED
  BY <1>3, <1>4

LEMMA WaysSame ==
  ASSUME \A s, d \in Slots : OnTheWay(s, d)' = OnTheWay(s, d)
  PROVE  Ways' = Ways
BY DEF Ways

LEMMA QueueSame ==
  ASSUME \A s, d \in Slots : OnTheWay(s, d)' = OnTheWay(s, d),
         up' = up, Calls' = Calls, Heirs' = Heirs
  PROVE  UNCHANGED Queue!vars
BY WaysSame DEF Queue!vars, Ways, Calls, Wholes, Heirs

LEMMA QueueSend ==
  ASSUME NEW x \in Slots, NEW y \in Slots, NEW id \in Id, up[x], up' = up,
         Calls' = Calls, Heirs' = Heirs,
         \A s, d \in Slots :
           OnTheWay(s, d)' = IF s = x /\ d = y THEN Append(OnTheWay(x, y), id)
                             ELSE OnTheWay(s, d)
  PROVE  Queue!Next
<1>1. Ways' = [Ways EXCEPT ![<<x, y>>] = Append(Ways[<<x, y>>], id)]
  <2>1. Ways' = [Ways EXCEPT ![<<x, y>>] = Append(OnTheWay(x, y), id)]
    BY WaysChanged
  <2> QED
    BY <2>1, WayAt
<1>2. Queue!Send(<<x, y>>, id)
  BY <1>1 DEF Queue!Send, Ways, Calls, Wholes, Heirs
<1> QED
  BY <1>2, WayAt DEF Queue!Next, Queue!Ways, Id

LEMMA CallsChanged ==
  ASSUME Types, NEW y \in Slots, NEW h \in Handing,
         \A d \in Slots : handed'[d] = IF d = y THEN Append(handed[y], h) ELSE handed[d]
  PROVE  Calls' = [Calls EXCEPT ![y] = Append(Calls[y], Whole(h))]
<1>a. PICK hs, all, len : hs = handed[y] /\ all = Append(hs, h) /\ len = Len(hs)
  OBVIOUS
<1>1. /\ hs \in Seq(Handing) /\ len \in Nat /\ DOMAIN hs = 1 .. len
      /\ all \in Seq(Handing) /\ DOMAIN all = 1 .. len + 1 /\ all[len + 1] = h
      /\ \A i \in 1 .. len : all[i] = hs[i]
  <2>1. hs \in Seq(Handing)
    BY <1>a DEF Types
  <2> QED
    BY <1>a, <2>1, AppendProperties, LenProperties
<1>2. Wholes(all) = Append(Wholes(hs), Whole(h))
  <2>1. /\ Wholes(hs) = [i \in 1 .. len |-> Whole(hs[i])]
        /\ Wholes(all) = [i \in 1 .. len + 1 |-> Whole(all[i])]
    BY <1>1 DEF Wholes
  <2> DEFINE W(i) == Whole(hs[i])
  <2>2. /\ Len([i \in 1 .. len |-> W(i)]) = len
        /\ [i \in 1 .. len |-> W(i)] \in Seq({W(i) : i \in 1 .. len})
    BY <1>1, SeqDef
  <2>3. Append([i \in 1 .. len |-> W(i)], Whole(h))
          = [i \in 1 .. len + 1 |-> IF i = len + 1 THEN Whole(h) ELSE W(i)]
    <3> HIDE DEF W
    <3> QED
      BY <1>1, <2>2
  <2>4. [i \in 1 .. len + 1 |-> Whole(all[i])]
          = [i \in 1 .. len + 1 |-> IF i = len + 1 THEN Whole(h) ELSE W(i)]
    <3>1. \A i \in 1 .. len + 1 : i # len + 1 => i \in 1 .. len
      BY <1>1
    <3>2. \A i \in 1 .. len + 1 : Whole(all[i]) = IF i = len + 1 THEN Whole(h) ELSE W(i)
      BY <1>1, <3>1
    <3> HIDE DEF W
    <3> QED
      BY <3>2
  <2> QED
    BY <2>1, <2>3, <2>4
<1>3. \A d \in Slots : Calls'[d] = IF d = y THEN Append(Calls[y], Whole(h)) ELSE Calls[d]
  <2>1. \A d \in Slots : Calls'[d] = Wholes(handed'[d]) /\ Calls[d] = Wholes(handed[d])
    BY DEF Calls, Wholes
  <2> QED
    BY <1>2, <1>a, <2>1
<1>4. Calls' = [d \in Slots |-> Calls'[d]] /\ Calls = [d \in Slots |-> Calls[d]]
  BY DEF Calls
<1>5. Calls' = [d \in Slots |-> IF d = y THEN Append(Calls[y], Whole(h)) ELSE Calls[d]]
  BY <1>3, <1>4
<1> QED
  BY <1>4, <1>5

LEMMA HeadOff ==
  ASSUME NEW id \in Id, NEW rest \in Seq(Id), NEW all, all = <<id>> \o rest
  PROVE  all # <<>> /\ Head(all) = id /\ Tail(all) = rest
<1>1. all \in Seq(Id) /\ Len(all) = Len(rest) + 1 /\ all[1] = id
  BY ConcatProperties
<1>2. all # <<>>
  BY <1>1, LenProperties
<1>3. Head(all) = id
  BY <1>1, <1>2, HeadTailProperties
<1>4. Tail(all) = rest
  BY <1>1, <1>2, HeadTailProperties, SeqEqual, ConcatProperties
<1> QED
  BY <1>2, <1>3, <1>4

\* x's first alert to y is handed over, whole or mixed with another.
LEMMA QueueHand ==
  ASSUME Types, Types', NEW x \in Slots, NEW y \in Slots, up[y], up' = up, Heirs' = Heirs,
         NEW id \in Id, NEW rest \in Seq(Id), NEW a, a = id \/ (a = Mixed /\ y \in Heirs),
         OnTheWay(x, y) = <<id>> \o rest,
         \A s, d \in Slots :
           OnTheWay(s, d)' = IF s = x /\ d = y THEN rest ELSE OnTheWay(s, d),
         Calls' = [Calls EXCEPT ![y] = Append(Calls[y], <<x, a>>)]
  PROVE  Queue!Next
<1>a. PICK all : all = <<id>> \o rest
  OBVIOUS
<1>1. all # <<>> /\ Head(all) = id /\ Tail(all) = rest
  BY <1>a, HeadOff
<1>2. Ways[<<x, y>>] = all /\ Ways' = [Ways EXCEPT ![<<x, y>>] = Tail(Ways[<<x, y>>])]
  <2>1. Ways[<<x, y>>] = all
    BY <1>a, WayAt
  <2>2. Ways' = [Ways EXCEPT ![<<x, y>>] = rest]
    BY WaysChanged
  <2> QED
    BY <1>1, <2>1, <2>2
<1>3. a \in {Head(Ways[<<x, y>>])} \cup IF y \in Heirs THEN {Mixed} ELSE {}
  BY <1>1, <1>2
<1>4. Queue!Hand(<<x, y>>)
  BY <1>1, <1>2, <1>3 DEF Queue!Hand, Ways, Calls, Wholes, Heirs
<1> QED
  BY <1>4, WayAt DEF Queue!Next, Queue!Ways

LEMMA QueueHandOwn ==
  ASSUME NEW x \in Slots, NEW id \in Id, up[x], up' = up, Heirs' = Heirs,
         \A s, d \in Slots : OnTheWay(s, d)' = OnTheWay(s, d),
         Calls' = [Calls EXCEPT ![x] = Append(Calls[x], <<x, id>>)]
  PROVE  Queue!Next
<1>1. Ways' = Ways
  BY WaysSame
<1>2. Queue!HandOwn(x, id)
  BY <1>1 DEF Queue!HandOwn, Ways, Calls, Wholes, Heirs
<1> QED
  BY <1>2 DEF Queue!Next, Id

LEMMA QueueStart ==
  ASSUME NEW x \in Slots, ~up[x], up' = [up EXCEPT ![x] = TRUE], Calls' = Calls,
         Heirs' \in {Heirs, Heirs \cup {x}},
         \A s, d \in Slots : OnTheWay(s, d)' = OnTheWay(s, d)
  PROVE  Queue!Next
<1>1. Ways' = Ways
  BY WaysSame
<1>2. Queue!Start(x)
  BY <1>1 DEF Queue!Start, Ways, Calls, Wholes, Heirs
<1> QED
  BY <1>2 DEF Queue!Next

LEMMA QueueDie ==
  ASSUME NEW x \in Slots, up[x], up' = [up EXCEPT ![x] = FALSE], Calls' = Calls,
         Heirs' = Heirs, NEW fatal \in (Slots \X Slots) \cup {<<>>},
         \A s, d \in Slots :
           IF s = x THEN \E n \in 0 .. Len(OnTheWay(s, d)) :
                           OnTheWay(s, d)' = SubSeq(OnTheWay(s, d), 1, n)
           ELSE IF <<s, d>> = fatal /\ d = x /\ OnTheWay(s, d) # <<>>
           THEN OnTheWay(s, d)' = Tail(OnTheWay(s, d))
           ELSE OnTheWay(s, d)' = OnTheWay(s, d)
  PROVE  Queue!Next
<1>1. \A w \in Slots \X Slots :
        IF w[1] = x THEN \E n \in 0 .. Len(Ways[w]) : Ways'[w] = SubSeq(Ways[w], 1, n)
        ELSE IF w = fatal /\ w[2] = x /\ Ways[w] # <<>>
        THEN Ways'[w] = Tail(Ways[w])
        ELSE Ways'[w] = Ways[w]
  <2> TAKE w \in Slots \X Slots
  <2>1. PICK s, d \in Slots : w = <<s, d>> /\ w[1] = s /\ w[2] = d
    BY WayAt
  <2>2. Ways[w] = OnTheWay(s, d) /\ Ways'[w] = OnTheWay(s, d)'
    BY <2>1, WayAt
  <2> QED
    BY <2>1, <2>2
<1>2. \E f \in (Slots \X Slots) \cup {<<>>} : \A w \in Slots \X Slots :
        IF w[1] = x THEN \E n \in 0 .. Len(Ways[w]) : Ways'[w] = SubSeq(Ways[w], 1, n)
        ELSE IF w = f /\ w[2] = x /\ Ways[w] # <<>>
        THEN Ways'[w] = Tail(Ways[w])
        ELSE Ways'[w] = Ways[w]
  BY <1>1
<1>3. Queue!Die(x)
  BY <1>2 DEF Queue!Die, Queue!Ways, Ways, Calls, Wholes, Heirs
<1> QED
  BY <1>3 DEF Queue!Next

LEMMA QueueClear ==
  ASSUME NEW x \in Slots, up[x], x \in Heirs, up' = up, Calls' = Calls, Heirs' = Heirs,
         \A s, d \in Slots :
           IF d = x THEN \E n \in 0 .. Len(OnTheWay(s, d)) :
                           OnTheWay(s, d)' =
                             SubSeq(OnTheWay(s, d), n + 1, Len(OnTheWay(s, d)))
           ELSE OnTheWay(s, d)' = OnTheWay(s, d)
  PROVE  Queue!Next
<1>1. \A w \in Slots \X Slots :
        IF w[2] = x
        THEN \E n \in 0 .. Len(Ways[w]) : Ways'[w] = SubSeq(Ways[w], n + 1, Len(Ways[w]))
        ELSE Ways'[w] = Ways[w]
  <2> TAKE w \in Slots \X Slots
  <2>1. PICK s, d \in Slots : w = <<s, d>> /\ w[1] = s /\ w[2] = d
    BY WayAt
  <2>2. Ways[w] = OnTheWay(s, d) /\ Ways'[w] = OnTheWay(s, d)'
    BY <2>1, WayAt
  <2> QED
    BY <2>1, <2>2
<1>2. Queue!Clear(x)
  BY <1>1 DEF Queue!Clear, Queue!Ways, Ways, Calls, Wholes, Heirs
<1> QED
  BY <1>2 DEF Queue!Next

-----------------------------------------------------------------------------
(* What there is on the way from s to d.                                   *)

LEMMA WayType ==
  ASSUME Types, NEW s \in Slots, NEW d \in Slots
  PROVE  /\ Unfinished(s, d) \in Seq(Id) /\ OnTheWay(s, d) \in Seq(Id)
         /\ OnTheWay(s, d) = UnderWay(s, d) \o Unfinished(s, d)
<1>1. Unfinished(s, d) \in Seq(Id)
  BY TrackType DEF Unfinished
<1>2. OnTheWay(s, d) = UnderWay(s, d) \o Unfinished(s, d)
  BY DEF OnTheWay, UnderWay, Piped, Waiting
<1>3. UnderWay(s, d) \in Seq(Id)
  BY WayTypes
<1> QED
  BY <1>1, <1>2, <1>3, ConcatProperties

LEMMA WayNext ==
  ASSUME NEW s \in Slots, NEW d \in Slots
  PROVE  OnTheWay(s, d)' = UnderWay(s, d)' \o Unfinished(s, d)'
BY DEF OnTheWay, UnderWay, Piped, Waiting

\* what is unfinished is the alert in the middle of which s is
LEMMA UnfinishedIs ==
  ASSUME Types, NEW s \in Slots, NEW d \in Slots
  PROVE  Unfinished(s, d) = IF Midway(s, d) THEN <<job[s].alert.id>> ELSE <<>>
<1>1. job[s].part \in 1 .. 2
  BY DEF Types, Job
<1>2. job[s].part > 1 <=> job[s].part = 2
  BY <1>1
<1> QED
  BY <1>2 DEF Unfinished, Midway, Halfway

LEMMA UnfinishedNext ==
  ASSUME Types', NEW s \in Slots, NEW d \in Slots
  PROVE  Unfinished(s, d)' = IF Midway(s, d)' THEN <<job'[s].alert.id>> ELSE <<>>
<1>1. job'[s].part \in 1 .. 2
  BY DEF Types, Job
<1>2. job'[s].part > 1 <=> job'[s].part = 2
  BY <1>1
<1> QED
  BY <1>2 DEF Unfinished, Midway, Halfway

LEMMA PrefixOf ==
  ASSUME NEW a \in Seq(Id), NEW b \in Seq(Id)
  PROVE  /\ Len(a) \in 0 .. Len(a \o b)
         /\ SubSeq(a \o b, 1, Len(a)) = a
         /\ SubSeq(a \o b, Len(a) + 1, Len(a \o b)) = b
<1>1. Len(a) \in Nat /\ Len(b) \in Nat /\ Len(a \o b) = Len(a) + Len(b)
  BY LenProperties, ConcatProperties
<1>2. SubSeq(a \o b, 1, Len(a)) = a
  BY SubSeqOfConcat1, SubSeqFull, <1>1
<1>3. SubSeq(a \o b, Len(a) + 1, Len(a \o b)) = b
  BY SubSeqOfConcat2, SubSeqFull, <1>1
<1> QED
  BY <1>1, <1>2, <1>3

\* What is there, is in Order: a process that is there has a number.
LEMMA HeirOrFirst ==
  ASSUME Order, NEW d \in Slots, up[d]
  PROVE  First(d) \/ d \in Heirs
<1>1. pid[d] # 0
  BY DEF Order, Numbered
<1> QED
  BY <1>1 DEF First, Heirs

LEMMA QueueDead ==
  ASSUME Order, Types', NEW x \in Slots, up[x], Dead(x), UNCHANGED <<handed, pid>>,
         \/ pipe' = pipe
         \/ /\ pipe[x] # <<>> /\ Head(pipe[x]).part = Head(pipe[x]).alert.parts
            /\ \A y \in Slots : pipe'[y] = IF y = x THEN Tail(pipe[x]) ELSE pipe[y]
  PROVE  Queue!Next
<1>a. Types /\ Senders
  BY DEF Order
<1>1. up' = [up EXCEPT ![x] = FALSE] /\ Calls' = Calls /\ Heirs' = Heirs
  BY DEF Dead, Calls, Wholes, Heirs
<1>2. ASSUME NEW d \in Slots, UnderWay(x, d)' = Piped(x, d)
      PROVE  \E n \in 0 .. Len(OnTheWay(x, d)) :
               OnTheWay(x, d)' = SubSeq(OnTheWay(x, d), 1, n)
  <2>a. PICK piped, later : piped = Piped(x, d) /\ later = Waiting(x, d) \o Unfinished(x, d)
    OBVIOUS
  <2>1. piped \in Seq(Id) /\ later \in Seq(Id) /\ OnTheWay(x, d) = piped \o later
    <3>1. Piped(x, d) \in Seq(Id) /\ Waiting(x, d) \in Seq(Id) /\ Unfinished(x, d) \in Seq(Id)
      BY <1>a, WayTypes, WayType
    <3>2. (Piped(x, d) \o Waiting(x, d)) \o Unfinished(x, d)
            = Piped(x, d) \o (Waiting(x, d) \o Unfinished(x, d))
      BY <3>1, ConcatAssociative
    <3>3. OnTheWay(x, d) = (Piped(x, d) \o Waiting(x, d)) \o Unfinished(x, d)
      BY <1>a, WayType DEF UnderWay
    <3> QED
      BY <2>a, <3>1, <3>2, <3>3, ConcatProperties
  <2>2. Unfinished(x, d)' = <<>>
    <3>1. job'[x] = NoJob
      BY <1>a, Died
    <3>2. ~Midway(x, d)'
      BY <3>1, NoJobPart DEF Midway, Halfway
    <3> QED
      BY <3>2, UnfinishedNext
  <2>3. OnTheWay(x, d)' = piped
    BY <1>2, <2>1, <2>2, <2>a, WayNext, ConcatEmptySeq
  <2>4. Len(piped) \in 0 .. Len(piped \o later) /\ SubSeq(piped \o later, 1, Len(piped)) = piped
    BY <2>1, PrefixOf
  <2> QED
    BY <2>1, <2>3, <2>4
<1>3. ASSUME NEW s \in Slots, s # x, NEW d \in Slots
      PROVE  Unfinished(s, d)' = Unfinished(s, d)
  <2>1. job'[s] = job[s]
    BY <1>3, <1>a, Died
  <2> QED
    BY <2>1 DEF Unfinished
<1>4. CASE pipe' = pipe
  <2>1. \A s, d \in Slots : UnderWay(s, d)' = IF s = x THEN Piped(x, d) ELSE UnderWay(s, d)
    BY <1>4, <1>a, WayDead
  <2>a. PICK fatal : fatal = <<>>
    OBVIOUS
  <2>b. fatal \in (Slots \X Slots) \cup {<<>>}
    BY <2>a
  <2>2. ASSUME NEW s \in Slots, NEW d \in Slots
        PROVE  IF s = x THEN \E n \in 0 .. Len(OnTheWay(s, d)) :
                               OnTheWay(s, d)' = SubSeq(OnTheWay(s, d), 1, n)
               ELSE IF <<s, d>> = fatal /\ d = x /\ OnTheWay(s, d) # <<>>
               THEN OnTheWay(s, d)' = Tail(OnTheWay(s, d))
               ELSE OnTheWay(s, d)' = OnTheWay(s, d)
    <3>1. CASE s = x
      BY <1>2, <2>1, <3>1
    <3>2. CASE s # x
      <4>1. OnTheWay(s, d)' = OnTheWay(s, d)
        BY <1>3, <1>a, <2>1, <3>2, WayNext, WayType
      <4> QED
        BY <2>a, <3>2, <4>1
    <3> QED
      BY <3>1, <3>2
  <2> QED
    BY <1>1, <2>2, <2>b, QueueDie
<1>5. CASE /\ pipe[x] # <<>> /\ Head(pipe[x]).part = Head(pipe[x]).alert.parts
           /\ \A y \in Slots : pipe'[y] = IF y = x THEN Tail(pipe[x]) ELSE pipe[y]
  <2>a. PICK p : p = Head(pipe[x])
    OBVIOUS
  <2>b. PICK fatal : fatal = <<p.src, x>>
    OBVIOUS
  <2>1. /\ p \in Packet /\ p.src \in Slots /\ p.src # x /\ p.alert.id \in Id
        /\ \A s : LastOf(p, s) <=> s = p.src
    <3>1. p \in Packet /\ p.src # x
      BY <1>5, <1>a, <2>a, WayRead
    <3> QED
      BY <1>5, <2>a, <3>1, OneId DEF LastOf, Id
  <2>2. ASSUME NEW s \in Slots, NEW d \in Slots
        PROVE  /\ d = x /\ s # x /\ LastOf(p, s) =>
                    UnderWay(s, d) = <<p.alert.id>> \o UnderWay(s, d)'
               /\ (d # x /\ s # x) \/ (s # x /\ ~LastOf(p, s)) =>
                    UnderWay(s, d)' = UnderWay(s, d)
               /\ s = x => UnderWay(s, d)' = Piped(s, d)
    BY <1>5, <1>a, <2>a, WayRead
  <2>3. ASSUME NEW s \in Slots, NEW d \in Slots
        PROVE  IF s = x THEN \E n \in 0 .. Len(OnTheWay(s, d)) :
                               OnTheWay(s, d)' = SubSeq(OnTheWay(s, d), 1, n)
               ELSE IF <<s, d>> = fatal /\ d = x /\ OnTheWay(s, d) # <<>>
               THEN OnTheWay(s, d)' = Tail(OnTheWay(s, d))
               ELSE OnTheWay(s, d)' = OnTheWay(s, d)
    <3>1. CASE s = x
      BY <1>2, <2>2, <3>1
    <3>2. CASE s = p.src /\ d = x
      <4>a. PICK id, rest, unf, later :
              /\ id = p.alert.id /\ rest = UnderWay(s, d)' /\ unf = Unfinished(s, d)
              /\ later = rest \o unf
        OBVIOUS
      <4>1. rest \in Seq(Id) /\ unf \in Seq(Id) /\ id \in Id
        BY <1>a, <2>1, <4>a, WayTypesNext, WayType
      <4>2. UnderWay(s, d) = <<id>> \o rest
        BY <2>1, <2>2, <3>2, <4>a
      <4>3. OnTheWay(s, d) = <<id>> \o later
        <5>1. (<<id>> \o rest) \o unf = <<id>> \o (rest \o unf)
          BY <4>1, ConcatAssociative
        <5> QED
          BY <1>a, <4>2, <4>a, <5>1, WayType
      <4>4. OnTheWay(s, d)' = later
        BY <1>3, <2>1, <3>2, <4>a, WayNext
      <4>5. later \in Seq(Id)
        BY <4>1, <4>a, ConcatProperties
      <4>6. OnTheWay(s, d) # <<>> /\ Tail(OnTheWay(s, d)) = later
        BY <4>1, <4>3, <4>5, HeadOff
      <4> QED
        BY <2>1, <2>b, <3>2, <4>4, <4>6
    <3>3. CASE s # x /\ ~(s = p.src /\ d = x)
      <4>1. (d # x /\ s # x) \/ (s # x /\ ~LastOf(p, s))
        BY <2>1, <3>3
      <4>2. UnderWay(s, d)' = UnderWay(s, d)
        BY <2>2, <4>1
      <4>3. OnTheWay(s, d)' = OnTheWay(s, d)
        BY <1>3, <1>a, <3>3, <4>2, WayNext, WayType
      <4> QED
        BY <2>b, <3>3, <4>3
    <3> QED
      BY <3>1, <3>2, <3>3
  <2>4. fatal \in (Slots \X Slots) \cup {<<>>}
    BY <2>1, <2>b
  <2> QED
    BY <1>1, <2>3, <2>4, QueueDie
<1> QED
  BY <1>4, <1>5

\* The first process of a slot, or the first that has been given it, finds
\* every part where it belongs.
LEMMA FirstReads ==
  ASSUME Order, Streams, NEW d \in Slots, First(d), pipe[d] # <<>>,
         NEW p, p = Head(pipe[d]), p.alert.parts = 2
  PROVE  /\ Joined(rbuf[d][p.src], p) # NoBuf
         /\ p.part = 2 => rbuf[d][p.src].ids = <<p.alert.id>>
<1>a. PICK old : old = rbuf[d][p.src]
  OBVIOUS
<1>1. p \in Packet /\ p.src \in Slots /\ pipe[d] \in Seq(Packet)
  <2>1. pipe[d] \in Seq(Packet)
    BY DEF Order, Types
  <2>2. p \in Packet
    BY <2>1, HeadTailProperties
  <2> QED
    BY <2>1, <2>2, OneId
<1>2. old \in Buf
  BY <1>1, <1>a DEF Order, Types
<1>3. StreamOf(old, pipe[d], wbuf[p.src][d], p.src, starts, up[p.src],
               Midway(p.src, d), pid[p.src], job[p.src].alert.id)
  BY <1>1, <1>a DEF Streams, Stream
<1>4. PICK k : Takes(old, p, p.src, k)
  BY <1>1, <1>3, StreamRead
<1> QED
  BY <1>1, <1>2, <1>4, <1>a, TakesJoined

LEMMA WholeIs ==
  ASSUME NEW s \in Slots, NEW id \in Id
  PROVE  /\ Whole(<<s, <<id>>>>) = <<s, id>>
         /\ \A ids \in Seq(Id) : Len(ids) = 1 =>
              Whole(<<s, Append(ids, id)>>) = <<s, IF ids = <<id>> THEN id ELSE Mixed>>
<1>1. Whole(<<s, <<id>>>>) = <<s, id>>
  <2>1. \A i \in DOMAIN <<id>> : <<id>>[i] = <<id>>[1]
    OBVIOUS
  <2> QED
    BY <2>1 DEF Whole
<1>2. ASSUME NEW ids \in Seq(Id), Len(ids) = 1
      PROVE  Whole(<<s, Append(ids, id)>>) = <<s, IF ids = <<id>> THEN id ELSE Mixed>>
  <2>a. PICK all, h : all = Append(ids, id) /\ h = <<s, all>>
    OBVIOUS
  <2>1. /\ Len(all) = 2 /\ DOMAIN all = 1 .. 2 /\ all[1] = ids[1] /\ all[2] = id
    <3>1. all \in Seq(Id) /\ Len(all) = Len(ids) + 1 /\ all[Len(ids) + 1] = id
      BY <1>2, <2>a, AppendProperties
    <3>2. \A i \in 1 .. Len(ids) : all[i] = ids[i]
      BY <1>2, <2>a, AppendProperties
    <3>3. 1 \in 1 .. Len(ids) /\ Len(ids) + 1 = 2
      BY <1>2
    <3>4. DOMAIN all = 1 .. Len(all)
      BY <3>1, LenProperties
    <3> QED
      BY <3>1, <3>2, <3>3, <3>4
  <2>2. ids = <<id>> <=> ids[1] = id
    <3>1. <<id>> \in Seq(Id) /\ Len(<<id>>) = 1 /\ <<id>>[1] = id
      OBVIOUS
    <3>2. ids[1] = id => ids = <<id>>
      BY <1>2, <3>1, SeqEqual
    <3> QED
      BY <3>1, <3>2
  <2>3. (\E i \in DOMAIN all : all[i] # all[1]) <=> ids # <<id>>
    <3>1. \A i \in 1 .. 2 : i = 1 \/ i = 2
      OBVIOUS
    <3>2. 1 \in 1 .. 2 /\ 2 \in 1 .. 2
      OBVIOUS
    <3> QED
      BY <2>1, <2>2, <3>1, <3>2
  <2>4. Whole(h) = <<s, IF \E i \in DOMAIN all : all[i] # all[1] THEN Mixed ELSE all[1]>>
    BY <2>a DEF Whole
  <2> QED
    BY <2>1, <2>2, <2>3, <2>4, <2>a
<1> QED
  BY <1>1, <1>2

LEMMA QueueRead ==
  ASSUME Order, Types', NEW y \in Slots, up[y], pipe[y] # <<>>,
         NEW p, p = Head(pipe[y]), p.part = p.alert.parts,
         \A z \in Slots : pipe'[z] = IF z = y THEN Tail(pipe[y]) ELSE pipe[z],
         UNCHANGED <<up, pid, wbuf, job>>,
         NEW h, h \in Handing, NEW a, Whole(h) = <<p.src, a>>,
         a = p.alert.id \/ (a = Mixed /\ y \in Heirs),
         \A z \in Slots : handed'[z] = IF z = y THEN Append(handed[y], h) ELSE handed[z]
  PROVE  Queue!Next
<1>a. Types /\ Senders
  BY DEF Order
<1>b. PICK x, id : x = p.src /\ id = p.alert.id
  OBVIOUS
<1>c. PICK rest, unf, later : /\ rest = UnderWay(x, y)' /\ unf = Unfinished(x, y)
                              /\ later = rest \o unf
  OBVIOUS
<1>1. /\ p \in Packet /\ x \in Slots /\ x # y /\ id \in Id /\ \A s : LastOf(p, s) <=> s = x
  <2>1. p \in Packet /\ p.src # y
    BY <1>a, WayRead
  <2> QED
    BY <1>b, <2>1, OneId DEF LastOf, Id
<1>2. ASSUME NEW s \in Slots, NEW d \in Slots
      PROVE  /\ d = y /\ s = x => UnderWay(s, d) = <<id>> \o UnderWay(s, d)'
             /\ ~(d = y /\ s = x) => UnderWay(s, d)' = UnderWay(s, d)
  <2>1. /\ d = y /\ s # y /\ LastOf(p, s) =>
             UnderWay(s, d) = <<p.alert.id>> \o UnderWay(s, d)'
        /\ (d # y /\ s # y) \/ (s # y /\ ~LastOf(p, s)) \/ (s = y /\ wbuf' = wbuf) =>
             UnderWay(s, d)' = UnderWay(s, d)
    BY <1>a, WayRead
  <2> QED
    BY <1>1, <1>b, <2>1
<1>3. \A s, d \in Slots : Unfinished(s, d)' = Unfinished(s, d)
  BY DEF Unfinished
<1>4. rest \in Seq(Id) /\ unf \in Seq(Id) /\ later \in Seq(Id)
  <2>1. rest \in Seq(Id) /\ unf \in Seq(Id)
    BY <1>1, <1>a, <1>c, WayTypesNext, WayType
  <2> QED
    BY <1>c, <2>1, ConcatProperties
<1>5. OnTheWay(x, y) = <<id>> \o later
  <2>1. (<<id>> \o rest) \o unf = <<id>> \o (rest \o unf)
    BY <1>1, <1>4, ConcatAssociative
  <2> QED
    BY <1>1, <1>2, <1>a, <1>c, <2>1, WayType
<1>6. ASSUME NEW s \in Slots, NEW d \in Slots
      PROVE  OnTheWay(s, d)' = IF s = x /\ d = y THEN later ELSE OnTheWay(s, d)
  <2>1. CASE s = x /\ d = y
    BY <1>3, <1>c, <2>1, WayNext
  <2>2. CASE ~(s = x /\ d = y)
    <3>1. UnderWay(s, d)' = UnderWay(s, d)
      BY <1>2, <2>2
    <3> QED
      BY <1>3, <1>a, <2>2, <3>1, WayNext, WayType
  <2> QED
    BY <2>1, <2>2
<1>7. Calls' = [Calls EXCEPT ![y] = Append(Calls[y], Whole(h))]
  BY <1>a, CallsChanged
<1>8. Calls' = [Calls EXCEPT ![y] = Append(Calls[y], <<x, a>>)]
  BY <1>7, <1>b
<1>9. up' = up /\ Heirs' = Heirs
  BY DEF Heirs
<1>10. a = id \/ (a = Mixed /\ y \in Heirs)
  BY <1>b
<1> QED
  BY <1>1, <1>4, <1>5, <1>6, <1>8, <1>9, <1>10, <1>a, QueueHand

\* A packet that is sent: an alert is under way with its first.
LEMMA QueuePart ==
  ASSUME Order, Types', NEW x \in Slots, SendPart(x)
  PROVE  Queue!Next \/ UNCHANGED Queue!vars
<1>a. Types /\ Jobs /\ Senders /\ Fresh
  BY DEF Order
<1>b. PICK y : y = Head(job[x].dests)
  OBVIOUS
<1>c. PICK id : id = job[x].alert.id
  OBVIOUS
<1>1. /\ job[x].dests # <<>> /\ y \in Slots /\ y # x
      /\ \A s \in Slots : job'[s] = IF s = x THEN NextPart(job[x]) ELSE job[s]
      /\ UNCHANGED <<up, pid, handed>>
  BY <1>a, <1>b, Sending
<1>2. up[x] /\ id \in Id
  BY <1>a, <1>c, There, TrackType DEF Writing
<1>3. \A s, d \in Slots :
        UnderWay(s, d)' = IF s = x /\ d = y /\ job[x].part = job[x].alert.parts
                          THEN Append(UnderWay(x, y), id) ELSE UnderWay(s, d)
  BY <1>a, <1>b, <1>c, WaySent
<1>4. /\ job[x].part \in 1 .. 2 /\ job[x].alert.parts \in 1 .. 2
      /\ job[x].part = 2 => job[x].alert.parts = 2
  <2>1. job[x].part \in 1 .. 2 /\ job[x].alert.parts \in 1 .. 2
    BY <1>a DEF Types, Job, Alert
  <2> QED
    BY <1>a, <2>1 DEF Jobs, Halfway
<1>5. /\ job'[x].alert.id = id
      /\ \A d \in Slots : Midway(x, d) <=> job[x].part = 2 /\ d = y
      /\ \A d \in Slots : Midway(x, d)' <=> job[x].part = 1 /\ job[x].alert.parts = 2 /\ d = y
  <2>1. job'[x] = NextPart(job[x])
    BY <1>1
  <2>2. /\ job'[x].alert = job[x].alert
        /\ job'[x].part = IF job[x].part < job[x].alert.parts THEN 2 ELSE 1
        /\ job'[x].dests = IF job[x].part < job[x].alert.parts
                           THEN job[x].dests ELSE Tail(job[x].dests)
    BY <1>a, <2>1, NextParts
  <2>3. job[x].part < job[x].alert.parts <=> job[x].part = 1 /\ job[x].alert.parts = 2
    BY <1>4
  <2> QED
    BY <1>b, <1>c, <2>2, <2>3 DEF Midway, Halfway
<1>6. ASSUME NEW s \in Slots, NEW d \in Slots
      PROVE  OnTheWay(s, d)' = IF s = x /\ d = y /\ job[x].part = 1
                               THEN Append(OnTheWay(x, y), id) ELSE OnTheWay(s, d)
  <2>a. PICK way : way = UnderWay(s, d)
    OBVIOUS
  <2>1. way \in Seq(Id) /\ OnTheWay(s, d) = way \o Unfinished(s, d)
    BY <1>a, <2>a, WayTypes, WayType
  <2>2. Unfinished(s, d) = IF Midway(s, d) THEN <<job[s].alert.id>> ELSE <<>>
    BY <1>a, UnfinishedIs
  <2>3. Unfinished(s, d)' = IF Midway(s, d)' THEN <<job'[s].alert.id>> ELSE <<>>
    BY UnfinishedNext
  <2>4. /\ way \o <<>> = way /\ way \o <<id>> = Append(way, id)
        /\ Append(way, id) \o <<>> = Append(way, id)
    <3>1. Append(way, id) \in Seq(Id)
      BY <1>2, <2>1, AppendProperties
    <3>2. way \o <<id>> = Append(way, id)
      BY <1>2, <2>1, AppendIsConcat
    <3> QED
      BY <2>1, <3>1, <3>2, ConcatEmptySeq
  <2>5. CASE ~(s = x /\ d = y)
    <3>1. UnderWay(s, d)' = way
      BY <1>3, <2>5, <2>a
    <3>2. Unfinished(s, d)' = Unfinished(s, d)
      <4>1. CASE s = x
        <5>1. ~Midway(s, d) /\ ~Midway(s, d)'
          BY <1>5, <2>5, <4>1
        <5> QED
          BY <2>2, <2>3, <5>1
      <4>2. CASE s # x
        <5>1. job'[s] = job[s]
          BY <1>1, <4>2
        <5> QED
          BY <5>1 DEF Unfinished
      <4> QED
        BY <4>1, <4>2
    <3> QED
      BY <2>1, <2>5, <3>1, <3>2, WayNext
  <2>6. CASE s = x /\ d = y /\ job[x].part = 1 /\ job[x].alert.parts = 2
    <3>1. UnderWay(s, d)' = way
      BY <1>3, <2>6, <2>a
    <3>2. ~Midway(s, d) /\ Midway(s, d)'
      BY <1>5, <2>6
    <3>3. Unfinished(s, d) = <<>> /\ Unfinished(s, d)' = <<id>>
      BY <1>5, <2>2, <2>3, <2>6, <3>2
    <3> QED
      BY <2>1, <2>4, <2>6, <3>1, <3>3, WayNext
  <2>7. CASE s = x /\ d = y /\ job[x].part = 1 /\ job[x].alert.parts = 1
    <3>1. UnderWay(s, d)' = Append(way, id)
      BY <1>3, <2>7, <2>a
    <3>2. ~Midway(s, d) /\ ~Midway(s, d)'
      BY <1>5, <2>7
    <3>3. Unfinished(s, d) = <<>> /\ Unfinished(s, d)' = <<>>
      BY <2>2, <2>3, <3>2
    <3> QED
      BY <2>1, <2>4, <2>7, <3>1, <3>3, WayNext
  <2>8. CASE s = x /\ d = y /\ job[x].part = 2
    <3>1. UnderWay(s, d)' = Append(way, id)
      BY <1>3, <1>4, <2>8, <2>a
    <3>2. Midway(s, d) /\ ~Midway(s, d)'
      BY <1>5, <2>8
    <3>3. Unfinished(s, d) = <<id>> /\ Unfinished(s, d)' = <<>>
      BY <1>c, <2>2, <2>3, <2>8, <3>2
    <3>4. OnTheWay(s, d)' = Append(way, id)
      BY <2>4, <3>1, <3>3, WayNext
    <3>5. OnTheWay(s, d) = Append(way, id)
      BY <2>1, <2>4, <3>3
    <3>6. job[x].part # 1
      BY <2>8
    <3> QED
      BY <3>4, <3>5, <3>6
  <2>9. job[x].part = 1 \/ job[x].part = 2
    BY <1>4
  <2>10. job[x].alert.parts = 1 \/ job[x].alert.parts = 2
    BY <1>4
  <2> QED
    BY <2>5, <2>6, <2>7, <2>8, <2>9, <2>10
<1>7. Calls' = Calls /\ Heirs' = Heirs /\ up' = up
  BY <1>1 DEF Calls, Wholes, Heirs
<1>8. CASE job[x].part = 1
  <2>1. \A s, d \in Slots :
          OnTheWay(s, d)' = IF s = x /\ d = y THEN Append(OnTheWay(x, y), id)
                            ELSE OnTheWay(s, d)
    BY <1>6, <1>8
  <2> QED
    BY <1>1, <1>2, <1>7, <2>1, QueueSend
<1>9. CASE job[x].part # 1
  <2>1. \A s, d \in Slots : OnTheWay(s, d)' = OnTheWay(s, d)
    BY <1>6, <1>9
  <2> QED
    BY <1>7, <2>1, QueueSame
<1> QED
  BY <1>8, <1>9

\* Nothing but the memory of a process has changed, and no way.
LEMMA QueueStill ==
  ASSUME UNCHANGED <<up, pid, handed>>,
         \A s, d \in Slots : OnTheWay(s, d)' = OnTheWay(s, d)
  PROVE  UNCHANGED Queue!vars
<1>1. Calls' = Calls /\ Heirs' = Heirs
  BY DEF Calls, Wholes, Heirs
<1> QED
  BY <1>1, QueueSame

LEMMA QueueOwn ==
  ASSUME Order, Types', NEW x \in Slots, SendOwn(x)
  PROVE  Queue!Next
<1>a. Types /\ Fresh /\ Jobs
  BY DEF Order
<1>b. PICK id : id = job[x].alert.id
  OBVIOUS
<1>1. up[x]
  BY <1>a, There DEF Writing
<1>2. CASE Dead(x) /\ UNCHANGED handed
  <2>1. pipe' = pipe /\ pid' = pid
    BY <1>a, OwnSent
  <2> QED
    BY <1>1, <1>2, <2>1, QueueDead
<1>3. CASE /\ \A d \in Slots : handed'[d] =
                IF d = x THEN Append(handed[x], <<x, <<id>>>>) ELSE handed[d]
           /\ \A s \in Slots : job'[s] =
                IF s = x THEN [dests |-> Tail(job[x].dests), part |-> job[x].part,
                               alert |-> job[x].alert]
                ELSE job[s]
           /\ UNCHANGED <<up, wbuf>>
  <2>1. pipe' = pipe /\ pid' = pid /\ Head(job[x].dests) = x
    BY <1>a, OwnSent
  <2>2. id \in Id
    BY <1>a, <1>b, TrackType
  <2>3. job[x].part # 2
    BY <1>a, <2>1 DEF Jobs, Halfway
  <2>4. job'[x].part = job[x].part
    <3>1. job'[x] = [dests |-> Tail(job[x].dests), part |-> job[x].part,
                     alert |-> job[x].alert]
      BY <1>3
    <3> QED
      BY <3>1
  <2>5. ASSUME NEW s \in Slots, NEW d \in Slots
        PROVE  OnTheWay(s, d)' = OnTheWay(s, d)
    <3>1. UnderWay(s, d)' = UnderWay(s, d)
      BY <1>3, <2>1 DEF UnderWay, Piped, Waiting
    <3>2. Unfinished(s, d)' = Unfinished(s, d)
      <4>1. CASE s = x
        <5>1. ~Midway(s, d) /\ ~Midway(s, d)'
          BY <2>3, <2>4, <4>1 DEF Midway, Halfway
        <5> QED
          BY <1>a, <5>1, UnfinishedIs, UnfinishedNext
      <4>2. CASE s # x
        <5>1. job'[s] = job[s]
          BY <1>3, <4>2
        <5> QED
          BY <5>1 DEF Unfinished
      <4> QED
        BY <4>1, <4>2
    <3> QED
      BY <1>a, <3>1, <3>2, WayNext, WayType
  <2>6. PICK h : h = <<x, <<id>>>>
    OBVIOUS
  <2>7. h \in Handing
    <3>1. <<id>> \in Seq(1 .. MaxAlerts) /\ <<id>> # <<>>
      BY <2>2 DEF Id
    <3> QED
      BY <2>6, <3>1 DEF Handing
  <2>8. Calls' = [Calls EXCEPT ![x] = Append(Calls[x], Whole(h))]
    BY <1>3, <1>a, <2>6, <2>7, CallsChanged
  <2>9. Whole(h) = <<x, id>>
    BY <2>2, <2>6, WholeIs
  <2>10. up' = up /\ Heirs' = Heirs
    BY <1>3, <2>1 DEF Heirs
  <2> QED
    BY <1>1, <2>2, <2>5, <2>8, <2>9, <2>10, QueueHandOwn
<1> QED
  BY <1>2, <1>3, <1>a, <1>b, OwnSent

\* A pipe that is thrown away: what its writers still have stays under way.
LEMMA QueueWeird ==
  ASSUME Order, Streams, Types', NEW y \in Slots, ReadWeird(y)
  PROVE  Queue!Next
<1>a. Types
  BY DEF Order
<1>b. PICK p : p = Head(pipe[y])
  OBVIOUS
<1>1. /\ up[y] /\ pipe[y] # <<>> /\ p.alert.parts = 2
      /\ Joined(rbuf[y][p.src], p) = NoBuf
      /\ \A x \in Slots : pipe'[x] = IF x = y THEN <<>> ELSE pipe[x]
      /\ UNCHANGED <<up, pid, wbuf, job, handed>>
  BY <1>a, <1>b, WeirdRead
<1>2. y \in Heirs
  <2>1. ~First(y)
    BY <1>1, <1>b, FirstReads
  <2> QED
    BY <1>1, <2>1, HeirOrFirst
<1>3. up' = up /\ Calls' = Calls /\ Heirs' = Heirs
  BY <1>1 DEF Calls, Wholes, Heirs
<1>4. \A s, d \in Slots : Unfinished(s, d)' = Unfinished(s, d)
  BY <1>1 DEF Unfinished
<1>5. \A s, d \in Slots : UnderWay(s, d)' = IF d = y THEN Waiting(s, y) ELSE UnderWay(s, d)
  BY <1>1, <1>a, WayCleared
<1>6. ASSUME NEW s \in Slots, NEW d \in Slots
      PROVE  IF d = y THEN \E n \in 0 .. Len(OnTheWay(s, d)) :
                             OnTheWay(s, d)' = SubSeq(OnTheWay(s, d), n + 1, Len(OnTheWay(s, d)))
             ELSE OnTheWay(s, d)' = OnTheWay(s, d)
  <2>1. CASE d # y
    <3>1. UnderWay(s, d)' = UnderWay(s, d)
      BY <1>5, <2>1
    <3>2. OnTheWay(s, d) = UnderWay(s, d) \o Unfinished(s, d)
      BY <1>a, WayType
    <3>3. OnTheWay(s, d)' = UnderWay(s, d)' \o Unfinished(s, d)'
      BY WayNext
    <3>4. Unfinished(s, d)' = Unfinished(s, d)
      BY <1>4
    <3> QED
      BY <2>1, <3>1, <3>2, <3>3, <3>4
  <2>2. CASE d = y
    <3>a. PICK piped, later : /\ piped = Piped(s, d)
                              /\ later = Waiting(s, d) \o Unfinished(s, d)
      OBVIOUS
    <3>1. piped \in Seq(Id) /\ later \in Seq(Id) /\ OnTheWay(s, d) = piped \o later
      <4>1. Piped(s, d) \in Seq(Id) /\ Waiting(s, d) \in Seq(Id) /\ Unfinished(s, d) \in Seq(Id)
        BY <1>a, WayTypes, WayType
      <4>2. (Piped(s, d) \o Waiting(s, d)) \o Unfinished(s, d)
              = Piped(s, d) \o (Waiting(s, d) \o Unfinished(s, d))
        BY <4>1, ConcatAssociative
      <4>3. OnTheWay(s, d) = (Piped(s, d) \o Waiting(s, d)) \o Unfinished(s, d)
        BY <1>a, WayType DEF UnderWay
      <4> QED
        BY <3>a, <4>1, <4>2, <4>3, ConcatProperties
    <3>2. OnTheWay(s, d)' = later
      BY <1>4, <1>5, <2>2, <3>a, WayNext
    <3>3. Len(piped) \in 0 .. Len(piped \o later)
          /\ SubSeq(piped \o later, Len(piped) + 1, Len(piped \o later)) = later
      BY <3>1, PrefixOf
    <3> QED
      BY <2>2, <3>1, <3>2, <3>3
  <2> QED
    BY <2>1, <2>2
<1> QED
  BY <1>1, <1>2, <1>3, <1>6, QueueClear

LEMMA StreamsInit == Init => Streams
<1> SUFFICES ASSUME Init, NEW s \in Slots, NEW d \in Slots PROVE Stream(s, d)
  BY DEF Streams
<1>1. rbuf[d][s] = NoBuf
  <2>1. rbuf[d] = FreshR
    BY DEF Init
  <2> QED
    BY <2>1 DEF FreshR
<1>2. pipe[d] = <<>> /\ job[s] = NoJob
  BY DEF Init, Activated
<1>3. wbuf[s][d] = <<>>
  <2>1. wbuf[s] = FreshW
    BY DEF Init
  <2> QED
    BY <2>1 DEF FreshW
<1>4. NoBuf.pid = 0 /\ NoBuf.pid \in 0 .. starts
  <2>1. Types
    BY TypesInit
  <2>2. starts \in Nat
    BY <2>1 DEF Types
  <2>3. NoBuf.pid = 0
    BY DEF NoBuf
  <2> QED
    BY <2>2, <2>3
<1>5. Reads(NoBuf, <<>>, s, NoBuf, starts)
  BY <1>4, ReadsEmpty
<1>6. ~Midway(s, d)
  BY <1>2, NoJobPart DEF Midway, Halfway
<1>7. up[s] => NoBuf.pid # pid[s]
  BY <1>4, OrderInit DEF Order, Numbered
<1>8. Ends(NoBuf, up[s], Midway(s, d), pid[s], job[s].alert.id)
  BY <1>6, <1>7 DEF Ends
<1> QED
  BY <1>1, <1>2, <1>3, <1>5, <1>8 DEF Stream, StreamOf

LEMMA QueueInit == Init => Queue!Init
<1> SUFFICES ASSUME Init PROVE Queue!Init
  OBVIOUS
<1>1. \A d \in Slots : handed[d] = <<>> /\ pipe[d] = <<>> /\ job[d] = NoJob
  BY DEF Init, Activated
<1>2. up \in [Slots -> BOOLEAN]
  BY TypesInit DEF Types
<1>3. ASSUME NEW s \in Slots, NEW d \in Slots
      PROVE  OnTheWay(s, d) = <<>>
  <2>1. wbuf[s][d] = <<>>
    <3>1. wbuf[s] = FreshW
      BY DEF Init
    <3> QED
      BY <3>1 DEF FreshW
  <2>2. Piped(s, d) = <<>> /\ Waiting(s, d) = <<>>
    BY <1>1, <2>1, LastEmpty DEF Piped, Waiting
  <2>3. ~Midway(s, d)
    BY <1>1, NoJobPart DEF Midway, Halfway
  <2>4. Unfinished(s, d) = <<>> /\ OnTheWay(s, d) = UnderWay(s, d) \o Unfinished(s, d)
    BY <2>3, TypesInit, UnfinishedIs, WayType
  <2>5. <<>> \o <<>> = <<>>
    OBVIOUS
  <2> QED
    BY <2>2, <2>4, <2>5 DEF UnderWay
<1>4. Ways = [w \in Slots \X Slots |-> <<>>]
  <2>1. \A w \in Slots \X Slots : OnTheWay(w[1], w[2]) = <<>>
    BY <1>3
  <2> QED
    BY <2>1 DEF Ways
<1>5. Calls = [d \in Slots |-> <<>>]
  <2>1. \A d \in Slots : Wholes(handed[d]) = <<>>
    <3> TAKE d \in Slots
    <3>1. handed[d] = <<>>
      BY <1>1
    <3> QED
      BY <3>1 DEF Wholes
  <2> QED
    BY <2>1 DEF Calls
<1>6. Heirs = {}
  <2>1. pid = [s \in Slots |-> IF setting.startup /\ s >= Workers THEN 0 ELSE s + 1]
    BY DEF Init
  <2>2. \A d \in Slots : pid[d] \in {0, d + 1}
    BY <2>1
  <2> QED
    BY <2>2 DEF Heirs
<1> QED
  BY <1>2, <1>4, <1>5, <1>6 DEF Queue!Init, Queue!Ways, Ways, Calls, Wholes, Heirs

LEMMA QueueWhole ==
  ASSUME Order, Types', NEW y \in Slots, ReadWhole(y)
  PROVE  Queue!Next
<1>a. Types /\ Senders
  BY DEF Order
<1>b. PICK p : p = Head(pipe[y])
  OBVIOUS
<1>1. /\ up[y] /\ pipe[y] # <<>> /\ p \in Packet /\ p.alert.parts = 1 /\ p.part \in 1 .. 2
      /\ \A x \in Slots : pipe'[x] = IF x = y THEN Tail(pipe[y]) ELSE pipe[x]
      /\ pid' = pid
      /\ \/ /\ \A x \in Slots : handed'[x] =
                 IF x = y THEN Append(handed[y], <<p.src, <<p.alert.id>>>>) ELSE handed[x]
            /\ UNCHANGED <<up, wbuf, job>>
         \/ Dead(y) /\ UNCHANGED handed
  BY <1>a, <1>b, WholeRead
<1>2. p.part = p.alert.parts
  <2>1. wbuf' = wbuf \/ Dead(y)
    BY <1>1
  <2>2. p.part <= p.alert.parts
    BY <1>1, <1>a, <1>b, <2>1, WayRead
  <2> QED
    BY <1>1, <2>2
<1>3. CASE Dead(y) /\ UNCHANGED handed
  BY <1>1, <1>2, <1>3, <1>b, QueueDead
<1>4. CASE /\ \A x \in Slots : handed'[x] =
                IF x = y THEN Append(handed[y], <<p.src, <<p.alert.id>>>>) ELSE handed[x]
           /\ UNCHANGED <<up, wbuf, job>>
  <2>a. PICK h, id : id = p.alert.id /\ h = <<p.src, <<id>>>>
    OBVIOUS
  <2>1. p.src \in Slots /\ id \in Id
    BY <1>1, <2>a, OneId DEF Id
  <2>2. h \in Handing
    <3>1. <<id>> \in Seq(1 .. MaxAlerts) /\ <<id>> # <<>>
      BY <2>1 DEF Id
    <3> QED
      BY <2>1, <2>a, <3>1 DEF Handing
  <2>3. Whole(h) = <<p.src, id>>
    BY <2>1, <2>a, WholeIs
  <2> QED
    BY <1>1, <1>2, <1>4, <1>b, <2>2, <2>3, <2>a, QueueRead
<1> QED
  BY <1>1, <1>3, <1>4

LEMMA QueueParts ==
  ASSUME Order, Streams, Types', NEW y \in Slots, ReadPart(y)
  PROVE  Queue!Next \/ UNCHANGED Queue!vars
<1>a. Types /\ Bounded /\ Senders
  BY DEF Order
<1>b. PICK p : p = Head(pipe[y])
  OBVIOUS
<1>c. PICK old : old = rbuf[y][p.src]
  OBVIOUS
<1>1. /\ up[y] /\ pipe[y] # <<>> /\ p \in Packet /\ p.alert.parts = 2
      /\ \A x \in Slots : pipe'[x] = IF x = y THEN Tail(pipe[y]) ELSE pipe[x]
      /\ pid' = pid
      /\ \/ KeepsPart(y, p, old)
         \/ HandsParts(y, p, old)
         \/ p.part = 2 /\ Dead(y) /\ UNCHANGED handed
  BY <1>a, <1>b, <1>c, PartRead
<1>2. CASE p.part = 2 /\ Dead(y) /\ UNCHANGED handed
  <2>1. p.part = p.alert.parts
    BY <1>1, <1>2
  <2> QED
    BY <1>1, <1>2, <1>b, <2>1, QueueDead
<1>3. CASE KeepsPart(y, p, old)
  <2>1. p.part = 1 /\ UNCHANGED <<up, wbuf, job, handed>>
    BY <1>3 DEF KeepsPart
  <2>2. p.part # p.alert.parts
    BY <1>1, <2>1
  <2>3. ASSUME NEW s \in Slots, NEW d \in Slots
        PROVE  OnTheWay(s, d)' = OnTheWay(s, d)
    <3>1. UnderWay(s, d)' = UnderWay(s, d)
      BY <1>1, <1>a, <1>b, <2>1, <2>2, WayPart
    <3>2. Unfinished(s, d)' = Unfinished(s, d)
      BY <2>1 DEF Unfinished
    <3> QED
      BY <1>a, <3>1, <3>2, WayNext, WayType
  <2> QED
    BY <1>1, <2>1, <2>3, QueueStill
<1>4. CASE HandsParts(y, p, old)
  <2>a. PICK h, ids, id : id = p.alert.id /\ ids = old.ids /\ h = <<p.src, Append(ids, id)>>
    OBVIOUS
  <2>b. PICK a : a = IF ids = <<id>> THEN id ELSE Mixed
    OBVIOUS
  <2>1. /\ p.part = 2 /\ old # NoBuf /\ UNCHANGED <<up, wbuf, job>>
        /\ \A x \in Slots : handed'[x] = IF x = y THEN Append(handed[y], h) ELSE handed[x]
    BY <1>4, <2>a DEF HandsParts
  <2>2. p.part = p.alert.parts
    BY <1>1, <2>1
  <2>3. p.src \in Slots /\ id \in Id
    BY <1>1, <2>a, OneId DEF Id
  <2>4. ids \in Seq(Id) /\ Len(ids) = 1
    <3>1. old \in Buf
      BY <1>a, <1>c, <2>3 DEF Types
    <3>2. Len(old.ids) = 1
      BY <1>a, <1>c, <2>1, <2>3 DEF Bounded
    <3> QED
      BY <2>a, <3>1, <3>2 DEF Buf, Id
  <2>5. h \in Handing
    <3>1. Append(ids, id) \in Seq(1 .. MaxAlerts) /\ Append(ids, id) # <<>>
      BY <2>3, <2>4, AppendProperties DEF Id
    <3> QED
      BY <2>3, <2>a, <3>1 DEF Handing
  <2>6. Whole(h) = <<p.src, a>>
    BY <2>3, <2>4, <2>a, <2>b, WholeIs
  <2>7. a = id \/ (a = Mixed /\ y \in Heirs)
    <3>1. First(y) => ids = <<id>>
      BY <1>1, <1>b, <1>c, <2>1, <2>a, FirstReads
    <3>2. First(y) \/ y \in Heirs
      BY <1>1, HeirOrFirst
    <3> QED
      BY <2>b, <3>1, <3>2
  <2> QED
    BY <1>1, <1>b, <2>1, <2>2, <2>5, <2>6, <2>7, <2>a, QueueRead
<1> QED
  BY <1>1, <1>2, <1>3, <1>4

\* A process that starts may follow one that died, or be the first.
LEMMA QueueBorn ==
  ASSUME Order, NEW x \in Slots, Start(x)
  PROVE  Queue!Next
<1>1. /\ ~up[x] /\ up' = [up EXCEPT ![x] = TRUE] /\ starts' = starts + 1
      /\ pid' = [pid EXCEPT ![x] = starts + 1]
      /\ UNCHANGED <<pipe, wbuf, job, handed>>
      /\ (x = Loader => pid[x] = 0)
  BY DEF Start
<1>2. \A s, d \in Slots : OnTheWay(s, d)' = OnTheWay(s, d)
  BY <1>1 DEF OnTheWay, Unfinished
<1>3. Calls' = Calls
  BY <1>1 DEF Calls, Wholes
<1>4. \A d \in Slots : pid'[d] = IF d = x THEN starts + 1 ELSE pid[d]
  BY <1>1 DEF Order, Types
<1>5. x \in Heirs => starts + 1 \notin {0, x + 1}
  <2>1. starts \in Nat /\ pid[x] \in Nat /\ pid[x] <= starts /\ starts >= Workers
        /\ (x >= Workers => pid[x] = 0 \/ pid[x] > Workers)
    BY DEF Order, Types, Numbered
  <2>2. x \in Heirs => pid[x] # 0
    BY DEF Heirs
  <2>3. x = Loader => x \notin Heirs
    BY <1>1, <2>2
  <2>4. x < Workers \/ x = Workers \/ x = Loader
    BY Numbers
  <2>5. x \in Nat /\ Workers \in Nat
    BY Numbers
  <2> QED
    BY <2>1, <2>2, <2>3, <2>4, <2>5
<1>6. Heirs' \in {Heirs, Heirs \cup {x}}
  <2>1. \A d \in Slots : d # x => (d \in Heirs' <=> d \in Heirs)
    BY <1>4 DEF Heirs
  <2>2. x \in Heirs => x \in Heirs'
    BY <1>4, <1>5 DEF Heirs
  <2>3. Heirs \subseteq Slots /\ Heirs' \subseteq Slots
    BY DEF Heirs
  <2> HIDE DEF Heirs
  <2>4. CASE x \in Heirs'
    <3>1. Heirs' = Heirs \cup {x}
      BY <2>1, <2>3, <2>4
    <3> QED
      BY <3>1
  <2>5. CASE x \notin Heirs'
    <3>1. Heirs' = Heirs
      BY <2>1, <2>2, <2>3, <2>5
    <3> QED
      BY <3>1
  <2> QED
    BY <2>4, <2>5
<1> QED
  BY <1>1, <1>2, <1>3, <1>6, QueueStart

LEMMA QueueStep == Order /\ Streams /\ [Next]_vars => [Queue!Next]_(Queue!vars)
<1> SUFFICES ASSUME Order, Streams, [Next]_vars
             PROVE  Queue!Next \/ UNCHANGED Queue!vars
  OBVIOUS
<1>a. Types /\ Bounded /\ Fresh /\ Jobs /\ Senders
  BY DEF Order
<1>b. Types'
  BY <1>a, TypesStep
<1>1. ASSUME UNCHANGED <<up, pid, handed, pipe, wbuf, job>>
      PROVE  UNCHANGED Queue!vars
  <2>1. \A s, d \in Slots : OnTheWay(s, d)' = OnTheWay(s, d)
    BY <1>1 DEF OnTheWay, Unfinished
  <2> QED
    BY <1>1, <2>1, QueueStill
<1>2. ASSUME NEW s \in Slots, Start(s)
      PROVE  Queue!Next
  BY <1>2, QueueBorn
<1>3. ASSUME NEW s \in Slots, Scrape(s)
      PROVE  UNCHANGED Queue!vars
  <2>1. UNCHANGED <<up, pid, handed, pipe, wbuf, job>>
    BY <1>3 DEF Scrape
  <2> QED
    BY <1>1, <2>1
<1>4. ASSUME NEW s \in Slots, Die(s)
      PROVE  Queue!Next
  <2>1. up[s] /\ Dead(s) /\ pipe' = pipe /\ handed' = handed /\ pid' = pid
    BY <1>4 DEF Die, table
  <2> QED
    BY <1>b, <2>1, QueueDead
<1>5. ASSUME NEW x \in Slots, Alerting(x)
      PROVE  UNCHANGED Queue!vars
  <2>1. PICK dests \in Seq(Slots), kind \in Kind, parts \in 1 .. 2 :
               Begins(x, dests, kind, parts) /\ To(x, dests, kind)
    BY <1>5, <1>a, Beginning
  <2>2. /\ job[x].dests = <<>> /\ UNCHANGED <<up, pid, handed, pipe, wbuf>>
        /\ \A s \in Slots : job'[s] =
             IF s = x THEN [dests |-> dests, part |-> 1,
                            alert |-> [id |-> sent + 1, kind |-> kind, parts |-> parts]]
             ELSE job[s]
    BY <2>1 DEF Begins, Idle
  <2>3. job[x].part # 2
    BY <1>a, <2>2 DEF Jobs, Halfway
  <2>4. job'[x].part = 1
    <3>1. job'[x] = [dests |-> dests, part |-> 1,
                     alert |-> [id |-> sent + 1, kind |-> kind, parts |-> parts]]
      BY <2>2
    <3> QED
      BY <3>1
  <2>5. ASSUME NEW s \in Slots, NEW d \in Slots
        PROVE  OnTheWay(s, d)' = OnTheWay(s, d)
    <3>1. UnderWay(s, d)' = UnderWay(s, d)
      BY <2>2 DEF UnderWay, Piped, Waiting
    <3>2. Unfinished(s, d)' = Unfinished(s, d)
      <4>1. CASE s = x
        <5>1. ~Midway(s, d) /\ ~Midway(s, d)'
          BY <2>3, <2>4, <4>1 DEF Midway, Halfway
        <5> QED
          BY <1>a, <1>b, <5>1, UnfinishedIs, UnfinishedNext
      <4>2. CASE s # x
        <5>1. job'[s] = job[s]
          BY <2>2, <4>2
        <5> QED
          BY <5>1 DEF Unfinished
      <4> QED
        BY <4>1, <4>2
    <3> QED
      BY <1>a, <3>1, <3>2, WayNext, WayType
  <2> QED
    BY <2>2, <2>5, QueueStill
<1>6. ASSUME NEW s \in Slots, SendPart(s)
      PROVE  Queue!Next \/ UNCHANGED Queue!vars
  BY <1>6, <1>b, QueuePart
<1>7. ASSUME NEW s \in Slots, SendOwn(s)
      PROVE  Queue!Next
  BY <1>7, <1>b, QueueOwn
<1>8. ASSUME NEW s \in Slots, NEW d \in Slots, WriteHandler(s, d)
      PROVE  UNCHANGED Queue!vars
  <2>1. /\ wbuf[s][d] # <<>> /\ WriteFirst(s, d, wbuf[s][d])
        /\ UNCHANGED <<up, pid, handed, job>>
    BY <1>8 DEF WriteHandler, table
  <2>2. wbuf[s][d] \in Seq(Route(s, d))
    BY <1>a DEF Senders
  <2>3. ASSUME NEW t \in Slots, NEW y \in Slots
        PROVE  OnTheWay(t, y)' = OnTheWay(t, y)
    <3>1. UnderWay(t, y)' = IF t = s /\ y = d THEN Piped(s, d) \o LastParts(wbuf[s][d], s)
                            ELSE UnderWay(t, y)
      BY <1>a, <2>1, <2>2, WayWritten
    <3>2. UnderWay(t, y)' = UnderWay(t, y)
      BY <3>1 DEF UnderWay, Waiting
    <3>3. Unfinished(t, y)' = Unfinished(t, y)
      BY <2>1 DEF Unfinished
    <3> QED
      BY <1>a, <3>2, <3>3, WayNext, WayType
  <2> QED
    BY <2>1, <2>3, QueueStill
<1>9. ASSUME NEW d \in Slots, Reading(d)
      PROVE  Queue!Next \/ UNCHANGED Queue!vars
  BY <1>9, <1>b, QueueWhole, QueueParts, QueueWeird DEF Reading
<1>10. CASE UNCHANGED vars
  <2>1. UNCHANGED <<up, pid, handed, pipe, wbuf, job>>
    BY <1>10 DEF vars, table
  <2> QED
    BY <1>1, <2>1
<1> QED
  BY <1>2, <1>3, <1>4, <1>5, <1>6, <1>7, <1>8, <1>9, <1>10 DEF Next, Writing

(* The pipes, the packets and the buffers of writers and readers implement *)
(* a queue from every slot to every other: see AlertQueue for what it      *)
(* promises whatever does not fit into a pipe, whoever writes between two  *)
(* parts, and whoever dies.                                                *)
THEOREM QueueKept == Spec => ImplementsQueue
<1>1. Init => Queue!Init /\ Order /\ Streams
  BY QueueInit, OrderInit, StreamsInit
<1>2. (Order /\ Streams) /\ [Next]_vars => (Order /\ Streams)'
  BY OrderStep, StreamsStep
<1>3. (Order /\ Streams) /\ [Next]_vars => [Queue!Next]_(Queue!vars)
  BY QueueStep
<1> QED
  BY <1>1, <1>2, <1>3, PTL DEF Spec, ImplementsQueue, Queue!Spec
=============================================================================
