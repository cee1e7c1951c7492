---------------------------- MODULE ReaperProofs ----------------------------
(***************************************************************************)
(* Proofs about the reaper, for every set of things and every ratio: its   *)
(* doubly linked list is a list, a scan's cursor is never left dangling, no*)
(* thing is asked about twice in a scan, and the whole implements the queue*)
(* of ReaperQueue.                                                         *)
(***************************************************************************)
EXTENDS Reaper, FiniteSetTheorems, SequenceTheorems, WellFoundedInduction,
        TLAPS

(* s lists the things: the links of each lead to its neighbours in s.      *)
Lists(s) ==
  /\ s \in [1 .. count -> Things]
  /\ listed = {s[i] : i \in 1 .. count}
  /\ \A i, j \in 1 .. count : s[i] = s[j] => i = j
  /\ first = IF count = 0 THEN NULL ELSE s[1]
  /\ last = IF count = 0 THEN NULL ELSE s[count]
  /\ \A i \in 1 .. count : next[s[i]] = IF i = count THEN NULL ELSE s[i + 1]
  /\ \A i \in 1 .. count : prev[s[i]] = IF i = 1 THEN NULL ELSE s[i - 1]

(* A plain scan has asked about what comes before its cursor; a forced one *)
(* leaves nothing behind it.                                               *)
Rescanning(s) ==
  \E i \in 1 .. count + 1 :
    /\ scan.cur = IF i = count + 1 THEN NULL ELSE s[i]
    /\ \A j \in 1 .. count : s[j] \in scan.asked <=> j < i
    /\ scan.force => i = 1 /\ scan.notready = 0

(* A rotating scan has k things left to ask about, at the front; the first *)
(* one it moved, if it moved any, is the one after them.                   *)
Rotating(s) ==
  \E k \in 0 .. count :
    /\ k > 0 => scan.cur = s[1]
    /\ scan.cur # NULL => scan.cur = first
    /\ scan.firstmoved = IF k = count THEN NULL ELSE s[k + 1]
    /\ \A j \in 1 .. count : s[j] \in scan.asked <=> j > k

(* keep_place began at lo and has come to i: it has asked about what lies  *)
(* between, round the end of the list when i has come before lo.           *)
KeptOn(s, i, lo) ==
  /\ lo <= i
  /\ i - lo <= scan.n
  /\ \A j \in 1 .. count : s[j] \in scan.asked <=> lo <= j /\ j < i

KeptRound(s, i, lo) ==
  /\ i <= lo
  /\ count - (lo - i) <= scan.n
  /\ \A j \in 1 .. count : s[j] \in scan.asked <=> j < i \/ lo <= j

KeepingPlace(s) ==
  /\ scan.cur = NULL <=> count = 0
  /\ scan.cur # NULL => scan.cur \in listed
  /\ scan.n < count =>
       \E i \in 1 .. count, lo \in 1 .. count + 1 :
         /\ scan.cur = s[i]
         /\ KeptOn(s, i, lo) \/ KeptRound(s, i, lo)

(* Where a scan may be, given the list s.                                  *)
Scanned(s) ==
  CASE scan.kind = "idle" -> scan = NoScan
    [] scan.kind = "rescan" -> Rescanning(s)
    [] scan.kind = "rotate" -> Rotating(s)
    [] scan.kind = "keep_place" -> KeepingPlace(s)

Places ==
  /\ scan.force => scan.kind = "rescan"
  /\ scan.kind = "keep_place" => strategy = "keep_place"
  /\ position # NULL => strategy = "keep_place" /\ position \in listed

Timers ==
  /\ scan.kind = "idle" /\ count > 0 /\ ~exiting /\ ~stopped => timer_set
  /\ stopped => scan.kind = "idle" /\ listed = {} /\ ~timer_set

(* The inductive invariant.                                                *)
IInv ==
  /\ TypeOK
  /\ Lists(Order)
  /\ Scanned(Order)
  /\ Places
  /\ Timers

-----------------------------------------------------------------------------
(* Induction over the indices of a list, as the smallest counterexample.   *)

LEMMA SmallestNat ==
  ASSUME NEW T, T \subseteq Nat, T # {}
  PROVE  \E x \in T : \A y \in T : x <= y
<1> DEFINE R == OpToRel(<, Nat)
<1>1. IsWellFoundedOn(R, Nat)
  BY NatLessThanWellFounded
<1> HIDE DEF R
<1>2. PICK x \in T : \A y \in T : ~(<<y, x>> \in R)
  BY <1>1, WFMin
<1>3. \A y \in T : y < x => <<y, x>> \in R
  BY DEF R, OpToRel
<1>4. \A y \in T : y \in Nat /\ ~(y < x)
  BY <1>2, <1>3
<1>5. x \in Nat
  OBVIOUS
<1> QED
  BY <1>4, <1>5

(* The list that the links spell is the only one a walk along them finds.  *)
OneOrder == \A s : count \in Nat /\ Lists(s) => Order = s

LEMMA OrderUnique == OneOrder
<1> SUFFICES ASSUME NEW s, count \in Nat, Lists(s)
             PROVE  Order = s
  BY DEF OneOrder
<1>1. s \in [1 .. count -> Things] /\ FollowsLinks(s)
  BY DEF Lists, FollowsLinks
<1>2. Order \in [1 .. count -> Things] /\ FollowsLinks(Order)
  BY <1>1 DEF Order
<1> DEFINE T == {i \in 1 .. count : Order[i] # s[i]}
<1>3. T = {}
  <2> SUFFICES ASSUME T # {} PROVE FALSE
    OBVIOUS
  <2>1. PICK i \in T : \A j \in T : i <= j
    <3> T \subseteq Nat
      OBVIOUS
    <3> HIDE DEF T
    <3> QED
      BY SmallestNat
  <2>2. i # 1
    BY <1>1, <1>2 DEF FollowsLinks
  <2>3. i - 1 \in 1 .. count - 1 /\ i = (i - 1) + 1
    BY <2>2
  <2>4. Order[i - 1] = s[i - 1]
    BY <2>1, <2>3
  <2>5. Order[i] = next[Order[i - 1]] /\ s[i] = next[s[i - 1]]
    BY <1>1, <1>2, <2>3 DEF FollowsLinks
  <2> QED
    BY <2>4, <2>5
<1> QED
  BY <1>1, <1>2, <1>3

-----------------------------------------------------------------------------
(* What the three ways of handling the list do to what it spells.          *)

Without(s, i) == [j \in 1 .. count - 1 |-> IF j < i THEN s[j] ELSE s[j + 1]]

With(s, x) == [j \in 1 .. count + 1 |-> IF j <= count THEN s[j] ELSE x]

Rotated(s) == [j \in 1 .. count |-> IF j = count THEN s[1] ELSE s[j + 1]]

LEMMA Removed ==
  ASSUME TypeOK, NEW s, Lists(s), NEW i \in 1 .. count,
         NEW t, t = Without(s, i),
         Unlink(s[i]) \/ UnlinkAndClear(s[i]),
         count' = count - 1, listed' = listed \ {s[i]}
  PROVE  Lists(t)'
<1> USE ReaperAssumption
<1> count \in Nat /\ count' \in Nat
  BY DEF TypeOK
<1>1. s \in [1 .. count -> Things] /\ t \in [1 .. count' -> Things]
  BY DEF Lists, Without
<1>2. listed' = {t[j] : j \in 1 .. count'}
  <2>1. ASSUME NEW x \in listed' PROVE \E j \in 1 .. count' : x = t[j]
    <3>1. PICK j \in 1 .. count : x = s[j]
      BY <2>1 DEF Lists
    <3>2. CASE j < i
      BY <3>1, <3>2 DEF Without
    <3>3. CASE j > i
      <4>1. j - 1 \in 1 .. count' /\ t[j - 1] = x
        BY <3>1, <3>3 DEF Without
      <4> QED
        BY <4>1
    <3>4. j # i
      BY <2>1, <3>1
    <3> QED
      BY <3>2, <3>3, <3>4
  <2>2. ASSUME NEW j \in 1 .. count' PROVE t[j] \in listed'
    BY DEF Lists, Without
  <2> QED
    BY <2>1, <2>2
<1>3. \A j, k \in 1 .. count' : t[j] = t[k] => j = k
  BY DEF Lists, Without
<1>4. prev[s[i]] = (IF i = 1 THEN NULL ELSE s[i - 1])
  BY DEF Lists
<1>5. next[s[i]] = (IF i = count THEN NULL ELSE s[i + 1])
  BY DEF Lists
<1>6. \A j \in 1 .. count : s[j] \in Things /\ s[j] # NULL
  BY <1>1
<1>7. first' = IF count' = 0 THEN NULL ELSE t[1]
  <2>1. first' = IF s[i] = first THEN next[s[i]] ELSE first
    BY DEF Unlink, UnlinkAndClear
  <2>2. s[i] = first <=> i = 1
    BY DEF Lists
  <2> QED
    BY <2>1, <2>2, <1>5 DEF Lists, Without
<1>8. last' = IF count' = 0 THEN NULL ELSE t[count']
  <2>1. last' = IF s[i] = last THEN prev[s[i]] ELSE last
    BY DEF Unlink, UnlinkAndClear
  <2>2. s[i] = last <=> i = count
    BY DEF Lists
  <2> QED
    BY <2>1, <2>2, <1>4 DEF Lists, Without
<1>9. \A j \in 1 .. count : j # i =>
        next'[s[j]] = IF j = i - 1 THEN next[s[i]] ELSE next[s[j]]
  <2> TAKE j \in 1 .. count
  <2> HAVE j # i
  <2>1. s[j] # s[i] /\ (i # 1 => (s[j] = s[i - 1] <=> j = i - 1))
    BY DEF Lists
  <2>2. next \in [Things -> Ptr]
    BY DEF TypeOK
  <2> QED
    BY <2>1, <2>2, <1>4, <1>6 DEF Unlink, UnlinkAndClear, SetLink
<1>10. \A j \in 1 .. count : j # i =>
         prev'[s[j]] = IF j = i + 1 THEN prev[s[i]] ELSE prev[s[j]]
  <2> TAKE j \in 1 .. count
  <2> HAVE j # i
  <2>1. s[j] # s[i] /\ (i # count => (s[j] = s[i + 1] <=> j = i + 1))
    BY DEF Lists
  <2>2. prev \in [Things -> Ptr]
    BY DEF TypeOK
  <2> QED
    BY <2>1, <2>2, <1>5, <1>6 DEF Unlink, UnlinkAndClear, SetLink
<1>11. ASSUME NEW j \in 1 .. count'
       PROVE  next'[t[j]] = IF j = count' THEN NULL ELSE t[j + 1]
  <2>1. CASE j < i
    <3>1. t[j] = s[j] /\ j \in 1 .. count /\ j # i
      BY <2>1 DEF Without
    <3>2. next[s[j]] = s[j + 1]
      BY <2>1 DEF Lists
    <3> QED
      BY <2>1, <3>1, <3>2, <1>5, <1>9 DEF Without
  <2>2. CASE j >= i
    <3>1. t[j] = s[j + 1] /\ j + 1 \in 1 .. count /\ j + 1 # i /\ j + 1 # i - 1
      BY <2>2 DEF Without
    <3>2. next'[t[j]] = IF j + 1 = count THEN NULL ELSE s[(j + 1) + 1]
      BY <3>1, <1>9 DEF Lists
    <3> QED
      BY <2>2, <3>2 DEF Without
  <2> QED
    BY <2>1, <2>2
<1>12. ASSUME NEW j \in 1 .. count'
       PROVE  prev'[t[j]] = IF j = 1 THEN NULL ELSE t[j - 1]
  <2>1. CASE j < i
    <3>1. t[j] = s[j] /\ j \in 1 .. count /\ j # i /\ j # i + 1
      BY <2>1 DEF Without
    <3>2. prev'[t[j]] = IF j = 1 THEN NULL ELSE s[j - 1]
      BY <3>1, <1>10 DEF Lists
    <3> QED
      BY <2>1, <3>2 DEF Without
  <2>2. CASE j >= i
    <3>1. t[j] = s[j + 1] /\ j + 1 \in 1 .. count /\ j + 1 # i
      BY <2>2 DEF Without
    <3>2. prev[s[j + 1]] = s[j]
      BY <3>1 DEF Lists
    <3>3. prev'[t[j]] = IF j = i THEN prev[s[i]] ELSE s[j]
      BY <3>1, <3>2, <1>10
    <3>4. j # 1 => t[j - 1] = IF j = i THEN s[j - 1] ELSE s[j]
      BY <2>2 DEF Without
    <3> QED
      BY <2>2, <3>3, <3>4, <1>4
  <2> QED
    BY <2>1, <2>2
<1> QED
  BY <1>1, <1>2, <1>3, <1>7, <1>8, <1>11, <1>12 DEF Lists

LEMMA Appended ==
  ASSUME TypeOK, NEW s, Lists(s), NEW x \in Things, x \notin listed,
         NEW t, t = With(s, x),
         LinkLast(x), count' = count + 1, listed' = listed \cup {x}
  PROVE  Lists(t)'
<1> USE ReaperAssumption
<1> count \in Nat /\ count' \in Nat
  BY DEF TypeOK
<1>1. s \in [1 .. count -> Things] /\ t \in [1 .. count' -> Things]
  BY DEF Lists, With
<1>2. \A j \in 1 .. count : t[j] = s[j] /\ s[j] \in Things /\ s[j] # x
  BY <1>1 DEF Lists, With
<1>3. t[count'] = x
  BY DEF With
<1>4. listed' = {t[j] : j \in 1 .. count'}
  <2>1. ASSUME NEW y \in listed' PROVE \E j \in 1 .. count' : y = t[j]
    <3>1. CASE y = x
      BY <3>1, <1>3
    <3>2. CASE y # x
      <4>1. PICK j \in 1 .. count : y = s[j]
        BY <3>2 DEF Lists
      <4> QED
        BY <4>1, <1>2
    <3> QED
      BY <3>1, <3>2
  <2>2. ASSUME NEW j \in 1 .. count' PROVE t[j] \in listed'
    <3>1. CASE j = count'
      BY <3>1, <1>3
    <3>2. CASE j # count'
      BY <3>2, <1>2 DEF Lists
    <3> QED
      BY <3>1, <3>2
  <2> QED
    BY <2>1, <2>2
<1>5. \A j, k \in 1 .. count' : t[j] = t[k] => j = k
  BY <1>2, <1>3 DEF Lists
<1>6. first' = IF count' = 0 THEN NULL ELSE t[1]
  BY <1>2, <1>3 DEF Lists, LinkLast
<1>7. last' = IF count' = 0 THEN NULL ELSE t[count']
  BY <1>3 DEF LinkLast
<1>8. ASSUME NEW j \in 1 .. count'
      PROVE  next'[t[j]] = IF j = count' THEN NULL ELSE t[j + 1]
  <2>1. next \in [Things -> Ptr] /\ (last # NULL => last \in Things)
    BY DEF TypeOK, Ptr
  <2>2. CASE j = count'
    BY <2>1, <2>2, <1>3 DEF LinkLast, SetLink
  <2>3. CASE j # count'
    <3>1. j \in 1 .. count /\ t[j] = s[j] /\ s[j] # x /\ s[j] \in Things
      BY <2>3, <1>2
    <3>2. last # NULL /\ (s[j] = last <=> j = count)
      BY <3>1, <1>2 DEF Lists
    <3>3. next'[s[j]] = IF j = count THEN x ELSE next[s[j]]
      BY <2>1, <3>1, <3>2 DEF LinkLast, SetLink
    <3> QED
      BY <2>3, <3>1, <3>3, <1>2, <1>3 DEF Lists
  <2> QED
    BY <2>2, <2>3
<1>9. ASSUME NEW j \in 1 .. count'
      PROVE  prev'[t[j]] = IF j = 1 THEN NULL ELSE t[j - 1]
  <2>1. prev \in [Things -> Ptr]
    BY DEF TypeOK
  <2>2. CASE j = count'
    <3>1. prev'[t[j]] = last
      BY <2>1, <2>2, <1>3 DEF LinkLast
    <3> QED
      BY <2>2, <3>1, <1>2 DEF Lists
  <2>3. CASE j # count'
    <3>1. prev'[t[j]] = prev[s[j]]
      BY <2>1, <2>3, <1>2 DEF LinkLast
    <3> QED
      BY <2>3, <3>1, <1>2 DEF Lists
  <2> QED
    BY <2>2, <2>3
<1> QED
  BY <1>1, <1>4, <1>5, <1>6, <1>7, <1>8, <1>9 DEF Lists

LEMMA HeadMoved ==
  ASSUME TypeOK, NEW s, Lists(s), count > 1,
         NEW t, t = Rotated(s),
         MoveToEnd(s[1]), count' = count, listed' = listed
  PROVE  Lists(t)'
<1> USE ReaperAssumption
<1> count \in Nat
  BY DEF TypeOK
<1> DEFINE head == s[1]
<1>1. s \in [1 .. count -> Things] /\ t \in [1 .. count -> Things]
  BY DEF Lists, Rotated
<1>2. /\ \A j \in 1 .. count - 1 : t[j] = s[j + 1]
      /\ t[count] = head
  BY DEF Rotated
<1>3. \A j \in 1 .. count : s[j] \in Things /\ s[j] # NULL
  BY <1>1
<1>4. /\ prev[head] = NULL /\ next[head] = s[2] /\ last = s[count]
      /\ first = head /\ head \in Things
  BY <1>3 DEF Lists
<1>5. \A j \in 1 .. count : (s[j] = head <=> j = 1) /\ (s[j] = s[2] <=> j = 2)
                            /\ (s[j] = s[count] <=> j = count)
  BY DEF Lists
<1>6. listed' = {t[j] : j \in 1 .. count}
  <2>1. ASSUME NEW y \in listed PROVE \E j \in 1 .. count : y = t[j]
    <3>1. PICK j \in 1 .. count : y = s[j]
      BY DEF Lists
    <3>2. CASE j = 1
      BY <3>1, <3>2, <1>2
    <3>3. CASE j # 1
      <4>1. j - 1 \in 1 .. count - 1 /\ t[j - 1] = y
        BY <3>1, <3>3, <1>2
      <4> QED
        BY <4>1
    <3> QED
      BY <3>2, <3>3
  <2>2. ASSUME NEW j \in 1 .. count PROVE t[j] \in listed
    BY DEF Lists, Rotated
  <2> QED
    BY <2>1, <2>2
<1>7. \A j, k \in 1 .. count : t[j] = t[k] => j = k
  BY DEF Lists, Rotated
<1>8. first' = t[1] /\ last' = t[count]
  BY <1>2, <1>4 DEF MoveToEnd
<1> next \in [Things -> Ptr] /\ prev \in [Things -> Ptr]
  BY DEF TypeOK
<1>9. ASSUME NEW j \in 1 .. count
      PROVE  next'[s[j]] = IF j = 1 THEN NULL
                           ELSE IF j = count THEN head ELSE s[j + 1]
  <2>1. next' = [[next EXCEPT ![s[count]] = head] EXCEPT ![head] = NULL]
    BY <1>3, <1>4 DEF MoveToEnd, SetLink
  <2>2. next[s[j]] = IF j = count THEN NULL ELSE s[j + 1]
    BY DEF Lists
  <2> HIDE DEF head
  <2> QED
    BY <2>1, <2>2, <1>3, <1>5
<1>10. ASSUME NEW j \in 1 .. count
       PROVE  prev'[s[j]] = IF j = 1 THEN s[count]
                            ELSE IF j = 2 THEN NULL ELSE s[j - 1]
  <2>1. prev' = [[prev EXCEPT ![s[2]] = NULL] EXCEPT ![head] = s[count]]
    BY <1>3, <1>4 DEF MoveToEnd, SetLink
  <2>2. prev[s[j]] = IF j = 1 THEN NULL ELSE s[j - 1]
    BY DEF Lists
  <2> HIDE DEF head
  <2> QED
    BY <2>1, <2>2, <1>3, <1>5
<1>11. ASSUME NEW j \in 1 .. count
       PROVE  next'[t[j]] = IF j = count THEN NULL ELSE t[j + 1]
  <2>1. CASE j = count
    BY <2>1, <1>2, <1>9
  <2>2. CASE j # count
    <3>1. j + 1 \in 1 .. count /\ t[j] = s[j + 1]
      BY <2>2, <1>2
    <3>2. next'[s[j + 1]] = IF j + 1 = count THEN head ELSE s[(j + 1) + 1]
      BY <3>1, <1>9
    <3>3. t[j + 1] = IF j + 1 = count THEN head ELSE s[(j + 1) + 1]
      BY <3>1, <1>2
    <3> QED
      BY <2>2, <3>1, <3>2, <3>3
  <2> QED
    BY <2>1, <2>2
<1>12. ASSUME NEW j \in 1 .. count
       PROVE  prev'[t[j]] = IF j = 1 THEN NULL ELSE t[j - 1]
  <2>1. CASE j = count
    <3>1. prev'[t[j]] = s[count]
      BY <2>1, <1>2, <1>10
    <3>2. t[count - 1] = s[count]
      BY <1>2
    <3> QED
      BY <2>1, <3>1, <3>2
  <2>2. CASE j # count
    <3>1. j + 1 \in 1 .. count /\ t[j] = s[j + 1]
      BY <2>2, <1>2
    <3>2. prev'[s[j + 1]] = IF j + 1 = 2 THEN NULL ELSE s[j]
      BY <3>1, <1>10
    <3>3. j # 1 => t[j - 1] = s[j]
      BY <3>1, <1>2
    <3> QED
      BY <3>1, <3>2, <3>3
  <2> QED
    BY <2>1, <2>2
<1>13. /\ t \in [1 .. count' -> Things]
       /\ \A j, k \in 1 .. count' : t[j] = t[k] => j = k
       /\ first' = IF count' = 0 THEN NULL ELSE t[1]
       /\ last' = IF count' = 0 THEN NULL ELSE t[count']
  BY <1>1, <1>7, <1>8
<1>14. listed' = {t[j] : j \in 1 .. count'}
  BY <1>6
<1>15. \A j \in 1 .. count' :
         /\ next'[t[j]] = IF j = count' THEN NULL ELSE t[j + 1]
         /\ prev'[t[j]] = IF j = 1 THEN NULL ELSE t[j - 1]
  BY <1>11, <1>12
<1> QED
  BY <1>13, <1>14, <1>15 DEF Lists

LEMMA Untouched ==
  ASSUME NEW s, Lists(s), UNCHANGED <<first, last, next, prev, count, listed>>
  PROVE  Lists(s)'
BY DEF Lists

(* The same for the whole of the invariant that speaks of the list.        *)
Fits == \A s : count \in Nat /\ Lists(s) /\ Scanned(s) =>
          Order = s /\ Lists(Order) /\ Scanned(Order)

LEMMA OrderFits == Fits
BY OrderUnique DEF Fits, OneOrder

-----------------------------------------------------------------------------
(* The cursor of a loop that goes round again.                             *)

LEMMA Cursor ==
  ASSUME TypeOK, NEW s, Lists(s), Scanned(s), Scanning
  PROVE  /\ count > 0
         /\ scan.cur \in listed
         /\ scan.cur \notin scan.asked
<1> USE ReaperAssumption
<1>1. scan \in Scan /\ count \in Nat /\ s \in [1 .. count -> Things]
  BY DEF TypeOK, Lists
<1>2. scan.kind \in ScanKind /\ scan.kind # "idle" /\ scan.n \in Nat
  BY <1>1 DEF Scan, Scanning
<1> HIDE DEF Scan
<1>3. CASE scan.kind = "rescan"
  <2>1. Rescanning(s) /\ scan.cur # NULL
    BY <1>3 DEF Scanned, Scanning
  <2>2. PICK i \in 1 .. count + 1 :
          /\ scan.cur = IF i = count + 1 THEN NULL ELSE s[i]
          /\ \A j \in 1 .. count : s[j] \in scan.asked <=> j < i
    BY <2>1 DEF Rescanning
  <2>3. i \in 1 .. count /\ scan.cur = s[i]
    BY <1>1, <2>1, <2>2
  <2> QED
    BY <1>1, <2>2, <2>3 DEF Lists
<1>4. CASE scan.kind = "rotate"
  <2>1. Rotating(s) /\ scan.cur # NULL /\ scan.cur # scan.firstmoved
    BY <1>4 DEF Scanned, Scanning
  <2>2. PICK k \in 0 .. count :
          /\ k > 0 => scan.cur = s[1]
          /\ scan.cur # NULL => scan.cur = first
          /\ scan.firstmoved = IF k = count THEN NULL ELSE s[k + 1]
          /\ \A j \in 1 .. count : s[j] \in scan.asked <=> j > k
    BY <2>1 DEF Rotating
  <2>3. count > 0 /\ first = s[1]
    BY <1>1, <2>1, <2>2 DEF Lists
  <2>4. k # 0
    BY <1>1, <2>1, <2>2, <2>3
  <2> QED
    BY <1>1, <2>2, <2>3, <2>4 DEF Lists
<1>5. CASE scan.kind = "keep_place"
  <2>1. KeepingPlace(s) /\ scan.n < count
    BY <1>5 DEF Scanned, Scanning
  <2>2. PICK i \in 1 .. count, lo \in 1 .. count + 1 :
          /\ scan.cur = s[i]
          /\ KeptOn(s, i, lo) \/ KeptRound(s, i, lo)
    BY <2>1 DEF KeepingPlace
  <2>3. s[i] \notin scan.asked
    <3>1. CASE KeptOn(s, i, lo)
      BY <3>1 DEF KeptOn
    <3>2. CASE KeptRound(s, i, lo)
      BY <1>1, <1>2, <2>1, <3>2 DEF KeptRound
    <3> QED
      BY <2>2, <3>1, <3>2
  <2> QED
    BY <1>1, <2>2, <2>3 DEF Lists
<1> QED
  BY <1>2, <1>3, <1>4, <1>5 DEF ScanKind

LEMMA LinkType ==
  ASSUME NEW link \in [Things -> Ptr], NEW t \in Ptr, NEW to \in Ptr
  PROVE  SetLink(link, t, to) \in [Things -> Ptr]
BY DEF SetLink, Ptr

LEMMA UnlinkType ==
  ASSUME TypeOK, NEW t \in Things, Unlink(t) \/ UnlinkAndClear(t)
  PROVE  /\ next' \in [Things -> Ptr]
         /\ prev' \in [Things -> Ptr]
         /\ first' \in Ptr
         /\ last' \in Ptr
<1>1. NULL \in Ptr /\ next[t] \in Ptr /\ prev[t] \in Ptr
  BY DEF TypeOK, Ptr
<1>2. next \in [Things -> Ptr] /\ prev \in [Things -> Ptr]
  BY DEF TypeOK
<1>3. /\ SetLink(next, prev[t], next[t]) \in [Things -> Ptr]
      /\ SetLink(prev, next[t], prev[t]) \in [Things -> Ptr]
  BY <1>1, <1>2, LinkType
<1> QED
  BY <1>1, <1>3 DEF TypeOK, Unlink, UnlinkAndClear

LEMMA MoveType ==
  ASSUME TypeOK, NEW t \in Things, MoveToEnd(t)
  PROVE  /\ next' \in [Things -> Ptr]
         /\ prev' \in [Things -> Ptr]
         /\ first' \in Ptr
         /\ last' \in Ptr
<1>1. /\ NULL \in Ptr /\ t \in Ptr /\ last \in Ptr
      /\ next[t] \in Ptr /\ prev[t] \in Ptr
  BY DEF TypeOK, Ptr
<1>2. next \in [Things -> Ptr] /\ prev \in [Things -> Ptr]
  BY DEF TypeOK
<1>3. SetLink(next, prev[t], next[t]) \in [Things -> Ptr]
  BY <1>1, <1>2, LinkType
<1>4. SetLink(SetLink(next, prev[t], next[t]), last, t) \in [Things -> Ptr]
  BY <1>1, <1>3, LinkType
<1>5. SetLink(prev, next[t], prev[t]) \in [Things -> Ptr]
  BY <1>1, <1>2, LinkType
<1> QED
  BY <1>1, <1>4, <1>5 DEF TypeOK, MoveToEnd

LEMMA HangType ==
  ASSUME TypeOK, NEW t \in Things, LinkLast(t)
  PROVE  /\ next' \in [Things -> Ptr]
         /\ prev' \in [Things -> Ptr]
         /\ first' \in Ptr
         /\ last' \in Ptr
<1>1. NULL \in Ptr /\ t \in Ptr /\ last \in Ptr
  BY DEF TypeOK, Ptr
<1>2. next \in [Things -> Ptr] /\ prev \in [Things -> Ptr]
  BY DEF TypeOK
<1>3. SetLink(next, last, t) \in [Things -> Ptr]
  BY <1>1, <1>2, LinkType
<1> QED
  BY <1>1, <1>2, <1>3 DEF TypeOK, LinkLast

(* Types are kept as long as a loop's cursor is a thing and the count does *)
(* not go below zero.                                                      *)
LEMMA TypeStep ==
  ASSUME TypeOK, Next,
         Scanning => scan.cur \in listed,
         listed # {} => count > 0
  PROVE  TypeOK'
<1> USE ReaperAssumption
<1> DEFINE Links == /\ next' \in [Things -> Ptr]
                    /\ prev' \in [Things -> Ptr]
                    /\ first' \in Ptr
                    /\ last' \in Ptr
<1> NULL \in Ptr
  BY DEF Ptr
<1>0. NoScan \in Scan
  BY DEF NoScan, Scan, ScanKind
<1>1. ASSUME NEW t \in Things, AddReady(t) PROVE TypeOK'
  BY <1>1 DEF AddReady, links, owner, TypeOK
<1>2. ASSUME NEW t \in Things, AddLater(t) PROVE TypeOK'
  <2>1. Links
    BY <1>2, HangType DEF AddLater
  <2> QED
    BY <1>2, <2>1 DEF AddLater, owner, TypeOK, ResetTimer
<1>3. ASSUME NEW t \in Things, Withdraw(t) PROVE TypeOK'
  <2>1. Links
    BY <1>3, UnlinkType DEF Withdraw
  <2>2. position' \in Ptr /\ count' \in Nat
    BY <1>3 DEF Withdraw, LeavePosition, TypeOK
  <2> QED
    BY <1>3, <2>1, <2>2 DEF Withdraw, owner, TypeOK
<1>4. ASSUME NEW kind \in ScanKind, NEW force \in BOOLEAN,
             BeginScan(kind, force)
      PROVE  scan' \in Scan
  <2>1. StartOf(kind) \in Ptr /\ MaxNotReady \in Nat
    <3>1. RatioNum * count \in Nat
      BY DEF TypeOK
    <3> QED
      BY <3>1 DEF StartOf, MaxNotReady, TypeOK
  <2> QED
    BY <1>0, <1>4, <2>1 DEF BeginScan, Scan
<1>5. ASSUME TimerHandler PROVE TypeOK'
  <2>1. scan' \in Scan
    BY <1>4, <1>5 DEF TimerHandler, TypeOK
  <2> QED
    BY <1>5, <2>1 DEF TimerHandler, list, owner, TypeOK
<1>6. ASSUME StopFlush PROVE TypeOK'
  <2>1. scan' \in Scan
    BY <1>4, <1>6 DEF StopFlush, ScanKind
  <2> QED
    BY <1>6, <2>1 DEF StopFlush, list, owner, TypeOK
<1>7. ASSUME first' \in Ptr, scan.cur \in Things
      PROVE  Advance(next[scan.cur]) \in Ptr
  BY <1>7 DEF Advance, TypeOK
<1>8. ASSUME ScanReap PROVE TypeOK'
  <2>1. scan.cur \in Things /\ count > 0
    BY <1>8 DEF ScanReap, TypeOK
  <2>2. Links
    BY <1>8, <2>1, UnlinkType DEF ScanReap
  <2>3. position' \in Ptr
    BY <1>8, <2>1 DEF ScanReap, LeavePosition, TypeOK
  <2>4. scan' = [scan EXCEPT !.cur = Advance(next[scan.cur]),
                             !.n = Counted(@), !.asked = @ \cup {scan.cur}]
    BY <1>8 DEF ScanReap
  <2>5. scan' \in Scan
    <3>1. Advance(next[scan.cur]) \in Ptr
      BY <1>7, <2>1, <2>2
    <3>2. scan \in Scan
      BY DEF TypeOK
    <3>3. Counted(scan.n) \in Nat /\ scan.asked \cup {scan.cur} \in SUBSET Things
      BY <2>1, <3>2 DEF Counted, Scan
    <3> QED
      BY <2>4, <3>1, <3>2, <3>3 DEF Scan
  <2> QED
    BY <1>8, <2>1, <2>2, <2>3, <2>5 DEF ScanReap, owner, TypeOK
<1>9. ASSUME ScanKeep PROVE TypeOK'
  <2>1. scan.cur \in Things
    BY <1>9 DEF ScanKeep, TypeOK
  <2>2. Links
    <3>1. MoveToEnd(scan.cur) \/ UNCHANGED links
      BY <1>9 DEF ScanKeep
    <3> QED
      BY <2>1, <3>1, MoveType DEF links, TypeOK
  <2>3. Advance(next[scan.cur]) \in Ptr /\ scan \in Scan
    BY <1>7, <2>1, <2>2 DEF TypeOK
  <2>4. scan' \in Scan
    <3> DEFINE notready == IF scan.max > 0 THEN scan.notready + 1
                           ELSE scan.notready
               moved == IF scan.kind = "rotate" /\ scan.firstmoved = NULL
                        THEN scan.cur ELSE scan.firstmoved
    <3>1. Counted(scan.n) \in Nat /\ scan.asked \cup {scan.cur} \in SUBSET Things
      BY <2>1, <2>3 DEF Counted, Scan
    <3>2. notready \in Nat /\ moved \in Ptr
      BY <2>1, <2>3 DEF Scan, Ptr
    <3>3. scan' = [scan EXCEPT !.cur = Advance(next[scan.cur]),
                     !.n = Counted(scan.n),
                     !.asked = scan.asked \cup {scan.cur},
                     !.notready = notready, !.firstmoved = moved]
      BY <1>9 DEF ScanKeep
    <3> HIDE DEF notready, moved
    <3> QED
      BY <2>3, <3>1, <3>2, <3>3 DEF Scan
  <2> QED
    BY <1>9, <2>2, <2>4 DEF ScanKeep, owner, TypeOK
<1>10. ASSUME ScanEnd PROVE TypeOK'
  <2>1. position' \in Ptr
    BY <1>10 DEF ScanEnd, Scan, TypeOK
  <2>2. timer_set' \in BOOLEAN /\ stopped' \in BOOLEAN
    BY <1>10 DEF ScanEnd, ResetTimer, TypeOK
  <2>3. scan' \in Scan
    BY <1>0, <1>10 DEF ScanEnd
  <2> QED
    BY <1>10, <2>1, <2>2, <2>3 DEF ScanEnd, links, owner, TypeOK
<1>11. ASSUME NEW t \in Things, Ripen(t) \/ Unripen(t) PROVE TypeOK'
  BY <1>11 DEF Ripen, Unripen, list, TypeOK
<1>12. ASSUME Exit PROVE TypeOK'
  BY <1>12 DEF Exit, list, TypeOK
<1> QED
  BY <1>1, <1>2, <1>3, <1>5, <1>6, <1>8, <1>9, <1>10, <1>11, <1>12 DEF Next

-----------------------------------------------------------------------------
(* How the record of a scan changes when the thing under its cursor is     *)
(* reaped and when it is kept.                                             *)

LEMMA ReapFields ==
  ASSUME TypeOK, ScanReap
  PROVE  /\ scan'.kind = scan.kind
         /\ scan'.force = scan.force
         /\ scan'.firstmoved = scan.firstmoved
         /\ scan'.notready = scan.notready
         /\ scan'.cur = Advance(next[scan.cur])
         /\ scan'.n = Counted(scan.n)
         /\ scan'.asked = scan.asked \cup {scan.cur}
<1>1. scan \in Scan
  BY DEF TypeOK
<1>2. scan' = [scan EXCEPT !.cur = Advance(next[scan.cur]),
                           !.n = Counted(@), !.asked = @ \cup {scan.cur}]
  BY DEF ScanReap
<1> QED
  BY <1>1, <1>2 DEF Scan

LEMMA KeepFields ==
  ASSUME TypeOK, ScanKeep
  PROVE  /\ scan'.kind = scan.kind
         /\ scan'.force = scan.force
         /\ scan'.cur = Advance(next[scan.cur])
         /\ scan'.n = Counted(scan.n)
         /\ scan'.asked = scan.asked \cup {scan.cur}
         /\ scan'.firstmoved = IF scan.kind = "rotate" /\ scan.firstmoved = NULL
                               THEN scan.cur ELSE scan.firstmoved
<1>1. scan \in Scan
  BY DEF TypeOK
<1>2. scan' = [scan EXCEPT
       !.cur = Advance(next[scan.cur]),
       !.n = Counted(@),
       !.asked = @ \cup {scan.cur},
       !.notready = IF scan.max > 0 THEN @ + 1 ELSE @,
       !.firstmoved = IF scan.kind = "rotate" /\ @ = NULL
                      THEN scan.cur ELSE @]
  BY DEF ScanKeep
<1> QED
  BY <1>1, <1>2 DEF Scan

LEMMA OneIndex ==
  ASSUME TypeOK, NEW s, Lists(s)
  PROVE  /\ \A i, j \in 1 .. count : s[i] = s[j] => i = j
         /\ \A i \in 1 .. count : s[i] \in Things /\ s[i] \in listed
         /\ \A i \in 1 .. count : s[i] # NULL
BY ReaperAssumption DEF Lists

(* What is asked about is counted off in the order of the list.            *)
LEMMA AskedWithout ==
  ASSUME TypeOK, NEW s, Lists(s), NEW i \in 1 .. count,
         NEW t, t = Without(s, i),
         count' = count - 1, scan'.asked = scan.asked \cup {s[i]}
  PROVE  \A j \in 1 .. count' :
           t[j] \in scan'.asked <=>
             s[IF j < i THEN j ELSE j + 1] \in scan.asked
<1> count \in Nat
  BY DEF TypeOK
<1> TAKE j \in 1 .. count'
<1> DEFINE k == IF j < i THEN j ELSE j + 1
<1>1. k \in 1 .. count /\ k # i /\ t[j] = s[k]
  BY DEF Without
<1> HIDE DEF k
<1>2. s[k] # s[i]
  BY <1>1 DEF Lists
<1>3. t[j] \in scan'.asked <=> s[k] \in scan.asked
  BY <1>1, <1>2
<1> QED
  BY <1>3 DEF k

LEMMA ReapRescanning ==
  ASSUME TypeOK, NEW s, Lists(s), Rescanning(s), NEW i \in 1 .. count,
         scan.cur = s[i], NEW t, t = Without(s, i), count' = count - 1,
         scan'.cur = next[s[i]], scan'.asked = scan.asked \cup {s[i]},
         scan'.force = scan.force, scan'.notready = scan.notready
  PROVE  Rescanning(t)'
<1> USE ReaperAssumption
<1> count \in Nat /\ s \in [1 .. count -> Things]
  BY DEF TypeOK, Lists
<1>0. \A j \in 1 .. count' :
        t[j] \in scan'.asked <=> s[IF j < i THEN j ELSE j + 1] \in scan.asked
  BY AskedWithout
<1>1. PICK m \in 1 .. count + 1 :
        /\ scan.cur = IF m = count + 1 THEN NULL ELSE s[m]
        /\ \A j \in 1 .. count : s[j] \in scan.asked <=> j < m
        /\ scan.force => m = 1 /\ scan.notready = 0
  BY DEF Rescanning
<1>2. m = i
  <2>1. m # count + 1
    BY <1>1, OneIndex
  <2>2. m \in 1 .. count /\ s[m] = s[i]
    BY <1>1, <2>1
  <2> QED
    BY <2>2, OneIndex
<1>3. scan'.cur = IF i = count' + 1 THEN NULL ELSE t[i]
  BY DEF Lists, Without
<1>4. \A j \in 1 .. count' : t[j] \in scan'.asked <=> j < i
  BY <1>1, <1>2, <1>0
<1>5. i \in 1 .. count' + 1
  OBVIOUS
<1> QED
  BY <1>1, <1>2, <1>3, <1>4, <1>5 DEF Rescanning

LEMMA ReapRotating ==
  ASSUME TypeOK, NEW s, Lists(s), Rotating(s), NEW i \in 1 .. count,
         scan.cur = s[i], scan.cur \notin scan.asked,
         NEW t, t = Without(s, i), Lists(t)', count' = count - 1,
         scan'.cur = next[s[i]], scan'.asked = scan.asked \cup {s[i]},
         scan'.firstmoved = scan.firstmoved
  PROVE  i = 1 /\ Rotating(t)'
<1> USE ReaperAssumption
<1> count \in Nat /\ s \in [1 .. count -> Things]
  BY DEF TypeOK, Lists
<1>0. \A j \in 1 .. count' :
        t[j] \in scan'.asked <=> s[IF j < i THEN j ELSE j + 1] \in scan.asked
  BY AskedWithout
<1>1. PICK k \in 0 .. count :
        /\ k > 0 => scan.cur = s[1]
        /\ scan.cur # NULL => scan.cur = first
        /\ scan.firstmoved = IF k = count THEN NULL ELSE s[k + 1]
        /\ \A j \in 1 .. count : s[j] \in scan.asked <=> j > k
  BY DEF Rotating
<1>2. i = 1 /\ k > 0
  BY <1>1 DEF Lists
<1>3. scan'.cur = first'
  <2>1. first' = IF count' = 0 THEN NULL ELSE t[1]
    BY DEF Lists
  <2> QED
    BY <1>2, <2>1 DEF Lists, Without
<1>4. first' = IF count' = 0 THEN NULL ELSE t[1]
  BY DEF Lists
<1>5. scan'.firstmoved = IF k - 1 = count' THEN NULL ELSE t[(k - 1) + 1]
  BY <1>1, <1>2 DEF Without
<1>6. \A j \in 1 .. count' : t[j] \in scan'.asked <=> j > k - 1
  BY <1>1, <1>2, <1>0
<1>7. k - 1 \in 0 .. count' /\ (k - 1 > 0 => count' # 0)
  BY <1>2
<1> QED
  BY <1>2, <1>3, <1>4, <1>5, <1>6, <1>7 DEF Rotating

LEMMA ReapKeepingPlace ==
  ASSUME TypeOK, NEW s, Lists(s), KeepingPlace(s), NEW i \in 1 .. count,
         scan.cur = s[i], scan.n < count,
         NEW t, t = Without(s, i), Lists(t)', count' = count - 1,
         scan'.cur = IF next[s[i]] = NULL THEN first' ELSE next[s[i]],
         scan'.asked = scan.asked \cup {s[i]}, scan'.n = scan.n + 1
  PROVE  KeepingPlace(t)'
<1> USE ReaperAssumption
<1> count \in Nat /\ s \in [1 .. count -> Things] /\ scan.n \in Nat
  BY DEF TypeOK, Lists, Scan
<1>0. \A j \in 1 .. count' :
        t[j] \in scan'.asked <=> s[IF j < i THEN j ELSE j + 1] \in scan.asked
  BY AskedWithout
<1>1. PICK m \in 1 .. count, lo \in 1 .. count + 1 :
        /\ scan.cur = s[m]
        /\ KeptOn(s, m, lo) \/ KeptRound(s, m, lo)
  BY DEF KeepingPlace
<1>2. m = i
  BY <1>1, OneIndex
<1>3. first' = IF count' = 0 THEN NULL ELSE t[1]
  BY DEF Lists
<1>4. scan'.cur = IF count' = 0 THEN NULL ELSE IF i = count THEN t[1] ELSE t[i]
  BY <1>3 DEF Lists, Without
<1>5. \A j \in 1 .. count' : t[j] \in listed' /\ t[j] # NULL
  BY DEF Lists
<1>6. ASSUME scan'.n < count'
      PROVE  \E a \in 1 .. count', lo1 \in 1 .. count' + 1 :
               /\ scan'.cur = t[a]
               /\ KeptOn(t, a, lo1)' \/ KeptRound(t, a, lo1)'
  <2>1. CASE KeptOn(s, i, lo) /\ i # count
    <3>1. \A j \in 1 .. count' : t[j] \in scan'.asked <=> lo <= j /\ j < i
      BY <2>1, <1>0 DEF KeptOn
    <3>2. lo <= i /\ i - lo <= scan'.n
      BY <2>1 DEF KeptOn
    <3>3. KeptOn(t, i, lo)'
      BY <3>1, <3>2 DEF KeptOn
    <3>4. i \in 1 .. count' /\ lo \in 1 .. count' + 1 /\ scan'.cur = t[i]
      BY <2>1, <3>2, <1>4
    <3> QED
      BY <3>3, <3>4
  <2>2. CASE KeptOn(s, i, lo) /\ i = count
    <3>1. \A j \in 1 .. count' : t[j] \in scan'.asked <=> j < 1 \/ lo <= j
      BY <2>2, <1>0 DEF KeptOn
    <3>2. 1 <= lo /\ count' - (lo - 1) <= scan'.n
      BY <2>2 DEF KeptOn
    <3>3. KeptRound(t, 1, lo)'
      BY <3>1, <3>2 DEF KeptRound
    <3>4. 1 \in 1 .. count' /\ lo \in 1 .. count' + 1 /\ scan'.cur = t[1]
      BY <2>2, <1>4, <1>6 DEF KeptOn
    <3> QED
      BY <3>3, <3>4
  <2>3. CASE KeptRound(s, i, lo)
    <3>1. i < lo /\ i # count
      BY <1>6, <2>3 DEF KeptRound
    <3>2. \A j \in 1 .. count' : t[j] \in scan'.asked <=> j < i \/ lo - 1 <= j
      BY <2>3, <3>1, <1>0 DEF KeptRound
    <3>3. i <= lo - 1 /\ count' - ((lo - 1) - i) <= scan'.n
      BY <2>3, <3>1 DEF KeptRound
    <3>4. KeptRound(t, i, lo - 1)'
      BY <3>2, <3>3 DEF KeptRound
    <3>5. i \in 1 .. count' /\ lo - 1 \in 1 .. count' + 1 /\ scan'.cur = t[i]
      BY <3>1, <1>4
    <3> QED
      BY <3>4, <3>5
  <2> QED
    BY <1>1, <1>2, <2>1, <2>2, <2>3
<1>7. (scan'.cur = NULL <=> count' = 0) /\ (scan'.cur # NULL => scan'.cur \in listed')
  BY <1>4, <1>5
<1> QED
  BY <1>6, <1>7 DEF KeepingPlace

LEMMA KeepRescanning ==
  ASSUME TypeOK, NEW s, Lists(s), Rescanning(s), NEW i \in 1 .. count,
         scan.cur = s[i], ~scan.force, count' = count,
         scan'.cur = next[s[i]], scan'.asked = scan.asked \cup {s[i]},
         scan'.force = scan.force
  PROVE  Rescanning(s)'
<1> USE ReaperAssumption
<1> count \in Nat /\ s \in [1 .. count -> Things]
  BY DEF TypeOK, Lists
<1>1. PICK m \in 1 .. count + 1 :
        /\ scan.cur = IF m = count + 1 THEN NULL ELSE s[m]
        /\ \A j \in 1 .. count : s[j] \in scan.asked <=> j < m
  BY DEF Rescanning
<1>2. m = i
  <2>1. m # count + 1
    BY <1>1, OneIndex
  <2>2. m \in 1 .. count /\ s[m] = s[i]
    BY <1>1, <2>1
  <2> QED
    BY <2>2, OneIndex
<1>3. scan'.cur = IF i + 1 = count + 1 THEN NULL ELSE s[i + 1]
  BY DEF Lists
<1>4. \A j \in 1 .. count : s[j] \in scan'.asked <=> j < i + 1
  BY <1>1, <1>2 DEF Lists
<1> QED
  BY <1>3, <1>4 DEF Rescanning

LEMMA KeepRotating ==
  ASSUME TypeOK, NEW s, Lists(s), Rotating(s), NEW i \in 1 .. count,
         scan.cur = s[i], scan.cur \notin scan.asked,
         NEW t, t = Rotated(s), Lists(t)', count' = count,
         scan'.cur = next[s[i]], scan'.asked = scan.asked \cup {s[i]},
         scan'.firstmoved = IF scan.firstmoved = NULL THEN scan.cur
                            ELSE scan.firstmoved
  PROVE  i = 1 /\ Rotating(t)'
<1> USE ReaperAssumption
<1> count \in Nat /\ s \in [1 .. count -> Things]
  BY DEF TypeOK, Lists
<1>1. PICK k \in 0 .. count :
        /\ k > 0 => scan.cur = s[1]
        /\ scan.cur # NULL => scan.cur = first
        /\ scan.firstmoved = IF k = count THEN NULL ELSE s[k + 1]
        /\ \A j \in 1 .. count : s[j] \in scan.asked <=> j > k
  BY DEF Rotating
<1>2. i = 1 /\ k > 0
  BY <1>1 DEF Lists
<1>3. scan'.cur = IF count = 1 THEN NULL ELSE t[1]
  BY <1>2 DEF Lists, Rotated
<1>4. first' = t[1]
  BY <1>2 DEF Lists
<1>5. scan'.firstmoved = IF k - 1 = count THEN NULL ELSE t[(k - 1) + 1]
  BY <1>1, <1>2 DEF Rotated
<1>6. ASSUME NEW j \in 1 .. count
      PROVE  t[j] \in scan'.asked <=> j > k - 1
  <2>1. CASE j = count
    BY <1>2, <2>1 DEF Rotated
  <2>2. CASE j # count
    <3>1. t[j] = s[j + 1] /\ j + 1 \in 1 .. count /\ s[j + 1] # s[1]
      BY <2>2 DEF Rotated, Lists
    <3> QED
      BY <3>1, <1>1, <1>2
  <2> QED
    BY <2>1, <2>2
<1>7. k - 1 \in 0 .. count /\ (k - 1 > 0 => count # 1)
  BY <1>2
<1> QED
  BY <1>2, <1>3, <1>4, <1>5, <1>6, <1>7 DEF Rotating

LEMMA KeepKeepingPlace ==
  ASSUME TypeOK, NEW s, Lists(s), KeepingPlace(s), NEW i \in 1 .. count,
         scan.cur = s[i], scan.n < count,
         count' = count, listed' = listed,
         scan'.cur = IF next[s[i]] = NULL THEN first ELSE next[s[i]],
         scan'.asked = scan.asked \cup {s[i]}, scan'.n = scan.n + 1
  PROVE  KeepingPlace(s)'
<1> USE ReaperAssumption
<1> count \in Nat /\ s \in [1 .. count -> Things] /\ scan.n \in Nat
  BY DEF TypeOK, Lists, Scan
<1>1. PICK m \in 1 .. count, lo \in 1 .. count + 1 :
        /\ scan.cur = s[m]
        /\ KeptOn(s, m, lo) \/ KeptRound(s, m, lo)
  BY DEF KeepingPlace
<1>2. m = i
  BY <1>1, OneIndex
<1>3. scan'.cur = IF i = count THEN s[1] ELSE s[i + 1]
  <2>1. next[s[i]] = (IF i = count THEN NULL ELSE s[i + 1]) /\ first = s[1]
    BY DEF Lists
  <2> QED
    BY <2>1, OneIndex
<1>4. \A j \in 1 .. count : s[j] \in listed /\ s[j] # NULL
  BY DEF Lists
<1>5. \A j \in 1 .. count : s[j] \in scan'.asked <=> s[j] \in scan.asked \/ j = i
  BY DEF Lists
<1>6. ASSUME scan'.n < count
      PROVE  \E a \in 1 .. count', lo1 \in 1 .. count' + 1 :
               /\ scan'.cur = s[a]
               /\ KeptOn(s, a, lo1)' \/ KeptRound(s, a, lo1)'
  <2>1. CASE KeptOn(s, i, lo) /\ i # count
    <3>1. \A j \in 1 .. count : s[j] \in scan'.asked <=> lo <= j /\ j < i + 1
      BY <2>1, <1>5 DEF KeptOn
    <3>2. lo <= i + 1 /\ i + 1 - lo <= scan'.n
      BY <2>1 DEF KeptOn
    <3>3. KeptOn(s, i + 1, lo)'
      BY <3>1, <3>2 DEF KeptOn
    <3>4. i + 1 \in 1 .. count /\ scan'.cur = s[i + 1]
      BY <2>1, <1>3
    <3> QED
      BY <3>3, <3>4
  <2>2. CASE KeptOn(s, i, lo) /\ i = count
    <3>1. \A j \in 1 .. count : s[j] \in scan'.asked <=> j < 1 \/ lo <= j
      BY <2>2, <1>5 DEF KeptOn
    <3>2. 1 <= lo /\ count - (lo - 1) <= scan'.n
      BY <2>2 DEF KeptOn
    <3>3. KeptRound(s, 1, lo)'
      BY <3>1, <3>2 DEF KeptRound
    <3>4. 1 \in 1 .. count /\ scan'.cur = s[1]
      BY <2>2, <1>3
    <3> QED
      BY <3>3, <3>4
  <2>3. CASE KeptRound(s, i, lo)
    <3>1. i < lo /\ i # count
      BY <1>6, <2>3 DEF KeptRound
    <3>2. \A j \in 1 .. count : s[j] \in scan'.asked <=> j < i + 1 \/ lo <= j
      BY <2>3, <3>1, <1>5 DEF KeptRound
    <3>3. i + 1 <= lo /\ count - (lo - (i + 1)) <= scan'.n
      BY <2>3, <3>1 DEF KeptRound
    <3>4. KeptRound(s, i + 1, lo)'
      BY <3>2, <3>3 DEF KeptRound
    <3>5. i + 1 \in 1 .. count /\ scan'.cur = s[i + 1]
      BY <3>1, <1>3
    <3> QED
      BY <3>4, <3>5
  <2> QED
    BY <1>1, <1>2, <2>1, <2>2, <2>3
<1>7. (scan'.cur = NULL <=> count = 0) /\ (scan'.cur # NULL => scan'.cur \in listed)
  BY <1>3, <1>4
<1> QED
  BY <1>6, <1>7 DEF KeepingPlace

-----------------------------------------------------------------------------
(* What each of the reaper's operations does to the list s and to the scan *)
(* of it.                                                                  *)

LEMMA ReapStep ==
  ASSUME TypeOK, NEW s, Lists(s), Scanned(s), ScanReap
  PROVE  \E i \in 1 .. count : \E t :
           /\ s[i] = scan.cur
           /\ t = Without(s, i)
           /\ Lists(t)'
           /\ Scanned(t)'
<1> USE ReaperAssumption
<1>0. scan.kind \in ScanKind \ {"idle"} /\ count \in Nat
  BY DEF ScanReap, Scanning, TypeOK, Scan
<1>1. scan.cur \in listed /\ scan.cur \notin scan.asked /\ Scanning
  BY Cursor DEF ScanReap
<1>2. PICK i \in 1 .. count : s[i] = scan.cur
  BY <1>1 DEF Lists
<1>3. PICK t : t = Without(s, i)
  OBVIOUS
<1>4. count' = count - 1 /\ listed' = listed \ {s[i]} /\ Unlink(s[i])
  BY <1>2 DEF ScanReap
<1>5. Lists(t)'
  BY <1>3, <1>4, Removed
<1>6. /\ scan'.kind = scan.kind
      /\ scan'.force = scan.force
      /\ scan'.firstmoved = scan.firstmoved
      /\ scan'.notready = scan.notready
      /\ scan'.cur = IF scan.kind = "keep_place" /\ next[s[i]] = NULL
                     THEN first' ELSE next[s[i]]
      /\ scan'.n = IF scan.kind = "keep_place" THEN scan.n + 1 ELSE scan.n
      /\ scan'.asked = scan.asked \cup {s[i]}
  BY <1>2, ReapFields DEF Advance, Counted
<1>7. CASE scan.kind = "rescan"
  <2>1. Rescanning(t)'
    BY <1>2, <1>3, <1>4, <1>6, <1>7, ReapRescanning DEF Scanned
  <2> QED
    BY <1>2, <1>3, <1>5, <1>6, <1>7, <2>1 DEF Scanned
<1>8. CASE scan.kind = "rotate"
  <2>1. Rotating(t)'
    BY <1>1, <1>2, <1>3, <1>4, <1>5, <1>6, <1>8, ReapRotating DEF Scanned
  <2> QED
    BY <1>2, <1>3, <1>5, <1>6, <1>8, <2>1 DEF Scanned
<1>9. CASE scan.kind = "keep_place"
  <2>1. scan.n < count /\ KeepingPlace(s)
    BY <1>1, <1>9 DEF Scanned, Scanning
  <2>2. KeepingPlace(t)'
    BY <1>2, <1>3, <1>4, <1>5, <1>6, <1>9, <2>1, ReapKeepingPlace
  <2> QED
    BY <1>2, <1>3, <1>5, <1>6, <1>9, <2>2 DEF Scanned
<1> QED
  BY <1>0, <1>7, <1>8, <1>9 DEF ScanKind

LEMMA KeepStep ==
  ASSUME TypeOK, NEW s, Lists(s), Scanned(s), Places, ScanKeep
  PROVE  \E t :
           /\ \/ t = s
              \/ /\ t = Rotated(s)
                 /\ count > 0
                 /\ scan.cur = s[1]
                 /\ ~scan.force
           /\ Lists(t)'
           /\ Scanned(t)'
<1> USE ReaperAssumption
<1>0. /\ scan.kind \in ScanKind \ {"idle"} /\ count \in Nat
      /\ s \in [1 .. count -> Things] /\ ~scan.force
  BY DEF ScanKeep, Scanning, Ready, TypeOK, Scan, Lists
<1>1. /\ scan.cur \in listed /\ scan.cur \notin scan.asked /\ Scanning
      /\ count > 0
  BY Cursor DEF ScanKeep
<1>2. PICK i \in 1 .. count : s[i] = scan.cur
  BY <1>1 DEF Lists
<1>3. count' = count /\ listed' = listed
  BY DEF ScanKeep
<1>4. /\ scan'.kind = scan.kind
      /\ scan'.force = scan.force
      /\ scan'.firstmoved = IF scan.kind = "rotate" /\ scan.firstmoved = NULL
                            THEN scan.cur ELSE scan.firstmoved
      /\ scan'.cur = IF scan.kind = "keep_place" /\ next[s[i]] = NULL
                     THEN first' ELSE next[s[i]]
      /\ scan'.n = IF scan.kind = "keep_place" THEN scan.n + 1 ELSE scan.n
      /\ scan'.asked = scan.asked \cup {s[i]}
  BY <1>2, KeepFields DEF Advance, Counted
<1>5. ASSUME UNCHANGED links PROVE Lists(s)'
  BY <1>3, <1>5, Untouched DEF links
<1>6. CASE scan.kind = "rescan"
  <2>1. Lists(s)'
    BY <1>5, <1>6 DEF ScanKeep
  <2>2. Rescanning(s)'
    BY <1>0, <1>2, <1>3, <1>4, <1>6, KeepRescanning DEF Scanned
  <2> QED
    BY <1>4, <1>6, <2>1, <2>2 DEF Scanned
<1>7. CASE scan.kind = "rotate"
  <2>1. PICK t : t = Rotated(s)
    OBVIOUS
  <2>2. Rotating(s) /\ scan.cur = s[1]
    <3>1. Rotating(s)
      BY <1>7 DEF Scanned
    <3>2. scan.cur = first
      BY <1>2, <3>1, OneIndex DEF Rotating
    <3> QED
      BY <1>1, <3>1, <3>2 DEF Lists
  <2>3. Lists(t)'
    <3>1. CASE last = scan.cur
      <4>1. count = 1
        <5>1. s[count] = s[1] /\ 1 \in 1 .. count /\ count \in 1 .. count
          BY <1>0, <1>1, <2>2, <3>1 DEF Lists
        <5> QED
          BY <5>1, OneIndex
      <4>2. t = s
        BY <1>0, <2>1, <4>1 DEF Rotated
      <4>3. UNCHANGED links
        BY <3>1 DEF ScanKeep
      <4> QED
        BY <1>5, <4>2, <4>3
    <3>2. CASE last # scan.cur
      <4>1. MoveToEnd(s[1])
        BY <1>7, <2>2, <3>2 DEF ScanKeep
      <4>2. count > 1
        BY <1>0, <1>1, <2>2, <3>2 DEF Lists
      <4> QED
        BY <1>3, <2>1, <4>1, <4>2, HeadMoved
    <3> QED
      BY <3>1, <3>2
  <2>4. Rotating(t)'
    BY <1>1, <1>2, <1>3, <1>4, <1>7, <2>1, <2>2, <2>3, KeepRotating
  <2>5. Scanned(t)'
    BY <1>4, <1>7, <2>4 DEF Scanned
  <2> QED
    BY <1>0, <1>1, <2>1, <2>2, <2>3, <2>5
<1>8. CASE scan.kind = "keep_place"
  <2>1. UNCHANGED links
    BY <1>8 DEF ScanKeep
  <2>2. Lists(s)' /\ first' = first
    BY <1>5, <2>1 DEF links
  <2>3. scan.n < count /\ KeepingPlace(s)
    BY <1>1, <1>8 DEF Scanned, Scanning
  <2>4. KeepingPlace(s)'
    BY <1>2, <1>3, <1>4, <1>8, <2>2, <2>3, KeepKeepingPlace
  <2> QED
    BY <1>4, <1>8, <2>2, <2>4 DEF Scanned
<1> QED
  BY <1>0, <1>6, <1>7, <1>8 DEF ScanKind

LEMMA BeginStep ==
  ASSUME TypeOK, NEW s, Lists(s), Places,
         NEW kind \in ScanKind \ {"idle"}, NEW force \in BOOLEAN,
         force => kind = "rescan", BeginScan(kind, force), UNCHANGED list
  PROVE  /\ Lists(s)'
         /\ Scanned(s)'
         /\ scan'.kind = kind
         /\ scan'.force = force
<1> USE ReaperAssumption
<1>0. count \in Nat /\ s \in [1 .. count -> Things]
  BY DEF TypeOK, Lists
<1>1. Lists(s)' /\ count' = count /\ first' = first /\ listed' = listed
  BY Untouched DEF list
<1>2. /\ scan'.kind = kind /\ scan'.force = force
      /\ scan'.cur = StartOf(kind) /\ scan'.firstmoved = NULL
      /\ scan'.n = 0 /\ scan'.notready = 0 /\ scan'.asked = {}
  BY DEF BeginScan, NoScan
<1>3. first = IF count = 0 THEN NULL ELSE s[1]
  BY DEF Lists
<1>4. CASE kind = "rescan"
  <2>1. scan'.cur = IF 1 = count' + 1 THEN NULL ELSE s[1]
    BY <1>0, <1>1, <1>2, <1>3, <1>4 DEF StartOf
  <2>2. \A j \in 1 .. count' : s[j] \in scan'.asked <=> j < 1
    BY <1>0, <1>1, <1>2
  <2>3. Rescanning(s)'
    BY <1>0, <1>1, <1>2, <2>1, <2>2 DEF Rescanning
  <2> QED
    BY <1>1, <1>2, <1>4, <2>3 DEF Scanned
<1>5. CASE kind = "rotate"
  <2>1. scan'.cur = first'
    BY <1>1, <1>2, <1>5 DEF StartOf
  <2>2. \A j \in 1 .. count' : s[j] \in scan'.asked <=> j > count'
    BY <1>0, <1>1, <1>2
  <2>3. Rotating(s)'
    BY <1>0, <1>1, <1>2, <1>3, <2>1, <2>2 DEF Rotating
  <2> QED
    BY <1>1, <1>2, <1>5, <2>3 DEF Scanned
<1>6. CASE kind = "keep_place"
  <2>1. scan'.cur = IF position # NULL THEN position ELSE first
    BY <1>2, <1>6 DEF StartOf
  <2>2. \A j \in 1 .. count : s[j] \in listed /\ s[j] # NULL
    BY OneIndex
  <2>3. scan'.cur = NULL <=> count = 0
    <3>1. position # NULL => count # 0
      BY <1>0 DEF Places, Lists
    <3> QED
      BY <1>0, <1>3, <2>1, <2>2, <3>1
  <2>4. scan'.cur # NULL => scan'.cur \in listed
    BY <1>0, <1>3, <2>1, <2>2 DEF Places
  <2>5. ASSUME 0 < count
        PROVE  \E i \in 1 .. count', lo \in 1 .. count' + 1 :
                 /\ scan'.cur = s[i]
                 /\ KeptOn(s, i, lo)' \/ KeptRound(s, i, lo)'
    <3>1. PICK i \in 1 .. count : scan'.cur = s[i]
      BY <1>0, <2>3, <2>4, <2>5 DEF Lists
    <3>2. KeptOn(s, i, i)'
      BY <1>0, <1>1, <1>2 DEF KeptOn
    <3>3. i \in 1 .. count' /\ i \in 1 .. count' + 1
      BY <1>0, <1>1
    <3> QED
      BY <3>1, <3>2, <3>3
  <2>6. KeepingPlace(s)'
    BY <1>1, <1>2, <2>3, <2>4, <2>5 DEF KeepingPlace
  <2> QED
    BY <1>1, <1>2, <1>6, <2>6 DEF Scanned
<1> QED
  BY <1>4, <1>5, <1>6 DEF ScanKind

LEMMA AddStep ==
  ASSUME TypeOK, NEW s, Lists(s), Scanned(s), NEW x \in Things, AddLater(x)
  PROVE  \E t : t = With(s, x) /\ Lists(t)' /\ Scanned(t)'
<1>1. PICK t : t = With(s, x)
  OBVIOUS
<1>2. Lists(t)'
  BY <1>1, Appended DEF AddLater
<1>3. Scanned(t)'
  BY DEF AddLater, Idle, Scanned, NoScan
<1> QED
  BY <1>1, <1>2, <1>3

LEMMA WithdrawStep ==
  ASSUME TypeOK, NEW s, Lists(s), Scanned(s), NEW x \in Things, Withdraw(x)
  PROVE  \E i \in 1 .. count : \E t :
           s[i] = x /\ t = Without(s, i) /\ Lists(t)' /\ Scanned(t)'
<1>1. PICK i \in 1 .. count : s[i] = x
  BY DEF Withdraw, Lists
<1>2. PICK t : t = Without(s, i)
  OBVIOUS
<1>3. Lists(t)'
  BY <1>1, <1>2, Removed DEF Withdraw
<1>4. Scanned(t)'
  BY DEF Withdraw, Idle, Scanned, NoScan
<1> QED
  BY <1>1, <1>2, <1>3, <1>4

-----------------------------------------------------------------------------
(* The invariant is inductive.                                             *)

LEMMA FitsNext == Fits'
BY OrderFits, PTL

LEMMA Initially == Init => IInv
<1> SUFFICES ASSUME Init PROVE IInv
  OBVIOUS
<1> USE ReaperAssumption DEF Init
<1>1. TypeOK
  BY DEF TypeOK, Ptr, Scan, ScanKind, NoScan
<1>2. PICK s : s = [i \in 1 .. 0 |-> NULL]
  OBVIOUS
<1>3. Lists(s)
  BY <1>2 DEF Lists
<1>4. Scanned(s) /\ scan.kind = "idle" /\ scan.force = FALSE
  BY DEF Scanned, NoScan
<1>5. Lists(Order) /\ Scanned(Order)
  BY <1>3, <1>4, OrderFits DEF Fits
<1> QED
  BY <1>1, <1>4, <1>5 DEF IInv, Places, Timers

(* A place that is kept is in the list although a thing leaves it.         *)
LEMMA PlaceKept ==
  ASSUME TypeOK, NEW s, Lists(s), Places, NEW i \in 1 .. count,
         LeavePosition(s[i]), listed' = listed \ {s[i]}, UNCHANGED strategy
  PROVE  position' # NULL => strategy' = "keep_place" /\ position' \in listed'
<1>1. count \in Nat
  BY DEF TypeOK
<1>2. next[s[i]] # NULL => next[s[i]] \in listed /\ next[s[i]] # s[i]
  <2> SUFFICES ASSUME next[s[i]] # NULL
               PROVE  next[s[i]] \in listed /\ next[s[i]] # s[i]
    OBVIOUS
  <2>1. i # count /\ next[s[i]] = s[i + 1] /\ i + 1 \in 1 .. count
    BY <1>1 DEF Lists
  <2> QED
    BY <1>1, <2>1, OneIndex
<1> QED
  BY <1>2 DEF LeavePosition, Places

(* A forced scan that ends has emptied the list.                           *)
LEMMA ForcedEnd ==
  ASSUME TypeOK, NEW s, Lists(s), Scanned(s), Places,
         scan.force, scan.kind # "idle", ~Scanning
  PROVE  listed = {}
<1>1. scan.kind = "rescan" /\ Rescanning(s) /\ count \in Nat
  BY DEF Places, Scanned, TypeOK
<1>2. PICK i \in 1 .. count + 1 :
        /\ scan.cur = IF i = count + 1 THEN NULL ELSE s[i]
        /\ scan.force => i = 1 /\ scan.notready = 0
  BY <1>1 DEF Rescanning
<1>3. scan.notready <= scan.max
  BY <1>2 DEF TypeOK, Scan
<1>4. scan.cur = NULL
  BY <1>1, <1>3 DEF Scanning
<1>5. count = 0
  BY <1>1, <1>2, <1>4, OneIndex
<1> QED
  BY <1>5 DEF Lists

LEMMA Inductive == IInv /\ [Next]_vars => IInv'
<1> SUFFICES ASSUME IInv, [Next]_vars PROVE IInv'
  OBVIOUS
<1> USE ReaperAssumption
<1> DEFINE Rest == TypeOK' /\ Places' /\ Timers'
<1>0. PICK s : s = Order
  OBVIOUS
<1>1. TypeOK /\ Lists(s) /\ Scanned(s) /\ Places /\ Timers
  BY <1>0 DEF IInv
<1>2. /\ count \in Nat
      /\ s \in [1 .. count -> Things]
      /\ scan.kind \in ScanKind
      /\ listed # {} => count > 0
      /\ count = 0 => listed = {}
  BY <1>1 DEF TypeOK, Lists, Scan
<1>3. ASSUME Next PROVE TypeOK'
  BY <1>1, <1>2, <1>3, Cursor, TypeStep
<1>4. ASSUME NEW t, Lists(t)', Scanned(t)', TypeOK', Places', Timers'
      PROVE  IInv'
  <2>1. count' \in Nat
    BY <1>4 DEF TypeOK
  <2>2. Lists(Order)' /\ Scanned(Order)'
    BY <1>4, <2>1, FitsNext DEF Fits
  <2> QED
    BY <1>4, <2>2 DEF IInv
<1>5. ASSUME UNCHANGED list, UNCHANGED scan PROVE Lists(s)' /\ Scanned(s)'
  <2>1. Lists(s)'
    BY <1>1, <1>5, Untouched DEF list
  <2>2. Scanned(s)'
    BY <1>1, <1>5 DEF Scanned, Rescanning, Rotating, KeepingPlace, KeptOn,
                      KeptRound, list
  <2> QED
    BY <2>1, <2>2
<1>6. ASSUME NEW x \in Things, AddReady(x) PROVE IInv'
  <2>1. Lists(s)'
    BY <1>1, <1>6, Untouched DEF AddReady, links
  <2>2. Scanned(s)'
    BY <1>1, <1>6 DEF AddReady, Idle, Scanned, NoScan
  <2>3. Places' /\ Timers'
    BY <1>1, <1>6 DEF AddReady, Places, Timers, owner
  <2>4. TypeOK'
    BY <1>3, <1>6 DEF Next
  <2> QED
    BY <1>4, <2>1, <2>2, <2>3, <2>4
<1>7. ASSUME NEW x \in Things, AddLater(x) PROVE IInv'
  <2>1. PICK t : t = With(s, x) /\ Lists(t)' /\ Scanned(t)'
    BY <1>1, <1>7, AddStep
  <2>2. Places'
    BY <1>1, <1>7 DEF AddLater, Places, owner
  <2>3. Timers'
    BY <1>1, <1>2, <1>7 DEF AddLater, Timers, Idle, ResetTimer, owner
  <2>4. TypeOK'
    BY <1>3, <1>7 DEF Next
  <2> QED
    BY <1>4, <2>1, <2>2, <2>3, <2>4
<1>8. ASSUME NEW x \in Things, Withdraw(x) PROVE IInv'
  <2>1. PICK i \in 1 .. count : \E t :
          s[i] = x /\ t = Without(s, i) /\ Lists(t)' /\ Scanned(t)'
    BY <1>1, <1>8, WithdrawStep
  <2>2. PICK t : Lists(t)' /\ Scanned(t)'
    BY <2>1
  <2>3. position' # NULL => strategy' = "keep_place" /\ position' \in listed'
    BY <1>1, <1>8, <2>1, PlaceKept DEF Withdraw, owner
  <2>4. Places'
    BY <1>1, <1>8, <2>3 DEF Withdraw, Places, owner
  <2>5. Timers'
    BY <1>1, <1>2, <1>8 DEF Withdraw, Timers, Idle, owner
  <2>6. TypeOK'
    BY <1>3, <1>8 DEF Next
  <2> QED
    BY <1>4, <2>2, <2>4, <2>5, <2>6
<1>9. ASSUME TimerHandler PROVE IInv'
  <2>1. strategy \in ScanKind \ {"idle"}
    BY <1>1 DEF TypeOK
  <2>2. Lists(s)' /\ Scanned(s)' /\ scan'.kind = strategy /\ scan'.force = FALSE
    BY <1>1, <1>9, <2>1, BeginStep DEF TimerHandler
  <2>3. Places'
    BY <1>1, <1>9, <2>2 DEF TimerHandler, Places, list, owner
  <2>4. Timers'
    BY <1>1, <1>9, <2>1, <2>2 DEF TimerHandler, Timers, Idle, list, owner
  <2>5. TypeOK'
    BY <1>3, <1>9 DEF Next
  <2> QED
    BY <1>4, <2>2, <2>3, <2>4, <2>5
<1>10. ASSUME StopFlush PROVE IInv'
  <2>1. "rescan" \in ScanKind \ {"idle"}
    BY DEF ScanKind
  <2>2. Lists(s)' /\ Scanned(s)' /\ scan'.kind = "rescan" /\ scan'.force = TRUE
    BY <1>1, <1>10, <2>1, BeginStep DEF StopFlush
  <2>3. Places'
    BY <1>1, <1>10, <2>2 DEF StopFlush, Places, list, owner
  <2>4. Timers'
    BY <1>1, <1>10, <2>2 DEF StopFlush, Timers, Idle, list, owner
  <2>5. TypeOK'
    BY <1>3, <1>10 DEF Next
  <2> QED
    BY <1>4, <2>2, <2>3, <2>4, <2>5
<1>11. ASSUME ScanReap PROVE IInv'
  <2>1. PICK i \in 1 .. count : \E t :
          /\ s[i] = scan.cur
          /\ t = Without(s, i)
          /\ Lists(t)'
          /\ Scanned(t)'
    BY <1>1, <1>11, ReapStep
  <2>2. PICK t : Lists(t)' /\ Scanned(t)'
    BY <2>1
  <2>3. position' # NULL => strategy' = "keep_place" /\ position' \in listed'
    BY <1>1, <1>11, <2>1, PlaceKept DEF ScanReap, owner
  <2>4. scan'.kind = scan.kind /\ scan'.force = scan.force /\ scan.kind # "idle"
    BY <1>1, <1>11, ReapFields DEF ScanReap, Scanning
  <2>5. Places'
    BY <1>1, <1>11, <2>3, <2>4 DEF ScanReap, Places, owner
  <2>6. Timers'
    BY <1>1, <1>11, <2>4 DEF ScanReap, Timers
  <2>7. TypeOK'
    BY <1>3, <1>11 DEF Next
  <2> QED
    BY <1>4, <2>2, <2>5, <2>6, <2>7
<1>12. ASSUME ScanKeep PROVE IInv'
  <2>1. PICK t : Lists(t)' /\ Scanned(t)'
    BY <1>1, <1>12, KeepStep
  <2>2. scan'.kind = scan.kind /\ scan'.force = scan.force /\ scan.kind # "idle"
    BY <1>1, <1>12, KeepFields DEF ScanKeep, Scanning
  <2>3. Places'
    BY <1>1, <1>12, <2>2 DEF ScanKeep, Places, owner
  <2>4. Timers'
    BY <1>1, <1>12, <2>2 DEF ScanKeep, Timers
  <2>5. TypeOK'
    BY <1>3, <1>12 DEF Next
  <2> QED
    BY <1>4, <2>1, <2>3, <2>4, <2>5
<1>13. ASSUME ScanEnd PROVE IInv'
  <2>1. Lists(s)'
    BY <1>1, <1>13, Untouched DEF ScanEnd, links
  <2>2. scan' = NoScan /\ scan'.kind = "idle" /\ scan'.force = FALSE
    BY <1>13 DEF ScanEnd, NoScan
  <2>3. Scanned(s)'
    BY <2>2 DEF Scanned
  <2>4. Places'
    <3>1. CASE scan.kind = "keep_place"
      <4>1. position' = scan.cur /\ strategy' = "keep_place" /\ listed' = listed
        BY <1>1, <1>13, <3>1 DEF ScanEnd, Places, owner
      <4>2. scan.cur # NULL => scan.cur \in listed
        BY <1>1, <3>1 DEF Scanned, KeepingPlace
      <4> QED
        BY <2>2, <4>1, <4>2 DEF Places
    <3>2. CASE scan.kind # "keep_place"
      BY <1>1, <1>13, <2>2, <3>2 DEF ScanEnd, Places, owner
    <3> QED
      BY <3>1, <3>2
  <2>5. scan.force => listed = {}
    BY <1>1, <1>13, ForcedEnd DEF ScanEnd
  <2>6. Timers'
    <3>1. scan.kind # "idle" /\ ~stopped
      BY <1>1, <1>13 DEF ScanEnd, Timers
    <3>2. CASE scan.force
      BY <1>13, <2>2, <2>5, <3>2 DEF ScanEnd, Timers
    <3>3. CASE ~scan.force
      BY <1>13, <2>2, <3>1, <3>3 DEF ScanEnd, Timers, ResetTimer, owner
    <3> QED
      BY <3>2, <3>3
  <2>7. TypeOK'
    BY <1>3, <1>13 DEF Next
  <2> QED
    BY <1>4, <2>1, <2>3, <2>4, <2>6, <2>7
<1>14. ASSUME NEW x \in Things, Ripen(x) \/ Unripen(x) PROVE IInv'
  <2>1. UNCHANGED <<list, timer_set, scan, exiting, strategy, stopped>>
    BY <1>14 DEF Ripen, Unripen
  <2>2. Places' /\ Timers'
    BY <1>1, <2>1 DEF Places, Timers, list
  <2>3. TypeOK'
    BY <1>3, <1>14 DEF Next
  <2> QED
    BY <1>4, <1>5, <2>1, <2>2, <2>3
<1>15. ASSUME Exit PROVE IInv'
  <2>1. UNCHANGED <<list, timer_set, scan, strategy, stopped>> /\ exiting'
    BY <1>15 DEF Exit
  <2>2. Places' /\ Timers'
    BY <1>1, <2>1 DEF Places, Timers, list
  <2>3. TypeOK'
    BY <1>3, <1>15 DEF Next
  <2> QED
    BY <1>4, <1>5, <2>1, <2>2, <2>3
<1>16. ASSUME UNCHANGED vars PROVE IInv'
  <2>1. UNCHANGED list /\ UNCHANGED scan
    BY <1>16 DEF vars, list
  <2>2. TypeOK' /\ Places' /\ Timers'
    BY <1>1, <1>16 DEF vars, TypeOK, Places, Timers
  <2> QED
    BY <1>4, <1>5, <2>1, <2>2
<1> QED
  BY <1>6, <1>7, <1>8, <1>9, <1>10, <1>11, <1>12, <1>13, <1>14, <1>15, <1>16
     DEF Next

LEMMA Invariance == Spec => []IInv
BY Initially, Inductive, PTL DEF Spec

-----------------------------------------------------------------------------
(* The safety properties of the runs.                                      *)

LEMMA CountIsSize ==
  ASSUME TypeOK, NEW s, Lists(s)
  PROVE  count = Cardinality(listed)
<1>1. count \in Nat
  BY DEF TypeOK
<1>2. s \in [1 .. count -> listed]
  BY DEF Lists
<1>3. s \in Bijection(1 .. count, listed)
  BY <1>2 DEF Bijection, Injection, Surjection, IsInjective, Lists
<1> QED
  BY <1>1, <1>3, FS_CountingElements DEF ExistsBijection

(* The list of reaper.c is a list: whatever is added, withdrawn, reaped or *)
(* moved, its links, its two ends and its count agree with one another and *)
(* with what was added and has not left.                                   *)
THEOREM ListAlwaysOK == Spec => []ListOK
<1>1. IInv => ListOK
  <2> SUFFICES ASSUME IInv PROVE ListOK
    OBVIOUS
  <2> USE ReaperAssumption
  <2>1. PICK s : s = Order
    OBVIOUS
  <2>2. TypeOK /\ Lists(s) /\ count \in Nat /\ s \in [1 .. count -> Things]
    BY <2>1 DEF IInv, TypeOK, Lists
  <2>3. count = Cardinality(listed)
    BY <2>2, CountIsSize
  <2>4. /\ \A i \in 1 .. count : s[i] \in listed /\ s[i] # NULL
        /\ listed = {} <=> count = 0
    BY <2>2 DEF Lists
  <2>5. /\ first = NULL <=> listed = {}
        /\ last = NULL <=> listed = {}
        /\ first # NULL => first \in listed /\ prev[first] = NULL
        /\ last # NULL => last \in listed /\ next[last] = NULL
    <3>1. CASE count = 0
      BY <2>2, <2>4, <3>1 DEF Lists
    <3>2. CASE count # 0
      <4>1. 1 \in 1 .. count /\ count \in 1 .. count
        BY <2>2, <3>2
      <4>2. first = s[1] /\ last = s[count]
        BY <2>2, <3>2 DEF Lists
      <4>3. prev[s[1]] = NULL /\ next[s[count]] = NULL
        BY <2>2, <4>1 DEF Lists
      <4> QED
        BY <2>4, <3>2, <4>1, <4>2, <4>3
    <3> QED
      BY <3>1, <3>2
  <2>6. ASSUME NEW t \in listed
        PROVE  /\ next[t] = NULL => t = last
               /\ prev[t] = NULL => t = first
               /\ next[t] # NULL => next[t] \in listed /\ prev[next[t]] = t
               /\ prev[t] # NULL => prev[t] \in listed /\ next[prev[t]] = t
    <3>1. PICK i \in 1 .. count : t = s[i]
      BY <2>2 DEF Lists
    <3>2. /\ next[t] = IF i = count THEN NULL ELSE s[i + 1]
          /\ prev[t] = IF i = 1 THEN NULL ELSE s[i - 1]
      BY <2>2, <3>1 DEF Lists
    <3>3. i # count => next[t] # NULL /\ next[t] \in listed /\ prev[next[t]] = t
      <4> SUFFICES ASSUME i # count
                   PROVE  next[t] # NULL /\ next[t] \in listed /\ prev[next[t]] = t
        OBVIOUS
      <4>1. i + 1 \in 1 .. count /\ i + 1 # 1 /\ (i + 1) - 1 = i
        BY <2>2
      <4>2. prev[s[i + 1]] = s[i]
        BY <2>2, <4>1 DEF Lists
      <4> QED
        BY <2>4, <3>1, <3>2, <4>1, <4>2
    <3>4. i # 1 => prev[t] # NULL /\ prev[t] \in listed /\ next[prev[t]] = t
      <4> SUFFICES ASSUME i # 1
                   PROVE  prev[t] # NULL /\ prev[t] \in listed /\ next[prev[t]] = t
        OBVIOUS
      <4>1. i - 1 \in 1 .. count /\ i - 1 # count /\ (i - 1) + 1 = i
        BY <2>2
      <4>2. next[s[i - 1]] = s[i]
        BY <2>2, <4>1 DEF Lists
      <4> QED
        BY <2>4, <3>1, <3>2, <4>1, <4>2
    <3>5. /\ i = count => t = last /\ next[t] = NULL
          /\ i = 1 => t = first /\ prev[t] = NULL
      BY <2>2, <3>1, <3>2 DEF Lists
    <3> QED
      BY <3>3, <3>4, <3>5
  <2> QED
    BY <2>2, <2>3, <2>5, <2>6 DEF ListOK
<1> QED
  BY <1>1, Invariance, PTL

(* No scan and no kept place is left with a pointer to a thing that is not *)
(* in the list, whatever is withdrawn between two of its steps.            *)
THEOREM CursorNeverDangles == Spec => []CursorListed
<1>1. IInv => CursorListed
  BY Cursor DEF IInv, CursorListed, Places
<1> QED
  BY <1>1, Invariance, PTL

(* No scan asks about a thing it has asked about before, whatever moves to *)
(* the end of the list meanwhile.                                          *)
THEOREM ScansAskOnce == Spec => []AskedOnce
<1>1. IInv => AskedOnce
  BY Cursor DEF IInv, AskedOnce, Places
<1> QED
  BY <1>1, Invariance, PTL

(* What waits in the list has a timer that will scan it, and a reaper that *)
(* was stopped has neither things nor a timer.                             *)
THEOREM TimerStaysArmed == Spec => []TimerArmed
<1>1. IInv => TimerArmed
  <2> SUFFICES ASSUME IInv PROVE TimerArmed
    OBVIOUS
  <2>1. PICK s : s = Order
    OBVIOUS
  <2>2. TypeOK /\ Lists(s) /\ Timers
    BY <2>1 DEF IInv
  <2>3. listed = {} => first = NULL
    BY <2>2 DEF Lists, TypeOK
  <2> QED
    BY <2>2, <2>3 DEF Timers, TimerArmed
<1> QED
  BY <1>1, Invariance, PTL

-----------------------------------------------------------------------------
(* The queue.  The three ways of handling the list are its three ways of   *)
(* changing a sequence.                                                    *)

LEMMA IsSequence ==
  ASSUME NEW n \in Nat, NEW s \in [1 .. n -> Things]
  PROVE  s \in Seq(Things) /\ Len(s) = n /\ DOMAIN s = 1 .. n
<1>1. s \in Seq(Things)
  BY SeqDef
<1>2. Len(s) \in Nat /\ DOMAIN s = 1 .. Len(s) /\ DOMAIN s = 1 .. n
  BY <1>1, LenProperties
<1> QED
  BY <1>1, <1>2

LEMMA WithAppends ==
  ASSUME count \in Nat, NEW s \in [1 .. count -> Things], NEW x \in Things,
         NEW t, t = With(s, x)
  PROVE  t = Append(s, x)
<1>1. s \in Seq(Things) /\ Len(s) = count
  BY IsSequence
<1>2. t \in [1 .. count + 1 -> Things] /\ count + 1 \in Nat
  BY DEF With
<1>3. t \in Seq(Things) /\ Len(t) = count + 1
  BY <1>2, IsSequence
<1>4. /\ Append(s, x) \in Seq(Things)
      /\ Len(Append(s, x)) = count + 1
      /\ \A i \in 1 .. count : Append(s, x)[i] = s[i]
      /\ Append(s, x)[count + 1] = x
  BY <1>1, AppendProperties
<1>5. \A i \in 1 .. Len(t) : t[i] = Append(s, x)[i]
  BY <1>3, <1>4 DEF With
<1> QED
  BY <1>3, <1>4, <1>5, SeqEqual

LEMMA WithoutLeaves ==
  ASSUME count \in Nat, NEW s \in [1 .. count -> Things], NEW i \in 1 .. count,
         NEW t, t = Without(s, i)
  PROVE  t = SubSeq(s, 1, i - 1) \o SubSeq(s, i + 1, Len(s))
<1>1. Len(s) = count
  BY IsSequence
<1>2. t \in [1 .. count - 1 -> Things] /\ count - 1 \in Nat
  BY DEF Without
<1>3. t \in Seq(Things) /\ Len(t) = count - 1
  BY <1>2, IsSequence
<1> DEFINE a == SubSeq(s, 1, i - 1)
           b == SubSeq(s, i + 1, count)
<1>4. /\ a \in Seq(Things) /\ Len(a) = i - 1
      /\ \A j \in 1 .. i - 1 : a[j] = s[j]
  BY SubSeqProperties
<1>5. /\ b \in Seq(Things) /\ Len(b) = count - i
      /\ \A j \in 1 .. count - i : b[j] = s[i + j]
  <2>1. /\ b \in Seq(Things)
        /\ Len(b) = IF i + 1 <= count THEN count - (i + 1) + 1 ELSE 0
        /\ \A j \in 1 .. count - (i + 1) + 1 : b[j] = s[(i + 1) + j - 1]
    <3>1. i + 1 \in Int /\ count \in Int
      OBVIOUS
    <3>2. \A j \in i + 1 .. count : s[j] \in Things
      OBVIOUS
    <3> QED
      BY <3>1, <3>2, SubSeqProperties
  <2> HIDE DEF b
  <2> QED
    BY <2>1
<1> HIDE DEF a, b
<1>6. /\ a \o b \in Seq(Things)
      /\ Len(a \o b) = count - 1
      /\ \A j \in 1 .. count - 1 :
           (a \o b)[j] = IF j <= i - 1 THEN a[j] ELSE b[j - (i - 1)]
  <2>1. /\ a \o b \in Seq(Things)
        /\ Len(a \o b) = Len(a) + Len(b)
        /\ \A j \in 1 .. Len(a) + Len(b) :
             (a \o b)[j] = IF j <= Len(a) THEN a[j] ELSE b[j - Len(a)]
    BY <1>4, <1>5, ConcatProperties
  <2>2. Len(a) = i - 1 /\ Len(a) + Len(b) = count - 1
    BY <1>4, <1>5
  <2> QED
    BY <2>1, <2>2
<1>7. \A j \in 1 .. count - 1 : t[j] = (a \o b)[j]
  <2> TAKE j \in 1 .. count - 1
  <2>1. CASE j <= i - 1
    BY <2>1, <1>4, <1>6 DEF Without
  <2>2. CASE ~(j <= i - 1)
    <3>1. j - (i - 1) \in 1 .. count - i /\ i + (j - (i - 1)) = j + 1
      BY <2>2
    <3>2. b[j - (i - 1)] = s[j + 1]
      BY <1>5, <3>1
    <3> QED
      BY <2>2, <3>2, <1>6 DEF Without
  <2> QED
    BY <2>1, <2>2
<1>8. t = a \o b
  BY <1>3, <1>6, <1>7, SeqEqual
<1> QED
  BY <1>1, <1>8 DEF a, b

LEMMA RotatedRotates ==
  ASSUME count \in Nat, count > 0, NEW s \in [1 .. count -> Things],
         NEW t, t = Rotated(s)
  PROVE  s # <<>> /\ Head(s) = s[1] /\ t = Append(Tail(s), Head(s))
<1>1. s \in Seq(Things) /\ Len(s) = count /\ s # <<>>
  BY IsSequence
<1>2. t \in [1 .. count -> Things]
  BY DEF Rotated
<1>3. t \in Seq(Things) /\ Len(t) = count
  BY <1>2, IsSequence
<1>4. Head(s) = s[1] /\ Head(s) \in Things
  BY <1>1
<1>5. /\ Tail(s) \in Seq(Things)
      /\ Len(Tail(s)) = count - 1
      /\ \A i \in 1 .. count - 1 : Tail(s)[i] = s[i + 1]
  BY <1>1, HeadTailProperties
<1>6. /\ Append(Tail(s), Head(s)) \in Seq(Things)
      /\ Len(Append(Tail(s), Head(s))) = count
      /\ \A i \in 1 .. count - 1 :
           Append(Tail(s), Head(s))[i] = Tail(s)[i]
      /\ Append(Tail(s), Head(s))[count] = Head(s)
  BY <1>4, <1>5, AppendProperties
<1>7. \A i \in 1 .. count : t[i] = Append(Tail(s), Head(s))[i]
  BY <1>4, <1>5, <1>6 DEF Rotated
<1>8. t = Append(Tail(s), Head(s))
  BY <1>3, <1>6, <1>7, SeqEqual
<1> QED
  BY <1>1, <1>4, <1>8

-----------------------------------------------------------------------------
(* Every step of the reaper is a step of the queue, or leaves it alone.    *)

LEMMA OrderNext ==
  ASSUME TypeOK', NEW t, Lists(t)'
  PROVE  Order' = t
<1>1. OneOrder'
  BY OrderUnique, PTL
<1> QED
  BY <1>1 DEF OneOrder, TypeOK

LEMMA StartsQueue == Init => Queue!Init
<1> SUFFICES ASSUME Init PROVE Queue!Init
  OBVIOUS
<1>1. PICK s : s = Order
  OBVIOUS
<1>2. TypeOK /\ Lists(s)
  BY <1>1, Initially DEF IInv
<1>3. s = <<>>
  <2>1. s \in [1 .. 0 -> Things] /\ 0 \in Nat
    BY <1>2 DEF Init, Lists
  <2>2. s \in Seq(Things) /\ Len(s) = 0
    BY <2>1, IsSequence
  <2> QED
    BY <2>2, EmptySeq
<1> QED
  BY <1>1, <1>3 DEF Init, Queue!Init, Phase, NoScan

LEMMA QueueStep == IInv /\ IInv' /\ [Next]_vars => [Queue!Next]_(Queue!vars)
<1> SUFFICES ASSUME IInv, IInv', [Next]_vars PROVE [Queue!Next]_(Queue!vars)
  OBVIOUS
<1> USE ReaperAssumption
<1>0. PICK s : s = Order
  OBVIOUS
<1>1. TypeOK /\ Lists(s) /\ Scanned(s) /\ Places /\ Timers /\ TypeOK'
  BY <1>0 DEF IInv
<1>2. /\ count \in Nat /\ s \in [1 .. count -> Things]
      /\ Len(s) = count /\ DOMAIN s = 1 .. count
      /\ \A i \in 1 .. count : s[i] \in Things
      /\ listed = {s[i] : i \in DOMAIN s}
  BY <1>1, IsSequence DEF TypeOK, Lists
<1>3. Idle => Phase = "open" /\ scan = NoScan /\ scan.force = FALSE
  BY <1>1 DEF Idle, Phase, Scanned, NoScan
<1>4. ASSUME Lists(s)' PROVE Order' = Order
  BY <1>0, <1>1, <1>4, OrderNext
<1>5. ASSUME UNCHANGED <<first, last, next, prev, count, listed, reaped, ripe>>,
             Phase' = Phase
      PROVE  UNCHANGED Queue!vars
  BY <1>1, <1>4, <1>5, Untouched DEF Queue!vars
<1>6. ASSUME UNCHANGED <<scan, stopped>> PROVE Phase' = Phase
  BY <1>6 DEF Phase
<1>7. ASSUME NEW x \in Things, AddReady(x) PROVE Queue!Add(x)
  <2>1. Order' = Order /\ Phase' = Phase /\ Phase = "open"
    BY <1>1, <1>3, <1>4, <1>6, <1>7, Untouched DEF AddReady, links
  <2>2. x \notin Queue!Waiting
    BY <1>0, <1>2, <1>7 DEF AddReady, Queue!Waiting
  <2> QED
    BY <1>7, <2>1, <2>2 DEF AddReady, Queue!Add, owner
<1>8. ASSUME NEW x \in Things, AddLater(x) PROVE Queue!Add(x)
  <2>1. PICK t : t = With(s, x) /\ Lists(t)'
    BY <1>1, <1>8, AddStep
  <2>2. Order' = Append(Order, x)
    BY <1>0, <1>1, <1>2, <2>1, OrderNext, WithAppends
  <2>3. Phase' = Phase /\ Phase = "open"
    BY <1>3, <1>6, <1>8 DEF AddLater
  <2>4. x \notin Queue!Waiting
    BY <1>0, <1>2, <1>8 DEF AddLater, Queue!Waiting
  <2> QED
    BY <1>8, <2>2, <2>3, <2>4 DEF AddLater, Queue!Add, owner
<1>9. ASSUME NEW i \in 1 .. count, NEW t, t = Without(s, i), Lists(t)'
      PROVE  Queue!Leave(i) /\ i \in DOMAIN Order
  <2>1. Order' = t
    BY <1>1, <1>9, OrderNext
  <2>2. t = SubSeq(s, 1, i - 1) \o SubSeq(s, i + 1, Len(s))
    BY <1>2, <1>9, WithoutLeaves
  <2> QED
    BY <1>0, <1>2, <2>1, <2>2 DEF Queue!Leave
<1>10. ASSUME NEW x \in Things, Withdraw(x)
       PROVE  \E i \in DOMAIN Order : Queue!Withdraw(i)
  <2>1. PICK i \in 1 .. count : \E t :
          s[i] = x /\ t = Without(s, i) /\ Lists(t)' /\ Scanned(t)'
    BY <1>1, <1>10, WithdrawStep
  <2>2. Queue!Leave(i) /\ i \in DOMAIN Order
    BY <1>9, <2>1
  <2>3. Phase' = Phase /\ Phase = "open"
    BY <1>3, <1>6, <1>10 DEF Withdraw
  <2>4. Queue!Withdraw(i)
    BY <1>10, <2>2, <2>3 DEF Withdraw, Queue!Withdraw, owner
  <2> QED
    BY <2>2, <2>4
<1>11. ASSUME ScanReap
       PROVE  \E i \in DOMAIN Order : Queue!Reap(i)
  <2>1. PICK i \in 1 .. count : \E t :
          /\ s[i] = scan.cur
          /\ t = Without(s, i)
          /\ Lists(t)'
          /\ Scanned(t)'
    BY <1>1, <1>11, ReapStep
  <2>2. Queue!Leave(i) /\ i \in DOMAIN Order
    BY <1>9, <2>1
  <2>3. scan.force = scan'.force /\ stopped' = stopped /\ ~stopped
    BY <1>1, <1>11, ReapFields DEF ScanReap, Scanning, Timers
  <2>4. Phase' = Phase /\ (scan.force => Phase = "closing")
    BY <2>3 DEF Phase
  <2>5. Phase = "closing" \/ Order[i] \in ripe
    BY <1>0, <1>11, <2>1, <2>4 DEF ScanReap, Ready
  <2>6. reaped' = reaped \cup {Order[i]} /\ ripe' = ripe
    BY <1>0, <1>11, <2>1 DEF ScanReap, owner
  <2>7. Queue!Reap(i)
    BY <2>2, <2>4, <2>5, <2>6 DEF Queue!Reap
  <2> QED
    BY <2>2, <2>7
<1>12. ASSUME ScanKeep
       PROVE  Queue!Rotate \/ UNCHANGED Queue!vars
  <2>1. PICK t :
          /\ \/ t = s
             \/ /\ t = Rotated(s)
                /\ count > 0
                /\ scan.cur = s[1]
                /\ ~scan.force
          /\ Lists(t)'
          /\ Scanned(t)'
    BY <1>1, <1>12, KeepStep
  <2>2. Order' = t /\ reaped' = reaped /\ ripe' = ripe
    BY <1>1, <1>12, <2>1, OrderNext DEF ScanKeep, owner
  <2>3. scan.force = scan'.force /\ stopped' = stopped /\ ~stopped
    BY <1>1, <1>12, KeepFields DEF ScanKeep, Scanning, Timers
  <2>4. Phase' = Phase /\ (~scan.force => Phase = "open")
    BY <2>3 DEF Phase
  <2>5. CASE t = s
    BY <1>0, <2>2, <2>4, <2>5 DEF Queue!vars
  <2>6. CASE /\ t = Rotated(s)
             /\ count > 0
             /\ scan.cur = s[1]
             /\ ~scan.force
    <3>1. s # <<>> /\ Head(s) = s[1] /\ t = Append(Tail(s), Head(s))
      BY <1>2, <2>6, RotatedRotates
    <3>2. Head(s) \notin ripe
      BY <1>12, <2>6, <3>1 DEF ScanKeep, Ready
    <3> QED
      BY <1>0, <2>2, <2>4, <2>6, <3>1, <3>2 DEF Queue!Rotate
  <2> QED
    BY <2>1, <2>5, <2>6
<1>13. ASSUME TimerHandler PROVE UNCHANGED Queue!vars
  <2>1. scan'.force = FALSE
    BY <1>13 DEF TimerHandler, BeginScan, NoScan
  <2>2. Phase' = Phase
    BY <1>3, <1>13, <2>1 DEF TimerHandler, Idle, Phase
  <2> QED
    BY <1>5, <1>13, <2>2 DEF TimerHandler, list, owner
<1>14. ASSUME StopFlush PROVE Queue!Close
  <2>1. scan'.force = TRUE /\ stopped' = FALSE
    BY <1>1, <1>14 DEF StopFlush, BeginScan, NoScan, Idle, TypeOK
  <2>2. Phase = "open" /\ Phase' = "closing"
    BY <1>3, <1>14, <2>1 DEF StopFlush, Phase
  <2>3. UNCHANGED <<first, last, next, prev, count, listed, reaped, ripe>>
    BY <1>14 DEF StopFlush, list, owner
  <2>4. Order' = Order
    BY <1>1, <1>4, <2>3, Untouched
  <2> QED
    BY <2>2, <2>3, <2>4 DEF Queue!Close
<1>15. ASSUME ScanEnd PROVE Queue!Close \/ UNCHANGED Queue!vars
  <2>1. UNCHANGED <<first, last, next, prev, count, listed, reaped, ripe>>
    BY <1>15 DEF ScanEnd, links, owner
  <2>2. ~stopped /\ scan'.force = FALSE
    BY <1>1, <1>15 DEF ScanEnd, NoScan, Timers
  <2>3. CASE scan.force
    <3>1. Order' = Order
      BY <1>1, <1>4, <2>1, Untouched
    <3>2. Phase = "closing" /\ Phase' = "closed"
      BY <1>15, <2>2, <2>3 DEF ScanEnd, Phase
    <3>3. Order = <<>>
      <4>1. listed = {}
        BY <1>1, <1>15, <2>3, ForcedEnd DEF ScanEnd
      <4>2. s \in Seq(Things) /\ Len(s) = 0
        BY <1>2, <4>1, IsSequence
      <4> QED
        BY <1>0, <4>2, EmptySeq
    <3> QED
      BY <2>1, <3>1, <3>2, <3>3 DEF Queue!Close
  <2>4. CASE ~scan.force
    <3>1. Phase' = Phase
      BY <1>15, <2>2, <2>4 DEF ScanEnd, Phase
    <3> QED
      BY <1>5, <2>1, <3>1
  <2> QED
    BY <2>3, <2>4
<1>16. ASSUME NEW x \in Things, Ripen(x) \/ Unripen(x) PROVE Queue!Owner
  <2>1. Order' = Order /\ Phase' = Phase /\ Phase = "open" /\ reaped' = reaped
    BY <1>1, <1>3, <1>4, <1>6, <1>16, Untouched DEF Ripen, Unripen, list
  <2>2. ripe' \in SUBSET Things
    BY <1>1 DEF TypeOK
  <2> QED
    BY <2>1, <2>2 DEF Queue!Owner
<1>17. ASSUME Exit \/ UNCHANGED vars PROVE UNCHANGED Queue!vars
  <2>1. UNCHANGED <<first, last, next, prev, count, listed, reaped, ripe>>
    BY <1>17 DEF Exit, list, vars
  <2>2. Phase' = Phase
    BY <1>6, <1>17 DEF Exit, vars
  <2> QED
    BY <1>5, <2>1, <2>2
<1>18. CASE Next
  BY <1>7, <1>8, <1>10, <1>11, <1>12, <1>13, <1>14, <1>15, <1>16, <1>17, <1>18
     DEF Next, Queue!Next
<1> QED
  BY <1>17, <1>18

(* The doubly linked list and its scans implement the queue that a reaper  *)
(* is for its owner: things leave it only by being withdrawn, by being     *)
(* ripe or because it closes, and it is reordered only head to tail.       *)
THEOREM QueueImplemented == Spec => ImplementsQueue
<1>1. Init => Queue!Init
  BY StartsQueue
<1>2. IInv /\ IInv' /\ [Next]_vars => [Queue!Next]_(Queue!vars)
  BY QueueStep
<1> QED
  BY <1>1, <1>2, Invariance, PTL DEF Spec, ImplementsQueue, Queue!Spec
=============================================================================
