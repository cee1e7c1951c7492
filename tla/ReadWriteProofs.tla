-------------------------- MODULE ReadWriteProofs --------------------------
(***************************************************************************)
(* What ReadWrite promises, for any number of readers below the number     *)
(* that disallows reading, for rulesets, phases, lists and rules, and with *)
(* any amount of drift.                                                    *)
(***************************************************************************)
EXTENDS ReadWrite, FiniteSetTheorems, TLAPS

\* Who is counted is inside, a refused reader is not counted and not on its
\* way in, and the manager keeps `writing` set until it resets it.
Ties ==
  /\ \A r \in counted : rpc[r] \in {"in", "leave"} /\ r \notin refused
  /\ \A r \in refused : rpc[r] \in {"in", "leave", "recheck", "deferred"}
  /\ wpc \in {"reserve", "update", "release", "reset"} =>
       writing = WFX_WRITE_PENDING

\* From the moment `writing` is set, a reader that may get in uncounted, or is
\* in, is one of those the counter missed at that moment.
MissedCover ==
  wpc \in {"reserve", "update", "release"} =>
    \A r \in Readers : rpc[r] = "check" \/ r \in Inside \ counted => r \in missed

\* Reading is never disallowed twice.
BlocksOnce == blocks <= 1

IInv == TypeOK /\ Ties /\ ReadingAccounts /\ CountedExcluded /\ BlocksOnce /\ MissedCover

-----------------------------------------------------------------------------
\* The type invariant is inductive.
LEMMA TypeStep == TypeOK /\ [Next]_vars => TypeOK'
<1> SUFFICES ASSUME TypeOK, [Next]_vars PROVE TypeOK'
  OBVIOUS
<1> USE ReadWriteAssumption DEF TypeOK, ReaderAt, WriterAt, Elements, Go, Manage, reader,
        history, WFX_WRITE_PENDING
<1>1. ASSUME NEW r \in Readers, CheckWriting(r) PROVE TypeOK'
  BY <1>1 DEF CheckWriting, Refuse, Refused
<1>2. ASSUME NEW r \in Readers, CheckReading(r) PROVE TypeOK'
  BY <1>2 DEF CheckReading
<1>3. ASSUME NEW r \in Readers, CountIn(r) PROVE TypeOK'
  BY <1>3 DEF CountIn
<1>4. ASSUME NEW r \in Readers, UndoCount(r) PROVE TypeOK'
  BY <1>4 DEF UndoCount, Refuse, Refused
<1>5. ASSUME NEW r \in Readers, Leave(r) PROVE TypeOK'
  BY <1>5 DEF Leave
<1>6. ASSUME NEW r \in Readers, CountOut(r) PROVE TypeOK'
  BY <1>6 DEF CountOut, After
<1>7. ASSUME NEW r \in Readers, RecheckWriting(r) PROVE TypeOK'
  BY <1>7 DEF RecheckWriting, After
<1>8. ASSUME NEW r \in Readers, Close(r) PROVE TypeOK'
  BY <1>8 DEF Close
<1>9. CASE ReservePending
  BY <1>9 DEF ReservePending, Inside
<1>10. CASE DelayUpdate
  BY <1>10 DEF DelayUpdate
<1>11. CASE ReserveReading
  BY <1>11 DEF ReserveReading
<1>12. CASE Update \/ UpdateFails \/ AssertReading
  BY <1>12 DEF Update, UpdateFails, AssertReading
<1>13. CASE ResetWriting
  BY <1>13 DEF ResetWriting
<1>14. CASE AllowReading
  BY <1>14 DEF AllowReading
<1>15. CASE ResumeWrite
  BY <1>15 DEF ResumeWrite
<1>16. CASE UNCHANGED vars
  BY <1>16 DEF vars
<1> QED
  BY <1>1, <1>2, <1>3, <1>4, <1>5, <1>6, <1>7, <1>8, <1>9, <1>10, <1>11, <1>12,
     <1>13, <1>14, <1>15, <1>16 DEF Next, Reader, Manager

\* So is the shape of the readers' and the manager's progress.
LEMMA TiesStep == TypeOK /\ Ties /\ [Next]_vars => Ties'
<1> SUFFICES ASSUME TypeOK, Ties, [Next]_vars PROVE Ties'
  OBVIOUS
<1> USE DEF TypeOK, Ties, ReaderAt, Go, Manage, reader, WFX_WRITE_PENDING
<1>1. ASSUME NEW r \in Readers, CheckWriting(r) PROVE Ties'
  BY <1>1 DEF CheckWriting, Refuse, Refused
<1>2. ASSUME NEW r \in Readers, CheckReading(r) PROVE Ties'
  BY <1>2 DEF CheckReading
<1>3. ASSUME NEW r \in Readers, CountIn(r) PROVE Ties'
  BY <1>3 DEF CountIn
<1>4. ASSUME NEW r \in Readers, UndoCount(r) PROVE Ties'
  BY <1>4 DEF UndoCount, Refuse, Refused
<1>5. ASSUME NEW r \in Readers, Leave(r) PROVE Ties'
  BY <1>5 DEF Leave
<1>6. ASSUME NEW r \in Readers, CountOut(r) PROVE Ties'
  BY <1>6 DEF CountOut, After
<1>7. ASSUME NEW r \in Readers, RecheckWriting(r) PROVE Ties'
  BY <1>7 DEF RecheckWriting, After
<1>8. ASSUME NEW r \in Readers, Close(r) PROVE Ties'
  BY <1>8 DEF Close
<1>9. ASSUME Manager PROVE Ties'
  BY <1>9 DEF Manager, ReservePending, DelayUpdate, ReserveReading, Update,
     UpdateFails, AssertReading, ResetWriting, AllowReading, ResumeWrite
<1>10. CASE UNCHANGED vars
  BY <1>10 DEF vars
<1> QED
  BY <1>1, <1>2, <1>3, <1>4, <1>5, <1>6, <1>7, <1>8, <1>9, <1>10 DEF Next, Reader

-----------------------------------------------------------------------------
\* The two sets of the accounts are finite and disjoint, so together they
\* stay below the number that disallows reading.
LEMMA Sizes ==
  ASSUME TypeOK, Ties
  PROVE  /\ IsFiniteSet(counted) /\ Cardinality(counted) \in Nat
         /\ IsFiniteSet(Undoing) /\ Cardinality(Undoing) \in Nat
         /\ Cardinality(counted) + Cardinality(Undoing) < Disallowed
<1>1. counted \subseteq Readers /\ Undoing \subseteq Readers /\ counted \cap Undoing = {}
  BY DEF TypeOK, Ties, Undoing
<1>2. IsFiniteSet(counted) /\ IsFiniteSet(Undoing)
  BY <1>1, FS_Subset, ReadWriteAssumption
<1>3. /\ Cardinality(counted) \in Nat
      /\ Cardinality(Undoing) \in Nat
      /\ Cardinality(Readers) \in Nat
  BY <1>2, FS_CardinalityType, ReadWriteAssumption
<1>4. Cardinality(counted \cup Undoing) = Cardinality(counted) + Cardinality(Undoing)
  <2>1. Cardinality(counted \cap Undoing) = 0
    BY <1>1, FS_EmptySet
  <2>2. Cardinality(counted \cup Undoing) =
          Cardinality(counted) + Cardinality(Undoing) - Cardinality(counted \cap Undoing)
    BY <1>2, FS_Union
  <2> QED
    BY <2>1, <2>2, <1>3
<1>5. Cardinality(counted \cup Undoing) <= Cardinality(Readers)
  BY <1>1, FS_Subset, ReadWriteAssumption
<1> QED
  BY <1>2, <1>3, <1>4, <1>5, ReadWriteAssumption

\* What one more, or one less, reservation does to the accounts.
LEMMA OneMore ==
  ASSUME NEW b \in Int
  PROVE  /\ Disallowed * (b + 1) = Disallowed * b + Disallowed
         /\ Disallowed * (b - 1) = Disallowed * b - Disallowed
         /\ Disallowed * b \in Int
BY ReadWriteAssumption

\* Every access to `reading` keeps the accounts.
LEMMA AccountsStep ==
  TypeOK /\ Ties /\ ReadingAccounts /\ [Next]_vars => ReadingAccounts'
<1> SUFFICES ASSUME TypeOK, Ties, ReadingAccounts, [Next]_vars
             PROVE  ReadingAccounts'
  OBVIOUS
<1> USE DEF Go, Manage, reader, history
<1>a. /\ IsFiniteSet(counted) /\ Cardinality(counted) \in Nat
      /\ IsFiniteSet(Undoing) /\ Cardinality(Undoing) \in Nat
  BY Sizes
<1>b. /\ Disallowed * (blocks + 1) = Disallowed * blocks + Disallowed
      /\ Disallowed * (blocks - 1) = Disallowed * blocks - Disallowed
      /\ Disallowed * blocks \in Int
  BY OneMore DEF TypeOK
<1>c. reading \in Int /\ drift \in Nat /\ blocks \in Int /\ Disallowed \in Nat
  BY ReadWriteAssumption DEF TypeOK
<1>d. ASSUME reading' = reading, counted' = counted, Undoing' = Undoing,
             drift' = drift, blocks' = blocks
      PROVE  ReadingAccounts'
  BY <1>d DEF ReadingAccounts
<1>1. ASSUME NEW r \in Readers, CheckWriting(r) PROVE ReadingAccounts'
  <2>1. Undoing' = Undoing
    BY <1>1 DEF CheckWriting, Refused, Undoing, TypeOK
  <2> QED
    BY <1>1, <1>d, <2>1 DEF CheckWriting
<1>2. ASSUME NEW r \in Readers, CheckReading(r) PROVE ReadingAccounts'
  <2>1. Undoing' = Undoing
    BY <1>2 DEF CheckReading, Undoing, TypeOK
  <2> QED
    BY <1>2, <1>d, <2>1 DEF CheckReading
<1>3. ASSUME NEW r \in Readers, CountIn(r) PROVE ReadingAccounts'
  <2>1. r \notin counted /\ r \notin Undoing
    BY <1>3 DEF CountIn, Ties, Undoing
  <2>2. CASE reading < 0
    <3>1. Undoing' = Undoing \cup {r} /\ counted' = counted
      BY <1>3, <2>2 DEF CountIn, Undoing, TypeOK
    <3>2. Cardinality(Undoing') = Cardinality(Undoing) + 1
      BY <1>a, <2>1, <3>1, FS_AddElement
    <3> QED
      BY <1>3, <1>a, <1>b, <1>c, <3>1, <3>2 DEF CountIn, ReadingAccounts
  <2>3. CASE ~(reading < 0)
    <3>1. Undoing' = Undoing /\ counted' = counted \cup {r}
      BY <1>3, <2>3 DEF CountIn, Undoing, TypeOK
    <3>2. Cardinality(counted') = Cardinality(counted) + 1
      BY <1>a, <2>1, <3>1, FS_AddElement
    <3> QED
      BY <1>3, <1>a, <1>b, <1>c, <3>1, <3>2 DEF CountIn, ReadingAccounts
  <2> QED
    BY <2>2, <2>3
<1>4. ASSUME NEW r \in Readers, UndoCount(r) PROVE ReadingAccounts'
  <2>1. r \in Undoing /\ Undoing' = Undoing \ {r}
    BY <1>4 DEF UndoCount, Undoing, TypeOK, Refused
  <2>2. Cardinality(Undoing') = Cardinality(Undoing) - 1
    BY <1>a, <2>1, FS_RemoveElement
  <2> QED
    BY <1>4, <1>a, <1>b, <1>c, <2>2 DEF UndoCount, ReadingAccounts
<1>5. ASSUME NEW r \in Readers, Leave(r) PROVE ReadingAccounts'
  <2>1. Undoing' = Undoing
    BY <1>5 DEF Leave, Undoing, TypeOK
  <2> QED
    BY <1>5, <1>d, <2>1 DEF Leave
<1>6. ASSUME NEW r \in Readers, CountOut(r) PROVE ReadingAccounts'
  <2>1. Undoing' = Undoing /\ counted' = counted \ {r}
    BY <1>6 DEF CountOut, After, Undoing, TypeOK
  <2>2. Cardinality(counted') =
          IF r \in counted THEN Cardinality(counted) - 1 ELSE Cardinality(counted)
    BY <1>a, <2>1, FS_RemoveElement
  <2> QED
    BY <1>6, <1>a, <1>b, <1>c, <2>1, <2>2 DEF CountOut, ReadingAccounts
<1>7. ASSUME NEW r \in Readers, RecheckWriting(r) PROVE ReadingAccounts'
  <2>1. Undoing' = Undoing
    BY <1>7 DEF RecheckWriting, After, Undoing, TypeOK
  <2> QED
    BY <1>7, <1>d, <2>1 DEF RecheckWriting
<1>8. ASSUME NEW r \in Readers, Close(r) PROVE ReadingAccounts'
  <2>1. Undoing' = Undoing
    BY <1>8 DEF Close, Undoing, TypeOK
  <2> QED
    BY <1>8, <1>d, <2>1 DEF Close
<1>9. CASE ReserveReading
  <2>1. Undoing' = Undoing /\ counted' = counted /\ drift' = drift
    BY <1>9 DEF ReserveReading, Undoing
  <2>2. CASE reading = 0
    BY <1>9, <1>a, <1>b, <1>c, <2>1, <2>2 DEF ReserveReading, ReadingAccounts
  <2>3. CASE reading # 0
    BY <1>9, <1>d, <2>1, <2>3 DEF ReserveReading
  <2> QED
    BY <2>2, <2>3
<1>10. CASE AllowReading
  <2>1. Undoing' = Undoing /\ counted' = counted
    BY <1>10 DEF AllowReading, Undoing
  <2> QED
    BY <1>10, <1>a, <1>b, <1>c, <2>1 DEF AllowReading, ReadingAccounts
<1>11. ASSUME ReservePending \/ DelayUpdate \/ Update \/ UpdateFails \/ AssertReading
                \/ ResetWriting \/ ResumeWrite
       PROVE  ReadingAccounts'
  BY <1>11, <1>d DEF ReservePending, DelayUpdate, Update, UpdateFails,
     AssertReading, ResetWriting, ResumeWrite, Undoing
<1>12. CASE UNCHANGED vars
  BY <1>12, <1>d DEF vars, Undoing
<1> QED
  BY <1>1, <1>2, <1>3, <1>4, <1>5, <1>6, <1>7, <1>8, <1>9, <1>10, <1>11, <1>12
     DEF Next, Reader, Manager

\* Reading is disallowed at most once, and no counted reader is inside then.
LEMMA ExcludedStep ==
  /\ TypeOK /\ Ties /\ ReadingAccounts /\ CountedExcluded /\ BlocksOnce
  /\ [Next]_vars
  => CountedExcluded' /\ BlocksOnce'
<1> SUFFICES ASSUME TypeOK, Ties, ReadingAccounts, CountedExcluded, BlocksOnce,
                    [Next]_vars
             PROVE  CountedExcluded' /\ BlocksOnce'
  OBVIOUS
<1> USE DEF CountedExcluded, BlocksOnce, history
<1>a. /\ IsFiniteSet(counted) /\ Cardinality(counted) \in Nat
      /\ Cardinality(Undoing) \in Nat
      /\ Cardinality(counted) + Cardinality(Undoing) < Disallowed
  BY Sizes
<1>b. reading \in Int /\ drift \in Nat /\ blocks \in Int /\ Disallowed \in Nat
  BY ReadWriteAssumption DEF TypeOK
<1>c. blocks = 1 => reading < 0
  BY <1>a, <1>b DEF ReadingAccounts
<1>d. blocks = 0 /\ drift = 0 /\ reading = 0 => counted = {}
  <2>1. blocks = 0 /\ drift = 0 /\ reading = 0 => Cardinality(counted) = 0
    BY <1>a, <1>b DEF ReadingAccounts
  <2> QED
    BY <1>a, <2>1, FS_EmptySet
<1>1. ASSUME NEW r \in Readers, CountIn(r) PROVE CountedExcluded' /\ BlocksOnce'
  BY <1>1, <1>c DEF CountIn
<1>2. ASSUME NEW r \in Readers, CountOut(r) PROVE CountedExcluded' /\ BlocksOnce'
  BY <1>2, <1>b DEF CountOut
<1>3. CASE ReserveReading
  BY <1>3, <1>b, <1>c, <1>d DEF ReserveReading, reader
<1>4. CASE AllowReading
  BY <1>4, <1>b DEF AllowReading, reader
<1>5. ASSUME counted' = counted, drift' = drift, blocks' = blocks
      PROVE  CountedExcluded' /\ BlocksOnce'
  BY <1>5
<1>6. ASSUME NEW r \in Readers,
             CheckWriting(r) \/ CheckReading(r) \/ UndoCount(r) \/ Leave(r)
               \/ RecheckWriting(r) \/ Close(r)
      PROVE  CountedExcluded' /\ BlocksOnce'
  BY <1>5, <1>6 DEF CheckWriting, CheckReading, UndoCount, Leave, RecheckWriting, Close
<1>7. ASSUME ReservePending \/ DelayUpdate \/ Update \/ UpdateFails \/ AssertReading
               \/ ResetWriting \/ ResumeWrite
      PROVE  CountedExcluded' /\ BlocksOnce'
  BY <1>5, <1>7 DEF ReservePending, DelayUpdate, Update, UpdateFails,
     AssertReading, ResetWriting, ResumeWrite, reader
<1>8. CASE UNCHANGED vars
  BY <1>5, <1>8 DEF vars
<1> QED
  BY <1>1, <1>2, <1>3, <1>4, <1>6, <1>7, <1>8 DEF Next, Reader, Manager

\* The readers that may be in uncounted while `writing` is set only leave.
LEMMA MissedStep == TypeOK /\ Ties /\ MissedCover /\ [Next]_vars => MissedCover'
<1> SUFFICES ASSUME TypeOK, Ties, MissedCover, [Next]_vars PROVE MissedCover'
  OBVIOUS
<1> USE DEF TypeOK, MissedCover, Inside, Go, Manage, reader, history, ReaderAt,
        WFX_WRITE_PENDING
<1>1. ASSUME NEW r \in Readers, CheckWriting(r) PROVE MissedCover'
  BY <1>1 DEF CheckWriting, Refuse, Refused, Ties
<1>2. ASSUME NEW r \in Readers, CheckReading(r) PROVE MissedCover'
  BY <1>2 DEF CheckReading
<1>3. ASSUME NEW r \in Readers, CountIn(r) PROVE MissedCover'
  BY <1>3 DEF CountIn
<1>4. ASSUME NEW r \in Readers, UndoCount(r) PROVE MissedCover'
  BY <1>4 DEF UndoCount, Refuse, Refused
<1>5. ASSUME NEW r \in Readers, Leave(r) PROVE MissedCover'
  BY <1>5 DEF Leave
<1>6. ASSUME NEW r \in Readers, CountOut(r) PROVE MissedCover'
  BY <1>6 DEF CountOut, After
<1>7. ASSUME NEW r \in Readers, RecheckWriting(r) PROVE MissedCover'
  BY <1>7 DEF RecheckWriting, After
<1>8. ASSUME NEW r \in Readers, Close(r) PROVE MissedCover'
  BY <1>8 DEF Close
<1>9. CASE ReservePending
  BY <1>9 DEF ReservePending
<1>10. ASSUME DelayUpdate \/ ReserveReading \/ Update \/ UpdateFails
       PROVE  MissedCover'
  BY <1>10 DEF DelayUpdate, ReserveReading, Update, UpdateFails
<1>11. ASSUME AssertReading \/ ResetWriting \/ AllowReading \/ ResumeWrite
       PROVE  MissedCover'
  BY <1>11 DEF AssertReading, ResetWriting, AllowReading, ResumeWrite
<1>12. CASE UNCHANGED vars
  BY <1>12 DEF vars
<1> QED
  BY <1>1, <1>2, <1>3, <1>4, <1>5, <1>6, <1>7, <1>8, <1>9, <1>10, <1>11, <1>12
     DEF Next, Reader, Manager

-----------------------------------------------------------------------------
\* Initially nobody is inside and the accounts are empty.
LEMMA InitIInv == Init => IInv
<1> SUFFICES ASSUME Init PROVE IInv
  OBVIOUS
<1>1. TypeOK
  <2>1. delayed \in BOOLEAN /\ resume \in BOOLEAN
    BY Zenon DEF Init
  <2>2. /\ element \in Elements
        /\ reading \in Int /\ blocks \in Int /\ drift \in Nat
        /\ writing \in {0, WFX_WRITE_PENDING}
    BY DEF Init
  <2>3. rpc \in [Readers -> ReaderAt] /\ wpc \in WriterAt
    BY DEF Init, ReaderAt, WriterAt
  <2> QED
    BY <2>1, <2>2, <2>3 DEF Init, TypeOK
<1>2. Ties /\ CountedExcluded /\ BlocksOnce /\ MissedCover
  BY DEF Init, Ties, CountedExcluded, BlocksOnce, MissedCover
<1>3. ReadingAccounts
  <2>1. Undoing = {}
    BY DEF Init, Undoing
  <2>2. Cardinality(counted) = 0 /\ Cardinality(Undoing) = 0
    BY <2>1, FS_EmptySet DEF Init
  <2> QED
    BY <2>2, ReadWriteAssumption DEF Init, ReadingAccounts
<1> QED
  BY <1>1, <1>2, <1>3 DEF IInv

\* IInv is an inductive invariant.
THEOREM Invariance == Spec => []IInv
<1>1. IInv /\ [Next]_vars => IInv'
  BY TypeStep, TiesStep, AccountsStep, ExcludedStep, MissedStep DEF IInv
<1> QED
  BY InitIInv, <1>1, PTL DEF Spec

\* Every variable of the reservation keeps its type, whatever the bounds.
THEOREM TypeCorrect == Spec => []TypeOK
<1>1. IInv => TypeOK
  BY DEF IInv
<1> QED
  BY Invariance, <1>1, PTL

\* `reading` is the sum of what its readers and writers did to it.
THEOREM Accounting == Spec => []ReadingAccounts
<1>1. IInv => ReadingAccounts
  BY DEF IInv
<1> QED
  BY Invariance, <1>1, PTL

\* A write that found no reader excludes the counted readers until a release
\* without a count makes `reading` drift.
THEOREM Exclusion == Spec => []CountedExcluded
<1>1. IInv => CountedExcluded
  BY DEF IInv
<1> QED
  BY Invariance, <1>1, PTL

\* It runs together with none but the readers the counter missed.
THEOREM MissedOnly == Spec => []OnlyMissed
<1>1. IInv => OnlyMissed
  <2> SUFFICES ASSUME IInv, wpc \in {"update", "release"}, blocks = 1, drift = 0,
                      NEW r \in Inside
               PROVE  r \in missed
    BY DEF OnlyMissed
  <2>1. counted = {} /\ r \in Readers
    BY DEF IInv, CountedExcluded, Inside
  <2> QED
    BY <2>1 DEF IInv, MissedCover
<1> QED
  BY Invariance, <1>1, PTL

\* It does not fail the assertion of release_write.
THEOREM Passing == Spec => []ReservedPasses
<1>1. IInv => ReservedPasses
  <2> SUFFICES ASSUME IInv, blocks = 1 PROVE reading < 0
    BY DEF ReservedPasses
  <2>1. /\ Cardinality(counted) \in Nat
        /\ Cardinality(Undoing) \in Nat
        /\ Cardinality(counted) + Cardinality(Undoing) < Disallowed
    BY Sizes DEF IInv
  <2> QED
    BY <2>1, ReadWriteAssumption DEF IInv, TypeOK, ReadingAccounts
<1> QED
  BY Invariance, <1>1, PTL
=============================================================================
