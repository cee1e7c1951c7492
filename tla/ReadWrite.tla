----------------------------- MODULE ReadWrite -----------------------------
(***************************************************************************)
(* The read-write reservation of a ruleset element: a ruleset, a phase, a  *)
(* list or a rule (src/src/ruleset/readwrite.c).                           *)
(*                                                                         *)
(* The element is in shared memory.  Every worker that evaluates it        *)
(* reserves it for reading; the manager, which alone updates it, reserves  *)
(* it for writing.  There is no lock: the two counters `reading` and       *)
(* `writing` are read and written one at a time, and one action here is    *)
(* one access to one of them.                                              *)
(*                                                                         *)
(* A reader that is refused is deferred.  Its alert carries the address of *)
(* a pointer where the manager expects the record of rw and ed, so it is   *)
(* filed under another key than rw and readwriteResumeRead never finds it: *)
(* a deferred reader is here until its request is closed.                  *)
(***************************************************************************)
EXTENDS Integers, FiniteSets

CONSTANTS
  Readers,    \* evaluations of the element, each in its own worker
  Disallowed, \* - WFX_READ_DISALLOWED
  MaxDrift    \* bound: no evaluation starts with more drift than this

\* "must be a large negative number for the lock-less magic we perform"
ASSUME ReadWriteAssumption ==
  /\ IsFiniteSet(Readers)
  /\ Disallowed \in Nat
  /\ Cardinality(Readers) < Disallowed
  /\ MaxDrift \in Nat

WFX_WRITE_PENDING == 1

VARIABLES
  element,    \* what is reserved, which never changes
  reading,    \* rw->reading
  writing,    \* rw->writing
  rpc,        \* where each reader is
  counted,    \* the readers that `reading` counts
  refused,    \* the readers whose reservation failed
  pending,    \* the readers with pending_write set
  wpc,        \* where the manager is
  delayed,    \* an update was handed to readwriteSuspendWrite
  resume,     \* a readwrite-write-resume alert is on its way
  blocks,     \* history: reservations that disallowed reading, less releases
  drift,      \* history: releases of readers that were not counted
  missed      \* history: the readers that `reading` could not show to the
              \*   manager when it set `writing`: between their check of
              \*   `writing` and that of `reading`, or inside uncounted

reader  == <<rpc, counted, refused, pending>>
history == <<blocks, drift, missed>>
vars    == <<element, reading, writing, rpc, counted, refused, pending, wpc,
             delayed, resume, blocks, drift, missed>>

Elements == {"ruleset", "phase", "list", "rule"}
ReaderAt == {"out", "check", "count", "undo", "in", "leave", "recheck", "deferred"}
WriterAt == {"idle", "reserve", "update", "release", "reset", "allow", "aborted"}

TypeOK ==
  /\ element \in Elements
  /\ reading \in Int
  /\ writing \in {0, WFX_WRITE_PENDING}
  /\ rpc \in [Readers -> ReaderAt]
  /\ counted \in SUBSET Readers
  /\ refused \in SUBSET Readers
  /\ pending \in SUBSET Readers
  /\ wpc \in WriterAt
  /\ delayed \in BOOLEAN
  /\ resume \in BOOLEAN
  /\ blocks \in Int
  /\ drift \in Nat
  /\ missed \in SUBSET Readers

Init ==
  /\ element \in Elements
  /\ reading = 0
  /\ writing = 0
  /\ rpc = [r \in Readers |-> "out"]
  /\ counted = {}
  /\ refused = {}
  /\ pending = {}
  /\ wpc = "idle"
  /\ delayed = FALSE
  /\ resume = FALSE
  /\ blocks = 0
  /\ drift = 0
  /\ missed = {}

Go(r, from, to) == rpc[r] = from /\ rpc' = [rpc EXCEPT ![r] = to]
Manage(from, to) == wpc = from /\ wpc' = to

-----------------------------------------------------------------------------
(* ruleset_common_reserve_read                                             *)

\* wfx_ruleset_eval releases also what it could not reserve, and the evaluation
\* that was refused is deferred after that.
ReleasesDeferred == element = "ruleset"
Refused == IF ReleasesDeferred THEN "in" ELSE "deferred"
Refuse(r) == refused' = refused \cup {r}

\* Mutant: only `reading` is checked.
CheckWritingNot(r) ==
  /\ drift <= MaxDrift
  /\ Go(r, "out", "check")
  /\ UNCHANGED <<element, reading, writing, counted, refused, pending, wpc,
                 delayed, resume, history>>

\* if(rw->writing > 0) don't even try
CheckWriting(r) ==
  /\ drift <= MaxDrift
  /\ IF writing > 0
     THEN Go(r, "out", Refused) /\ Refuse(r)
     ELSE Go(r, "out", "check") /\ UNCHANGED refused
  /\ UNCHANGED <<element, reading, writing, counted, pending, wpc, delayed,
                 resume, history>>

\* if(rw->reading >= 0), the cheap check: who sees reading disallowed here
\* goes on without being counted
CheckReading(r) ==
  /\ Go(r, "check", IF reading >= 0 THEN "count" ELSE "in")
  /\ UNCHANGED <<element, reading, writing, counted, refused, pending, wpc,
                 delayed, resume, history>>

\* Mutant: the old value is not looked at.
CountInAnyway(r) ==
  /\ reading' = reading + 1
  /\ Go(r, "count", "in")
  /\ counted' = counted \cup {r}
  /\ UNCHANGED <<element, writing, refused, pending, wpc, delayed, resume, history>>

\* val = ngx_atomic_fetch_add(&rw->reading, 1)
CountIn(r) ==
  /\ reading' = reading + 1
  /\ IF reading < 0
     THEN Go(r, "count", "undo") /\ UNCHANGED counted
     ELSE Go(r, "count", "in") /\ counted' = counted \cup {r}
  /\ UNCHANGED <<element, writing, refused, pending, wpc, delayed, resume, history>>

\* Mutant: a refused reader stays counted.
UndoCountNot(r) ==
  /\ Go(r, "undo", Refused)
  /\ Refuse(r)
  /\ UNCHANGED <<element, reading, writing, counted, pending, wpc, delayed,
                 resume, history>>

\* ngx_atomic_fetch_add(&rw->reading, -1); defer = 1
UndoCount(r) ==
  /\ Go(r, "undo", Refused)
  /\ reading' = reading - 1
  /\ Refuse(r)
  /\ UNCHANGED <<element, writing, counted, pending, wpc, delayed, resume, history>>

-----------------------------------------------------------------------------
(* ruleset_common_release_read                                             *)

\* pending_write = rw->writing == WFX_WRITE_PENDING
Leave(r) ==
  /\ Go(r, "in", "leave")
  /\ pending' = IF writing = WFX_WRITE_PENDING THEN pending \cup {r} ELSE pending
  /\ UNCHANGED <<element, reading, writing, counted, refused, wpc, delayed,
                 resume, history>>

After(r) == IF r \in refused THEN "deferred" ELSE "out"

\* val = ngx_atomic_fetch_add(&rw->reading, -1): the rest matters only to a
\* reader that gets 0
CountOut(r) ==
  /\ Go(r, "leave", IF reading = 0 THEN "recheck" ELSE After(r))
  /\ reading' = reading - 1
  /\ counted' = counted \ {r}
  /\ drift' = IF r \in counted THEN drift ELSE drift + 1
  /\ pending' = IF reading = 0 THEN pending ELSE pending \ {r}
  /\ UNCHANGED <<element, writing, refused, wpc, delayed, resume, blocks, missed>>

\* pending_write || rw->writing == WFX_WRITE_PENDING
RecheckWriting(r) ==
  /\ Go(r, "recheck", After(r))
  /\ resume' = (resume \/ r \in pending \/ writing = WFX_WRITE_PENDING)
  /\ pending' = pending \ {r}
  /\ UNCHANGED <<element, reading, writing, counted, refused, wpc, delayed, history>>

\* The client gives up on a deferred request.
Close(r) ==
  /\ Go(r, "deferred", "out")
  /\ refused' = refused \ {r}
  /\ UNCHANGED <<element, reading, writing, counted, pending, wpc, delayed,
                 resume, history>>

-----------------------------------------------------------------------------
\* The readers that evaluate the element.
Inside == {r \in Readers : rpc[r] \in {"in", "leave"} /\ r \notin refused}

(* The manager: an update function, from reserve_write to release_write.   *)

\* Mutant: an addition instead of the compare and set.
ReservePendingAdds ==
  /\ Manage("idle", "reserve")
  /\ writing' = writing + WFX_WRITE_PENDING
  /\ missed' = {r \in Readers : rpc[r] = "check"} \cup (Inside \ counted)
  /\ UNCHANGED <<element, reading, reader, delayed, resume, blocks, drift>>

\* ngx_atomic_cmp_set(&rw->writing, 0, WFX_WRITE_PENDING)
ReservePending ==
  /\ writing = 0
  /\ Manage("idle", "reserve")
  /\ writing' = WFX_WRITE_PENDING
  /\ missed' = {r \in Readers : rpc[r] = "check"} \cup (Inside \ counted)
  /\ UNCHANGED <<element, reading, reader, delayed, resume, blocks, drift>>

\* ... fails: the update is filed under its function, not under rw, and
\* readwriteResumeWrite will not find it.  A second update with the same
\* function fails the assertion that nobody waits, and the manager aborts.
DelayUpdate ==
  /\ writing = WFX_WRITE_PENDING
  /\ Manage("idle", IF delayed THEN "aborted" ELSE "idle")
  /\ delayed' = TRUE
  /\ UNCHANGED <<element, reading, writing, reader, resume, history>>

\* Mutant: the sign that the release needs.
ReserveReadingPositive ==
  /\ Manage("reserve", "update")
  /\ IF reading = 0
     THEN reading' = Disallowed /\ blocks' = blocks + 1
     ELSE UNCHANGED <<reading, blocks>>
  /\ UNCHANGED <<element, writing, reader, delayed, resume, drift, missed>>

\* ngx_atomic_cmp_set(&rw->reading, 0, WFX_READ_DISALLOWED); a failure is
\* logged and otherwise ignored
ReserveReading ==
  /\ Manage("reserve", "update")
  /\ IF reading = 0
     THEN reading' = - Disallowed /\ blocks' = blocks + 1
     ELSE UNCHANGED <<reading, blocks>>
  /\ UNCHANGED <<element, writing, reader, delayed, resume, drift, missed>>

Update ==
  /\ Manage("update", "release")
  /\ UNCHANGED <<element, reading, writing, reader, delayed, resume, history>>

\* list_update and phase_update allocate, and return without a release when
\* they cannot (in a build whose shm_alloc can tell, see Limiter; else the
\* manager ends there, and for the element that is the same).
UpdateMayFail == element \in {"phase", "list"}

UpdateFails ==
  /\ UpdateMayFail
  /\ Manage("update", "idle")
  /\ UNCHANGED <<element, reading, writing, reader, delayed, resume, history>>

\* ruleset_common_release_write: assert(rw->reading < 0)
AssertReading ==
  /\ Manage("release", IF reading < 0 THEN "reset" ELSE "aborted")
  /\ UNCHANGED <<element, reading, writing, reader, delayed, resume, history>>

\* rw->writing = 0
ResetWriting ==
  /\ Manage("reset", "allow")
  /\ writing' = 0
  /\ UNCHANGED <<element, reading, reader, delayed, resume, history>>

\* ngx_atomic_fetch_add(&rw->reading, -(WFX_READ_DISALLOWED))
AllowReading ==
  /\ Manage("allow", "idle")
  /\ reading' = reading + Disallowed
  /\ blocks' = blocks - 1
  /\ UNCHANGED <<element, writing, reader, delayed, resume, drift, missed>>

\* readwrite_write_resume_handler looks up what is not there: the index of
\* nil is an error, and an error aborts (WFX_CRASH_ON_LUA_ERROR).
ResumeWrite ==
  /\ resume
  /\ Manage("idle", "aborted")
  /\ resume' = FALSE
  /\ UNCHANGED <<element, reading, writing, reader, delayed, history>>

-----------------------------------------------------------------------------
Reader(r) ==
  \/ CheckWriting(r) \/ CheckReading(r) \/ CountIn(r) \/ UndoCount(r)
  \/ Leave(r) \/ CountOut(r) \/ RecheckWriting(r) \/ Close(r)

Manager ==
  \/ ReservePending \/ DelayUpdate \/ ReserveReading \/ Update \/ UpdateFails
  \/ AssertReading \/ ResetWriting \/ AllowReading \/ ResumeWrite

Next == (\E r \in Readers : Reader(r)) \/ Manager

Spec == Init /\ [][Next]_vars

-----------------------------------------------------------------------------
(* Properties.                                                             *)

Undoing == {r \in Readers : rpc[r] = "undo"}

\* The value of `reading`, whatever the order of the accesses: the readers
\* that are counted or take their count back, less every release that had no
\* count, and the large number as often as it was subtracted.
ReadingAccounts ==
  reading = Cardinality(counted) + Cardinality(Undoing) - drift - Disallowed * blocks

\* While a write is reserved that found no reader, no counted reader is
\* inside, unless an earlier release left `reading` too small.
CountedExcluded == blocks = 1 /\ drift = 0 => counted = {}

\* The readers that such an update runs together with are those the counter
\* missed, and no others: not one that was counted or on its way to be, not
\* one that began after the manager set `writing`.
OnlyMissed ==
  wpc \in {"update", "release"} /\ blocks = 1 /\ drift = 0 =>
    Inside \subseteq missed

\* A write that found no reader passes the assertion of its release, however
\* far `reading` has drifted.
ReservedPasses == wpc \in {"update", "release"} /\ blocks = 1 => reading < 0

=============================================================================
