------------------------------- MODULE Reaper -------------------------------
(***************************************************************************)
(* The reaper of src/src/util/reaper.c: an intrusive doubly linked list of *)
(* things to be released once their owner's ready() callback says so, a    *)
(* timer that scans it, and three strategies for a scan.                   *)
(*                                                                         *)
(* The reaper belongs to the manager process, which is single threaded, so *)
(* a scan is never interleaved with reaper_add or reaper_withdraw.  A scan *)
(* is still modelled as one step per iteration of its loop: the cursor     *)
(* that the loop carries from one iteration to the next is the state most  *)
(* easily left dangling.                                                   *)
(*                                                                         *)
(* ready() is the owner's.  The only owner is the limiter, whose callback  *)
(* always accepts a forced reap; what it says otherwise is the set `ripe`, *)
(* which the owner changes between scans.                                  *)
(***************************************************************************)
EXTENDS Integers, FiniteSets

CONSTANTS
  Things,      \* the values that may be handed to the reaper
  NULL,        \* the null pointer
  RatioNum,    \* rp->max_notready_ratio, as the fraction RatioNum/RatioDen
  RatioDen

ASSUME ReaperAssumption ==
  /\ IsFiniteSet(Things)
  /\ NULL \notin Things
  /\ RatioNum \in Nat
  /\ RatioDen \in Nat \ {0}

VARIABLES
  strategy,     \* rp->strategy, given when the reaper is started
  first, last,  \* rp->first and rp->last
  count,        \* rp->count
  next, prev,   \* the links inside each thing
  position,     \* rp->position, used by keep_place
  timer_set,    \* rp->timer.timer_set
  scan,         \* the local variables of the scan in progress, and the
                \*   things it has asked ready() about (`asked`, history)
  listed,       \* history: what was added and neither withdrawn nor reaped
  reaped,       \* history: what reap() was called for and not added again
  ripe,         \* owner: the things ready() would accept now
  exiting,      \* ngx_exiting || ngx_quit
  stopped       \* reaper_stop has returned

links == <<first, last, next, prev>>
list  == <<first, last, next, prev, count, position, listed, reaped>>
owner == <<ripe, exiting, strategy>>
vars  == <<strategy, first, last, count, next, prev, position, timer_set, scan,
           listed, reaped, ripe, exiting, stopped>>

Ptr == Things \cup {NULL}
ScanKind == {"idle", "rescan", "rotate", "keep_place"}
NoScan == [kind |-> "idle", force |-> FALSE, cur |-> NULL,
           firstmoved |-> NULL, n |-> 0, notready |-> 0, max |-> 0, asked |-> {}]
Scan == [kind : ScanKind, force : BOOLEAN, cur : Ptr,
         firstmoved : Ptr, n : Nat, notready : Nat, max : Nat,
         asked : SUBSET Things]

TypeOK ==
  /\ strategy \in ScanKind \ {"idle"}
  /\ first \in Ptr
  /\ last \in Ptr
  /\ count \in Nat
  /\ next \in [Things -> Ptr]
  /\ prev \in [Things -> Ptr]
  /\ position \in Ptr
  /\ timer_set \in BOOLEAN
  /\ scan \in Scan
  /\ listed \in SUBSET Things
  /\ reaped \in SUBSET Things
  /\ ripe \in SUBSET Things
  /\ exiting \in BOOLEAN
  /\ stopped \in BOOLEAN

-----------------------------------------------------------------------------
(* reaper_start, and a run of the program before anything is added.        *)
Init ==
  /\ strategy \in ScanKind \ {"idle"}
  /\ first = NULL
  /\ last = NULL
  /\ count = 0
  /\ next = [t \in Things |-> NULL]
  /\ prev = [t \in Things |-> NULL]
  /\ position = NULL
  /\ timer_set = FALSE
  /\ scan = NoScan
  /\ listed = {}
  /\ reaped = {}
  /\ ripe = {}
  /\ exiting = FALSE
  /\ stopped = FALSE

Idle == scan.kind = "idle" /\ ~stopped

\* Mutant of Ready: a reaper that never asks.
ReadyAlways(t) == TRUE

\* limiter_value_ready_to_reap, as far as the reaper can tell
Ready(t) == scan.force \/ t \in ripe

SetLink(link, t, to) == IF t = NULL THEN link ELSE [link EXCEPT ![t] = to]

\* Mutant of Unlink: the end of the list is forgotten.
UnlinkKeepLast(t) ==
  /\ next' = SetLink(next, prev[t], next[t])
  /\ prev' = SetLink(prev, next[t], prev[t])
  /\ first' = IF t = first THEN next[t] ELSE first
  /\ UNCHANGED last

\* Take t out between its neighbours; the links inside t are left alone.
Unlink(t) ==
  /\ next' = SetLink(next, prev[t], next[t])
  /\ prev' = SetLink(prev, next[t], prev[t])
  /\ first' = IF t = first THEN next[t] ELSE first
  /\ last' = IF t = last THEN prev[t] ELSE last

\* The same, clearing the links inside t, as reaper_withdraw does.
UnlinkAndClear(t) ==
  /\ next' = [SetLink(next, prev[t], next[t]) EXCEPT ![t] = NULL]
  /\ prev' = [SetLink(prev, next[t], prev[t]) EXCEPT ![t] = NULL]
  /\ first' = IF t = first THEN next[t] ELSE first
  /\ last' = IF t = last THEN prev[t] ELSE last

\* Hang t, which is not in the list, after the last element.
LinkLast(t) ==
  /\ next' = [SetLink(next, last, t) EXCEPT ![t] = NULL]
  /\ prev' = [prev EXCEPT ![t] = last]
  /\ last' = t
  /\ first' = IF first = NULL THEN t ELSE first

\* Move t, which is in the list and not last, behind the last element.
MoveToEnd(t) ==
  /\ next' = [SetLink(SetLink(next, prev[t], next[t]), last, t)
                EXCEPT ![t] = NULL]
  /\ prev' = [SetLink(prev, next[t], prev[t]) EXCEPT ![t] = last]
  /\ last' = t
  /\ first' = IF first = t THEN next[t] ELSE first

\* Mutant of LeavePosition: the place is kept.
LeavePositionNot(t) == position' = position

\* keep_place must not keep the place of a thing that leaves the list.
LeavePosition(t) ==
  position' = IF strategy = "keep_place" /\ position = t
              THEN next[t] ELSE position

\* Mutant of ResetTimer: one thing is taken for none.
ResetTimerOffByOne(n) == timer_set' = (timer_set \/ (~exiting /\ n > 1))

\* reaper_reset_timer
ResetTimer(n) == timer_set' = (timer_set \/ (~exiting /\ n > 0))

-----------------------------------------------------------------------------
(* reaper_add of a thing that is ready: it is reaped on the spot and never *)
(* enters the list (NGX_DONE).                                             *)
AddReady(t) ==
  /\ Idle
  /\ t \notin listed
  /\ t \in ripe
  /\ reaped' = reaped \cup {t}
  /\ UNCHANGED <<links, count, position, listed, timer_set, scan, owner,
                 stopped>>

AddLater(t) ==
  /\ Idle
  /\ t \notin listed
  /\ t \notin ripe
  /\ LinkLast(t)
  /\ count' = count + 1
  /\ listed' = listed \cup {t}
  /\ reaped' = reaped \ {t}
  /\ ResetTimer(count + 1)
  /\ UNCHANGED <<position, scan, owner, stopped>>

(* reaper_withdraw.  "this is not a safe function -- it doesn't check if   *)
(* the thing is actually being reaped": its caller does, so does the guard.*)
Withdraw(t) ==
  /\ Idle
  /\ t \in listed
  /\ UnlinkAndClear(t)
  /\ count' = count - 1
  /\ LeavePosition(t)
  /\ listed' = listed \ {t}
  /\ UNCHANGED <<reaped, timer_set, scan, owner, stopped>>

-----------------------------------------------------------------------------
(* Scans.  Each begins with the declarations of its function, and every    *)
(* iteration of its loop is a Reap step or a Keep step.                    *)

MaxNotReady == (RatioNum * count) \div RatioDen

StartOf(kind) ==
  IF kind = "keep_place" /\ position # NULL THEN position ELSE first

BeginScan(kind, force) ==
  scan' = [NoScan EXCEPT !.kind = kind, !.force = force,
                         !.cur = StartOf(kind), !.max = MaxNotReady]

\* The condition of each loop.
Scanning ==
  /\ scan.kind # "idle"
  /\ scan.notready <= scan.max
  /\ CASE scan.kind = "keep_place" -> scan.n < count
       [] scan.kind = "rotate" -> scan.cur # NULL /\ scan.cur # scan.firstmoved
       [] OTHER -> scan.cur # NULL

\* nginx runs the timer's handler: reaper_timer_handler.
TimerHandler ==
  /\ Idle
  /\ timer_set
  /\ timer_set' = FALSE
  /\ BeginScan(strategy, FALSE)
  /\ UNCHANGED <<list, owner, stopped>>

\* reaper_stop begins with reaper_flush, always a plain forced scan.
StopFlush ==
  /\ Idle
  /\ BeginScan("rescan", TRUE)
  /\ UNCHANGED <<list, timer_set, owner, stopped>>

\* where the loop goes after cur, whose successor was read before ready()
Advance(nxt) ==
  IF scan.kind = "keep_place" /\ nxt = NULL THEN first' ELSE nxt

\* only keep_place counts its iterations
Counted(n) == IF scan.kind = "keep_place" THEN n + 1 ELSE n

\* reap_ready_thing
ScanReap ==
  LET cur == scan.cur IN
  /\ Scanning
  /\ Ready(cur)
  /\ Unlink(cur)
  /\ count' = count - 1
  /\ LeavePosition(cur)
  /\ listed' = listed \ {cur}
  /\ reaped' = reaped \cup {cur}
  /\ scan' = [scan EXCEPT !.cur = Advance(next[cur]), !.n = Counted(@),
                          !.asked = @ \cup {cur}]
  /\ UNCHANGED <<timer_set, owner, stopped>>

\* Mutants of ScanKeep: the first thing that is moved is not marked; nothing
\* is counted or marked.
ScanKeepUnmarked ==
  LET cur == scan.cur IN
  /\ Scanning
  /\ ~Ready(cur)
  /\ IF scan.kind = "rotate" /\ last # cur
     THEN MoveToEnd(cur) ELSE UNCHANGED links
  /\ scan' = [scan EXCEPT !.cur = Advance(next[cur]), !.n = Counted(@),
       !.asked = @ \cup {cur},
       !.notready = IF scan.max > 0 THEN @ + 1 ELSE @]
  /\ UNCHANGED <<count, position, listed, reaped, timer_set, owner, stopped>>
ScanKeepForgetful ==
  LET cur == scan.cur IN
  /\ Scanning
  /\ ~Ready(cur)
  /\ IF scan.kind = "rotate" /\ last # cur
     THEN MoveToEnd(cur) ELSE UNCHANGED links
  /\ scan' = [scan EXCEPT !.cur = Advance(next[cur]),
                          !.asked = @ \cup {cur}]
  /\ UNCHANGED <<count, position, listed, reaped, timer_set, owner, stopped>>

\* The thing stays; only a rotating scan moves it.
ScanKeep ==
  LET cur == scan.cur
      rotate == scan.kind = "rotate"
  IN
  /\ Scanning
  /\ ~Ready(cur)
  /\ IF rotate /\ last # cur THEN MoveToEnd(cur) ELSE UNCHANGED links
  /\ scan' = [scan EXCEPT
       !.cur = Advance(next[cur]),
       !.n = Counted(@),
       !.asked = @ \cup {cur},
       !.notready = IF scan.max > 0 THEN @ + 1 ELSE @,
       !.firstmoved = IF rotate /\ @ = NULL THEN cur ELSE @]
  /\ UNCHANGED <<count, position, listed, reaped, timer_set, owner, stopped>>

\* Mutant of ScanEnd: keep_place loses its place.
ScanEndUnplaced ==
  /\ scan.kind # "idle"
  /\ ~Scanning
  /\ scan' = NoScan
  /\ position' = NULL
  /\ IF scan.force
     THEN timer_set' = FALSE /\ stopped' = TRUE
     ELSE ResetTimer(count) /\ UNCHANGED stopped
  /\ UNCHANGED <<links, count, listed, reaped, owner>>

\* The loop is left: keep_place stores its cursor, a timer's scan arms the
\* timer again, and a flush goes on to delete it.
ScanEnd ==
  /\ scan.kind # "idle"
  /\ ~Scanning
  /\ scan' = NoScan
  /\ position' = IF scan.kind = "keep_place" THEN scan.cur ELSE position
  /\ IF scan.force
     THEN timer_set' = FALSE /\ stopped' = TRUE
     ELSE ResetTimer(count) /\ UNCHANGED stopped
  /\ UNCHANGED <<links, count, listed, reaped, owner>>

-----------------------------------------------------------------------------
(* The owner and nginx.                                                    *)
Ripen(t) ==
  /\ Idle
  /\ t \notin ripe
  /\ ripe' = ripe \cup {t}
  /\ UNCHANGED <<list, timer_set, scan, exiting, strategy, stopped>>

Unripen(t) ==
  /\ Idle
  /\ t \in ripe
  /\ ripe' = ripe \ {t}
  /\ UNCHANGED <<list, timer_set, scan, exiting, strategy, stopped>>

Exit ==
  /\ ~exiting
  /\ exiting' = TRUE
  /\ UNCHANGED <<list, timer_set, scan, ripe, strategy, stopped>>

Next ==
  \/ \E t \in Things : AddReady(t) \/ AddLater(t) \/ Withdraw(t)
  \/ TimerHandler \/ StopFlush
  \/ ScanReap \/ ScanKeep \/ ScanEnd
  \/ \E t \in Things : Ripen(t) \/ Unripen(t)
  \/ Exit

Spec == Init /\ [][Next]_vars

\* nginx's event loop runs a timer that is set, and a loop that has begun
\* goes on; nothing obliges the owner to do anything.
Fairness ==
  /\ WF_vars(TimerHandler)
  /\ WF_vars(ScanReap \/ ScanKeep \/ ScanEnd)

FairSpec == Spec /\ Fairness

-----------------------------------------------------------------------------
(* What verify_reaper_list asserts of first, last and count, and what its  *)
(* loop relies on: the links agree with each other in both directions, with*)
(* the two ends, and with what was added and has not left.  A link of a    *)
(* listed thing never leads to a thing that has left.                      *)
ListOK ==
  /\ TypeOK
  /\ count = Cardinality(listed)
  /\ (first = NULL) <=> (listed = {})
  /\ (last = NULL) <=> (listed = {})
  /\ first # NULL => first \in listed /\ prev[first] = NULL
  /\ last # NULL => last \in listed /\ next[last] = NULL
  /\ \A t \in listed :
       /\ next[t] = NULL => t = last
       /\ prev[t] = NULL => t = first
       /\ next[t] # NULL => next[t] \in listed /\ prev[next[t]] = t
       /\ prev[t] # NULL => prev[t] \in listed /\ next[prev[t]] = t

(* The cursor of a scan is read before ready() and reap() run and used     *)
(* after them, and keep_place keeps it until the next timer: whenever the  *)
(* loop of its_reaping_* goes round again, its cursor is a thing that is   *)
(* in the list, never NULL and never one that was freed.                   *)
CursorListed ==
  /\ Scanning => scan.cur \in listed
  /\ position # NULL => position \in listed

(* No scan asks ready() twice about the same thing, although a rotating    *)
(* scan moves things ahead of its cursor and keep_place wraps around: for  *)
(* the limiter, asking is a broadcast to all workers.                      *)
AskedOnce == Scanning => scan.cur \notin scan.asked

(* As long as nginx is not exiting, whatever waits in the list has a timer *)
(* that will scan it (reaper_reset_timer), and reaper_stop leaves neither a *)
(* thing nor a timer behind: the limiter frees the reaper next.            *)
TimerArmed ==
  /\ scan.kind = "idle" /\ count > 0 /\ ~exiting /\ ~stopped => timer_set
  /\ stopped => listed = {} /\ first = NULL /\ ~timer_set

(* Nothing waits for ever while it is ready, although a scan gives up      *)
(* after max_notready things that are not (reaper_timer_handler).  This    *)
(* needs one of the two strategies that do not begin with the same things  *)
(* every time: the limiter asks for REAPER_ROTATE.                         *)
RipeIsReaped ==
  strategy # "rescan" =>
    \A t \in Things : ~<>[](t \in listed /\ t \in ripe /\ ~exiting)

(* Every scan ends: the loop that rotates the list it walks, too.          *)
ScanEnds == []<>(scan.kind = "idle")

-----------------------------------------------------------------------------
(* What the reaper is for its owner: the queue of ReaperQueue.             *)

FollowsLinks(s) ==
  /\ count > 0 => s[1] = first
  /\ \A i \in 1 .. count - 1 : s[i + 1] = next[s[i]]

\* The things in the order a walk from first along the links meets them.
Order == CHOOSE s \in [1 .. count -> Things] : FollowsLinks(s)

Phase ==
  CASE stopped -> "closed"
    [] ~stopped /\ scan.force -> "closing"
    [] OTHER -> "open"

Queue == INSTANCE ReaperQueue WITH queue <- Order, phase <- Phase

(* The linked list implements the queue ReaperQueue describes: every step  *)
(* of reaper.c is a step of the queue or leaves it as it is.               *)
ImplementsQueue == Queue!Spec
=============================================================================
