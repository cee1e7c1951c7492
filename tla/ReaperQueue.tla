---------------------------- MODULE ReaperQueue ----------------------------
(***************************************************************************)
(* What a reaper promises its owner: a queue of things waiting to be       *)
(* reaped.  Whatever is added waits in the order of its arrival; it leaves *)
(* when it is withdrawn, or reaped because it is ripe, or reaped because   *)
(* the reaper is closing; and the only reordering is that the head may go  *)
(* behind everything else, once it has been found not ripe.                *)
(***************************************************************************)
EXTENDS Integers, Sequences

CONSTANT Things

VARIABLES
  queue,    \* the things waiting, in the order they will be looked at
  reaped,   \* the things that were reaped and not added again
  ripe,     \* the things their owner would let go
  phase     \* "open", "closing" or "closed"

vars == <<queue, reaped, ripe, phase>>

Waiting == {queue[i] : i \in DOMAIN queue}

Init ==
  /\ queue = <<>>
  /\ reaped = {}
  /\ ripe = {}
  /\ phase = "open"

Add(t) ==
  /\ phase = "open"
  /\ t \notin Waiting
  /\ IF t \in ripe
     THEN reaped' = reaped \cup {t} /\ UNCHANGED queue
     ELSE reaped' = reaped \ {t} /\ queue' = Append(queue, t)
  /\ UNCHANGED <<ripe, phase>>

Leave(i) ==
  queue' = SubSeq(queue, 1, i - 1) \o SubSeq(queue, i + 1, Len(queue))

Withdraw(i) ==
  /\ phase = "open"
  /\ Leave(i)
  /\ UNCHANGED <<reaped, ripe, phase>>

Reap(i) ==
  /\ phase = "closing" \/ queue[i] \in ripe
  /\ Leave(i)
  /\ reaped' = reaped \cup {queue[i]}
  /\ UNCHANGED <<ripe, phase>>

Rotate ==
  /\ phase = "open"
  /\ queue # <<>> /\ Head(queue) \notin ripe
  /\ queue' = Append(Tail(queue), Head(queue))
  /\ UNCHANGED <<reaped, ripe, phase>>

Owner ==
  /\ phase = "open"
  /\ ripe' \in SUBSET Things
  /\ UNCHANGED <<queue, reaped, phase>>

Close ==
  /\ \/ phase = "open" /\ phase' = "closing"
     \/ phase = "closing" /\ queue = <<>> /\ phase' = "closed"
  /\ UNCHANGED <<queue, reaped, ripe>>

Next ==
  \/ \E t \in Things : Add(t)
  \/ \E i \in DOMAIN queue : Withdraw(i) \/ Reap(i)
  \/ Rotate
  \/ Owner
  \/ Close

Spec == Init /\ [][Next]_vars
=============================================================================
