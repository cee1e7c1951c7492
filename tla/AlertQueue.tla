----------------------------- MODULE AlertQueue -----------------------------
(***************************************************************************)
(* What the interprocess alerts of src/src/util/ipc.c promise the handlers *)
(* that are called with them: between any two slots there is a queue.  An  *)
(* alert is handed over once, whole, after all that were sent before it on *)
(* the same way; the successor of a process that died is handed what its   *)
(* predecessor was sent.  A death loses alerts, the latest that the process *)
(* has sent and the one it was about to handle.  A process that follows    *)
(* one that died may throw away what there is on the ways to it, and then  *)
(* put together parts of two alerts of the same sender.                    *)
(***************************************************************************)
EXTENDS Sequences, Integers

CONSTANTS Slots, Alerts,
          Mixed    \* parts of several alerts, taken for one

VARIABLES
  up,       \* up[s]: there is a process in slot s
  queue,    \* queue[<<s, d>>]: the alerts on their way from s to d
  handed,   \* handed[d]: the alerts the handler was called with in slot d,
            \*   each with its sender
  heirs     \* the slots whose process may have followed one that died

vars == <<up, queue, handed, heirs>>

Ways == Slots \X Slots

Init ==
  /\ up \in [Slots -> BOOLEAN]
  /\ queue = [w \in Ways |-> <<>>]
  /\ handed = [d \in Slots |-> <<>>]
  /\ heirs = {}

Start(s) ==
  /\ ~up[s]
  /\ up' = [up EXCEPT ![s] = TRUE]
  /\ heirs' \in {heirs, heirs \cup {s}}
  /\ UNCHANGED <<queue, handed>>

Send(w, a) ==
  /\ up[w[1]]
  /\ UNCHANGED <<up, handed, heirs>>
  /\ queue' = [queue EXCEPT ![w] = Append(@, a)]

Hand(w) ==
  /\ up[w[2]] /\ queue[w] # <<>>
  /\ UNCHANGED <<up, heirs>>
  /\ \E a \in {Head(queue[w])} \cup IF w[2] \in heirs THEN {Mixed} ELSE {} :
       handed' = [handed EXCEPT ![w[2]] = Append(@, <<w[1], a>>)]
  /\ queue' = [queue EXCEPT ![w] = Tail(@)]

\* an alert to the sender's own slot is handed over without a queue
HandOwn(s, a) ==
  /\ up[s]
  /\ handed' = [handed EXCEPT ![s] = Append(@, <<s, a>>)]
  /\ UNCHANGED <<up, queue, heirs>>

Die(s) ==
  /\ up[s]
  /\ up' = [up EXCEPT ![s] = FALSE]
  /\ \E fatal \in Ways \cup {<<>>} : \A w \in Ways :
       IF w[1] = s THEN \E n \in 0 .. Len(queue[w]) :
                          queue'[w] = SubSeq(queue[w], 1, n)
       ELSE IF w = fatal /\ w[2] = s /\ queue[w] # <<>>
       THEN queue'[w] = Tail(queue[w])
       ELSE queue'[w] = queue[w]
  /\ UNCHANGED <<handed, heirs>>

\* ipc_clear_socket_readbuf, when the rest of an alert finds no beginning
Clear(d) ==
  /\ up[d] /\ d \in heirs
  /\ \A w \in Ways :
       IF w[2] = d THEN \E n \in 0 .. Len(queue[w]) :
                          queue'[w] = SubSeq(queue[w], n + 1, Len(queue[w]))
       ELSE queue'[w] = queue[w]
  /\ UNCHANGED <<up, handed, heirs>>

Next ==
  \/ \E w \in Ways : (\E a \in Alerts : Send(w, a)) \/ Hand(w)
  \/ \E s \in Slots : \/ \E a \in Alerts : HandOwn(s, a)
                      \/ Start(s) \/ Die(s) \/ Clear(s)

Spec == Init /\ [][Next]_vars
=============================================================================
