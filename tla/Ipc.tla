-------------------------------- MODULE Ipc --------------------------------
(***************************************************************************)
(* Interprocess alerts, src/src/util/ipc.c: one pipe per process slot,     *)
(* made before the processes are, which every other process writes to and  *)
(* the process in the slot reads.  An alert larger than a packet is cut    *)
(* into parts.  A packet that does not fit waits in the writer's memory    *)
(* for a write event; parts are put together in the reader's.              *)
(*                                                                         *)
(* A pipe outlives the process that reads it.  The tables in shared memory *)
(* say which slots have a process and of which kind; a process reports its *)
(* kind only when the timer of ipc_scrape_proctitle runs.                  *)
(*                                                                         *)
(* Packets are written and read whole (they are no larger than PIPE_BUF),  *)
(* and memory for a waiting packet is always there.  A packet is read by   *)
(* two calls, its header and its body (lines 664 and 702), with no handler *)
(* and nothing else that may fail between them: processes die between two  *)
(* packets or in a handler here, never between these calls, where only a   *)
(* signal from outside could kill them and leave a body without a header.  *)
(***************************************************************************)
EXTENDS Integers, Sequences, SequencesExt, FiniteSets

CONSTANTS
  Workers,      \* worker_processes
  PipeRoom,     \* the packets a pipe takes before write() says EAGAIN
  Settings,     \* what may happen in a behaviour, see `setting`
  MaxAlerts,    \* bounds: alerts sent, and crashes that nothing causes
  MaxCrashes

ASSUME IpcAssumption ==
  /\ Workers \in Nat \ {0}
  /\ PipeRoom \in Nat \ {0}
  /\ MaxAlerts \in Nat \ {0} /\ MaxCrashes \in Nat
  /\ Settings \subseteq [startup : BOOLEAN, crash : BOOLEAN, big : BOOLEAN,
                           alerts : 0 .. MaxAlerts]

NGX_MAX_HELPER_PROCESSES == 2
MaxProcesses == Workers + NGX_MAX_HELPER_PROCESSES
Slots == 0 .. MaxProcesses - 1
Manager == Workers          \* the slot nginx gives to its cache manager
Loader == Workers + 1       \* and to its cache loader, which soon exits

VARIABLES
  setting,        \* startup: begins without helpers; crash: processes may
                  \*   die; big: alerts of two packets are sent;
                  \*   alerts: how many are sent
  up,             \* up[s]: there is a process in slot s
  pid,            \* process_slots[s].pid, a number per process
  process_type,   \* process_slots[s].process_type
  process_count,  \* how many entries of process_slots are read
  pipe,           \* pipe[d]: the packets in the pipe of slot d
  wbuf,           \* wbuf[s][d]: those waiting in the process of slot s
  writing,        \* writing[s]: whose write handler is at work in s
  rbuf,           \* rbuf[d][s]: the parts read from s, or NoBuf
  job,            \* job[s]: the alert that s is sending
  cached,         \* ipc_alert_cachemanager's static slot in each process
  sent, crashes,  \* bounded counters
  starts,         \* processes started, which numbers them
  handed          \* history: handed[d], the alerts handlers were called with

table == <<pid, process_type, process_count>>
vars == <<setting, up, table, pipe, wbuf, writing, rbuf, job, cached, sent,
          crashes, starts, handed>>

Unknown == -1     \* NGX_ERROR
ProcessType == {"worker", "manager", "loader"}
TitleOf(s) == CASE s = Manager -> "manager" [] s = Loader -> "loader"
                [] OTHER -> "worker"

\* who has a handler for an alert: the workers, the others, or either
Kind == {"worker", "manager", "any"}
HasHandler(d, kind) ==
  \/ kind = "any"
  \/ kind = "worker" /\ d < Workers
  \/ kind = "manager" /\ d >= Workers

Alert == [id : 1 .. MaxAlerts, kind : Kind, parts : 1 .. 2]
\* ctrl is '$' for parts = 1, else '>' for part = 1 and '+' for the others
Packet == [src : Slots, pid : Nat, part : 1 .. 2, alert : Alert]
NoBuf == [pid |-> 0, parts |-> 0, ids |-> <<>>]
NoJob == [dests |-> <<>>, part |-> 1,
          alert |-> [id |-> 1, kind |-> "any", parts |-> 1]]
FreshW == [d \in Slots |-> <<>>]
FreshR == [s \in Slots |-> NoBuf]

\* ipc_activate_channel makes every pipe anew
Activated == [d \in Slots |-> <<>>]

TypeOK ==
  /\ setting \in Settings
  /\ up \in [Slots -> BOOLEAN]
  /\ pid \in [Slots -> Nat]
  /\ process_type \in [Slots -> ProcessType]
  /\ process_count = Workers + starts
  /\ \A d \in Slots : /\ pipe[d] \in Seq(Packet)
                      /\ Len(pipe[d]) <= PipeRoom
                      /\ writing[d] \in Slots \cup {Unknown}
                      /\ cached[d] \in Slots \cup {Unknown}
                      /\ job[d].dests \in Seq(Slots)
                      /\ job[d].alert \in Alert
  /\ \A s, d \in Slots : /\ wbuf[s][d] \in Seq(Packet)
                         /\ rbuf[d][s] # NoBuf =>
                              Len(rbuf[d][s].ids) < rbuf[d][s].parts
  /\ sent \in 0 .. MaxAlerts
  /\ crashes \in 0 .. MaxCrashes
  /\ starts \in Nat

-----------------------------------------------------------------------------
(* ipc_init_module and ipc_open: every slot has its place in the table,    *)
(* with the type 0, which is that of a worker, and the workers are counted.*)
(* With startup, the workers have started, and the helpers have not; else  *)
(* every process has, has said what it is, and the loader has gone.        *)
Init ==
  /\ setting \in Settings
  /\ up = [s \in Slots |-> s < Workers \/ (~setting.startup /\ s = Manager)]
  /\ pid = [s \in Slots |-> IF setting.startup /\ s >= Workers THEN 0
                             ELSE s + 1]
  /\ process_type = [s \in Slots |-> IF setting.startup THEN "worker"
                                     ELSE TitleOf(s)]
  /\ starts = IF setting.startup THEN Workers ELSE MaxProcesses
  /\ process_count = Workers + starts
  /\ pipe = Activated
  /\ wbuf = [s \in Slots |-> FreshW]
  /\ writing = [s \in Slots |-> Unknown]
  /\ rbuf = [d \in Slots |-> FreshR]
  /\ job = [s \in Slots |-> NoJob]
  /\ cached = [s \in Slots |-> Unknown]
  /\ sent = 0
  /\ crashes = 0
  /\ handed = [d \in Slots |-> <<>>]

\* ipc_init_worker.  Entries are counted once more for every process that
\* starts; buffers and static variables are those of a new process.
Start(s) ==
  /\ ~up[s]
  /\ s = Loader => setting.startup /\ pid[s] = 0    \* never respawned
  /\ up' = [up EXCEPT ![s] = TRUE]
  /\ starts' = starts + 1
  /\ pid' = [pid EXCEPT ![s] = starts']
  /\ process_count' = process_count + 1
  /\ UNCHANGED <<setting, process_type, pipe, wbuf, writing, rbuf, job,
                 cached, sent, crashes, handed>>

\* ipc_scrape_proctitle looks for its pid among the entries counted so far
Scrape(s) ==
  /\ up[s]
  /\ process_type[s] # TitleOf(s)
  /\ s < process_count
  /\ process_type' = [process_type EXCEPT ![s] = TitleOf(s)]
  /\ UNCHANGED <<setting, up, pid, process_count, pipe, wbuf, writing, rbuf,
                 job, cached, sent, crashes, starts, handed>>

\* The memory of a process goes with it, the pipes stay.
Dead(s) ==
  /\ up' = [up EXCEPT ![s] = FALSE]
  /\ wbuf' = [wbuf EXCEPT ![s] = FreshW]
  /\ writing' = [writing EXCEPT ![s] = Unknown]
  /\ rbuf' = [rbuf EXCEPT ![s] = FreshR]
  /\ job' = [job EXCEPT ![s] = NoJob]
  /\ cached' = [cached EXCEPT ![s] = Unknown]

\* a crash
Die(s) ==
  /\ up[s] /\ setting.crash /\ crashes < MaxCrashes
  /\ crashes' = crashes + 1
  /\ Dead(s)
  /\ UNCHANGED <<setting, table, pipe, sent, starts, handed>>

-----------------------------------------------------------------------------
(* Sending.  A process that sends does nothing else until the last packet  *)
(* is in the pipe or in its buffer.                                        *)

Idle(s) == up[s] /\ job[s].dests = <<>> /\ writing[s] = Unknown

Begin(s, dests, kind, parts) ==
  /\ Idle(s) /\ sent < setting.alerts
  /\ parts > 1 => setting.big
  /\ sent' = sent + 1
  /\ job' = [job EXCEPT ![s] =
       [dests |-> dests, part |-> 1,
        alert |-> [id |-> sent', kind |-> kind, parts |-> parts]]]
  /\ UNCHANGED <<setting, up, table, pipe, wbuf, writing, rbuf, crashes,
                 starts, handed>>

\* ipc_alert_slot: in this program, the manager's answer to a worker
AlertSlot(s, d, parts) ==
  /\ s = Manager /\ d < Workers
  /\ Begin(s, <<d>>, "worker", parts)
  /\ UNCHANGED cached

\* The entries of process_slots that are read, those after the table
\* included: they are zero, a worker in slot 0.
Entries == [i \in 1 .. process_count |->
              IF i <= MaxProcesses
              THEN [slot |-> i - 1, type |-> process_type[i - 1]]
              ELSE [slot |-> 0, type |-> "worker"]]

\* the elements of seq whose indexes are in I
At(seq, I) ==
  LET upto[n \in 0 .. Len(seq)] ==
        IF n = 0 THEN <<>>
        ELSE IF n \in I THEN Append(upto[n - 1], seq[n]) ELSE upto[n - 1]
  IN  upto[Len(seq)]

\* ipc_get_process_slots and the loop of ipc_alert_all_processes
SlotsOf(type) ==
  At([i \in DOMAIN Entries |-> Entries[i].slot],
     {i \in DOMAIN Entries : Entries[i].type = type})

\* ipc_alert_all_workers, used by the manager
AlertAllWorkers(s, parts) ==
  /\ s = Manager
  /\ Begin(s, SlotsOf("worker"), "worker", parts)
  /\ UNCHANGED cached

\* Mutant of ManagerSlot: the slot is not looked up.
ManagerSlotZero == 0

\* slots[0] of a static array, which is zero when no slot was found
ManagerSlot == LET s == SlotsOf("manager") IN IF s = <<>> THEN 0 ELSE s[1]

\* ipc_alert_cachemanager remembers what it found the first time
AlertManager(s, parts) ==
  LET slot == IF cached[s] = Unknown THEN ManagerSlot ELSE cached[s] IN
  /\ s < Workers
  /\ Begin(s, <<slot>>, "manager", parts)
  /\ cached' = [cached EXCEPT ![s] = slot]

\* Mutants of WriteFirst: a packet that does not fit is lost; a packet that
\* was written stays in the buffer.
WriteFirstDrop(s, d, waiting) ==
  IF Len(pipe[d]) < PipeRoom
  THEN /\ pipe' = [pipe EXCEPT ![d] = Append(@, Head(waiting))]
       /\ wbuf' = [wbuf EXCEPT ![s][d] = Tail(waiting)]
       /\ writing' = [writing EXCEPT ![s] = IF Tail(waiting) = <<>>
                                            THEN Unknown ELSE d]
  ELSE /\ wbuf' = [wbuf EXCEPT ![s][d] = Tail(waiting)]
       /\ writing' = [writing EXCEPT ![s] = Unknown]
       /\ UNCHANGED pipe
WriteFirstKeep(s, d, waiting) ==
  IF Len(pipe[d]) < PipeRoom
  THEN /\ pipe' = [pipe EXCEPT ![d] = Append(@, Head(waiting))]
       /\ wbuf' = [wbuf EXCEPT ![s][d] = waiting]
       /\ writing' = [writing EXCEPT ![s] = Unknown]
  ELSE /\ wbuf' = [wbuf EXCEPT ![s][d] = waiting]
       /\ writing' = [writing EXCEPT ![s] = Unknown]
       /\ UNCHANGED pipe

\* one round of ipc_write_handler: the first packet that waits is written,
\* or it does not fit and the handler leaves everything to a write event
WriteFirst(s, d, waiting) ==
  IF Len(pipe[d]) < PipeRoom
  THEN /\ pipe' = [pipe EXCEPT ![d] = Append(@, Head(waiting))]
       /\ wbuf' = [wbuf EXCEPT ![s][d] = Tail(waiting)]
       /\ writing' = [writing EXCEPT ![s] = IF Tail(waiting) = <<>>
                                            THEN Unknown ELSE d]
  ELSE /\ wbuf' = [wbuf EXCEPT ![s][d] = waiting]
       /\ writing' = [writing EXCEPT ![s] = Unknown]
       /\ UNCHANGED pipe

NextPart(j) == IF j.part < j.alert.parts
               THEN [j EXCEPT !.part = @ + 1]
               ELSE [j EXCEPT !.part = 1, !.dests = Tail(@)]

\* ipc_alert_channel: the next packet goes behind those that wait
SendPart(s) ==
  LET j == job[s]
      d == Head(j.dests)
  IN
  /\ j.dests # <<>> /\ writing[s] = Unknown
  /\ d # s
  /\ WriteFirst(s, d, Append(wbuf[s][d], [src |-> s, pid |-> pid[s],
                                          part |-> j.part, alert |-> j.alert]))
  /\ job' = [job EXCEPT ![s] = NextPart(j)]
  /\ UNCHANGED <<setting, up, table, rbuf, cached, sent, crashes, starts,
                 handed>>

\* Mutant of WriteHandler: no write event is waited for.
WriteHandlerNoEvent(s, d) ==
  /\ up[s] /\ wbuf[s][d] # <<>>
  /\ writing[s] = d
  /\ WriteFirst(s, d, wbuf[s][d])
  /\ UNCHANGED <<setting, up, table, rbuf, job, cached, sent, crashes, starts,
                 handed>>

\* ipc_write_handler goes on, or is called by a write event
WriteHandler(s, d) ==
  /\ up[s] /\ wbuf[s][d] # <<>>
  /\ \/ writing[s] = d
     \/ Idle(s) /\ Len(pipe[d]) < PipeRoom
  /\ WriteFirst(s, d, wbuf[s][d])
  /\ UNCHANGED <<setting, up, table, rbuf, job, cached, sent, crashes, starts,
                 handed>>

-----------------------------------------------------------------------------
(* Receiving.                                                              *)

\* ipc_alert_slot to oneself: the handler is called at once.  What
\* ngx_wafflex_ipc_alert_handler calls where there is no handler is NULL.
SendOwn(s) ==
  LET j == job[s] IN
  /\ j.dests # <<>> /\ writing[s] = Unknown
  /\ Head(j.dests) = s
  /\ IF HasHandler(s, j.alert.kind)
     THEN /\ handed' = [handed EXCEPT ![s] = Append(@, <<s, <<j.alert.id>>>>)]
          /\ job' = [job EXCEPT ![s] = [j EXCEPT !.dests = Tail(@)]]
          /\ UNCHANGED <<up, wbuf, writing, rbuf, cached>>
     ELSE Dead(s) /\ UNCHANGED handed
  /\ UNCHANGED <<setting, table, pipe, sent, crashes, starts>>

\* channel_get_readbuf: what is put together for the slot of packet p, with
\* p; of a dead process in the slot nothing is kept
Joined(buf, p) ==
  IF buf.pid = p.pid
  THEN IF p.part # 1 /\ p.alert.parts = buf.parts
       THEN [buf EXCEPT !.ids = Append(@, p.alert.id)] ELSE NoBuf
  ELSE IF p.part = 1
       THEN [pid |-> p.pid, parts |-> p.alert.parts, ids |-> <<p.alert.id>>]
       ELSE NoBuf

\* one round of ipc_read's loop on packet p of slot d, for a whole alert
ReadWhole(d) ==
  LET p == Head(pipe[d]) IN
  /\ Idle(d) /\ pipe[d] # <<>>
  /\ p.alert.parts = 1
  /\ pipe' = [pipe EXCEPT ![d] = Tail(@)]
  /\ IF HasHandler(d, p.alert.kind)
     THEN /\ handed' = [handed EXCEPT ![d] =
                          Append(@, <<p.src, <<p.alert.id>>>>)]
          /\ UNCHANGED <<up, wbuf, writing, rbuf, job, cached>>
     ELSE Dead(d) /\ UNCHANGED handed
  /\ UNCHANGED <<setting, table, sent, crashes, starts>>

\* the same for a part that fits what was read before
ReadPart(d) ==
  LET p == Head(pipe[d])
      buf == Joined(rbuf[d][p.src], p)
      whole == Len(buf.ids) = buf.parts
  IN
  /\ Idle(d) /\ pipe[d] # <<>>
  /\ p.alert.parts > 1 /\ buf # NoBuf
  /\ pipe' = [pipe EXCEPT ![d] = Tail(@)]
  /\ IF whole /\ ~HasHandler(d, p.alert.kind)
     THEN Dead(d) /\ UNCHANGED handed
     ELSE /\ rbuf' = [rbuf EXCEPT ![d][p.src] = IF whole THEN NoBuf ELSE buf]
          /\ handed' = IF whole
                       THEN [handed EXCEPT ![d] =
                               Append(@, <<p.src, buf.ids>>)]
                       ELSE handed
          /\ UNCHANGED <<up, wbuf, writing, job, cached>>
  /\ UNCHANGED <<setting, table, sent, crashes, starts>>

\* A part that does not fit: its length is given to ipc_clear_socket_readbuf,
\* which throws away everything the pipe holds.
ReadWeird(d) ==
  LET p == Head(pipe[d]) IN
  /\ Idle(d) /\ pipe[d] # <<>>
  /\ p.alert.parts > 1 /\ Joined(rbuf[d][p.src], p) = NoBuf
  /\ pipe' = [pipe EXCEPT ![d] = <<>>]
  /\ rbuf' = [rbuf EXCEPT ![d][p.src] = NoBuf]
  /\ UNCHANGED <<setting, up, table, wbuf, writing, job, cached, sent,
                 crashes, starts, handed>>

-----------------------------------------------------------------------------
Alerting(s) ==
  \E parts \in 1 .. 2 : \/ \E d \in Slots : AlertSlot(s, d, parts)
                        \/ AlertAllWorkers(s, parts)
                        \/ AlertManager(s, parts)

Writing(s) == SendPart(s) \/ SendOwn(s) \/ \E d \in Slots : WriteHandler(s, d)
Reading(d) == ReadWhole(d) \/ ReadPart(d) \/ ReadWeird(d)

Next == \E s \in Slots : \/ Start(s) \/ Scrape(s) \/ Die(s)
                         \/ Alerting(s) \/ Writing(s) \/ Reading(s)

Spec == Init /\ [][Next]_vars

(* nginx's master starts a process in the slot of one that died, and the   *)
(* event loop of a process comes round to what it has to write or to read. *)
Fairness ==
  \A s \in Slots :
    WF_vars(Start(s)) /\ WF_vars(Writing(s)) /\ WF_vars(Reading(s))

FairSpec == Spec /\ Fairness

-----------------------------------------------------------------------------
(* Properties.                                                             *)

\* the alerts whose last packet is among ps and came from s
LastParts(ps, s) ==
  At([i \in DOMAIN ps |-> ps[i].alert.id],
     {i \in DOMAIN ps : ps[i].src = s /\ ps[i].part = ps[i].alert.parts})

\* the alert of which s has sent the first packet to d, and not the last
Unfinished(s, d) ==
  IF job[s].part > 1 /\ Head(job[s].dests) = d THEN <<job[s].alert.id>>
  ELSE <<>>

OnTheWay(s, d) ==
  LastParts(pipe[d], s) \o LastParts(wbuf[s][d], s) \o Unfinished(s, d)

\* an alert put together of parts of several is none that was sent
Mixed == 0
Whole(h) ==
  <<h[1], IF \E i \in DOMAIN h[2] : h[2][i] # h[2][1] THEN Mixed ELSE h[2][1]>>

Queue == INSTANCE AlertQueue WITH
  Alerts <- 1 .. MaxAlerts,
  queue <- [w \in Slots \X Slots |-> OnTheWay(w[1], w[2])],
  handed <- [d \in Slots |-> [i \in DOMAIN handed[d] |-> Whole(handed[d][i])]],
  heirs <- {d \in Slots : pid[d] \notin {0, d + 1}}

(* The pipes, the buffers of writers and readers and the packets implement *)
(* a queue from every slot to every other, whatever does not fit into a    *)
(* pipe, whoever writes between two parts, and whoever dies: see           *)
(* AlertQueue for what that promises.                                      *)
ImplementsQueue == Queue!Spec

(* Once every process has said what it is, an alert reaches only processes *)
(* that have a handler for it, those that were respawned since included;   *)
(* ngx_wafflex_ipc_alert_handler calls NULL for any other.                 *)
ToItsHandler ==
  ~setting.startup =>
    \A d \in Slots \ {Loader} :
      \A p \in ToSet(pipe[d]) : HasHandler(d, p.alert.kind)

(* An alert to all workers comes to each of them once, and more than once  *)
(* only to slot 0, as often as process_count exceeds the table: a process  *)
(* that starts, or starts again, adds nothing else to a broadcast.         *)
OnceOrToSlotZero ==
  TypeOK /\ \A d \in Slots : \A i, j \in DOMAIN handed[d] :
    i # j /\ handed[d][i] = handed[d][j] =>
      d = 0 /\ process_count > MaxProcesses

(* What was sent to a worker or to the manager leaves the pipe and the     *)
(* buffers again, a process being started in every slot where one died.    *)
Arrives ==
  <>[](\A s \in Slots, d \in Slots \ {Loader} : OnTheWay(s, d) = <<>>)
=============================================================================
