------------------------------ MODULE Limiter ------------------------------
(***************************************************************************)
(* The values of one limiter, shared by the workers and the manager        *)
(* (src/src/ruleset/limiter.c, src/src/lua/nginx/limiter.lua).             *)
(*                                                                         *)
(* A limiter value is a counter in shared memory for one key.  Only the    *)
(* manager allocates and frees it.  A worker that has no pointer for a key *)
(* suspends its request, asks the manager, and keeps the pointer of the    *)
(* answer in its own Lua table.  The manager counts the pointers it has    *)
(* given out, asks all workers to give a value back once nothing is left   *)
(* of its count, and frees it when every pointer it counted came back.     *)
(*                                                                         *)
(* Processes are single threaded: one action is one callback, from the     *)
(* event loop and back to it.  Alerts travel in one pipe per direction and *)
(* worker, in order; a pipe outlives a worker that crashes, and the worker *)
(* that replaces it in the same slot reads what was left in it.            *)
(*                                                                         *)
(* When nginx quits or is reloaded, the manager deletes its limiters and   *)
(* exits at once, while the workers still serve the requests they have.    *)
(* It is not told to die in any other way here.                            *)
(***************************************************************************)
EXTENDS Integers, Sequences, FiniteSets

CONSTANTS
  Workers,       \* worker processes (slots)
  Requests,      \* addresses of requests, in each worker
  Keys,          \* hashed keys of the limiter
  Values,        \* addresses in shared memory for limiter values
  NULL,
  MaxStarts,     \* bound: conditions that find no pointer in their worker
  MaxQueue       \* bound: release requests wait while a pipe is this full

ASSUME LimiterAssumption ==
  /\ IsFiniteSet(Workers)
  /\ NULL \notin Workers \cup Requests \cup Keys \cup Values
  /\ MaxStarts \in Nat
  /\ MaxQueue \in Nat

VARIABLES
  mgr,        \* manager: it runs, deletes its limiters, or has exited
  mtable,     \* manager: `limiters` of limiter.lua, key -> value
  refcount,   \* lval->refcount, "handled strictly by the manager"
  alive,      \* the values that are allocated
  vkey,       \* lval->key
  hot,        \* the values limiter_value_ready_to_reap would not let go:
              \*   something is left of the count, or it is a second old
  wtable,     \* worker: `limiters` of limiter.lua, with the grant (history)
  req,        \* worker: its requests and their condition stacks
  up,         \* the workers that run
  toMgr,      \* the alerts on their way from each worker to the manager
  toWkr,      \* the alerts on their way from the manager to each worker
  grants,     \* history: the grants of each value that did not come back
  granted,    \* history: the number of grants so far
  left,       \* history: the addresses, in each worker, of requests that were
              \*   closed, or died with it, while they waited
  starts      \* how many suspensions there were, for the bound

manager == <<mgr, mtable, refcount, alive, vkey, grants, granted>>
worker  == <<wtable, req, left, up>>
vars    == <<mgr, mtable, refcount, alive, vkey, hot, wtable, req, up,
             toMgr, toWkr, grants, granted, left, starts>>

NoEntry == [val |-> NULL, grant |-> 0]
Entry   == [val : Values \cup {NULL}, grant : Nat]

\* A request is evaluated when it is idle.  It waits for the manager, then
\* is done, having used a value of the key `used`; it is still tracked.  The
\* address of one that is closed is that of a new one, sooner or later.
NoRequest == [st |-> "idle", key |-> NULL, used |-> NULL]
Request   == [st : {"idle", "waiting", "done"},
              key : Keys \cup {NULL}, used : Keys \cup {NULL}]

Message == [type : {"request", "response", "release", "released"},
            key : Keys, val : Values \cup {NULL},
            req : Requests \cup {NULL}, forced : BOOLEAN, grant : Nat]

TypeOK ==
  /\ mgr \in {"runs", "quits", "gone"}
  /\ mtable \in [Keys -> Values \cup {NULL}]
  /\ refcount \in [Values -> Nat]
  /\ alive \in SUBSET Values
  /\ vkey \in [Values -> Keys \cup {NULL}]
  /\ hot \in SUBSET Values
  /\ wtable \in [Workers -> [Keys -> Entry]]
  /\ req \in [Workers -> [Requests -> Request]]
  /\ up \in SUBSET Workers
  /\ toMgr \in [Workers -> Seq(Message)]
  /\ toWkr \in [Workers -> Seq(Message)]
  /\ grants \in [Values -> SUBSET Nat]
  /\ granted \in Nat
  /\ left \in [Workers -> SUBSET Requests]
  /\ starts \in Nat

Init ==
  /\ mgr = "runs"
  /\ mtable = [k \in Keys |-> NULL]
  /\ refcount = [v \in Values |-> 0]
  /\ alive = {}
  /\ vkey = [v \in Values |-> NULL]
  /\ hot = {}
  /\ wtable = [w \in Workers |-> [k \in Keys |-> NoEntry]]
  /\ req = [w \in Workers |-> [r \in Requests |-> NoRequest]]
  /\ up = Workers
  /\ toMgr = [w \in Workers |-> <<>>]
  /\ toWkr = [w \in Workers |-> <<>>]
  /\ grants = [v \in Values |-> {}]
  /\ granted = 0
  /\ left = [w \in Workers |-> {}]
  /\ starts = 0

-----------------------------------------------------------------------------
(* Alerts.                                                                 *)
RequestMsg(r, k) ==
  [type |-> "request", key |-> k, val |-> NULL, req |-> r, forced |-> FALSE,
   grant |-> 0]
ResponseMsg(r, k, v, g) ==
  [type |-> "response", key |-> k, val |-> v, req |-> r, forced |-> FALSE,
   grant |-> g]
ReleaseMsg(v, force) ==
  [type |-> "release", key |-> vkey[v], val |-> v, req |-> NULL,
   forced |-> force, grant |-> 0]
ReleasedMsg(m, e) ==
  [type |-> "released", key |-> m.key, val |-> e.val, req |-> NULL,
   forced |-> m.forced, grant |-> e.grant]

\* An alert of this type is the next that w, or the manager from w, handles.
WorkerReceives(w, type) ==
  /\ w \in up
  /\ toWkr[w] # <<>>
  /\ Head(toWkr[w]).type = type
ManagerReceives(w, type) ==
  /\ mgr = "runs"
  /\ toMgr[w] # <<>>
  /\ Head(toMgr[w]).type = type

-----------------------------------------------------------------------------
(* Workers.                                                                *)

\* An alert for the manager.  Nobody reads it once this quits.
ToManager(w, m) ==
  toMgr' = IF mgr = "runs" THEN [toMgr EXCEPT ![w] = Append(@, m)] ELSE toMgr

\* setLimiterValue and unsetLimiterValue of a worker.
Set(w, k, e) == wtable' = [wtable EXCEPT ![w][k] = e]
HoldsNothing(w) == \A k \in Keys : wtable[w][k].val = NULL

\* condition_limit_check_eval adds its increment, which may be 0.  A manager
\* that quits may have freed what it adds to.
Use(v) == hot' = hot \/ hot' = hot \cup ({v} \cap alive)

\* The worker dies, of a failed assertion, a NULL pointer, or a Lua error
\* (WFX_CRASH_ON_LUA_ERROR): all it knew is lost, its pipes stay.
Waiting(w) == {r \in Requests : req[w][r].st = "waiting"}
Die(w) ==
  /\ up' = up \ {w}
  /\ wtable' = [wtable EXCEPT ![w] = [k \in Keys |-> NoEntry]]
  /\ req' = [req EXCEPT ![w] = [r \in Requests |-> NoRequest]]
  /\ left' = [left EXCEPT ![w] = @ \cup Waiting(w)]

\* condition_limit_check_eval with an empty stack and a pointer in the table
EvalHit(w, r, k) ==
  /\ w \in up
  /\ req[w][r].st = "idle"
  /\ wtable[w][k].val # NULL
  /\ Use(wtable[w][k].val)
  /\ UNCHANGED <<manager, worker, toMgr, toWkr, starts>>

\* ... and without: NULL goes on the stack and the request is suspended.
EvalMiss(w, r, k) ==
  /\ w \in up
  /\ req[w][r].st = "idle"
  /\ wtable[w][k].val = NULL
  /\ starts < MaxStarts
  /\ starts' = starts + 1
  /\ req' = [req EXCEPT ![w][r] = [st |-> "waiting", key |-> k, used |-> NULL]]
  /\ ToManager(w, RequestMsg(r, k))
  /\ UNCHANGED <<manager, hot, wtable, left, up, toWkr>>

\* nginx closes a request; its cleanup untracks it and clears its stack.
Close(w, r) ==
  /\ w \in up
  /\ req[w][r].st \in {"waiting", "done"}
  /\ req' = [req EXCEPT ![w][r] = NoRequest]
  /\ left' = [left EXCEPT ![w] = @ \cup (Waiting(w) \cap {r})]
  /\ UNCHANGED <<manager, hot, wtable, up, toMgr, toWkr, starts>>

(* limiter_value_response_alert_handler.  A request that is still tracked  *)
(* has the value put at the tail of its stack and is resumed: it evaluates *)
(* the condition with it.                                                  *)
ResponseFails(w) ==
  LET m == Head(toWkr[w]) IN
    /\ WorkerReceives(w, "response")
    /\ \/ m.val = NULL                      \* assert(d->val)
       \/ req[w][m.req].st = "done"         \* no tail to put it at
    /\ Die(w)
    /\ toWkr' = [toWkr EXCEPT ![w] = Tail(@)]
    /\ UNCHANGED <<manager, hot, toMgr, starts>>

ResponseResumes(w) ==
  LET m == Head(toWkr[w]) IN
    /\ WorkerReceives(w, "response")
    /\ m.val # NULL
    /\ req[w][m.req].st = "waiting"
    /\ Set(w, m.key, [val |-> m.val, grant |-> m.grant])
    /\ req' = [req EXCEPT ![w][m.req] =
                 [req[w][m.req] EXCEPT !.st = "done", !.used = m.key]]
    /\ Use(m.val)
    /\ toWkr' = [toWkr EXCEPT ![w] = Tail(@)]
    /\ UNCHANGED <<manager, left, up, toMgr, starts>>

ResponseUntracked(w) ==
  LET m == Head(toWkr[w]) IN
    /\ WorkerReceives(w, "response")
    /\ m.val # NULL
    /\ req[w][m.req].st = "idle"
    /\ Set(w, m.key, [val |-> m.val, grant |-> m.grant])
    /\ toWkr' = [toWkr EXCEPT ![w] = Tail(@)]
    /\ UNCHANGED <<manager, hot, req, left, up, toMgr, starts>>

\* Mutant: the worker answers and keeps the value in its table.
ReleaseHeldKept(w) ==
  LET m == Head(toWkr[w]) IN
    /\ WorkerReceives(w, "release")
    /\ wtable[w][m.key].val = m.val
    /\ ToManager(w, ReleasedMsg(m, wtable[w][m.key]))
    /\ toWkr' = [toWkr EXCEPT ![w] = Tail(@)]
    /\ UNCHANGED <<manager, worker, hot, starts>>

(* limiter_value_release_request_alert_handler.                            *)
ReleaseHeld(w) ==
  LET m == Head(toWkr[w]) IN
    /\ WorkerReceives(w, "release")
    /\ wtable[w][m.key].val = m.val
    /\ Set(w, m.key, NoEntry)
    /\ ToManager(w, ReleasedMsg(m, wtable[w][m.key]))
    /\ toWkr' = [toWkr EXCEPT ![w] = Tail(@)]
    /\ UNCHANGED <<manager, hot, req, left, up, starts>>

\* "limiter value not found here. don't reply."
ReleaseNotHeld(w) ==
  LET m == Head(toWkr[w]) IN
    /\ WorkerReceives(w, "release")
    /\ wtable[w][m.key].val = NULL
    /\ ~HoldsNothing(w)
    /\ toWkr' = [toWkr EXCEPT ![w] = Tail(@)]
    /\ UNCHANGED <<manager, worker, hot, toMgr, starts>>

\* unsetLimiterValue raises an error when the worker has no table for the
\* limiter (rawget of nil), and when the table has another value for the key.
ReleaseFails(w) ==
  LET m == Head(toWkr[w]) IN
    /\ WorkerReceives(w, "release")
    /\ \/ HoldsNothing(w)
       \/ wtable[w][m.key].val \notin {NULL, m.val}
    /\ Die(w)
    /\ toWkr' = [toWkr EXCEPT ![w] = Tail(@)]
    /\ UNCHANGED <<manager, hot, toMgr, starts>>

\* nginx starts a worker in the slot of the one that died, unless it quits.
Respawn(w) ==
  /\ w \notin up
  /\ mgr = "runs"
  /\ up' = up \cup {w}
  /\ UNCHANGED <<manager, hot, wtable, req, left, toMgr, toWkr, starts>>

-----------------------------------------------------------------------------
(* The manager.                                                            *)

\* Mutant: the answer goes to the slot of another worker.
GrantElsewhere(w, m, v) ==
  /\ granted' = granted + 1
  /\ \E u \in Workers :
       toWkr' = [toWkr EXCEPT ![u] =
                   Append(@, ResponseMsg(m.req, m.key, v, granted + 1))]
  /\ toMgr' = [toMgr EXCEPT ![w] = Tail(@)]

Grant(w, m, v) ==
  /\ granted' = granted + 1
  /\ toWkr' = [toWkr EXCEPT ![w] =
                 Append(@, ResponseMsg(m.req, m.key, v, granted + 1))]
  /\ toMgr' = [toMgr EXCEPT ![w] = Tail(@)]

\* Mutant: a value that existed already is not sent.
RequestFoundSilent(w) ==
  LET m == Head(toMgr[w]) IN
    /\ ManagerReceives(w, "request")
    /\ mtable[m.key] # NULL
    /\ toMgr' = [toMgr EXCEPT ![w] = Tail(@)]
    /\ UNCHANGED <<manager, hot, worker, toWkr, starts>>

(* limiter_value_request_alert_handler: the value is in the table, is      *)
(* created and handed to the reaper, or cannot be created.                 *)
RequestFound(w) ==
  LET m == Head(toMgr[w]) IN
    /\ ManagerReceives(w, "request")
    /\ LET v == mtable[m.key] IN
         /\ v # NULL
         /\ refcount' = [refcount EXCEPT ![v] = @ + 1]
         /\ grants' = [grants EXCEPT ![v] = @ \cup {granted + 1}]
         /\ Grant(w, m, v)
    /\ UNCHANGED <<mgr, mtable, alive, vkey, hot, worker, starts>>

RequestCreates(w) ==
  LET m == Head(toMgr[w]) IN
    /\ ManagerReceives(w, "request")
    /\ mtable[m.key] = NULL
    /\ \E v \in Values \ alive :
         /\ alive' = alive \cup {v}
         /\ vkey' = [vkey EXCEPT ![v] = m.key]
         /\ hot' = hot \cup {v}
         /\ refcount' = [refcount EXCEPT ![v] = 1]
         /\ mtable' = [mtable EXCEPT ![m.key] = v]
         /\ grants' = [grants EXCEPT ![v] = {granted + 1}]
         /\ Grant(w, m, v)
    /\ UNCHANGED <<mgr, worker, starts>>

(* No memory, which the limiters share with everything else: the answer    *)
(* carries NULL, in a build whose shm_alloc reports that (with             *)
(* DEBUG_SHM_ALLOC_VALGRIND of util/shmem.c the manager writes to an       *)
(* address near 0 and ends).                                               *)
RequestFails(w) ==
  LET m == Head(toMgr[w]) IN
    /\ ManagerReceives(w, "request")
    /\ mtable[m.key] = NULL
    /\ toWkr' = [toWkr EXCEPT ![w] =
                   Append(@, ResponseMsg(m.req, m.key, NULL, 0))]
    /\ toMgr' = [toMgr EXCEPT ![w] = Tail(@)]
    /\ UNCHANGED <<manager, hot, worker, starts>>

\* A value is allocated no more: nothing is known of it.
Forget(v) ==
  /\ vkey' = [vkey EXCEPT ![v] = NULL]
  /\ refcount' = [refcount EXCEPT ![v] = 0]
  /\ grants' = [grants EXCEPT ![v] = {}]
  /\ hot' = hot \ {v}

\* Mutants: the value stays in the table of the manager; it is not given back
\* to shared memory.
ReapListed(v) ==
  /\ alive' = alive \ {v}
  /\ mtable' = mtable
  /\ Forget(v)
ReapLeaks(v) ==
  /\ mtable' = [mtable EXCEPT ![vkey[v]] = NULL]
  /\ UNCHANGED <<alive, vkey, refcount, grants, hot>>

\* limiter_reap_value
Reap(v) ==
  /\ alive' = alive \ {v}
  /\ mtable' = [mtable EXCEPT ![vkey[v]] = NULL]
  /\ Forget(v)

(* limiter_value_release_response_alert_handler: when the last pointer is  *)
(* back, the value is withdrawn from the reaper and added again, and       *)
(* reaper_add reaps what is ready.  The answer to a forced request would   *)
(* be left alone, but the manager that forced has gone.                    *)
Released(w) ==
  LET m == Head(toMgr[w]) IN
    /\ ManagerReceives(w, "released")
    /\ toMgr' = [toMgr EXCEPT ![w] = Tail(@)]
    /\ IF m.forced THEN UNCHANGED <<mtable, refcount, alive, vkey, grants, hot>>
       ELSE IF refcount[m.val] = 1 /\ m.val \notin hot THEN Reap(m.val)
       ELSE /\ refcount' = [refcount EXCEPT ![m.val] = @ - 1]
            /\ grants' = [grants EXCEPT ![m.val] = @ \ {m.grant}]
            /\ UNCHANGED <<mtable, alive, vkey, hot>>
    /\ UNCHANGED <<mgr, granted, worker, toWkr, starts>>

\* Mutants: a value is freed without regard to those who hold it; it is freed
\* while one worker holds it.
ReaperFreesHeld(v) ==
  /\ mgr = "runs" /\ v \in alive \ hot
  /\ Reap(v)
  /\ UNCHANGED <<mgr, granted, worker, toMgr, toWkr, starts>>
ReaperFreesLast(v) ==
  /\ mgr = "runs" /\ v \in alive \ hot
  /\ refcount[v] <= 1
  /\ Reap(v)
  /\ UNCHANGED <<mgr, granted, worker, toMgr, toWkr, starts>>

(* The reaper's scan comes to v (limiter_value_ready_to_reap): a value that*)
(* is spent is freed when nobody holds it, else every worker is asked.     *)
ReaperFrees(v) ==
  /\ mgr = "runs" /\ v \in alive \ hot
  /\ refcount[v] = 0
  /\ Reap(v)
  /\ UNCHANGED <<mgr, granted, worker, toMgr, toWkr, starts>>

ReaperAsks(v) ==
  /\ mgr = "runs" /\ v \in alive \ hot
  /\ refcount[v] # 0
  /\ \A w \in Workers : Len(toWkr[w]) < MaxQueue
  /\ toWkr' = [w \in Workers |-> Append(toWkr[w], ReleaseMsg(v, FALSE))]
  /\ UNCHANGED <<manager, hot, worker, toMgr, starts>>

(* The manager quits: what it was sent is not read any more, and shutdown  *)
(* deletes every limiter.  limiter_delete stops the reaper, which scans    *)
(* with force: every worker is asked for what is held, and it is freed all *)
(* the same, at once.                                                      *)
ManagerQuits ==
  /\ mgr = "runs"
  /\ mgr' = "quits"
  /\ toMgr' = [w \in Workers |-> <<>>]
  /\ UNCHANGED <<mtable, refcount, alive, vkey, grants, granted, hot, worker,
                 toWkr, starts>>

ReaperForces(v) ==
  /\ mgr = "quits" /\ v \in alive
  /\ toWkr' = [w \in Workers |-> IF refcount[v] = 0 THEN toWkr[w]
                                 ELSE Append(toWkr[w], ReleaseMsg(v, TRUE))]
  /\ Reap(v)
  /\ UNCHANGED <<mgr, granted, worker, toMgr, starts>>

(* ipc_destroy: of what it has sent, the end that did not fit the pipe of  *)
(* a worker is lost.                                                       *)
ManagerExits ==
  /\ mgr = "quits" /\ alive = {}
  /\ mgr' = "gone"
  /\ \E n \in [Workers -> UNION {0..Len(toWkr[w]) : w \in Workers}] :
       /\ \A w \in Workers : n[w] <= Len(toWkr[w])
       /\ toWkr' = [w \in Workers |-> SubSeq(toWkr[w], 1, n[w])]
  /\ UNCHANGED <<mtable, refcount, alive, vkey, grants, granted, hot, worker,
                 toMgr, starts>>

\* Time passes and nothing is left of the count (limiter_current_value).
Drain(v) ==
  /\ v \in hot
  /\ hot' = hot \ {v}
  /\ UNCHANGED <<manager, worker, toMgr, toWkr, starts>>

-----------------------------------------------------------------------------
WorkerHandles(w) ==
  \/ ResponseFails(w) \/ ResponseResumes(w) \/ ResponseUntracked(w)
  \/ ReleaseHeld(w) \/ ReleaseNotHeld(w) \/ ReleaseFails(w)
ManagerHandles(w) ==
  \/ RequestFound(w) \/ RequestCreates(w) \/ RequestFails(w) \/ Released(w)

Next ==
  \/ \E w \in Workers, r \in Requests :
       \/ \E k \in Keys : EvalHit(w, r, k) \/ EvalMiss(w, r, k)
       \/ Close(w, r)
  \/ \E w \in Workers : WorkerHandles(w) \/ Respawn(w) \/ ManagerHandles(w)
  \/ \E v \in Values :
       ReaperFrees(v) \/ ReaperAsks(v) \/ ReaperForces(v) \/ Drain(v)
  \/ ManagerQuits \/ ManagerExits

Spec == Init /\ [][Next]_vars

\* What the reaper does with v when a scan comes to it.
Scan(v) == ReaperFrees(v) \/ ReaperAsks(v) \/ ReaperForces(v)

(* Every process serves its pipe as long as it runs, a worker that died is *)
(* replaced, and the reaper's scan comes back to every value: strongly     *)
(* fair, because it passes again and again, whenever the bound MaxQueue    *)
(* lets it ask.  A manager that quits frees everything.                    *)
FairSpec ==
  /\ Spec
  /\ \A w \in Workers : WF_vars(WorkerHandles(w) \/ Respawn(w)) /\ WF_vars(ManagerHandles(w))
  /\ \A v \in Values : SF_vars(Scan(v))

-----------------------------------------------------------------------------
(* Safety.                                                                 *)

\* Every pointer to a value, with the key it is for and the grant it came with: in
\* a worker's table, in an answer that was not handled yet, in a returned value that
\* was not counted yet.
Held(w) == {k \in Keys : wtable[w][k].val # NULL}
With(pipe, w, type) ==
  {i \in DOMAIN pipe[w] : pipe[w][i].type = type /\ pipe[w][i].val # NULL}
Pointer(place, w, i, key, e) ==
  [in |-> place, w |-> w, i |-> i, key |-> key, val |-> e.val, grant |-> e.grant]
HeldPointers ==
  UNION {{Pointer("table", w, k, k, wtable[w][k]) : k \in Held(w)} : w \in Workers}
SentPointers(pipe, place, type) ==
  UNION {{Pointer(place, w, i, pipe[w][i].key, pipe[w][i]) :
            i \in With(pipe, w, type)} : w \in Workers}
Pointers ==
  HeldPointers \cup SentPointers(toWkr, "answer", "response")
               \cup SentPointers(toMgr, "returned", "released")

\* As long as the manager runs, no process follows a pointer to a freed
\* value, or to one that was freed and is another key's now: whatever a worker
\* has for a key, or will have when it handles its pipe, is the manager's value
\* for this key, and so is a value whose count the manager will write when it
\* handles its pipe.  A manager that quits frees what is held (limiter.c:193),
\* and a worker that still serves a request may use it then; but no key gets
\* another value that a worker could take for the one it holds.
PointersAlive ==
  \A c \in Pointers :
    c.val = mtable[c.key] \/ (mgr # "runs" /\ mtable[c.key] = NULL)

\* The manager knows every allocated value by its key, and no other: nothing
\* is leaked, nothing is in the table after limiter_reap_value freed it.
ManagerTable ==
  /\ TypeOK
  /\ \A k \in Keys : mtable[k] # NULL => /\ mtable[k] \in alive
                                         /\ vkey[mtable[k]] = k
  /\ \A v \in alive : mtable[vkey[v]] = v

\* refcount is the number of grants that did not come back, and every pointer is
\* one of these grants, none of them twice: so it counts at least the pointers
\* that are anywhere, and a worker that dies or is given the same value twice
\* may only make it too large.
GrantsAccounted ==
  /\ \A v \in alive : refcount[v] = Cardinality(grants[v])
  /\ \A c \in Pointers : c.val \in alive => c.grant \in grants[c.val]
  /\ \A c, d \in Pointers : c.val = d.val /\ c.grant = d.grant => c = d

\* A worker that is asked for a value has this value or none: the assertion
\* data == limit_data_ptr of unsetLimiterValue holds, also when the request
\* was sent more than once, or to the worker that died in this slot.
ReleaseMatches ==
  \A w \in up :
    WorkerReceives(w, "release") =>
      wtable[w][Head(toWkr[w]).key].val \in {NULL, Head(toWkr[w]).val}

\* A request is limited by the count of another key only where an earlier
\* request at its address was closed, or died, while it waited: the answer to
\* that one resumes this one (limiter.c:262 asks for the address alone).
RightKey ==
  \A w \in Workers, r \in Requests :
    req[w][r].used # NULL => req[w][r].used = req[w][r].key \/ r \in left[w]

\* What a worker dies of in a callback of the limiter: it is asked for a value
\* and has none of this limiter, for rawget(limiters, limiter_ptr) is nil then
\* (limiter.lua:50); the manager had no memory (the assertion of
\* limiter.c:255); or the answer is for a request that was answered, and this
\* only where an earlier one at its address was closed or died while it waited.
DeathsExplained ==
  [][\A w \in up \ up' :
       LET m == Head(toWkr[w]) IN
         \/ m.type = "release" /\ HoldsNothing(w)
         \/ m.type = "response" /\ (m.val = NULL \/ m.req \in left[w])]_vars

-----------------------------------------------------------------------------
(* Liveness.                                                               *)

\* A suspended request is resumed or closed, or dies with its worker, unless
\* the manager quits: then it may wait until its client has enough.
RequestResumed ==
  \A w \in Workers, r \in Requests :
    req[w][r].st = "waiting" ~> req[w][r].st # "waiting" \/ mgr # "runs"

\* The pointers to v that are anywhere.
Claims(v) == Cardinality({c \in Pointers : c.val = v})

\* A value of which nothing is left is freed, unless it is used again: every
\* worker gives it back and the manager counts down to 0.  The exception is a
\* value that was granted twice to one worker, for two requests that waited
\* for it together: the worker gives it back once, and it is never freed.
SpentIsFreed ==
  \A v \in Values :
    v \in alive \ hot ~> v \notin alive \ hot \/ Claims(v) < refcount[v]

=============================================================================
