# A TLA+ model of Wafflex

Wafflex is an nginx module that filters and limits requests by rules.  Several
worker processes evaluate the rules of each request; one more process, nginx's
cache manager (*the manager* below), loads the rulesets, owns the shared memory
they live in and answers the workers.  Workers and manager are single threaded
event loops that share memory and send each other *alerts* through pipes; no
lock protects anything.  What is hard about Wafflex follows from that: a request
may be suspended in the middle of an evaluation and resumed later, the elements
it evaluates may be updated meanwhile, counters are shared by processes that die
and are restarted, every reservation is made of single atomic accesses, and
rulesets are stored by scripts that are not undone when they fail.

This directory holds TLA+ modules of the C and Lua code that does this, TLC
configurations that check them on small instances, and proofs for the TLA+ proof
system (TLAPS).  Paths such as `ruleset/rule.c` are relative to `src/src`.

## The system and its components

| component | state | operations | interacts by | correct if |
|---|---|---|---|---|
| reaper (`util/reaper.c`) | intrusive doubly linked list, `count`, kept place, timer | add, withdraw, timer scan (3 strategies), flush, stop | callbacks `ready` and `reap` of its owner | no pointer dangles, every scan ends, what is ripe is reaped |
| limiter values (`ruleset/limiter.c`, `lua/nginx/limiter.lua`) | the manager's table and reference counts; each worker's table of pointers; counters in shared memory | evaluate a limit, request, grant, ask back, give back, reap | alerts, reaper, request tracking | no pointer to a freed value, the right counter for each key |
| update reservation (`ruleset/readwrite.c`, `lua/nginx/readwrite.lua`) | `reading` and `writing` of every ruleset, phase, list and rule | reserve and release for reading or writing, delay, resume | shared memory, alerts | a writer is alone |
| request evaluation (`ngx_wafflex.c`, `ruleset/{ruleset,phase,list,rule}.c`) | the context of a request: where each nested function was | evaluate, defer, resume, fetch a ruleset, update | all of the above, timers | a suspension does not show |
| conditions (`ruleset/condition.c`) | the condition stack of a request | `any`, `all`, `match`, `delay`, `limit`, ... | timers, limiter | as above, whatever the nesting |
| actions (`ruleset/action.c`, `tag.c`) | whether a wait is over; tags in Lua | `accept`, `reject`, `tag`, `wait` | timers | each is done once |
| request tracking (`util/wfx_util.c`) | a table of the requests that wait, in each process | track, is it active, clean up | nginx's cleanup of requests | an answer finds its request, or nobody |
| interprocess alerts (`util/ipc.c`) | a pipe per process, write queues, read buffers, a table of processes | send, receive, open, close | event loop | a queue from each process to each other |
| Lua objects and parser (`lua/modules/*.lua`) | tables of one ruleset, generated names | parse, create, destroy | bindings to C or to Redis commands | what is created is complete, nothing is left |
| stored rulesets (`lua/redis/`) | hashes, sets and counted references in Redis | create and update of rulesets, lists, rules, limiters; read | one script per command | what was stored can be read, references are counted |
| Redis client (`util/wfx_redis.c`, `lua/modules/redis.lua`, `lua/nginx/redis.lua`) | two contexts, callbacks, pending commands, coroutines | connect, subscribe, load, follow updates | hiredis, event loop | the right answer to the right coroutine, no freed context |
| setup (`ngx_wafflex_setup.c`, `ngx_wafflex.c`, `lua/nginx/init.lua`) | places of the configuration, what each process knows | load, start, exit | Lua objects, shared memory | no pointer to what was destroyed, everybody answered |
| tracer, slab allocator, vendored code | | | | not modelled |

`PROJECT.json` lists all of them with their status, and the hazards of this code
at the lines where they bite.

## Modules

| module | of | state | steps |
|---|---|---|---|
| `Reaper` | `util/reaper.c` | every pointer of the list, the timer, the local variables of the scan in progress | one call of an operation, or one iteration of a scan |
| `ReaperQueue` | what a reaper promises | a queue | add, withdraw, reap, rotate, close |
| `ReaperProofs` | | | theorems about `Reaper`, the refinement included |
| `Limiter` | `ruleset/limiter.c`, `lua/nginx/limiter.lua` | the tables of manager and workers, reference counts, requests, pipes | one callback of an event loop |
| `LimiterProofs` | | | theorems about `Limiter`: pointers, accounts, releases, right keys, what workers die of |
| `ReadWrite` | `ruleset/readwrite.c` and its callers | the two counters, where each reader and the manager are | one access to one counter |
| `ReadWriteProofs` | | | theorems about `ReadWrite` |
| `Evaluation` | `ngx_wafflex.c`, `ruleset/{ruleset,phase,list,rule}.c`, deferring conditions and actions | the request's context, the configuration with its generations, the event waited for | one iteration of one loop |
| `EvaluationProofs` | | | theorems about `Evaluation`, the refinement included |
| `RuleOrder` | what an evaluation promises | what is due, what was done | do what is due next, give the verdict |
| `Conditions` | `ruleset/condition.c` | one condition, its stack, the event waited for | one evaluation of the whole tree |
| `Ipc` | `util/ipc.c` | pipes, write queues, read buffers, table of processes | one packet |
| `AlertQueue` | what alerts promise | a queue between any two slots | send, hand over, die, discard |
| `IpcProofs` | | | theorems about `Ipc`: types, handlers, each alert once, the refinement |
| `RulesetNew` | `lua/modules/{parser,ruleset,rulecomponent}.lua` | none: operators | |
| `Startup` | `ngx_wafflex_setup.c`, `ngx_wafflex.c`, `lua/nginx/init.lua`, the create and delete functions of `ruleset/*.c` | blocks of shared memory, what each process knows, requests, alerts | the load of one ruleset, one deletion, one alert |
| `StartupProofs` | | | lemmas about `RulesetNew`, theorems about `Startup`: pointers, complete rulesets, destruction |
| `RedisStore` | `lua/redis/` | the keys of Redis | one command, which is one script |
| `RedisStoreProofs` | | | theorems about `RedisStore`: references, refused commands |
| `RedisClient` | `lua/modules/redis.lua`, `lua/nginx/redis.lua`, `util/wfx_redis.c`, part of `hiredis/async.c` | the client, the server's answers, stored rules | one event of the manager's loop |
| `RedisClientProofs` | | | theorems about `RedisClient`: answers, freed contexts, agreement |
| `MC*` | | what a run adds: sets of configurations, symmetry, mappings of `Evaluation` | |

`RulesetNew` is used twice, as its Lua code is: `Startup` gives the calls it
makes to shared memory, `RedisStore` to Redis.  `Limiter`, `Startup` and
`Evaluation` rely on alerts that arrive in order and once between two
processes; `Ipc` shows how far that holds.  `Evaluation` relies on the
reservation of `ReadWrite`, on the answers of `Limiter` and `Startup`, and on
one leaf per condition being enough, which `Conditions` shows.

The Lua sources are compiled into `ngx_wafflex_nginx_lua_scripts.c` and, one
copy per script, into `ngx_wafflex_redis_lua_scripts.c`.  `map` in
`PROJECT.json` names the lines each definition stands for, in the copy that
runs, with the file and line of the Lua source in its symbol.  A definition whose
comment begins with *Mutant* is not part of the system: it is the definition that
follows with a plausible bug, and replacing the one by the other makes the
property that `mutants` lists for it fail.

### Reaper and ReaperQueue

The reaper lives in one process, so no two of its operations interleave; its
difficulty is the list that changes under the scan.  A scan is therefore one step
per iteration, carrying `cur`, `firstmoved`, `n` and `notready` as the code
does.  The strategy is chosen initially.  The owner's `ready` is the set `ripe`,
which changes only between scans, and `force` overrides it
(`limiter_value_ready_to_reap`).  `ImplementsQueue` maps the list to the
sequence its links spell (`Order`) and compares every step with `ReaperQueue`.

### Limiter

One limiter, its values and the alerts about them.  `mtable` and `wtable` are
the Lua tables `limiters` of the manager and of each worker.  The pipe from a
process to another is a sequence; it outlives a worker that dies, and the worker
that is started in the same slot reads what was left.  An alert that finds a
failing assertion, a NULL pointer or a Lua error kills the worker
(`ResponseFails`, `ReleaseFails`), since a Lua error raises SIGABRT
(`util/wfx_lua.c:46`).  The count of a value is abstracted to whether
`limiter_value_ready_to_reap` would let it go (`hot`).  Every grant of a pointer
carries a number that is history: it tells two grants of the same value apart.
The reaper appears as `ReaperFrees` and `ReaperAsks`, what its scan does to a value
that is spent; that it comes to every such value is `RipeIsReaped` of `Reaper`.

The manager may quit (`ManagerQuits`): the watchdog in the writer of its log
(`ngx_wafflex_setup.c:36`) calls `ngx_wafflex_exit_worker`, which destroys the rulesets and
with them the limiters.  `limiter_delete` stops the reaper, whose last scan is
forced, so that `limiter_value_ready_to_reap` asks every worker for what is held and lets it
be freed at once (`ReaperForces`, `limiter.c:178-194`).  From then on the manager reads
nothing more, and when it closes its pipes it drops what they had no room for
(`ManagerExits`).  The workers go on with the requests they have.  `Released` has the branch
for an answer to a forced request (`limiter.c:297`), which this order of events never
reaches.

### ReadWrite

`ruleset_common_reserve_read` and its three counterparts, one access to `reading`
or `writing` per step, for an element that is chosen initially: a ruleset
releases also what it could not reserve (`ruleset.c:40`), a list or phase update
may return without releasing (`list.c:143`, `phase.c:127`).  `drift` counts the
releases that had no reservation, `missed` remembers the readers that were where
`reading` cannot show them when the manager set `writing`.

### Evaluation and RuleOrder

The five nested functions as one program counter, `at`, with their loop variables,
`pos`.  A deferring function saves its place on its way out: `ListDeferred`
contains `PhaseDeferred`, which contains `RulesetDeferred` and the handler's.
Rules are records: the kind of their condition (at once, `delay`, `limit`), what it
will conclude, and two arrays of actions.  `ran` is the history of what was done.
`Due` is what a request that is never suspended would do, and the refinement of
`RuleOrder` says that a request that is suspended does the same.

The manager's `Update` leaves alone what the worker has reserved.  This assumes
that the reservation works: `CountedExcluded` and `OnlyMissed` of `ReadWrite`
say how far it does.  An update sets or clears `disabled`, takes the last action
of a rule's `then` (and all of its `else`, which `rule_update` loses when it is
not told of it), the last rule of a list or the last list of a phase.  At this
commit no update reaches the C functions through the Lua layer
(`lua/nginx/redis.lua:130` calls `updateRule` with one argument, and
`lua/modules/binding.lua:39` passes a table where C expects the userdata), so the
writers of `ReadWrite` and `Update` model the C interface.  No action returns
`WFX_SKIP`, so it is not modelled.

### Conditions

A condition is a tree, and evaluating it a recursive function from the stack that
a suspended evaluation left to an answer, a new stack and the event to wait
for.  The stack is a sequence of untyped words, as in the code: a leaf pushes
its own word, every enclosing `any` or `all` its place, and nothing tells them
apart but the order in which they are popped.  `Meaning` is the answer and the
order of leaves of an evaluation that is never suspended.

### Ipc and AlertQueue

Every process slot has a pipe.  A packet that does not fit waits in the writer, an
alert larger than a packet is put together in the reader, and what a process
remembers dies with it while the pipe stays.  The table of processes is
read by `SlotsOf` as `ipc_get_process_slots` reads it, beyond its end included.
`AlertQueue` is what remains for the handlers: a queue from each slot to each
other, from which a death takes the latest of what its process had sent, and
which the successor of a process that died may empty (`heirs`).  After it has
thrown a pipe away such a successor may also put the first part of one alert
and the second of another together and call a handler with the result, `Mixed`:
its buffers tell parts apart by sender and number of parts only.  That takes three alerts of two
packets and one death, more than the run's instance has; it came out of the
attempt to prove the refinement without it.  Every alert that this program sends
fits into one packet, so none of it is reached today.

### RulesetNew, Startup and RedisStore

A document is four functions from names to limiters, rules, lists and phases.
`Accepts` is the parser; `New` is `Ruleset.new`, the sequence of binding calls that
it makes, in any order in which Lua's `pairs` may go through the tables, up to
the first error.

In `Startup` a call allocates the blocks that the C function allocates, each of
which may fail.  Helpers die at any moment and are started anew with what
the master noted; requests ask for their ruleset, are closed, and have their
addresses used again; at the end the manager deletes what it created.

In `RedisStore` a call writes keys, and a script that raises an error leaves what it
wrote.  `written` remembers what the writers were told, `Read` is what
`ruleset_read` returns.

### RedisClient

The client is one record, `c`, and the code of one event is an operator from
record to record, so that a step is one event with everything the code does in
it: callbacks that close the context they run in, coroutines that go on to their
next command, the timer of another attempt.  The two coroutines are
`Connector` and `Loader`; what hiredis does with callbacks is `Issue`, `Receive`,
`NullReplies` and `Settled`.

## Runs

| run | asks | instance | states |
|---|---|---|---|
| `reaper` | is the list sound under every strategy; do scans end, is what is ripe reaped, what does a stop leave | 3 things, share 1/2 | 118 434 |
| `limiter` | does any process have a pointer to a freed value, what do workers die of, who meets the count of another key, is every request resumed and every spent value freed | 2 workers that die and are replaced, 1 address for requests in each, 2 keys, memory for 2 values, a manager that may run out of memory and may quit | 243 619 |
| `readwrite` | what does the reservation exclude, and whom does it miss | 3 readers, 4 kinds of element | 499 938 (up to symmetry) |
| `eval_order` | is a suspended evaluation like one that is not | one ruleset of up to 3 rules in 2 lists, any element disabled, ruleset known or not | 38 271 |
| `eval_array` | does an array run to its end | two rules with the arrays of the repository's README | violated |
| `eval_update` | the same for several rulesets, waits anywhere and one update at any moment | 1 or 2 rulesets | 959 966 |
| `conditions` | does a suspension show in a condition, whatever the nesting | trees of up to 3 leaves, lists 4 deep | 57 651 |
| `conditions_match` | is `match` equality | pairs of strings | violated |
| `ipc` | what do alerts promise when pipes are full and processes start and die | 2 workers, manager and loader, pipes of 1 packet, alerts of 1 or 2 packets | 65 281 |
| `startup` | do pointers lead to what is there, is every request answered | 2 workers, 14 configurations, 2 managers, 1 restart of a worker | 211 886 |
| `redis_store` | can what was stored be read, are references counted, is a refused command undone | 1 ruleset, 13 documents, 8 rules, 5 commands | 59 463 |
| `redis_client` | who gets which answer, which contexts are used, what does the manager know | 2 scripts, 2 rulesets, 2 lost connections, 2 refusals, 2 writes | 46 084 |

Bounds.  Three things are the fewest with a first, a middle and a last; a share of
one half makes a scan give up at once (one thing) or after one (two or three),
so the early end, the kept place and the rotation all occur.  In the
limiter, two workers are one that holds a value and one that does not; with two keys and two
values, of which any may be taken for either key, and allocations that may fail, an
address is used again for another key, which is what a stale pointer would need; one
address of requests in each worker is used again by the next request at once; `MaxStarts`
(suspensions) of 2 lets a value be granted, given back, freed and granted again, or one
request take the answer of another; `MaxQueue` keeps the reaper from filling a pipe that
nobody reads.  In `ReadWrite`, `Disallowed` is 10 instead of 200 000: all
that matters is that it exceeds the readers, which is the assumption of the
proofs; `MaxDrift` stops the history counter after one drift, the
proofs have no such bound.  In `Evaluation`, `MaxUpdates` is the number of updates,
`MaxRan` the length of the history after which a request is not resumed: without
updates nothing reaches it.  Two lists with two rules and one are enough
for every transition from one rule, list or ruleset to the next with and without a
saved place.  The trees of `Conditions` have every pair of kinds of leaf before
and after each other at every depth up to four, where a place pushed or popped
once too often must show.

In `Ipc` two alerts are enough for one to overtake the other, and a pipe of one
packet makes every second packet wait; with a crash in the middle of a large
alert only one alert is sent in order to bound the run, which is too few for
parts to be mixed: that this happens only to heirs is in the proof.  In
`Startup` the array of places has room for 1 instead of 4, so that it may move when
a second place is added; `opened` and `deaths` of a configuration bound the
requests and the deaths of helpers, smaller for the larger documents.
In `RedisStore` five commands let a create fail half way, an update meet what
it left, and a second create follow; the documents are one for every way to
succeed or to stop.  In `RedisClient` two losses let both connections be lost, or one
of them again during the next attempt.

`CHECK_DEADLOCK FALSE` is said where the system stops: a reaper that was stopped,
a limiter whose suspensions are used up, a manager that aborted or quit, a
request that was decided, commands and writes that are used up.

Fairness.  nginx's event loop serves a timer that is set and a pipe or socket that
can be read, so these steps are weakly fair: `TimerHandler`, the iterations of a scan
that has begun, the handlers of alerts, the evaluation, `Handle` when the
event that a request waits for is a timer or an answer, `Reading` and `Writing` of
every process, the steps of a helper that starts or leaves, and the client's
`Retry`, `AskAgain` and `Receive`.  nginx's master starts a process for one
that died (`Start` of `Ipc`, `StartHelper`), and a Redis server that has a
command executes it (`Execute`).  Nothing obliges owners, clients,
updates or other writers to do anything; in `Startup` nothing obliges Redis,
either.  `Scan` of the limiter is strongly fair for each value: the reaper's scan
comes back again and again, and the bound `MaxQueue` disables the question to the
workers in between.

## What the runs show

* `ListOK`, `CursorListed`, `AskedOnce`: the pointer a scan reads before it calls
  `ready` and `reap` never dangles, nor does the kept place, and no scan asks
  about a thing twice, which for a limiter would be a broadcast too many.
  `TimerArmed`: whatever is left in the list, a timer is set for it, and a stop
  leaves neither.
* `RipeIsReaped` holds for `REAPER_ROTATE`, which the limiter uses, and
  `REAPER_KEEP_PLACE`, which the code offers and nobody selects at this commit.  It is not stated for the plain rescan, which looks
  at the same first things every time and can starve the rest.
* `PointersAlive`: as long as the manager runs, although grants and returns cross each
  other, addresses are used again and workers die with what they hold, every pointer
  that a process has, or will find in its pipe, is that of the value the manager has for
  the key.  A manager that quits frees what workers hold, and they may use it then; it
  gives no other value to its key any more, and nothing but that is claimed.
  `GrantsAccounted` is why: the reference count is the number of grants that did
  not come back.
* `DeathsExplained`: a worker that dies in a callback of the limiter was asked for a value
  when it had none, got an answer without a value because memory was exhausted, or an answer
  at an address which an earlier request had abandoned.  It never dies because it is asked
  for another value than it has.  `RightKey`: only at such an address is a request
  limited by the count of another key.  The code does all of these, see *Findings*.
* `SpentIsFreed` has an exception the code really has: two requests of one worker
  that ask for the same key before the first answer get two grants, but the worker
  gives back one; such a value is never freed.  A worker that dies has the
  same effect.
* `CountedExcluded`, `OnlyMissed`: a write reservation that found no reader excludes
  counted readers, and the readers it does not exclude are those between their
  two checks, or inside uncounted, when it began.  Both need that `reading` has
  not drifted; every refused ruleset evaluation makes it drift.
* `ImplementsOrder`: with one ruleset, waits only in the first action of
  arrays and final actions only in the last, a request does all that is due, in its order,
  and suspending it does not show.  `Due` says what the repository's README.md:193 says: an array
  goes on to its end behind a final action.  All three restrictions are needed, see
  *Findings*; `ArraysDone` is what fails without the last.  `InOrder` and `ContextIsOwn` are what is left without them, for a
  request that met no update.
* `OnePhaseResumes`: an update cannot make the assertion of `phase.c:33` fail as
  long as there is one ruleset.
* `LikeUnsuspended`, `StackSpellsPath`: the one stack of untyped words works. A
  condition answers the same, and begins the same leaves in the same order, however
  often and however deep it was suspended, because below every waiting leaf the
  stack is exactly the way from the root to it.
* `ImplementsQueue` (of `Ipc`), `Arrives`: between two processes that live, alerts
  are whole, in order and never lost, whatever waits for room in a pipe.  What a
  death does beyond losing its process's own alerts is in `AlertQueue`.
  `OnceOrToSlotZero` and `ToItsHandler` say what the table of processes gets
  wrong and when: a broadcast repeats itself only in slot 0, an alert meets a
  process without a handler only while helpers have not said what they are.
* `Pointers`, `FetchAnswered`: what a worker was told is a complete ruleset however
  often helpers died half way, until nginx quits; an exit of the manager leaves
  nothing of what it completed; a request that waits is answered, except where
  the manager has no such ruleset and says nothing.
* `ReadsBack`, `RefsCover`, `RefusedIsUndone`: although scripts are not undone, nginx
  can read what it finds at any moment, the references never count less than there
  is, and a refused command about a rule changes nothing but counters of names.
  `ReadsBack` has three exceptions the code has, named below.
* `OwnAnswer`, `FreedIsUnheard`, `Agreement`, `Settles`: matching answers by order
  works with two exceptions, both of which leave a coroutine waiting for ever; a
  freed context is used only after a loss that nobody was told of; a loaded
  ruleset misses no update.

### Findings

`conditions_match` shows that two equal strings do not match: `condition.c:283`
compares the parts of the strings and says no where it finds them equal, while
the repository's README.md:404 says that `match` matches strings for equality.  The negated match
stops at the first string that is equal, or whose beginning is.

`eval_array` shows that a request that is rejected by `["#reject", {"#tag": "rejected"}]`, the example
of the repository's README.md:200, is never tagged: `rule.c:37` returns at the first final action,
while README.md:193 says that arrays are executed until their end, also in the presence of
final actions.

Met while modelling, modelled as it is.

Evaluation, limits and updates:

* The index of the action that deferred is used for the arrays of later rules
  (`rule.c:22`), so that actions are left out (the repository's README.md:193: they are executed in
  order); the place in the phase of one ruleset is used for that of the next
  (`phase.c:33`, whose assertion fails then).
* `lua/nginx/limiter.lua:50` indexes nil in a worker that never had a value of the
  limiter, and the worker aborts (`limiter.c:283`: "limiter value not found here.
  don't reply.").
* The answer of the manager finds its request by the address (`limiter.c:262`).  Where a request
  that waited was closed and another has its memory, this one is resumed with the value of the
  other's key; where it has been answered already, its stack has no tail and the worker
  crashes.
* A manager that quits, at a reload too, frees limiters and their values (`limiter.c:193`), rules,
  lists and phases while workers still evaluate requests with them.  `setLimiterValue` then
  reads the key of a freed value (`limiter.c:342`).
* A reader inside is logged and ignored by `reserve_write`, and the release asserts
  (`readwrite.c:129`).  `delay_update` passes its arguments shifted by one
  (`readwrite.c:120`), so that a delayed update is never resumed and a second
  one with the same function fails the assertion of `lua/nginx/readwrite.lua:27`; the
  alert of a refused reader carries the address of a pointer (`readwrite.c:90`), so
  that it is never resumed; the last reader is recognised by 0 where it gets 1
  (`readwrite.c:100`).
* The generation of a rule is saved when an action defers and not when its condition
  does (`rule.c:33`, `:61`), so that once a rule was updated, a condition that
  defers waits for ever.  A list that was updated is started over with
  `condition_done` and the stack of the rule in which the request waited.
* `DEBUG_SHM_ALLOC_VALGRIND` is 1 in `util/shmem.c:10`: `shm_alloc` adds 8 to what the
  allocator returned, NULL included, so that no caller sees that memory is
  exhausted and the manager writes to address 8.  Where callers test for NULL
  (`limiter.c:218`, `list.c:143`) the model has the branch of a build without
  it: the worker's `assert(d->val)` fails (`limiter.c:255`), the list is never released.
  In `Startup` a failed allocation ends the helper, as it does here.

Alerts and processes:

* `process_count` counts workers twice, and again when they are respawned
  (`ipc.c:170`): entries beyond the table are zero, a worker in slot 0, which gets
  broadcasts once more for each.
* A helper is a worker in the table until its title was read, gets the
  broadcasts of workers and calls a NULL handler; until the manager's title was
  read, `ipc_alert_cachemanager` finds no slot, takes 0 and keeps it for ever
  (`wfx_util.c:87`, the assertion is commented out), so that worker 0 crashes at
  a question it has no handler for, and questions are lost.
* The limit of `ipc_clear_socket_readbuf` is inverted (`ipc.c:627`): when a process
  died in the middle of an alert, its successor throws away the whole pipe, and
  may cut other alerts in two, which makes it do so again, or put parts of two
  alerts of one sender together.
* A worker that was respawned reads its predecessor's alerts.

Rulesets in nginx:

* No ruleset with phases can be loaded: `phase_create` takes the whole stack away and
  raises an error, and the helper aborts.  A ruleset without has a NULL phase, and a
  worker that was answered crashes at its first evaluation.  So does a
  request of a worker that knows the ruleset.
* `accept`, `reject` and `wait` have no destroy function, so that the manager aborts
  when it destroys a ruleset with one of them (`action.c:209`); `all` with a limiter in it
  always raises an error; a burst limiter that was created before stays NULL.
* The array of a location's rulesets has room for 4 and may move when it grows;
  places noted before lead to where it was, and these rulesets are never found.
* The manager has no answer to a question about a ruleset it does not have
  (`ngx_wafflex.c:75`), and the alert `offer` is never sent, so the request waits
  until its client gives up.
* nginx calls no `exit_worker` in a cache manager; the code has the writer of a log do
  it (`ngx_wafflex_setup.c:36`).  A manager told to quit before it got there leaves
  its blocks.

Rulesets in Redis:

* A rule with `accept`, `reject`, `wait` or `.delay` is stored with two attributes
  where the parser wants one, so that the ruleset can be neither loaded nor
  updated (`Readable`); one with a `key` cannot be stored at all.
* A burst limiter that was visited before, or is shared, stays a name: `HSET` raises
  and leaves half a limiter (`HalfThere`), which a rule update takes for one; without
  that exception `ReadsBack` fails after three commands.
* A list in long form may have no name (README.md:72-83), but it is called
  `tostring(nil)` then (`parser.lua:437`).  The second of a phase is taken for the first
  (`ruleset.lua:386`): what it says is lost, in nginx and in Redis.  This is the exception
  `NamesMeet` of `ReadsBack`, which fails without it.  A phase that is one list in long form is
  accepted by the parser, which puts the list where a list of lists should be
  (`parser.lua:409`), and raises an error when it is created (`ruleset.lua:371`).
* A create that failed half way blocks its name for ever, or later gets a generated
  one; what it left appears in a ruleset that is created in its place.
* Updates of lists, limiters and rulesets always end in an error, list and limiter create
  only publish what they were given, and limiter create asks for a *rule* called by
  the length of the limiter's name (`ruleset_write.main.lua:628`).
* A millisecond counts as a hundredth of a second (`parser.lua:617`).  References are
  not taken back when a rule drops all its limiters.

The client of Redis:

* hiredis has no callback for UNSUBSCRIBE, so the loader never comes back from one
  (`redis.lua:241`).  The answer to HSET is not looked at, so that a connection lost there
  shows only as a command that is refused, and the connector waits for ever.
* No `onDisconnect` is set: a connection lost while nobody waits leaves the pointer of
  a freed context.  A lost connection with subscriptions aborts the manager, since
  their handler takes NULL for an error.  So do an update that arrives before its
  ruleset is loaded or was read with it, every update that is not a create, and a name
  that does not resolve.
* The read event of the adapter looks at its context after the callbacks may have freed
  it (`ngx_wafflex_hiredis_adapter.c:115`, the end `peeked`); the timer of another
  attempt runs on the Lua state of a coroutine that has ended.

## Proofs

`ReadWriteProofs` proves, for any set of readers smaller than `Disallowed`, every
kind of element and any drift:

| theorem | statement |
|---|---|
| `TypeCorrect` | `Spec => []TypeOK` |
| `Accounting` | `Spec => []ReadingAccounts` |
| `Exclusion` | `Spec => []CountedExcluded` |
| `MissedOnly` | `Spec => []OnlyMissed` |
| `Passing` | `Spec => []ReservedPasses` |

None of them but the first two is inductive.  That the counted readers are
excluded follows from the value of `reading` when the manager compares it with 0,
so `IInv` adds the accounts of that value (`ReadingAccounts`), which readers are
counted and where they can be (`Ties`), and that reading is never disallowed
twice (`BlocksOnce`).  `BlocksOnce` is where the assumption
`Cardinality(Readers) < Disallowed` is needed: with as many readers as that,
`reading` could come back to 0 while it is disallowed; the code says as much,
"must be a large negative number for the lock-less magic we perform"
(`readwrite.c:8`).  `MissedCover` says the same of the uncounted readers: from the
moment `writing` is set nobody joins them.  Each part has a lemma that says it is
preserved, with a step per action; `Sizes` bounds the two sets of readers in the
accounts by the readers there are.

`EvaluationProofs` proves, for every set of configurations, any number of updates
and requests of any length:

| theorem | statement |
|---|---|
| `EvaluationTypes` | `Spec => [](TypeOK /\ Within)` |
| `PhaseResumes` | `Spec => []OnePhaseResumes` |
| `DoneInOrder` | `Spec => []InOrder` |
| `OwnContext` | `Spec => []ContextIsOwn` |
| `OrderKept` | `Spec /\ []Untouched => ImplementsOrder`, if every configuration is `Arranged` |

`Within` says that a worker in a list or at an action finds it there; it is
inductive with the types because no update touches what the worker has reserved
(`e \notin Reserved`), which is the assumption that `Evaluation` takes from
`CountedExcluded` of `ReadWrite`.

That the phase of an only ruleset is never resumed beyond its end needs
`SavedList`: the list saved in the context exists as long as the generation saved
for the phase is the current one.  An update that takes lists away raises the
generation, generations never fall, and a request that saves its place is in a
list that it has reserved at that moment.  The invariant has to except requests
that nobody will resume (`Halted`): one that was refused saves the generation 0
without any place.  It is not true of several rulesets, where the place of one
ruleset meets the generation of the next (`phase.c:33`); the mutant of
`OnePhaseResumes` drops the comparison on which the proof rests.

`DoneInOrder` is about `ran`, the history of what was done.  Its invariant
`Sequential` says that everything done is before the `Frontier`, the place (ruleset,
list, rule, action) from which the request goes on or will go on when it is woken,
in the order of the configuration.  A step that does something does it at
the frontier and moves it beyond; all the others leave it or move it forward
(`GoesOn`, `Does`).  For a request that waits the frontier is read off the context,
so that `Resumable` has to say that what was saved is what will be found: all
generations are those saved, the rule saved is the one with the action, and the
context of the rule is not cleared.  Both hold only while nothing was updated
(`Untouched`), as the property says.

`OwnContext` follows what a request carries from one evaluation of its rule to the
next: a wait on the condition stack, or that the condition is done.  `Carried` says
that on the way back (`OnTheWay`) no element that leads there is disabled, the loop
variables go by the saved ones, the one wait on the stack is that of the saved rule,
whose condition is of a kind that pops it, and the branch is its own; and that
everywhere else the request carries nothing, when a fetched ruleset makes it start
over in particular.  With updates it is not true (see *What the runs show*).

`OrderKept` is the refinement of `RuleOrder`: `DoneInOrder` says that what is done is
done in order, and this that nothing is left out.  Its hypotheses are those of the run
`eval_order`, for configurations of any size: one ruleset, whose arrays wait only in
their first action and end a request only in their last (`Arranged`, `FirstAndLast`), and
nothing that is updated.  The code is wrong without any part of `Arranged` (see
*Findings*), and as nothing is updated the configuration stays what `Due` is taken from.  The new invariant is `Covers`: everything that could have
happened before the frontier has happened, and none of it was a verdict.  Then what
happens at the frontier is the first of what is due (`Happens`), a verdict leaves
nothing, because nothing is behind the final action in its array (`NothingBehind`), and
the end of the phase is reached when nothing is left.  Each step that only moves
the frontier has to pass over nothing that could happen (`Passed`): a disabled list or
rule, the end of an array or a list.  That is where the saved place could do harm, since the
first rule of the next list would be skipped if the context still named another
one.  `Placed` says why it does not: what is carried into a list or a rule is
carried to an enabled one (`Carried`), and where nothing is carried the rule is the
first one and the action, too.  The hypothesis is `[]Untouched` and not `MaxUpdates = 0`
because the sum `Updates` is a fold, about which the prover knows nothing.

`LimiterProofs` proves, for any finite number of workers, any requests, keys and
values, and however often workers die:

| theorem | statement |
|---|---|
| `LimiterPointers` | `Spec => []PointersAlive` |
| `LimiterTable` | `Spec => []ManagerTable` |
| `LimiterGrants` | `Spec => []GrantsAccounted` |
| `LimiterRelease` | `Spec => []ReleaseMatches` |

All four follow from one invariant, `IInv`.  `Table`: the manager's table and the
allocated values name each other.  `Counted`: `refcount` is the number of grants that
did not come back, and a free value has none.  `Owned` and `Once`: every pointer, in a
table or on its way, is one of these grants, made for its key, and no two pointers are the same
grant.  Hence a value that is counted down to 0 has no pointer left, and one that
has a pointer is allocated and in the table under its key, which is
`PointersAlive`.  `ReleaseMatches` needs `Asked` beyond that: when the reaper asks, everything
a worker has or is being sent for the key is this value (by `PointersAlive`), and
what it is sent later is behind the demand, since a pipe keeps the order.
`GivenBack` says that only values are given back.

Nearly every step moves pointers: one that was first in a pipe is in a table
afterwards, those behind it have moved up.  `Comes(S, h)` says that `h` maps the
pointers `S` after a step to pointers before it, with the same value, key and
grant, and no two to one.  `WorkerHandles` and `ManagerHandles` state it once for all
handlers of a side; `StillOwned` concludes that what comes from before is still
owned once.  What remains are the three steps that change the accounts: a grant
(its number is new, `GrantAccounts`), a return (by `Once` no other pointer has
its number, `ReleasedAccounts`) and a value that is freed.  The bounds
`MaxStarts` and `MaxQueue` are constants in the theorems: they hold for every one.

A manager that quits frees values whose pointers are still about.  `OwnedAs` therefore
says of a pointer that it is one of the grants of its value, made for its key, or that its
value was freed, and then the manager does not run any more and has no value for the key; as it
makes no new ones, this stays so.

Its second part is about requests and the deaths of workers:

| theorem | statement |
|---|---|
| `LimiterServes` | `Spec => []RightKey` |
| `LimiterDeaths` | `Spec => DeathsExplained` |

They have no assumption on addresses, on memory or on what a worker's table holds.  The
history `left` has the addresses that a request abandoned while it waited, and the invariant `Served`
is about the two pipes of a worker together, for every other address: no request has two questions,
two answers, or a question and an answer under way, and what is under way concerns a
request that waits for the same key.  So an answer that meets another request, or one that was
answered, is at an address in `left`.  The third death of `DeathsExplained`, by a release request
for another value than the worker has, is excluded by `Asked`.

`ReaperProofs` proves, for any set of things, every strategy, and any limits of a
scan:

| theorem | statement |
|---|---|
| `ListAlwaysOK` | `Spec => []ListOK` |
| `CursorNeverDangles` | `Spec => []CursorListed` |
| `ScansAskOnce` | `Spec => []AskedOnce` |
| `TimerStaysArmed` | `Spec => []TimerArmed` |
| `QueueImplemented` | `Spec => ImplementsQueue` |

The invariant says of one sequence `s` that it is the list (`Lists(s)`: `first`,
`last`, `count`, the links in both directions and the things that are in it
all agree with it) and that the scan is where it should be in it (`Scanned(s)`).  A
sequence that the links spell is unique, so `s` is `Order`, and the
lemmas about unlinking and appending say what becomes of it.  For a rotating scan
`Scanned` divides `s` into what is left to ask about and, from `firstmoved` on, what was
moved behind it; for a kept place, what was asked lies between where the scan began
and where it is, round the end of the list if it has come there.  The refinement has a step per
action: each removes one thing, appends one, moves the head to the tail or
leaves `Order` alone.

`IpcProofs` proves, for any number of workers, any room in the pipes, any number
of alerts and deaths, helpers that start late and
alerts of one or two packets:

| theorem | statement |
|---|---|
| `TypesAlways` | `Spec => [](Types /\ Bounded)` |
| `FindsItsHandler` | `Spec => []ToItsHandler` |
| `HandedOnce` | `Spec => []OnceOrToSlotZero` |
| `QueueKept` | `Spec => ImplementsQueue` |

`Order` is the invariant below all of them: types, bounds, process numbers that grow
(`Numbered`), nothing remembered by a process that is not there (`Fresh`), a process in the
middle of an alert has one of two packets (`Jobs`), a packet is on the way its
sender put it on (`Senders`).  `Handlers` adds that everything sent, waiting or in
a pipe is for a kind that its slot serves, which rests on the table of types (and
what `ipc_alert_cachemanager` remembers of it) being right from the beginning and
never written again.  `Tracks` is about one sender and one slot: the numbers of
the alerts that were handed over, followed by those under way, are strictly
increasing, and below that of an alert which is still to be sent there.  It
survives deaths because they only take away from it, and a reader that throws a pipe away for
the same reason.

The refinement needs more than that, since an alert of two packets must
not be mixed with another.  `Streams` says of each first process of a slot what it
will make of the packets it has not read: from what it keeps for a sender, through the
pipe and through what waits with the sender, each second part finds the first of the
same alert (`Reads`), up to the part that the sender is about to send (`Ends`).  The
process numbers are what makes it inductive: a part of a sender that died is never
joined with one of its successor, whose number is new.  A process that is not the first
inherits the pipe without what was kept, so `Streams` says nothing about it, and
`AlertQueue` allows it to clear its ways and to mix.

`At` and `Order` are recursive or chosen functions, and the prover has no
induction rule that takes an operator.  The lemmas about them go by the least
index where they could fail (`SmallestNat`), and `UptoExists` shows that the
function `At` is defined by exists.

`RedisClientProofs` proves, for any number of greetings, scripts, rulesets, lost
connections, refusals and writes:

| theorem | statement |
|---|---|
| `ClientInvariant` | `Spec => []IInv` |
| `ClientFreed` | `Spec => []FreedIsUnheard` |
| `ClientAnswers` | `Spec => []OwnAnswer` |
| `ClientAgrees` | `Spec => []Agreement` |

The only assumption, `Sizes`, is that there is a ruleset to load: without one
nothing subscribes and the client is not used.  A step of this module is one
event of the manager's loop, in which one operator calls the next, each with
a client that is in the middle of something.  So the invariant is stated of any client and
what is on its way (`Good`), and each operator has a lemma that takes it from the state in
which it may be called to the state it leaves; that of `Proceed` covers the scripts,
the failures and the second subscription.  `Fine` excepts clients that have ended and says
of one that used a freed context that some context was lost unheard.

What `Good` says goes by the status.  While the client connects (`Connecting`), there is one
callback at most on both contexts together; it is that of the command of the current step, on the
context of this command, and the only reason why there is none, other than a
server that is loading its data, is an HSET whose connection was lost: hiredis calls
its callback with NULL, and the connector goes on to a command that is refused
(`Missed`).  That the context of subscriptions is gone is noticed because its greeting has a callback.
When the client is ready (`Steady`), a freed context of commands has been lost unheard
or the loader is at its UNSUBSCRIBE.  `Paired` says of a context with a callback
that its command or the one answer is on its way, and of one without that nothing
is, which is the count of `OwnAnswer`.

On the context of subscriptions nothing has a place in the list of replies, and `Subs` and
`Once` take that part: what is on its way there is for channel 0 or for the ruleset
that is being loaded, and nobody subscribes to a channel twice, so that an
acknowledgement that comes finds the handler that waits for it, and the one that comes
later finds a plain one.  `Agreement` needs that channels keep their order
(`Agrees`): a rule that was published before the ruleset was read is read with it, and one
published later is behind the acknowledgement.  So what the client knows of a ruleset together
with what is on its way is all that is stored, and while the loader waits for the ruleset
the same holds of the answer that it will get.  The lemmas about `News` say what becomes of that when an
answer is taken off or added.

`EachScript` is written out as a function of its three commands, and the fold with which
`Ready` subscribes is unrolled (`ReadySubscribes`): both subscriptions are known by
then, and the prover has no induction over a fold.

`StartupProofs` proves, for any documents that JSON can spell, any order of their
tables, any number of helpers, workers, requests and deaths:

| theorem | statement |
|---|---|
| `StartupInvariant` | `Spec => []IInv` |
| `StartupPointers` | `Spec => []Pointers` |

The only assumptions are those of `StartupAssumption`: a slot 0, bounds that are numbers,
and of a document that is accepted that its tables are finite, its lists and phases are
arrays and that nothing in it has the name that stands for none (`IsRead`).

The first half is about `Ruleset.new` alone and ends in `NewIs`: every call comes after the
calls for what it is given, as far as anybody follows the pointer (`Linked`); unless an
error was raised, each part comes with the rule it is a part of (`Owned`) and the
ruleset is among them.  `New` goes through the things of a document, limiters before
rules before lists before phases, and what makes it go is
`Sound`, which every kind of thing preserves (`AddThingIs`), together with what is
known once the turn of a thing is over (`Done`): a limiter that was created as a
burst limiter before its turn is ahead of it (`Ahead`), a rule of a list is found or made,
a condition finds its limiter because the parser has found it.  Folds are
unrolled into functions from the number of steps (`FoldListEntries`, `FoldPhaseEntries`,
`FoldThings`, `Flattens`), and the induction is over that number, as
a smallest counterexample (`UpTo`).

The second half is the inductive invariant `IInv`.  `Store` says that memory is closed:
what a block leads to is there.  A helper that fails leaves the blocks of its first
calls, and `Linked` makes these closed (`MemoryIs`).  `Alive` says of a helper that
has not failed that all its blocks are of rulesets with everything in them, so that
`Ruleset:destroy` finds by the lists, rules and limiters of a ruleset all there is in it.
`Leaving` says of a manager that destroys its rulesets that its list of deletes has all
of its blocks on it, unless it ends early at a delete that has no binding (`accept`, `reject`
or `wait`), and that on this list nothing goes before what leads to it.  It is established at
once by `ShutdownIs`, from lists before rules before limiters (`DestroyIs`), and each
delete keeps it.  `Placed` is the part about workers: places, pipes and what a worker
knows lead to complete rulesets.  Nothing is freed before nginx quits, which is why it
holds until then only.

`RedisStoreProofs` proves, for any documents, any rulesets and any sequence of commands,
those that fail half way included:

| theorem | statement |
|---|---|
| `StoreInvariant` | `Spec => []Sound(db)` |
| `StoreRefs` | `Spec => []RefsCover` |
| `StoreRefused` | `Spec => RefusedIsUndone` |

The assumption `Inputs` says of the documents what `StartupAssumption` does, and of the
rules that commands are given that they have finitely many conditions.

`RefsCover` alone is not inductive: it looks at what can be read from the sets of names,
but an update of a rule starts from its hash, and a script that raised an error has left hashes
that no set names.  `Sound` therefore speaks of every hash there is.  `Covered`: whatever it
refers to (`Refers`), it is counted there, by at least as much.  `Listed`: what a set names has a
hash with what is read of it.  `AllNamed`: the names of a list or phase are an array.
`Natural`: no reference is counted below 0, so that `ZREMRANGEBYSCORE`, which takes
away every member of the set that is not above 0, leaves the references of others as they were.

Redis does not undo a script, so `Sound` has to hold after each of its calls, wherever it stops
(`ApplySound`, `RunSound`).  What is written first is what matters: a limiter
gets its hash before its reference, and in between it would not be counted; it holds because
no error can come there, the one for a burst limiter without a name coming before the hash
names it.  What the calls themselves are comes from `Ruleset.new`: `NewIs` shows of any document
that a thing is called for under an id of its kind and a list with an array of names
(`Storable`).  It goes through the document as the proof about `Startup` does, from which the
first lemmas are repeated: limiters before rules before lists before phases, and what the parser
accepted is there when it is looked for (`Had`), unless there was an error.

`StoreRefused` rests on the order of the calls for one rule: its parts, which store
nothing, the numbers of generated names, and the rule at last (`CallOrder`, `NewRuleIs`).  An
error can only be that of the last call, and `CreateRule` raises it before it writes.
`OnlyCounters` says of two databases that they differ in counters only, which is
transitive, so it holds of a whole script.

The sorted sets of references are written with one operator for all keys at once (`Zincr`):
a fold over a set in an order that is chosen would have to be taken apart again.

Only model checked:

* All liveness properties: the prover does no liveness under fairness and no ENABLED.
* `LikeUnsuspended` and `StackSpellsPath` of `Conditions`, which is a recursion over
  trees: what it computes for every tree takes an induction over data.
* `ReadsBack` of `RedisStore`: reading a ruleset back is the parser and
  `Ruleset.new` again, on what the first run has stored, with names and counters that
  other commands have changed since.  `NewIs` says of a run what it calls for, but
  not that its calls, one on top of the other, spell the document they were made from.

## Not modelled

* The arithmetic of `limiter_current_value`, which subtracts the drain since
  the value was *created* from a count that grows with every request.
* The death of the manager other than by quitting, and what a new cycle of nginx makes of the
  shared memory it takes over at a reload (`Limiter`); what a worker that still drains then makes of
  memory that was freed, beyond that it may use it.
* A process that is killed between the two calls that read the header and the body of a packet
  (`ipc.c:664`, `:702`): a body without a header would be left in the pipe.  No code of the
  process runs between the two, so only a signal from outside could do it; in `Ipc` processes
  die between packets and in handlers.
* A phase given as a single list in long form, see *Findings*.
* What `reject` sends; the variables in strings; tags themselves.
* The tracer: nobody creates a round of traces at this commit.
* The slab allocator, a modified copy of nginx's for nginx 1.11.6 and older; Lua's
  registry and the loading of scripts; directives that only store a value; what
  is left of an element whose second block could not be allocated.
* Of the client of Redis: patterns, MONITOR, several servers, timers that cannot be
  allocated, and the handlers of commands on the channel `wafflex`.
* The pieces of alerts that a pipe takes only in part: packets are no larger than
  PIPE_BUF and are written whole.
* Vendored code, except what the client depends on of `hiredis/async.c`.

## Plan

1. Timeouts of `wafflex` commands and MONITOR in `RedisClient`.
2. `Limiter` over `Ipc` instead of its own pipes.
3. Proofs: `ReadsBack` of `RedisStore`, from the lemmas about `Ruleset.new`.
