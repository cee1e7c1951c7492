------------------------------ MODULE Startup ------------------------------
(***************************************************************************)
(* From the configuration to the answer to a request's first question.     *)
(*                                                                         *)
(* The master reads the ruleset files and notes for each ruleset the       *)
(* places in the configuration where it is used (conf).  Every helper      *)
(* process, the cache loader and the cache manager, starts with a copy of  *)
(* these notes, creates the rulesets in shared memory and sets the places  *)
(* in its own memory; those in Redis come later.  In a worker the places   *)
(* are empty: the first request asks the manager for the ruleset, is       *)
(* tracked by its address, and resumed by the answer.  Processes die and   *)
(* are started anew; at the end the manager destroys what it created.      *)
(*                                                                         *)
(* ngx_wafflex_setup.c, ngx_wafflex.c, lua/nginx/init.lua, and the create  *)
(* and delete functions of ruleset/*.c.  A Lua error aborts its process    *)
(* (WFX_CRASH_ON_LUA_ERROR), so does a NULL pointer that is used.          *)
(***************************************************************************)
EXTENDS RulesetNew

CONSTANTS
    Workers,        \* their slots: 0 is the first
    Requests,       \* the addresses requests have in a worker
    Configs,        \* what may be configured, see conf
    Room,           \* the places an array has at first: 4 in the code
    MaxManagers,    \* bounds: managers that are started, and workers that
    MaxStarts       \*   are started anew

ASSUME StartupAssumption ==
    /\ 0 \in Workers /\ Workers \subseteq Nat
    /\ {Room, MaxManagers, MaxStarts} \subseteq Nat
    /\ MaxManagers > 0
    /\ \A c \in Configs : \A doc \in Range(c.file) \cup Range(c.redis) : Accepts(doc) => IsRead(doc)

VARIABLES
    conf,       \* places: the rulesets of a location; file, redis: name ->
                \*   document; enabled: Redis is; moved: the array of places
                \*   was moved after Room of them; loader: some other module
                \*   has nginx start a cache loader; opened, deaths: bounds of
                \*   the requests that begin and the helpers that die
    alloc,      \* the blocks of shared memory
    helper,     \* the state of each helper: 0 is the loader, then managers
    todo,       \* todo[h]: the rulesets of files that h has to create yet
    later,      \* later[h]: those it has to load from Redis
    place,      \* place[h]: rcf[i].ruleset in the helper h
    doomed,     \* doomed[h]: what it still has to delete
    registered, \* the manager's kind is in the table of processes
    quitting,   \* the master was told to quit
    up,         \* up[w]: there is a worker in slot w
    known,      \* known[w]: rcf[i].ruleset in the worker w
    slot,       \* slot[w]: ipc_alert_cachemanager's static slot
    request,    \* request[w][a]: "none", "waiting", or "lost", which waits
                \*   for an answer that nobody will send
    asks,       \* the alerts to the manager
    answers,    \* answers[w]: the alerts to a worker
    count       \* managers, workers, requests and deaths so far

memory == <<alloc, doomed>>
helpers == <<helper, todo, later, place>>
workers == <<up, known, slot, request>>
vars == <<conf, memory, helpers, registered, quitting, workers, asks, answers, count>>

Helpers == 0 .. MaxManagers
Pointer(h, name) == <<h, name>>
Null == <<>>
Nowhere == [i \in 1 .. 3 |-> Null]

(***************************************************************************)
(* Configuration.                                                          *)
(***************************************************************************)

\* wafflex_load_ruleset_file: a document that is none is an error
FilesOK(c) == \A name \in DOMAIN c.file : Accepts(c.file[name])

\* wafflex_ruleset: one that no file holds is left to Redis, if there is one
PlacesOK(c) == \A i \in DOMAIN c.places : c.places[i] \in DOMAIN c.file \/ c.enabled

\* The array of places may be moved when it grows, and then the pointers
\* noted so far lead to where it was.
MayMove(c) == c.moved => Len(c.places) > Room
Stale(i) == conf.moved /\ i <= Room

Deferred == {conf.places[i] : i \in DOMAIN conf.places} \cap DOMAIN conf.file
DeferredRedis == {conf.places[i] : i \in DOMAIN conf.places} \ DOMAIN conf.file

Init ==
    /\ conf \in {c \in Configs : FilesOK(c) /\ PlacesOK(c) /\ MayMove(c)}
    /\ alloc = {}
    /\ helper = [h \in Helpers |-> "unborn"]
    /\ todo = [h \in Helpers |-> {}] /\ later = [h \in Helpers |-> {}]
    /\ place = [h \in Helpers |-> Nowhere]
    /\ doomed = [h \in Helpers |-> <<>>]
    /\ registered = FALSE /\ quitting = FALSE
    /\ up = [w \in Workers |-> TRUE]
    /\ known = [w \in Workers |-> Nowhere]
    /\ slot = [w \in Workers |-> None]
    /\ request = [w \in Workers |-> [a \in Requests |-> "none"]]
    /\ asks = <<>> /\ answers = [w \in Workers |-> <<>>]
    /\ count = [starts |-> 0, opened |-> 0, deaths |-> 0]

(***************************************************************************)
(* Creation.  An element is one or more blocks of shared memory, the first *)
(* of which points to other elements.                                      *)
(***************************************************************************)
Blocks(h, rs, call, parts, refs) ==
    {[by |-> h, rs |-> rs, id |-> call.id, part |-> part,
      refs |-> IF part = "item" THEN refs ELSE {}, of |-> IF part = "item" THEN call.of ELSE None] : part \in parts}

\* a burst limiter that is still a name is a NULL pointer
LimiterCreate(h, rs, call) == Blocks(h, rs, call, {"item", "name"}, call.refs)
RuleCreate(h, rs, call) == Blocks(h, rs, call, {"item", "name", "actions"}, call.refs)
ListCreate(h, rs, call) == Blocks(h, rs, call, {"item", "name", "rules"}, call.refs)

\* a condition and an action keep their data in the block that they are in
OfType(call, types) == {id \in call.refs : id[1] \in types}
ConditionCreate(h, rs, call, refs) == Blocks(h, rs, call, {"item", "name"}, refs)
PlainCreate(h, rs, call) == ConditionCreate(h, rs, call, {})
DelayCreate(h, rs, call) == ConditionCreate(h, rs, call, {})
MatchCreate(h, rs, call) == ConditionCreate(h, rs, call, OfType(call, {"string"}))
TagCheckCreate(h, rs, call) == ConditionCreate(h, rs, call, OfType(call, {"string"}))
LimitCreate(h, rs, call) == ConditionCreate(h, rs, call, OfType(call, {"string", "limiter"}))
ArrayCreate(h, rs, call) == ConditionCreate(h, rs, call, OfType(call, {"condition"}))

ActionCreate(h, rs, call, refs) == Blocks(h, rs, call, {"item", "name"}, refs)
TagCreate(h, rs, call) == ActionCreate(h, rs, call, OfType(call, {"string"}))
WaitCreate(h, rs, call) == ActionCreate(h, rs, call, {})
\* the body of the answer is copied
RejectCreate(h, rs, call) == ActionCreate(h, rs, call, {})
AcceptCreate(h, rs, call) == ActionCreate(h, rs, call, {})

\* the bindings that the types of conditions and actions have
ConditionBinding(h, rs, call) ==
    CASE call.id[3] \in {"true", "false"} -> PlainCreate(h, rs, call)
      [] call.id[3] = ".delay"            -> DelayCreate(h, rs, call)
      [] call.id[3] = "match"             -> MatchCreate(h, rs, call)
      [] call.id[3] = "tag-check"         -> TagCheckCreate(h, rs, call)
      [] call.id[3] \in {"any", "all"}    -> ArrayCreate(h, rs, call)
      [] OTHER                            -> LimitCreate(h, rs, call)

ActionBinding(h, rs, call) ==
    CASE call.id[3] = "tag"    -> TagCreate(h, rs, call)
      [] call.id[3] = "wait"   -> WaitCreate(h, rs, call)
      [] call.id[3] = "reject" -> RejectCreate(h, rs, call)
      [] call.id[3] = "accept" -> AcceptCreate(h, rs, call)

StringCreate(h, rs, call) == Blocks(h, rs, call, {"item"}, {})
\* addPhase leaves no phase in the ruleset's table, so that the phases are NULL
RulesetCreate(h, rs, call) == Blocks(h, rs, call, {"item", "name"}, {})

Created(h, rs, call) ==
    CASE call.id[1] = "limiter"   -> LimiterCreate(h, rs, call)
      [] call.id[1] = "rule"      -> RuleCreate(h, rs, call)
      [] call.id[1] = "list"      -> ListCreate(h, rs, call)
      [] call.id[1] = "condition" -> ConditionBinding(h, rs, call)
      [] call.id[1] = "action"    -> ActionBinding(h, rs, call)
      [] call.id[1] = "string"    -> StringCreate(h, rs, call)
      [] call.id[1] = "ruleset"   -> RulesetCreate(h, rs, call)
      [] call.id[1] = "count"     -> {}

\* phase_create takes the whole stack away and finds no table there.
PhaseFails(calls) == \E i \in DOMAIN calls : calls[i].id[1] = "phase"
BeforePhase(calls) == {i \in DOMAIN calls : \A j \in 1 .. i : calls[j].id[1] # "phase"}

\* What is in memory after the first n calls for the document.
Memory(h, rs, calls, n) == UNION {Created(h, rs, calls[i]) : i \in 1 .. n}

NoNames == [rules |-> {}, lists |-> {}]
Calls(doc, order) == New(doc, order, [any |-> 0], NoNames)
OrdersOf(doc) ==
    [limiters : Orders(doc).limiters, rules : Orders(doc).rules,
     lists : Orders(doc).lists, phases : Orders(doc).phases]
Documents == UNION {Range(c.file) \cup Range(c.redis) : c \in Configs}
NewOf == [doc \in Documents |-> IF Accepts(doc) THEN {Calls(doc, order) : order \in OrdersOf(doc)} ELSE {}]

\* createRuleset: everything was created, and the places are set; or a call
\* failed, because it always does or because there was no memory left, and
\* that is the end of the helper.
Loaded(h, rs, new) ==
    /\ new.ok /\ ~PhaseFails(new.calls)
    /\ alloc' = alloc \cup Memory(h, rs, new.calls, Len(new.calls))
    /\ place' = [place EXCEPT ![h] = [i \in DOMAIN @ |->
                   IF i \in DOMAIN conf.places /\ conf.places[i] = rs /\ ~Stale(i)
                   THEN Pointer(h, rs) ELSE @[i]]]
    /\ UNCHANGED <<helper, count>>

Aborted(h, rs, new) ==
    LET fails == ~new.ok \/ PhaseFails(new.calls)
        most == Cardinality(BeforePhase(new.calls))
    IN
    /\ \/ fails /\ alloc' = alloc \cup Memory(h, rs, new.calls, most) /\ UNCHANGED count
       \/ /\ ~fails /\ count.deaths < conf.deaths
          /\ count' = [count EXCEPT !.deaths = @ + 1]
          /\ \E n \in 0 .. most - 1 : alloc' = alloc \cup Memory(h, rs, new.calls, n)
    /\ helper' = [helper EXCEPT ![h] = "gone"]
    /\ UNCHANGED place

Load(h, rs, doc) == \E new \in NewOf[doc] : Loaded(h, rs, new) \/ Aborted(h, rs, new)

(***************************************************************************)
(* Helper processes.                                                       *)
(***************************************************************************)

\* init_worker in a helper, with the notes as the master made them.  A
\* manager that died is started anew.
StartHelper(h) ==
    /\ ~quitting /\ helper[h] = "unborn"
    /\ h > 1 => helper[h - 1] = "gone"
    /\ h = 0 => conf.loader
    /\ helper' = [helper EXCEPT ![h] = "starting"]
    /\ todo' = [todo EXCEPT ![h] = Deferred]
    /\ later' = [later EXCEPT ![h] = DeferredRedis]
    /\ UNCHANGED <<conf, memory, place, registered, quitting, workers, asks, answers, count>>

\* createDeferredRulesets
CreateDeferred(h) ==
    \E rs \in todo[h] :
        /\ helper[h] = "starting"
        /\ todo' = [todo EXCEPT ![h] = @ \ {rs}]
        /\ Load(h, rs, conf.file[rs])
        /\ UNCHANGED <<conf, doomed, later, registered, quitting, workers, asks, answers>>

\* The alert handlers are set when all that is done.
Ready(h) ==
    /\ helper[h] = "starting" /\ todo[h] = {}
    /\ helper' = [helper EXCEPT ![h] = "up"]
    /\ UNCHANGED <<conf, memory, todo, later, place, registered, quitting, workers, asks, answers, count>>

\* loadDeferredRedisRulesets: an answer has come.  No ruleset, or none that
\* can be parsed, is an error.
LoadRedis(h) ==
    \E rs \in later[h] :
        /\ helper[h] = "up"
        /\ later' = [later EXCEPT ![h] = @ \ {rs}]
        /\ IF rs \in DOMAIN conf.redis /\ Accepts(conf.redis[rs])
           THEN Load(h, rs, conf.redis[rs])
           ELSE helper' = [helper EXCEPT ![h] = "gone"] /\ UNCHANGED <<alloc, place, count>>
        /\ UNCHANGED <<conf, doomed, todo, registered, quitting, workers, asks, answers>>

\* ipc_scrape_proctitle in the manager (see Ipc).
Register(h) ==
    /\ h > 0 /\ helper[h] = "up" /\ ~registered
    /\ registered' = TRUE
    /\ UNCHANGED <<conf, memory, helpers, quitting, workers, asks, answers, count>>

\* The loader exits when its work is done, nobody calls exit_worker then.
LoaderExits ==
    /\ helper[0] = "up"
    /\ helper' = [helper EXCEPT ![0] = "gone"]
    /\ UNCHANGED <<conf, memory, todo, later, place, registered, quitting, workers, asks, answers, count>>

HelperDies(h) ==
    /\ helper[h] \in {"starting", "up"} /\ count.deaths < conf.deaths
    /\ helper' = [helper EXCEPT ![h] = "gone"]
    /\ count' = [count EXCEPT !.deaths = @ + 1]
    /\ UNCHANGED <<conf, memory, todo, later, place, registered, quitting, workers, asks, answers>>

(***************************************************************************)
(* Destruction: when nginx logs that the manager is exiting, the writer of *)
(* the log that wfx_cache_manager has added calls exit_worker.             *)
(***************************************************************************)
Items(h, rs, type) == {b \in alloc : b.by = h /\ b.rs = rs /\ b.id[1] = type /\ b.part = "item"}

\* RuleComponent.delete: what a condition or an action is made of, then itself
DeleteStrings(n, strings) == [i \in DOMAIN strings |-> Part("string", n, strings[i])]
LeafDelete(n, l) == Append(DeleteStrings(n, StringsOf(l)), Part("condition", n, l))
ConditionDelete(n, rule) ==
    LET each == SetToSeq(Leaves(rule))
        leaves == FlattenSeq([i \in DOMAIN each |-> LeafDelete(n, each[i])])
    IN IF rule.nest = "if" THEN leaves ELSE Append(leaves, Part("condition", n, rule.nest))

Fatal == <<"error", "", "">>
\* accept, reject and wait have no destroy function
ActionDelete(n, rule) ==
    Append(DeleteStrings(n, ActionStrings(rule.act)),
           IF rule.act \in Replies THEN Fatal ELSE Part("action", n, rule.act))

DeleteRule(b) == ConditionDelete(b.id[2], b.of) \o ActionDelete(b.id[2], b.of) \o <<b.id>>

\* mutant of Destroy: the rules before the lists they are in.
DestroyRulesFirst(lists, rules, limiters) ==
    FlattenSeq([i \in DOMAIN rules |-> DeleteRule(rules[i])])
      \o [i \in DOMAIN lists |-> lists[i].id]
      \o [i \in DOMAIN limiters |-> limiters[i].id] \o <<<<"ruleset", "", "">>>>

\* Ruleset:destroy
Destroy(lists, rules, limiters) ==
    [i \in DOMAIN lists |-> lists[i].id]
      \o FlattenSeq([i \in DOMAIN rules |-> DeleteRule(rules[i])])
      \o [i \in DOMAIN limiters |-> limiters[i].id] \o <<<<"ruleset", "", "">>>>

Destroyed(h, rs) ==
    {[i \in DOMAIN ids |-> [rs |-> rs, id |-> ids[i]]] :
       ids \in {Destroy(l, r, m) : l \in SetToSeqs(Items(h, rs, "list")), r \in SetToSeqs(Items(h, rs, "rule")),
                                   m \in SetToSeqs(Items(h, rs, "limiter"))}}

Mine(h) == {b.rs : b \in {c \in alloc : c.by = h /\ c.id[1] = "ruleset"}}

\* shutdown: the rulesets that were completed, in any order
Shutdown(h) ==
    /\ h > 0 /\ helper[h] = "up" /\ quitting
    /\ \/ /\ helper' = [helper EXCEPT ![h] = "leaving"]
          /\ \E names \in SetToSeqs(Mine(h)) :
                \E each \in [DOMAIN names -> UNION {Destroyed(h, rs) : rs \in Mine(h)}] :
                   /\ \A i \in DOMAIN names : each[i] \in Destroyed(h, names[i])
                   /\ doomed' = [doomed EXCEPT ![h] = FlattenSeq([i \in DOMAIN names |-> each[i]])]
       \* told to quit before wfx_cache_manager was called
       \/ helper' = [helper EXCEPT ![h] = "gone"] /\ UNCHANGED doomed
    /\ UNCHANGED <<conf, alloc, todo, later, place, registered, quitting, workers, asks, answers, count>>

LimiterDelete == {"item", "name"}
RuleDelete == {"item", "name", "actions"}
ListDelete == {"item", "name", "rules"}
RulesetDelete == {"item", "name"}
ConditionDestroy == {"item", "name"}     \* also the destroy function of tag
StringDestroy == {"item"}

Freed(type) ==
    CASE type = "limiter" -> LimiterDelete
      [] type = "rule"    -> RuleDelete
      [] type = "list"    -> ListDelete
      [] type = "ruleset" -> RulesetDelete
      [] type = "string"  -> StringDestroy
      [] OTHER            -> ConditionDestroy

DeleteNext(h) ==
    /\ helper[h] = "leaving" /\ doomed[h] # <<>>
    /\ LET next == Head(doomed[h]) IN
       /\ alloc' = {b \in alloc : ~(/\ b.by = h /\ b.rs = next.rs /\ b.id = next.id
                                    /\ b.part \in Freed(next.id[1]))}
       /\ helper' = IF next.id = Fatal THEN [helper EXCEPT ![h] = "gone"] ELSE helper
    /\ doomed' = [doomed EXCEPT ![h] = Tail(@)]
    /\ UNCHANGED <<conf, todo, later, place, registered, quitting, workers, asks, answers, count>>

ManagerExits(h) ==
    /\ helper[h] = "leaving" /\ doomed[h] = <<>>
    /\ helper' = [helper EXCEPT ![h] = "gone"]
    /\ UNCHANGED <<conf, memory, todo, later, place, registered, quitting, workers, asks, answers, count>>

Quit ==
    /\ ~quitting /\ quitting' = TRUE
    /\ UNCHANGED <<conf, memory, helpers, registered, workers, asks, answers, count>>

(***************************************************************************)
(* Workers and requests.                                                   *)
(***************************************************************************)

\* The memory of a worker goes with it; alerts to it stay in its pipe.
Crash(w) ==
    /\ up' = [up EXCEPT ![w] = FALSE]
    /\ known' = [known EXCEPT ![w] = Nowhere]
    /\ slot' = [slot EXCEPT ![w] = None]
    /\ request' = [request EXCEPT ![w] = [a \in Requests |-> "none"]]

StartWorker(w) ==
    /\ ~up[w] /\ ~quitting /\ count.starts < MaxStarts
    /\ up' = [up EXCEPT ![w] = TRUE]
    /\ count' = [count EXCEPT !.starts = @ + 1]
    /\ UNCHANGED <<conf, memory, helpers, registered, quitting, known, slot, request, asks, answers>>

\* ngx_wafflex_request_handler.  The ruleset of the first place is fetched
\* if it is not known.  If it is, its phase is NULL, and so it stays with
\* the first place.
Begin(w, a) ==
    /\ up[w] /\ request[w][a] = "none" /\ count.opened < conf.opened
    /\ count' = [count EXCEPT !.opened = @ + 1]
    /\ LET to == IF slot[w] # None THEN slot[w] ELSE IF registered THEN "manager" ELSE "zero" IN
       CASE known[w][1] # Null \/ (to = "zero" /\ w = 0)
              -> Crash(w) /\ UNCHANGED <<asks, answers>>
         [] known[w][1] = Null /\ to = "manager"
              -> /\ asks' = Append(asks, [w |-> w, a |-> a])
                 /\ slot' = [slot EXCEPT ![w] = to]
                 /\ request' = [request EXCEPT ![w][a] = "waiting"]
                 /\ UNCHANGED <<up, known, answers>>
         [] OTHER
              -> /\ answers' = [answers EXCEPT ![0] = Append(@, [stray |-> TRUE, a |-> a, ruleset |-> Null])]
                 /\ slot' = [slot EXCEPT ![w] = to]
                 /\ request' = [request EXCEPT ![w][a] = "lost"]
                 /\ UNCHANGED <<up, known, asks>>
    /\ UNCHANGED <<conf, memory, helpers, registered, quitting>>

\* The client goes: wfx_track_request_cleanup_handler.
Close(w, a) ==
    /\ request[w][a] # "none"
    /\ request' = [request EXCEPT ![w][a] = "none"]
    /\ UNCHANGED <<conf, memory, helpers, registered, quitting, up, known, slot, asks, answers, count>>

\* ruleconfig_ruleset_request_alert_handler: no ruleset, no answer
Answer(h) ==
    /\ h > 0 /\ helper[h] = "up" /\ asks # <<>>
    /\ asks' = Tail(asks)
    /\ LET d == Head(asks) IN
       IF place[h][1] # Null
       THEN /\ answers' = [answers EXCEPT ![d.w] = Append(@, [stray |-> FALSE, a |-> d.a, ruleset |-> place[h][1]])]
            /\ UNCHANGED request
       ELSE /\ request' = [request EXCEPT ![d.w][d.a] = IF @ = "waiting" THEN "lost" ELSE @]
            /\ UNCHANGED answers
    /\ UNCHANGED <<conf, memory, helpers, registered, quitting, up, known, slot, count>>

\* mutant of Resumed: once the place is set its requests are thought to
\* have been resumed.
ResumedOnce(w, d) == request[w][d.a] # "none" /\ known[w][1] = Null

\* wfx_tracked_request_active: the request, or another at its address
Resumed(w, d) == request[w][d.a] # "none"

\* ruleconfig_ruleset_response_alert_handler: a request that is resumed is
\* evaluated from the first place on, see Begin.  A question that came
\* astray has no handler in a worker.
Response(w) ==
    /\ up[w] /\ answers[w] # <<>>
    /\ answers' = [answers EXCEPT ![w] = Tail(@)]
    /\ LET d == Head(answers[w]) IN
       IF d.stray \/ Resumed(w, d)
       THEN Crash(w)
       ELSE known' = [known EXCEPT ![w][1] = d.ruleset] /\ UNCHANGED <<up, slot, request>>
    /\ UNCHANGED <<conf, memory, helpers, registered, quitting, asks, count>>

-----------------------------------------------------------------------------
HelperStep(h) ==
    \/ StartHelper(h) \/ CreateDeferred(h) \/ Ready(h) \/ Register(h) \/ Answer(h)
    \/ DeleteNext(h) \/ ManagerExits(h)

Next ==
    \/ \E h \in Helpers : HelperStep(h) \/ LoadRedis(h) \/ HelperDies(h) \/ Shutdown(h)
    \/ LoaderExits \/ Quit
    \/ \E w \in Workers :
         \/ StartWorker(w) \/ Response(w)
         \/ \E a \in Requests : Begin(w, a) \/ Close(w, a)

(* A helper goes through its start and its alerts, and nginx starts it     *)
(* anew; a worker reads its alerts.  What comes from Redis, from clients   *)
(* and from the master is not waited for.                                  *)
Spec ==
    /\ Init /\ [][Next]_vars
    /\ \A h \in Helpers : WF_vars(HelperStep(h))
    /\ \A w \in Workers : WF_vars(Response(w))

(***************************************************************************)
(* Properties.                                                             *)
(***************************************************************************)

\* The pointers in shared memory, from element to element, that are followed
\* without a look at the other: whatever was created, died half way or is
\* being destroyed, the rules of a list and the limiter of a condition are
\* there.  (Inside a rule its parts go first, and burst limiters go in any
\* order.)
Follows(b, id) == \/ b.id[1] \in {"list", "phase"}
                  \/ b.id[1] = "condition" /\ id[1] = "limiter"
Held(h, rs, id) == \E b \in alloc : b.by = h /\ b.rs = rs /\ b.id = id /\ b.part = "item"

\* What a worker knows of the place, or will be told, is the ruleset of that
\* name, complete, however often helpers died since; when nginx quits, and
\* only then, it may be destroyed under the worker (ngx_wafflex_setup.c:41).
\* When the manager has gone after a complete destruction, nothing that its
\* completed rulesets consist of is left (ruleset.lua:444).
Told(w) == {known[w][1]} \cup {answers[w][i].ruleset : i \in DOMAIN answers[w]}

Complete(p) ==
    /\ p[2] = conf.places[1]
    /\ Held(p[1], p[2], <<"ruleset", "", "">>)

Pointers ==
    /\ \A b \in alloc : \A id \in b.refs : Follows(b, id) => Held(b.by, b.rs, id)
    /\ ~quitting => \A w \in Workers : \A p \in Told(w) \ {Null} : Complete(p)
    /\ \A h \in Helpers : helper[h] = "leaving" /\ doomed[h] = <<>> => ~\E b \in alloc : b.by = h

\* A request that waits for its ruleset is resumed or closed at last, unless
\* its question went astray, the manager had no such ruleset, nginx quits,
\* or no manager lives long enough (ngx_wafflex.c:70, :78).
FetchAnswered ==
    \A w \in Workers, a \in Requests :
        request[w][a] = "waiting" ~>
            \/ request[w][a] # "waiting"
            \/ quitting \/ helper[MaxManagers] = "gone"
=============================================================================
