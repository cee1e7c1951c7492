----------------------------- MODULE RedisClient -----------------------------
(***************************************************************************)
(* The manager's connection to Redis (lua/modules/redis.lua over            *)
(* util/wfx_redis.c over hiredis/async.c), the coroutine that loads the     *)
(* rulesets that are stored there (lua/nginx/init.lua), and the handler of  *)
(* the updates that are published (lua/nginx/redis.lua), with the server.   *)
(* A client has two contexts, for commands and for subscriptions, and two   *)
(* coroutines, the one that connects and the one that loads.  A step is one *)
(* event of the manager's loop, a command that the server executes, or a    *)
(* write by another client.  The client is one record, and what its code    *)
(* does during an event are operators from record to record.                *)
(***************************************************************************)
EXTENDS Naturals, Sequences, FiniteSets, SequencesExt

CONSTANTS Greetings,    \* AUTH and SELECT: commands sent first on each context
          Scripts,      \* the number of scripts the client sees to
          Rulesets,     \* the number of rulesets to load, named 1, 2, ...
          MaxLosses,    \* bound on lost connections
          MaxTroubles,  \* bound on refusals and other unwelcome answers
          MaxWrites     \* bound on rules and updates that others write

\* redisRulesetSubscribe and the loader are there for at least one ruleset.
ASSUME Sizes == Greetings \in Nat /\ Scripts \in Nat /\ Rulesets \in Nat \ {0}

Roles == {"ctx", "sub_ctx"}
Channels == 0 .. Rulesets                   \* 0 is the channel "wafflex"

VARIABLES c,            \* the client, a record of type Client
          answers,      \* server to client, by role
          subscribed,   \* channels that the server sends
          rules,        \* stored rules of each ruleset, numbered from 1
          budget,       \* what is left of the three bounds
          unheard       \* history: contexts lost in this attempt while nobody
                        \* waited for an answer that is looked at
vars == <<c, answers, subscribed, rules, budget, unheard>>

Commands == {"greeting", "info", "exists", "load", "hset", "read",
             "subscribe", "unsubscribe"}
Step(role, cmd) == [role |-> role, cmd |-> cmd]
Greeting(role) == [i \in 1 .. Greetings |-> Step(role, "greeting")]
EachScript ==
  [i \in 1 .. 3 * Scripts |-> Step("ctx", <<"exists", "load", "hset">>[((i - 1) % 3) + 1])]
\* What connector() does, in order, and on which context.
Steps ==
  Greeting("ctx") \o Greeting("sub_ctx") \o <<Step("ctx", "info")>> \o EachScript

Command(cmd, arg) == [cmd |-> cmd, arg |-> arg]
Callback(who, what) == [who |-> who, what |-> what]

Client ==
  [status    : {"disconnected", "connecting", "ready"},
   pointer   : [Roles -> BOOLEAN],          \* self.ctx and self.sub_ctx
   context   : [Roles -> {"up", "closing", "freed"}],
   callbacks : [Roles -> Seq([who : {"connector", "loader"},
                              what : [cmd : Commands, arg : Nat]])],
   channel   : [Channels -> {"none", "wrapped", "plain"}],
   sent      : [Roles -> Seq([cmd : Commands, arg : Nat])],
   pending   : Seq(Channels),               \* pending_commands, all SUBSCRIBE
   step      : 1 .. Len(Steps) + 1,         \* connector: what it waits for
   timer     : {"none", "retry", "loading"},
   loading   : 1 .. Rulesets + 1,           \* loader: the ruleset it is at
   wait      : {"ack", "read", "unsubscribed", "done", "dead"},
   rulesets  : [1 .. Rulesets -> SUBSET Nat],
   known     : SUBSET (1 .. Rulesets),      \* that findRuleset finds
   end       : {"running", "aborted", "freed", "peeked"}]

\* wfx_add_oneshot_timer; wfx_lua_timeout, which calls a function later, or
\* resumes the coroutine that gives none; and the event, which is the last.
Armed(m, what) == [m EXCEPT !.timer = what]
Timeout(m, callback) == Armed(m, IF callback THEN "retry" ELSE "loading")
Fired(m) == Armed(m, "none")

-----------------------------------------------------------------------------
(* redis_command, and hiredis' __redisAsyncCommand below it.  Neither       *)
(* SUBSCRIBE nor UNSUBSCRIBE has a callback in the list of replies; a        *)
(* context about to be freed refuses commands, which redis_command ignores. *)
Issue(m, role, who, what) ==
  IF m.context[role] = "freed" THEN [m EXCEPT !.end = "freed"]
  ELSE IF m.context[role] = "closing" THEN m
  ELSE [m EXCEPT
         !.sent[role] = Append(@, what),
         !.callbacks[role] = IF what.cmd \in {"subscribe", "unsubscribe"} THEN @
                             ELSE Append(@, Callback(who, what))]

\* Redis:subscribe outside of a coroutine, and in one, which then waits.
Kind(ch) == IF ch = 0 THEN "plain" ELSE "wrapped"
Subscribed(m, ch) ==
  [Issue(m, "sub_ctx", "loader", Command("subscribe", ch)) EXCEPT
     !.channel[ch] = IF m.context["sub_ctx"] # "up" THEN @ ELSE Kind(ch)]
\* Until the client is ready it keeps what it is asked for.
Subscribe(m, ch) ==
  IF m.status = "ready" THEN Subscribed(m, ch)
  ELSE [m EXCEPT !.pending = Append(@, ch)]

\* Redis:unsubscribe in a coroutine, which waits.
Unsubscribe(m, n) ==
  Issue([m EXCEPT !.wait = "unsubscribed"], "sub_ctx", "loader",
        Command("unsubscribe", n))

\* setStatus("ready") sends what was asked for before.
Ready(m) ==
  FoldLeft(LAMBDA n, ch : IF n.end = "running" THEN Subscribed(n, ch) ELSE n,
           [m EXCEPT !.status = "ready", !.step = Len(Steps) + 1], m.pending)

\* The connector goes on to its step i.
Proceed(m, i) ==
  IF i > Len(Steps) THEN Ready(m)
  ELSE Issue([m EXCEPT !.step = i], Steps[i].role, "connector",
             Command(Steps[i].cmd, i))

\* Mutant: the context is freed although its callback is running.
CloseAtOnce(m, role, in) ==
  IF m.context[role] = "freed" THEN [m EXCEPT !.end = "freed"]
  ELSE [m EXCEPT !.context[role] = "freed", !.callbacks[role] = <<>>,
                 !.pointer[role] = FALSE]

\* redisAsyncFree: in a callback of the context, freeing it waits for its end.
\* No other coroutine waits for answers while the client connects.
Free(m, role, in) ==
  [m EXCEPT !.context[role] = IF role = in THEN "closing" ELSE "freed",
            !.callbacks[role] = IF role = in THEN @ ELSE <<>>]
\* redis_close, whose caller forgets the pointer.
Close(m, role, in) ==
  IF m.context[role] = "freed" THEN [m EXCEPT !.end = "freed"]
  ELSE Free([m EXCEPT !.pointer[role] = FALSE], role, in)

\* Mutant: no other attempt is made.
FailForGood(m, in) ==
  Close(Close([m EXCEPT !.status = "disconnected"], "ctx", in), "sub_ctx", in)

\* fail() in connect(): both are closed, and the timer is set to try again.
Fail(m, in) ==
  Timeout(Close(Close([m EXCEPT !.status = "disconnected"], "ctx", in),
                "sub_ctx", in), TRUE)

\* connector(), resumed with an answer, or NULL, in a callback of `in`.  What
\* HSET answers is not looked at.
Connector(m, answer, in) ==
  LET cmd == Steps[m.step].cmd IN
  CASE cmd = "hset" -> Proceed(m, m.step + 1)
    [] cmd # "hset" /\ answer.is \in {"null", "refusal"} -> Fail(m, in)
    [] cmd = "info" /\ answer.is = "busy" -> Timeout(m, FALSE)
    [] cmd = "exists" /\ answer.is = "yes" -> Proceed(m, m.step + 2)
    [] OTHER -> Proceed(m, m.step + 1)

\* The loader goes on to ruleset n, or has come to the end of them.
NextRuleset(m, n) ==
  IF n > Rulesets THEN [m EXCEPT !.loading = n, !.wait = "done"]
  ELSE Subscribe([m EXCEPT !.loading = n, !.wait = "ack"], n)

\* The coroutine of loadDeferredRedisRulesets, resumed with an answer.  It
\* unsubscribes from a ruleset that it cannot read, and would say so after.
Loader(m, answer) ==
  LET n == m.loading IN
  CASE m.wait = "ack" ->
         Issue([m EXCEPT !.wait = "read"], "ctx", "loader", Command("read", n))
    [] m.wait = "read" /\ answer.is = "rules" ->
         NextRuleset([m EXCEPT !.rulesets[n] = 1 .. answer.of,
                               !.known = @ \cup {n}], n + 1)
    [] m.wait = "read" /\ answer.is \in {"null", "refusal"} -> Unsubscribe(m, n)
    [] m.wait = "read" /\ answer.is \notin {"rules", "null", "refusal"} ->
         [m EXCEPT !.wait = "dead"]         \* it does not parse
    [] OTHER -> m

Resume(m, cb, answer, in) ==
  IF cb.who = "connector" THEN Connector(m, answer, in) ELSE Loader(m, answer)

\* Mutant: an update of a ruleset that is not loaded is ignored.
UpdaterTolerant(m, msg) ==
  IF msg.ch \notin m.known \/ msg.is # "create" THEN m
  ELSE [m EXCEPT !.rulesets[msg.ch] = @ \cup {msg.of}]
\* The handler that redisRulesetSubscribe gives to subscribe: a Lua error in
\* a callback that is a function aborts the process (lua_ngxcall).  Created
\* things that are no rules are ignored; a rule that the parser does not take
\* ends like an update.
Updater(m, msg) ==
  CASE msg.is = "create" /\ msg.ch \in m.known /\ msg.of \notin m.rulesets[msg.ch]
         -> [m EXCEPT !.rulesets[msg.ch] = @ \cup {msg.of}]
    [] msg.is = "other" /\ msg.ch \in m.known -> m
    [] OTHER -> [m EXCEPT !.end = "aborted"]

\* Mutant: the callback of a channel resumes the coroutine at every message.
AfterwardsWrapped(kind) == kind
\* The callback of a channel returns __subscribe_handler, which resume_lua
\* stores in its place: the coroutine is resumed once.
Afterwards(kind) == IF kind = "none" THEN "none" ELSE "plain"

\* What the server pushed, given to the callback of its channel if any.
Pushed(m, msg) ==
  LET kind == m.channel[msg.ch]
      done == [m EXCEPT !.channel[msg.ch] = Afterwards(kind)]
      n    == IF msg.is = "ack" THEN done ELSE Updater(done, msg)
  IN  IF kind = "none" THEN m
      ELSE IF msg.is = "unsubscribed" THEN [m EXCEPT !.channel[msg.ch] = "none"]
      ELSE IF kind = "wrapped" /\ n.end = "running" THEN Loader(n, msg) ELSE n

\* The end of an event: a context that was closed in its callback is freed
\* now, and one that was freed in it is used.
Settled(m, role) ==
  CASE m.end # "running" \/ m.context[role] = "up" -> m
    [] m.end = "running" /\ m.context[role] = "freed" -> [m EXCEPT !.end = "freed"]
    [] OTHER -> [m EXCEPT !.context[role] = "freed", !.callbacks[role] = <<>>]

-----------------------------------------------------------------------------
(* A new context whose events the manager gets; then Redis:connect, up to   *)
(* the first command of connector().  A name that does not resolve ends in a *)
(* Lua error, and the process with it.                                       *)
Attached(m, role) ==
  [m EXCEPT !.pointer[role] = TRUE, !.context[role] = "up", !.sent[role] = <<>>]
Connect(m) ==
  Proceed(Attached(Attached([m EXCEPT !.status = "connecting"], "ctx"), "sub_ctx"), 1)

\* connectRedises, then loadDeferredRedisRulesets.
Started ==
  Subscribe(Subscribe(Connect([status |-> "disconnected", pointer |-> [r \in Roles |-> FALSE],
           context |-> [r \in Roles |-> "freed"],
           callbacks |-> [r \in Roles |-> <<>>],
           channel |-> [ch \in Channels |-> "none"],
           sent |-> [r \in Roles |-> <<>>], pending |-> <<>>,
           step |-> 1, timer |-> "none", loading |-> 1, wait |-> "ack",
           rulesets |-> [n \in 1 .. Rulesets |-> {}], known |-> {},
           end |-> "running"]), 0), 1)

Init ==
  /\ c = Started
  /\ answers = [r \in Roles |-> <<>>]
  /\ subscribed = {}
  /\ rules = [n \in 1 .. Rulesets |-> 0]
  /\ budget = [losses |-> MaxLosses, troubles |-> MaxTroubles, writes |-> MaxWrites]
  /\ unheard = {}

\* What the server forgets with a connection that the client closed.
Hangup(role, m) == m.context[role] = "freed"
Server(m) ==
  /\ subscribed' = IF Hangup("sub_ctx", m) THEN {} ELSE subscribed

\* The timer of a failed attempt, or of a server that was loading its data.
\* The first runs on the Lua state of the coroutine that failed, which may have
\* been collected since; and connect() may find that a name does not resolve.
Retry ==
  /\ c.end = "running" /\ c.timer = "retry"
  /\ \/ c' = IF \E r \in Roles : c.pointer[r] THEN [c EXCEPT !.end = "aborted"]
             ELSE Connect(Fired(c))
     \/ c' = [c EXCEPT !.end = "aborted"]
  /\ answers' = [r \in Roles |-> <<>>]
  /\ subscribed' = {}
  /\ unheard' = {}
  /\ UNCHANGED <<rules, budget>>

AskAgain ==
  /\ c.end = "running" /\ c.timer = "loading"
  /\ c' = Proceed(Fired(c), c.step)
  /\ UNCHANGED <<answers, subscribed, rules, budget, unheard>>

\* The handlers of its events are those of the adapter.
Listening(role) == c.end = "running" /\ c.context[role] = "up"

\* redis_nginx_read_event looks at the context once more, which was freed if
\* the event ended its life: what it finds there may make it read again.
ReadAgain(m, role) ==
  {m} \cup IF m.end = "running" /\ m.context[role] = "freed"
             THEN {[m EXCEPT !.end = "peeked"]} ELSE {}

\* redisProcessCallbacks: an answer goes to the first callback that waits for
\* one, and only if there is none to the callback of a channel.
Receive(role) ==
  LET a  == Head(answers[role])
      cb == Head(c.callbacks[role])
      m  == IF c.callbacks[role] # <<>>
              THEN Settled(Resume([c EXCEPT !.callbacks[role] = Tail(@)], cb, a, role), role)
              ELSE Pushed(c, a)
  IN  /\ Listening(role) /\ answers[role] # <<>>
      /\ c' \in ReadAgain(m, role)
      /\ answers' = [r \in Roles |-> IF m.context[r] = "freed" THEN <<>>
                                     ELSE IF r = role THEN Tail(answers[r]) ELSE answers[r]]
      /\ Server(m)
      /\ UNCHANGED <<rules, budget, unheard>>

\* __redisAsyncFree: everyone who waits for an answer gets NULL, and so does
\* every channel, whose handler makes it an error.
NullReplies(m, role) ==
  LET told == IF m.callbacks[role] = <<>> THEN m
              ELSE Resume([m EXCEPT !.callbacks[role] = Tail(@)],
                          Head(m.callbacks[role]), [is |-> "null"], role)
  IN  IF role = "sub_ctx" /\ \E ch \in Channels : m.channel[ch] # "none"
        THEN [told EXCEPT !.end = IF @ = "running" THEN "aborted" ELSE @]
        ELSE told

\* __redisAsyncDisconnect.
Disconnected(m, role) ==
  Settled(NullReplies([m EXCEPT !.context[role] = "closing"], role), role)

\* The connection is lost, or was never made: redisAsyncHandleRead or Write
\* finds it.
Lose(role) ==
  LET m == Disconnected(c, role)
  IN  /\ Listening(role)
      /\ budget.losses > 0
      /\ budget' = [budget EXCEPT !.losses = @ - 1]
      /\ c' \in ReadAgain(m, role)
      /\ answers' = [r \in Roles |-> IF m.context[r] = "freed" THEN <<>> ELSE answers[r]]
      /\ Server(m)
      /\ unheard' = IF c.callbacks[role] = <<>>
                       \/ Head(c.callbacks[role]).what.cmd = "hset"
                     THEN unheard \cup {role} ELSE unheard
      /\ UNCHANGED rules

-----------------------------------------------------------------------------
(* The server, and those who write rulesets.                                 *)
Welcome(what) ==
  CASE what.cmd = "exists" -> {[is |-> "yes"], [is |-> "no"]}
    [] what.cmd = "read" -> {[is |-> "rules", of |-> rules[what.arg]]}
    [] what.cmd = "subscribe" -> {[is |-> "ack", ch |-> what.arg]}
    [] what.cmd = "unsubscribe" -> {[is |-> "unsubscribed", ch |-> what.arg]}
    [] OTHER -> {[is |-> "ok"]}
Unwelcome(what) ==
  CASE what.cmd = "info" -> {[is |-> "refusal"], [is |-> "busy"]}
    [] what.cmd = "read" -> {[is |-> "refusal"], [is |-> "garbage"]}
    [] what.cmd \in {"subscribe", "unsubscribe"} -> {}
    [] OTHER -> {[is |-> "refusal"]}

Execute(role) ==
  LET what == Head(c.sent[role])
  IN  /\ Listening(role) /\ c.sent[role] # <<>>
      /\ c' = [c EXCEPT !.sent[role] = Tail(@)]
      /\ \/ \E a \in Welcome(what) :
              answers' = [answers EXCEPT ![role] = Append(@, a)] /\ UNCHANGED budget
         \/ /\ budget.troubles > 0
            /\ budget' = [budget EXCEPT !.troubles = @ - 1]
            /\ \E a \in Unwelcome(what) :
                 answers' = [answers EXCEPT ![role] = Append(@, a)]
      /\ subscribed' = CASE what.cmd = "subscribe"   -> subscribed \cup {what.arg}
                         [] what.cmd = "unsubscribe" -> subscribed \ {what.arg}
                         [] OTHER                    -> subscribed
      /\ UNCHANGED <<rules, unheard>>

\* A script writes a rule, or changes one, and publishes it; or publishes what
\* else was created, a list or a limiter.
Published == {"create", "other", "update"}
Write(n, kind) ==
  /\ c.end = "running" /\ budget.writes > 0
  /\ budget' = [budget EXCEPT !.writes = @ - 1]
  /\ rules' = IF kind = "create" THEN [rules EXCEPT ![n] = @ + 1] ELSE rules
  /\ answers' = IF n \notin subscribed \/ c.context["sub_ctx"] = "freed" THEN answers
                ELSE [answers EXCEPT !["sub_ctx"] =
                        Append(@, [is |-> kind, ch |-> n, of |-> rules[n] + 1])]
  /\ UNCHANGED <<c, subscribed, unheard>>

Next ==
  \/ Retry \/ AskAgain
  \/ \E role \in Roles : Receive(role) \/ Lose(role) \/ Execute(role)
  \/ \E n \in 1 .. Rulesets, kind \in Published : Write(n, kind)

Spec == Init /\ [][Next]_vars
FairSpec ==
  /\ Spec
  /\ WF_vars(Retry) /\ WF_vars(AskAgain)
  /\ \A role \in Roles : WF_vars(Receive(role)) /\ WF_vars(Execute(role))

-----------------------------------------------------------------------------
TypeOK ==
  /\ c \in Client
  /\ subscribed \subseteq Channels
  /\ \A n \in 1 .. Rulesets : rules[n] \in Nat
  /\ unheard \subseteq Roles

\* The connection was lost when HSET was on its way: the command after it is
\* refused.
Refused ==
  c.step \in 2 .. Len(Steps) /\ Steps[c.step - 1].cmd = "hset" /\ "ctx" \in unheard

\* Commands on their way that have a callback, and answers that one waits for.
Asking(role) ==
  {i \in DOMAIN c.sent[role] : c.sent[role][i].cmd \notin {"subscribe", "unsubscribe"}}
Telling(role) ==
  {i \in DOMAIN answers[role] :
     answers[role][i].is \notin {"ack", "unsubscribed"} \cup Published}

(* Answers come in the order of the commands, though refused commands have  *)
(* none, subscriptions have other callbacks, and the callbacks of a context *)
(* that is freed run while its owner closes it: whoever is resumed gets the *)
(* answer to what he asked, and whoever waits will be resumed.  There are   *)
(* two exceptions: hiredis has no callback for UNSUBSCRIBE, so the loader    *)
(* never comes back from it, and the connector that loses its connection at *)
(* HSET waits for the answer to a command that was refused.                 *)
OwnAnswer ==
  c.end = "running" =>
    /\ TypeOK
    /\ \A role \in Roles :
         /\ \A i \in DOMAIN c.callbacks[role] :
              LET cb == c.callbacks[role][i]
              IN  IF cb.who = "connector"
                    THEN c.status = "connecting" /\ cb.what.arg = c.step
                    ELSE c.wait = "read" /\ cb.what.arg = c.loading
         /\ c.context[role] = "up" =>
              Len(c.callbacks[role]) = Cardinality(Asking(role)) + Cardinality(Telling(role))
    /\ LET asked(who) == \E role \in Roles : \E i \in DOMAIN c.callbacks[role] :
                           c.callbacks[role][i].who = who
       IN  /\ c.status = "connecting" /\ ~asked("connector") =>
                c.timer = "loading" \/ Refused
           /\ c.status = "disconnected" => c.timer = "retry"
           /\ c.wait = "read" => asked("loader")
           /\ c.wait = "ack" => c.status # "ready" \/ c.channel[c.loading] = "wrapped"

(* A context that was freed is used again, or freed again, only if before    *)
(* then some connection, this one or the other, was lost at a moment when    *)
(* nobody waited for an answer on it, or only for that of HSET: the client    *)
(* has no other way to know of a loss (no onDisconnect).  The last look of    *)
(* the read event at its context (ReadAgain) is counted apart.                *)
FreedIsUnheard == c.end = "freed" => unheard # {}

(* The loader subscribes before it reads, so that it misses no update: once  *)
(* a ruleset is loaded and what was published about it has arrived, the      *)
(* manager has every rule that is stored.  An update that arrives before the *)
(* ruleset is loaded, or that was read as well, aborts the manager.          *)
Agreement ==
  \A n \in c.known \cap subscribed :
    c.end = "running" /\ c.context["sub_ctx"] = "up" =>
      LET news == {i \in DOMAIN answers["sub_ctx"] :
                     answers["sub_ctx"][i].is = "create" /\ answers["sub_ctx"][i].ch = n}
      IN  c.rulesets[n] \cup {answers["sub_ctx"][i].of : i \in news} = 1 .. rules[n]

(* Whatever the server answers and whichever connections are lost, the       *)
(* client comes to be ready and the loader to its end, or to one of the ends  *)
(* named above.                                                              *)
Settles ==
  <>[](\/ c.end # "running"
       \/ Refused
       \/ c.status = "ready" /\ c.wait \in {"done", "dead", "unsubscribed"})
=============================================================================
