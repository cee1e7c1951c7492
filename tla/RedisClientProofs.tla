-------------------------- MODULE RedisClientProofs --------------------------
(***************************************************************************)
(* Proofs about the connection to Redis, for every number of greetings,    *)
(* scripts, rulesets, lost connections, refusals and writes: who waits for *)
(* an answer waits for his own, a freed context is used only if nobody was *)
(* told that it was lost, and a loaded ruleset has all that was published. *)
(*                                                                         *)
(* The invariant is stated of a client m, the answers a on their way, the  *)
(* subscriptions s, the stored rules r and the contexts u that were lost   *)
(* unheard, so that it can be stated of the client within an event too.    *)
(***************************************************************************)
EXTENDS RedisClient, SequenceTheorems, FiniteSetTheorems, TLAPS

USE DEF Published

(* What the server sends, and what of it goes to a callback in the list of   *)
(* replies.                                                                *)
Answer ==
  [is : {"ok", "refusal", "busy", "garbage", "yes", "no"}]
    \cup [is : {"rules"}, of : Nat]
    \cup [is : {"ack", "unsubscribed"}, ch : Channels]
    \cup [is : Published, ch : 1 .. Rulesets, of : Nat]
Tells(a) == a.is \notin {"ack", "unsubscribed"} \cup Published

Types(m, a, s, r, u) ==
  /\ m \in Client
  /\ a \in [Roles -> Seq(Answer)]
  /\ s \subseteq Channels
  /\ r \in [1 .. Rulesets -> Nat]
  /\ u \subseteq Roles

\* Before the client is ready the loader waits for its first subscription.
Waiting(m) ==
  /\ m.loading = 1 /\ m.wait = "ack" /\ m.known = {}
  /\ m.channel = [ch \in Channels |-> "none"]
  /\ m.pending = <<0, 1>>

\* Between two attempts both contexts are gone and the timer is set.
Closed(m) ==
  /\ Waiting(m)
  /\ m.timer = "retry"
  /\ m.context = [r \in Roles |-> "freed"]
  /\ m.callbacks = [r \in Roles |-> <<>>]

\* The command of the connector's step; and the HSET before it that was lost
\* with its connection, after which the connector waits for nothing.
Asked(m) == Command(Steps[m.step].cmd, m.step)
Missed(m, u) ==
  m.step \in 2 .. Len(Steps) /\ Steps[m.step - 1].cmd = "hset" /\ "ctx" \in u

(* The connector has one callback at most, for the command it is at, on the *)
(* context that the command is for; without it, it waits for the timer of a *)
(* server that was loading, or has missed the answer to HSET.               *)
Connecting(m, u) ==
  /\ Waiting(m)
  /\ m.step \in 1 .. Len(Steps)
  /\ m.timer \in {"none", "loading"}
  /\ \A r \in Roles : m.context[r] = "up" \/ (m.context[r] = "freed" /\ r \in u)
  /\ \A r \in Roles :
       \/ m.callbacks[r] = <<>>
       \/ /\ m.callbacks[r] = <<Callback("connector", Asked(m))>>
          /\ r = Steps[m.step].role
          /\ m.context[r] = "up" /\ m.timer = "none"
  /\ \/ m.callbacks[Steps[m.step].role] # <<>>
     \/ m.timer = "loading"
     \/ Missed(m, u)

\* What is asked on a context where every command has a callback, and there
\* is one callback at most.
Paired(m, r, a) ==
  /\ \A i \in DOMAIN a : Tells(a[i])
  /\ \/ m.callbacks[r] = <<>> /\ m.sent[r] = <<>> /\ a = <<>>
     \/ m.callbacks[r] # <<>> /\ m.sent[r] = <<m.callbacks[r][1].what>> /\ a = <<>>
     \/ m.callbacks[r] # <<>> /\ m.sent[r] = <<>> /\ Len(a) = 1

(* When the client is ready only the loader waits: for the acknowledgement  *)
(* of its ruleset, whose channel resumes it, or for the ruleset, on the list *)
(* of replies.  What it knows was acknowledged before.                      *)
Steady(m, u) ==
  /\ m.timer = "none"
  /\ m.pending = <<0, 1>>
  /\ m.context["sub_ctx"] = "up" /\ m.callbacks["sub_ctx"] = <<>>
  /\ \/ m.context["ctx"] = "up"
     \/ m.context["ctx"] = "freed" /\ ("ctx" \in u \/ m.wait = "unsubscribed")
  /\ \/ m.callbacks["ctx"] = <<>> /\ m.wait # "read"
     \/ /\ m.callbacks["ctx"] = <<Callback("loader", Command("read", m.loading))>>
        /\ m.wait = "read" /\ m.context["ctx"] = "up"
  /\ m.wait # "done" => m.loading \in 1 .. Rulesets
  /\ m.channel[0] = "plain"
  /\ \A ch \in Channels : m.channel[ch] = "wrapped" => ch = m.loading /\ m.wait = "ack"
  /\ m.wait = "ack" => m.channel[m.loading] = "wrapped"
  /\ m.wait = "read" => m.channel[m.loading] = "plain"
  /\ \A n \in m.known : m.channel[n] = "plain"
  /\ m.known \subseteq 1 .. m.loading - 1

\* What is on its way on the context of subscriptions.
Subs(m, a) ==
  /\ \A i \in DOMAIN m.sent["sub_ctx"] :
       LET w == m.sent["sub_ctx"][i]
       IN  \/ w.cmd = "subscribe" /\ w.arg = 0
           \/ w.cmd = "subscribe" /\ w.arg = m.loading /\ m.wait = "ack"
           \/ w.cmd = "unsubscribe" /\ w.arg = m.loading /\ m.wait = "unsubscribed"
  /\ \A i \in DOMAIN a :
       \/ a[i].is = "ack" /\ a[i].ch = 0
       \/ a[i].is = "ack" /\ a[i].ch = m.loading /\ m.wait = "ack"
       \/ a[i].is = "unsubscribed" /\ a[i].ch = m.loading /\ m.wait = "unsubscribed"
       \/ a[i].is \in Published
\* Nobody subscribes to a channel twice.
Once(m, a) ==
  LET w == m.sent["sub_ctx"]
  IN  /\ \A i, j \in DOMAIN w :
           /\ w[i].cmd = "subscribe" /\ w[j].cmd = "subscribe"
           /\ w[i].arg = w[j].arg /\ w[i].arg # 0
           => i = j
      /\ \A i, j \in DOMAIN a :
           a[i].is = "ack" /\ a[j].is = "ack" /\ a[i].ch = a[j].ch /\ a[i].ch # 0 => i = j
      /\ \A i \in DOMAIN w, j \in DOMAIN a :
           w[i].cmd = "subscribe" /\ w[i].arg # 0 /\ a[j].is = "ack" => a[j].ch # w[i].arg

(* What is on its way completes what the client knows; and completes what   *)
(* the server has read for it but the client has not yet got.               *)
News(a, n) == {a[i].of : i \in {j \in DOMAIN a : a[j].is = "create" /\ a[j].ch = n}}
Agrees(m, a, s, r) ==
  /\ \A n \in 1 .. Rulesets : News(a["sub_ctx"], n) \subseteq 1 .. r[n]
  /\ \A n \in m.known \cap s : m.rulesets[n] \cup News(a["sub_ctx"], n) = 1 .. r[n]
  /\ m.wait = "read" /\ m.loading \in s =>
       \A i \in DOMAIN a["ctx"] : a["ctx"][i].is = "rules" =>
          (1 .. a["ctx"][i].of) \cup News(a["sub_ctx"], m.loading) = 1 .. r[m.loading]

\* All of it, by the status of the client.
Good(m, a, s, r, u) ==
  /\ Types(m, a, s, r, u)
  /\ m.status = "disconnected" => Closed(m)
  /\ m.status = "connecting" =>
       /\ Connecting(m, u)
       /\ \A role \in Roles : m.context[role] = "up" => Paired(m, role, a[role])
  /\ m.status # "ready" => s = {}
  /\ m.status = "ready" =>
       /\ Steady(m, u)
       /\ m.context["ctx"] = "up" => Paired(m, "ctx", a["ctx"])
       /\ Subs(m, a["sub_ctx"])
       /\ Once(m, a["sub_ctx"])
       /\ Agrees(m, a, s, r)

\* A client that has ended is of no interest, unless it used a freed context.
Fine(m, a, s, r, u) ==
  /\ m.end = "running" => Good(m, a, s, r, u)
  /\ m.end = "freed" => u # {}

IInv == Fine(c, answers, subscribed, rules, unheard)

-----------------------------------------------------------------------------
Kinds == {"greeting", "info", "exists", "load", "hset"}
Place == [role : Roles, cmd : Kinds]

\* What connector() does: every command of it has a callback, and HSET and what
\* follows it are sent on the context of commands.
LEMMA TheSteps ==
  /\ Steps \in Seq(Place)
  /\ Len(Steps) \in Nat \ {0}
  /\ \A i \in 1 .. Len(Steps) :
       /\ Steps[i].role \in Roles /\ Steps[i].cmd \in Kinds
       /\ Steps[i].cmd = "hset" => Steps[i].role = "ctx"
       /\ Steps[i].cmd = "hset" /\ i < Len(Steps) => Steps[i + 1].role = "ctx"
<1> USE Sizes
<1> DEFINE A == Greeting("ctx")
           B == Greeting("sub_ctx")
           I == <<Step("ctx", "info")>>
           E == EachScript
           AB == A \o B
           ABI == AB \o I
<1>1. /\ A \in Seq(Place) /\ Len(A) = Greetings
      /\ \A i \in 1 .. Greetings : A[i].cmd = "greeting"
  BY DEF Greeting, Step, Place, Kinds, Roles
<1>2. /\ B \in Seq(Place) /\ Len(B) = Greetings
      /\ \A i \in 1 .. Greetings : B[i].cmd = "greeting"
  BY DEF Greeting, Step, Place, Kinds, Roles
<1>3. I \in Seq(Place) /\ Len(I) = 1 /\ I[1].cmd = "info" /\ I[1].role = "ctx"
  BY DEF Step, Place, Kinds, Roles
<1>4. /\ E \in Seq(Place) /\ Len(E) = 3 * Scripts
      /\ \A i \in 1 .. 3 * Scripts : E[i].role = "ctx"
  <2>1. \A i \in 1 .. 3 * Scripts : ((i - 1) % 3) + 1 \in 1 .. 3
    OBVIOUS
  <2>2. \A k \in 1 .. 3 : <<"exists", "load", "hset">>[k] \in Kinds
    BY DEF Kinds
  <2>3. \A i \in 1 .. 3 * Scripts :
          Step("ctx", <<"exists", "load", "hset">>[((i - 1) % 3) + 1]) \in Place
    BY <2>1, <2>2 DEF Step, Place, Roles
  <2> QED BY <2>3 DEF EachScript, Step
<1> HIDE DEF A, B, I, E
<1>5. /\ AB \in Seq(Place) /\ Len(AB) = 2 * Greetings
      /\ \A i \in 1 .. Len(AB) : AB[i].cmd = "greeting"
  BY <1>1, <1>2
<1> HIDE DEF AB
<1>6. /\ ABI \in Seq(Place) /\ Len(ABI) = 2 * Greetings + 1
      /\ \A i \in 1 .. Len(ABI) : ABI[i].cmd # "hset"
  <2>1. ABI \in Seq(Place) /\ Len(ABI) = Len(AB) + Len(I)
    BY <1>5, <1>3, ConcatProperties
  <2>2. ASSUME NEW i \in 1 .. Len(ABI) PROVE ABI[i].cmd # "hset"
    <3>1. i <= Len(AB) => ABI[i] = AB[i]
      BY <2>1, <1>5, <1>3
    <3>2. i > Len(AB) => ABI[i] = I[1]
      BY <2>1, <1>5, <1>3
    <3> QED BY <3>1, <3>2, <2>1, <1>5, <1>3
  <2> QED BY <2>1, <2>2, <1>5, <1>3
<1> HIDE DEF ABI
<1>7. Steps = ABI \o E
  BY DEF Steps, ABI, AB, A, B, I, E
<1>8. Steps \in Seq(Place) /\ Len(Steps) = 2 * Greetings + 1 + 3 * Scripts
  <2>1. Steps \in Seq(Place) /\ Len(Steps) = Len(ABI) + Len(E)
    BY <1>7, <1>6, <1>4, ConcatProperties
  <2> QED BY <2>1, <1>6, <1>4
<1>9. \A i \in 1 .. Len(Steps) : Steps[i] \in Place
  BY <1>8
<1>10. \A i \in 1 .. Len(Steps) :
         /\ i <= 2 * Greetings + 1 => Steps[i].cmd # "hset"
         /\ i > 2 * Greetings + 1 => Steps[i].role = "ctx"
  BY <1>7, <1>6, <1>4, <1>8
<1> QED BY <1>8, <1>9, <1>10 DEF Place

(* Subscribed one by one, and with the status set, what waited is sent.  The *)
(* fold of Ready is over two channels, and is unrolled here.                 *)
\* Ready folds over the two subscriptions that wait.
Step1(n, ch) == IF n.end = "running" THEN Subscribed(n, ch) ELSE n
Unready(m) == [m EXCEPT !.status = "ready", !.step = Len(Steps) + 1]
LEMMA ReadySubscribes ==
  ASSUME NEW m, m.pending = <<0, 1>>
  PROVE  Ready(m) = Step1(Step1(Unready(m), 0), 1)
<1> DEFINE B == Unready(m)
           W == DOMAIN <<0, 1>>
           Body(f) == [s \in SUBSET W |->
              IF s = {} THEN B ELSE Step1(f[s \ {Max(s)}], <<0, 1>>[Max(s)])]
           iter == CHOOSE f : f = Body(f)
           one == Step1(B, 0)
           g == [s \in SUBSET W |->
                   IF s = {} THEN B
                   ELSE IF s = {1} THEN one
                   ELSE IF s = {2} THEN Step1(B, 1)
                   ELSE Step1(one, 1)]
<1>1. Ready(m) = iter[W]
  BY DEF Ready, FoldLeft, MapThenFoldSet, Step1, Unready
<1>2. W = {1, 2}
  OBVIOUS
<1>3. Max({1}) = 1 /\ Max({2}) = 2 /\ Max({1, 2}) = 2
  BY DEF Max
<1>4. g = Body(g)
  <2>1. ASSUME NEW s \in SUBSET W PROVE g[s] = Body(g)[s]
    <3>1. s = {} \/ s = {1} \/ s = {2} \/ s = {1, 2}
      BY <1>2
    <3>2. CASE s = {}
      BY <3>2
    <3>3. CASE s = {1}
      <4>1. s \ {Max(s)} = {} /\ g[{}] = B /\ g[s] = one /\ <<0,1>>[Max(s)] = 0
        BY <3>3, <1>3, <1>2
      <4> QED BY <4>1, <3>3
    <3>4. CASE s = {2}
      <4>1. s \ {Max(s)} = {} /\ g[{}] = B /\ g[s] = Step1(B, 1) /\ <<0,1>>[Max(s)] = 1
        BY <3>4, <1>3, <1>2
      <4> QED BY <4>1, <3>4
    <3>5. CASE s = {1, 2}
      <4>1. s \ {Max(s)} = {1} /\ g[{1}] = one /\ g[s] = Step1(one, 1) /\ <<0,1>>[Max(s)] = 1
        BY <3>5, <1>3, <1>2
      <4> QED BY <4>1, <3>5
    <3> QED BY <3>1, <3>2, <3>3, <3>4, <3>5
  <2> QED BY <2>1
<1>5. iter = Body(iter)
  BY <1>4, Zenon
<1> HIDE DEF iter
<1>6. iter[{}] = B
  BY <1>5
<1>7. iter[{1}] = Step1(iter[{}], 0)
  <2>1. {1} \ {Max({1})} = {} /\ <<0, 1>>[Max({1})] = 0
    BY <1>3
  <2> QED BY <1>5, <2>1, <1>2
<1>8. iter[{1, 2}] = Step1(iter[{1}], 1)
  <2>1. {1, 2} \ {Max({1, 2})} = {1} /\ <<0, 1>>[Max({1, 2})] = 1
    BY <1>3
  <2> QED BY <1>5, <2>1, <1>2
<1> QED BY <1>1, <1>2, <1>6, <1>7, <1>8

\* The client with a command sent; with a channel subscribed to; and with both
\* subscriptions that waited for it to be ready.
Sent(m, role, what) == [m EXCEPT !.sent[role] = Append(@, what)]
Heard(m, ch) == [m EXCEPT !.sent["sub_ctx"] = Append(@, Command("subscribe", ch)), !.channel[ch] = Kind(ch)]
Awaiting(m) == Heard(Heard(Unready(m), 0), 1)
\* A subscription that is sent adds no callback to the list.
LEMMA IssueSub ==
  ASSUME NEW m \in Client, NEW who, NEW what, m.context["sub_ctx"] = "up",
         what.cmd \in {"subscribe", "unsubscribe"}
  PROVE  Issue(m, "sub_ctx", who, what) = Sent(m, "sub_ctx", what)
<1>1. [m.callbacks EXCEPT !["sub_ctx"] = @] = m.callbacks
  BY DEF Client, Roles
<1>2. Issue(m, "sub_ctx", who, what) = 
        [m EXCEPT !.sent["sub_ctx"] = Append(@, what), !.callbacks["sub_ctx"] = @]
  BY DEF Issue, Client
<1>3. [m EXCEPT !.sent["sub_ctx"] = Append(@, what), !.callbacks["sub_ctx"] = @] = Sent(m, "sub_ctx", what)
  BY <1>1 DEF Sent, Client
<1> QED BY <1>2, <1>3
\* The client keeps its type.
LEMMA SentType ==
  ASSUME NEW m \in Client, NEW role \in Roles, NEW what, what \in [cmd : Commands, arg : Nat]
  PROVE  Sent(m, role, what) \in Client
<1> DEFINE C == [cmd : Commands, arg : Nat]
<1> HIDE DEF C
<1>0. m.sent \in [Roles -> Seq(C)]
  BY DEF Client, C
<1>01. what \in C
  BY DEF C
<1>1. Append(m.sent[role], what) \in Seq(C)
  BY <1>0, <1>01
<1>2. [m.sent EXCEPT ![role] = Append(@, what)] \in [Roles -> Seq(C)]
  BY <1>0, <1>1
<1> QED BY <1>2 DEF Sent, Client, C
\* On a context that is up redis:subscribe is Heard.
LEMMA SubscribedUp ==
  ASSUME NEW m \in Client, NEW ch \in Channels, m.context["sub_ctx"] = "up"
  PROVE  Subscribed(m, ch) = Heard(m, ch)
<1>1. Issue(m, "sub_ctx", "loader", Command("subscribe", ch)) = Sent(m, "sub_ctx", Command("subscribe", ch))
  BY IssueSub DEF Command
<1>2. Subscribed(m, ch) = [Sent(m, "sub_ctx", Command("subscribe", ch)) EXCEPT !.channel[ch] = Kind(ch)]
  BY <1>1 DEF Subscribed
<1> QED BY <1>2 DEF Sent, Heard
\* The client keeps its type.
LEMMA HeardType ==
  ASSUME NEW m \in Client, NEW ch \in Channels
  PROVE  Heard(m, ch) \in Client
<1>1. Command("subscribe", ch) \in [cmd : Commands, arg : Nat]
  BY Sizes DEF Command, Commands, Channels
<1>2. Sent(m, "sub_ctx", Command("subscribe", ch)) \in Client
  BY <1>1, SentType DEF Roles
<1>3. Heard(m, ch) = [Sent(m, "sub_ctx", Command("subscribe", ch)) EXCEPT !.channel[ch] = Kind(ch)]
  BY DEF Sent, Heard
<1>4. ASSUME NEW n \in Client PROVE [n EXCEPT !.channel[ch] = Kind(ch)] \in Client
  <2>1. [n.channel EXCEPT ![ch] = Kind(ch)] \in [Channels -> {"none", "wrapped", "plain"}]
    BY DEF Client, Kind
  <2> QED BY <2>1 DEF Client
<1> QED BY <1>2, <1>3, <1>4

\* So it does with both subscriptions.
LEMMA AwaitingType ==
  ASSUME NEW m \in Client
  PROVE  Unready(m) \in Client /\ Heard(Unready(m), 0) \in Client /\ Awaiting(m) \in Client
<1>1. Len(Steps) + 1 \in 1 .. Len(Steps) + 1
  BY TheSteps
<1>2. Unready(m) \in Client
  BY <1>1 DEF Unready, Client
<1>3. 0 \in Channels /\ 1 \in Channels
  BY Sizes DEF Channels
<1> QED BY <1>2, <1>3, HeardType DEF Awaiting

\* A command that has a callback.
Called(m, role, who, what) ==
  [m EXCEPT !.sent[role] = Append(@, what), !.callbacks[role] = Append(@, Callback(who, what))]
\* On a context that is up any other command adds its callback.
LEMMA IssueCall ==
  ASSUME NEW m \in Client, NEW role \in Roles, NEW who, NEW what, m.context[role] = "up",
         what.cmd \notin {"subscribe", "unsubscribe"}
  PROVE  Issue(m, role, who, what) = Called(m, role, who, what)
BY DEF Issue, Called

\* The client keeps its type.
LEMMA CalledType ==
  ASSUME NEW m \in Client, NEW role \in Roles, NEW who \in {"connector", "loader"},
         NEW what, what \in [cmd : Commands, arg : Nat]
  PROVE  Called(m, role, who, what) \in Client
<1> DEFINE C == [who : {"connector", "loader"}, what : [cmd : Commands, arg : Nat]]
           cb == Callback(who, what)
<1>1. cb \in C
  BY DEF Callback
<1> HIDE DEF C, cb
<1>2. ASSUME NEW n \in Client
      PROVE  [n EXCEPT !.callbacks[role] = Append(@, cb)] \in Client
  <2>1. n.callbacks \in [Roles -> Seq(C)]
    BY DEF Client, C
  <2>2. [n.callbacks EXCEPT ![role] = Append(@, cb)] \in [Roles -> Seq(C)]
    BY <1>1, <2>1
  <2> QED BY <2>2 DEF Client, C
<1>4. Sent(m, role, what) \in Client
  BY SentType
<1>5. Called(m, role, who, what) =
        [Sent(m, role, what) EXCEPT !.callbacks[role] = Append(@, cb)]
  BY DEF Called, Sent, cb
<1> QED BY <1>2, <1>4, <1>5

\* A client that has just become ready, and the invariant of it.
Fresh(n, a, u) ==
  /\ n.status = "ready" /\ n.timer = "none" /\ n.pending = <<0, 1>>
  /\ n.loading = 1 /\ n.wait = "ack" /\ n.known = {}
  /\ n.context["sub_ctx"] = "up" /\ n.callbacks["sub_ctx"] = <<>>
  /\ n.context["ctx"] = "up" \/ (n.context["ctx"] = "freed" /\ "ctx" \in u)
  /\ n.callbacks["ctx"] = <<>>
  /\ n.sent["sub_ctx"] = <<Command("subscribe", 0), Command("subscribe", 1)>>
  /\ n.channel[0] = "plain" /\ n.channel[1] = "wrapped"
  /\ \A ch \in Channels \ {0, 1} : n.channel[ch] = "none"
  /\ n.context["ctx"] = "up" => n.sent["ctx"] = <<>> /\ a["ctx"] = <<>>
  /\ a["sub_ctx"] = <<>>

\* Nothing was acknowledged yet, so that there is little to say of it.
LEMMA FreshGood ==
  ASSUME NEW n \in Client, NEW a \in [Roles -> Seq(Answer)], NEW u \in SUBSET Roles,
         NEW r \in [1 .. Rulesets -> Nat], Fresh(n, a, u)
  PROVE  Good(n, a, {}, r, u)
<1> USE Sizes
<1>1. Types(n, a, {}, r, u)
  BY DEF Types
<1>2. Steady(n, u)
  BY DEF Steady, Fresh
<1>3. n.context["ctx"] = "up" => Paired(n, "ctx", a["ctx"])
  BY DEF Paired, Fresh
<1>4. Subs(n, a["sub_ctx"])
  BY DEF Subs, Fresh, Command
<1>5. Once(n, a["sub_ctx"])
  BY DEF Once, Fresh, Command
<1>6. \A k : News(a["sub_ctx"], k) = {}
  BY DEF News, Fresh
<1>7. Agrees(n, a, {}, r)
  BY <1>6 DEF Agrees, Fresh
<1> QED BY <1>1, <1>2, <1>3, <1>4, <1>5, <1>7 DEF Good, Fresh

\* setStatus("ready") sends both subscriptions.
LEMMA ReadyUp ==
  ASSUME NEW m \in Client, m.pending = <<0, 1>>, m.end = "running",
         m.context["sub_ctx"] = "up"
  PROVE  Ready(m) = Awaiting(m)
<1> DEFINE o == Unready(m)
           h == Heard(o, 0)
<1>1. o \in Client /\ h \in Client
  BY AwaitingType
<1>2. o.end = "running" /\ o.context["sub_ctx"] = "up"
  BY DEF Client, Unready
<1> HIDE DEF o
<1>3. h.end = "running" /\ h.context["sub_ctx"] = "up"
  BY <1>1, <1>2 DEF Heard, Client
<1>4. 0 \in Channels /\ 1 \in Channels
  BY Sizes DEF Channels
<1>5. Step1(o, 0) = h
  BY <1>1, <1>2, <1>4, SubscribedUp DEF Step1
<1>6. Step1(h, 1) = Heard(h, 1)
  BY <1>1, <1>3, <1>4, SubscribedUp DEF Step1
<1> QED BY <1>5, <1>6, ReadySubscribes DEF Awaiting, o

\* If the context of subscriptions was lost meanwhile, it is used.
LEMMA ReadyFreed ==
  ASSUME NEW m \in Client, m.pending = <<0, 1>>, m.end = "running",
         m.context["sub_ctx"] = "freed"
  PROVE  Ready(m).end = "freed"
<1> DEFINE b == Unready(m)
<1>1. b.end = "running" /\ b.context["sub_ctx"] = "freed"
  BY DEF Client, Unready
<1>2. Step1(b, 0).end = "freed"
  BY <1>1, AwaitingType DEF Step1, Subscribed, Issue, Client
<1>3. Step1(Step1(b, 0), 1).end = "freed"
  BY <1>2 DEF Step1
<1> QED BY ReadySubscribes, <1>3

\* The connector between two commands, when nothing is on its way.
Between(m, a, u) ==
  /\ m.status = "connecting" /\ m.end = "running" /\ m.timer = "none"
  /\ Waiting(m)
  /\ \A role \in Roles :
       /\ m.callbacks[role] = <<>>
       /\ m.context[role] = "up" \/ (m.context[role] = "freed" /\ role \in u)
       /\ m.context[role] = "up" => m.sent[role] = <<>> /\ a[role] = <<>>

\* The connector has sent a command and waits for its answer.
Sole(p, a, u) ==
  LET role == Steps[p.step].role
  IN  /\ p.status = "connecting" /\ p.end = "running" /\ p.timer = "none"
      /\ p.step \in 1 .. Len(Steps)
      /\ Waiting(p)
      /\ p.context[role] = "up" /\ a[role] = <<>>
      /\ p.callbacks[role] = <<Callback("connector", Asked(p))>>
      /\ p.sent[role] = <<Asked(p)>>
      /\ \A o \in Roles \ {role} :
           /\ p.callbacks[o] = <<>>
           /\ p.context[o] = "up" \/ (p.context[o] = "freed" /\ o \in u)
           /\ p.context[o] = "up" => p.sent[o] = <<>> /\ a[o] = <<>>

\* The one callback is that of the one command.
LEMMA SoleFine ==
  ASSUME NEW p \in Client, NEW a \in [Roles -> Seq(Answer)], NEW u \in SUBSET Roles,
         NEW r \in [1 .. Rulesets -> Nat], Sole(p, a, u)
  PROVE  Fine(p, a, {}, r, u)
<1> DEFINE role == Steps[p.step].role
<1>1. role \in Roles
  BY TheSteps DEF Sole
<1>2. Connecting(p, u)
  <2>1. \A o \in Roles : p.context[o] = "up" \/ (p.context[o] = "freed" /\ o \in u)
    BY DEF Sole
  <2>2. \A o \in Roles :
          \/ p.callbacks[o] = <<>>
          \/ /\ p.callbacks[o] = <<Callback("connector", Asked(p))>>
             /\ o = Steps[p.step].role
             /\ p.context[o] = "up" /\ p.timer = "none"
    BY DEF Sole
  <2>3. p.callbacks[Steps[p.step].role] # <<>>
    BY DEF Sole
  <2> QED BY <2>1, <2>2, <2>3 DEF Connecting, Sole
<1>3. ASSUME NEW o \in Roles, p.context[o] = "up" PROVE Paired(p, o, a[o])
  <2>1. a[o] = <<>>
    BY <1>3 DEF Sole
  <2>2. CASE o = role
    BY <2>1, <2>2 DEF Paired, Callback, Sole
  <2>3. CASE o # role
    BY <2>1, <2>3, <1>3 DEF Paired, Sole
  <2> QED BY <2>2, <2>3
<1>4. Types(p, a, {}, r, u)
  BY DEF Types
<1>5. p.status = "connecting" /\ p.end = "running"
  BY DEF Sole
<1>6. Good(p, a, {}, r, u)
  BY <1>2, <1>3, <1>4, <1>5 DEF Good
<1> QED BY <1>5, <1>6 DEF Fine

\* The connector goes on to another command.  If its context was lost it was
\* lost unheard.
LEMMA NextCommand ==
  ASSUME NEW m \in Client, NEW a \in [Roles -> Seq(Answer)], NEW u \in SUBSET Roles,
         NEW r \in [1 .. Rulesets -> Nat], Between(m, a, u),
         NEW j \in 1 .. Len(Steps)
  PROVE  Fine(Proceed(m, j), a, {}, r, u)
<1> DEFINE role == Steps[j].role
           what == Command(Steps[j].cmd, j)
           n == [m EXCEPT !.step = j]
           p == Proceed(m, j)
<1>1. role \in Roles /\ Steps[j].cmd \in Kinds
  BY TheSteps
<1>2. n \in Client
  <2>1. j \in 1 .. Len(Steps) + 1
    BY TheSteps
  <2> QED BY <2>1 DEF Client
<1>3. p = Issue(n, role, "connector", what)
  BY TheSteps DEF Proceed
<1>4. what \in [cmd : Commands, arg : Nat] /\ what.cmd \notin {"subscribe", "unsubscribe"}
  BY <1>1, TheSteps DEF Command, Commands, Kinds
<1>5. Between(n, a, u)
  BY DEF Between, Waiting, Client
<1>6. n.step = j
  BY DEF Client
<1>7. CASE n.context[role] = "freed"
  <2>1. p.end = "freed"
    BY <1>3, <1>7, <1>2 DEF Issue, Client
  <2>2. u # {}
    BY <1>5, <1>1, <1>7 DEF Between
  <2> QED BY <2>1, <2>2 DEF Fine
<1>8. CASE n.context[role] = "up"
  <2>1. p = Called(n, role, "connector", what)
    BY <1>2, <1>3, <1>4, <1>1, <1>8, IssueCall
  <2>2. p \in Client
    BY <2>1, <1>2, <1>4, <1>1, CalledType
  <2> HIDE DEF n, p, role, what
  <2>3. /\ p.status = n.status /\ p.end = n.end /\ p.timer = n.timer /\ p.step = n.step
        /\ p.loading = n.loading /\ p.wait = n.wait /\ p.known = n.known
        /\ p.channel = n.channel /\ p.pending = n.pending /\ p.context = n.context
    BY <2>1, <1>2 DEF Called, Client
  <2>4. /\ p.callbacks = [n.callbacks EXCEPT ![role] = Append(@, Callback("connector", what))]
        /\ p.sent = [n.sent EXCEPT ![role] = Append(@, what)]
    BY <2>1, <1>2 DEF Called, Client
  <2>5. /\ n.callbacks \in [Roles -> Seq([who : {"connector", "loader"}, what : [cmd : Commands, arg : Nat]])]
        /\ n.sent \in [Roles -> Seq([cmd : Commands, arg : Nat])]
    BY <1>2 DEF Client
  <2>6. /\ p.callbacks[role] = <<Callback("connector", what)>> /\ p.sent[role] = <<what>>
        /\ \A o \in Roles \ {role} : p.callbacks[o] = <<>> /\ p.sent[o] = n.sent[o]
    <3>1. n.callbacks[role] = <<>> /\ n.sent[role] = <<>>
      BY <1>1, <1>5, <1>8 DEF Between, role
    <3>2. \A o \in Roles : n.callbacks[o] = <<>>
      BY <1>5 DEF Between
    <3>3. \A x : Append(<<>>, x) = <<x>>
      OBVIOUS
    <3>4. role \in Roles
      BY <1>1 DEF role
    <3>5. /\ p.callbacks[role] = Append(n.callbacks[role], Callback("connector", what))
          /\ p.sent[role] = Append(n.sent[role], what)
          /\ \A o \in Roles \ {role} : p.callbacks[o] = n.callbacks[o] /\ p.sent[o] = n.sent[o]
      BY <2>4, <2>5, <3>4
    <3> QED BY <3>1, <3>2, <3>3, <3>5
  <2>7. Asked(p) = what /\ Steps[p.step].role = role
    BY <2>3, <1>6 DEF Asked, what, role
  <2>8. Sole(p, a, u)
    <3>1. Waiting(p)
      BY <2>3, <1>5 DEF Waiting, Between
    <3>2. p.status = "connecting" /\ p.end = "running" /\ p.timer = "none" /\ p.step = j
      BY <2>3, <1>5, <1>6 DEF Between
    <3>3. p.context[role] = "up" /\ a[role] = <<>>
      BY <2>3, <1>1, <1>5, <1>8 DEF Between, role
    <3>4. ASSUME NEW o \in Roles \ {role}
          PROVE  /\ p.callbacks[o] = <<>>
                 /\ p.context[o] = "up" \/ (p.context[o] = "freed" /\ o \in u)
                 /\ p.context[o] = "up" => p.sent[o] = <<>> /\ a[o] = <<>>
      BY <2>3, <2>6, <1>5 DEF Between
    <3> QED BY <3>1, <3>2, <3>3, <3>4, <2>6, <2>7 DEF Sole
  <2>9. Fine(p, a, {}, r, u)
    BY <2>2, <2>8, SoleFine
  <2> QED BY <2>9 DEF p
<1> QED BY <1>7, <1>8, <1>5, <1>1 DEF Between

\* What the subscriptions change, field by field.
LEMMA AwaitingIs ==
  ASSUME NEW m \in Client, Waiting(m), m.end = "running", m.sent["sub_ctx"] = <<>>
  PROVE  LET p == Awaiting(m) IN
         /\ p \in Client /\ p.status = "ready" /\ p.end = "running" /\ p.timer = m.timer
         /\ p.pending = <<0, 1>> /\ p.loading = 1 /\ p.wait = "ack" /\ p.known = {}
         /\ p.context = m.context /\ p.callbacks = m.callbacks
         /\ p.sent["sub_ctx"] = <<Command("subscribe", 0), Command("subscribe", 1)>>
         /\ p.sent["ctx"] = m.sent["ctx"]
         /\ p.channel[0] = "plain" /\ p.channel[1] = "wrapped"
         /\ \A ch \in Channels \ {0, 1} : p.channel[ch] = "none"
<1> USE Sizes DEF Roles
<1> DEFINE p == Awaiting(m)
           o == Unready(m)
           h == Heard(o, 0)
<1>1. p \in Client /\ o \in Client /\ h \in Client
  BY AwaitingType
<1>2. /\ o.end = "running" /\ o.status = "ready" /\ o.timer = m.timer /\ o.pending = <<0, 1>>
      /\ o.loading = 1 /\ o.wait = "ack" /\ o.known = {} /\ o.context = m.context
      /\ o.callbacks = m.callbacks /\ o.sent = m.sent /\ o.channel = m.channel
  BY DEF Unready, Client, Waiting
<1> HIDE DEF o
<1>3. /\ h.end = o.end /\ h.status = o.status /\ h.timer = o.timer /\ h.pending = o.pending
      /\ h.loading = o.loading /\ h.wait = o.wait /\ h.known = o.known
      /\ h.context = o.context /\ h.callbacks = o.callbacks
      /\ h.sent = [o.sent EXCEPT !["sub_ctx"] = Append(@, Command("subscribe", 0))]
      /\ h.channel = [o.channel EXCEPT ![0] = "plain"]
  BY <1>1 DEF Heard, Client, Kind
<1> HIDE DEF h
<1>4. p = Heard(h, 1)
  BY DEF Awaiting, h, o
<1> HIDE DEF p
<1>5. /\ p.end = h.end /\ p.status = h.status /\ p.timer = h.timer /\ p.pending = h.pending
      /\ p.loading = h.loading /\ p.wait = h.wait /\ p.known = h.known
      /\ p.context = h.context /\ p.callbacks = h.callbacks
      /\ p.sent = [h.sent EXCEPT !["sub_ctx"] = Append(@, Command("subscribe", 1))]
      /\ p.channel = [h.channel EXCEPT ![1] = "wrapped"]
  BY <1>1, <1>4 DEF Heard, Client, Kind
<1>6. /\ o.sent \in [Roles -> Seq([cmd : Commands, arg : Nat])]
      /\ DOMAIN o.channel = Channels /\ 0 \in Channels /\ 1 \in Channels
  BY <1>1 DEF Client, Channels
<1>7. /\ p.sent["sub_ctx"] = <<Command("subscribe", 0), Command("subscribe", 1)>>
      /\ p.sent["ctx"] = o.sent["ctx"]
  BY <1>2, <1>3, <1>5, <1>6
<1>8. /\ p.channel[0] = "plain" /\ p.channel[1] = "wrapped"
      /\ \A ch \in Channels \ {0, 1} : p.channel[ch] = m.channel[ch]
  BY <1>2, <1>3, <1>5, <1>6
<1>9. \A ch \in Channels : m.channel[ch] = "none"
  BY DEF Waiting
<1>10. p.context = m.context /\ p.callbacks = m.callbacks
  BY <1>2, <1>3, <1>5
<1>11. /\ p.end = "running" /\ p.status = "ready" /\ p.timer = m.timer /\ p.pending = <<0, 1>>
       /\ p.loading = 1 /\ p.wait = "ack" /\ p.known = {}
  BY <1>2, <1>3, <1>5
<1> QED BY <1>1, <1>2, <1>7, <1>8, <1>9, <1>10, <1>11 DEF p

\* The connector comes to its end.
LEMMA ReadyFine ==
  ASSUME NEW m \in Client, NEW a \in [Roles -> Seq(Answer)], NEW u \in SUBSET Roles,
         NEW r \in [1 .. Rulesets -> Nat], Between(m, a, u)
  PROVE  Fine(Ready(m), a, {}, r, u)
<1> DEFINE p == Ready(m)
<1> USE Sizes DEF Roles
<1>1. m.pending = <<0, 1>> /\ m.end = "running"
  BY DEF Between, Waiting
<1>2. CASE m.context["sub_ctx"] = "freed"
  <2>1. p.end = "freed"
    BY <1>1, <1>2, ReadyFreed
  <2>2. u # {}
    BY <1>2 DEF Between
  <2> QED BY <2>1, <2>2 DEF Fine
<1>3. CASE m.context["sub_ctx"] = "up"
  <2>1. p = Awaiting(m)
    BY <1>1, <1>3, ReadyUp
  <2> HIDE DEF p
  <2>2. m.sent["sub_ctx"] = <<>> /\ Waiting(m)
    BY <1>3 DEF Between
  <2>3. Fresh(p, a, u) /\ p.end = "running" /\ p \in Client
    BY <1>1, <1>3, <2>1, <2>2, AwaitingIs DEF Fresh, Between
  <2>4. Good(p, a, {}, r, u)
    BY <2>3, FreshGood
  <2>5. Fine(p, a, {}, r, u)
    BY <2>3, <2>4 DEF Fine
  <2> QED BY <2>5 DEF p
<1> QED BY <1>2, <1>3 DEF Between

\* So the connector may go on from nothing on its way.
LEMMA ProceedFine ==
  ASSUME NEW m \in Client, NEW a \in [Roles -> Seq(Answer)], NEW u \in SUBSET Roles,
         NEW r \in [1 .. Rulesets -> Nat], Between(m, a, u), NEW j \in Nat \ {0}
  PROVE  Fine(Proceed(m, j), a, {}, r, u)
<1>1. CASE j <= Len(Steps)
  BY <1>1, TheSteps, NextCommand
<1>2. CASE j > Len(Steps)
  BY <1>2, TheSteps, ReadyFine DEF Proceed
<1> QED BY <1>1, <1>2, TheSteps

\* Both contexts are new.
Renewed(m) == Attached(Attached([m EXCEPT !.status = "connecting"], "ctx"), "sub_ctx")

\* What that changes, field by field.
LEMMA RenewedFields ==
  ASSUME NEW m \in Client
  PROVE  /\ Renewed(m) \in Client
         /\ Renewed(m).status = "connecting"
         /\ Renewed(m).context = [role \in Roles |-> "up"]
         /\ Renewed(m).sent = [role \in Roles |-> <<>>]
         /\ Renewed(m).callbacks = m.callbacks /\ Renewed(m).channel = m.channel
         /\ Renewed(m).pending = m.pending /\ Renewed(m).timer = m.timer
         /\ Renewed(m).loading = m.loading /\ Renewed(m).wait = m.wait
         /\ Renewed(m).known = m.known /\ Renewed(m).end = m.end
<1>1. ASSUME NEW n \in Client, NEW role \in Roles
      PROVE  /\ Attached(n, role) \in Client
             /\ Attached(n, role).context = [n.context EXCEPT ![role] = "up"]
             /\ Attached(n, role).sent = [n.sent EXCEPT ![role] = <<>>]
             /\ Attached(n, role).callbacks = n.callbacks
             /\ Attached(n, role).channel = n.channel
             /\ Attached(n, role).pending = n.pending /\ Attached(n, role).timer = n.timer
             /\ Attached(n, role).loading = n.loading /\ Attached(n, role).wait = n.wait
             /\ Attached(n, role).known = n.known /\ Attached(n, role).end = n.end
             /\ Attached(n, role).status = n.status
  <2>1. /\ [n.context EXCEPT ![role] = "up"] \in [Roles -> {"up", "closing", "freed"}]
        /\ [n.pointer EXCEPT ![role] = TRUE] \in [Roles -> BOOLEAN]
    BY DEF Client
  <2> DEFINE C == [cmd : Commands, arg : Nat]
  <2>2. n.sent \in [Roles -> Seq(C)]
    BY DEF Client
  <2> HIDE DEF C
  <2>3. [n.sent EXCEPT ![role] = <<>>] \in [Roles -> Seq(C)]
    BY <2>2
  <2> QED BY <2>1, <2>3 DEF Attached, Client, C
<1> DEFINE n == [m EXCEPT !.status = "connecting"]
<1>2. /\ n \in Client /\ n.status = "connecting"
      /\ n.callbacks = m.callbacks /\ n.channel = m.channel /\ n.pending = m.pending
      /\ n.timer = m.timer /\ n.loading = m.loading /\ n.wait = m.wait
      /\ n.known = m.known /\ n.end = m.end
  BY DEF Client
<1> HIDE DEF n
<1> DEFINE o == Attached(n, "ctx")
<1>3. o \in Client
  BY <1>1, <1>2 DEF Roles
<1> HIDE DEF o
<1>4. Renewed(m) = Attached(o, "sub_ctx")
  BY DEF Renewed, o, n
<1>5. /\ DOMAIN n.context = Roles /\ DOMAIN n.sent = Roles
  BY <1>2 DEF Client
<1>6. /\ o.context = [n.context EXCEPT !["ctx"] = "up"]
      /\ o.sent = [n.sent EXCEPT !["ctx"] = <<>>]
  BY <1>1, <1>2 DEF o, Roles
<1>7. /\ Renewed(m).context = [o.context EXCEPT !["sub_ctx"] = "up"]
      /\ Renewed(m).sent = [o.sent EXCEPT !["sub_ctx"] = <<>>]
      /\ Renewed(m) \in Client
  BY <1>1, <1>3, <1>4 DEF Roles
<1>8. /\ o.status = n.status /\ o.callbacks = n.callbacks /\ o.channel = n.channel
      /\ o.pending = n.pending /\ o.timer = n.timer /\ o.loading = n.loading
      /\ o.wait = n.wait /\ o.known = n.known /\ o.end = n.end
  BY <1>1, <1>2 DEF o, Roles
<1>9. LET q == Renewed(m) IN
      /\ q.status = o.status /\ q.callbacks = o.callbacks /\ q.channel = o.channel
      /\ q.pending = o.pending /\ q.timer = o.timer /\ q.loading = o.loading
      /\ q.wait = o.wait /\ q.known = o.known /\ q.end = o.end
  BY <1>1, <1>3, <1>4 DEF Roles
<1>10. Renewed(m).context = [role \in Roles |-> "up"]
  BY <1>5, <1>6, <1>7 DEF Roles
<1>11. Renewed(m).sent = [role \in Roles |-> <<>>]
  BY <1>5, <1>6, <1>7 DEF Roles
<1> QED BY <1>2, <1>7, <1>8, <1>9, <1>10, <1>11

Nothing == [role \in Roles |-> <<>>]

\* An attempt begins with nothing on its way.
LEMMA ConnectFine ==
  ASSUME NEW m \in Client, NEW u \in SUBSET Roles, NEW r \in [1 .. Rulesets -> Nat],
         Waiting(m), m.callbacks = Nothing, m.timer = "none", m.end = "running"
  PROVE  Fine(Connect(m), Nothing, {}, r, u)
<1>1. Renewed(m) \in Client
  BY RenewedFields
<1>2. Nothing \in [Roles -> Seq(Answer)]
  BY DEF Nothing
<1>3. Between(Renewed(m), Nothing, u)
  BY RenewedFields DEF Between, Waiting, Nothing
<1>4. Fine(Proceed(Renewed(m), 1), Nothing, {}, r, u)
  BY <1>1, <1>2, <1>3, ProceedFine
<1> QED BY <1>4 DEF Connect, Renewed

\* The first attempt, and the two subscriptions that wait for it.
LEMMA InitFine == Init => IInv
<1> USE Sizes
<1> SUFFICES ASSUME Init PROVE IInv
  OBVIOUS
<1> DEFINE z == [status |-> "disconnected", pointer |-> [role \in Roles |-> FALSE],
             context |-> [role \in Roles |-> "freed"],
             callbacks |-> [role \in Roles |-> <<>>],
             channel |-> [ch \in Channels |-> "none"],
             sent |-> [role \in Roles |-> <<>>], pending |-> <<>>,
             step |-> 1, timer |-> "none", loading |-> 1, wait |-> "ack",
             rulesets |-> [n \in 1 .. Rulesets |-> {}], known |-> {},
             end |-> "running"]
           role == Steps[1].role
           what == Command(Steps[1].cmd, 1)
           x == [Renewed(z) EXCEPT !.step = 1]
           y == Called(x, role, "connector", what)
           p == Started
<1>1. 0 \in Channels /\ 1 \in Channels
  BY DEF Channels
<1>2. z \in Client
  <2>1. 1 \in 1 .. Len(Steps) + 1 /\ 1 \in 1 .. Rulesets + 1
    BY TheSteps
  <2>2. [n \in 1 .. Rulesets |-> {}] \in [1 .. Rulesets -> SUBSET Nat]
    OBVIOUS
  <2> QED BY <2>1, <2>2 DEF Client
<1>3. /\ z.channel = [ch \in Channels |-> "none"] /\ z.callbacks = [o \in Roles |-> <<>>]
      /\ z.pending = <<>> /\ z.timer = "none" /\ z.loading = 1 /\ z.wait = "ack"
      /\ z.known = {} /\ z.end = "running"
  OBVIOUS
<1>4. p = Subscribe(Subscribe(Connect(z), 0), 1)
  BY DEF Started
<1> HIDE DEF z, p
<1>5. /\ role \in Roles /\ Steps[1].cmd \in Kinds
      /\ 1 \in 1 .. Len(Steps) /\ 1 \in 1 .. Len(Steps) + 1
  BY TheSteps
<1>6. what \in [cmd : Commands, arg : Nat] /\ what.cmd \notin {"subscribe", "unsubscribe"}
  BY <1>5 DEF Command, Commands, Kinds
<1>7. x \in Client
  <2>1. Renewed(z) \in Client
    BY <1>2, RenewedFields
  <2> QED BY <2>1, <1>5 DEF Client
<1>8. /\ x.status = "connecting" /\ x.end = "running" /\ x.timer = "none" /\ x.step = 1
      /\ x.pending = <<>> /\ x.loading = 1 /\ x.wait = "ack" /\ x.known = {}
      /\ x.context = [o \in Roles |-> "up"] /\ x.sent = [o \in Roles |-> <<>>]
      /\ x.callbacks = [o \in Roles |-> <<>>] /\ x.channel = [ch \in Channels |-> "none"]
  <2> DEFINE v == Renewed(z)
  <2>1. v \in Client
    BY <1>2, RenewedFields
  <2>2. /\ v.status = "connecting" /\ v.end = "running" /\ v.timer = "none"
        /\ v.pending = <<>> /\ v.loading = 1 /\ v.wait = "ack" /\ v.known = {}
        /\ v.context = [o \in Roles |-> "up"] /\ v.sent = [o \in Roles |-> <<>>]
        /\ v.callbacks = [o \in Roles |-> <<>>] /\ v.channel = [ch \in Channels |-> "none"]
    BY <1>2, <1>3, RenewedFields
  <2>3. x = [v EXCEPT !.step = 1]
    OBVIOUS
  <2> HIDE DEF v, x
  <2> QED BY <2>1, <2>2, <2>3 DEF Client
<1>9. Connect(z) = y /\ y \in Client
  <2>1. Connect(z) = Proceed(Renewed(z), 1)
    BY DEF Connect, Renewed
  <2>2. Proceed(Renewed(z), 1) = Issue(x, role, "connector", what)
    BY <1>5, TheSteps DEF Proceed
  <2>3. x.context[role] = "up"
    BY <1>5, <1>8
  <2> HIDE DEF x, role, what
  <2>4. Issue(x, role, "connector", what) = y
    BY <2>3, <1>5, <1>6, <1>7, IssueCall
  <2> QED BY <2>1, <2>2, <2>4, <1>5, <1>6, <1>7, CalledType
<1> HIDE DEF x
<1>10. /\ y.status = x.status /\ y.end = x.end /\ y.timer = x.timer /\ y.step = x.step
       /\ y.pending = x.pending /\ y.loading = x.loading /\ y.wait = x.wait
       /\ y.known = x.known /\ y.context = x.context /\ y.channel = x.channel
       /\ y.sent = [x.sent EXCEPT ![role] = Append(@, what)]
       /\ y.callbacks = [x.callbacks EXCEPT ![role] = Append(@, Callback("connector", what))]
  BY <1>7 DEF Called, Client
<1> HIDE DEF y
<1> DEFINE v == [y EXCEPT !.pending = Append(@, 0)]
<1>11. /\ Subscribe(y, 0) = v /\ v \in Client /\ v.status = "connecting" /\ v.pending = <<0>>
  <2>1. y.status = "connecting" /\ y.pending = <<>>
    BY <1>8, <1>10
  <2>2. Subscribe(y, 0) = v
    BY <2>1 DEF Subscribe
  <2>3. Append(<<>>, 0) = <<0>> /\ <<0>> \in Seq(Channels)
    BY <1>1
  <2>4. v = [y EXCEPT !.pending = <<0>>]
    BY <2>1, <2>3, <1>9 DEF Client
  <2> HIDE DEF v
  <2>5. v \in Client
    BY <2>3, <2>4, <1>9 DEF Client
  <2>6. v.status = "connecting" /\ v.pending = <<0>>
    BY <2>1, <2>4, <1>9 DEF Client
  <2> QED BY <2>2, <2>5, <2>6
<1> HIDE DEF v
<1>12. p = [v EXCEPT !.pending = <<0, 1>>]
  <2>1. Append(<<0>>, 1) = <<0, 1>>
    <3>1. <<0>> \in Seq(Nat) /\ Append(<<0>>, 1) \in Seq(Nat) /\ <<0, 1>> \in Seq(Nat)
      OBVIOUS
    <3>2. Len(Append(<<0>>, 1)) = 2 /\ Append(<<0>>, 1)[1] = 0 /\ Append(<<0>>, 1)[2] = 1
      OBVIOUS
    <3>3. \A i \in 1 .. 2 : Append(<<0>>, 1)[i] = <<0, 1>>[i]
      BY <3>2
    <3> QED BY <3>1, <3>2, <3>3, SeqEqual
  <2>2. Subscribe(v, 1) = [v EXCEPT !.pending = Append(@, 1)]
    BY <1>11 DEF Subscribe
  <2> QED BY <2>1, <2>2, <1>4, <1>9, <1>11 DEF Client
<1>13. p \in Client
  <2>1. <<0, 1>> \in Seq(Channels)
    BY <1>1
  <2> QED BY <2>1, <1>11, <1>12 DEF Client
<1>14. /\ p.status = y.status /\ p.end = y.end /\ p.timer = y.timer /\ p.step = y.step
       /\ p.loading = y.loading /\ p.wait = y.wait /\ p.pending = <<0, 1>>
       /\ p.known = y.known /\ p.context = y.context /\ p.channel = y.channel
       /\ p.sent = y.sent /\ p.callbacks = y.callbacks
  <2>1. /\ v.status = y.status /\ v.end = y.end /\ v.timer = y.timer /\ v.step = y.step
        /\ v.loading = y.loading /\ v.wait = y.wait
        /\ v.known = y.known /\ v.context = y.context /\ v.channel = y.channel
        /\ v.sent = y.sent /\ v.callbacks = y.callbacks
    BY <1>9 DEF v, Client
  <2> QED BY <2>1, <1>11, <1>12 DEF Client
<1>15. \A e : Append(<<>>, e) = <<e>>
  OBVIOUS
<1>16. /\ p.sent[role] = <<what>> /\ p.callbacks[role] = <<Callback("connector", what)>>
       /\ \A o \in Roles \ {role} : p.sent[o] = <<>> /\ p.callbacks[o] = <<>>
  <2> HIDE DEF role, what
  <2> QED BY <1>5, <1>8, <1>10, <1>14, <1>15
<1>17. p.step = 1 /\ Asked(p) = what /\ Steps[p.step].role = role
  BY <1>8, <1>10, <1>14 DEF Asked
<1>18. Waiting(p)
  BY <1>8, <1>10, <1>14 DEF Waiting
<1>19. answers = Nothing /\ Nothing \in [Roles -> Seq(Answer)]
  BY DEF Init, Nothing
<1>20. \A o \in Roles : p.context[o] = "up" /\ answers[o] = <<>>
  BY <1>8, <1>10, <1>14, <1>19 DEF Nothing
<1>21. Sole(p, answers, {})
  <2>1. p.status = "connecting" /\ p.end = "running" /\ p.timer = "none"
    BY <1>8, <1>10, <1>14
  <2> HIDE DEF role, what
  <2> QED BY <2>1, <1>5, <1>16, <1>17, <1>18, <1>20 DEF Sole
<1>22. Fine(p, answers, {}, rules, {})
  BY <1>13, <1>19, <1>21, SoleFine DEF Init
<1> QED BY <1>22 DEF Init, IInv, p

\* The next attempt.
LEMMA RetryFine == IInv /\ Retry => IInv'
<1> SUFFICES ASSUME IInv, Retry PROVE IInv'
  OBVIOUS
<1>1. Good(c, answers, subscribed, rules, unheard) /\ c \in Client
  BY DEF IInv, Fine, Retry, Good, Types
<1>2. c.status = "disconnected"
  BY <1>1 DEF Retry, Good, Connecting, Steady, Client
<1>3. Closed(c)
  BY <1>1, <1>2 DEF Good
<1> DEFINE m == Fired(c)
<1>4. /\ m \in Client /\ Waiting(m) /\ m.callbacks = Nothing /\ m.timer = "none"
      /\ m.end = "running"
  BY <1>1, <1>3 DEF Fired, Armed, Client, Waiting, Closed, Nothing, Retry
<1> HIDE DEF m
<1>5. rules \in [1 .. Rulesets -> Nat]
  BY <1>1 DEF Good, Types
<1>6. Fine(Connect(m), Nothing, {}, rules, {})
  BY <1>4, <1>5, ConnectFine
<1>7. CASE c' = [c EXCEPT !.end = "aborted"]
  <2>1. c'.end = "aborted"
    BY <1>1, <1>7 DEF Client
  <2> QED BY <2>1 DEF IInv, Fine
<1>8. CASE c' = Connect(m)
  BY <1>6, <1>8 DEF IInv, Retry, Nothing
<1> QED BY <1>7, <1>8 DEF Retry, m

\* Between two events nothing is on its way of a connector that has no callback.
LEMMA AskAgainFine == IInv /\ AskAgain => IInv'
<1> SUFFICES ASSUME IInv, AskAgain PROVE IInv'
  OBVIOUS
<1>1. Good(c, answers, subscribed, rules, unheard) /\ c \in Client
  BY DEF IInv, Fine, AskAgain, Good, Types
<1>2. c.status = "connecting"
  BY <1>1 DEF AskAgain, Good, Closed, Steady, Client
<1>3. Connecting(c, unheard) /\ subscribed = {}
  BY <1>1, <1>2 DEF Good
<1> DEFINE m == Fired(c)
<1>4. m \in Client
  BY <1>1 DEF Fired, Armed, Client
<1>5. Between(m, answers, unheard)
  <2>1. /\ m.status = c.status /\ m.end = c.end /\ m.timer = "none" /\ m.context = c.context
        /\ m.callbacks = c.callbacks /\ m.sent = c.sent /\ m.loading = c.loading
        /\ m.wait = c.wait /\ m.known = c.known /\ m.channel = c.channel
        /\ m.pending = c.pending
    BY <1>1 DEF Fired, Armed, Client
  <2>2. c.timer = "loading" /\ c.end = "running"
    BY DEF AskAgain
  <2>3. Waiting(m)
    BY <2>1, <1>3 DEF Waiting, Connecting
  <2> HIDE DEF m
  <2>4. ASSUME NEW role \in Roles
        PROVE  /\ m.callbacks[role] = <<>>
               /\ m.context[role] = "up" \/ (m.context[role] = "freed" /\ role \in unheard)
               /\ m.context[role] = "up" => m.sent[role] = <<>> /\ answers[role] = <<>>
    <3>1. c.callbacks[role] = <<>>
      BY <2>2, <1>3 DEF Connecting
    <3>2. c.context[role] = "up" => Paired(c, role, answers[role])
      BY <1>1, <1>2 DEF Good
    <3> QED BY <3>1, <3>2, <2>1, <1>3 DEF Connecting, Paired
  <2> QED BY <2>1, <2>2, <2>3, <2>4, <1>2 DEF Between
<1>6. c.step \in Nat \ {0}
  BY <1>3, TheSteps DEF Connecting
<1>7. /\ answers \in [Roles -> Seq(Answer)] /\ unheard \in SUBSET Roles
      /\ rules \in [1 .. Rulesets -> Nat]
  BY <1>1 DEF Good, Types
<1> HIDE DEF m
<1>8. Fine(Proceed(m, c.step), answers, {}, rules, unheard)
  BY <1>4, <1>5, <1>6, <1>7, ProceedFine
<1> QED BY <1>8, <1>3 DEF AskAgain, IInv, m

\* What a step of the connector does to the contexts.
LEMMA ProceedKeeps ==
  ASSUME NEW m \in Client, NEW a, NEW u \in SUBSET Roles, Between(m, a, u), NEW j \in Nat \ {0},
         Proceed(m, j).end = "running"
  PROVE  Proceed(m, j).context = m.context
<1>1. CASE j <= Len(Steps)
  <2> DEFINE n == [m EXCEPT !.step = j]
             who == "connector"
             what == Command(Steps[j].cmd, j)
             role == Steps[j].role
  <2>1. Proceed(m, j) = Issue(n, role, who, what)
    BY <1>1, TheSteps DEF Proceed
  <2>2. n.context = m.context
    BY DEF Client
  <2>3. n \in Client
    <3>1. j \in 1 .. Len(Steps) + 1
      BY <1>1, TheSteps
    <3> QED BY <3>1 DEF Client
  <2> HIDE DEF n, who, what, role
  <2>4. Issue(n, role, who, what).context = n.context
    BY <2>3 DEF Issue, Client
  <2> QED BY <2>1, <2>2, <2>4
<1>2. CASE j > Len(Steps)
  <2>1. Proceed(m, j) = Ready(m)
    BY <1>2, TheSteps DEF Proceed
  <2>2. m.context["sub_ctx"] = "up"
    <3>1. m.context["sub_ctx"] # "freed"
      BY <2>1, ReadyFreed DEF Between, Waiting
    <3> QED BY <3>1 DEF Between, Roles
  <2>3. Ready(m) = Awaiting(m)
    BY <2>2, ReadyUp DEF Between, Waiting
  <2>4. Unready(m) \in Client /\ Heard(Unready(m), 0) \in Client
    BY AwaitingType
  <2>5. Unready(m).context = m.context
    BY DEF Unready, Client
  <2>6. \A h \in Client, ch \in Channels : Heard(h, ch).context = h.context
    BY DEF Heard, Client
  <2>7. 0 \in Channels /\ 1 \in Channels
    BY Sizes DEF Channels
  <2> QED BY <2>1, <2>3, <2>4, <2>5, <2>6, <2>7 DEF Awaiting
<1> QED BY <1>1, <1>2, TheSteps

\* An attempt that fails in a callback of one context.
Failing(m, in, u) ==
  /\ Waiting(m) /\ m.end = "running"
  /\ m.context[in] \in {"up", "closing"}
  /\ \A o \in Roles \ {in} : m.context[o] = "up" \/ (m.context[o] = "freed" /\ o \in u)
  /\ \A o \in Roles : m.callbacks[o] = <<>>

\* What redis_close changes.
LEMMA CloseIs ==
  ASSUME NEW m \in Client, NEW role \in Roles, NEW in \in Roles
  PROVE  LET n == Close(m, role, in) IN
         /\ n \in Client
         /\ n.status = m.status /\ n.timer = m.timer /\ n.loading = m.loading
         /\ n.wait = m.wait /\ n.known = m.known /\ n.channel = m.channel
         /\ n.pending = m.pending
         /\ m.context[role] = "freed" => n.end = "freed" /\ n.context = m.context
                                         /\ n.callbacks = m.callbacks
         /\ m.context[role] # "freed" =>
              /\ n.end = m.end
              /\ n.context = [m.context EXCEPT ![role] = IF role = in THEN "closing" ELSE "freed"]
              /\ n.callbacks = [m.callbacks EXCEPT ![role] = IF role = in THEN @ ELSE <<>>]
<1> DEFINE n == Close(m, role, in)
<1>1. CASE m.context[role] = "freed"
  <2>1. n = [m EXCEPT !.end = "freed"]
    BY <1>1 DEF Close
  <2> HIDE DEF n
  <2>2. n \in Client /\ n.end = "freed"
    BY <2>1 DEF Client
  <2> QED BY <2>1, <2>2, <1>1 DEF Client, n
<1>2. CASE m.context[role] # "freed"
  <2> DEFINE o == [m EXCEPT !.pointer[role] = FALSE]
             K == [who : {"connector", "loader"}, what : [cmd : Commands, arg : Nat]]
  <2>1. o \in Client
    <3>1. [m.pointer EXCEPT ![role] = FALSE] \in [Roles -> BOOLEAN]
      BY DEF Client
    <3> QED BY <3>1 DEF Client
  <2>2. /\ o.status = m.status /\ o.timer = m.timer /\ o.loading = m.loading
        /\ o.wait = m.wait /\ o.known = m.known /\ o.channel = m.channel
        /\ o.pending = m.pending /\ o.context = m.context /\ o.callbacks = m.callbacks
        /\ o.end = m.end
    BY DEF Client
  <2>3. n = Free(o, role, in)
    BY <1>2 DEF Close
  <2> HIDE DEF n, o
  <2>4. [o.context EXCEPT ![role] = IF role = in THEN "closing" ELSE "freed"]
          \in [Roles -> {"up", "closing", "freed"}]
    BY <2>1 DEF Client
  <2>5. o.callbacks \in [Roles -> Seq(K)]
    BY <2>1 DEF Client
  <2> HIDE DEF K
  <2>6. [o.callbacks EXCEPT ![role] = IF role = in THEN @ ELSE <<>>] \in [Roles -> Seq(K)]
    BY <2>5
  <2>7. n \in Client
    BY <2>1, <2>3, <2>4, <2>6 DEF Free, Client, K
  <2>8. /\ n.status = o.status /\ n.timer = o.timer /\ n.loading = o.loading
        /\ n.wait = o.wait /\ n.known = o.known /\ n.channel = o.channel
        /\ n.pending = o.pending /\ n.end = o.end
        /\ n.context = [o.context EXCEPT ![role] = IF role = in THEN "closing" ELSE "freed"]
        /\ n.callbacks = [o.callbacks EXCEPT ![role] = IF role = in THEN @ ELSE <<>>]
    BY <2>1, <2>3 DEF Free, Client
  <2> QED BY <2>2, <2>7, <2>8, <1>2 DEF n
<1> QED BY <1>1, <1>2

\* The attempt has failed: both contexts are freed, one after its callback.
LEMMA FailFine ==
  ASSUME NEW m \in Client, NEW a \in [Roles -> Seq(Answer)], NEW u \in SUBSET Roles,
         NEW r \in [1 .. Rulesets -> Nat], NEW in \in Roles, Failing(m, in, u)
  PROVE  Fine(Settled(Fail(m, in), in), a, {}, r, u)
<1> USE DEF Roles
<1> DEFINE d == [m EXCEPT !.status = "disconnected"]
           x == Close(d, "ctx", in)
           y == Close(x, "sub_ctx", in)
           f == Fail(m, in)
           n == Settled(f, in)
<1>1. /\ d \in Client /\ d.status = "disconnected" /\ d.loading = m.loading
      /\ d.wait = m.wait /\ d.known = m.known /\ d.channel = m.channel
      /\ d.pending = m.pending /\ d.end = m.end /\ d.context = m.context
      /\ d.callbacks = m.callbacks
  BY DEF Client
<1> HIDE DEF d
<1>2. x \in Client
  BY <1>1, CloseIs
<1>3. /\ x.status = d.status /\ x.loading = d.loading /\ x.wait = d.wait
      /\ x.known = d.known /\ x.channel = d.channel /\ x.pending = d.pending
      /\ d.context["ctx"] = "freed" => x.end = "freed" /\ x.context = d.context
                                       /\ x.callbacks = d.callbacks
      /\ d.context["ctx"] # "freed" =>
           /\ x.end = d.end
           /\ x.context = [d.context EXCEPT !["ctx"] = IF "ctx" = in THEN "closing" ELSE "freed"]
           /\ x.callbacks = [d.callbacks EXCEPT !["ctx"] = IF "ctx" = in THEN @ ELSE <<>>]
  <2>1. "ctx" \in Roles
    OBVIOUS
  <2> HIDE DEF Roles
  <2> QED BY <2>1, <1>1, CloseIs
<1> HIDE DEF x
<1>4. y \in Client
  BY <1>2, CloseIs
<1>5. /\ y.status = x.status /\ y.loading = x.loading /\ y.wait = x.wait
      /\ y.known = x.known /\ y.channel = x.channel /\ y.pending = x.pending
      /\ x.context["sub_ctx"] = "freed" => y.end = "freed" /\ y.context = x.context
                                       /\ y.callbacks = x.callbacks
      /\ x.context["sub_ctx"] # "freed" =>
           /\ y.end = x.end
           /\ y.context = [x.context EXCEPT !["sub_ctx"] = IF "sub_ctx" = in THEN "closing" ELSE "freed"]
           /\ y.callbacks = [x.callbacks EXCEPT !["sub_ctx"] = IF "sub_ctx" = in THEN @ ELSE <<>>]
  <2>1. "sub_ctx" \in Roles
    OBVIOUS
  <2> HIDE DEF Roles
  <2> QED BY <2>1, <1>2, CloseIs
<1>6. f = [y EXCEPT !.timer = "retry"]
  BY DEF Fail, Timeout, Armed, d, x
<1> HIDE DEF y, f
<1>7. /\ f \in Client /\ f.timer = "retry" /\ f.status = y.status /\ f.loading = y.loading
      /\ f.wait = y.wait /\ f.known = y.known /\ f.channel = y.channel
      /\ f.pending = y.pending /\ f.end = y.end /\ f.context = y.context
      /\ f.callbacks = y.callbacks
  BY <1>4, <1>6 DEF Client
<1>8. /\ DOMAIN d.context = Roles /\ DOMAIN d.callbacks = Roles
      /\ DOMAIN x.context = Roles /\ DOMAIN x.callbacks = Roles
      /\ DOMAIN y.context = Roles /\ DOMAIN y.callbacks = Roles
  BY <1>1, <1>2, <1>4 DEF Client
<1>9. CASE \E o \in Roles \ {in} : m.context[o] = "freed"
  <2>1. u # {}
    BY <1>9 DEF Failing
  <2>2. f.end = "freed"
    BY <1>1, <1>3, <1>5, <1>7, <1>8, <1>9 DEF Failing
  <2>3. n = f
    BY <2>2 DEF Settled
  <2> HIDE DEF n
  <2> QED BY <2>1, <2>2, <2>3 DEF Fine, n, f
<1>10. CASE \A o \in Roles \ {in} : m.context[o] # "freed"
  <2>1. /\ f.end = "running" /\ f.context[in] = "closing"
        /\ \A o \in Roles \ {in} : f.context[o] = "freed"
    BY <1>1, <1>3, <1>5, <1>7, <1>8, <1>10 DEF Failing
  <2>2. \A o \in Roles : f.callbacks[o] = <<>>
    BY <1>1, <1>3, <1>5, <1>7, <1>8, <1>10 DEF Failing
  <2>3. n = [f EXCEPT !.context[in] = "freed", !.callbacks[in] = <<>>]
    BY <2>1 DEF Settled
  <2> HIDE DEF n
  <2> DEFINE K == [who : {"connector", "loader"}, what : [cmd : Commands, arg : Nat]]
  <2>4. f.callbacks \in [Roles -> Seq(K)]
    BY <1>7 DEF Client
  <2> HIDE DEF K
  <2>5. [f.callbacks EXCEPT ![in] = <<>>] \in [Roles -> Seq(K)]
    BY <2>4
  <2>6. [f.context EXCEPT ![in] = "freed"] \in [Roles -> {"up", "closing", "freed"}]
    BY <1>7 DEF Client
  <2>7. n \in Client
    BY <2>3, <2>5, <2>6, <1>7 DEF Client, K
  <2>8. /\ n.timer = f.timer /\ n.status = f.status /\ n.loading = f.loading
        /\ n.wait = f.wait /\ n.known = f.known /\ n.channel = f.channel
        /\ n.pending = f.pending /\ n.end = f.end
        /\ n.context = [f.context EXCEPT ![in] = "freed"]
        /\ n.callbacks = [f.callbacks EXCEPT ![in] = <<>>]
    BY <2>3, <1>7 DEF Client
  <2>9. /\ n.context = [o \in Roles |-> "freed"] /\ n.callbacks = [o \in Roles |-> <<>>]
    <3>1. DOMAIN n.context = Roles /\ DOMAIN n.callbacks = Roles
      BY <2>7 DEF Client
    <3>2. DOMAIN f.context = Roles /\ DOMAIN f.callbacks = Roles
      BY <1>7 DEF Client
    <3>3. \A o \in Roles : n.context[o] = "freed" /\ n.callbacks[o] = <<>>
      <4> HIDE DEF Roles
      <4> QED BY <2>1, <2>2, <2>8, <3>2
    <3>4. n.context = [o \in Roles |-> n.context[o]] /\ n.callbacks = [o \in Roles |-> n.callbacks[o]]
      BY <2>7 DEF Client
    <3> QED BY <3>3, <3>4
  <2>10. Closed(n)
    BY <2>8, <2>9, <1>1, <1>3, <1>5, <1>7 DEF Closed, Waiting, Failing
  <2>11. n.status = "disconnected" /\ n.end = "running"
    BY <2>1, <2>8, <1>1, <1>3, <1>5, <1>7
  <2>12. Good(n, a, {}, r, u)
    BY <2>7, <2>10, <2>11 DEF Good, Types
  <2> QED BY <2>11, <2>12 DEF Fine, n, f
<1> QED BY <1>9, <1>10

\* The tail of a sequence of one.
LEMMA TailOfOne ==
  ASSUME NEW S, NEW s \in Seq(S), Len(s) = 1
  PROVE  Tail(s) = <<>>
<1>1. Tail(s) \in Seq(S) /\ Len(Tail(s)) = 0
  BY HeadTailProperties
<1> QED BY <1>1, EmptySeq

\* The last look of the read event ends the client or changes nothing.
LEMMA AgainFine ==
  ASSUME NEW m, NEW a, NEW s, NEW r, NEW u, NEW role, NEW n \in ReadAgain(m, role),
         Fine(m, a, s, r, u)
  PROVE  Fine(n, a, s, r, u)
<1>1. CASE n = m
  BY <1>1
<1>2. CASE n # m
  <2>1. m.end = "running" /\ n = [m EXCEPT !.end = "peeked"]
    BY <1>2 DEF ReadAgain
  <2>2. m \in Client
    BY <2>1 DEF Fine, Good, Types
  <2>3. n.end = "peeked"
    BY <2>1, <2>2 DEF Client
  <2> QED BY <2>3 DEF Fine
<1> QED BY <1>1, <1>2

\* The ways out of connector().
LEMMA ConnectorDoes ==
  ASSUME NEW m, NEW answer, NEW in
  PROVE  \/ Connector(m, answer, in) = Proceed(m, m.step + 1)
         \/ Connector(m, answer, in) = Proceed(m, m.step + 2)
         \/ Connector(m, answer, in) = Fail(m, in)
         \/ Connector(m, answer, in) = Timeout(m, FALSE)
BY DEF Connector

\* The connector is resumed in a callback of a context that is up.
LEMMA ConnectorFine ==
  ASSUME NEW m \in Client, NEW a \in [Roles -> Seq(Answer)], NEW u \in SUBSET Roles,
         NEW r \in [1 .. Rulesets -> Nat], NEW in \in Roles, NEW answer,
         Between(m, a, u), m.context[in] = "up", m.step \in 1 .. Len(Steps)
  PROVE  Fine(Settled(Connector(m, answer, in), in), a, {}, r, u)
<1> DEFINE k == Connector(m, answer, in)
<1>1. m.step + 1 \in Nat \ {0} /\ m.step + 2 \in Nat \ {0}
  BY TheSteps
<1>2. ASSUME NEW j \in Nat \ {0}
      PROVE  Fine(Settled(Proceed(m, j), in), a, {}, r, u)
  <2> DEFINE p == Proceed(m, j)
  <2>1. Fine(p, a, {}, r, u)
    BY ProceedFine
  <2>2. p.end = "running" => p.context[in] = "up"
    BY ProceedKeeps
  <2> HIDE DEF p
  <2>3. Settled(p, in) = p
    BY <2>2 DEF Settled
  <2> QED BY <2>1, <2>3 DEF p
<1>3. Fine(Settled(Fail(m, in), in), a, {}, r, u)
  <2>1. Failing(m, in, u)
    BY DEF Failing, Between
  <2> QED BY <2>1, FailFine
<1>4. Fine(Settled(Timeout(m, FALSE), in), a, {}, r, u)
  <2> DEFINE p == Timeout(m, FALSE)
  <2>1. p = [m EXCEPT !.timer = "loading"]
    BY DEF Timeout, Armed
  <2> HIDE DEF p
  <2>2. /\ p \in Client /\ p.timer = "loading" /\ p.status = m.status /\ p.end = m.end
        /\ p.context = m.context /\ p.callbacks = m.callbacks /\ p.sent = m.sent
        /\ p.step = m.step /\ p.loading = m.loading /\ p.wait = m.wait /\ p.known = m.known
        /\ p.channel = m.channel /\ p.pending = m.pending
    BY <2>1 DEF Client
  <2>3. Connecting(p, u)
    <3>1. Waiting(p)
      BY <2>2 DEF Waiting, Between
    <3> QED BY <3>1, <2>2 DEF Connecting, Between
  <2>4. ASSUME NEW o \in Roles, p.context[o] = "up" PROVE Paired(p, o, a[o])
    BY <2>2, <2>4 DEF Paired, Between
  <2>5. p.status = "connecting" /\ p.end = "running" /\ p.context[in] = "up"
    BY <2>2 DEF Between
  <2>6. Settled(p, in) = p
    BY <2>5 DEF Settled
  <2>7. Good(p, a, {}, r, u)
    BY <2>2, <2>3, <2>4, <2>5 DEF Good, Types
  <2> QED BY <2>5, <2>6, <2>7 DEF Fine, p
<1> QED BY <1>1, <1>2, <1>3, <1>4, ConnectorDoes

\* An answer resumes the connector.
LEMMA ReceiveConnecting ==
  ASSUME IInv, NEW role \in Roles, Receive(role), c.status = "connecting"
  PROVE  IInv'
<1>1. Good(c, answers, subscribed, rules, unheard) /\ c \in Client
  BY DEF IInv, Fine, Receive, Listening, Good, Types
<1>2. Connecting(c, unheard) /\ subscribed = {}
  BY <1>1 DEF Good
<1>3. /\ answers \in [Roles -> Seq(Answer)] /\ unheard \in SUBSET Roles
      /\ rules \in [1 .. Rulesets -> Nat]
  BY <1>1 DEF Good, Types
<1>4. c.end = "running" /\ c.context[role] = "up" /\ answers[role] # <<>>
  BY DEF Receive, Listening
<1>5. \A o \in Roles : c.context[o] = "up" => Paired(c, o, answers[o])
  BY <1>1 DEF Good
<1>6. /\ c.callbacks[role] = <<Callback("connector", Asked(c))>>
      /\ c.sent[role] = <<>> /\ Len(answers[role]) = 1 /\ role = Steps[c.step].role
  BY <1>2, <1>4, <1>5 DEF Paired, Connecting
<1> DEFINE t == [c EXCEPT !.callbacks[role] = Tail(@)]
           a == Head(answers[role])
           n == Settled(Connector(t, a, role), role)
<1>7. /\ c' \in ReadAgain(n, role)
      /\ answers' = [o \in Roles |-> IF n.context[o] = "freed" THEN <<>>
                                     ELSE IF o = role THEN Tail(answers[o]) ELSE answers[o]]
      /\ subscribed' = {} /\ rules' = rules /\ unheard' = unheard
  <2>1. Head(c.callbacks[role]).who = "connector" /\ c.callbacks[role] # <<>>
    BY <1>6 DEF Callback
  <2>2. Resume(t, Head(c.callbacks[role]), a, role) = Connector(t, a, role)
    BY <2>1 DEF Resume
  <2> QED BY <2>1, <2>2, <1>2 DEF Receive, Server
<1>8. Tail(answers[role]) = <<>> /\ Tail(<<Callback("connector", Asked(c))>>) = <<>>
  <2>1. answers[role] \in Seq(Answer)
    BY <1>3
  <2>2. \A x : <<x>> \in Seq({x}) /\ Len(<<x>>) = 1
    OBVIOUS
  <2>3. \A x : Tail(<<x>>) = <<>>
    BY <2>2, TailOfOne
  <2> QED BY <2>1, <2>3, <1>6, TailOfOne
<1>9. \A o \in Roles : c.callbacks[o] = <<>> \/ o = role
  BY <1>2, <1>6 DEF Connecting
<1>10. t \in Client
  <2> DEFINE K == [who : {"connector", "loader"}, what : [cmd : Commands, arg : Nat]]
  <2>1. c.callbacks \in [Roles -> Seq(K)]
    BY <1>1 DEF Client
  <2> HIDE DEF K
  <2>2. [c.callbacks EXCEPT ![role] = Tail(@)] \in [Roles -> Seq(K)]
    BY <2>1, <1>6, <1>8
  <2> QED BY <2>2, <1>1 DEF Client, K
<1>11. /\ t.status = c.status /\ t.end = c.end /\ t.timer = c.timer /\ t.context = c.context
       /\ t.sent = c.sent /\ t.step = c.step /\ t.loading = c.loading /\ t.wait = c.wait
       /\ t.known = c.known /\ t.channel = c.channel /\ t.pending = c.pending
       /\ t.callbacks = [c.callbacks EXCEPT ![role] = Tail(@)]
  BY <1>1 DEF Client
<1> HIDE DEF t, a, n
<1>12. \A o \in Roles : t.callbacks[o] = <<>>
  <2>1. DOMAIN c.callbacks = Roles
    BY <1>1 DEF Client
  <2> QED BY <2>1, <1>6, <1>8, <1>9, <1>11
<1>13. answers' \in [Roles -> Seq(Answer)]
  <2>1. \A o \in Roles : answers[o] \in Seq(Answer)
    BY <1>3
  <2>2. <<>> \in Seq(Answer)
    OBVIOUS
  <2> QED BY <2>1, <2>2, <1>7, <1>8
<1>14. ASSUME NEW o \in Roles, c.context[o] = "up"
       PROVE  c.sent[o] = <<>> /\ answers'[o] = <<>>
  <2>1. CASE o = role
    BY <2>1, <1>6, <1>7, <1>8
  <2>2. CASE o # role
    <3>1. c.callbacks[o] = <<>>
      BY <2>2, <1>9
    <3>2. c.sent[o] = <<>> /\ answers[o] = <<>>
      BY <3>1, <1>5, <1>14 DEF Paired
    <3> QED BY <3>2, <2>2, <1>7
  <2> QED BY <2>1, <2>2
<1>15. Between(t, answers', unheard)
  <2>1. Waiting(t)
    BY <1>2, <1>11 DEF Waiting, Connecting
  <2>2. t.timer = "none"
    BY <1>2, <1>6, <1>11 DEF Connecting
  <2>3. \A o \in Roles : c.context[o] = "up" \/ (c.context[o] = "freed" /\ o \in unheard)
    BY <1>2 DEF Connecting
  <2> QED BY <2>1, <2>2, <2>3, <1>4, <1>11, <1>12, <1>14 DEF Between
<1>16. t.context[role] = "up" /\ t.step \in 1 .. Len(Steps)
  BY <1>2, <1>4, <1>11 DEF Connecting
<1>17. Fine(n, answers', {}, rules, unheard)
  BY <1>3, <1>10, <1>13, <1>15, <1>16, ConnectorFine DEF n
<1>18. Fine(c', answers', {}, rules, unheard)
  BY <1>7, <1>17, AgainFine
<1> QED BY <1>7, <1>18 DEF IInv

\* A context that is closed in its callback is freed after it.
Released(m, role) == [m EXCEPT !.context[role] = "freed", !.callbacks[role] = <<>>]
\* What that changes, field by field.
LEMMA ReleasedIs ==
  ASSUME NEW m \in Client, NEW role \in Roles
  PROVE  LET n == Released(m, role) IN
         /\ n \in Client
         /\ n.status = m.status /\ n.timer = m.timer /\ n.loading = m.loading
         /\ n.wait = m.wait /\ n.known = m.known /\ n.channel = m.channel
         /\ n.pending = m.pending /\ n.end = m.end /\ n.sent = m.sent /\ n.step = m.step
         /\ n.rulesets = m.rulesets
         /\ n.context[role] = "freed" /\ n.callbacks[role] = <<>>
         /\ \A o \in Roles \ {role} : n.context[o] = m.context[o] /\ n.callbacks[o] = m.callbacks[o]
<1> DEFINE K == [who : {"connector", "loader"}, what : [cmd : Commands, arg : Nat]]
           n == Released(m, role)
<1>1. m.callbacks \in [Roles -> Seq(K)] /\ DOMAIN m.context = Roles
  BY DEF Client
<1> HIDE DEF K
<1>2. [m.callbacks EXCEPT ![role] = <<>>] \in [Roles -> Seq(K)]
  BY <1>1
<1>3. [m.context EXCEPT ![role] = "freed"] \in [Roles -> {"up", "closing", "freed"}]
  BY DEF Client
<1>4. n = [m EXCEPT !.context[role] = "freed", !.callbacks[role] = <<>>]
  BY DEF Released
<1> HIDE DEF n
<1>5. n \in Client
  BY <1>2, <1>3, <1>4 DEF Client, K
<1>6. /\ n.status = m.status /\ n.timer = m.timer /\ n.loading = m.loading
      /\ n.wait = m.wait /\ n.known = m.known /\ n.channel = m.channel
      /\ n.pending = m.pending /\ n.end = m.end /\ n.sent = m.sent /\ n.step = m.step
      /\ n.rulesets = m.rulesets
      /\ n.context = [m.context EXCEPT ![role] = "freed"]
      /\ n.callbacks = [m.callbacks EXCEPT ![role] = <<>>]
  BY <1>4 DEF Client
<1> QED BY <1>1, <1>5, <1>6 DEF n

\* The connection of a context is lost while the connector has its answer to
\* HSET to come.
LEMMA HsetLost ==
  ASSUME NEW t \in Client, NEW a \in [Roles -> Seq(Answer)], NEW u \in SUBSET Roles,
         NEW r \in [1 .. Rulesets -> Nat],
         t.status = "connecting", t.end = "running", t.timer = "none", Waiting(t),
         t.context["ctx"] = "closing", "ctx" \in u,
         t.context["sub_ctx"] = "up" \/ (t.context["sub_ctx"] = "freed" /\ "sub_ctx" \in u),
         t.context["sub_ctx"] = "up" => t.sent["sub_ctx"] = <<>> /\ a["sub_ctx"] = <<>>,
         \A o \in Roles : t.callbacks[o] = <<>>,
         t.step \in 1 .. Len(Steps), Steps[t.step].cmd = "hset"
  PROVE  Fine(Settled(Proceed(t, t.step + 1), "ctx"), a, {}, r, u)
<1> DEFINE j == t.step + 1
           p == Proceed(t, j)
           n == Settled(p, "ctx")
<1> USE DEF Roles
<1>1. CASE j <= Len(Steps)
  <2>1. Steps[j].role = "ctx" /\ j \in 2 .. Len(Steps) /\ Steps[j - 1].cmd = "hset"
    BY <1>1, TheSteps
  <2> DEFINE q == [t EXCEPT !.step = j]
  <2>2. q \in Client
    <3>1. j \in 1 .. Len(Steps) + 1
      BY <2>1, TheSteps
    <3> QED BY <3>1 DEF Client
  <2>3. /\ q.status = t.status /\ q.end = t.end /\ q.timer = t.timer /\ q.context = t.context
        /\ q.sent = t.sent /\ q.callbacks = t.callbacks /\ q.step = j /\ q.loading = t.loading
        /\ q.wait = t.wait /\ q.known = t.known /\ q.channel = t.channel
        /\ q.pending = t.pending
    BY DEF Client
  <2>4. p = Issue(q, "ctx", "connector", Command(Steps[j].cmd, j))
    BY <1>1, <2>1 DEF Proceed
  <2> HIDE DEF q, p
  <2>5. p = q
    BY <2>3, <2>4 DEF Issue
  <2>6. n = Released(q, "ctx")
    BY <2>3, <2>5 DEF Settled, Released
  <2> HIDE DEF n
  <2>7. /\ n \in Client
        /\ n.status = q.status /\ n.timer = q.timer /\ n.loading = q.loading
        /\ n.wait = q.wait /\ n.known = q.known /\ n.channel = q.channel
        /\ n.pending = q.pending /\ n.end = q.end /\ n.sent = q.sent /\ n.step = q.step
        /\ n.context["ctx"] = "freed" /\ n.callbacks["ctx"] = <<>>
        /\ n.context["sub_ctx"] = q.context["sub_ctx"]
        /\ n.callbacks["sub_ctx"] = q.callbacks["sub_ctx"]
    BY <2>2, <2>6, ReleasedIs
  <2>8. Connecting(n, u)
    <3>1. Waiting(n)
      BY <2>3, <2>7 DEF Waiting
    <3>2. Missed(n, u)
      BY <2>1, <2>3, <2>7 DEF Missed
    <3>3. n.step \in 1 .. Len(Steps)
      BY <2>1, <2>3, <2>7
    <3> QED BY <3>1, <3>2, <3>3, <2>3, <2>7 DEF Connecting
  <2>9. ASSUME NEW o \in Roles, n.context[o] = "up" PROVE Paired(n, o, a[o])
    BY <2>3, <2>7, <2>9 DEF Paired
  <2>10. Good(n, a, {}, r, u)
    BY <2>3, <2>7, <2>8, <2>9 DEF Good, Types
  <2>11. Fine(n, a, {}, r, u)
    BY <2>3, <2>7, <2>10 DEF Fine
  <2> QED BY <2>11 DEF n, p
<1>2. CASE j > Len(Steps)
  <2>1. p = Ready(t)
    BY <1>2, TheSteps DEF Proceed
  <2> HIDE DEF p
  <2>2. CASE t.context["sub_ctx"] = "freed"
    <3>1. p.end = "freed"
      BY <2>1, <2>2, ReadyFreed DEF Waiting
    <3>2. n = p
      BY <3>1 DEF Settled
    <3> HIDE DEF n
    <3>3. Fine(n, a, {}, r, u)
      BY <3>1, <3>2 DEF Fine
    <3> QED BY <3>3 DEF n, p
  <2>3. CASE t.context["sub_ctx"] = "up"
    <3>1. p = Awaiting(t)
      BY <2>1, <2>3, ReadyUp DEF Waiting
    <3>2. /\ p \in Client /\ p.status = "ready" /\ p.end = "running" /\ p.timer = "none"
          /\ p.pending = <<0, 1>> /\ p.loading = 1 /\ p.wait = "ack" /\ p.known = {}
          /\ p.context = t.context /\ p.callbacks = t.callbacks
          /\ p.sent["sub_ctx"] = <<Command("subscribe", 0), Command("subscribe", 1)>>
          /\ p.channel[0] = "plain" /\ p.channel[1] = "wrapped"
          /\ \A ch \in Channels \ {0, 1} : p.channel[ch] = "none"
      BY <2>3, <3>1, AwaitingIs
    <3>3. n = Released(p, "ctx")
      BY <3>2 DEF Settled, Released
    <3> HIDE DEF n
    <3>4. /\ n \in Client
          /\ n.status = p.status /\ n.timer = p.timer /\ n.loading = p.loading
          /\ n.wait = p.wait /\ n.known = p.known /\ n.channel = p.channel
          /\ n.pending = p.pending /\ n.end = p.end /\ n.sent = p.sent
          /\ n.context["ctx"] = "freed" /\ n.callbacks["ctx"] = <<>>
          /\ n.context["sub_ctx"] = p.context["sub_ctx"]
          /\ n.callbacks["sub_ctx"] = p.callbacks["sub_ctx"]
      BY <3>2, <3>3, ReleasedIs
    <3>5. Fresh(n, a, u)
      BY <2>3, <3>2, <3>4 DEF Fresh
    <3>6. Good(n, a, {}, r, u)
      BY <3>4, <3>5, FreshGood
    <3>7. Fine(n, a, {}, r, u)
      BY <3>2, <3>4, <3>6 DEF Fine
    <3> QED BY <3>7 DEF n, p
  <2> QED BY <2>2, <2>3
<1> QED BY <1>1, <1>2, TheSteps

\* A connection is lost in an attempt: the connector hears of it if it waits
\* there for an answer that it looks at, and it is lost unheard if not.
LEMMA LoseConnecting ==
  ASSUME IInv, NEW role \in Roles, Lose(role), c.status = "connecting"
  PROVE  IInv'
<1> DEFINE x == [c EXCEPT !.context[role] = "closing"]
           n == Disconnected(c, role)
<1>1. Good(c, answers, subscribed, rules, unheard) /\ c \in Client
  BY DEF IInv, Fine, Lose, Listening, Good, Types
<1>2. Connecting(c, unheard) /\ subscribed = {}
  BY <1>1 DEF Good
<1>3. /\ answers \in [Roles -> Seq(Answer)] /\ unheard \in SUBSET Roles
      /\ rules \in [1 .. Rulesets -> Nat]
  BY <1>1 DEF Good, Types
<1>4. c.end = "running" /\ c.context[role] = "up"
  BY DEF Lose, Listening
<1>5. \A o \in Roles : c.context[o] = "up" => Paired(c, o, answers[o])
  BY <1>1 DEF Good
<1>6. \A ch \in Channels : c.channel[ch] = "none"
  BY <1>2 DEF Connecting, Waiting
<1>7. /\ c' \in ReadAgain(n, role)
      /\ answers' = [o \in Roles |-> IF n.context[o] = "freed" THEN <<>> ELSE answers[o]]
      /\ subscribed' = {} /\ rules' = rules
      /\ unheard' = IF c.callbacks[role] = <<>> \/ Head(c.callbacks[role]).what.cmd = "hset"
                      THEN unheard \cup {role} ELSE unheard
  BY <1>2 DEF Lose, Server
<1>8. answers' \in [Roles -> Seq(Answer)] /\ unheard' \in SUBSET Roles
  <2>1. \A o \in Roles : answers[o] \in Seq(Answer)
    BY <1>3
  <2>2. <<>> \in Seq(Answer)
    OBVIOUS
  <2> QED BY <2>1, <2>2, <1>3, <1>7
<1>9. /\ x \in Client /\ x.context = [c.context EXCEPT ![role] = "closing"]
      /\ x.status = c.status /\ x.end = c.end /\ x.timer = c.timer /\ x.step = c.step
      /\ x.callbacks = c.callbacks /\ x.sent = c.sent /\ x.loading = c.loading
      /\ x.wait = c.wait /\ x.known = c.known /\ x.channel = c.channel
      /\ x.pending = c.pending
  <2>1. [c.context EXCEPT ![role] = "closing"] \in [Roles -> {"up", "closing", "freed"}]
    BY <1>1 DEF Client
  <2> QED BY <1>1, <2>1 DEF Client
<1>10. /\ x.context[role] = "closing" /\ \A o \in Roles \ {role} : x.context[o] = c.context[o]
       /\ Waiting(x)
  <2>1. DOMAIN c.context = Roles
    BY <1>1 DEF Client
  <2> QED BY <2>1, <1>2, <1>9 DEF Connecting, Waiting
<1>11. n = Settled(NullReplies(x, role), role)
  BY DEF Disconnected
<1> HIDE DEF x, n
<1>12. NullReplies(x, role) =
         IF x.callbacks[role] = <<>> THEN x
         ELSE Resume([x EXCEPT !.callbacks[role] = Tail(@)], Head(x.callbacks[role]),
                     [is |-> "null"], role)
  BY <1>6, <1>9 DEF NullReplies
<1>13. \A o \in Roles : c.context[o] = "up" \/ (c.context[o] = "freed" /\ o \in unheard)
  BY <1>2 DEF Connecting
<1>14. CASE c.callbacks[role] = <<>>
  <2>1. n = Released(x, role)
    BY <1>4, <1>9, <1>10, <1>11, <1>12, <1>14 DEF Settled, Released
  <2>2. /\ n \in Client
        /\ n.status = x.status /\ n.timer = x.timer /\ n.loading = x.loading
        /\ n.wait = x.wait /\ n.known = x.known /\ n.channel = x.channel
        /\ n.pending = x.pending /\ n.end = x.end /\ n.sent = x.sent /\ n.step = x.step
        /\ n.context[role] = "freed" /\ n.callbacks[role] = <<>>
        /\ \A o \in Roles \ {role} : n.context[o] = x.context[o] /\ n.callbacks[o] = x.callbacks[o]
    <3> DEFINE y == Released(x, role)
    <3>1. /\ y \in Client
          /\ y.status = x.status /\ y.timer = x.timer /\ y.loading = x.loading
          /\ y.wait = x.wait /\ y.known = x.known /\ y.channel = x.channel
          /\ y.pending = x.pending /\ y.end = x.end /\ y.sent = x.sent /\ y.step = x.step
          /\ y.context[role] = "freed" /\ y.callbacks[role] = <<>>
          /\ \A o \in Roles \ {role} : y.context[o] = x.context[o] /\ y.callbacks[o] = x.callbacks[o]
      <4>1. x \in Client
        BY <1>9
      <4> QED BY <4>1, ReleasedIs
    <3> HIDE DEF y
    <3>2. n = y
      BY <2>1 DEF y
    <3> QED BY <3>1, <3>2
  <2>3. unheard' = unheard \cup {role}
    BY <1>7, <1>14
  <2>4. \A o \in Roles : n.callbacks[o] = c.callbacks[o]
    BY <2>2, <1>9, <1>14
  <2>5. \A o \in Roles \ {role} : n.context[o] = c.context[o]
    BY <2>2, <1>10
  <2>6. Waiting(n)
    BY <2>2, <1>10 DEF Waiting
  <2>7. Asked(n) = Asked(c) /\ n.step = c.step /\ n.timer = c.timer /\ n.sent = c.sent
    BY <2>2, <1>9 DEF Asked
  <2>8. Connecting(n, unheard')
    <3>1. \A o \in Roles : n.context[o] = "up" \/ (n.context[o] = "freed" /\ o \in unheard')
      BY <2>2, <2>3, <2>5, <1>13
    <3>2. ASSUME NEW o \in Roles
          PROVE  \/ n.callbacks[o] = <<>>
                 \/ /\ n.callbacks[o] = <<Callback("connector", Asked(n))>>
                    /\ o = Steps[n.step].role
                    /\ n.context[o] = "up" /\ n.timer = "none"
      <4>1. CASE o = role
        BY <4>1, <2>2
      <4>2. CASE o # role
        BY <4>2, <2>4, <2>5, <2>7, <1>2 DEF Connecting
      <4> QED BY <4>1, <4>2
    <3>3. \/ n.callbacks[Steps[n.step].role] # <<>>
          \/ n.timer = "loading"
          \/ Missed(n, unheard')
      <4>1. Missed(c, unheard) => Missed(n, unheard')
        BY <2>3, <2>7 DEF Missed
      <4>2. Steps[c.step].role \in Roles
        BY <1>2, TheSteps DEF Connecting
      <4> QED BY <4>1, <4>2, <2>4, <2>7, <1>2 DEF Connecting
    <3> QED BY <3>1, <3>2, <3>3, <2>6, <2>7, <1>2 DEF Connecting
  <2>9. ASSUME NEW o \in Roles, n.context[o] = "up" PROVE Paired(n, o, answers'[o])
    <3>1. o # role /\ c.context[o] = "up"
      BY <2>2, <2>5, <2>9
    <3>2. answers'[o] = answers[o]
      BY <2>9, <1>7
    <3> QED BY <3>1, <3>2, <2>4, <2>7, <1>5 DEF Paired
  <2>10. n.status = "connecting" /\ n.end = "running"
    BY <2>2, <1>9, <1>4
  <2>11. Good(n, answers', {}, rules, unheard')
    BY <1>3, <1>8, <2>2, <2>8, <2>9, <2>10 DEF Good, Types
  <2>12. Fine(n, answers', {}, rules, unheard')
    BY <2>10, <2>11 DEF Fine
  <2> QED BY <2>12, <1>7, AgainFine DEF IInv
<1>15. CASE c.callbacks[role] # <<>>
  <2> DEFINE t == [x EXCEPT !.callbacks[role] = Tail(@)]
  <2>1. /\ c.callbacks[role] = <<Callback("connector", Asked(c))>>
        /\ role = Steps[c.step].role /\ c.timer = "none"
        /\ \A o \in Roles \ {role} : c.callbacks[o] = <<>>
    BY <1>2, <1>15 DEF Connecting
  <2>2. /\ Head(c.callbacks[role]).who = "connector"
        /\ Head(c.callbacks[role]).what.cmd = Steps[c.step].cmd
    BY <2>1 DEF Callback, Asked, Command
  <2>3. Tail(c.callbacks[role]) = <<>>
    <3>1. \A y : <<y>> \in Seq({y}) /\ Len(<<y>>) = 1
      OBVIOUS
    <3>2. \A y : Tail(<<y>>) = <<>>
      BY <3>1, TailOfOne
    <3> QED BY <3>2, <2>1
  <2>4. t \in Client
    <3> DEFINE K == [who : {"connector", "loader"}, what : [cmd : Commands, arg : Nat]]
    <3>1. x.callbacks \in [Roles -> Seq(K)]
      BY <1>9 DEF Client
    <3> HIDE DEF K
    <3>2. [x.callbacks EXCEPT ![role] = Tail(@)] \in [Roles -> Seq(K)]
      <4>1. Tail(x.callbacks[role]) = <<>> /\ <<>> \in Seq(K)
        BY <2>3, <1>9
      <4> QED BY <4>1, <3>1
    <3> QED BY <3>2, <1>9 DEF Client, K
  <2>5. /\ t.status = x.status /\ t.end = x.end /\ t.timer = x.timer /\ t.context = x.context
        /\ t.sent = x.sent /\ t.step = x.step /\ t.loading = x.loading /\ t.wait = x.wait
        /\ t.known = x.known /\ t.channel = x.channel /\ t.pending = x.pending
        /\ t.callbacks = [x.callbacks EXCEPT ![role] = Tail(@)]
    BY <1>9 DEF Client
  <2>6. NullReplies(x, role) = Connector(t, [is |-> "null"], role)
    <3>1. x.callbacks[role] # <<>> /\ Head(x.callbacks[role]).who = "connector"
      BY <2>2, <1>9, <1>15
    <3> HIDE DEF t
    <3>2. NullReplies(x, role) = Resume(t, Head(x.callbacks[role]), [is |-> "null"], role)
      BY <3>1, <1>12 DEF t
    <3> QED BY <3>1, <3>2 DEF Resume
  <2> HIDE DEF t
  <2>7. \A o \in Roles : t.callbacks[o] = <<>>
    <3>1. DOMAIN x.callbacks = Roles
      BY <1>9 DEF Client
    <3>2. t.callbacks[role] = Tail(x.callbacks[role])
      BY <3>1, <2>5
    <3>3. Tail(x.callbacks[role]) = <<>>
      BY <2>3, <1>9
    <3>4. \A o \in Roles \ {role} : t.callbacks[o] = x.callbacks[o]
      BY <3>1, <2>5
    <3>5. \A o \in Roles \ {role} : x.callbacks[o] = <<>>
      <4>1. x.callbacks = c.callbacks
        BY <1>9
      <4> QED BY <4>1, <2>1
    <3>6. t.callbacks[role] = <<>>
      BY <3>2, <3>3
    <3>7. \A o \in Roles \ {role} : t.callbacks[o] = <<>>
      BY <3>4, <3>5
    <3> QED BY <3>6, <3>7
  <2>8. Waiting(t) /\ t.context[role] = "closing"
        /\ \A o \in Roles \ {role} : t.context[o] = c.context[o]
    BY <2>5, <1>10 DEF Waiting
  <2>9. ASSUME NEW o \in Roles \ {role}, c.context[o] = "up"
        PROVE  c.sent[o] = <<>> /\ answers'[o] = <<>>
    BY <2>1, <2>9, <1>5, <1>7 DEF Paired
  <2>10. t.step \in 1 .. Len(Steps) /\ t.step = c.step
    BY <2>5, <1>9, <1>2 DEF Connecting
  <2>11. Steps[t.step].cmd # "hset" => Connector(t, [is |-> "null"], role) = Fail(t, role)
    BY DEF Connector
  <2>12. Steps[t.step].cmd = "hset" => Connector(t, [is |-> "null"], role) = Proceed(t, t.step + 1)
    BY DEF Connector
  <2>13. CASE Steps[t.step].cmd # "hset"
    <3>1. Failing(t, role, unheard')
      <4>1. unheard \subseteq unheard'
        BY <1>7
      <4> QED BY <4>1, <2>5, <2>7, <2>8, <1>4, <1>9, <1>13 DEF Failing
    <3>2. Fine(Settled(Fail(t, role), role), answers', {}, rules, unheard')
      BY <3>1, <2>4, <1>3, <1>8, FailFine
    <3>3. n = Settled(Fail(t, role), role)
      BY <2>6, <2>11, <2>13, <1>11
    <3>4. Fine(n, answers', {}, rules, unheard')
      BY <3>2, <3>3
    <3> QED BY <3>4, <1>7, AgainFine DEF IInv
  <2>14. CASE Steps[t.step].cmd = "hset"
    <3>1. role = "ctx" /\ unheard' = unheard \cup {role}
      BY <2>1, <2>2, <2>10, <2>14, <1>7, TheSteps
    <3>2. /\ t.context["sub_ctx"] = "up" \/ (t.context["sub_ctx"] = "freed" /\ "sub_ctx" \in unheard')
          /\ t.context["sub_ctx"] = "up" => t.sent["sub_ctx"] = <<>> /\ answers'["sub_ctx"] = <<>>
      BY <3>1, <2>5, <2>8, <2>9, <1>9, <1>13 DEF Roles
    <3>3. /\ t.status = "connecting" /\ t.end = "running" /\ t.timer = "none"
          /\ t.context["ctx"] = "closing" /\ "ctx" \in unheard'
      BY <3>1, <2>1, <2>5, <2>8, <1>4, <1>9
    <3>4. Fine(Settled(Proceed(t, t.step + 1), "ctx"), answers', {}, rules, unheard')
      BY <3>2, <3>3, <2>4, <2>7, <2>8, <2>10, <2>14, <1>3, <1>8, HsetLost
    <3>5. n = Settled(Proceed(t, t.step + 1), "ctx")
      BY <3>1, <2>6, <2>12, <2>14, <1>11
    <3>6. Fine(n, answers', {}, rules, unheard')
      BY <3>4, <3>5
    <3> QED BY <3>6, <1>7, AgainFine DEF IInv
  <2> QED BY <2>13, <2>14
<1> QED BY <1>14, <1>15

\* The tail of a sequence holds what comes after its head.
LEMMA TailIs ==
  ASSUME NEW S, NEW a \in Seq(S), a # <<>>
  PROVE  /\ Tail(a) \in Seq(S) /\ 1 \in DOMAIN a /\ Head(a) = a[1] /\ Head(a) \in S
         /\ \A i \in DOMAIN Tail(a) :
              i \in Nat /\ i # 0 /\ i + 1 \in DOMAIN a /\ i + 1 # 1 /\ Tail(a)[i] = a[i + 1]
         /\ \A i \in DOMAIN a :
              i \in Nat /\ (i = 1 \/ (i - 1 \in DOMAIN Tail(a) /\ Tail(a)[i - 1] = a[i]))
<1>1. Len(a) \in Nat \ {0}
  BY EmptySeq
<1>2. Tail(a) \in Seq(S) /\ Len(Tail(a)) = Len(a) - 1
  BY HeadTailProperties
<1>3. \A i \in 1 .. Len(a) - 1 : Tail(a)[i] = a[i + 1]
  OBVIOUS
<1>4. DOMAIN a = 1 .. Len(a) /\ DOMAIN Tail(a) = 1 .. Len(a) - 1
  BY <1>2
<1>5. 1 \in DOMAIN a /\ Head(a) = a[1] /\ Head(a) \in S
  BY <1>1, <1>4
<1> QED BY <1>1, <1>2, <1>3, <1>4, <1>5

\* A longer sequence holds what was there and what is added.
LEMMA AppendIs ==
  ASSUME NEW S, NEW a \in Seq(S), NEW x \in S
  PROVE  /\ Append(a, x) \in Seq(S)
         /\ Len(a) + 1 \in DOMAIN Append(a, x) /\ Append(a, x)[Len(a) + 1] = x
         /\ \A i \in DOMAIN a : i \in DOMAIN Append(a, x) /\ Append(a, x)[i] = a[i]
         /\ \A i \in DOMAIN Append(a, x) :
              (i = Len(a) + 1 /\ Append(a, x)[i] = x)
                \/ (i \in DOMAIN a /\ Append(a, x)[i] = a[i])
<1>1. DOMAIN a = 1 .. Len(a) /\ DOMAIN Append(a, x) = 1 .. Len(a) + 1 /\ Len(a) \in Nat
  OBVIOUS
<1>2. \A i \in 1 .. Len(a) : Append(a, x)[i] = a[i]
  OBVIOUS
<1>3. Append(a, x)[Len(a) + 1] = x /\ Append(a, x) \in Seq(S)
  OBVIOUS
<1> QED BY <1>1, <1>2, <1>3

\* The news of what is left, and of what was taken.
LEMMA NewsTail ==
  ASSUME NEW a \in Seq(Answer), a # <<>>, NEW n
  PROVE  News(a, n) = News(Tail(a), n) \cup
                        (IF Head(a).is = "create" /\ Head(a).ch = n THEN {Head(a).of} ELSE {})
<1> DEFINE t == Tail(a)
<1>1. /\ 1 \in DOMAIN a /\ Head(a) = a[1]
      /\ \A i \in DOMAIN t : i + 1 \in DOMAIN a /\ t[i] = a[i + 1]
      /\ \A i \in DOMAIN a : i = 1 \/ (i - 1 \in DOMAIN t /\ t[i - 1] = a[i])
  BY TailIs
<1> HIDE DEF t
<1>2. ASSUME NEW x \in News(a, n)
      PROVE  x \in News(t, n) \/ (a[1].is = "create" /\ a[1].ch = n /\ x = a[1].of)
  <2>1. PICK i \in DOMAIN a : a[i].is = "create" /\ a[i].ch = n /\ x = a[i].of
    BY <1>2 DEF News
  <2>2. CASE i = 1
    BY <2>1, <2>2
  <2>3. CASE i # 1
    <3>1. i - 1 \in DOMAIN t /\ t[i - 1] = a[i]
      BY <1>1, <2>3
    <3> QED BY <3>1, <2>1 DEF News
  <2> QED BY <2>2, <2>3
<1>3. ASSUME NEW x \in News(t, n) PROVE x \in News(a, n)
  <2>1. PICK i \in DOMAIN t : t[i].is = "create" /\ t[i].ch = n /\ x = t[i].of
    BY <1>3 DEF News
  <2>2. i + 1 \in DOMAIN a /\ t[i] = a[i + 1]
    BY <1>1
  <2> QED BY <2>1, <2>2 DEF News
<1>4. a[1].is = "create" /\ a[1].ch = n => a[1].of \in News(a, n)
  BY <1>1 DEF News
<1> QED BY <1>1, <1>2, <1>3, <1>4 DEF t

\* And what is added.
LEMMA NewsAppend ==
  ASSUME NEW a \in Seq(Answer), NEW x \in Answer, NEW n
  PROVE  News(Append(a, x), n) =
           News(a, n) \cup (IF x.is = "create" /\ x.ch = n THEN {x.of} ELSE {})
<1> DEFINE t == Append(a, x)
           k == Len(a) + 1
<1>1. /\ k \in DOMAIN t /\ t[k] = x
      /\ \A i \in DOMAIN a : i \in DOMAIN t /\ t[i] = a[i]
      /\ \A i \in DOMAIN t : (i = k /\ t[i] = x) \/ (i \in DOMAIN a /\ t[i] = a[i])
  BY AppendIs
<1> HIDE DEF t, k
<1>2. ASSUME NEW y \in News(t, n)
      PROVE  y \in News(a, n) \/ (x.is = "create" /\ x.ch = n /\ y = x.of)
  <2>1. PICK i \in DOMAIN t : t[i].is = "create" /\ t[i].ch = n /\ y = t[i].of
    BY <1>2 DEF News
  <2> QED BY <1>1, <2>1 DEF News
<1>3. ASSUME NEW y \in News(a, n) PROVE y \in News(t, n)
  BY <1>1, <1>3 DEF News
<1>4. x.is = "create" /\ x.ch = n => x.of \in News(t, n)
  BY <1>1 DEF News
<1> QED BY <1>2, <1>3, <1>4 DEF t

\* A message is taken that no coroutine waits for.
Unmoved(n, m) ==
  /\ n.status = m.status /\ n.end = m.end /\ n.timer = m.timer /\ n.pending = m.pending
  /\ n.context = m.context /\ n.callbacks = m.callbacks /\ n.sent = m.sent
  /\ n.step = m.step /\ n.loading = m.loading /\ n.wait = m.wait /\ n.known = m.known
\* The invariant holds of what is left.
LEMMA QuietFine ==
  ASSUME NEW m \in Client, NEW n \in Client, NEW s \in SUBSET Channels, NEW u \in SUBSET Roles,
         NEW r \in [1 .. Rulesets -> Nat],
         NEW a \in [Roles -> Seq(Answer)], NEW b \in [Roles -> Seq(Answer)],
         Good(m, a, s, r, u), m.status = "ready", Unmoved(n, m),
         a["sub_ctx"] # <<>>, b["sub_ctx"] = Tail(a["sub_ctx"]),
         m.context["ctx"] = "up" => b["ctx"] = a["ctx"],
         \A ch \in Channels :
           \/ n.channel[ch] = m.channel[ch]
           \/ n.channel[ch] = "none" /\ ch = m.loading /\ m.wait = "unsubscribed",
         \A k \in m.known \cap s : n.rulesets[k] \cup News(b["sub_ctx"], k) = 1 .. r[k],
         m.wait = "read" => News(b["sub_ctx"], m.loading) = News(a["sub_ctx"], m.loading)
  PROVE  Good(n, b, s, r, u)
<1> DEFINE w == m.sent["sub_ctx"]
           x == a["sub_ctx"]
           y == b["sub_ctx"]
<1>1. /\ Steady(m, u) /\ Subs(m, x) /\ Once(m, x) /\ Agrees(m, a, s, r)
      /\ m.context["ctx"] = "up" => Paired(m, "ctx", a["ctx"])
  BY DEF Good
<1>2. /\ \A i \in DOMAIN y : i \in Nat /\ i + 1 \in DOMAIN x /\ y[i] = x[i + 1]
  BY TailIs DEF Roles
<1>3. Steady(n, u)
  <2>1. n.channel[0] = "plain"
    <3>1. m.channel[0] = "plain" /\ (m.wait # "done" => m.loading \in 1 .. Rulesets)
      BY <1>1 DEF Steady
    <3>2. m.wait = "unsubscribed" => m.loading # 0
      BY <3>1, Sizes
    <3>3. 0 \in Channels
      BY Sizes DEF Channels
    <3> QED BY <3>1, <3>2, <3>3
  <2>2. \A ch \in Channels : n.channel[ch] = "wrapped" => ch = n.loading /\ n.wait = "ack"
    BY <1>1 DEF Steady, Unmoved
  <2>3. n.wait # "done" => n.loading \in 1 .. Rulesets /\ n.loading \in Channels
    BY <1>1, Sizes DEF Steady, Unmoved, Channels
  <2>4. /\ n.wait = "ack" => n.channel[n.loading] = "wrapped"
        /\ n.wait = "read" => n.channel[n.loading] = "plain"
    BY <1>1, <2>3 DEF Steady, Unmoved
  <2>5. \A k \in n.known : n.channel[k] = "plain"
    <3>1. m.loading \in Nat
      BY Sizes DEF Client
    <3>2. \A k \in m.known : k # m.loading /\ k \in Channels
      BY <3>1, <1>1, Sizes DEF Steady, Channels, Client
    <3> QED BY <3>2, <1>1 DEF Steady, Unmoved
  <2> QED BY <2>1, <2>2, <2>3, <2>4, <2>5, <1>1 DEF Steady, Unmoved
<1>4. Subs(n, y)
  BY <1>1, <1>2 DEF Subs, Unmoved
<1>5. Once(n, y)
  <2>1. \A i, j \in DOMAIN y :
           y[i].is = "ack" /\ y[j].is = "ack" /\ y[i].ch = y[j].ch /\ y[i].ch # 0 => i = j
    <3>1. ASSUME NEW i \in DOMAIN y, NEW j \in DOMAIN y,
                 y[i].is = "ack", y[j].is = "ack", y[i].ch = y[j].ch, y[i].ch # 0
          PROVE  i = j
      <4>1. i + 1 = j + 1
        BY <1>1, <1>2, <3>1 DEF Once
      <4> QED BY <4>1, <1>2
    <3> QED BY <3>1
  <2> QED BY <2>1, <1>1, <1>2 DEF Once, Unmoved
<1>6. n.context["ctx"] = "up" => Paired(n, "ctx", b["ctx"])
  BY <1>1 DEF Paired, Unmoved
<1>7. Agrees(n, b, s, r)
  <2>1. \A k : News(y, k) \subseteq News(x, k)
    BY NewsTail DEF Roles
  <2>2. \A k \in 1 .. Rulesets : News(y, k) \subseteq 1 .. r[k]
    BY <2>1, <1>1 DEF Agrees
  <2>3. n.wait = "read" => b["ctx"] = a["ctx"]
    BY <1>1 DEF Steady, Unmoved
  <2> QED BY <2>2, <2>3, <1>1 DEF Agrees, Unmoved
<1>8. Types(n, b, s, r, u)
  BY DEF Types
<1> QED BY <1>3, <1>4, <1>5, <1>6, <1>7, <1>8 DEF Good, Unmoved

\* The first message on the context of subscriptions is taken.
Taken(m, a, b, s, r, u) ==
  /\ Good(m, a, s, r, u) /\ m.status = "ready" /\ m.end = "running"
  /\ a["sub_ctx"] # <<>> /\ b["sub_ctx"] = Tail(a["sub_ctx"])
  /\ m.context["ctx"] = "up" => b["ctx"] = a["ctx"]
\* The acknowledgement that the loader waits for: it asks for the ruleset.
Acknowledged(d, m, msg) ==
  /\ Unmoved(d, m) /\ d.rulesets = m.rulesets
  /\ msg.is = "ack" /\ msg.ch \in Channels /\ m.channel[msg.ch] = "wrapped"
  /\ d.channel = [m.channel EXCEPT ![msg.ch] = "plain"]
\* The acknowledgement was the only one, so that nothing else resumes it.
LEMMA AckedFine ==
  ASSUME NEW m \in Client, NEW s \in SUBSET Channels, NEW u \in SUBSET Roles,
         NEW r \in [1 .. Rulesets -> Nat],
         NEW a \in [Roles -> Seq(Answer)], NEW b \in [Roles -> Seq(Answer)],
         Taken(m, a, b, s, r, u),
         NEW d \in Client, NEW msg, msg = Head(a["sub_ctx"]), Acknowledged(d, m, msg)
  PROVE  Fine(Loader(d, msg), b, s, r, u) /\ Loader(d, msg).context = m.context
<1> USE DEF Roles
<1> DEFINE w == m.sent["sub_ctx"]
           x == a["sub_ctx"]
           y == b["sub_ctx"]
           e == [d EXCEPT !.wait = "read"]
           what == Command("read", m.loading)
           n == Loader(d, msg)
<1> DEFINE ch == msg.ch
<1>0. /\ Good(m, a, s, r, u) /\ m.status = "ready" /\ m.end = "running"
      /\ x # <<>> /\ y = Tail(x) /\ (m.context["ctx"] = "up" => b["ctx"] = a["ctx"])
      /\ Unmoved(d, m) /\ d.rulesets = m.rulesets
      /\ msg.is = "ack" /\ ch \in Channels /\ m.channel[ch] = "wrapped"
      /\ d.channel = [m.channel EXCEPT ![ch] = "plain"]
      /\ Head(x).is = "ack" /\ Head(x).ch = ch
  BY DEF Taken, Acknowledged
<1> HIDE DEF ch
<1>1. /\ Steady(m, u) /\ Subs(m, x) /\ Once(m, x) /\ Agrees(m, a, s, r)
      /\ m.context["ctx"] = "up" => Paired(m, "ctx", a["ctx"])
  BY <1>0 DEF Good
<1>2. ch = m.loading /\ m.wait = "ack" /\ ch # 0 /\ ch \in 1 .. Rulesets
  BY <1>0, <1>1 DEF Steady
<1>4. d.loading = m.loading /\ d.wait = m.wait
  BY <1>0 DEF Unmoved
<1>5. /\ e \in Client
      /\ e.status = m.status /\ e.end = m.end /\ e.timer = m.timer /\ e.pending = m.pending
      /\ e.context = m.context /\ e.callbacks = m.callbacks /\ e.sent = m.sent
      /\ e.step = m.step /\ e.loading = m.loading /\ e.wait = "read" /\ e.known = m.known
      /\ e.rulesets = m.rulesets /\ e.channel = [m.channel EXCEPT ![ch] = "plain"]
  BY <1>0 DEF Client, Unmoved
<1>6. n = Issue(e, "ctx", "loader", what)
  BY <1>2, <1>4 DEF Loader
<1>7. \A i \in DOMAIN y : i \in Nat /\ i # 0 /\ i + 1 \in DOMAIN x /\ i + 1 # 1 /\ y[i] = x[i + 1]
  BY <1>0, TailIs
<1>8. 1 \in DOMAIN x /\ Head(x) = x[1]
  BY <1>0, TailIs
<1> HIDE DEF e, n
<1>9. CASE m.context["ctx"] = "freed"
  <2>1. n.end = "freed" /\ n.context = m.context
    BY <1>9, <1>5, <1>6 DEF Issue, Client
  <2>2. u # {}
    BY <1>1, <1>2, <1>9 DEF Steady
  <2> QED BY <2>1, <2>2 DEF Fine, n
<1>10. CASE m.context["ctx"] = "up"
  <2>1. what \in [cmd : Commands, arg : Nat] /\ what.cmd = "read" /\ what.arg = m.loading
    <3>1. m.loading \in Nat
      BY <1>2
    <3> QED BY <3>1 DEF Command, Commands
  <2>2. n = Called(e, "ctx", "loader", what)
    <3>1. e \in Client /\ e.context["ctx"] = "up"
      BY <1>5, <1>10
    <3> HIDE DEF what
    <3> QED BY <3>1, <1>6, <2>1, IssueCall
  <2>3. n \in Client
    BY <1>5, <2>1, <2>2, CalledType
  <2> HIDE DEF what
  <2>4. /\ n.status = m.status /\ n.end = m.end /\ n.timer = m.timer /\ n.pending = m.pending
        /\ n.context = m.context /\ n.loading = m.loading /\ n.wait = "read"
        /\ n.known = m.known /\ n.rulesets = m.rulesets
        /\ n.channel = [m.channel EXCEPT ![ch] = "plain"]
        /\ n.sent = [m.sent EXCEPT !["ctx"] = Append(@, what)]
        /\ n.callbacks = [m.callbacks EXCEPT !["ctx"] = Append(@, Callback("loader", what))]
    BY <1>5, <2>2 DEF Called, Client
  <2>5. m.callbacks["ctx"] = <<>> /\ m.sent["ctx"] = <<>> /\ a["ctx"] = <<>>
    BY <1>1, <1>2, <1>10 DEF Steady, Paired
  <2>6. /\ DOMAIN m.sent = Roles /\ DOMAIN m.callbacks = Roles /\ DOMAIN m.channel = Channels
    BY DEF Client
  <2>7. /\ n.sent["ctx"] = <<what>> /\ n.callbacks["ctx"] = <<Callback("loader", what)>>
        /\ n.sent["sub_ctx"] = w /\ n.callbacks["sub_ctx"] = m.callbacks["sub_ctx"]
    <3>1. \A z : Append(<<>>, z) = <<z>>
      OBVIOUS
    <3> QED BY <3>1, <2>4, <2>5, <2>6
  <2>8. Steady(n, u)
    <3>1. n.channel[ch] = "plain" /\ \A k \in Channels \ {ch} : n.channel[k] = m.channel[k]
      BY <1>0, <2>4, <2>6
    <3>2. \A k \in m.known : k \in Channels
      BY Sizes DEF Client, Channels
    <3>3. \A k \in Channels : n.channel[k] # "wrapped"
      BY <3>1, <1>1, <1>2 DEF Steady
    <3>4. \A k \in n.known : n.channel[k] = "plain"
      BY <3>1, <3>2, <2>4, <1>1 DEF Steady
    <3>5. n.channel[0] = "plain"
      <4>1. 0 \in Channels \ {ch}
        BY <1>2, Sizes DEF Channels
      <4> QED BY <4>1, <3>1, <1>1 DEF Steady
    <3> QED BY <3>1, <3>3, <3>4, <3>5, <2>4, <2>7, <1>1, <1>2, <1>10 DEF Steady, what
  <2>9. Subs(n, y)
    <3>1. \A i \in DOMAIN w : w[i].cmd = "subscribe" => w[i].arg # m.loading
      BY <1>0, <1>1, <1>2, <1>8 DEF Once
    <3>2. \A i \in DOMAIN y : y[i].is = "ack" => y[i].ch # m.loading
      BY <1>0, <1>1, <1>2, <1>7, <1>8 DEF Once
    <3>3. \A i \in DOMAIN w : w[i].cmd = "subscribe" /\ w[i].arg = 0
      BY <3>1, <1>1, <1>2 DEF Subs
    <3>4. \A i \in DOMAIN y :
             (y[i].is = "ack" /\ y[i].ch = 0) \/ y[i].is \in Published
      BY <3>2, <1>1, <1>2, <1>7 DEF Subs
    <3> QED BY <3>3, <3>4, <2>7 DEF Subs
  <2>10. Once(n, y)
    <3>1. ASSUME NEW i \in DOMAIN y, NEW j \in DOMAIN y,
                 y[i].is = "ack", y[j].is = "ack", y[i].ch = y[j].ch, y[i].ch # 0
          PROVE  i = j
      <4>1. i + 1 = j + 1
        BY <1>1, <1>7, <3>1 DEF Once
      <4> QED BY <4>1, <1>7
    <3> QED BY <3>1, <2>7, <1>1, <1>7 DEF Once
  <2>11. Paired(n, "ctx", b["ctx"])
    BY <1>0, <2>5, <2>7, <1>10 DEF Paired, Callback
  <2>12. Agrees(n, b, s, r)
    <3>1. \A k : News(y, k) = News(x, k)
      <4>1. x \in Seq(Answer) /\ x # <<>> /\ Head(x).is # "create" /\ y = Tail(x)
        BY <1>0
      <4> HIDE DEF x, y
      <4>2. ASSUME NEW k PROVE News(x, k) = News(Tail(x), k)
        <5>1. News(x, k) = News(Tail(x), k) \cup
                             (IF Head(x).is = "create" /\ Head(x).ch = k THEN {Head(x).of} ELSE {})
          BY <4>1, NewsTail
        <5> QED BY <4>1, <5>1
      <4> QED BY <4>1, <4>2
    <3>2. b["ctx"] = <<>>
      BY <1>0, <1>10, <2>5
    <3> QED BY <1>0, <3>1, <3>2, <2>4, <1>1 DEF Agrees
  <2>13. Good(n, b, s, r, u)
    BY <1>0, <2>3, <2>4, <2>8, <2>9, <2>10, <2>11, <2>12 DEF Good, Types
  <2>14. Fine(n, b, s, r, u) /\ n.context = m.context
    BY <1>0, <2>4, <2>13 DEF Fine
  <2> QED BY <1>0, <2>14 DEF n
<1> QED BY <1>9, <1>10, <1>1 DEF Steady

\* Whatever the first message is.
LEMMA PushedFine ==
  ASSUME NEW m \in Client, NEW s \in SUBSET Channels, NEW u \in SUBSET Roles,
         NEW r \in [1 .. Rulesets -> Nat],
         NEW a \in [Roles -> Seq(Answer)], NEW b \in [Roles -> Seq(Answer)],
         Taken(m, a, b, s, r, u)
  PROVE  LET n == Pushed(m, Head(a["sub_ctx"]))
         IN  Fine(n, b, s, r, u) /\ n.context = m.context
<1> USE DEF Roles
<1>0. /\ Good(m, a, s, r, u) /\ m.status = "ready" /\ m.end = "running"
      /\ a["sub_ctx"] # <<>> /\ b["sub_ctx"] = Tail(a["sub_ctx"])
      /\ m.context["ctx"] = "up" => b["ctx"] = a["ctx"]
  BY DEF Taken
<1> USE <1>0
<1> DEFINE x == a["sub_ctx"]
           y == b["sub_ctx"]
           msg == Head(x)
           ch == msg.ch
           kind == m.channel[ch]
           d == [m EXCEPT !.channel[ch] = Afterwards(kind)]
           n == Pushed(m, msg)
<1>1. /\ Steady(m, u) /\ Subs(m, x) /\ Once(m, x) /\ Agrees(m, a, s, r)
  BY DEF Good
<1>2. x \in Seq(Answer) /\ x # <<>> /\ y = Tail(x) /\ y \in Seq(Answer)
  BY TailIs
<1>3. /\ msg \in Answer
      /\ \/ msg.is = "ack" /\ ch = 0
         \/ msg.is = "ack" /\ ch = m.loading /\ m.wait = "ack"
         \/ msg.is = "unsubscribed" /\ ch = m.loading /\ m.wait = "unsubscribed"
         \/ msg.is \in Published
  <2>1. 1 \in DOMAIN x /\ msg = x[1] /\ msg \in Answer
    BY TailIs
  <2> QED BY <2>1, <1>1 DEF Subs
<1>4. /\ msg.is \in {"ack", "unsubscribed"} \cup Published /\ ch \in Channels
      /\ msg.is \in Published => ch \in 1 .. Rulesets /\ msg.of \in Nat
  <2>1. msg.is \in {"ack", "unsubscribed"} \cup Published
    BY <1>3
  <2> HIDE DEF msg
  <2>2. \/ msg \in [is : {"ack", "unsubscribed"}, ch : Channels]
        \/ msg \in [is : Published, ch : 1 .. Rulesets, of : Nat]
    BY <2>1, <1>3 DEF Answer
  <2>3. 1 .. Rulesets \subseteq Channels
    BY Sizes DEF Channels
  <2> QED BY <2>1, <2>2, <2>3
<1>5. \A k : News(x, k) = News(y, k) \cup
                  (IF msg.is = "create" /\ ch = k THEN {msg.of} ELSE {})
  <2> HIDE DEF x, y
  <2>1. ASSUME NEW k
        PROVE  News(x, k) = News(Tail(x), k) \cup
                  (IF Head(x).is = "create" /\ Head(x).ch = k THEN {Head(x).of} ELSE {})
    BY <1>2, NewsTail
  <2> QED BY <2>1, <1>2
<1>51. msg.is # "create" => \A k : News(x, k) = News(y, k)
  <2> HIDE DEF x, y, msg, ch
  <2> QED BY <1>5
<1>6. m.loading \notin m.known /\ \A k \in m.known : k \in Channels /\ m.channel[k] = "plain"
  <2>1. m.loading \in Nat /\ m.known \subseteq 1 .. Rulesets
    BY Sizes DEF Client
  <2>2. \A k \in m.known : k \in Channels
    BY <2>1, Sizes DEF Channels
  <2>3. m.known \subseteq 1 .. m.loading - 1
    BY <1>1 DEF Steady
  <2>4. m.loading \notin m.known
    BY <2>1, <2>3
  <2> QED BY <2>2, <2>4, <1>1 DEF Steady
<1>7. \A k \in m.known \cap s : m.rulesets[k] \cup News(x, k) = 1 .. r[k]
  BY <1>1 DEF Agrees
<1>8. m.wait = "read" => m.channel[m.loading] = "plain" /\ m.loading # 0
  BY <1>1 DEF Steady
<1>9. /\ d \in Client /\ Unmoved(d, m) /\ d.rulesets = m.rulesets
      /\ d.channel = [m.channel EXCEPT ![ch] = Afterwards(kind)]
  <2>1. [m.channel EXCEPT ![ch] = Afterwards(kind)] \in [Channels -> {"none", "wrapped", "plain"}]
    BY DEF Client, Afterwards
  <2> HIDE DEF msg
  <2>2. d \in Client
    BY <2>1 DEF Client
  <2>3. d.channel = [m.channel EXCEPT ![ch] = Afterwards(kind)]
    BY DEF Client
  <2>4. Unmoved(d, m) /\ d.rulesets = m.rulesets
    BY DEF Client, Unmoved
  <2> QED BY <2>2, <2>3, <2>4
<1>10. CASE kind = "none"
  <2>1. n = m
    BY <1>10 DEF Pushed
  <2>2. ASSUME NEW k, k # ch PROVE News(x, k) = News(y, k)
    <3>1. News(x, k) = News(y, k) \cup
                  (IF msg.is = "create" /\ ch = k THEN {msg.of} ELSE {})
      BY <1>5
    <3> QED BY <2>2, <3>1
  <2>21. \A k \in m.known : k # ch
    BY <1>6, <1>10
  <2>22. m.wait = "read" => m.loading # ch
    BY <1>8, <1>10
  <2>3. m.wait = "read" => News(y, m.loading) = News(x, m.loading)
    BY <2>2, <2>22
  <2>4. \A k \in m.known \cap s : m.rulesets[k] \cup News(y, k) = 1 .. r[k]
    BY <2>2, <2>21, <1>7
  <2>5. Unmoved(m, m)
    BY DEF Unmoved
  <2> HIDE DEF n
  <2>6. Good(m, b, s, r, u)
    BY <2>3, <2>4, <2>5, QuietFine
  <2>7. Fine(m, b, s, r, u)
    BY <2>6 DEF Fine
  <2> QED BY <2>1, <2>7 DEF n, msg, x
<1>11. CASE kind # "none" /\ msg.is = "unsubscribed"
  <2> DEFINE e == [m EXCEPT !.channel[ch] = "none"]
  <2>1. n = e
    BY <1>11 DEF Pushed
  <2>2. e \in Client
    <3>1. [m.channel EXCEPT ![ch] = "none"] \in [Channels -> {"none", "wrapped", "plain"}]
      BY DEF Client
    <3> QED BY <3>1 DEF Client
  <2>3. Unmoved(e, m) /\ e.rulesets = m.rulesets /\ e.channel = [m.channel EXCEPT ![ch] = "none"]
    <3> HIDE DEF msg
    <3> QED BY DEF Client, Unmoved
  <2> HIDE DEF e, n
  <2>4. \A k : News(x, k) = News(y, k)
    <3> HIDE DEF x, y, msg, ch, kind
    <3> QED BY <1>51, <1>11
  <2>5. DOMAIN m.channel = Channels
    BY DEF Client
  <2>6. \A k \in Channels :
           \/ e.channel[k] = m.channel[k]
           \/ e.channel[k] = "none" /\ k = m.loading /\ m.wait = "unsubscribed"
    BY <2>3, <2>5, <1>3, <1>11
  <2>7. \A k \in m.known \cap s : e.rulesets[k] \cup News(y, k) = 1 .. r[k]
    BY <2>3, <2>4, <1>7
  <2>8. m.wait = "read" => News(y, m.loading) = News(x, m.loading)
    BY <2>4
  <2>9. Good(e, b, s, r, u)
    BY <2>2, <2>3, <2>6, <2>7, <2>8, QuietFine
  <2>10. Fine(e, b, s, r, u) /\ e.context = m.context
    BY <2>3, <2>9 DEF Fine, Unmoved
  <2> QED BY <2>1, <2>10 DEF n, msg, x
<1>12. CASE kind = "plain" /\ msg.is = "ack"
  <2>1. n = d
    BY <1>12 DEF Pushed
  <2> HIDE DEF d, n
  <2>2. \A k : News(x, k) = News(y, k)
    <3> HIDE DEF x, y, msg, ch, kind
    <3> QED BY <1>51, <1>12
  <2>3. DOMAIN m.channel = Channels
    BY DEF Client
  <2>4. \A k \in Channels : d.channel[k] = m.channel[k]
    BY <2>3, <1>9, <1>12 DEF Afterwards
  <2>5. \A k \in m.known \cap s : d.rulesets[k] \cup News(y, k) = 1 .. r[k]
    BY <2>2, <1>7, <1>9
  <2>6. m.wait = "read" => News(y, m.loading) = News(x, m.loading)
    BY <2>2
  <2>61. \A k \in Channels :
           \/ d.channel[k] = m.channel[k]
           \/ d.channel[k] = "none" /\ k = m.loading /\ m.wait = "unsubscribed"
    BY <2>4
  <2>62. d \in Client /\ Unmoved(d, m)
    BY <1>9
  <2>7. Good(d, b, s, r, u)
    BY <2>61, <2>5, <2>6, <2>62, QuietFine
  <2>8. Fine(d, b, s, r, u) /\ d.context = m.context
    BY <2>7, <1>9 DEF Fine, Unmoved
  <2> QED BY <2>1, <2>8 DEF n, msg, x
<1>13. CASE kind = "wrapped" /\ msg.is = "ack"
  <2>2. d.end = "running"
    BY <1>9 DEF Unmoved
  <2> HIDE DEF d
  <2>3. n = Loader(d, msg)
    BY <1>13, <2>2 DEF Pushed, d
  <2> HIDE DEF n
  <2>4. Fine(Loader(d, msg), b, s, r, u) /\ Loader(d, msg).context = m.context
    <3> DEFINE h == Head(a["sub_ctx"])
    <3>1. Acknowledged(d, m, h)
      BY <1>4, <1>9, <1>13 DEF Afterwards, Acknowledged
    <3>2. d \in Client /\ h = msg
      BY <1>9
    <3> HIDE DEF msg, h
    <3>4. Fine(Loader(d, h), b, s, r, u) /\ Loader(d, h).context = m.context
      <4>1. Taken(m, a, b, s, r, u) /\ h = Head(a["sub_ctx"])
        BY DEF h
      <4> HIDE <1>0
      <4> QED BY <3>1, <3>2, <4>1, AckedFine, SMTT(30)
    <3> QED BY <3>2, <3>4
  <2>5. Fine(n, b, s, r, u) /\ n.context = m.context
    BY <2>3, <2>4
  <2> QED BY <2>5 DEF n, msg, x
<1>14. CASE kind # "none" /\ msg.is \in Published
  <2> DEFINE e == [d EXCEPT !.rulesets[ch] = @ \cup {msg.of}]
             z == Updater(d, msg)
  <2>1. d.end = "running" /\ d.known = m.known /\ d.context = m.context
    BY <1>9 DEF Unmoved
  <2> HIDE DEF d
  <2>2. CASE msg.is = "create" /\ ch \in m.known /\ msg.of \notin d.rulesets[ch]
    <3>1. z = e
      BY <2>1, <2>2 DEF Updater
    <3>2. kind = "plain"
      BY <2>2, <1>6
    <3>3. n = e
      BY <3>1, <3>2, <1>14 DEF Pushed, d
    <3>4. d.rulesets \in [1 .. Rulesets -> SUBSET Nat] /\ ch \in 1 .. Rulesets /\ msg.of \in Nat
      BY <1>9, <1>4, <1>14 DEF Client
    <3>5. e \in Client
      <4>1. [d.rulesets EXCEPT ![ch] = @ \cup {msg.of}] \in [1 .. Rulesets -> SUBSET Nat]
        BY <3>4
      <4> QED BY <4>1, <1>9 DEF Client
    <3>6. Unmoved(e, d) /\ e.channel = d.channel
          /\ e.rulesets = [d.rulesets EXCEPT ![ch] = @ \cup {msg.of}]
      <4> HIDE DEF msg
      <4> QED BY <1>9 DEF Client, Unmoved
    <3> HIDE DEF e, n
    <3>7. Unmoved(e, m)
      BY <3>6, <1>9 DEF Unmoved
    <3>8. \A k \in Channels : e.channel[k] = m.channel[k]
      <4>1. DOMAIN m.channel = Channels
        BY DEF Client
      <4> QED BY <4>1, <3>2, <3>6, <1>9 DEF Afterwards
    <3>9. \A k \in m.known \cap s : e.rulesets[k] \cup News(y, k) = 1 .. r[k]
      <4>1. ASSUME NEW k \in m.known \cap s PROVE e.rulesets[k] \cup News(y, k) = 1 .. r[k]
        <5>1. m.rulesets[k] \cup News(x, k) = 1 .. r[k] /\ k \in 1 .. Rulesets
          BY <1>7 DEF Client
        <5>2. CASE k = ch
          <6>1. e.rulesets[k] = m.rulesets[k] \cup {msg.of}
            BY <5>2, <3>4, <3>6, <1>9
          <6>2. News(x, k) = News(y, k) \cup {msg.of}
            BY <5>2, <2>2, <1>5
          <6> QED BY <5>1, <6>1, <6>2
        <5>3. CASE k # ch
          <6>1. e.rulesets[k] = m.rulesets[k]
            BY <5>1, <5>3, <3>4, <3>6, <1>9
          <6>2. News(x, k) = News(y, k)
            BY <5>3, <1>5
          <6> QED BY <5>1, <6>1, <6>2
        <5> QED BY <5>2, <5>3
      <4> QED BY <4>1
    <3>10. m.wait = "read" => News(y, m.loading) = News(x, m.loading)
      <4>1. ch # m.loading
        BY <2>2, <1>6
      <4>2. News(x, m.loading) = News(y, m.loading) \cup
              (IF msg.is = "create" /\ ch = m.loading THEN {msg.of} ELSE {})
        BY <1>5
      <4> HIDE DEF msg, x, y
      <4> QED BY <4>1, <4>2
    <3>11. Good(e, b, s, r, u)
      BY <3>5, <3>7, <3>8, <3>9, <3>10, QuietFine
    <3>12. Fine(e, b, s, r, u) /\ e.context = m.context
      BY <3>7, <3>11 DEF Fine, Unmoved
    <3> QED BY <3>3, <3>12 DEF n, msg, x
  <2>4. CASE msg.is = "other" /\ ch \in m.known
    <3>1. kind = "plain"
      BY <2>4, <1>6
    <3>2. z = d
      BY <2>1, <2>4 DEF Updater
    <3>3. n = d
      BY <2>4, <3>1, <3>2 DEF Pushed, d, z
    <3> HIDE DEF n, z
    <3>4. \A k : News(x, k) = News(y, k)
      BY <1>5, <2>4
    <3>5. DOMAIN m.channel = Channels
      BY DEF Client
    <3>6. \A k \in Channels :
             \/ d.channel[k] = m.channel[k]
             \/ d.channel[k] = "none" /\ k = m.loading /\ m.wait = "unsubscribed"
      BY <3>1, <3>5, <1>9 DEF Afterwards
    <3>7. \A k \in m.known \cap s : d.rulesets[k] \cup News(y, k) = 1 .. r[k]
      BY <3>4, <1>7, <1>9
    <3>8. m.wait = "read" => News(y, m.loading) = News(x, m.loading)
      BY <3>4
    <3>9. Good(d, b, s, r, u)
      BY <1>9, <3>6, <3>7, <3>8, QuietFine
    <3>10. Fine(d, b, s, r, u) /\ d.context = m.context
      BY <1>9, <3>9 DEF Fine, Unmoved
    <3> QED BY <3>3, <3>10 DEF n, msg, x
  <2>3. CASE /\ ~(msg.is = "create" /\ ch \in m.known /\ msg.of \notin d.rulesets[ch])
             /\ ~(msg.is = "other" /\ ch \in m.known)
    <3>1. z = [d EXCEPT !.end = "aborted"]
      BY <2>1, <2>3 DEF Updater
    <3>2. z.end = "aborted" /\ z.context = d.context
      BY <3>1, <1>9 DEF Client
    <3> HIDE DEF z
    <3>3. n = z
      <4>1. msg.is # "ack" /\ msg.is # "unsubscribed"
        BY <1>14
      <4> QED BY <4>1, <3>2, <1>14 DEF Pushed, d, z
    <3> HIDE DEF n
    <3>4. Fine(n, b, s, r, u) /\ n.context = m.context
      BY <3>2, <3>3, <2>1 DEF Fine
    <3> QED BY <3>4 DEF n, msg, x
  <2> QED BY <2>2, <2>3, <2>4
<1>15. kind \in {"none", "plain", "wrapped"}
  BY <1>4 DEF Client
<1> HIDE DEF msg, n, d, kind
<1>16. \/ kind = "none"
       \/ kind # "none" /\ msg.is = "unsubscribed"
       \/ kind = "plain" /\ msg.is = "ack"
       \/ kind = "wrapped" /\ msg.is = "ack"
       \/ kind # "none" /\ msg.is \in Published
  BY <1>15, <1>4
<1> QED BY <1>16, <1>10, <1>11, <1>12, <1>13, <1>14

\* What is pushed reaches a client that is ready.
LEMMA ReceivePushed ==
  ASSUME IInv, Receive("sub_ctx"), c.status = "ready"
  PROVE  IInv'
<1> USE DEF Roles
<1> DEFINE msg == Head(answers["sub_ctx"])
           n == Pushed(c, msg)
<1>1. Good(c, answers, subscribed, rules, unheard) /\ c \in Client /\ c.end = "running"
  BY DEF IInv, Fine, Receive, Listening, Good, Types
<1>2. /\ Steady(c, unheard)
      /\ answers \in [Roles -> Seq(Answer)] /\ subscribed \in SUBSET Channels
      /\ unheard \in SUBSET Roles /\ rules \in [1 .. Rulesets -> Nat]
  BY <1>1 DEF Good, Types
<1>3. c.callbacks["sub_ctx"] = <<>> /\ c.context["sub_ctx"] = "up" /\ answers["sub_ctx"] # <<>>
  BY <1>2 DEF Steady, Receive
<1>4. /\ c' \in ReadAgain(n, "sub_ctx")
      /\ answers' = [o \in Roles |-> IF n.context[o] = "freed" THEN <<>>
                       ELSE IF o = "sub_ctx" THEN Tail(answers[o]) ELSE answers[o]]
      /\ subscribed' = (IF n.context["sub_ctx"] = "freed" THEN {} ELSE subscribed)
      /\ rules' = rules /\ unheard' = unheard
  BY <1>3 DEF Receive, Server, Hangup
<1> HIDE DEF n
<1> DEFINE b == [o \in Roles |-> IF c.context[o] = "freed" THEN <<>>
                       ELSE IF o = "sub_ctx" THEN Tail(answers[o]) ELSE answers[o]]
<1>5. b["sub_ctx"] = Tail(answers["sub_ctx"]) /\ (c.context["ctx"] = "up" => b["ctx"] = answers["ctx"])
  BY <1>3
<1>6. b \in [Roles -> Seq(Answer)]
  <2>1. Tail(answers["sub_ctx"]) \in Seq(Answer) /\ <<>> \in Seq(Answer)
        /\ \A o \in Roles : answers[o] \in Seq(Answer)
    BY <1>2, <1>3, TailIs
  <2>2. ASSUME NEW o \in Roles PROVE b[o] \in Seq(Answer)
    BY <2>1
  <2> QED BY <2>2
<1> HIDE DEF b
<1>7. Fine(n, b, subscribed, rules, unheard) /\ n.context = c.context
  <2>1. Taken(c, answers, b, subscribed, rules, unheard)
    BY <1>1, <1>3, <1>5 DEF Taken
  <2> DEFINE z == Pushed(c, Head(answers["sub_ctx"]))
  <2>2. Fine(z, b, subscribed, rules, unheard) /\ z.context = c.context
    <3>1. /\ c \in Client /\ subscribed \in SUBSET Channels /\ unheard \in SUBSET Roles
          /\ rules \in [1 .. Rulesets -> Nat]
          /\ answers \in [Roles -> Seq(Answer)] /\ b \in [Roles -> Seq(Answer)]
      BY <1>1, <1>2, <1>6
    <3> QED BY <2>1, <3>1, PushedFine
  <2> QED BY <2>2 DEF n
<1>8. answers' = b /\ subscribed' = subscribed
  BY <1>3, <1>4, <1>7 DEF b
<1> QED BY <1>4, <1>7, <1>8, AgainFine DEF IInv

\* The loader has its answer, or will have none.
Answered(n, m, a, b) ==
  /\ n.status = "ready" /\ n.timer = "none" /\ n.pending = <<0, 1>>
  /\ n.context["sub_ctx"] = "up"
  /\ n.callbacks["ctx"] = <<>> /\ n.callbacks["sub_ctx"] = <<>>
  /\ \/ n.context["ctx"] = "up" /\ n.sent["ctx"] = <<>> /\ b["ctx"] = <<>>
     \/ n.context["ctx"] = "freed" /\ n.wait = "unsubscribed"
  /\ b["sub_ctx"] = a["sub_ctx"]

\* While the loader reads, its ruleset is subscribed to and no other is.
LEMMA WhileReading ==
  ASSUME NEW m \in Client, NEW a \in [Roles -> Seq(Answer)], NEW s, NEW r, NEW u,
         Good(m, a, s, r, u), m.status = "ready", m.wait = "read"
  PROVE  /\ m.loading \in 1 .. Rulesets /\ m.channel[0] = "plain"
         /\ m.channel[m.loading] = "plain"
         /\ \A ch \in Channels : m.channel[ch] # "wrapped"
         /\ \A k \in m.known : m.channel[k] = "plain"
         /\ m.known \subseteq 1 .. m.loading - 1
         /\ \A i \in DOMAIN m.sent["sub_ctx"] :
              m.sent["sub_ctx"][i].cmd = "subscribe" /\ m.sent["sub_ctx"][i].arg = 0
         /\ \A i \in DOMAIN a["sub_ctx"] :
              (a["sub_ctx"][i].is = "ack" /\ a["sub_ctx"][i].ch = 0)
                \/ a["sub_ctx"][i].is \in Published
<1>1. Steady(m, u) /\ Subs(m, a["sub_ctx"])
  BY DEF Good
<1>2. /\ m.loading \in 1 .. Rulesets /\ m.channel[0] = "plain"
      /\ m.channel[m.loading] = "plain"
      /\ \A ch \in Channels : m.channel[ch] # "wrapped"
      /\ \A k \in m.known : m.channel[k] = "plain"
      /\ m.known \subseteq 1 .. m.loading - 1
  BY <1>1 DEF Steady
<1>3. /\ \A i \in DOMAIN m.sent["sub_ctx"] :
              m.sent["sub_ctx"][i].cmd = "subscribe" /\ m.sent["sub_ctx"][i].arg = 0
      /\ \A i \in DOMAIN a["sub_ctx"] :
              (a["sub_ctx"][i].is = "ack" /\ a["sub_ctx"][i].ch = 0)
                \/ a["sub_ctx"][i].is \in Published
  BY <1>1 DEF Subs
<1> QED BY <1>2, <1>3

\* It gives the ruleset up.
StoppedAt(n, m) ==
  /\ n.wait \in {"unsubscribed", "dead"}
  /\ n.loading = m.loading /\ n.channel = m.channel
  /\ n.known = m.known /\ n.rulesets = m.rulesets
  /\ \/ n.sent["sub_ctx"] = m.sent["sub_ctx"]
     \/ /\ n.wait = "unsubscribed"
        /\ n.sent["sub_ctx"] = Append(m.sent["sub_ctx"], Command("unsubscribe", m.loading))
\* It keeps its ruleset's place and waits for nothing.
LEMMA StopFine ==
  ASSUME NEW m \in Client, NEW n \in Client, NEW s \in SUBSET Channels, NEW u \in SUBSET Roles,
         NEW r \in [1 .. Rulesets -> Nat],
         NEW a \in [Roles -> Seq(Answer)], NEW b \in [Roles -> Seq(Answer)],
         Good(m, a, s, r, u), m.status = "ready", m.wait = "read", Answered(n, m, a, b),
         StoppedAt(n, m)
  PROVE  Good(n, b, s, r, u)
<1> USE DEF Roles
<1> DEFINE w == m.sent["sub_ctx"]
           v == n.sent["sub_ctx"]
           x == a["sub_ctx"]
           what == Command("unsubscribe", m.loading)
<1>1. /\ m.loading \in 1 .. Rulesets /\ m.channel[0] = "plain"
      /\ \A ch \in Channels : m.channel[ch] # "wrapped"
      /\ \A k \in m.known : m.channel[k] = "plain"
      /\ m.known \subseteq 1 .. m.loading - 1
      /\ \A i \in DOMAIN w : w[i].cmd = "subscribe" /\ w[i].arg = 0
      /\ \A i \in DOMAIN x : (x[i].is = "ack" /\ x[i].ch = 0) \/ x[i].is \in Published
  BY WhileReading
<1>2. /\ Once(m, x) /\ Agrees(m, a, s, r)
  BY DEF Good
<1>3. Steady(n, u)
  BY <1>1 DEF Steady, Answered, StoppedAt
<1>4. \A i \in DOMAIN v :
         \/ i \in DOMAIN w /\ v[i].cmd = "subscribe" /\ v[i].arg = 0
         \/ n.wait = "unsubscribed" /\ v[i].cmd = "unsubscribe" /\ v[i].arg = m.loading
  <2>1. CASE v = w
    BY <2>1, <1>1
  <2>2. CASE n.wait = "unsubscribed" /\ v = Append(w, what)
    <3> DEFINE C == [cmd : Commands, arg : Nat]
    <3>1. m.sent \in [Roles -> Seq(C)]
      BY DEF Client
    <3>2. what \in C /\ what.cmd = "unsubscribe" /\ what.arg = m.loading
      <4>1. m.loading \in Nat
        BY <1>1
      <4> QED BY <4>1 DEF Command, Commands
    <3> HIDE DEF what, C
    <3>3. w \in Seq(C)
      BY <3>1
    <3> HIDE DEF w
    <3>4. \A i \in DOMAIN Append(w, what) :
             (i = Len(w) + 1 /\ Append(w, what)[i] = what)
                \/ (i \in DOMAIN w /\ Append(w, what)[i] = w[i])
      BY <3>2, <3>3, AppendIs
    <3>5. ASSUME NEW i \in DOMAIN v
          PROVE  \/ i \in DOMAIN w /\ v[i].cmd = "subscribe" /\ v[i].arg = 0
                 \/ v[i].cmd = "unsubscribe" /\ v[i].arg = m.loading
      <4>1. v[i] = what \/ (i \in DOMAIN w /\ v[i] = w[i])
        BY <2>2, <3>4, <3>5
      <4> QED BY <4>1, <3>2, <1>1
    <3> QED BY <2>2, <3>5
  <2> QED BY <2>1, <2>2 DEF StoppedAt
<1>5. Subs(n, b["sub_ctx"])
  BY <1>1, <1>4 DEF Subs, Answered, StoppedAt
<1>6. Once(n, b["sub_ctx"])
  BY <1>1, <1>4 DEF Once, Answered
<1>7. n.context["ctx"] = "up" => Paired(n, "ctx", b["ctx"])
  BY DEF Paired, Answered
<1>8. Agrees(n, b, s, r)
  BY <1>2 DEF Agrees, Answered, StoppedAt
<1> QED BY <1>3, <1>5, <1>6, <1>7, <1>8 DEF Good, Types, Answered

\* It has loaded the ruleset, and goes on to the next.
LoadedTo(n, m, k) ==
  /\ n.known = m.known \cup {m.loading}
  /\ n.rulesets = [m.rulesets EXCEPT ![m.loading] = 1 .. k]
  /\ n.loading = m.loading + 1
  /\ \/ /\ m.loading = Rulesets
        /\ n.wait = "done" /\ n.channel = m.channel
        /\ n.sent["sub_ctx"] = m.sent["sub_ctx"]
     \/ /\ m.loading < Rulesets
        /\ n.wait = "ack" /\ n.channel = [m.channel EXCEPT ![m.loading + 1] = "wrapped"]
        /\ n.sent["sub_ctx"] =
             Append(m.sent["sub_ctx"], Command("subscribe", m.loading + 1))
\* The ruleset that it now knows is complete with what is on its way.
LEMMA LoadedFine ==
  ASSUME NEW m \in Client, NEW n \in Client, NEW s \in SUBSET Channels, NEW u \in SUBSET Roles,
         NEW r \in [1 .. Rulesets -> Nat],
         NEW a \in [Roles -> Seq(Answer)], NEW b \in [Roles -> Seq(Answer)],
         Good(m, a, s, r, u), m.status = "ready", m.wait = "read", Answered(n, m, a, b),
         NEW e \in DOMAIN a["ctx"], a["ctx"][e].is = "rules", LoadedTo(n, m, a["ctx"][e].of)
  PROVE  Good(n, b, s, r, u)
<1> USE Sizes DEF Roles
<1> DEFINE w == m.sent["sub_ctx"]
           v == n.sent["sub_ctx"]
           x == a["sub_ctx"]
           k == a["ctx"][e].of
           l == m.loading
           what == Command("subscribe", l + 1)
<1>1. /\ l \in 1 .. Rulesets /\ m.channel[0] = "plain" /\ m.channel[l] = "plain"
      /\ \A ch \in Channels : m.channel[ch] # "wrapped"
      /\ \A j \in m.known : m.channel[j] = "plain"
      /\ m.known \subseteq 1 .. l - 1
      /\ \A i \in DOMAIN w : w[i].cmd = "subscribe" /\ w[i].arg = 0
      /\ \A i \in DOMAIN x : (x[i].is = "ack" /\ x[i].ch = 0) \/ x[i].is \in Published
  BY WhileReading
<1>2. /\ Once(m, x) /\ Agrees(m, a, s, r)
  BY DEF Good
<1>3. /\ DOMAIN m.channel = Channels /\ Channels = 0 .. Rulesets
      /\ m.rulesets \in [1 .. Rulesets -> SUBSET Nat]
  BY DEF Client, Channels
<1>4. l \in Nat /\ l + 1 \in Nat /\ l + 1 # 0 /\ l + 1 # l
  BY <1>1
<1>5. \A j \in m.known : j \in Channels /\ j \in 1 .. l /\ j # l + 1 /\ j # l
  <2> HIDE DEF l
  <2>1. l \in 1 .. Rulesets /\ m.known \subseteq 1 .. l - 1
    BY <1>1 DEF l
  <2>2. \A j \in 1 .. l - 1 : j \in 0 .. Rulesets /\ j \in 1 .. l /\ j # l + 1 /\ j # l
    BY <2>1
  <2> QED BY <2>1, <2>2, <1>3
<1>6. \A i \in DOMAIN v :
         \/ i \in DOMAIN w /\ v[i].cmd = "subscribe" /\ v[i].arg = 0
         \/ n.wait = "ack" /\ v[i].cmd = "subscribe" /\ v[i].arg = l + 1 /\ i = Len(w) + 1
  <2>1. CASE v = w
    BY <2>1, <1>1
  <2>2. CASE n.wait = "ack" /\ v = Append(w, what)
    <3> DEFINE C == [cmd : Commands, arg : Nat]
    <3>1. m.sent \in [Roles -> Seq(C)]
      BY DEF Client
    <3>2. what \in C /\ what.cmd = "subscribe" /\ what.arg = l + 1
      BY <1>4 DEF Command, Commands
    <3> HIDE DEF what, C
    <3>3. w \in Seq(C)
      BY <3>1
    <3> HIDE DEF w
    <3>4. \A i \in DOMAIN Append(w, what) :
             (i = Len(w) + 1 /\ Append(w, what)[i] = what)
                \/ (i \in DOMAIN w /\ Append(w, what)[i] = w[i])
      BY <3>2, <3>3, AppendIs
    <3>5. ASSUME NEW i \in DOMAIN v
          PROVE  \/ i \in DOMAIN w /\ v[i].cmd = "subscribe" /\ v[i].arg = 0
                 \/ v[i].cmd = "subscribe" /\ v[i].arg = l + 1 /\ i = Len(w) + 1
      <4>1. (v[i] = what /\ i = Len(w) + 1) \/ (i \in DOMAIN w /\ v[i] = w[i])
        BY <2>2, <3>4, <3>5
      <4> QED BY <4>1, <3>2, <1>1
    <3> QED BY <2>2, <3>5
  <2> QED BY <2>1, <2>2 DEF LoadedTo
<1>7. Steady(n, u)
  <2>1. /\ n.timer = "none" /\ n.pending = <<0, 1>>
        /\ n.context["sub_ctx"] = "up" /\ n.callbacks["sub_ctx"] = <<>>
        /\ n.callbacks["ctx"] = <<>> /\ n.context["ctx"] = "up" /\ n.wait # "read"
        /\ n.loading = l + 1
    BY DEF Answered, LoadedTo
  <2>2. n.known \subseteq 1 .. n.loading - 1
    <3>1. n.loading - 1 = l
      BY <2>1, <1>4
    <3>2. n.known = m.known \cup {l} /\ l \in 1 .. l
      BY <1>1 DEF LoadedTo
    <3> QED BY <3>1, <3>2, <1>5
  <2>3. CASE n.wait = "done"
    <3>1. n.channel = m.channel
      BY <2>3 DEF LoadedTo
    <3>2. \A j \in n.known : n.channel[j] = "plain"
      BY <3>1, <1>1 DEF LoadedTo
    <3> QED BY <2>1, <2>2, <2>3, <3>1, <3>2, <1>1 DEF Steady
  <2>4. CASE n.wait = "ack"
    <3>1. l + 1 \in 1 .. Rulesets /\ n.channel = [m.channel EXCEPT ![l + 1] = "wrapped"]
      BY <2>4, <1>1 DEF LoadedTo
    <3>2. n.channel[l + 1] = "wrapped" /\ \A j \in Channels \ {l + 1} : n.channel[j] = m.channel[j]
      BY <3>1, <1>3
    <3>3. \A j \in n.known : n.channel[j] = "plain"
      <4>1. n.known = m.known \cup {l}
        BY DEF LoadedTo
      <4>2. l \in Channels \ {l + 1}
        BY <1>1, <1>3, <1>4
      <4> QED BY <4>1, <4>2, <3>2, <1>1, <1>5
    <3>4. \A j \in Channels : n.channel[j] = "wrapped" => j = n.loading
      BY <2>1, <3>2, <1>1
    <3>5. n.channel[0] = "plain"
      <4>1. 0 \in Channels \ {l + 1}
        BY <1>3, <1>4
      <4> QED BY <4>1, <3>2, <1>1
    <3> QED BY <2>1, <2>2, <2>4, <3>1, <3>2, <3>3, <3>4, <3>5 DEF Steady
  <2> QED BY <2>3, <2>4 DEF LoadedTo
<1>8. Subs(n, b["sub_ctx"])
  <2>1. n.loading = l + 1
    BY DEF LoadedTo
  <2> QED BY <2>1, <1>1, <1>6 DEF Subs, Answered
<1>9. Once(n, b["sub_ctx"])
  <2>1. \A i, j \in DOMAIN v : v[i].arg = v[j].arg /\ v[i].arg # 0 => i = j
    BY <1>6
  <2>2. \A i \in DOMAIN b["sub_ctx"] : b["sub_ctx"][i].is = "ack" => b["sub_ctx"][i].ch = 0
    BY <1>1 DEF Answered
  <2> QED BY <2>1, <2>2 DEF Once
<1>10. n.context["ctx"] = "up" => Paired(n, "ctx", b["ctx"])
  BY DEF Paired, Answered
<1>11. Agrees(n, b, s, r)
  <2>1. n.wait # "read" /\ b["sub_ctx"] = x
    BY DEF Answered, LoadedTo
  <2>2. ASSUME NEW j \in n.known \cap s PROVE n.rulesets[j] \cup News(x, j) = 1 .. r[j]
    <3>1. j \in m.known \/ j = l
      BY <2>2 DEF LoadedTo
    <3>2. CASE j = l
      <4>1. n.rulesets[l] = 1 .. k
        BY <1>1, <1>3 DEF LoadedTo
      <4>2. (1 .. k) \cup News(x, l) = 1 .. r[l]
        BY <2>2, <3>2, <1>2 DEF Agrees
      <4> QED BY <3>2, <4>1, <4>2
    <3>3. CASE j \in m.known
      <4>1. j # l
        BY <3>3, <1>5
      <4>2. n.rulesets[j] = m.rulesets[j]
        <5>1. j \in 1 .. Rulesets
          BY <3>3, <1>1
        <5> QED BY <4>1, <5>1, <1>3 DEF LoadedTo
      <4>3. m.rulesets[j] \cup News(x, j) = 1 .. r[j]
        BY <2>2, <3>3, <1>2 DEF Agrees
      <4> QED BY <4>2, <4>3
    <3> QED BY <3>1, <3>2, <3>3
  <2>3. \A j \in 1 .. Rulesets : News(x, j) \subseteq 1 .. r[j]
    BY <1>2 DEF Agrees
  <2> HIDE DEF x
  <2> QED BY <2>1, <2>2, <2>3 DEF Agrees
<1> QED BY <1>7, <1>8, <1>9, <1>10, <1>11 DEF Good, Types, Answered

\* The loader, resumed while it reads.
LEMMA LoaderReads ==
  ASSUME NEW t \in Client, t.wait = "read", t.end = "running", t.status = "ready",
         t.context["sub_ctx"] = "up", t.loading \in 1 .. Rulesets,
         NEW ans, ans.is = "rules" => ans.of \in Nat
  PROVE  LET n == Loader(t, ans) IN
         /\ n \in Client
         /\ n.status = t.status /\ n.timer = t.timer /\ n.pending = t.pending /\ n.end = t.end
         /\ n.context = t.context /\ n.callbacks = t.callbacks
         /\ n.sent["ctx"] = t.sent["ctx"]
         /\ \/ ans.is = "rules" /\ LoadedTo(n, t, ans.of)
            \/ StoppedAt(n, t)
         /\ ans.is = "null" => n.wait = "unsubscribed"
<1> USE DEF Roles
<1> DEFINE n == Loader(t, ans)
           l == t.loading
<1>0. /\ DOMAIN t.sent = Roles /\ DOMAIN t.channel = Channels /\ DOMAIN t.rulesets = 1 .. Rulesets
      /\ t.rulesets \in [1 .. Rulesets -> SUBSET Nat] /\ t.known \subseteq 1 .. Rulesets
  BY DEF Client
<1>1. CASE ans.is = "rules"
  <2> DEFINE d == [t EXCEPT !.rulesets[l] = 1 .. ans.of, !.known = @ \cup {l}]
             k == ans.of
  <2>1. n = NextRuleset(d, l + 1)
    BY <1>1 DEF Loader
  <2>2. /\ d \in Client
        /\ d.status = t.status /\ d.timer = t.timer /\ d.pending = t.pending /\ d.end = t.end
        /\ d.context = t.context /\ d.callbacks = t.callbacks /\ d.sent = t.sent
        /\ d.channel = t.channel /\ d.known = t.known \cup {l}
        /\ d.rulesets = [t.rulesets EXCEPT ![l] = 1 .. k]
    <3>1. [t.rulesets EXCEPT ![l] = 1 .. k] \in [1 .. Rulesets -> SUBSET Nat]
      BY <1>0, <1>1
    <3>2. t.known \cup {l} \in SUBSET (1 .. Rulesets)
      BY <1>0
    <3> QED BY <3>1, <3>2 DEF Client
  <2> HIDE DEF d, n
  <2>3. CASE l = Rulesets
    <3>1. n = [d EXCEPT !.loading = l + 1, !.wait = "done"]
      BY <2>1, <2>3, Sizes DEF NextRuleset
    <3>2. l + 1 \in 1 .. Rulesets + 1
      BY Sizes
    <3>3. /\ n \in Client
          /\ n.status = d.status /\ n.timer = d.timer /\ n.pending = d.pending /\ n.end = d.end
          /\ n.context = d.context /\ n.callbacks = d.callbacks /\ n.sent = d.sent
          /\ n.channel = d.channel /\ n.known = d.known /\ n.rulesets = d.rulesets
          /\ n.loading = l + 1 /\ n.wait = "done"
      BY <2>2, <3>1, <3>2 DEF Client
    <3>4. LoadedTo(n, t, k)
      BY <2>2, <2>3, <3>3 DEF LoadedTo
    <3> QED BY <1>1, <2>2, <3>3, <3>4 DEF n
  <2>4. CASE l < Rulesets
    <3> DEFINE e == [d EXCEPT !.loading = l + 1, !.wait = "ack"]
    <3>1. l + 1 \in 1 .. Rulesets /\ l + 1 \in 1 .. Rulesets + 1 /\ l + 1 \in Channels
      BY <2>4, Sizes DEF Channels
    <3>2. /\ e \in Client
          /\ e.status = d.status /\ e.timer = d.timer /\ e.pending = d.pending /\ e.end = d.end
          /\ e.context = d.context /\ e.callbacks = d.callbacks /\ e.sent = d.sent
          /\ e.channel = d.channel /\ e.known = d.known /\ e.rulesets = d.rulesets
          /\ e.loading = l + 1 /\ e.wait = "ack"
      BY <2>2, <3>1 DEF Client
    <3>3. n = Subscribe(e, l + 1)
      BY <2>1, <3>1, Sizes DEF NextRuleset
    <3> HIDE DEF e
    <3>4. n = Heard(e, l + 1)
      <4>1. n = Subscribed(e, l + 1)
        BY <3>2, <3>3, <2>2 DEF Subscribe
      <4>2. e.context["sub_ctx"] = "up"
        BY <3>2, <2>2
      <4> QED BY <4>1, <4>2, <3>1, <3>2, SubscribedUp
    <3>5. n \in Client
      BY <3>1, <3>2, <3>4, HeardType
    <3>6. Kind(l + 1) = "wrapped"
      BY <3>1 DEF Kind
    <3>7. /\ n.status = e.status /\ n.timer = e.timer /\ n.pending = e.pending /\ n.end = e.end
          /\ n.context = e.context /\ n.callbacks = e.callbacks
          /\ n.known = e.known /\ n.rulesets = e.rulesets
          /\ n.loading = l + 1 /\ n.wait = "ack"
          /\ n.channel = [e.channel EXCEPT ![l + 1] = Kind(l + 1)]
          /\ n.sent = [e.sent EXCEPT !["sub_ctx"] = Append(@, Command("subscribe", l + 1))]
      BY <3>2, <3>4 DEF Heard, Client
    <3>8. /\ n.sent["sub_ctx"] = Append(t.sent["sub_ctx"], Command("subscribe", l + 1))
          /\ n.sent["ctx"] = t.sent["ctx"]
      BY <3>7, <3>2, <2>2, <1>0
    <3>9. LoadedTo(n, t, k)
      BY <2>2, <2>4, <3>2, <3>6, <3>7, <3>8 DEF LoadedTo
    <3> QED BY <1>1, <2>2, <3>2, <3>5, <3>7, <3>8, <3>9 DEF n
  <2> QED BY <2>3, <2>4, Sizes
<1>2. CASE ans.is \in {"null", "refusal"}
  <2> DEFINE e == [t EXCEPT !.wait = "unsubscribed"]
             what == Command("unsubscribe", l)
  <2>1. /\ e \in Client
        /\ e.status = t.status /\ e.timer = t.timer /\ e.pending = t.pending /\ e.end = t.end
        /\ e.context = t.context /\ e.callbacks = t.callbacks /\ e.sent = t.sent
        /\ e.channel = t.channel /\ e.known = t.known /\ e.rulesets = t.rulesets
        /\ e.loading = l /\ e.wait = "unsubscribed"
    BY DEF Client
  <2>2. n = Issue(e, "sub_ctx", "loader", what)
    BY <1>2 DEF Loader, Unsubscribe
  <2>3. what.cmd = "unsubscribe" /\ what \in [cmd : Commands, arg : Nat]
    BY DEF Command, Commands
  <2> HIDE DEF e, n
  <2>4. n = Sent(e, "sub_ctx", what)
    <3>1. e \in Client /\ e.context["sub_ctx"] = "up"
      BY <2>1
    <3> HIDE DEF what
    <3> QED BY <3>1, <2>2, <2>3, IssueSub
  <2>5. n \in Client
    <3> HIDE DEF what
    <3> QED BY <2>1, <2>3, <2>4, SentType
  <2>6. /\ n.status = e.status /\ n.timer = e.timer /\ n.pending = e.pending /\ n.end = e.end
        /\ n.context = e.context /\ n.callbacks = e.callbacks
        /\ n.known = e.known /\ n.rulesets = e.rulesets /\ n.channel = e.channel
        /\ n.loading = l /\ n.wait = "unsubscribed"
        /\ n.sent = [e.sent EXCEPT !["sub_ctx"] = Append(@, what)]
    BY <2>1, <2>4 DEF Sent, Client
  <2>7. n.sent["sub_ctx"] = Append(t.sent["sub_ctx"], what) /\ n.sent["ctx"] = t.sent["ctx"]
    BY <2>1, <2>6, <1>0
  <2>8. StoppedAt(n, t)
    BY <2>1, <2>6, <2>7 DEF StoppedAt
  <2> QED BY <2>1, <2>5, <2>6, <2>7, <2>8 DEF n
<1>3. CASE ans.is \notin {"rules", "null", "refusal"}
  <2>1. n = [t EXCEPT !.wait = "dead"]
    BY <1>3 DEF Loader
  <2> HIDE DEF n
  <2>2. /\ n \in Client
        /\ n.status = t.status /\ n.timer = t.timer /\ n.pending = t.pending /\ n.end = t.end
        /\ n.context = t.context /\ n.callbacks = t.callbacks /\ n.sent = t.sent
        /\ n.channel = t.channel /\ n.known = t.known /\ n.rulesets = t.rulesets
        /\ n.loading = l /\ n.wait = "dead"
    BY <2>1 DEF Client
  <2>3. StoppedAt(n, t)
    BY <2>2 DEF StoppedAt
  <2> QED BY <1>3, <2>2, <2>3 DEF n
<1> QED BY <1>1, <1>2, <1>3

\* The client without the one callback that the loader has.
Bare(m) == [m EXCEPT !.callbacks["ctx"] = Tail(@)]
\* Only the callbacks change.
LEMMA Uncalled ==
  ASSUME NEW m \in Client, NEW cb, m.callbacks["ctx"] = <<cb>>, NEW t, t = Bare(m)
  PROVE  /\ t \in Client
         /\ t.status = m.status /\ t.end = m.end /\ t.timer = m.timer /\ t.pending = m.pending
         /\ t.context = m.context /\ t.sent = m.sent /\ t.step = m.step /\ t.channel = m.channel
         /\ t.loading = m.loading /\ t.wait = m.wait /\ t.known = m.known
         /\ t.rulesets = m.rulesets
         /\ t.callbacks["ctx"] = <<>> /\ t.callbacks["sub_ctx"] = m.callbacks["sub_ctx"]
<1> USE DEF Roles
<1> DEFINE K == [who : {"connector", "loader"}, what : [cmd : Commands, arg : Nat]]
<1>1. m.callbacks \in [Roles -> Seq(K)]
  BY DEF Client
<1>2. Tail(m.callbacks["ctx"]) = <<>>
  <2>1. <<cb>> \in Seq({cb}) /\ Len(<<cb>>) = 1
    OBVIOUS
  <2> QED BY <2>1, TailOfOne
<1> HIDE DEF K
<1>3. /\ [m.callbacks EXCEPT !["ctx"] = Tail(@)] \in [Roles -> Seq(K)]
      /\ [m.callbacks EXCEPT !["ctx"] = Tail(@)]["ctx"] = <<>>
      /\ [m.callbacks EXCEPT !["ctx"] = Tail(@)]["sub_ctx"] = m.callbacks["sub_ctx"]
  <2>1. <<>> \in Seq(K)
    OBVIOUS
  <2> QED BY <1>1, <1>2, <2>1
<1>4. /\ t \in Client
      /\ t.status = m.status /\ t.end = m.end /\ t.timer = m.timer /\ t.pending = m.pending
      /\ t.context = m.context /\ t.sent = m.sent /\ t.step = m.step /\ t.channel = m.channel
      /\ t.loading = m.loading /\ t.wait = m.wait /\ t.known = m.known
      /\ t.rulesets = m.rulesets
      /\ t.callbacks = [m.callbacks EXCEPT !["ctx"] = Tail(@)]
  BY <1>3 DEF Client, K, Bare
<1> QED BY <1>3, <1>4

\* An answer resumes the loader.
LEMMA ReceiveRead ==
  ASSUME IInv, Receive("ctx"), c.status = "ready"
  PROVE  IInv'
<1> USE DEF Roles
<1> DEFINE ans == Head(answers["ctx"])
           t == [c EXCEPT !.callbacks["ctx"] = Tail(@)]
           n == Loader(t, ans)
<1>1. Good(c, answers, subscribed, rules, unheard) /\ c \in Client /\ c.end = "running"
  BY DEF IInv, Fine, Receive, Listening, Good, Types
<1>2. /\ Steady(c, unheard)
      /\ answers \in [Roles -> Seq(Answer)] /\ subscribed \in SUBSET Channels
      /\ unheard \in SUBSET Roles /\ rules \in [1 .. Rulesets -> Nat]
  BY <1>1 DEF Good, Types
<1>3. c.context["ctx"] = "up" /\ answers["ctx"] # <<>>
  BY DEF Receive, Listening
<1>4. Paired(c, "ctx", answers["ctx"])
  BY <1>1, <1>3 DEF Good
<1>5. /\ c.callbacks["ctx"] = <<Callback("loader", Command("read", c.loading))>>
      /\ c.wait = "read" /\ c.sent["ctx"] = <<>> /\ Len(answers["ctx"]) = 1
      /\ c.loading \in 1 .. Rulesets /\ c.context["sub_ctx"] = "up"
      /\ c.callbacks["sub_ctx"] = <<>> /\ c.timer = "none" /\ c.pending = <<0, 1>>
  BY <1>2, <1>3, <1>4 DEF Paired, Steady
<1>6. /\ t \in Client
      /\ t.status = c.status /\ t.end = c.end /\ t.timer = c.timer /\ t.pending = c.pending
      /\ t.context = c.context /\ t.sent = c.sent /\ t.channel = c.channel
      /\ t.loading = c.loading /\ t.wait = c.wait /\ t.known = c.known
      /\ t.rulesets = c.rulesets
      /\ t.callbacks["ctx"] = <<>> /\ t.callbacks["sub_ctx"] = c.callbacks["sub_ctx"]
  <2>1. t = Bare(c)
    BY DEF Bare
  <2> HIDE DEF t
  <2> QED BY <2>1, <1>1, <1>5, Uncalled
<1>7. /\ 1 \in DOMAIN answers["ctx"] /\ ans = answers["ctx"][1] /\ ans \in Answer
      /\ Tail(answers["ctx"]) = <<>>
  <2>1. answers["ctx"] \in Seq(Answer)
    BY <1>2
  <2> QED BY <2>1, <1>3, <1>5, TailIs, TailOfOne
<1>8. c.callbacks["ctx"] # <<>> /\ Head(c.callbacks["ctx"]).who = "loader"
  BY <1>5 DEF Callback
<1>9. /\ c' \in ReadAgain(Settled(n, "ctx"), "ctx")
      /\ answers' = [o \in Roles |-> IF Settled(n, "ctx").context[o] = "freed" THEN <<>>
                       ELSE IF o = "ctx" THEN Tail(answers[o]) ELSE answers[o]]
      /\ subscribed' = (IF Settled(n, "ctx").context["sub_ctx"] = "freed" THEN {} ELSE subscribed)
      /\ rules' = rules /\ unheard' = unheard
  <2> DEFINE cb == Head(c.callbacks["ctx"])
  <2>1. Resume(t, cb, ans, "ctx") = n
    BY <1>8 DEF Resume
  <2> HIDE DEF t, n, ans
  <2>2. Settled(Resume(t, cb, ans, "ctx"), "ctx") = Settled(n, "ctx")
    BY <2>1
  <2> QED BY <1>8, <2>2 DEF Receive, Server, Hangup, t, ans
<1>10. ans.is = "rules" => ans.of \in Nat
  <2> HIDE DEF ans
  <2> QED BY <1>7 DEF Answer
<1> HIDE DEF ans, t
<1>11. /\ n \in Client
       /\ n.status = t.status /\ n.timer = t.timer /\ n.pending = t.pending /\ n.end = t.end
       /\ n.context = t.context /\ n.callbacks = t.callbacks
       /\ n.sent["ctx"] = t.sent["ctx"]
       /\ \/ ans.is = "rules" /\ LoadedTo(n, t, ans.of)
          \/ StoppedAt(n, t)
  <2>1. t.wait = "read" /\ t.end = "running" /\ t.status = "ready"
        /\ t.context["sub_ctx"] = "up" /\ t.loading \in 1 .. Rulesets
    BY <1>1, <1>5, <1>6
  <2> QED BY <2>1, <1>6, <1>10, LoaderReads
<1> HIDE DEF n
<1>12. Settled(n, "ctx") = n
  BY <1>3, <1>6, <1>11 DEF Settled
<1> DEFINE b == [o \in Roles |-> IF n.context[o] = "freed" THEN <<>>
                       ELSE IF o = "ctx" THEN Tail(answers[o]) ELSE answers[o]]
<1>13. answers' = b /\ subscribed' = subscribed /\ c' \in ReadAgain(n, "ctx")
  BY <1>5, <1>6, <1>9, <1>11, <1>12
<1>14. b["ctx"] = <<>> /\ b["sub_ctx"] = answers["sub_ctx"]
  BY <1>3, <1>5, <1>6, <1>7, <1>11
<1>15. b \in [Roles -> Seq(Answer)]
  <2>1. <<>> \in Seq(Answer) /\ answers["sub_ctx"] \in Seq(Answer)
    BY <1>2
  <2>2. ASSUME NEW o \in Roles PROVE b[o] \in Seq(Answer)
    BY <2>1, <1>14
  <2> QED BY <2>2
<1> HIDE DEF b
<1>16. Answered(n, c, answers, b)
  BY <1>3, <1>5, <1>6, <1>11, <1>14 DEF Answered
<1>17. Good(n, b, subscribed, rules, unheard)
  <2>1. CASE ans.is = "rules" /\ LoadedTo(n, t, ans.of)
    <3>1. LoadedTo(n, c, answers["ctx"][1].of) /\ answers["ctx"][1].is = "rules"
      BY <2>1, <1>6, <1>7 DEF LoadedTo
    <3> QED BY <3>1, <1>1, <1>2, <1>5, <1>7, <1>11, <1>15, <1>16, LoadedFine
  <2>2. CASE StoppedAt(n, t)
    <3>1. StoppedAt(n, c)
      BY <2>2, <1>6 DEF StoppedAt
    <3> QED BY <3>1, <1>1, <1>2, <1>5, <1>11, <1>15, <1>16, StopFine
  <2> QED BY <2>1, <2>2, <1>11
<1>18. Fine(n, b, subscribed, rules, unheard)
  BY <1>1, <1>6, <1>11, <1>17 DEF Fine
<1> QED BY <1>9, <1>13, <1>18, AgainFine DEF IInv

\* A subscription that is lost with its connection aborts the manager.
LEMMA LoseSubscriptions ==
  ASSUME IInv, Lose("sub_ctx"), c.status = "ready"
  PROVE  IInv'
<1> USE DEF Roles
<1> DEFINE x == [c EXCEPT !.context["sub_ctx"] = "closing"]
           n == Disconnected(c, "sub_ctx")
<1>1. Steady(c, unheard) /\ c \in Client /\ c.end = "running"
  BY DEF IInv, Fine, Lose, Listening, Good, Types
<1>2. c.callbacks["sub_ctx"] = <<>> /\ c.channel[0] # "none" /\ 0 \in Channels
  BY <1>1, Sizes DEF Steady, Channels
<1>3. x.callbacks = c.callbacks /\ x.channel = c.channel /\ x.end = c.end
  BY <1>1 DEF Client
<1>4. x \in Client
  <2>1. [c.context EXCEPT !["sub_ctx"] = "closing"] \in [Roles -> {"up", "closing", "freed"}]
    BY <1>1 DEF Client
  <2> QED BY <1>1, <2>1 DEF Client
<1>5. n = Settled(NullReplies(x, "sub_ctx"), "sub_ctx")
  BY DEF Disconnected
<1> HIDE DEF x, n
<1>6. NullReplies(x, "sub_ctx") = [x EXCEPT !.end = "aborted"]
  <2>1. x.end = "running" /\ \E ch \in Channels : x.channel[ch] # "none"
    BY <1>1, <1>2, <1>3
  <2>2. x.callbacks["sub_ctx"] = <<>>
    BY <1>2, <1>3
  <2> QED BY <2>1, <2>2, <1>4 DEF NullReplies
<1>7. n.end = "aborted"
  <2>1. NullReplies(x, "sub_ctx").end = "aborted"
    BY <1>4, <1>6 DEF Client
  <2>2. n = NullReplies(x, "sub_ctx")
    BY <2>1, <1>5 DEF Settled
  <2> QED BY <2>1, <2>2
<1>8. c' = n
  <2>1. c' \in ReadAgain(n, "sub_ctx")
    BY DEF Lose, n
  <2> QED BY <2>1, <1>7 DEF ReadAgain
<1> QED BY <1>7, <1>8 DEF IInv, Fine

\* The context of commands is lost: who waits for an answer gives up, and if
\* nobody does nobody hears of it.
LEMMA LoseCommands ==
  ASSUME IInv, Lose("ctx"), c.status = "ready"
  PROVE  IInv'
<1> USE DEF Roles
<1> DEFINE x == [c EXCEPT !.context["ctx"] = "closing"]
           n == Disconnected(c, "ctx")
<1>1. Good(c, answers, subscribed, rules, unheard) /\ c \in Client /\ c.end = "running"
  BY DEF IInv, Fine, Lose, Listening, Good, Types
<1>2. /\ Steady(c, unheard)
      /\ answers \in [Roles -> Seq(Answer)] /\ subscribed \in SUBSET Channels
      /\ unheard \in SUBSET Roles /\ rules \in [1 .. Rulesets -> Nat]
  BY <1>1 DEF Good, Types
<1>3. /\ c.context["ctx"] = "up" /\ c.context["sub_ctx"] = "up" /\ c.callbacks["sub_ctx"] = <<>>
      /\ c.timer = "none" /\ c.pending = <<0, 1>>
  BY <1>2 DEF Steady, Lose, Listening
<1>4. /\ c' \in ReadAgain(n, "ctx")
      /\ answers' = [o \in Roles |-> IF n.context[o] = "freed" THEN <<>> ELSE answers[o]]
      /\ subscribed' = (IF n.context["sub_ctx"] = "freed" THEN {} ELSE subscribed)
      /\ rules' = rules
      /\ unheard' = IF c.callbacks["ctx"] = <<>> \/ Head(c.callbacks["ctx"]).what.cmd = "hset"
                      THEN unheard \cup {"ctx"} ELSE unheard
  BY DEF Lose, Server, Hangup
<1>5. unheard' \in SUBSET Roles
  BY <1>2, <1>4
<1>6. /\ x \in Client
      /\ x.status = c.status /\ x.end = c.end /\ x.timer = c.timer /\ x.pending = c.pending
      /\ x.sent = c.sent /\ x.channel = c.channel /\ x.callbacks = c.callbacks
      /\ x.loading = c.loading /\ x.wait = c.wait /\ x.known = c.known
      /\ x.rulesets = c.rulesets
      /\ x.context["ctx"] = "closing" /\ x.context["sub_ctx"] = c.context["sub_ctx"]
  <2>1. [c.context EXCEPT !["ctx"] = "closing"] \in [Roles -> {"up", "closing", "freed"}]
        /\ DOMAIN c.context = Roles
    BY <1>1 DEF Client
  <2>2. x \in Client /\ x.context = [c.context EXCEPT !["ctx"] = "closing"]
    BY <1>1, <2>1 DEF Client
  <2>3. x.status = c.status /\ x.end = c.end /\ x.timer = c.timer /\ x.pending = c.pending
      /\ x.sent = c.sent /\ x.channel = c.channel /\ x.callbacks = c.callbacks
      /\ x.loading = c.loading /\ x.wait = c.wait /\ x.known = c.known
      /\ x.rulesets = c.rulesets
    BY <1>1 DEF Client
  <2> QED BY <2>1, <2>2, <2>3
<1>7. n = Settled(NullReplies(x, "ctx"), "ctx")
  BY DEF Disconnected
<1> HIDE DEF x, n
<1> DEFINE b == [o \in Roles |-> IF n.context[o] = "freed" THEN <<>> ELSE answers[o]]
<1>8. CASE c.callbacks["ctx"] = <<>>
  <2>1. n = Released(x, "ctx")
    BY <1>1, <1>6, <1>7, <1>8 DEF NullReplies, Settled, Released
  <2> DEFINE y == Released(x, "ctx")
  <2>2. /\ y \in Client
        /\ y.status = x.status /\ y.timer = x.timer /\ y.loading = x.loading
        /\ y.wait = x.wait /\ y.known = x.known /\ y.channel = x.channel
        /\ y.pending = x.pending /\ y.end = x.end /\ y.sent = x.sent
        /\ y.rulesets = x.rulesets
        /\ y.context["ctx"] = "freed" /\ y.callbacks["ctx"] = <<>>
        /\ y.context["sub_ctx"] = x.context["sub_ctx"]
        /\ y.callbacks["sub_ctx"] = x.callbacks["sub_ctx"]
    <3>1. x \in Client
      BY <1>6
    <3> QED BY <3>1, ReleasedIs
  <2>3. unheard' = unheard \cup {"ctx"}
    BY <1>4, <1>8
  <2>4. y = n
    BY <2>1
  <2> HIDE DEF y
  <2>5. answers' = b /\ subscribed' = subscribed /\ b["sub_ctx"] = answers["sub_ctx"]
        /\ b["ctx"] = <<>>
    BY <2>2, <2>4, <1>3, <1>4, <1>6
  <2>6. b \in [Roles -> Seq(Answer)]
    BY <2>5, <1>2
  <2> HIDE DEF b
  <2>7. c.wait # "read"
    BY <1>2, <1>8 DEF Steady
  <2>8. Steady(n, unheard')
    <3>1. /\ n.timer = "none" /\ n.pending = <<0, 1>> /\ n.loading = c.loading
          /\ n.wait = c.wait /\ n.known = c.known /\ n.channel = c.channel
          /\ n.context["ctx"] = "freed" /\ n.context["sub_ctx"] = "up"
          /\ n.callbacks["ctx"] = <<>> /\ n.callbacks["sub_ctx"] = <<>>
      BY <2>2, <2>4, <1>3, <1>6
    <3> QED BY <3>1, <2>3, <2>7, <1>2 DEF Steady
  <2>9. Subs(n, b["sub_ctx"]) /\ Once(n, b["sub_ctx"])
    <3>1. n.sent = c.sent /\ n.loading = c.loading /\ n.wait = c.wait
      BY <2>2, <2>4, <1>6
    <3> QED BY <3>1, <2>5, <1>1 DEF Subs, Once, Good
  <2>10. Agrees(n, b, subscribed, rules)
    <3>1. n.rulesets = c.rulesets /\ n.known = c.known /\ n.wait = c.wait
      BY <2>2, <2>4, <1>6
    <3> QED BY <3>1, <2>5, <2>7, <1>1 DEF Agrees, Good
  <2>11. n \in Client /\ n.status = "ready" /\ n.end = "running" /\ n.context["ctx"] = "freed"
    BY <2>2, <2>4, <1>1, <1>6
  <2>12. Good(n, b, subscribed, rules, unheard')
    BY <1>2, <1>5, <2>6, <2>8, <2>9, <2>10, <2>11 DEF Good, Types
  <2>13. Fine(n, b, subscribed, rules, unheard')
    BY <2>11, <2>12 DEF Fine
  <2> QED BY <1>4, <2>5, <2>13, AgainFine DEF IInv
<1>9. CASE c.callbacks["ctx"] # <<>>
  <2> DEFINE t == Bare(x)
             k == Loader(t, [is |-> "null"])
             y == Released(k, "ctx")
  <2>1. /\ c.callbacks["ctx"] = <<Callback("loader", Command("read", c.loading))>>
        /\ c.wait = "read" /\ c.loading \in 1 .. Rulesets
    BY <1>2, <1>9 DEF Steady
  <2>2. /\ t \in Client
        /\ t.status = c.status /\ t.end = c.end /\ t.timer = c.timer /\ t.pending = c.pending
        /\ t.context = x.context /\ t.sent = c.sent /\ t.channel = c.channel
        /\ t.loading = c.loading /\ t.wait = c.wait /\ t.known = c.known
        /\ t.rulesets = c.rulesets
        /\ t.callbacks["ctx"] = <<>> /\ t.callbacks["sub_ctx"] = c.callbacks["sub_ctx"]
    <3>1. x \in Client /\ x.callbacks["ctx"] = <<Callback("loader", Command("read", c.loading))>>
      BY <1>6, <2>1
    <3> HIDE DEF t
    <3>2. t = Bare(x)
      BY DEF t
    <3>3. /\ t \in Client
          /\ t.status = x.status /\ t.end = x.end /\ t.timer = x.timer /\ t.pending = x.pending
          /\ t.context = x.context /\ t.sent = x.sent /\ t.step = x.step /\ t.channel = x.channel
          /\ t.loading = x.loading /\ t.wait = x.wait /\ t.known = x.known
          /\ t.rulesets = x.rulesets
          /\ t.callbacks["ctx"] = <<>> /\ t.callbacks["sub_ctx"] = x.callbacks["sub_ctx"]
      BY <3>1, <3>2, Uncalled
    <3> QED BY <3>3, <1>6
  <2>3. NullReplies(x, "ctx") = k
    <3>1. x.callbacks["ctx"] # <<>> /\ Head(x.callbacks["ctx"]).who = "loader"
      <4>1. x.callbacks["ctx"] = <<Callback("loader", Command("read", c.loading))>>
        BY <2>1, <1>6
      <4> QED BY <4>1 DEF Callback
    <3> QED BY <3>1 DEF NullReplies, Resume, Bare
  <2> HIDE DEF t
  <2>4. /\ k \in Client
        /\ k.status = t.status /\ k.timer = t.timer /\ k.pending = t.pending /\ k.end = t.end
        /\ k.context = t.context /\ k.callbacks = t.callbacks
        /\ k.sent["ctx"] = t.sent["ctx"]
        /\ StoppedAt(k, t) /\ k.wait = "unsubscribed"
    <3> DEFINE ans == [is |-> "null"]
    <3>1. ans.is = "null"
      OBVIOUS
    <3>2. t.wait = "read" /\ t.end = "running" /\ t.status = "ready"
          /\ t.context["sub_ctx"] = "up" /\ t.loading \in 1 .. Rulesets
      BY <2>1, <2>2, <1>1, <1>3, <1>6
    <3> HIDE DEF ans, k
    <3>3. k = Loader(t, ans)
      BY DEF k, ans
    <3>4. ans.is # "rules" /\ (ans.is = "rules" => ans.of \in Nat)
      BY <3>1
    <3> QED BY <2>2, <3>1, <3>2, <3>3, <3>4, LoaderReads
  <2> HIDE DEF k
  <2>5. n = y
    BY <2>2, <2>3, <2>4, <1>1, <1>6, <1>7 DEF Settled, Released
  <2>6. /\ y \in Client
        /\ y.status = k.status /\ y.timer = k.timer /\ y.loading = k.loading
        /\ y.wait = k.wait /\ y.known = k.known /\ y.channel = k.channel
        /\ y.pending = k.pending /\ y.end = k.end /\ y.sent = k.sent
        /\ y.rulesets = k.rulesets
        /\ y.context["ctx"] = "freed" /\ y.callbacks["ctx"] = <<>>
        /\ y.context["sub_ctx"] = k.context["sub_ctx"]
        /\ y.callbacks["sub_ctx"] = k.callbacks["sub_ctx"]
    BY <2>4, ReleasedIs
  <2> HIDE DEF y
  <2>7. unheard' = unheard
    BY <1>4, <2>1 DEF Callback, Command
  <2>8. answers' = b /\ subscribed' = subscribed /\ b["sub_ctx"] = answers["sub_ctx"]
        /\ b["ctx"] = <<>>
    BY <2>2, <2>4, <2>5, <2>6, <1>3, <1>4, <1>6
  <2>9. b \in [Roles -> Seq(Answer)]
    BY <2>8, <1>2
  <2> HIDE DEF b
  <2>10. Answered(n, c, answers, b)
    BY <2>2, <2>4, <2>5, <2>6, <2>8, <1>1, <1>3, <1>6 DEF Answered
  <2>11. StoppedAt(n, c)
    BY <2>2, <2>4, <2>5, <2>6 DEF StoppedAt
  <2>12. Good(n, b, subscribed, rules, unheard)
    BY <2>1, <2>5, <2>6, <2>9, <2>10, <2>11, <1>1, <1>2, StopFine
  <2>13. n.end = "running"
    BY <2>2, <2>4, <2>5, <2>6, <1>1
  <2>14. Fine(n, b, subscribed, rules, unheard)
    BY <2>12, <2>13 DEF Fine
  <2> QED BY <1>4, <2>7, <2>8, <2>14, AgainFine DEF IInv
<1> QED BY <1>8, <1>9

\* What the server answers to a command that has a callback.
LEMMA ServerTells ==
  ASSUME NEW what, what.cmd \in Kinds \cup {"read"},
         what.cmd = "read" => what.arg \in 1 .. Rulesets /\ rules[what.arg] \in Nat,
         NEW a \in Welcome(what) \cup Unwelcome(what)
  PROVE  /\ a \in Answer /\ Tells(a)
         /\ a.is = "rules" => what.cmd = "read" /\ a.of = rules[what.arg]
<1>1. CASE what.cmd = "read"
  <2>1. a \in {[is |-> "rules", of |-> rules[what.arg]], [is |-> "refusal"], [is |-> "garbage"]}
    BY <1>1 DEF Welcome, Unwelcome
  <2>2. CASE a = [is |-> "rules", of |-> rules[what.arg]]
    BY <1>1, <2>2 DEF Answer, Tells
  <2>3. CASE a \in {[is |-> "refusal"], [is |-> "garbage"]}
    BY <2>3 DEF Answer, Tells
  <2> QED BY <2>1, <2>2, <2>3
<1>2. CASE what.cmd \in Kinds
  <2>1. a \in {[is |-> "yes"], [is |-> "no"], [is |-> "ok"], [is |-> "refusal"], [is |-> "busy"]}
    BY <1>2 DEF Welcome, Unwelcome, Kinds
  <2> QED BY <2>1 DEF Answer, Tells
<1> QED BY <1>1, <1>2

\* A command has been executed.
Executed(n, m, role) ==
  /\ n \in Client
  /\ n.status = m.status /\ n.end = m.end /\ n.timer = m.timer /\ n.pending = m.pending
  /\ n.context = m.context /\ n.step = m.step /\ n.channel = m.channel
  /\ n.callbacks = m.callbacks /\ n.loading = m.loading /\ n.wait = m.wait
  /\ n.known = m.known /\ n.rulesets = m.rulesets
  /\ n.sent[role] = Tail(m.sent[role])
  /\ \A o \in Roles \ {role} : n.sent[o] = m.sent[o]
\* What a step of the server changes.
LEMMA ExecutedIs ==
  ASSUME IInv, NEW role \in Roles, Execute(role)
  PROVE  /\ Executed(c', c, role)
         /\ c.sent[role] \in Seq([cmd : Commands, arg : Nat]) /\ c.sent[role] # <<>>
         /\ \E a \in Welcome(Head(c.sent[role])) \cup Unwelcome(Head(c.sent[role])) :
              answers' = [answers EXCEPT ![role] = Append(@, a)]
         /\ Good(c, answers, subscribed, rules, unheard) /\ c \in Client
         /\ c.end = "running" /\ c.context[role] = "up"
         /\ rules' = rules /\ unheard' = unheard
<1> DEFINE C == [cmd : Commands, arg : Nat]
<1>1. /\ Good(c, answers, subscribed, rules, unheard) /\ c \in Client
      /\ c.end = "running" /\ c.context[role] = "up"
  BY DEF IInv, Fine, Execute, Listening, Good, Types
<1>2. c.sent \in [Roles -> Seq(C)]
  BY <1>1 DEF Client
<1> HIDE DEF C
<1>3. c.sent[role] \in Seq(C) /\ c.sent[role] # <<>>
  BY <1>2 DEF Execute
<1>4. Tail(c.sent[role]) \in Seq(C)
  BY <1>3, TailIs
<1>5. /\ [c.sent EXCEPT ![role] = Tail(@)] \in [Roles -> Seq(C)]
      /\ [c.sent EXCEPT ![role] = Tail(@)][role] = Tail(c.sent[role])
      /\ \A o \in Roles \ {role} : [c.sent EXCEPT ![role] = Tail(@)][o] = c.sent[o]
  BY <1>2, <1>4
<1>6. /\ c' \in Client
      /\ c'.status = c.status /\ c'.end = c.end /\ c'.timer = c.timer /\ c'.pending = c.pending
      /\ c'.context = c.context /\ c'.step = c.step /\ c'.channel = c.channel
      /\ c'.callbacks = c.callbacks /\ c'.loading = c.loading /\ c'.wait = c.wait
      /\ c'.known = c.known /\ c'.rulesets = c.rulesets
      /\ c'.sent = [c.sent EXCEPT ![role] = Tail(@)]
  <2>1. c' = [c EXCEPT !.sent[role] = Tail(@)]
    BY DEF Execute
  <2> QED BY <2>1, <1>1, <1>5 DEF Client, C
<1>7. Executed(c', c, role)
  BY <1>5, <1>6 DEF Executed
<1>8. /\ \E a \in Welcome(Head(c.sent[role])) \cup Unwelcome(Head(c.sent[role])) :
              answers' = [answers EXCEPT ![role] = Append(@, a)]
      /\ rules' = rules /\ unheard' = unheard
  BY DEF Execute
<1> QED BY <1>1, <1>3, <1>7, <1>8 DEF C

\* An answer is on its way to the callback that waits for it.
LEMMA PairedOn ==
  ASSUME NEW m \in Client, NEW n, NEW role \in Roles, Executed(n, m, role),
         NEW a \in Seq(Answer), Paired(m, role, a), m.sent[role] # <<>>,
         NEW x \in Answer, Tells(x)
  PROVE  /\ a = <<>> /\ m.sent[role] = <<m.callbacks[role][1].what>> /\ m.callbacks[role] # <<>>
         /\ n.sent[role] = <<>>
         /\ Append(a, x) = <<x>> /\ Append(a, x) \in Seq(Answer)
         /\ Paired(n, role, Append(a, x))
<1>1. /\ a = <<>> /\ m.callbacks[role] # <<>>
      /\ m.sent[role] = <<m.callbacks[role][1].what>>
  BY DEF Paired
<1>2. n.sent[role] = <<>>
  <2> DEFINE w == m.callbacks[role][1].what
  <2>1. <<w>> \in Seq({w}) /\ Len(<<w>>) = 1
    OBVIOUS
  <2>2. Tail(<<w>>) = <<>>
    BY <2>1, TailOfOne
  <2> QED BY <1>1, <2>2 DEF Executed
<1>3. Append(a, x) = <<x>> /\ <<x>> \in Seq(Answer) /\ Len(<<x>>) = 1 /\ \A i \in DOMAIN <<x>> : <<x>>[i] = x
  BY <1>1
<1>4. n.callbacks[role] # <<>>
  BY <1>1 DEF Executed
<1>5. Paired(n, role, Append(a, x))
  BY <1>2, <1>3, <1>4 DEF Paired
<1> QED BY <1>1, <1>2, <1>3, <1>5

\* The server executes a command of the connector.
LEMMA ExecuteConnecting ==
  ASSUME IInv, NEW role \in Roles, Execute(role), c.status = "connecting"
  PROVE  IInv'
<1> DEFINE n == c'
           what == Head(c.sent[role])
<1>1. /\ Executed(n, c, role)
      /\ c.sent[role] # <<>>
      /\ \E a \in Welcome(what) \cup Unwelcome(what) :
              answers' = [answers EXCEPT ![role] = Append(@, a)]
      /\ Good(c, answers, subscribed, rules, unheard) /\ c \in Client
      /\ c.end = "running" /\ c.context[role] = "up"
      /\ rules' = rules /\ unheard' = unheard
  BY ExecutedIs
<1>2. /\ Connecting(c, unheard) /\ subscribed = {}
      /\ \A o \in Roles : c.context[o] = "up" => Paired(c, o, answers[o])
      /\ answers \in [Roles -> Seq(Answer)] /\ unheard \in SUBSET Roles
      /\ rules \in [1 .. Rulesets -> Nat]
  BY <1>1 DEF Good, Types
<1>3. PICK a \in Welcome(what) \cup Unwelcome(what) :
              answers' = [answers EXCEPT ![role] = Append(@, a)]
  BY <1>1
<1>4. /\ c.callbacks[role] = <<Callback("connector", Asked(c))>>
      /\ c.sent[role] = <<Asked(c)>> /\ role = Steps[c.step].role
  <2>1. c.callbacks[role] # <<>> /\ c.sent[role] = <<c.callbacks[role][1].what>>
    BY <1>1, <1>2 DEF Paired
  <2>2. c.callbacks[role] = <<Callback("connector", Asked(c))>> /\ role = Steps[c.step].role
    BY <1>2, <2>1 DEF Connecting
  <2> QED BY <2>1, <2>2 DEF Callback
<1>5. what = Asked(c) /\ what.cmd \in Kinds
  <2>1. what = Asked(c)
    BY <1>4
  <2>2. Steps[c.step].cmd \in Kinds
    BY <1>2, TheSteps DEF Connecting
  <2> QED BY <2>1, <2>2 DEF Asked, Command
<1>6. subscribed' = {}
  <2>1. what.cmd # "subscribe" /\ what.cmd # "unsubscribe"
    BY <1>5 DEF Kinds
  <2>2. subscribed' = CASE what.cmd = "subscribe"   -> subscribed \cup {what.arg}
                         [] what.cmd = "unsubscribe" -> subscribed \ {what.arg}
                         [] OTHER                    -> subscribed
    BY DEF Execute
  <2> HIDE DEF what
  <2> QED BY <2>1, <2>2, <1>2
<1> HIDE DEF n, what
<1>7. a \in Answer /\ Tells(a)
  <2>1. what.cmd # "read"
    BY <1>5 DEF Kinds
  <2> QED BY <2>1, <1>5, ServerTells
<1>8. /\ answers[role] \in Seq(Answer) /\ Paired(c, role, answers[role])
  BY <1>1, <1>2
<1>9. /\ Append(answers[role], a) \in Seq(Answer)
      /\ Paired(n, role, Append(answers[role], a))
  BY <1>1, <1>7, <1>8, PairedOn
<1>10. /\ answers' \in [Roles -> Seq(Answer)] /\ answers'[role] = Append(answers[role], a)
       /\ \A o \in Roles \ {role} : answers'[o] = answers[o]
  BY <1>2, <1>3, <1>9
<1>11. /\ n \in Client /\ n.status = "connecting" /\ n.end = "running"
  BY <1>1 DEF Executed, n
<1>12. Connecting(n, unheard)
  <2>1. /\ n.timer = c.timer /\ n.pending = c.pending
        /\ n.context = c.context /\ n.step = c.step /\ n.channel = c.channel
        /\ n.callbacks = c.callbacks /\ n.loading = c.loading /\ n.wait = c.wait
        /\ n.known = c.known
    BY <1>1 DEF Executed
  <2>2. Waiting(n) /\ Asked(n) = Asked(c) /\ (Missed(c, unheard) => Missed(n, unheard))
    BY <2>1, <1>2 DEF Connecting, Waiting, Asked, Missed
  <2> QED BY <2>1, <2>2, <1>2 DEF Connecting
<1>13. ASSUME NEW o \in Roles, n.context[o] = "up" PROVE Paired(n, o, answers'[o])
  <2>1. CASE o = role
    BY <2>1, <1>9, <1>10
  <2>2. CASE o # role
    <3>1. Paired(c, o, answers[o])
      BY <1>1, <1>2, <1>13 DEF Executed
    <3> QED BY <3>1, <2>2, <1>1, <1>10 DEF Paired, Executed
  <2> QED BY <2>1, <2>2
<1>14. Good(n, answers', {}, rules, unheard)
  BY <1>2, <1>10, <1>11, <1>12, <1>13 DEF Good, Types
<1>15. Fine(n, answers', {}, rules, unheard)
  BY <1>11, <1>14 DEF Fine
<1> QED BY <1>1, <1>6, <1>15 DEF IInv, n

\* The server reads a ruleset.  What is published before this was stored
\* before it, so that the answer is all there is.
LEMMA ExecuteRead ==
  ASSUME IInv, Execute("ctx"), c.status = "ready"
  PROVE  IInv'
<1> USE DEF Roles
<1> DEFINE n == c'
           what == Head(c.sent["ctx"])
<1>1. /\ Executed(n, c, "ctx")
      /\ c.sent["ctx"] # <<>>
      /\ \E a \in Welcome(what) \cup Unwelcome(what) :
              answers' = [answers EXCEPT !["ctx"] = Append(@, a)]
      /\ Good(c, answers, subscribed, rules, unheard) /\ c \in Client
      /\ c.end = "running" /\ c.context["ctx"] = "up"
      /\ rules' = rules /\ unheard' = unheard
  BY ExecutedIs
<1>2. /\ Steady(c, unheard) /\ Paired(c, "ctx", answers["ctx"])
      /\ Subs(c, answers["sub_ctx"]) /\ Once(c, answers["sub_ctx"])
      /\ Agrees(c, answers, subscribed, rules)
      /\ answers \in [Roles -> Seq(Answer)] /\ unheard \in SUBSET Roles
      /\ subscribed \in SUBSET Channels
      /\ rules \in [1 .. Rulesets -> Nat]
  BY <1>1 DEF Good, Types
<1>3. PICK a \in Welcome(what) \cup Unwelcome(what) :
              answers' = [answers EXCEPT !["ctx"] = Append(@, a)]
  BY <1>1
<1>4. /\ c.callbacks["ctx"] = <<Callback("loader", Command("read", c.loading))>>
      /\ c.sent["ctx"] = <<Command("read", c.loading)>> /\ c.wait = "read"
      /\ c.loading \in 1 .. Rulesets
  <2>1. c.callbacks["ctx"] # <<>> /\ c.sent["ctx"] = <<c.callbacks["ctx"][1].what>>
    BY <1>1, <1>2 DEF Paired
  <2>2. /\ c.callbacks["ctx"] = <<Callback("loader", Command("read", c.loading))>>
        /\ c.wait = "read" /\ c.loading \in 1 .. Rulesets
    BY <1>2, <2>1 DEF Steady
  <2> QED BY <2>1, <2>2 DEF Callback
<1>5. what.cmd = "read" /\ what.arg = c.loading
  BY <1>4 DEF Command
<1>6. subscribed' = subscribed
  <2>1. subscribed' = CASE what.cmd = "subscribe"   -> subscribed \cup {what.arg}
                         [] what.cmd = "unsubscribe" -> subscribed \ {what.arg}
                         [] OTHER                    -> subscribed
    BY DEF Execute
  <2> HIDE DEF what
  <2> QED BY <2>1, <1>5
<1> HIDE DEF n, what
<1>7. /\ a \in Answer /\ Tells(a)
      /\ a.is = "rules" => a.of = rules[c.loading]
  <2>1. what.cmd \in Kinds \cup {"read"} /\ what.arg \in 1 .. Rulesets /\ rules[what.arg] \in Nat
    BY <1>2, <1>4, <1>5
  <2> QED BY <2>1, <1>5, ServerTells
<1>8. answers["ctx"] \in Seq(Answer)
  BY <1>2
<1>9. /\ Append(answers["ctx"], a) \in Seq(Answer) /\ Append(answers["ctx"], a) = <<a>>
      /\ Paired(n, "ctx", Append(answers["ctx"], a))
  BY <1>1, <1>2, <1>7, <1>8, PairedOn
<1>10. /\ answers' \in [Roles -> Seq(Answer)] /\ answers'["ctx"] = <<a>>
       /\ answers'["sub_ctx"] = answers["sub_ctx"]
  BY <1>2, <1>3, <1>9
<1>11. /\ n \in Client /\ n.status = "ready" /\ n.end = "running"
       /\ n.timer = c.timer /\ n.pending = c.pending
       /\ n.context = c.context /\ n.channel = c.channel
       /\ n.callbacks = c.callbacks /\ n.loading = c.loading /\ n.wait = c.wait
       /\ n.known = c.known /\ n.rulesets = c.rulesets
       /\ n.sent["sub_ctx"] = c.sent["sub_ctx"]
  BY <1>1 DEF Executed, n
<1>12. Steady(n, unheard)
  BY <1>2, <1>11 DEF Steady
<1>13. Subs(n, answers'["sub_ctx"]) /\ Once(n, answers'["sub_ctx"])
  BY <1>2, <1>10, <1>11 DEF Subs, Once
<1>14. Agrees(n, answers', subscribed, rules)
  <2> DEFINE x == answers["sub_ctx"]
             l == c.loading
  <2>1. /\ \A j \in 1 .. Rulesets : News(x, j) \subseteq 1 .. rules[j]
        /\ \A j \in c.known \cap subscribed : c.rulesets[j] \cup News(x, j) = 1 .. rules[j]
    BY <1>2 DEF Agrees
  <2>2. a.is = "rules" => (1 .. a.of) \cup News(x, l) = 1 .. rules[l]
    BY <2>1, <1>4, <1>7
  <2>3. \A i \in DOMAIN answers'["ctx"] : answers'["ctx"][i] = a
    BY <1>10
  <2> QED BY <2>1, <2>2, <2>3, <1>10, <1>11 DEF Agrees
<1>15. Good(n, answers', subscribed, rules, unheard)
  BY <1>2, <1>9, <1>10, <1>11, <1>12, <1>13, <1>14 DEF Good, Types
<1>16. Fine(n, answers', subscribed, rules, unheard)
  BY <1>11, <1>15 DEF Fine
<1> QED BY <1>1, <1>6, <1>16 DEF IInv, n

\* The server executes a command that has no callback.
LEMMA ExecuteSubscription ==
  ASSUME IInv, Execute("sub_ctx"), c.status = "ready"
  PROVE  IInv'
<1> USE DEF Roles
<1> DEFINE n == c'
           w == c.sent["sub_ctx"]
           v == n.sent["sub_ctx"]
           x == answers["sub_ctx"]
           y == answers'["sub_ctx"]
           what == Head(w)
<1>1. /\ Executed(n, c, "sub_ctx")
      /\ w \in Seq([cmd : Commands, arg : Nat]) /\ w # <<>>
      /\ \E a \in Welcome(what) \cup Unwelcome(what) :
              answers' = [answers EXCEPT !["sub_ctx"] = Append(@, a)]
      /\ Good(c, answers, subscribed, rules, unheard) /\ c \in Client
      /\ c.end = "running" /\ c.context["sub_ctx"] = "up"
      /\ rules' = rules /\ unheard' = unheard
  BY ExecutedIs
<1>2. /\ Steady(c, unheard) /\ (c.context["ctx"] = "up" => Paired(c, "ctx", answers["ctx"]))
      /\ Subs(c, x) /\ Once(c, x)
      /\ Agrees(c, answers, subscribed, rules)
      /\ answers \in [Roles -> Seq(Answer)] /\ unheard \in SUBSET Roles
      /\ subscribed \in SUBSET Channels
      /\ rules \in [1 .. Rulesets -> Nat]
  BY <1>1 DEF Good, Types
<1>3. PICK a \in Welcome(what) \cup Unwelcome(what) :
              answers' = [answers EXCEPT !["sub_ctx"] = Append(@, a)]
  BY <1>1
<1>4. /\ Tail(w) \in Seq([cmd : Commands, arg : Nat]) /\ 1 \in DOMAIN w /\ what = w[1]
      /\ \A i \in DOMAIN Tail(w) :
           i \in Nat /\ i # 0 /\ i + 1 \in DOMAIN w /\ i + 1 # 1 /\ Tail(w)[i] = w[i + 1]
  BY <1>1, TailIs
<1>5. \/ what.cmd = "subscribe" /\ what.arg = 0
      \/ what.cmd = "subscribe" /\ what.arg = c.loading /\ c.wait = "ack"
      \/ what.cmd = "unsubscribe" /\ what.arg = c.loading /\ c.wait = "unsubscribed"
  BY <1>2, <1>4 DEF Subs
<1>6. what.arg \in Channels /\ (c.wait # "done" => c.loading \in 1 .. Rulesets /\ c.loading # 0)
      /\ c.known \subseteq 1 .. Rulesets /\ c.loading \notin c.known /\ 0 \notin c.known
  <2>1. c.wait # "done" => c.loading \in 1 .. Rulesets
    BY <1>2 DEF Steady
  <2>2. c.known \subseteq 1 .. Rulesets /\ c.loading \in Nat
    BY <1>1, Sizes DEF Client
  <2>3. c.known \subseteq 1 .. c.loading - 1
    BY <1>2 DEF Steady
  <2>4. c.loading \notin c.known
    BY <2>2, <2>3
  <2>5. 0 \notin c.known
    BY <2>2
  <2>6. what.arg = 0 \/ what.arg \in 1 .. Rulesets
    BY <2>1, <1>5
  <2>7. what.arg \in Channels
    BY <2>6, Sizes DEF Channels
  <2> QED BY <2>1, <2>2, <2>4, <2>5, <2>7
<1>7. /\ a \in Answer
      /\ \/ what.cmd = "subscribe" /\ a.is = "ack" /\ a.ch = what.arg
         \/ what.cmd = "unsubscribe" /\ a.is = "unsubscribed" /\ a.ch = what.arg
  <2>1. CASE what.cmd = "subscribe"
    <3>1. a = [is |-> "ack", ch |-> what.arg]
      BY <2>1 DEF Welcome, Unwelcome
    <3> HIDE DEF what
    <3> QED BY <2>1, <3>1, <1>6 DEF Answer
  <2>2. CASE what.cmd = "unsubscribe"
    <3>1. a = [is |-> "unsubscribed", ch |-> what.arg]
      BY <2>2 DEF Welcome, Unwelcome
    <3> HIDE DEF what
    <3> QED BY <2>2, <3>1, <1>6 DEF Answer
  <2> QED BY <2>1, <2>2, <1>5
<1>8. subscribed' = CASE what.cmd = "subscribe"   -> subscribed \cup {what.arg}
                      [] what.cmd = "unsubscribe" -> subscribed \ {what.arg}
                      [] OTHER                    -> subscribed
  BY DEF Execute
<1>9. x \in Seq(Answer)
  BY <1>2
<1> HIDE DEF n, what
<1>10. /\ Append(x, a) \in Seq(Answer)
       /\ \A i \in DOMAIN Append(x, a) :
            (i = Len(x) + 1 /\ Append(x, a)[i] = a) \/ (i \in DOMAIN x /\ Append(x, a)[i] = x[i])
  <2> HIDE DEF x
  <2> QED BY <1>7, <1>9, AppendIs
<1>11. /\ answers' \in [Roles -> Seq(Answer)] /\ y = Append(x, a)
       /\ answers'["ctx"] = answers["ctx"]
  BY <1>2, <1>3, <1>10
<1>12. /\ n \in Client /\ n.status = "ready" /\ n.end = "running"
       /\ n.timer = c.timer /\ n.pending = c.pending
       /\ n.context = c.context /\ n.channel = c.channel
       /\ n.callbacks = c.callbacks /\ n.loading = c.loading /\ n.wait = c.wait
       /\ n.known = c.known /\ n.rulesets = c.rulesets
       /\ n.sent["ctx"] = c.sent["ctx"] /\ v = Tail(w)
  BY <1>1 DEF Executed, n
<1>13. Steady(n, unheard)
  BY <1>2, <1>12 DEF Steady
<1>14. Subs(n, y)
  <2>1. \A i \in DOMAIN v :
           \/ v[i].cmd = "subscribe" /\ v[i].arg = 0
           \/ v[i].cmd = "subscribe" /\ v[i].arg = c.loading /\ c.wait = "ack"
           \/ v[i].cmd = "unsubscribe" /\ v[i].arg = c.loading /\ c.wait = "unsubscribed"
    BY <1>2, <1>4, <1>12 DEF Subs
  <2>2. ASSUME NEW i \in DOMAIN y
        PROVE  \/ y[i].is = "ack" /\ y[i].ch = 0
               \/ y[i].is = "ack" /\ y[i].ch = c.loading /\ c.wait = "ack"
               \/ y[i].is = "unsubscribed" /\ y[i].ch = c.loading /\ c.wait = "unsubscribed"
               \/ y[i].is \in Published
    <3>1. y[i] = a \/ (i \in DOMAIN x /\ y[i] = x[i])
      BY <2>2, <1>10, <1>11
    <3>2. CASE y[i] = a
      BY <3>2, <1>5, <1>7
    <3>3. CASE i \in DOMAIN x /\ y[i] = x[i]
      BY <3>3, <1>2 DEF Subs
    <3> QED BY <3>1, <3>2, <3>3
  <2> QED BY <2>1, <2>2, <1>12 DEF Subs
<1>15. Once(n, y)
  <2>1. ASSUME NEW i \in DOMAIN v, NEW j \in DOMAIN v,
               v[i].cmd = "subscribe", v[j].cmd = "subscribe",
               v[i].arg = v[j].arg, v[i].arg # 0
        PROVE  i = j
    <3>1. /\ i + 1 \in DOMAIN w /\ v[i] = w[i + 1]
          /\ j + 1 \in DOMAIN w /\ v[j] = w[j + 1]
      BY <2>1, <1>4, <1>12
    <3>2. \A k, l \in DOMAIN w :
             w[k].cmd = "subscribe" /\ w[l].cmd = "subscribe" /\ w[k].arg = w[l].arg /\ w[k].arg # 0
             => k = l
      BY <1>2 DEF Once
    <3>3. i + 1 = j + 1
      BY <2>1, <3>1, <3>2
    <3> QED BY <3>3, <2>1, <1>4, <1>12
  <2>2. ASSUME NEW i \in DOMAIN x, x[i].is = "ack", a.is = "ack", a.ch # 0
        PROVE  x[i].ch # a.ch
    BY <2>2, <1>2, <1>4, <1>7 DEF Once
  <2>3. ASSUME NEW i \in DOMAIN y, NEW j \in DOMAIN y,
               y[i].is = "ack", y[j].is = "ack", y[i].ch = y[j].ch, y[i].ch # 0
        PROVE  i = j
    <3>1. /\ (i = Len(x) + 1 /\ y[i] = a) \/ (i \in DOMAIN x /\ y[i] = x[i])
          /\ (j = Len(x) + 1 /\ y[j] = a) \/ (j \in DOMAIN x /\ y[j] = x[j])
      BY <2>3, <1>10, <1>11
    <3>2. CASE i \in DOMAIN x /\ y[i] = x[i] /\ j \in DOMAIN x /\ y[j] = x[j]
      BY <3>2, <2>3, <1>2 DEF Once
    <3>3. CASE y[i] = a /\ j \in DOMAIN x /\ y[j] = x[j]
      BY <3>3, <2>2, <2>3
    <3>4. CASE y[j] = a /\ i \in DOMAIN x /\ y[i] = x[i]
      BY <3>4, <2>2, <2>3
    <3>5. CASE i = Len(x) + 1 /\ j = Len(x) + 1
      BY <3>5
    <3> QED BY <3>1, <3>2, <3>3, <3>4, <3>5
  <2>4. ASSUME NEW i \in DOMAIN v, NEW j \in DOMAIN y,
               v[i].cmd = "subscribe", v[i].arg # 0, y[j].is = "ack"
        PROVE  y[j].ch # v[i].arg
    <3>1. i + 1 \in DOMAIN w /\ i + 1 # 1 /\ v[i] = w[i + 1]
      BY <2>4, <1>4, <1>12
    <3>2. y[j] = a \/ (j \in DOMAIN x /\ y[j] = x[j])
      BY <2>4, <1>10, <1>11
    <3>3. CASE y[j] = a
      <4>1. what.cmd = "subscribe" /\ a.ch = what.arg
        BY <3>3, <2>4, <1>7
      <4>2. w[1].cmd = "subscribe" /\ w[1].arg = a.ch
        BY <4>1, <1>4
      <4> QED BY <4>2, <3>1, <3>3, <2>4, <1>2, <1>4 DEF Once
    <3>4. CASE j \in DOMAIN x /\ y[j] = x[j]
      BY <3>1, <3>4, <2>4, <1>2 DEF Once
    <3> QED BY <3>2, <3>3, <3>4
  <2> QED BY <2>1, <2>3, <2>4 DEF Once
<1>16. n.context["ctx"] = "up" => Paired(n, "ctx", answers'["ctx"])
  BY <1>2, <1>11, <1>12 DEF Paired
<1>17. /\ subscribed' \in SUBSET Channels
       /\ \A j \in c.known : j \in subscribed' => j \in subscribed
       /\ c.wait = "read" /\ c.loading \in subscribed' => c.loading \in subscribed
  <2>1. CASE what.cmd = "subscribe"
    <3>1. subscribed' = subscribed \cup {what.arg}
      BY <2>1, <1>8
    <3>2. what.arg \notin c.known /\ (c.wait = "read" => what.arg # c.loading)
      BY <2>1, <1>5, <1>6
    <3> QED BY <3>1, <3>2, <1>2, <1>6
  <2>2. CASE what.cmd = "unsubscribe"
    <3>1. subscribed' = subscribed \ {what.arg}
      BY <2>2, <1>8
    <3> QED BY <3>1, <1>2
  <2> QED BY <2>1, <2>2, <1>5
<1>18. Agrees(n, answers', subscribed', rules)
  <2>1. \A j : News(y, j) = News(x, j)
    <3>1. ASSUME NEW j PROVE News(Append(x, a), j) = News(x, j)
      <4>1. News(Append(x, a), j) =
              News(x, j) \cup (IF a.is = "create" /\ a.ch = j THEN {a.of} ELSE {})
        <5> HIDE DEF x
        <5> QED BY <1>7, <1>9, NewsAppend
      <4>2. a.is # "create"
        BY <1>7
      <4> QED BY <4>1, <4>2
    <3> QED BY <3>1, <1>11
  <2> QED BY <2>1, <1>2, <1>11, <1>12, <1>17 DEF Agrees
<1>19. Good(n, answers', subscribed', rules, unheard)
  BY <1>2, <1>11, <1>12, <1>13, <1>14, <1>15, <1>16, <1>17, <1>18 DEF Good, Types
<1>20. Fine(n, answers', subscribed', rules, unheard)
  BY <1>12, <1>19 DEF Fine
<1> QED BY <1>1, <1>20 DEF IInv, n

\* A rule is stored and published at once.
LEMMA WriteFine ==
  ASSUME IInv, NEW k \in 1 .. Rulesets, NEW kind \in Published, Write(k, kind)
  PROVE  IInv'
<1> USE DEF Roles
<1> DEFINE x == answers["sub_ctx"]
           y == answers'["sub_ctx"]
           msg == [is |-> kind, ch |-> k, of |-> rules[k] + 1]
<1>1. /\ Good(c, answers, subscribed, rules, unheard) /\ c \in Client
      /\ c.end = "running" /\ c' = c /\ subscribed' = subscribed /\ unheard' = unheard
      /\ rules' = IF kind = "create" THEN [rules EXCEPT ![k] = @ + 1] ELSE rules
      /\ answers' = IF k \notin subscribed \/ c.context["sub_ctx"] = "freed" THEN answers
                    ELSE [answers EXCEPT !["sub_ctx"] = Append(@, msg)]
  BY DEF IInv, Fine, Write, Good, Types
<1>2. /\ answers \in [Roles -> Seq(Answer)] /\ unheard \in SUBSET Roles
      /\ subscribed \in SUBSET Channels /\ rules \in [1 .. Rulesets -> Nat]
  BY <1>1 DEF Good, Types
<1>3. x \in Seq(Answer) /\ rules[k] \in Nat
  BY <1>2
<1>4. msg \in Answer /\ msg.is = kind /\ msg.ch = k /\ msg.of = rules[k] + 1
  <2>1. rules[k] + 1 \in Nat
    BY <1>3
  <2>2. msg \in [is : Published, ch : 1 .. Rulesets, of : Nat]
    BY <2>1
  <2>3. msg.is = kind /\ msg.ch = k /\ msg.of = rules[k] + 1
    OBVIOUS
  <2> HIDE DEF msg
  <2> QED BY <2>2, <2>3 DEF Answer
<1>5. /\ rules' \in [1 .. Rulesets -> Nat]
      /\ \A j \in 1 .. Rulesets : j # k => rules'[j] = rules[j]
      /\ rules'[k] = IF kind = "create" THEN rules[k] + 1 ELSE rules[k]
  BY <1>1, <1>2, <1>3
<1> HIDE DEF msg
<1>6. /\ Append(x, msg) \in Seq(Answer)
      /\ \A i \in DOMAIN Append(x, msg) :
           Append(x, msg)[i] = msg \/ (i \in DOMAIN x /\ Append(x, msg)[i] = x[i])
  <2> HIDE DEF x
  <2> QED BY <1>3, <1>4, AppendIs
<1>7. /\ answers' \in [Roles -> Seq(Answer)] /\ answers'["ctx"] = answers["ctx"]
      /\ \/ y = x /\ (k \notin subscribed \/ c.context["sub_ctx"] = "freed")
         \/ y = Append(x, msg) /\ k \in subscribed
  BY <1>1, <1>2, <1>6
<1>8. CASE c.status # "ready"
  <2>1. subscribed = {}
    BY <1>1, <1>8 DEF Good
  <2>2. answers' = answers
    BY <1>1, <2>1
  <2>3. Good(c, answers, subscribed, rules', unheard)
    BY <1>1, <1>2, <1>5, <1>8 DEF Good, Types
  <2>4. Fine(c, answers, subscribed, rules', unheard)
    BY <1>1, <2>3 DEF Fine
  <2> QED BY <1>1, <2>2, <2>4 DEF IInv
<1>9. CASE c.status = "ready"
  <2>1. /\ Steady(c, unheard) /\ (c.context["ctx"] = "up" => Paired(c, "ctx", answers["ctx"]))
        /\ Subs(c, x) /\ Once(c, x) /\ Agrees(c, answers, subscribed, rules)
    BY <1>1, <1>9 DEF Good
  <2>2. \A i \in DOMAIN y :
           y[i].is \in Published \/ (i \in DOMAIN x /\ y[i] = x[i])
    BY <1>4, <1>6, <1>7
  <2>3. Subs(c, y)
    BY <2>1, <2>2 DEF Subs
  <2>4. Once(c, y)
    <3>1. \A i \in DOMAIN y : y[i].is = "ack" => i \in DOMAIN x /\ y[i] = x[i]
      BY <2>2
    <3> QED BY <3>1, <2>1 DEF Once
  <2>5. ASSUME NEW j
        PROVE  News(y, j) = IF kind = "create" /\ j = k /\ k \in subscribed
                            THEN News(x, j) \cup {rules[k] + 1} ELSE News(x, j)
    <3>1. News(Append(x, msg), j) =
            News(x, j) \cup (IF msg.is = "create" /\ msg.ch = j THEN {msg.of} ELSE {})
      <4> HIDE DEF x
      <4> QED BY <1>3, <1>4, NewsAppend
    <3>2. CASE y = Append(x, msg) /\ k \in subscribed
      BY <3>1, <3>2, <1>4
    <3>3. CASE y = x /\ k \notin subscribed
      BY <3>3
    <3>4. c.context["sub_ctx"] # "freed"
      BY <2>1 DEF Steady
    <3> QED BY <3>2, <3>3, <3>4, <1>7
  <2>6. ASSUME NEW j \in 1 .. Rulesets, NEW S, j \in subscribed,
               S \cup News(x, j) = 1 .. rules[j]
        PROVE  S \cup News(y, j) = 1 .. rules'[j]
    <3>1. CASE kind = "create" /\ j = k
      <4>1. News(y, j) = News(x, j) \cup {rules[k] + 1}
        BY <2>5, <2>6, <3>1
      <4>2. S \cup News(y, j) = (1 .. rules[k]) \cup {rules[k] + 1}
        BY <2>6, <3>1, <4>1
      <4>3. (1 .. rules[k]) \cup {rules[k] + 1} = 1 .. rules[k] + 1
        BY <1>3
      <4> QED BY <4>2, <4>3, <3>1, <1>5
    <3>2. CASE ~(kind = "create" /\ j = k)
      <4>1. News(y, j) = News(x, j)
        BY <2>5, <3>2
      <4>2. rules'[j] = rules[j]
        BY <3>2, <1>5
      <4> QED BY <4>1, <4>2, <2>6
    <3> QED BY <3>1, <3>2
  <2>7. ASSUME NEW j \in 1 .. Rulesets PROVE News(y, j) \subseteq 1 .. rules'[j]
    <3>1. News(x, j) \subseteq 1 .. rules[j] /\ rules[j] \in Nat
      BY <2>1, <1>2 DEF Agrees
    <3>2. 1 .. rules[j] \subseteq 1 .. rules'[j]
      BY <3>1, <1>5
    <3>3. News(y, j) = News(x, j)
            \/ (News(y, j) = News(x, j) \cup {rules[k] + 1} /\ j = k /\ kind = "create")
      BY <2>5
    <3>4. kind = "create" => rules[k] + 1 \in 1 .. rules'[k]
      BY <1>3, <1>5
    <3> QED BY <3>1, <3>2, <3>3, <3>4
  <2>8. Agrees(c, answers', subscribed, rules')
    <3>1. ASSUME NEW j \in c.known \cap subscribed
          PROVE  c.rulesets[j] \cup News(y, j) = 1 .. rules'[j]
      <4>1. j \in 1 .. Rulesets
        BY <1>1 DEF Client
      <4>2. c.rulesets[j] \cup News(x, j) = 1 .. rules[j]
        BY <2>1 DEF Agrees
      <4> QED BY <4>1, <4>2, <2>6
    <3>2. ASSUME c.wait = "read", c.loading \in subscribed, NEW i \in DOMAIN answers["ctx"],
                 answers["ctx"][i].is = "rules"
          PROVE  (1 .. answers["ctx"][i].of) \cup News(y, c.loading) = 1 .. rules'[c.loading]
      <4>1. c.loading \in 1 .. Rulesets
        BY <2>1, <3>2 DEF Steady
      <4>2. (1 .. answers["ctx"][i].of) \cup News(x, c.loading) = 1 .. rules[c.loading]
        BY <2>1, <3>2 DEF Agrees
      <4> QED BY <4>1, <4>2, <3>2, <2>6
    <3> HIDE DEF x
    <3> QED BY <3>1, <3>2, <2>7, <1>7 DEF Agrees
  <2>9. Good(c, answers', subscribed, rules', unheard)
    BY <1>1, <1>2, <1>5, <1>7, <1>9, <2>1, <2>3, <2>4, <2>8 DEF Good, Types
  <2>10. Fine(c, answers', subscribed, rules', unheard)
    BY <1>1, <2>9 DEF Fine
  <2> QED BY <1>1, <2>10 DEF IInv
<1> QED BY <1>8, <1>9

\* Every step preserves the invariant.
LEMMA NextFine ==
  ASSUME IInv, [Next]_vars
  PROVE  IInv'
<1>1. CASE UNCHANGED vars
  <2>1. c' = c /\ answers' = answers /\ subscribed' = subscribed /\ rules' = rules
        /\ unheard' = unheard
    BY <1>1 DEF vars
  <2> QED BY <2>1 DEF IInv
<1>2. ASSUME NEW role \in Roles, c.end = "running", c.context[role] = "up"
      PROVE  c.status \in {"connecting", "ready"}
  <2>1. Good(c, answers, subscribed, rules, unheard) /\ c \in Client
    BY <1>2 DEF IInv, Fine, Good, Types
  <2>2. c.status # "disconnected"
    BY <2>1, <1>2 DEF Good, Closed
  <2> QED BY <2>1, <2>2 DEF Client
<1>3. CASE Retry
  BY <1>3, RetryFine
<1>4. CASE AskAgain
  BY <1>4, AskAgainFine
<1>5. ASSUME NEW role \in Roles, Receive(role) PROVE IInv'
  <2>1. c.status \in {"connecting", "ready"}
    BY <1>2, <1>5 DEF Receive, Listening
  <2>2. CASE c.status = "connecting"
    BY <2>2, <1>5, ReceiveConnecting
  <2>3. CASE c.status = "ready"
    BY <2>3, <1>5, ReceiveRead, ReceivePushed DEF Roles
  <2> QED BY <2>1, <2>2, <2>3
<1>6. ASSUME NEW role \in Roles, Lose(role) PROVE IInv'
  <2>1. c.status \in {"connecting", "ready"}
    BY <1>2, <1>6 DEF Lose, Listening
  <2>2. CASE c.status = "connecting"
    BY <2>2, <1>6, LoseConnecting
  <2>3. CASE c.status = "ready"
    BY <2>3, <1>6, LoseCommands, LoseSubscriptions DEF Roles
  <2> QED BY <2>1, <2>2, <2>3
<1>7. ASSUME NEW role \in Roles, Execute(role) PROVE IInv'
  <2>1. c.status \in {"connecting", "ready"}
    BY <1>2, <1>7 DEF Execute, Listening
  <2>2. CASE c.status = "connecting"
    BY <2>2, <1>7, ExecuteConnecting
  <2>3. CASE c.status = "ready"
    BY <2>3, <1>7, ExecuteRead, ExecuteSubscription DEF Roles
  <2> QED BY <2>1, <2>2, <2>3
<1>8. ASSUME NEW n \in 1 .. Rulesets, NEW kind \in Published, Write(n, kind)
      PROVE  IInv'
  BY <1>8, WriteFine
<1> QED BY <1>1, <1>3, <1>4, <1>5, <1>6, <1>7, <1>8 DEF Next

\* The invariant of wfx_redis.c, redis.lua and init.lua's loader: one callback
\* at most, on one context, and the messages that are on their way to it.
THEOREM ClientInvariant == Spec => []IInv
<1>1. Init => IInv
  BY InitFine
<1>2. IInv /\ [Next]_vars => IInv'
  BY NextFine
<1> QED BY <1>1, <1>2, PTL DEF Spec

\* A context that redis_close or hiredis freed is used again only if it was lost
\* while nobody waited on it for an answer that is looked at.
THEOREM ClientFreed == Spec => []FreedIsUnheard
<1>1. IInv => FreedIsUnheard
  BY DEF IInv, Fine, FreedIsUnheard
<1> QED BY <1>1, ClientInvariant, PTL

\* What is on its way is counted by the one callback that waits for it.
LEMMA PairedCounts ==
  ASSUME NEW m \in Client, NEW role \in Roles, NEW a \in Seq(Answer), Paired(m, role, a),
         NEW cb, m.callbacks[role] = <<>> \/ m.callbacks[role] = <<cb>>,
         cb.what.cmd \notin {"subscribe", "unsubscribe"}
  PROVE  Len(m.callbacks[role]) =
           Cardinality({i \in DOMAIN m.sent[role] :
                          m.sent[role][i].cmd \notin {"subscribe", "unsubscribe"}})
             + Cardinality({i \in DOMAIN a : Tells(a[i])})
<1> DEFINE w == m.sent[role]
           A == {i \in DOMAIN w : w[i].cmd \notin {"subscribe", "unsubscribe"}}
           T == {i \in DOMAIN a : Tells(a[i])}
<1>1. Cardinality({}) = 0 /\ Cardinality({1}) = 1
  BY FS_EmptySet, FS_Singleton
<1>2. CASE m.callbacks[role] = <<>> /\ w = <<>> /\ a = <<>>
  <2>1. A = {} /\ T = {}
    BY <1>2
  <2>2. Len(m.callbacks[role]) = 0
    BY <1>2
  <2> HIDE DEF A, T
  <2>5. Len(m.callbacks[role]) = Cardinality(A) + Cardinality(T)
    BY <2>1, <2>2, <1>1
  <2> QED BY <2>5 DEF A, T
<1>3. CASE m.callbacks[role] # <<>> /\ w = <<m.callbacks[role][1].what>> /\ a = <<>>
  <2>1. m.callbacks[role] = <<cb>> /\ w = <<cb.what>>
    BY <1>3
  <2>2. A = {1} /\ T = {}
    BY <1>3, <2>1
  <2>3. Len(m.callbacks[role]) = 1
    BY <2>1
  <2> HIDE DEF A, T
  <2>5. Len(m.callbacks[role]) = Cardinality(A) + Cardinality(T)
    BY <2>2, <2>3, <1>1
  <2> QED BY <2>5 DEF A, T
<1>4. CASE m.callbacks[role] # <<>> /\ w = <<>> /\ Len(a) = 1
  <2>1. m.callbacks[role] = <<cb>>
    BY <1>4
  <2>2. DOMAIN a = {1} /\ \A i \in DOMAIN a : Tells(a[i])
    BY <1>4 DEF Paired
  <2>3. A = {} /\ T = {1}
    BY <1>4, <2>2
  <2>4. Len(m.callbacks[role]) = 1
    BY <2>1
  <2> HIDE DEF A, T
  <2>5. Len(m.callbacks[role]) = Cardinality(A) + Cardinality(T)
    BY <2>3, <2>4, <1>1
  <2> QED BY <2>5 DEF A, T
<1> QED BY <1>2, <1>3, <1>4 DEF Paired

\* Whoever is resumed by redisProcessCallbacks gets the answer to what he asked,
\* and whoever waits for an answer will be resumed, but for the lost HSET.
THEOREM ClientAnswers == Spec => []OwnAnswer
<1>1. IInv => OwnAnswer
  <2> SUFFICES ASSUME IInv, c.end = "running" PROVE OwnAnswer
    BY DEF OwnAnswer
  <2>1. Good(c, answers, subscribed, rules, unheard)
    BY DEF IInv, Fine
  <2>2. /\ c \in Client /\ answers \in [Roles -> Seq(Answer)] /\ TypeOK
    BY <2>1 DEF Good, Types, TypeOK
  <2>3. c.status \in {"disconnected", "connecting", "ready"}
    BY <2>2 DEF Client
  <2>4. ASSUME NEW role \in Roles
        PROVE  \/ c.callbacks[role] = <<>>
               \/ /\ c.callbacks[role] = <<Callback("connector", Asked(c))>>
                  /\ c.status = "connecting" /\ c.step \in 1 .. Len(Steps)
               \/ /\ c.callbacks[role] = <<Callback("loader", Command("read", c.loading))>>
                  /\ c.status = "ready" /\ c.wait = "read"
    <3>1. CASE c.status = "disconnected"
      BY <3>1, <2>1 DEF Good, Closed
    <3>2. CASE c.status = "connecting"
      BY <3>2, <2>1 DEF Good, Connecting
    <3>3. CASE c.status = "ready"
      BY <3>3, <2>1 DEF Good, Steady, Roles
    <3> QED BY <2>3, <3>1, <3>2, <3>3
  <2>5. ASSUME NEW role \in Roles, NEW i \in DOMAIN c.callbacks[role]
        PROVE  LET cb == c.callbacks[role][i]
               IN  IF cb.who = "connector"
                     THEN c.status = "connecting" /\ cb.what.arg = c.step
                     ELSE c.wait = "read" /\ cb.what.arg = c.loading
    <3>1. CASE c.callbacks[role] = <<Callback("connector", Asked(c))>> /\ c.status = "connecting"
      <4>1. c.callbacks[role][i] = Callback("connector", Asked(c))
        BY <3>1, <2>5
      <4> QED BY <3>1, <4>1 DEF Callback, Asked, Command
    <3>2. CASE /\ c.callbacks[role] = <<Callback("loader", Command("read", c.loading))>>
               /\ c.wait = "read"
      <4>1. c.callbacks[role][i] = Callback("loader", Command("read", c.loading))
        BY <3>2, <2>5
      <4> QED BY <3>2, <4>1 DEF Callback, Command
    <3> QED BY <2>4, <2>5, <3>1, <3>2
  <2>6. ASSUME NEW role \in Roles, c.context[role] = "up"
        PROVE  Len(c.callbacks[role]) = Cardinality(Asking(role)) + Cardinality(Telling(role))
    <3>1. answers[role] \in Seq(Answer)
      BY <2>2
    <3>2. CASE c.status = "ready" /\ role = "sub_ctx"
      <4>1. c.callbacks[role] = <<>> /\ Subs(c, answers[role])
        BY <3>2, <2>1 DEF Good, Steady
      <4>2. Asking(role) = {} /\ Telling(role) = {}
        BY <3>2, <4>1 DEF Asking, Telling, Subs
      <4> QED BY <4>1, <4>2, FS_EmptySet
    <3>3. CASE ~(c.status = "ready" /\ role = "sub_ctx")
      <4>1. Paired(c, role, answers[role])
        BY <2>1, <2>3, <2>6, <3>3 DEF Good, Closed, Roles
      <4>2. PICK cb : /\ c.callbacks[role] = <<>> \/ c.callbacks[role] = <<cb>>
                      /\ cb.what.cmd \notin {"subscribe", "unsubscribe"}
        <5> DEFINE C == Callback("connector", Asked(c))
                   L == Callback("loader", Command("read", c.loading))
        <5>1. L.what.cmd = "read"
          BY DEF Callback, Command
        <5>2. c.step \in 1 .. Len(Steps) => C.what.cmd \in Kinds
          BY TheSteps DEF Callback, Asked, Command
        <5> HIDE DEF C, L
        <5> QED BY <5>1, <5>2, <2>4 DEF C, L, Kinds
      <4>3. Len(c.callbacks[role]) =
              Cardinality({i \in DOMAIN c.sent[role] :
                             c.sent[role][i].cmd \notin {"subscribe", "unsubscribe"}})
                + Cardinality({i \in DOMAIN answers[role] : Tells(answers[role][i])})
        BY <4>1, <4>2, <3>1, <2>2, PairedCounts
      <4> QED BY <4>3 DEF Asking, Telling, Tells
    <3> QED BY <3>2, <3>3
  <2>7. LET asked(who) == \E role \in Roles : \E i \in DOMAIN c.callbacks[role] :
                           c.callbacks[role][i].who = who
        IN /\ c.status = "connecting" /\ ~asked("connector") => c.timer = "loading" \/ Refused
           /\ c.wait = "read" => asked("loader")
    <3> DEFINE asked(who) == \E role \in Roles : \E i \in DOMAIN c.callbacks[role] :
                           c.callbacks[role][i].who = who
    <3>1. ASSUME c.status = "connecting", ~(c.timer = "loading" \/ Refused)
          PROVE  asked("connector")
      <4>1. c.callbacks[Steps[c.step].role] # <<>> /\ Steps[c.step].role \in Roles
        BY <3>1, <2>1, TheSteps DEF Good, Connecting, Missed, Refused
      <4>2. c.callbacks[Steps[c.step].role] = <<Callback("connector", Asked(c))>>
        BY <3>1, <4>1, <2>4
      <4>3. /\ 1 \in DOMAIN c.callbacks[Steps[c.step].role]
            /\ c.callbacks[Steps[c.step].role][1].who = "connector"
        BY <4>2 DEF Callback
      <4> QED BY <4>1, <4>3
    <3>2. ASSUME c.wait = "read" PROVE asked("loader")
      <4>1. c.status = "ready"
        BY <3>2, <2>1, <2>3 DEF Good, Closed, Connecting, Waiting
      <4>2. c.callbacks["ctx"] = <<Callback("loader", Command("read", c.loading))>>
        BY <3>2, <4>1, <2>1 DEF Good, Steady
      <4>3. "ctx" \in Roles /\ 1 \in DOMAIN c.callbacks["ctx"] /\ c.callbacks["ctx"][1].who = "loader"
        BY <4>2 DEF Callback, Roles
      <4> QED BY <4>3
    <3> QED BY <3>1, <3>2
  <2>8. /\ c.status = "disconnected" => c.timer = "retry"
        /\ c.wait = "ack" => c.status # "ready" \/ c.channel[c.loading] = "wrapped"
    BY <2>1 DEF Good, Closed, Steady
  <2> QED BY <2>2, <2>5, <2>6, <2>7, <2>8 DEF OwnAnswer
<1> QED BY <1>1, ClientInvariant, PTL

\* The loader misses no update: a loaded ruleset and what was published about
\* it and has not arrived yet make up all that is stored.
THEOREM ClientAgrees == Spec => []Agreement
<1>1. IInv => Agreement
  <2> SUFFICES ASSUME IInv, NEW n \in c.known \cap subscribed,
                      c.end = "running", c.context["sub_ctx"] = "up"
               PROVE  LET news == {i \in DOMAIN answers["sub_ctx"] :
                            answers["sub_ctx"][i].is = "create" /\ answers["sub_ctx"][i].ch = n}
                      IN  c.rulesets[n] \cup {answers["sub_ctx"][i].of : i \in news} = 1 .. rules[n]
    BY DEF Agreement
  <2>1. Good(c, answers, subscribed, rules, unheard)
    BY DEF IInv, Fine
  <2>2. Agrees(c, answers, subscribed, rules)
    BY <2>1 DEF Good
  <2>3. c.rulesets[n] \cup News(answers["sub_ctx"], n) = 1 .. rules[n]
    BY <2>2 DEF Agrees
  <2> QED BY <2>3 DEF News
<1> QED BY <1>1, ClientInvariant, PTL
=============================================================================
