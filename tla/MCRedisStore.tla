---------------------------- MODULE MCRedisStore ----------------------------
(* One ruleset, documents for every way to succeed or to stop half way.    *)
EXTENDS RedisStore

Rule(conds, nest) == [conds |-> conds, nest |-> nest, key |-> FALSE, act |-> "tag"]
Limiter(burst) == [burst |-> burst, interval |-> <<1, "m">>]
Ref(n) == [name |-> n]
RuleHere(n, r) == [name |-> n, rule |-> r]
ListHere(n, es) == [name |-> n, list |-> es]
LongList(es) == [list |-> es]
Doc(limiters, rules, lists, phases) ==
    [limiters |-> limiters, rules |-> rules, lists |-> lists, phases |-> phases]
Nothing == << >>

Plain == Rule({}, "if")
Reply == [Plain EXCEPT !.act = "reject"]
Keyed == [Plain EXCEPT !.key = TRUE]
Unknown == [Plain EXCEPT !.act = "redirect"]

(* Everything at once, with rules and a list written on the spot, and a    *)
(* rule whose name is the next one to be generated.                        *)
Full ==
    Doc("L1" :> Limiter("L2") @@ "L2" :> [Limiter(None) EXCEPT !.interval = <<6000, "ms">>],
        "r1" :> Rule({"L1", "L2"}, "any") @@ "rule1" :> Rule({"match", "tag-check"}, "all"),
        "A" :> <<Ref("r1"), RuleHere(None, Rule({"L2"}, "if")), Ref("r1")>>,
        "request" :> <<Ref("A"), ListHere(None, <<Ref("rule1"), RuleHere("r3", Plain)>>)>>)

(* A rule with a key stops the script when the limiters are there.         *)
WithKey == Doc("L1" :> Limiter(None), "r1" :> Rule({"L1"}, "if") @@ "r2" :> Keyed, Nothing, Nothing)
WithAll == Doc("L1" :> Limiter(None), "r1" :> Plain @@ "r2" :> Rule({"L1"}, "all"), Nothing, Nothing)
NoSuchPhase ==
    Doc("L1" :> Limiter(None), "r1" :> Rule({"L1"}, "if"), "A" :> <<Ref("r1"), RuleHere(None, Plain)>>,
        "request" :> <<Ref("A")>> @@ "answer" :> <<Ref("A")>>)
Replying == Doc(Nothing, "2" :> Reply, "A" :> <<Ref("2")>>, "request" :> <<Ref("A")>>)
(* Lists in long form without a name: one, one that is called like a list, *)
(* two of them.                                                            *)
OneLong == Doc(Nothing, "r1" :> Plain, Nothing, "request" :> <<LongList(<<Ref("r1")>>)>>)
NilNamed == Doc(Nothing, "r1" :> Plain, "nil" :> <<>>, "request" :> <<LongList(<<Ref("r1")>>)>>)
TwoLong == Doc(Nothing, "r1" :> Plain, Nothing, "request" :> <<LongList(<<Ref("r1")>>), LongList(<<>>)>>)
Small == Doc("L3" :> Limiter("L3"), "r1" :> Plain, Nothing, Nothing)
Least == Doc(Nothing, "r1" :> Plain, "A" :> <<Ref("r1")>>, "request" :> <<Ref("A")>>)
NoLists == [limiters |-> Nothing, rules |-> Nothing, phases |-> Nothing]
UnknownBurst == Doc("L1" :> Limiter("L9"), Nothing, Nothing, Nothing)
TooShort == Doc("L1" :> [Limiter(None) EXCEPT !.interval = <<59, "s">>], Nothing, Nothing, Nothing)

MCDocuments ==
    {Full, WithKey, WithAll, NoSuchPhase, Replying, Small, Least, NoLists, UnknownBurst, TooShort,
     OneLong, NilNamed, TwoLong}
MCParts == {NoSuchPhase, Small, Replying}
MCRules == {Plain, Keyed, Unknown, Rule({".delay", "true"}, "any"), Rule({"L1"}, "if"), Rule({"L1", "L2"}, "any"),
            Rule({"L1", "false"}, "all"), Rule({"L3"}, "if")}
=============================================================================
