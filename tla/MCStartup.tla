----------------------------- MODULE MCStartup ------------------------------
(* Documents that can be loaded and destroyed, or not; places known from   *)
(* files, from Redis or not at all; and an array of places that was moved. *)
EXTENDS Startup

Rule(conds, nest) == [conds |-> conds, nest |-> nest, key |-> FALSE, act |-> "tag"]
Limiter(burst) == [burst |-> burst, interval |-> <<60, "s">>]
Reply(act) == [Rule({"false"}, "if") EXCEPT !.act = act]
Doc(limiters, rules, lists, phases) ==
    [limiters |-> limiters, rules |-> rules, lists |-> lists, phases |-> phases]
Nothing == << >>

Limits ==
    Doc("L1" :> Limiter("L2") @@ "L2" :> Limiter(None), "r1" :> Rule({"L1", "match"}, "any"),
        "A" :> <<[name |-> "r1"]>>, Nothing)
Tags == Doc(Nothing, "r1" :> Rule({}, "if"), "A" :> <<[name |-> "r1"]>>, Nothing)
Replying(act) == Doc(Nothing, "r1" :> Reply(act), "A" :> <<[name |-> "r1"]>>, Nothing)
Both == Doc(Nothing, "r1" :> Rule({"tag-check", ".delay"}, "all"), Nothing, Nothing)
Phased == Doc(Nothing, "r1" :> Rule({}, "if"), "A" :> <<[name |-> "r1"]>>, "request" :> <<[name |-> "A"]>>)
WithAll == Doc("L1" :> Limiter(None), "r1" :> Rule({"L1"}, "all"), Nothing, Nothing)
Wrong == Doc(Nothing, "r1" :> Rule({"L1"}, "if"), Nothing, Nothing)

Conf(places, file, redis, moved) ==
    [places |-> places, file |-> file, redis |-> redis, enabled |-> redis # Nothing,
     moved |-> moved, loader |-> FALSE, opened |-> 1, deaths |-> 1]
InFile(doc) == Conf(<<"x">>, "x" :> doc, Nothing, FALSE)

MCConfigs ==
    {InFile(doc) : doc \in {Limits, Replying("reject"), Phased, WithAll, Wrong}} \cup
    {[InFile(Tags) EXCEPT !.opened = 2, !.deaths = 0],
     [InFile(Tags) EXCEPT !.loader = TRUE, !.opened = 0],
     [InFile(Both) EXCEPT !.opened = 0],
     [InFile(Replying("wait")) EXCEPT !.opened = 0, !.deaths = 0],
     [InFile(Replying("accept")) EXCEPT !.opened = 0, !.deaths = 0],
     Conf(<<"y">>, "x" :> Tags, Nothing, FALSE),
     Conf(<<"x", "y", "x">>, "x" :> Tags, "y" :> Tags, FALSE),
     [Conf(<<"y">>, Nothing, "y" :> Tags, FALSE) EXCEPT !.opened = 2],
     Conf(<<"y">>, Nothing, "y" :> Wrong, FALSE)} \cup
    {[Conf(<<"x", "y">>, "x" :> Tags @@ "y" :> Tags, Nothing, moved) EXCEPT !.deaths = 0] : moved \in BOOLEAN}
=============================================================================
