----------------------------- MODULE RedisStore -----------------------------
(***************************************************************************)
(* What the scripts ruleset_write and ruleset_read keep in Redis           *)
(* (lua/redis, compiled into ngx_wafflex_redis_lua_scripts.c).  A script   *)
(* runs alone, so a command is one step; but Redis does not undo what a    *)
(* script wrote before it raised an error.  db maps the keys that exist to *)
(* their values: hashes, sets, sorted sets and lists.  A key is a tuple    *)
(* that starts with the name of its ruleset.                               *)
(***************************************************************************)
EXTENDS RulesetNew

CONSTANTS
    Rulesets,       \* the names commands are given
    Documents,      \* the documents ruleset create is given
    RuleNames,      \* the names rule commands are given, and ""
    Rules,          \* the rules they are given
    Parts,          \* documents whose lists and limiters other commands are given
    Lengths,        \* the lengths of the limiters' names
    MaxCommands     \* bound: the commands of a behaviour

ASSUME Inputs ==
    /\ MaxCommands \in Nat /\ Lengths \subseteq Nat /\ None \notin Rulesets /\ "" \notin Rulesets
    /\ \A doc \in Documents : Accepts(doc) => IsRead(doc)
    /\ \A rule \in Rules : IsRule(rule)

VARIABLES
    db,         \* the keys of Redis
    answer,     \* of the last command: "1", "0" or "error"
    command,    \* the last command
    written,    \* ruleset -> what its writers were told it is
    sent        \* the commands so far

vars == <<db, answer, command, written, sent>>

(***************************************************************************)
(* Redis commands.                                                         *)
(***************************************************************************)
Exists(d, key) == key \in DOMAIN d
Over(d, new) == [k \in DOMAIN d \cup DOMAIN new |-> IF k \in DOMAIN new THEN new[k] ELSE d[k]]
With(d, key, value) == Over(d, [k \in {key} |-> value])
Hash(d, key) == IF Exists(d, key) THEN d[key] ELSE << >>
Hset(d, key, fields) == With(d, key, Over(Hash(d, key), fields))
Members(d, key) == IF Exists(d, key) THEN d[key] ELSE {}
Sadd(d, key, member) == With(d, key, Members(d, key) \cup {member})
Score(d, key, member) == IF member \in DOMAIN Hash(d, key) THEN d[key][member] ELSE 0

(* ZINCRBY of who in every sorted set of times, by as much as times says;  *)
(* ZREMRANGEBYSCORE from -inf to 0 of those in keys.                       *)
Zincr(d, times, who) ==
    Over(d, [k \in DOMAIN times |-> With(Hash(d, k), who, Score(d, k, who) + times[k])])
Left(d, key) == {m \in DOMAIN Hash(d, key) : d[key][m] > 0}
ZremDown(d, keys) ==
    [k \in {k \in DOMAIN d : k \in keys => Left(d, k) # {}} |->
        IF k \in keys THEN [m \in Left(d, k) |-> d[k][m]] ELSE d[k]]

RulesetKey(rs) == <<rs>>
SetKey(rs, set) == <<rs, set>>
ThingKey(rs, id) == <<rs, id[1], id[2]>>
RefsKey(rs, id) == <<rs, id[1], id[2], "refs">>
RefsKeys(rs, refs) == {RefsKey(rs, ref) : ref \in refs}
ListedKey == <<"rulesets">>
CountKey(rs) == IF rs = None THEN <<"rulesets", "n">> ELSE RulesetKey(rs)
Count(d, rs, thing) == IF thing \in DOMAIN Hash(d, CountKey(rs)) THEN d[CountKey(rs)][thing] ELSE 0
SetOf == [list |-> "lists", phase |-> "phases"]

(***************************************************************************)
(* The bindings: what a script does for one call of the ruleset's.  The    *)
(* result is [db, ok].                                                     *)
(***************************************************************************)
Done(d) == [db |-> d, ok |-> TRUE]
Raise(d) == [db |-> d, ok |-> FALSE]

(* Every thing in refs gains, or loses, a reference of who.                *)
RefAll(d, rs, refs, who) == Zincr(d, [k \in RefsKeys(rs, refs) |-> 1], who)
DropAll(d, rs, refs, who) ==
    ZremDown(Zincr(d, [k \in RefsKeys(rs, refs) |-> -1], who), RefsKeys(rs, refs))

(* What is its own is written first.  A burst limiter that is still a name has no *)
(* name of its own: HSET is given a nil and raises.                        *)
CreateLimiter(d, rs, id, of) ==
    LET hash == Hset(d, ThingKey(rs, id), [interval |-> of.interval])
        full == Hset(hash, ThingKey(rs, id), [burst |-> of.burst])
        set  == Sadd(full, SetKey(rs, "limiters"), id[2])
    IN CASE Exists(d, ThingKey(rs, id)) -> Raise(d)
         [] ~Exists(d, ThingKey(rs, id)) /\ ~of.resolved -> Raise(hash)
         [] OTHER -> Done(IF of.burst = None THEN set
                          ELSE RefAll(set, rs, {Id("limiter", of.burst)}, id))

(* What rulecomponent's storage form keeps of a rule.                      *)
Stored(rule) == [rule EXCEPT !.key = FALSE]

RefsOf(rule) == {Id("limiter", l) : l \in LimitsOf(rule)}

(* mutant: the name is written before the rest is looked at.               *)
CreateRuleNameFirst(d, rs, id, rule) ==
    LET hash == Hset(d, ThingKey(rs, id), [rule |-> Stored(rule)])
    IN IF Exists(d, ThingKey(rs, id)) THEN Raise(d)
       ELSE IF rule.key THEN Raise(hash)
       ELSE Done(Sadd(RefAll(hash, rs, RefsOf(rule), id), SetKey(rs, "rules"), id[2]))

(* A key is a table by now, which HMSET does not take.                     *)
CreateRule(d, rs, id, rule) ==
    LET hash == Hset(d, ThingKey(rs, id), [rule |-> rule])
    IN IF Exists(d, ThingKey(rs, id)) \/ rule.key THEN Raise(d)
       ELSE Done(Sadd(RefAll(hash, rs, RefsOf(rule), id), SetKey(rs, "rules"), id[2]))

(* list and phase: an array of names, each counted where it appears.       *)
Times(names, n) == Cardinality({i \in DOMAIN names : names[i] = n})

CreateList(d, rs, id, names, type) ==
    LET hash == Hset(d, ThingKey(rs, id), [names |-> names])
        times == [k \in RefsKeys(rs, {Id(type, n) : n \in ToSet(names)}) |-> Times(names, k[3])]
    IN IF Exists(d, ThingKey(rs, id)) THEN Raise(d)
       ELSE Done(Sadd(Zincr(hash, times, id), SetKey(rs, SetOf[id[1]]), id[2]))

CreateRulesetHash(d, rs) ==
    IF rs \in Members(d, ListedKey) THEN Raise(d)
    ELSE Done(Sadd(Hset(d, RulesetKey(rs), [name |-> rs]), ListedKey, rs))

Apply(d, rs, call) ==
    CASE call.id[1] = "limiter" -> CreateLimiter(d, rs, call.id, call.of)
      [] call.id[1] = "rule"    -> CreateRule(d, rs, call.id, call.of)
      [] call.id[1] = "list"    -> CreateList(d, rs, call.id, call.of, "rule")
      [] call.id[1] = "phase"   -> CreateList(d, rs, call.id, call.of, "list")
      [] call.id[1] = "ruleset" -> CreateRulesetHash(d, rs)
      [] call.id[1] = "count"   -> Done(Hset(d, CountKey(rs), [f \in {call.id[2]} |-> call.of]))
      [] OTHER -> Done(d)

(* A script: its calls one after the other up to the first that raises;    *)
(* what was written by then stays.                                         *)
Run(d, rs, st) ==
    LET step(acc, call) == IF acc.ok THEN Apply(acc.db, rs, call) ELSE acc
        all == FoldLeft(step, Done(d), st.calls)
    IN [db |-> all.db, ok |-> all.ok /\ st.ok]

Counts(d, rs) == [rule |-> Count(d, rs, "rule") + 1, list |-> Count(d, rs, "list") + 1]
Known(d, rs) == [rules |-> Members(d, SetKey(rs, "rules")), lists |-> Members(d, SetKey(rs, "lists"))]

(* What the objects of a script make of Redis: their counters of generated *)
(* names and the names that are taken are read from there.                 *)
NewObject(rs, doc, order) == New(doc, order, Counts(db, rs), Known(db, rs))

NewRule(d, rs, name, rule) ==
    AddRule(Start(Counts(d, rs)), IF name = "" THEN None ELSE name, rule, Known(d, rs).rules)

(***************************************************************************)
(* ruleset_read: the document that nginx is given.                         *)
(***************************************************************************)
Entries(names) == [i \in DOMAIN names |-> [name |-> names[i]]]
Get(rs, type, n) == Hash(db, <<rs, type, n>>)
LimiterOf(hash) ==
    [burst |-> IF "burst" \in DOMAIN hash THEN hash.burst ELSE None, interval |-> <<hash.interval, "">>]

Read(rs) ==
    [limiters |-> [n \in Members(db, SetKey(rs, "limiters")) |-> LimiterOf(Get(rs, "limiter", n))],
     rules    |-> [n \in Members(db, SetKey(rs, "rules")) |-> Get(rs, "rule", n).rule],
     lists    |-> [n \in Members(db, SetKey(rs, "lists")) |-> Entries(Get(rs, "list", n).names)],
     phases   |-> [n \in Members(db, SetKey(rs, "phases")) |-> Entries(Get(rs, "phase", n).names)]]

(* The attributes of the JSON that a condition or an action is stored as.  *)
(* What has no __jsonval of its own has two, and the parser wants one.     *)
JsonCondition(c) == IF c = ".delay" THEN {"condition", "data"} ELSE {c}
JsonNested(rule) ==
    IF rule.nest = "if" THEN UNION {JsonCondition(c) : c \in Leaves(rule)} ELSE {rule.nest}
JsonAction(act) == IF act \in Replies THEN {"action", "data"} ELSE {act}

ConditionReads(json) == Cardinality(json) = 1
ActionReads(json) == Cardinality(json) = 1

Readable(rule) ==
    /\ ConditionReads(JsonNested(rule)) /\ ActionReads(JsonAction(rule.act))
    /\ rule.nest # "if" => \A c \in rule.conds : ConditionReads(JsonCondition(c))

(***************************************************************************)
(* ruleset_write: the commands.                                            *)
(***************************************************************************)
Init ==
    /\ db = << >>
    /\ answer = "1" /\ command = <<"none">>
    /\ written = << >>
    /\ sent = 0

Answer(what, a, d) ==
    /\ sent < MaxCommands /\ sent' = sent + 1
    /\ command' = what /\ answer' = a /\ db' = d

Outcome(what, run, w) ==
    /\ Answer(what, IF run.ok THEN "1" ELSE "error", run.db)
    /\ written' = IF run.ok THEN w ELSE written

(* ruleset create.  Where the parser refuses the document nothing is       *)
(* written.                                                                *)
RulesetCreate(rs, doc) ==
    IF Exists(db, RulesetKey(rs)) \/ ~Accepts(doc)
    THEN /\ Answer(<<"ruleset", rs>>, IF Exists(db, RulesetKey(rs)) THEN "0" ELSE "error", db)
         /\ UNCHANGED written
    ELSE \E l \in Orders(doc).limiters, r \in Orders(doc).rules, i \in Orders(doc).lists, p \in Orders(doc).phases :
           LET order == [limiters |-> l, rules |-> r, lists |-> i, phases |-> p]
           IN Outcome(<<"ruleset", rs>>, Run(db, rs, NewObject(rs, doc, order)), With(written, rs, doc))

(* get_external_ruleset: a ruleset whose hash has no name is given one     *)
(* that no other has, and the keys of the script become those of that name.*)
External(d, rs) ==
    LET n == FirstFree("ruleset", Count(d, None, "ruleset") + 1, Members(d, ListedKey))
    IN IF "name" \in DOMAIN Hash(d, RulesetKey(rs)) THEN [db |-> d, rs |-> rs]
       ELSE [db |-> Hset(d, CountKey(None), [ruleset |-> n]), rs |-> "ruleset" \o ToString(n)]

WithRule(rs, name, rule) ==
    IF rs \in DOMAIN written THEN [written EXCEPT ![rs].rules = With(@, name, rule)] ELSE written

(* The parser of a create knows nothing of the ruleset.                    *)
NewParser == [limiters |-> << >>, rules |-> << >>]

(* rule create                                                             *)
RuleCreate(rs, name, rule) ==
    LET in  == External(db, rs)
        st  == NewRule(in.db, in.rs, name, rule)
        what == <<"rule", rs, name>>
    IN CASE Exists(db, <<rs, "rule", name>>)
              -> Answer(what, "0", db) /\ UNCHANGED written
         [] ~Exists(db, <<rs, "rule", name>>) /\ ~RuleOK(NewParser, rule)
              -> Answer(what, "error", db) /\ UNCHANGED written
         [] ~Exists(db, <<rs, "rule", name>>) /\ RuleOK(NewParser, rule) /\ ~Exists(db, RulesetKey(rs))
              -> Answer(what, "0", db) /\ UNCHANGED written
         [] OTHER -> Outcome(what, Run(in.db, in.rs, st), WithRule(in.rs, st.last, rule))

(* mutant: the references of the old rule are counted again, as those of   *)
(* list are (ruleset_write.main.lua:229).                                  *)
RecountOld(d, rs, id, old, new) ==
    IF RefsOf(new) = {} THEN d ELSE RefAll(DropAll(d, rs, RefsOf(old), id), rs, RefsOf(old), id)

(* The rule binding's update: what the rule referred to loses a reference, *)
(* what it refers to now gains one; but only if the new rule refers to     *)
(* anything at all.  redis_hmset is given a table instead of names and     *)
(* writes nothing, so the key and the generation stay as they were.        *)
Recount(d, rs, id, old, new) ==
    IF RefsOf(new) = {} THEN d ELSE RefAll(DropAll(d, rs, RefsOf(old), id), rs, RefsOf(new), id)

(* mutant: nobody looks whether the limiters exist.                        *)
LimitsAssumed(rs, rule) == TRUE

(* The limiters that the parser of an update finds: those with a hash.     *)
LimitsKnown(rs, rule) == \A l \in LimitsOf(rule) : Exists(db, <<rs, "limiter", l>>)

Parses(rs, rule) == ActionOK(rule.act) /\ LimitsKnown(rs, rule)

(* Ruleset:updateRule makes a new rule of it, see NewAll.                  *)
Makes(rule) == ~(rule.nest = "all" /\ LimitsOf(rule) # {})

(* rule update: the rule as it was is read back and parsed, then the new   *)
(* one; what the parser has against the new one is the answer.             *)
RuleUpdate(rs, name, rule) ==
    LET key  == <<rs, "rule", name>>
        in   == External(db, rs)
        old  == db[key].rule
        none == ~Exists(db, key)
        fits == in.rs = rs /\ Makes(rule)
        Refuse(a, d) == Answer(<<"rule", rs, name>>, a, d) /\ UNCHANGED written
    IN CASE none -> Refuse("0", db)
         [] ~none /\ ~Readable(old) -> Refuse("error", db)
         [] ~none /\ Readable(old) /\ (~Parses(rs, rule) \/ ~Exists(db, RulesetKey(rs))) -> Refuse("0", db)
         [] OTHER ->
              IF ~fits THEN Refuse("error", in.db)
              ELSE /\ Answer(<<"rule", rs, name>>, "1",
                             Hset(Recount(db, rs, Id("rule", name), old, rule), key, [rule |-> Stored(rule)]))
                   /\ written' = WithRule(rs, name, rule)

(* list create and limiter create only publish what they were given.  What *)
(* they ask is whether such a list, and whether a rule called by the length*)
(* of the limiter's name, is there.                                        *)
ListCreate(rs, name, entries) ==
    /\ Answer(<<"list", rs>>, IF ~Exists(db, <<rs, "list", name>>) /\ EntriesOK(NewParser, entries)
                              THEN "1" ELSE "0", db)
    /\ UNCHANGED written

LimiterCreate(rs, length, limiter) ==
    /\ Answer(<<"limiter", rs>>, IF ~Exists(db, <<rs, "rule", ToString(length)>>) /\ LimiterOK(limiter)
                                 THEN "1" ELSE "0", db)
    /\ UNCHANGED written

(* The others' updates go as far as that of a rule: the thing is there, the*)
(* parser takes the new one, there is a ruleset, which may be given a name.*)
UpdateThing(rs, key, parsed) ==
    LET refused == ~Exists(db, key) \/ ~parsed \/ ~Exists(db, RulesetKey(rs))
    IN /\ Answer(<<"update", key>>, IF refused THEN "0" ELSE "error", IF refused THEN db ELSE External(db, rs).db)
       /\ UNCHANGED written

(* The external rule of a parser: read back and parsed.                    *)
RuleKnown(rs, n) ==
    LET key == <<rs, "rule", n>>
    IN Exists(db, key) /\ Readable(db[key].rule) /\ Parses(rs, db[key].rule)

EntryKnown(rs, e) == IF "rule" \in DOMAIN e THEN Parses(rs, e.rule) ELSE RuleKnown(rs, e.name)

(* updateList looks for the rules of the rules.                            *)
ListUpdate(rs, name, entries) ==
    UpdateThing(rs, <<rs, "list", name>>, \A i \in DOMAIN entries : EntryKnown(rs, entries[i]))

(* A limiter must have a name, and one with a name cannot be updated.      *)
LimiterUpdate(rs, name, limiter) == UpdateThing(rs, <<rs, "limiter", name>>, LimiterOK(limiter))

(* A parser has no rulesets to get.                                        *)
RulesetUpdate(rs) == Answer(<<"update", rs>>, "error", db) /\ UNCHANGED written

(* "can't do this yet"                                                     *)
Delete(rs) == Answer(<<"delete", rs>>, "0", db) /\ UNCHANGED written

ListCommand(rs, doc) ==
    \E n \in DOMAIN doc.lists : ListCreate(rs, n, doc.lists[n]) \/ ListUpdate(rs, n, doc.lists[n])

LimiterCommand(rs, doc) ==
    \E n \in DOMAIN doc.limiters : \/ LimiterUpdate(rs, n, doc.limiters[n])
                                   \/ \E k \in Lengths : LimiterCreate(rs, k, doc.limiters[n])

Next ==
    \E rs \in Rulesets :
        \/ \E doc \in Documents : RulesetCreate(rs, doc)
        \/ \E doc \in Parts : ListCommand(rs, doc) \/ LimiterCommand(rs, doc)
        \/ \E name \in RuleNames, rule \in Rules : RuleCreate(rs, name, rule) \/ RuleUpdate(rs, name, rule)
        \/ RulesetUpdate(rs) \/ Delete(rs)

Spec == Init /\ [][Next]_vars

(***************************************************************************)
(* Properties                                                              *)
(***************************************************************************)

(* A limiter that was being created when its script raised an error: it    *)
(* has a hash, which an update of a rule takes for a limiter, and is not   *)
(* in the set, so that a reader does not see it.                           *)
HalfThere(rs) ==
    \E k \in DOMAIN db : /\ Len(k) = 3 /\ k[1] = rs /\ k[2] = "limiter"
                         /\ k[3] \notin Members(db, SetKey(rs, "limiters"))

(* What was written can be read: the parser of nginx accepts what          *)
(* ruleset_read makes of the keys at any time, after scripts that failed   *)
(* half way too (unless a rule with a reply, or one of a limiter that is   *)
(* half there, was stored); and once the answer to ruleset create was 1,   *)
(* it has the phases, lists, rules and limiters of that document, as rule  *)
(* commands changed them, whatever the generated names are (unless several *)
(* lists are all called nil, parser.lua:437)                               *)
(* (ruleset_read.lua, parser.lua:parseRuleSet).                            *)
Says(read, doc) ==
    LET r == Means(read)
        w == Means(doc)
    IN /\ \A l \in DOMAIN w.limiters : l \in DOMAIN r.limiters /\ r.limiters[l] = w.limiters[l]
       /\ \A p \in DOMAIN w.phases : p \in DOMAIN r.phases /\ r.phases[p] = w.phases[p]

ReadsBack ==
    \A rs \in Rulesets :
        \/ HalfThere(rs)
        \/ \E n \in Members(db, SetKey(rs, "rules")) : ~Readable(Get(rs, "rule", n).rule)
        \/ /\ Accepts(Read(rs))
           /\ rs \in DOMAIN written =>
                rs \in Members(db, ListedKey) /\ (NamesMeet(written[rs]) \/ Says(Read(rs), written[rs]))

(* The sorted sets of references never count less than there is: a burst   *)
(* limiter has those it is the burst limiter of, a limiter its rules, a    *)
(* rule its lists and a list its phases, as often as they name it.  (What  *)
(* deletes a thing looks there whether it is in use,                       *)
(* ruleset_write.main.lua:183, :244, :388.)                                *)
Counted(rs, ref, who, times) == Score(db, RefsKey(rs, ref), who) >= times

RefsCover ==
    \A rs \in Rulesets :
        LET doc == Read(rs)
        IN /\ \A n \in DOMAIN doc.limiters :
                  doc.limiters[n].burst # None => Counted(rs, Id("limiter", doc.limiters[n].burst), Id("limiter", n), 1)
           /\ \A n \in DOMAIN doc.rules :
                  \A ref \in RefsOf(doc.rules[n]) : Counted(rs, ref, Id("rule", n), 1)
           /\ \A n \in DOMAIN doc.lists :
                  LET names == Get(rs, "list", n).names
                  IN \A r \in ToSet(names) : Counted(rs, Id("rule", r), Id("list", n), Times(names, r))
           /\ \A n \in DOMAIN doc.phases :
                  LET names == Get(rs, "phase", n).names
                  IN \A l \in ToSet(names) : Counted(rs, Id("list", l), Id("phase", n), Times(names, l))

(* A command about one rule, and any that is only answered, that was not   *)
(* answered 1 changed nothing but the counters of generated names,         *)
(* although scripts are not undone (ruleset_write.main.lua:325, :345).     *)
CounterKeys == {RulesetKey(k[1]) : k \in DOMAIN db'} \cup {CountKey(None)}

RefusedIsUndone ==
    [][answer' # "1" /\ command'[1] # "ruleset"
         => \A k \in (DOMAIN db \cup DOMAIN db') \ CounterKeys :
               k \in DOMAIN db \cap DOMAIN db' /\ db[k] = db'[k]]_vars
=============================================================================
