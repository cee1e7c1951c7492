----------------------------- MODULE RulesetNew -----------------------------
(***************************************************************************)
(* How a parsed ruleset becomes objects: Parser:parseRuleSet decides       *)
(* whether a document is one (Accepts), and Ruleset.new turns it into a    *)
(* sequence of binding calls (New), which nginx answers with allocations   *)
(* in shared memory and the Redis script with keys.  A document is         *)
(*   limiters : name -> [burst : a name or None, interval : <<n, unit>>]   *)
(*   rules    : name -> rule                                               *)
(*   lists    : name -> sequence of entries                                *)
(*   phases   : name -> sequence of entries                                *)
(* where an entry of a list is [name |-> n] for the rule n, or             *)
(* [name |-> n, rule |-> r] for a rule written on the spot (n is None if   *)
(* it has no name), and an entry of a phase the same with "list" for       *)
(* "rule" and a sequence of entries for r; or [list |-> r] for a list in   *)
(* long form, an object, that has no name.  A rule is                      *)
(*   [conds : set of conditions, nest : "if", "any" or "all",              *)
(*    key : BOOLEAN, act : the name of its action]                         *)
(* where a condition is the name of one that is built in, or of the        *)
(* limiter it asks.                                                        *)
(***************************************************************************)
EXTENDS Naturals, Sequences, FiniteSets, TLC, SequencesExt

None == "none"

(***************************************************************************)
(* Parser                                                                  *)
(***************************************************************************)

Attributes == {"limiters", "rules", "lists", "phases"}

(* true, false and .delay have no strings, tag-check has one and match any *)
(* number; every other condition is a limiter's, with its key.             *)
Simple == {"true", "false", ".delay"}
BuiltIn == Simple \cup {"tag-check", "match"}
LimitsOf(rule) == rule.conds \ BuiltIn
StringsOf(c) ==
    CASE c \in Simple -> <<>>
      [] c = "match"  -> <<"match", "match 2">>
      [] OTHER        -> <<c>>

LimitOK(doc, limiter) == limiter \in DOMAIN doc.limiters

ConditionOK(doc, c) == c \in BuiltIn \/ LimitOK(doc, c)

Replies == {"accept", "reject", "wait"}
ActionOK(act) == act \in Replies \cup {"tag"}

RuleOK(doc, rule) == ActionOK(rule.act) /\ \A c \in rule.conds : ConditionOK(doc, c)

(* parseTimeInterval: a millisecond counts as a hundredth of a second.     *)
Units == "" :> 1 @@ "s" :> 1 @@ "m" :> 60 @@ "h" :> 3600 @@ "d" :> 86400
Seconds(t) == IF t[2] = "ms" THEN t[1] \div 100 ELSE t[1] * Units[t[2]]

LimiterOK(l) == l.interval[2] \in DOMAIN Units \cup {"ms"} /\ Seconds(l.interval) >= 60

BurstOK(doc, l) == l.burst # None => LimitOK(doc, l.burst)

EntriesOK(doc, entries) ==
    \A i \in DOMAIN entries :
        IF "rule" \in DOMAIN entries[i] THEN RuleOK(doc, entries[i].rule)
                                        ELSE entries[i].name \in DOMAIN doc.rules

(* parseList: a list in long form that has no name is called tostring(nil).*)
ListName(e) == IF "name" \in DOMAIN e THEN e.name ELSE "nil"

PhaseOK(doc, entries) ==
    \A i \in DOMAIN entries :
        IF "list" \in DOMAIN entries[i] THEN EntriesOK(doc, entries[i].list)
                                        ELSE ListName(entries[i]) \in DOMAIN doc.lists

Accepts(doc) ==
    /\ Attributes \subseteq DOMAIN doc
    /\ \A n \in DOMAIN doc.limiters : LimiterOK(doc.limiters[n]) /\ BurstOK(doc, doc.limiters[n])
    /\ \A n \in DOMAIN doc.rules : RuleOK(doc, doc.rules[n])
    /\ \A n \in DOMAIN doc.lists : EntriesOK(doc, doc.lists[n])
    /\ \A n \in DOMAIN doc.phases : PhaseOK(doc, doc.phases[n])

(* What JSON can say: tables have names and an end, and what is in an     *)
(* order is an array.                                                      *)
Array(s) == s \in Seq(Range(s))
IsRule(r) == r = [conds |-> r.conds, nest |-> r.nest, key |-> r.key, act |-> r.act] /\ IsFiniteSet(r.conds)
EntriesRead(entries) ==
    Array(entries) /\ \A i \in DOMAIN entries : "rule" \in DOMAIN entries[i] => IsFiniteSet(entries[i].rule.conds)
IsRead(doc) ==
    /\ \A a \in Attributes : IsFiniteSet(DOMAIN doc[a]) /\ None \notin DOMAIN doc[a]
    /\ \A n \in DOMAIN doc.rules : IsFiniteSet(doc.rules[n].conds)
    /\ \A n \in DOMAIN doc.lists : EntriesRead(doc.lists[n])
    /\ \A n \in DOMAIN doc.phases :
         /\ Array(doc.phases[n])
         /\ \A i \in DOMAIN doc.phases[n] :
              "list" \in DOMAIN doc.phases[n][i] => EntriesRead(doc.phases[n][i].list)

(***************************************************************************)
(* Ruleset.new.  The state of a run: the calls so far, the tables of the   *)
(* new object, the next numbers of generated names, and whether no error   *)
(* was raised yet.  A call is [id, refs, of]: the thing it creates, the    *)
(* things it was given, and its data.                                      *)
(***************************************************************************)

Start(counts) ==
    [calls |-> <<>>, limiters |-> {}, loaded |-> {}, rules |-> {}, lists |-> {},
     n |-> counts, last |-> None, ok |-> TRUE]

Id(type, name) == <<type, name, "">>
Part(type, name, part) == <<type, name, part>>

Made(id, refs, of) == [id |-> id, refs |-> refs, of |-> of]

CallEach(st, calls) == IF st.ok THEN [st EXCEPT !.calls = @ \o calls] ELSE st
Call(st, id, refs, of) == CallEach(st, <<Made(id, refs, of)>>)

Error(st) == [st EXCEPT !.ok = FALSE]

(* A limiter that was created as somebody's burst limiter is skipped.  A   *)
(* burst limiter that is there already stays a name: only one that was     *)
(* created here and now takes the name's place.  So n comes after its      *)
(* burst limiter, that after its own, up to one that has none or is there. *)
Burst(doc, n) == doc.limiters[n].burst

Chain(doc, there, n) ==
    LET chain[k \in 0 .. Cardinality(DOMAIN doc.limiters)] ==
          IF k = 0 THEN <<n>>
          ELSE LET b == Burst(doc, Last(chain[k - 1]))
               IN IF b = None \/ b \in there \cup ToSet(chain[k - 1]) THEN chain[k - 1]
                  ELSE Append(chain[k - 1], b)
    IN chain[Cardinality(DOMAIN doc.limiters)]

LimiterCall(doc, n, fresh) ==
    LET b == Burst(doc, n)
    IN Made(Id("limiter", n), IF fresh THEN {Id("limiter", b)} ELSE {},
            [burst |-> b, resolved |-> b = None \/ fresh, interval |-> Seconds(doc.limiters[n].interval)])

AddLimiter(doc, st, n) ==
    LET c == Chain(doc, st.limiters, n)
    IN IF n \in st.loaded THEN [st EXCEPT !.loaded = @ \ {n}]
       ELSE [CallEach(st, Reverse([i \in DOMAIN c |-> LimiterCall(doc, c[i], i < Len(c))]))
               EXCEPT !.limiters = @ \cup ToSet(c), !.loaded = @ \cup ToSet(Tail(c))]

(* uniqueName: the counter moves on until its name is neither in the       *)
(* object's table nor, in Redis, in the set of that name.  Redis counts    *)
(* each kind of things, nginx has one counter for all in a ruleset.        *)
FirstFree(thing, from, taken) ==
    LET free(k) == (thing \o ToString(k)) \notin taken
    IN CHOOSE k \in from .. from + Cardinality(taken) : free(k) /\ \A j \in from .. k - 1 : ~free(j)

Counter(st, thing) == IF thing \in DOMAIN st.n THEN thing ELSE "any"

Numbered(st, thing, k) ==
    [Call(st, Id("count", thing), {}, k) EXCEPT !.n[Counter(st, thing)] = k + 1,
                                                !.last = thing \o ToString(k)]

Unique(st, thing, table) == Numbered(st, thing, FirstFree(thing, st.n[Counter(st, thing)], table))

Named(st, thing, name, table) ==
    IF name = None THEN Unique(st, thing, table) ELSE [st EXCEPT !.last = name]

(* "always" is a rule whose condition is true.                             *)
Leaves(rule) == IF rule.conds = {} THEN {"true"} ELSE rule.conds

(* RuleComponent: a condition's strings, then itself.                      *)
Strings(name, strings) == {Part("string", name, s) : s \in ToSet(strings)}

StringCalls(name, strings) == [i \in DOMAIN strings |-> Made(Part("string", name, strings[i]), {}, None)]

ConditionCalls(name, c) ==
    Append(StringCalls(name, StringsOf(c)),
           Made(Part("condition", name, c),
                Strings(name, StringsOf(c)) \cup (IF c \in BuiltIn THEN {} ELSE {Id("limiter", c)}), None))

LeafCalls(name, leaves) == FlattenSeq([i \in DOMAIN leaves |-> ConditionCalls(name, leaves[i])])

(* any and all: the conditions in them, then itself.  The init function of *)
(* all takes the condition for the ruleset and cannot find a limiter in it.*)
Nested(name, nest, conds) ==
    Append(LeafCalls(name, SetToSeq(conds)),
           Made(Part("condition", name, nest), {Part("condition", name, c) : c \in conds}, None))

NewAny(st, name, conds) == CallEach(st, Nested(name, "any", conds))

NewAll(st, name, conds) ==
    LET leaves == SetToSeq(conds)
        found  == {i \in DOMAIN leaves : \A j \in 1 .. i : leaves[j] \in BuiltIn}
    IN IF conds \subseteq BuiltIn THEN CallEach(st, Nested(name, "all", conds))
       ELSE Error(CallEach(st, LeafCalls(name, [i \in found |-> leaves[i]])))

NewIf(st, name, c) == CallEach(st, ConditionCalls(name, c))

ActionStrings(act) == IF act = "tag" THEN <<"tag">> ELSE <<>>
NewAction(st, name, act) ==
    CallEach(st, Append(StringCalls(name, ActionStrings(act)),
                        Made(Part("action", name, act), Strings(name, ActionStrings(act)), None)))

Components(st, name, rule) ==
    NewAction(CASE rule.nest = "any" -> NewAny(st, name, Leaves(rule))
                [] rule.nest = "all" -> NewAll(st, name, Leaves(rule))
                [] OTHER -> NewIf(st, name, CHOOSE c \in Leaves(rule) : TRUE),
              name, rule.act)

Top(rule) == IF rule.nest = "if" THEN CHOOSE l \in Leaves(rule) : TRUE ELSE rule.nest

(* addRule(data): table is what the object, or Redis, already knows.       *)
MakeRule(st, n, rule) ==
    Call([Components(st, n, rule) EXCEPT !.rules = @ \cup {n}, !.last = n], Id("rule", n),
         {Part("condition", n, Top(rule)), Part("action", n, rule.act)}, rule)

AddRule(st, name, rule, table) ==
    LET made(named) == MakeRule(named, named.last, rule)
    IN CASE ~st.ok -> st
         [] st.ok /\ name \in st.rules -> Error(st)
         [] OTHER -> made(Named(st, "rule", name, table))

(* The names of what the entries of a list or a phase are.                 *)
Entry(acc, st) == [st |-> st, names |-> Append(acc.names, st.last)]

(* addList: the rules by their names, those written on the spot under the  *)
(* names they get; one whose name is taken is the rule of that name.       *)
MakeList(all, n) ==
    Call([all.st EXCEPT !.lists = @ \cup {n}, !.last = n], Id("list", n),
         {Id("rule", r) : r \in ToSet(all.names)}, all.names)

ListEntry(tables, acc, e) ==
    CASE ~acc.st.ok -> acc
      [] acc.st.ok /\ e.name \in acc.st.rules -> Entry(acc, [acc.st EXCEPT !.last = e.name])
      [] OTHER -> Entry(acc, AddRule(acc.st, e.name, e.rule, acc.st.rules \cup tables.rules))

ListEntries(tables, st, entries) ==
    LET entry(acc, e) == ListEntry(tables, acc, e)
    IN FoldLeft(entry, [st |-> st, names |-> <<>>], entries)

AddList(st, name, entries, tables) ==
    LET made(named) == MakeList(ListEntries(tables, named, entries), named.last)
    IN CASE ~st.ok -> st
         [] st.ok /\ name \in st.lists -> Error(st)
         [] OTHER -> made(Named(st, "list", name, st.lists \cup tables.lists))

PossiblePhases == {"request"}

(* addPhase: a list written on the spot is the list of that name if there  *)
(* is one, so that the second without a name in long form is the first.    *)
MakePhase(all, name) ==
    Call(all.st, Id("phase", name), {Id("list", l) : l \in ToSet(all.names)}, all.names)

PhaseEntry(tables, acc, e) ==
    CASE ~acc.st.ok -> acc
      [] acc.st.ok /\ ListName(e) \in acc.st.lists -> Entry(acc, [acc.st EXCEPT !.last = ListName(e)])
      [] OTHER -> Entry(acc, AddList(acc.st, ListName(e), e.list, tables))

PhaseEntries(tables, st, entries) ==
    LET entry(acc, e) == PhaseEntry(tables, acc, e)
    IN FoldLeft(entry, [st |-> st, names |-> <<>>], entries)

AddPhase(st, name, entries, tables) ==
    CASE ~st.ok -> st
      [] st.ok /\ name \notin PossiblePhases -> Error(st)
      [] OTHER -> MakePhase(PhaseEntries(tables, st, entries), name)

(* The orders in which pairs() may go through the tables of a document.    *)
Orders(doc) == [a \in Attributes |-> SetToSeqs(DOMAIN doc[a])]

(* Ruleset.new(doc), its tables gone through in the given order.           *)
Things(order) ==
    LET each(type, names) == [i \in DOMAIN names |-> <<type, names[i]>>]
    IN each("limiter", order.limiters) \o each("rule", order.rules)
         \o each("list", order.lists) \o each("phase", order.phases)

AddThing(doc, tables, st, type, n) ==
    CASE type = "limiter" -> AddLimiter(doc, st, n)
      [] type = "rule"    -> AddRule(st, n, doc.rules[n], {})
      [] type = "list"    -> AddList(st, n, doc.lists[n], tables)
      [] type = "phase"   -> AddPhase(st, n, doc.phases[n], tables)

AddThings(doc, tables, st, things) ==
    LET add(before, thing) == AddThing(doc, tables, before, thing[1], thing[2])
    IN FoldLeft(add, st, things)

New(doc, order, counts, tables) ==
    Call(AddThings(doc, tables, Start(counts), Things(order)), <<"ruleset", "", "">>, {}, None)

(* More than one list of the phases is called tostring(nil).               *)
Unnamed(doc) ==
    UNION {{<<p, i>> : i \in {k \in DOMAIN doc.phases[p] : "name" \notin DOMAIN doc.phases[p][k]}} :
             p \in DOMAIN doc.phases}
NamesMeet(doc) == \/ Cardinality(Unnamed(doc)) > 1
                  \/ Unnamed(doc) # {} /\ "nil" \in DOMAIN doc.lists

(* What a document says, whatever its rules and lists are called.          *)
(* The limits of a rule take its key with them.                            *)
RuleOf(doc, e) ==
    LET rule == IF "rule" \in DOMAIN e THEN e.rule ELSE doc.rules[e.name]
    IN [rule EXCEPT !.key = FALSE]
ListOf(doc, e) == IF "list" \in DOMAIN e THEN e.list ELSE doc.lists[e.name]
Means(doc) ==
    [limiters |-> [l \in DOMAIN doc.limiters |->
                     [doc.limiters[l] EXCEPT !.interval = <<Seconds(@), "">>]],
     phases |-> [p \in DOMAIN doc.phases |->
                   [i \in DOMAIN doc.phases[p] |->
                      LET list == ListOf(doc, doc.phases[p][i])
                      IN [j \in DOMAIN list |-> RuleOf(doc, list[j])]]]]
=============================================================================
