----------------------------- MODULE Evaluation -----------------------------
(***************************************************************************)
(* The evaluation of one request in a worker: ngx_wafflex_request_handler, *)
(* wfx_ruleset_eval, wfx_phase_eval, wfx_list_eval, wfx_rule_eval and      *)
(* wfx_rule_actions_eval, which call each other in this order.             *)
(*                                                                         *)
(* A condition or an action may defer: every function saves its place in   *)
(* the context of the request and returns, and when the event comes that   *)
(* the request waits for, nginx calls the handler again, which finds its   *)
(* way back.  What was updated in between, as its generation `gen` shows,  *)
(* is started over.  Another part of the way is taken without looking at   *)
(* the context (`nocheck`): the first evaluation of the request, and that  *)
(* which follows the fetch of a ruleset this worker did not know.          *)
(*                                                                         *)
(* One action is one iteration of one of the loops, so that the manager    *)
(* may update what the worker has not reserved in between.  Indexes start  *)
(* at 1 here, and at 0 in the code.                                        *)
(***************************************************************************)
EXTENDS Integers, Sequences, FiniteSets, Functions, SequencesExt

CONSTANTS
  Configurations, \* what may be configured: sequences of rulesets, which are
                  \*   sequences of lists, which are sequences of rules
  MayBeUnknown,   \* TRUE: the worker may have to fetch every ruleset first
  MayBeDisabled,  \* TRUE: one element may be disabled
  MaxUpdates,     \* bound: updates of all elements; 0: nothing is updated
  MaxRan          \* bound: a request that has done more is not resumed (after
                  \*   updates, it may be resumed for ever)

Kinds == {"plain", "delay", "limit"}
Actions == {"tag", "wait", "accept", "reject"}
Final == {"accept", "reject"}
\* A condition, abstracted to how it concludes and what it holds, and two arrays.
Rule == [kind : Kinds, holds : BOOLEAN, then : Seq(Actions), else : Seq(Actions)]

ASSUME EvaluationAssumption ==
  /\ Configurations \subseteq Seq(Seq(Seq(Rule))) \ {<<>>}
  /\ MayBeUnknown \in BOOLEAN
  /\ MayBeDisabled \in BOOLEAN
  /\ MaxUpdates \in Nat
  /\ MaxRan \in Nat

VARIABLES
  conf,    \* rcf: the rulesets of this location
  gen,     \* self->gen of each element
  off,     \* the elements whose `disabled` is set
  known,   \* the rulesets whose rcf->ruleset is set in this worker
  ctx,     \* the context of the request, on the stack while ~ctx.kept
  at,      \* the function that goes on, or why none does
  pos,     \* the loop variables
  wake,    \* the event that will call the handler again
  ran      \* history: what happened since the evaluation began at the top,
           \*   conditions as the action 0 of their rule

vars == <<conf, gen, off, known, ctx, at, pos, wake, ran>>

-----------------------------------------------------------------------------
(* What is configured.                                                     *)

RuleAt(p) == conf[p[1]][p[2]][p[3]]
Branch(rule) == IF rule.holds THEN rule.then ELSE rule.else

\* Elements by their place: rulesets <<r>>, phases <<r, 0>>, lists <<r, l>>,
\* rules <<r, l, q>>.
ListsOf(c) == UNION {{<<i, l>> : l \in DOMAIN c[i]} : i \in DOMAIN c}
RulesOf(c) ==
  UNION {{<<p[1], p[2], q>> : q \in DOMAIN c[p[1]][p[2]]} : p \in ListsOf(c)}
Elements(c) ==
  RulesOf(c) \cup ListsOf(c) \cup {<<i>> : i \in DOMAIN c}
             \cup {<<i, 0>> : i \in DOMAIN c}
Disableable == {p \in Elements(conf) : Len(p) = 2 => p[2] # 0}

-----------------------------------------------------------------------------
\* What ngx_memzero makes of ctx->rule; the rest of a new context is not
\* initialised, and is not read while nocheck is set.
Zeroed == [ru |-> 1, ruGen |-> 0, stack |-> <<>>, done |-> FALSE,
           true |-> FALSE, ac |-> 1, data |-> FALSE]
Uninitialised == -1
NewContext ==
  [kept |-> FALSE, nocheck |-> TRUE, rs |-> 1, rsGen |-> Uninitialised,
   phGen |-> Uninitialised, li |-> 1, liGen |-> Uninitialised, rule |-> Zeroed]

Over == {"pass", "reject", "closed"}
Place == {"new", "suspended", "ruleset", "enter", "phase", "list", "action",
          "aborted"} \cup Over
Wakes == {"none", "delay", "wait", "answer", "fetch"}

\* A stack holds the data of the conditions that wait; here, whose they are.
Index == Nat \ {0}
Mark == [rule : DOMAIN gen, gen : Nat]
RuleContext ==
  [ru : Index, ruGen : Nat, stack : Seq(Mark), done : BOOLEAN,
   true : BOOLEAN, ac : Index, data : BOOLEAN]
Generation == Nat \cup {Uninitialised}
Context ==
  [kept : BOOLEAN, nocheck : BOOLEAN, rs : DOMAIN conf, rsGen : Generation,
   phGen : Generation, li : Index, liGen : Generation, rule : RuleContext]
Position == [l : Index, q : Index, a : Index]

TypeOK ==
  /\ conf \in Seq(Seq(Seq(Rule))) \ {<<>>}
  /\ gen \in [DOMAIN gen -> Nat] /\ Elements(conf) \subseteq DOMAIN gen
  /\ off \subseteq DOMAIN gen
  /\ known \subseteq DOMAIN conf
  /\ ctx \in Context
  /\ at \in Place
  /\ pos \in Position
  /\ wake \in Wakes

Init ==
  /\ conf \in Configurations
  /\ gen = [e \in Elements(conf) |-> 0]
  /\ off \in {{}} \cup IF MayBeDisabled THEN {{e} : e \in Disableable} ELSE {}
  /\ known \in {DOMAIN conf} \cup IF MayBeUnknown THEN {{}} ELSE {}
  /\ ctx = NewContext
  /\ at = "new"
  /\ pos = [l |-> 1, q |-> 1, a |-> 1]
  /\ wake = "none"
  /\ ran = <<>>

r == ctx.rs
ThisPhase == <<r, 0>>
ThisList == <<r, pos.l>>
ThisRule == <<r, pos.l, pos.q>>

-----------------------------------------------------------------------------
(* How a function returns WFX_DEFER: what each of them saves.              *)

\* ngx_wafflex_request_handler
Kept(c) == [c EXCEPT !.kept = TRUE, !.nocheck = FALSE]
\* wfx_ruleset_eval, and the handler
RulesetDeferred(c) == Kept([c EXCEPT !.rsGen = gen[<<r>>]])
\* Mutant: the generation of the phase is not saved.
PhaseDeferredUnsaved(c) == RulesetDeferred(c)
\* wfx_phase_eval, and those that called it
PhaseDeferred(c) == RulesetDeferred([c EXCEPT !.phGen = gen[ThisPhase]])
\* Mutant: that of the list is not.
ListDeferredUnsaved(c) == PhaseDeferred(c)
\* wfx_list_eval, and those that called it
ListDeferred(c) == PhaseDeferred([c EXCEPT !.liGen = gen[ThisList]])

Suspend(c, event) ==
  /\ ctx' = c
  /\ at' = "suspended"
  /\ wake' = event
  /\ UNCHANGED <<conf, gen, off, known, pos>>

Goes(c, place, p) ==
  /\ ctx' = c
  /\ at' = place
  /\ pos' = p
  /\ UNCHANGED <<conf, gen, off, known, wake>>

-----------------------------------------------------------------------------
(* ngx_wafflex_request_handler                                             *)

\* Mutant: the timer of a wait does not say that it is over.
WokenSilent ==
  IF wake = "fetch" THEN [ctx EXCEPT !.rsGen = gen[<<r>>], !.nocheck = TRUE] ELSE ctx

\* What the handler of the event does before nginx runs the phases again.
Woken ==
  CASE wake = "fetch" -> [ctx EXCEPT !.rsGen = gen[<<r>>], !.nocheck = TRUE]
    [] wake = "wait"  -> [ctx EXCEPT !.rule.data = TRUE]
    [] OTHER          -> ctx

\* The ruleset to begin with: that in which the request was suspended, unless
\* it was updated or everything is evaluated from the top.
FirstRuleset(c) ==
  IF c.kept /\ ~c.nocheck /\ c.rs \in known' /\ c.rsGen = gen[<<c.rs>>]
  THEN c.rs ELSE 1

Handle ==
  /\ at = "new" \/ (at = "suspended" /\ wake # "none")
  /\ Len(ran) <= MaxRan
  /\ known' = IF wake = "fetch" THEN known \cup {r} ELSE known
  /\ ctx' = [Woken EXCEPT !.rs = FirstRuleset(Woken)]
  /\ at' = "ruleset"
  /\ wake' = "none"
  /\ ran' = IF wake = "fetch" THEN <<>> ELSE ran
  /\ UNCHANGED <<conf, gen, off, pos>>

FetchRuleset ==
  /\ at = "ruleset"
  /\ r \notin known
  /\ Suspend(Kept(ctx), "fetch")
  /\ UNCHANGED ran

\* The loop over the rulesets goes on after one that returned WFX_OK.
NextRuleset ==
  IF r = Len(conf) THEN Goes(ctx, "pass", pos)
                   ELSE Goes([ctx EXCEPT !.rs = r + 1], "ruleset", pos)

-----------------------------------------------------------------------------
(* wfx_ruleset_eval                                                        *)
EvalRuleset ==
  /\ at = "ruleset"
  /\ r \in known
  /\ IF <<r>> \in off THEN NextRuleset ELSE Goes(ctx, "enter", pos)
  /\ UNCHANGED ran

\* Mutant: the phase is resumed although it was updated.
EnterPhaseUnchecked ==
  /\ at = "enter"
  /\ IF ~ctx.nocheck /\ ctx.li > Len(conf[r])
     THEN Goes(ctx, "aborted", pos)
     ELSE Goes(ctx, "phase", [pos EXCEPT !.l = IF ctx.nocheck THEN 1 ELSE ctx.li])
  /\ UNCHANGED ran

(* wfx_phase_eval: `resuming`, with its assertion, or from the first list. *)
EnterPhase ==
  LET resuming == ~ctx.nocheck /\ ctx.phGen = gen[ThisPhase] IN
  /\ at = "enter"
  /\ IF resuming /\ ctx.li > Len(conf[r])
     THEN Goes(ctx, "aborted", pos)
     ELSE Goes(ctx, "phase", [pos EXCEPT !.l = IF resuming THEN ctx.li ELSE 1])
  /\ UNCHANGED ran

PhaseEnds ==
  /\ at = "phase"
  /\ pos.l > Len(conf[r])
  /\ NextRuleset
  /\ UNCHANGED ran

(* wfx_list_eval                                                           *)
EnterList ==
  LET c == [ctx EXCEPT !.li = pos.l]
      resuming == ~c.nocheck /\ c.liGen = gen[ThisList]
  IN
  /\ at = "phase"
  /\ pos.l <= Len(conf[r])
  /\ IF ThisList \in off
     THEN Goes(c, "phase", [pos EXCEPT !.l = @ + 1])
     ELSE Goes(c, "list", [pos EXCEPT !.q = IF resuming THEN c.rule.ru ELSE 1])
  /\ UNCHANGED ran

ListEnds ==
  /\ at = "list"
  /\ pos.q > Len(conf[r][pos.l])
  /\ Goes([ctx EXCEPT !.rule.ru = 1], "phase", [pos EXCEPT !.l = @ + 1])
  /\ UNCHANGED ran

-----------------------------------------------------------------------------
(* wfx_rule_eval                                                           *)

AtRule == at = "list" /\ pos.q <= Len(conf[r][pos.l])

DisabledRule ==
  /\ AtRule
  /\ ThisRule \in off
  /\ Goes([ctx EXCEPT !.rule.ru = pos.q], "list", [pos EXCEPT !.q = @ + 1])
  /\ UNCHANGED ran

\* "rule was changed, restart it from the top": the context of the rule is
\* cleared, its index in the list too.
Restarts == ~ctx.nocheck /\ ctx.rule.ruGen # gen[ThisRule]
Checked ==
  IF Restarts THEN [ctx EXCEPT !.rule = Zeroed]
              ELSE [ctx EXCEPT !.rule.ru = pos.q]

\* wfx_rule_actions_eval begins at the action that deferred.
Acts(c) ==
  Goes(c, "action", [pos EXCEPT !.a = IF c.nocheck THEN 1 ELSE c.rule.ac])

\* Mutant: what the condition pushed stays on the stack.
ConcludesUnpopped ==
  /\ AtRule
  /\ ThisRule \notin off
  /\ ctx.nocheck \/ ~Checked.rule.done
  /\ RuleAt(ThisRule).kind = "delay" => Checked.rule.stack # <<>>
  /\ Acts([Checked EXCEPT !.rule.done = TRUE, !.rule.true = RuleAt(ThisRule).holds])
  /\ ran' = Append(ran, <<r, pos.l, pos.q, 0>>)

\* The condition says yes or no: at once, when its time is over, or with the
\* value of the limiter, which may have been at hand.
Concludes ==
  /\ AtRule
  /\ ThisRule \notin off
  /\ ctx.nocheck \/ ~Checked.rule.done
  /\ RuleAt(ThisRule).kind = "delay" => Checked.rule.stack # <<>>
  /\ Acts([Checked EXCEPT !.rule.done = TRUE,
                          !.rule.true = RuleAt(ThisRule).holds,
                          !.rule.stack = IF RuleAt(ThisRule).kind = "plain" \/ @ = <<>>
                                         THEN @ ELSE Tail(@)])
  /\ ran' = Append(ran, <<r, pos.l, pos.q, 0>>)

\* It starts to wait, for its timer or for the manager.
Defers ==
  /\ AtRule
  /\ ThisRule \notin off
  /\ ctx.nocheck \/ ~Checked.rule.done
  /\ RuleAt(ThisRule).kind \in {"delay", "limit"}
  /\ Checked.rule.stack = <<>>
  /\ LET mark == [rule |-> ThisRule, gen |-> gen[ThisRule]]
     IN Suspend(ListDeferred([Checked EXCEPT !.rule.stack = <<mark>> \o @]),
                IF RuleAt(ThisRule).kind = "delay" THEN "delay" ELSE "answer")
  /\ UNCHANGED ran

\* It was done before an action deferred.
DoneBefore ==
  /\ AtRule
  /\ ThisRule \notin off
  /\ ~ctx.nocheck
  /\ Checked.rule.done
  /\ Acts(Checked)
  /\ UNCHANGED ran

-----------------------------------------------------------------------------
(* wfx_rule_actions_eval                                                   *)

Array == IF ctx.rule.true THEN RuleAt(ThisRule).then ELSE RuleAt(ThisRule).else
AtAction(names) == at = "action" /\ pos.a <= Len(Array) /\ Array[pos.a] \in names

Ran == ran' = Append(ran, <<r, pos.l, pos.q, pos.a>>)
NextAction ==
  Goes([ctx EXCEPT !.rule.data = FALSE], "action", [pos EXCEPT !.a = @ + 1])

Tag == AtAction({"tag"}) /\ NextAction /\ Ran

WaitStarts ==
  /\ AtAction({"wait"})
  /\ ~ctx.kept \/ ctx.nocheck \/ ~ctx.rule.data
  /\ Suspend(ListDeferred([ctx EXCEPT !.rule.ruGen = gen[ThisRule],
                                      !.rule.ac = pos.a,
                                      !.rule.data = FALSE]), "wait")
  /\ UNCHANGED ran

WaitEnds ==
  /\ AtAction({"wait"})
  /\ ctx.kept /\ ~ctx.nocheck /\ ctx.rule.data
  /\ NextAction
  /\ Ran

Decide ==
  /\ AtAction(Final)
  /\ Goes(ctx, IF Array[pos.a] = "accept" THEN "pass" ELSE "reject", pos)
  /\ Ran

ActionsEnd ==
  /\ at = "action"
  /\ pos.a > Len(Array)
  /\ Goes([ctx EXCEPT !.rule.done = FALSE, !.rule.true = FALSE],
          "list", [pos EXCEPT !.q = @ + 1])
  /\ UNCHANGED ran

-----------------------------------------------------------------------------
(* The client and the manager.                                             *)

\* The request is closed while it is suspended: its timers are deleted, and
\* answers find that it is not tracked.
Close ==
  /\ at = "suspended"
  /\ at' = "closed"
  /\ wake' = "none"
  /\ ctx' = [ctx EXCEPT !.rule.stack = <<>>]
  /\ UNCHANGED <<conf, gen, off, known, pos, ran>>

\* What the worker has reserved for reading, and the manager leaves alone as
\* long as the reservation works: CountedExcluded of module ReadWrite.
Reserved ==
  CASE at = "enter"  -> {<<r>>}
    [] at = "phase"  -> {<<r>>, ThisPhase}
    [] at = "list"   -> {<<r>>, ThisPhase, ThisList}
    [] at = "action" -> {<<r>>, ThisPhase, ThisList, ThisRule}
    [] OTHER         -> {}

\* The updates, as far as the evaluation can tell.  rule_update and
\* ruleset_update, list_update too: `disabled` is set or not.
DisabledUpdate(e) ==
  /\ e \in Disableable
  /\ off' \in {off \cup {e}, off \ {e}}
  /\ UNCHANGED conf

\* rule_update: a rule whose `then` loses its last action; an update that does
\* not tell `else` leaves none there.
ActionsUpdate(e) ==
  /\ Len(e) = 3
  /\ RuleAt(e).then # <<>>
  /\ conf' = [conf EXCEPT ![e[1]][e[2]][e[3]] =
                [RuleAt(e) EXCEPT !.then = Front(RuleAt(e).then), !.else = <<>>]]
  /\ UNCHANGED off

\* list_update: a list loses its last rule.
ListUpdate(e) ==
  /\ Len(e) = 2 /\ e[2] # 0
  /\ conf[e[1]][e[2]] # <<>>
  /\ conf' = [conf EXCEPT ![e[1]][e[2]] = Front(@)]
  /\ UNCHANGED off

\* phase_update: a phase loses its last list.
PhaseUpdate(e) ==
  /\ Len(e) = 2 /\ e[2] = 0
  /\ conf[e[1]] # <<>>
  /\ conf' = [conf EXCEPT ![e[1]] = Front(@)]
  /\ UNCHANGED off

Updates == FoldFunction(+, 0, gen)

\* Each of them reserves its element for writing and changes its generation.
Update(e) ==
  /\ Updates < MaxUpdates
  /\ e \notin Reserved
  /\ gen' = [gen EXCEPT ![e] = @ + 1]
  /\ DisabledUpdate(e) \/ ActionsUpdate(e) \/ ListUpdate(e) \/ PhaseUpdate(e)
  /\ UNCHANGED <<known, ctx, at, pos, wake, ran>>

\* ruleset_common_reserve_read fails.  Nobody resumes a request that waits
\* for an update (module ReadWrite).
Refused ==
  /\ MaxUpdates > 0
  /\ \/ at = "ruleset" /\ r \in known /\ Suspend(RulesetDeferred(ctx), "none")
     \/ at = "enter" /\ Suspend(RulesetDeferred([ctx EXCEPT !.phGen = 0]), "none")
     \/ /\ at = "phase" /\ pos.l <= Len(conf[r])
        /\ Suspend(PhaseDeferred([ctx EXCEPT !.li = pos.l, !.liGen = 0]), "none")
     \/ AtRule /\ Suspend(ListDeferred([ctx EXCEPT !.rule.ru = pos.q]), "none")
  /\ UNCHANGED ran

-----------------------------------------------------------------------------
Evaluate ==
  \/ FetchRuleset \/ EvalRuleset \/ EnterPhase \/ PhaseEnds
  \/ EnterList \/ ListEnds
  \/ DisabledRule \/ Concludes \/ Defers \/ DoneBefore
  \/ Tag \/ WaitStarts \/ WaitEnds \/ Decide \/ ActionsEnd

Next ==
  \/ Handle \/ Evaluate
  \/ Close
  \/ \E e \in Elements(conf) : Update(e)
  \/ Refused

Spec == Init /\ [][Next]_vars

\* What has begun in a worker goes on, and the events come: timers are
\* served, and the manager answers (RequestResumed of module Limiter).
FairSpec == Spec /\ WF_vars(Handle) /\ WF_vars(Evaluate)

-----------------------------------------------------------------------------
(* Properties.                                                             *)

Before(p, o) ==
  \E i \in 1..4 : p[i] < o[i] /\ \A j \in 1..(i - 1) : p[j] = o[j]

\* What a request that is never suspended would do.
Enabled(p) == {<<p[1]>>, <<p[1], p[2]>>, p} \cap off = {}
Taken ==
  UNION {{p \o <<a>> : a \in 0..Len(Branch(RuleAt(p)))} :
           p \in {e \in RulesOf(conf) : Enabled(e)}}
Ends(p) ==
  p[4] > 0 /\ Branch(RuleAt(SubSeq(p, 1, 3)))[p[4]] \in Final
SameArray(p, o) == \A i \in 1..3 : p[i] = o[i]
\* A final action ends the processing of rules, but its array goes on to its
\* end (src/README.md:185, 193).
Due == {p \in Taken : ~\E f \in Taken : Ends(f) /\ Before(f, p) /\ ~SameArray(f, p)}

\* Suspending and resuming does not show: conditions conclude and actions are
\* done once each, in their order, and all of them, however often the request
\* waited in between and whichever ruleset had to be fetched; if arrays wait
\* only in their first action and end with the first final one (see ArraysDone).
Order == INSTANCE RuleOrder WITH
  todo <- Due \ {ran[i] : i \in DOMAIN ran},
  verdict <- IF at \in Over \cup {"aborted"} THEN at ELSE "none"
ImplementsOrder == Order!Spec

\* "Arrays of actions are executed in-order until the end of the array, even in the
\* presence of one or more *final actions*" (src/README.md:193): a request that is
\* over has done the whole array of each action that it has done.
ArraysDone ==
  at \in {"pass", "reject"} =>
    \A i \in DOMAIN ran : \A p \in Taken :
      ran[i][4] > 0 /\ SameArray(ran[i], p) => \E j \in DOMAIN ran : ran[j] = p

\* Nothing was updated since the request came.
Untouched == \A e \in DOMAIN gen : gen[e] = 0

\* With any number of rulesets and waits anywhere: nothing is done twice or out
\* of order, unless everything is evaluated anew because a ruleset was fetched
\* or an element was updated.
InOrder ==
  Untouched => \A i, j \in DOMAIN ran : i < j => Before(ran[i], ran[j])

\* A condition that finds something on the stack has put it there itself, so that
\* it does not take the wait of another rule for its own, and the branch that is
\* taken is that of the rule's own condition.
ContextIsOwn ==
  /\ TypeOK
  /\ Untouched /\ AtRule /\ ctx.rule.stack # <<>> =>
       ctx.rule.stack[1].rule = ThisRule /\ Len(ctx.rule.stack) = 1
  /\ Untouched /\ at = "action" => ctx.rule.true = RuleAt(ThisRule).holds

\* Where there is only one ruleset, its phase is never resumed beyond its end,
\* whatever is updated while the request waits (the assertion of phase.c:33).
OnePhaseResumes == Len(conf) = 1 => at # "aborted"

\* Every request gets a verdict, or its client gives up.
Decided == <>(at \in Over)

=============================================================================
