----------------------------- MODULE RuleOrder -----------------------------
(***************************************************************************)
(* What the evaluation of a request promises: everything that is due, the  *)
(* conditions of the rules and the actions of the branches they choose,    *)
(* happens once, in the order of the rulesets, lists, rules and arrays,    *)
(* and only when all of it has happened is there a verdict: a final action *)
(* in the middle of its array does not keep the rest from being due.       *)
(* How often the request is suspended in between does not show.            *)
(***************************************************************************)
EXTENDS Sequences

CONSTANT Before(_, _)   \* the order in which things are due

VARIABLES
  todo,    \* what is due and did not happen yet
  ran,     \* what happened, in this order
  verdict  \* "none" until there is one, "closed" when the client gave up

vars == <<todo, ran, verdict>>

Init ==
  /\ ran = <<>>
  /\ verdict = "none"

Run(p) ==
  /\ verdict = "none"
  /\ p \in todo
  /\ \A o \in todo \ {p} : Before(p, o)
  /\ todo' = todo \ {p}
  /\ ran' = Append(ran, p)
  /\ \/ UNCHANGED verdict
     \/ todo' = {} /\ verdict' \in {"pass", "reject"}

\* Nothing rejected the request.
Pass ==
  /\ verdict = "none"
  /\ todo = {}
  /\ verdict' = "pass"
  /\ UNCHANGED <<todo, ran>>

Close ==
  /\ verdict = "none"
  /\ verdict' = "closed"
  /\ UNCHANGED <<todo, ran>>

Next == (\E p \in todo : Run(p)) \/ Pass \/ Close

Spec == Init /\ [][Next]_vars
=============================================================================
