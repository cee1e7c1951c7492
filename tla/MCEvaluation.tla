---------------------------- MODULE MCEvaluation ----------------------------
EXTENDS Evaluation, TLC

R(kind, holds, then, else) ==
  [kind |-> kind, holds |-> holds, then |-> then, else |-> else]

\* Rules whose arrays wait only in their first action and end with the first
\* final one, and rules that wait later, too.
WaitFirst ==
  {R("plain", TRUE, <<"wait", "tag">>, <<>>),
   R("plain", FALSE, <<"reject">>, <<"tag">>),
   R("delay", TRUE, <<"wait", "reject">>, <<>>),
   R("limit", FALSE, <<"tag">>, <<"wait", "tag", "accept">>),
   R("limit", TRUE, <<>>, <<"tag">>)}
Waiting ==
  {R("delay", TRUE, <<"wait", "tag">>, <<>>), R("plain", FALSE, <<>>, <<"tag", "wait">>)}

\* The arrays of src/README.md:199-200, chosen at once, after a delay or after
\* the answer of the manager, before another rule of the same.
Examples ==
  {<<"tag", "accept">>, <<"reject", "tag">>, <<"accept">>, <<"wait", "reject", "tag">>}
Documented == {R(kind, TRUE, array, <<>>) : kind \in {"plain", "delay", "limit"}, array \in Examples}
DocumentedArrays == {<<<<<<a, b>>>>>> : a, b \in Documented}

Lists(rules, n) == UNION {[1..k -> rules] : k \in 0..n}

\* One ruleset: at most two rules and then at most one, in two lists.
OneRuleset ==
  {<<<<a, b>>>> : a \in Lists(WaitFirst, 2), b \in Lists(WaitFirst, 1)}

SomeLists == Lists(Waiting, 1) \cup {<<a, b>> : a, b \in Waiting}

\* One ruleset of two lists, and two rulesets of one or two lists.
Small ==
  {<<<<<<a, b>>, <<c>>>>>> : a, b, c \in Waiting} \cup
  {<<a, b>> : a, b \in [1..1 -> SomeLists] \cup [1..2 -> Lists(Waiting, 1)]}
=============================================================================
