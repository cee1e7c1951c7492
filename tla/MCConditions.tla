---------------------------- MODULE MCConditions ----------------------------
(* Conditions of up to three levels for TLC. *)
EXTENDS Conditions

Const == [kind : {"const"}, is : BOOLEAN, negate : {FALSE}]
Delays == [kind : {"delay"}, negate : {FALSE}]
Limits == [kind : {"limit"}, known : BOOLEAN, within : BOOLEAN, negate : BOOLEAN]

UpTo(S, n) == UNION {[1..k -> S] : k \in 0..n}
Lists(S, n, N) == [kind : {"any", "all"}, of : UpTo(S, n), negate : N]

Leaves == Const \cup Delays \cup {l \in Limits : ~l.known /\ ~l.negate}
Asking == {l \in Limits : ~l.known /\ ~l.negate} \cup Delays

\* Lists of up to three leaves, and a list in a list beside a leaf.
Flat   == Lists(Leaves, 3, {FALSE})
Inner  == Lists(Asking, 2, BOOLEAN)
Nested == Limits \cup Lists(Inner \cup Asking, 2, {FALSE})
            \cup Lists(Lists(Lists(Asking, 2, {FALSE}), 1, {TRUE}), 2, {FALSE})
MCTrees == Flat \cup Nested

\* Strings of up to two parts of up to two characters.
Parts   == UpTo({"x", "y"}, 2)
Strings == UpTo(Parts, 2) \ {<<>>}
Matches == [kind : {"match"}, of : [1..2 -> Strings], negate : BOOLEAN]
=============================================================================
