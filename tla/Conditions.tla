----------------------------- MODULE Conditions -----------------------------
(***************************************************************************)
(* Conditions of rules (ruleset/condition.c, and the limit condition of    *)
(* ruleset/limiter.c): a tree of `any` and `all` over leaves, two kinds of  *)
(* which suspend the request.  All that is left of a suspended evaluation   *)
(* is one stack of untyped words, the request's condition_stack: the leaf   *)
(* pushes its own word first and every enclosing list its place after it.   *)
(* One step evaluates a tree until it has an answer or defers; the event    *)
(* that a deferred leaf waits for resumes the evaluation at the root.       *)
(***************************************************************************)
EXTENDS Naturals, Sequences

CONSTANT Trees         \* the conditions that rules may have

VARIABLES cond,        \* the condition in evaluation
          stack,       \* condition_stack, its head first: places and data
          wait,        \* what the request waits for: "timer", "answer", "none"
          answer,      \* what the last evaluation returned
          ran          \* history: the leaves of cond that began, by their paths
vars == <<cond, stack, wait, answer, ran>>

NULL  == 0             \* as a word, NULL is the place 0
Value == 1000          \* a pointer to the value of a limiter: beyond every list

NoCond == [kind |-> "none", negate |-> FALSE]

Init ==
  /\ cond = NoCond
  /\ stack = <<>> /\ wait = "none" /\ answer = "none" /\ ran = <<>>

MaybeNegate(c, rc) ==
  IF c.negate /\ rc \in {"true", "false"}
    THEN IF rc = "true" THEN "false" ELSE "true"
    ELSE rc
Truth(b) == IF b THEN "true" ELSE "false"

-----------------------------------------------------------------------------
(* The strings of `match` are sequences of parts: those of the first are     *)
(* fetched in advance, those of another as the comparison comes to them.     *)
RECURSIVE Compare(_, _, _, _, _), ComparePairs(_, _, _)

Same(a, b, n)  == SubSeq(a, 1, n) = SubSeq(b, 1, n)
Rest(a, n)     == SubSeq(a, n + 1, Len(a))
\* Compares s, the rest of a part of the first string and the parts ss after
\* it, with c and cs of another; "next" if this pair does not decide.
Compare(s, ss, c, cs, negate) ==
  LET n   == IF Len(s) < Len(c) THEN Len(s) ELSE Len(c)
      eq  == Same(s, c, n)
      left == IF Len(s) < Len(c) THEN Rest(c, n) ELSE Rest(s, n)
      over == IF Len(s) < Len(c) THEN ss ELSE cs
  IN  IF n > 0 /\ eq /\ ~negate THEN "false"
      ELSE IF n > 0 /\ ~eq /\ negate THEN "true"
      ELSE IF over # <<>>
        THEN IF Len(s) < Len(c)
               THEN Compare(Head(ss), Tail(ss), left, cs, negate)
               ELSE Compare(left, ss, Head(cs), Tail(cs), negate)
      ELSE IF (left # <<>>) # negate THEN "false" ELSE "next"

ComparePairs(first, others, negate) ==
  IF others = <<>> THEN Truth(~negate)
  ELSE LET o  == Head(others)
           rc == Compare(Head(first), Tail(first), Head(o), Tail(o), negate)
       IN  IF rc = "next" THEN ComparePairs(first, Tail(others), negate) ELSE rc

Match(c) ==
  IF Len(c.of) < 2 THEN Truth(Len(c.of) = 1)
  ELSE IF Head(c.of) = <<>> THEN "false"
  ELSE ComparePairs(Head(c.of), Tail(c.of), c.negate)

-----------------------------------------------------------------------------
(* An evaluation returns the answer, the stack it leaves, the event a leaf   *)
(* waits for and the leaves that began.                                      *)
Result(rc, st, w, r) == [rc |-> rc, stack |-> st, wait |-> w, ran |-> r]

\* Mutant: the end of a delay leaves its word on the stack.
DelayKeeps(c, path, m) ==
  IF m.stack = <<>>
    THEN Result("defer", <<NULL>>, "timer", Append(m.ran, path))
    ELSE Result("true", m.stack, "none", m.ran)

\* A leaf that defers finds an empty stack when it begins.
Delay(c, path, m) ==
  IF m.stack = <<>>
    THEN Result("defer", <<NULL>>, "timer", Append(m.ran, path))
    ELSE Result("true", Tail(m.stack), "none", m.ran)

\* An element that is not the value of a limiter is dereferenced all the same.
Limit(c, path, m) ==
  LET within == MaybeNegate(c, Truth(c.within))
  IN  IF m.stack = <<>>
        THEN IF c.known
               THEN Result(within, <<>>, "none", Append(m.ran, path))
               ELSE Result("defer", <<NULL>>, "answer", Append(m.ran, path))
        ELSE Result(IF Head(m.stack) = Value THEN within ELSE "crash",
                    Tail(m.stack), "none", m.ran)

Leaf(c, path, m) ==
  CASE c.kind = "delay" -> Delay(c, path, m)
    [] c.kind = "limit" -> Limit(c, path, m)
    [] c.kind = "match" -> Result(Match(c), m.stack, "none", Append(m.ran, path))
    [] c.kind = "const" -> Result(MaybeNegate(c, Truth(c.is)), m.stack, "none",
                                  Append(m.ran, path))

RECURSIVE Eval(_, _, _), Walk(_, _, _, _)

StopOn(c)  == Truth(c.kind = "any")
Exhausted(c) == Truth(c.kind = "all")

\* Mutant: the place of a list is that of the condition after the one that
\* deferred.
SavedNext(i) == i + 1
\* The place that a list pushes when its condition i deferred.
Saved(i) == i

\* condition_list_eval from condition i on; the places are those of C, from 0.
Walk(c, i, path, m) ==
  IF i >= Len(c.of) THEN [m EXCEPT !.rc = Exhausted(c)]
  ELSE LET r == Eval(c.of[i + 1], Append(path, i), m)
       IN  CASE r.rc = StopOn(c)         -> r
             [] r.rc = "defer"           -> [r EXCEPT !.stack = <<Saved(i)>> \o @]
             [] r.rc = "crash"           -> r
             [] OTHER                    -> Walk(c, i + 1, path, r)

Start(st) == IF st = <<>> THEN 0 ELSE Head(st)

Eval(c, path, m) ==
  IF c.kind \in {"any", "all"}
    THEN LET popped == [m EXCEPT !.stack = IF @ = <<>> THEN @ ELSE Tail(@)]
             r      == Walk(c, Start(m.stack), path, popped)
         IN  [r EXCEPT !.rc = MaybeNegate(c, @)]
    ELSE Leaf(c, path, m)

Evaluated(c, st, r) == Eval(c, <<>>, Result("none", st, "none", r))

-----------------------------------------------------------------------------
Concludes(c, st, r) ==
  LET e == Evaluated(c, st, r)
  IN  /\ answer' = e.rc /\ stack' = e.stack /\ wait' = e.wait /\ ran' = e.ran
      /\ cond' = c

\* wfx_rule_eval comes to the condition of a rule.
Begin(c) ==
  /\ cond = NoCond
  /\ Concludes(c, stack, <<>>)

\* delay_timer_callback: the request's phases run, which lead here again.
TimerFires ==
  /\ wait = "timer"
  /\ Concludes(cond, stack, ran)

\* Mutant: the answer goes to the head of the stack.
AnsweredHead(st) == [st EXCEPT ![1] = Value]
\* condition_stack_set_tail_data
Answered(st) == [st EXCEPT ![Len(st)] = Value]

\* limiter_value_response_alert_handler, for a request that still waits.
AnswerArrives ==
  /\ wait = "answer"
  /\ Concludes(cond, Answered(stack), ran)

\* The client is gone: the context of the request is cleaned up.
Close ==
  /\ wait # "none"
  /\ stack' = <<>> /\ wait' = "none" /\ answer' = "none"
  /\ UNCHANGED <<cond, ran>>

Next == (\E c \in Trees : Begin(c)) \/ TimerFires \/ AnswerArrives \/ Close
Spec == Init /\ [][Next]_vars

-----------------------------------------------------------------------------
(* What a condition means, if nothing ever had to wait: its answer and the   *)
(* leaves it asks, in their order.                                           *)
RECURSIVE Meaning(_, _), Conjoin(_, _, _)
LeafMeans(c) ==
  CASE c.kind = "delay" -> "true"
    [] c.kind = "limit" -> Truth(c.within # c.negate)
    [] c.kind = "match" -> Match(c)
    [] c.kind = "const" -> Truth(c.is # c.negate)
Conjoin(c, i, path) ==
  IF i = Len(c.of) THEN [rc |-> Truth(c.kind = "all"), ran |-> <<>>]
  ELSE LET a == Meaning(c.of[i + 1], Append(path, i))
       IN  IF a.rc = Truth(c.kind = "any") THEN a
           ELSE LET b == Conjoin(c, i + 1, path)
                IN  [b EXCEPT !.ran = a.ran \o @]
Meaning(c, path) ==
  IF c.kind \in {"any", "all"}
    THEN LET b == Conjoin(c, 0, path)
         IN  [b EXCEPT !.rc = Truth((@ = "true") # c.negate)]
    ELSE [rc |-> LeafMeans(c), ran |-> <<path>>]

(* An evaluation that was suspended, however often and however deep in its   *)
(* lists, gives the answer of one that never was, and every leaf on its way  *)
(* began its wait or counted the request once, in the order of the lists.    *)
LikeUnsuspended ==
  answer \in {"true", "false", "crash"} =>
    [rc |-> answer, ran |-> ran] = Meaning(cond, <<>>)

RECURSIVE At(_, _)
At(c, path) == IF path = <<>> THEN c ELSE At(c.of[Head(path) + 1], Tail(path))

(* While a request waits its stack spells the way from the root of the       *)
(* condition to the leaf that waits, and below it the word of that leaf, the *)
(* tail, which is where condition_stack_set_tail_data puts the answer.  When *)
(* it does not wait the stack is empty, so that the condition of the next     *)
(* rule begins anew (condition.c:170, :381).                                 *)
StackSpellsPath ==
  IF wait = "none" THEN stack = <<>>
  ELSE LET path == SubSeq(stack, 1, Len(stack) - 1)
       IN  /\ stack[Len(stack)] = NULL
           /\ ran # <<>> /\ path = ran[Len(ran)]
           /\ At(cond, path).kind = (IF wait = "timer" THEN "delay" ELSE "limit")

RECURSIVE Whole(_)
Whole(parts) == IF parts = <<>> THEN <<>> ELSE Head(parts) \o Whole(Tail(parts))

(* README.md:404 says of `match` that it matches strings for equality and    *)
(* that all must be the same to be true.                                     *)
MatchIsEquality ==
  cond.kind = "match" /\ answer \in {"true", "false"} /\ ~cond.negate =>
    (answer = "true") = (\A i \in DOMAIN cond.of : Whole(cond.of[i]) = Whole(cond.of[1]))
=============================================================================
