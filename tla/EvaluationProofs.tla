-------------------------- MODULE EvaluationProofs --------------------------
(***************************************************************************)
(* What Evaluation promises, for every configuration, any number of        *)
(* updates and requests of any length; and that it does what RuleOrder     *)
(* says, as far as that is true of the code.                               *)
(***************************************************************************)
EXTENDS Evaluation, SequenceTheorems, TLAPS

\* Where the worker is has not been updated away: it has reserved it.
Within ==
  /\ at \in {"list", "action"} => pos.l \in DOMAIN conf[r]
  /\ at = "action" => pos.q \in DOMAIN conf[r][pos.l]

-----------------------------------------------------------------------------
\* What is where in a configuration.
LEMMA Places ==
  ASSUME TypeOK
  PROVE  /\ conf \in Seq(Seq(Seq(Rule))) /\ conf # <<>>
         /\ Len(conf) \in Nat \ {0} /\ DOMAIN conf = 1..Len(conf) /\ 1 \in DOMAIN conf
         /\ \A i \in DOMAIN conf :
              /\ conf[i] \in Seq(Seq(Rule))
              /\ DOMAIN conf[i] = 1..Len(conf[i]) /\ Len(conf[i]) \in Nat
              /\ <<i>> \in DOMAIN gen /\ <<i, 0>> \in DOMAIN gen
         /\ \A i \in DOMAIN conf : \A l \in DOMAIN conf[i] :
              /\ conf[i][l] \in Seq(Rule)
              /\ DOMAIN conf[i][l] = 1..Len(conf[i][l]) /\ Len(conf[i][l]) \in Nat
              /\ <<i, l>> \in DOMAIN gen
         /\ \A i \in DOMAIN conf : \A l \in DOMAIN conf[i] : \A q \in DOMAIN conf[i][l] :
              /\ conf[i][l][q] \in Rule
              /\ <<i, l, q>> \in DOMAIN gen
<1>1. /\ conf \in Seq(Seq(Seq(Rule))) /\ conf # <<>> /\ Elements(conf) \subseteq DOMAIN gen
  BY DEF TypeOK
<1>2. /\ Len(conf) \in Nat \ {0} /\ DOMAIN conf = 1..Len(conf) /\ 1 \in DOMAIN conf
  BY <1>1, EmptySeq, LenProperties
<1>3. ASSUME NEW i \in DOMAIN conf
      PROVE  /\ conf[i] \in Seq(Seq(Rule))
             /\ DOMAIN conf[i] = 1..Len(conf[i]) /\ Len(conf[i]) \in Nat
             /\ <<i>> \in DOMAIN gen /\ <<i, 0>> \in DOMAIN gen
  BY <1>1, <1>2, LenProperties, ElementOfSeq DEF Elements
<1>4. ASSUME NEW i \in DOMAIN conf, NEW l \in DOMAIN conf[i]
      PROVE  /\ conf[i][l] \in Seq(Rule)
             /\ DOMAIN conf[i][l] = 1..Len(conf[i][l]) /\ Len(conf[i][l]) \in Nat
             /\ <<i, l>> \in ListsOf(conf)
             /\ <<i, l>> \in DOMAIN gen
  <2>1. <<i, l>> \in ListsOf(conf)
    BY DEF ListsOf
  <2> QED
    BY <1>1, <1>2, <1>3, <2>1, LenProperties, ElementOfSeq DEF Elements
<1>5. ASSUME NEW i \in DOMAIN conf, NEW l \in DOMAIN conf[i], NEW q \in DOMAIN conf[i][l]
      PROVE  /\ conf[i][l][q] \in Rule
             /\ <<i, l, q>> \in DOMAIN gen
  <2>1. <<i, l, q>> \in RulesOf(conf)
    <3>1. <<i, l>> \in ListsOf(conf) /\ <<i, l>>[1] = i /\ <<i, l>>[2] = l
      BY <1>4
    <3> QED
      BY <3>1 DEF RulesOf
  <2> QED
    BY <1>1, <1>4, <2>1, ElementOfSeq DEF Elements
<1> QED
  BY <1>1, <1>2, <1>3, <1>4, <1>5

\* The four forms of an element.
LEMMA Forms ==
  ASSUME TypeOK, NEW e \in Elements(conf)
  PROVE  /\ Len(e) = 2 /\ e[2] = 0 => \E i \in DOMAIN conf : e = <<i, 0>>
         /\ Len(e) = 2 /\ e[2] # 0 =>
              \E i \in DOMAIN conf : \E l \in DOMAIN conf[i] : e = <<i, l>> /\ l # 0
         /\ Len(e) = 3 =>
              \E i \in DOMAIN conf : \E l \in DOMAIN conf[i] :
                \E q \in DOMAIN conf[i][l] : e = <<i, l, q>>
<1> USE Places
<1>1. ASSUME NEW p \in ListsOf(conf)
      PROVE  \E i \in DOMAIN conf : \E l \in DOMAIN conf[i] : p = <<i, l>> /\ l # 0
  BY <1>1 DEF ListsOf
<1>2. ASSUME NEW p \in RulesOf(conf)
      PROVE  \E i \in DOMAIN conf : \E l \in DOMAIN conf[i] :
               \E q \in DOMAIN conf[i][l] : p = <<i, l, q>>
  <2>1. PICK k \in ListsOf(conf) : \E q \in DOMAIN conf[k[1]][k[2]] : p = <<k[1], k[2], q>>
    BY DEF RulesOf
  <2>2. PICK i \in DOMAIN conf : \E l \in DOMAIN conf[i] : k = <<i, l>>
    BY <1>1
  <2> QED
    BY <2>1, <2>2
<1>3. CASE e \in RulesOf(conf)
  <2>1. Len(e) = 3
    <3>1. \A i, l, q : Len(<<i, l, q>>) = 3
      OBVIOUS
    <3> QED
      BY <1>2, <1>3, <3>1
  <2> QED
    BY <1>2, <1>3, <2>1
<1>4. CASE e \in ListsOf(conf)
  <2>1. Len(e) = 2 /\ e[2] # 0
    <3>1. \A i, l : Len(<<i, l>>) = 2 /\ <<i, l>>[2] = l
      OBVIOUS
    <3> QED
      BY <1>1, <1>4, <3>1
  <2> QED
    BY <1>1, <1>4, <2>1
<1>5. CASE \E i \in DOMAIN conf : e = <<i>> \/ e = <<i, 0>>
  <2>1. PICK i \in DOMAIN conf : e = <<i>> \/ e = <<i, 0>>
    BY <1>5
  <2>2. CASE e = <<i>>
    <3>1. Len(e) = 1
      BY <2>2
    <3> QED
      BY <3>1
  <2>3. CASE e = <<i, 0>>
    <3>1. Len(e) = 2 /\ e[2] = 0
      BY <2>3
    <3> QED
      BY <2>3, <3>1
  <2> QED
    BY <2>1, <2>2, <2>3
<1>6. e \in RulesOf(conf) \/ e \in ListsOf(conf) \/ \E i \in DOMAIN conf : e = <<i>> \/ e = <<i, 0>>
  BY DEF Elements
<1> QED
  BY <1>3, <1>4, <1>5, <1>6

\* Front takes the last part.
LEMMA FrontOf ==
  ASSUME NEW S, NEW s \in Seq(S), s # <<>>
  PROVE  /\ Front(s) \in Seq(S)
         /\ DOMAIN Front(s) \subseteq DOMAIN s
         /\ \A i \in DOMAIN Front(s) : Front(s)[i] = s[i]
<1>1. Len(s) \in Nat /\ Len(s) # 0 /\ DOMAIN s = 1..Len(s)
  BY EmptySeq, LenProperties
<1>2. \A i \in 1..Len(s) : s[i] \in S
  BY ElementOfSeq
<1>3. PICK n \in Nat : Len(s) = n + 1
  <2>1. Len(s) - 1 \in Nat /\ Len(s) = (Len(s) - 1) + 1
    BY <1>1
  <2> QED
    BY <2>1
<1>4. Front(s) = SubSeq(s, 1, n)
  <2>1. (n + 1) - 1 = n
    OBVIOUS
  <2> QED
    BY <1>3, <2>1 DEF Front
<1>5. n \in 0..Len(s)
  BY <1>3
<1>6. Front(s) = Restrict(s, 1..n)
  BY <1>4, <1>5, SubSeqRestrict
<1>7. /\ DOMAIN Front(s) = 1..n
      /\ \A i \in 1..n : Front(s)[i] = s[i]
  BY <1>6 DEF Restrict
<1>8. Front(s) \in Seq(S)
  BY <1>2, <1>3, <1>4, SubSeqProperties
<1> QED
  BY <1>1, <1>3, <1>7, <1>8

\* An update takes the last part of one element, and only of that one.
LEMMA Smaller ==
  ASSUME TypeOK, NEW e \in Elements(conf), Update(e)
  PROVE  /\ conf' \in Seq(Seq(Seq(Rule))) /\ Len(conf') = Len(conf)
         /\ \A i \in DOMAIN conf :
              /\ DOMAIN conf'[i] \subseteq DOMAIN conf[i]
              /\ e # <<i, 0>> => DOMAIN conf'[i] = DOMAIN conf[i]
         /\ \A i \in DOMAIN conf : \A l \in DOMAIN conf'[i] :
              /\ DOMAIN conf'[i][l] \subseteq DOMAIN conf[i][l]
              /\ e # <<i, l>> => DOMAIN conf'[i][l] = DOMAIN conf[i][l]
<1> USE Places
<1>1. CASE DisabledUpdate(e)
  BY <1>1 DEF DisabledUpdate
<1>2. CASE PhaseUpdate(e)
  <2>1. PICK i \in DOMAIN conf : e = <<i, 0>>
    <3>1. Len(e) = 2 /\ e[2] = 0
      BY <1>2 DEF PhaseUpdate
    <3> QED
      BY <3>1, Forms
  <2>2. /\ conf[i] # <<>>
        /\ conf' = [conf EXCEPT ![i] = Front(conf[i])]
    BY <1>2, <2>1 DEF PhaseUpdate
  <2>3. /\ Front(conf[i]) \in Seq(Seq(Rule))
        /\ DOMAIN Front(conf[i]) \subseteq DOMAIN conf[i]
        /\ \A l \in DOMAIN Front(conf[i]) : Front(conf[i])[l] = conf[i][l]
    BY <2>2, FrontOf
  <2>4. conf' \in Seq(Seq(Seq(Rule))) /\ Len(conf') = Len(conf)
    BY <2>2, <2>3, ExceptSeq
  <2>5. \A k \in DOMAIN conf : conf'[k] = IF k = i THEN Front(conf[i]) ELSE conf[k]
    BY <2>2
  <2>6. \A k \in DOMAIN conf : \A l \in DOMAIN conf'[k] : l \in DOMAIN conf[k] /\ conf'[k][l] = conf[k][l]
    BY <2>3, <2>5
  <2>7. \A k \in DOMAIN conf : e # <<k, 0>> => k # i
    BY <2>1
  <2> QED
    BY <2>3, <2>4, <2>5, <2>6, <2>7
<1>3. CASE ListUpdate(e)
  <2>1. PICK i \in DOMAIN conf : \E l \in DOMAIN conf[i] : e = <<i, l>> /\ l # 0
    <3>1. Len(e) = 2 /\ e[2] # 0
      BY <1>3 DEF ListUpdate
    <3> QED
      BY <3>1, Forms
  <2>2. PICK l \in DOMAIN conf[i] : e = <<i, l>> /\ l # 0
    BY <2>1
  <2>3. /\ conf[i][l] # <<>>
        /\ conf' = [conf EXCEPT ![i] = [conf[i] EXCEPT ![l] = Front(conf[i][l])]]
    BY <1>3, <2>2 DEF ListUpdate
  <2>4. /\ [conf[i] EXCEPT ![l] = Front(conf[i][l])] \in Seq(Seq(Rule))
        /\ DOMAIN [conf[i] EXCEPT ![l] = Front(conf[i][l])] = DOMAIN conf[i]
    BY <2>3, FrontOf, ExceptSeq
  <2>5. conf' \in Seq(Seq(Seq(Rule))) /\ Len(conf') = Len(conf)
    BY <2>3, <2>4, ExceptSeq
  <2>6. DOMAIN Front(conf[i][l]) \subseteq DOMAIN conf[i][l]
    BY <2>3, FrontOf
  <2>7. \A k \in DOMAIN conf : DOMAIN conf'[k] = DOMAIN conf[k]
    BY <2>3, <2>4
  <2>8. \A k \in DOMAIN conf : \A m \in DOMAIN conf[k] :
          conf'[k][m] = IF k = i /\ m = l THEN Front(conf[i][l]) ELSE conf[k][m]
    BY <2>3
  <2>9. \A k \in DOMAIN conf : \A m \in DOMAIN conf[k] : e # <<k, m>> => k # i \/ m # l
    BY <2>2
  <2> QED
    BY <2>5, <2>6, <2>7, <2>8, <2>9
<1>4. CASE ActionsUpdate(e)
  <2>1. PICK i \in DOMAIN conf : \E l \in DOMAIN conf[i] : \E q \in DOMAIN conf[i][l] : e = <<i, l, q>>
    <3>1. Len(e) = 3
      BY <1>4 DEF ActionsUpdate
    <3> QED
      BY <3>1, Forms
  <2>2. PICK l \in DOMAIN conf[i] : \E q \in DOMAIN conf[i][l] : e = <<i, l, q>>
    BY <2>1
  <2>3. PICK q \in DOMAIN conf[i][l] : e = <<i, l, q>>
    BY <2>2
  <2> DEFINE rule == [conf[i][l][q] EXCEPT !.then = Front(conf[i][l][q].then), !.else = <<>>]
             list == [conf[i][l] EXCEPT ![q] = rule]
             phase == [conf[i] EXCEPT ![l] = list]
  <2>4. conf[i][l][q].then # <<>> /\ conf' = [conf EXCEPT ![i] = phase]
    <3>1. e[1] = i /\ e[2] = l /\ e[3] = q
      BY <2>3
    <3>2. /\ conf[e[1]][e[2]][e[3]].then # <<>>
          /\ conf' = [conf EXCEPT ![e[1]] = [conf[e[1]] EXCEPT ![e[2]] =
                [conf[e[1]][e[2]] EXCEPT ![e[3]] =
                   [conf[e[1]][e[2]][e[3]] EXCEPT
                      !.then = Front(conf[e[1]][e[2]][e[3]].then), !.else = <<>>]]]]
      BY <1>4, SMTT(20) DEF ActionsUpdate, RuleAt
    <3> QED
      BY <3>1, <3>2
  <2>5. rule \in Rule
    <3>1. conf[i][l][q] \in Rule /\ conf[i][l][q].then \in Seq(Actions)
      BY DEF Rule
    <3>2. Front(conf[i][l][q].then) \in Seq(Actions) /\ <<>> \in Seq(Actions)
      BY <2>4, <3>1, FrontOf, EmptySeq
    <3> QED
      BY <3>1, <3>2 DEF Rule
  <2>6. list \in Seq(Rule) /\ DOMAIN list = DOMAIN conf[i][l]
    BY <2>5, ExceptSeq
  <2>7. phase \in Seq(Seq(Rule)) /\ DOMAIN phase = DOMAIN conf[i]
    BY <2>6, ExceptSeq
  <2>8. conf' \in Seq(Seq(Seq(Rule))) /\ Len(conf') = Len(conf)
    BY <2>4, <2>7, ExceptSeq
  <2> QED
    BY <2>3, <2>4, <2>6, <2>7, <2>8
<1> QED
  BY <1>1, <1>2, <1>3, <1>4 DEF Update

-----------------------------------------------------------------------------
\* What an update leaves alone.
LEMMA UpdateTypes ==
  ASSUME TypeOK, Within, NEW e \in Elements(conf), Update(e)
  PROVE  TypeOK' /\ Within'
<1> USE Places, Smaller
<1>1. gen' \in [DOMAIN gen -> Nat] /\ DOMAIN gen' = DOMAIN gen
  BY DEF Update, TypeOK
<1>2. Elements(conf') \subseteq Elements(conf)
  <2>1. DOMAIN conf' = DOMAIN conf /\ \A i \in DOMAIN conf : DOMAIN conf'[i] \subseteq DOMAIN conf[i]
    BY LenProperties
  <2>2. ASSUME NEW p \in ListsOf(conf')
        PROVE  /\ p \in ListsOf(conf)
               /\ p[1] \in DOMAIN conf /\ p[2] \in DOMAIN conf'[p[1]]
    BY <2>1 DEF ListsOf
  <2>3. ASSUME NEW p \in RulesOf(conf') PROVE p \in RulesOf(conf)
    <3>1. PICK k \in ListsOf(conf') : \E q \in DOMAIN conf'[k[1]][k[2]] : p = <<k[1], k[2], q>>
      BY DEF RulesOf
    <3> QED
      BY <2>2, <3>1 DEF RulesOf
  <2> QED
    BY <2>1, <2>2, <2>3 DEF Elements
<1>3. off' \subseteq DOMAIN gen
  BY DEF Update, DisabledUpdate, Disableable, ActionsUpdate, ListUpdate, PhaseUpdate, TypeOK
<1>4. conf' # <<>>
  BY EmptySeq
<1>5. TypeOK'
  <2>1. UNCHANGED <<known, ctx, at, pos, wake>> /\ DOMAIN conf' = DOMAIN conf
    BY LenProperties DEF Update
  <2>2. Context' = Context
    BY <1>1, <2>1 DEF Context, RuleContext, Mark
  <2> QED
    BY <1>1, <1>2, <1>3, <1>4, <2>1, <2>2 DEF TypeOK
<1>6. r \in DOMAIN conf /\ UNCHANGED <<ctx, at, pos>> /\ e \notin Reserved
  BY DEF TypeOK, Context, r, Update
<1>7. ASSUME at \in {"list", "action"} PROVE pos.l \in DOMAIN conf'[r]
  <2>1. pos.l \in DOMAIN conf[r] /\ e # <<r, 0>>
    BY <1>6, <1>7 DEF Within, Reserved, ThisPhase
  <2> QED
    BY <1>6, <2>1
<1>8. ASSUME at = "action" PROVE pos.q \in DOMAIN conf'[r][pos.l]
  <2>1. pos.q \in DOMAIN conf[r][pos.l] /\ e # <<r, pos.l>>
    BY <1>6, <1>8 DEF Within, Reserved, ThisList
  <2>2. pos.l \in DOMAIN conf'[r]
    BY <1>7, <1>8
  <2> QED
    BY <1>6, <2>1, <2>2
<1>9. Within'
  BY <1>6, <1>7, <1>8 DEF Within, r
<1> QED
  BY <1>5, <1>9

\* A context stays a context when a function defers.
LEMMA Saves ==
  ASSUME TypeOK, NEW c \in Context
  PROVE  /\ Kept(c) \in Context /\ RulesetDeferred(c) \in Context
         /\ PhaseDeferred(c) \in Context
         /\ pos.l \in DOMAIN conf[r] => ListDeferred(c) \in Context
<1>1. r \in DOMAIN conf
  BY DEF TypeOK, Context, r
<1>2. /\ gen[<<r>>] \in Nat /\ gen[<<r, 0>>] \in Nat
      /\ pos.l \in DOMAIN conf[r] => gen[<<r, pos.l>>] \in Nat
  BY <1>1, Places DEF TypeOK
<1>3. ASSUME NEW d \in Context
      PROVE  /\ Kept(d) \in Context /\ RulesetDeferred(d) \in Context
  BY <1>2 DEF Kept, RulesetDeferred, Context, Generation
<1>4. ASSUME NEW d \in Context
      PROVE  PhaseDeferred(d) \in Context
  <2>1. [d EXCEPT !.phGen = gen[ThisPhase]] \in Context
    BY <1>2 DEF Context, Generation, ThisPhase
  <2> QED
    BY <1>3, <2>1 DEF PhaseDeferred
<1>5. ASSUME pos.l \in DOMAIN conf[r]
      PROVE  ListDeferred(c) \in Context
  <2>1. [c EXCEPT !.liGen = gen[ThisList]] \in Context
    BY <1>2, <1>5 DEF Context, Generation, ThisList
  <2> QED
    BY <1>4, <2>1 DEF ListDeferred
<1> QED
  BY <1>3, <1>4, <1>5

\* What is saved.
LEMMA Saved ==
  ASSUME NEW c \in Context
  PROVE  /\ \A d \in {Kept(c), RulesetDeferred(c), PhaseDeferred(c), ListDeferred(c)} :
              d.rs = c.rs /\ d.li = c.li /\ d.rule = c.rule /\ d.kept /\ ~d.nocheck
         /\ Kept(c).phGen = c.phGen /\ RulesetDeferred(c).phGen = c.phGen
         /\ PhaseDeferred(c).phGen = gen[ThisPhase]
         /\ ListDeferred(c).phGen = gen[ThisPhase]
         /\ ListDeferred(c).liGen = gen[ThisList]
         /\ ListDeferred(c).rsGen = gen[<<r>>]
  BY DEF Context, Kept, RulesetDeferred, PhaseDeferred, ListDeferred

\* The loop variables.
LEMMA Moves ==
  ASSUME NEW p \in Position
  PROVE  /\ p.l \in Index /\ p.q \in Index /\ p.a \in Index
         /\ [p EXCEPT !.l = p.l + 1] \in Position
         /\ [p EXCEPT !.q = p.q + 1] \in Position /\ [p EXCEPT !.q = p.q + 1].l = p.l
         /\ [p EXCEPT !.a = p.a + 1] \in Position /\ [p EXCEPT !.a = p.a + 1].l = p.l
         /\ [p EXCEPT !.a = p.a + 1].q = p.q
         /\ \A n \in Index :
              /\ [p EXCEPT !.l = n] \in Position
              /\ [p EXCEPT !.q = n] \in Position /\ [p EXCEPT !.q = n].l = p.l
              /\ [p EXCEPT !.a = n] \in Position /\ [p EXCEPT !.a = n].l = p.l
              /\ [p EXCEPT !.a = n].q = p.q
  BY DEF Position, Index

\* The context of a rule that is not resumed.
LEMMA CheckedContext ==
  ASSUME TypeOK
  PROVE  /\ Checked \in Context
         /\ Checked.rule \in RuleContext /\ Checked.rule.ac \in Index
         /\ Checked.rs = ctx.rs /\ Checked.li = ctx.li /\ Checked.phGen = ctx.phGen
         /\ Checked.liGen = ctx.liGen /\ Checked.nocheck = ctx.nocheck
         /\ ~Restarts => Checked = [ctx EXCEPT !.rule.ru = pos.q]
<1>1. ctx \in Context /\ pos.q \in Index
  BY Moves DEF TypeOK
<1>2. Zeroed \in RuleContext
  BY EmptySeq DEF Zeroed, RuleContext, Index
<1> DEFINE z == [ctx EXCEPT !.rule = Zeroed]
           k == [ctx EXCEPT !.rule.ru = pos.q]
<1>3. /\ z \in Context /\ z.rs = ctx.rs /\ z.li = ctx.li /\ z.phGen = ctx.phGen
      /\ z.liGen = ctx.liGen /\ z.nocheck = ctx.nocheck
  BY <1>1, <1>2 DEF Context
<1>4. /\ k \in Context /\ k.rs = ctx.rs /\ k.li = ctx.li /\ k.phGen = ctx.phGen
      /\ k.liGen = ctx.liGen /\ k.nocheck = ctx.nocheck
  BY <1>1 DEF Context, RuleContext
<1>5. Checked = IF Restarts THEN z ELSE k
  BY DEF Checked
<1> HIDE DEF z, k
<1>6. Checked \in Context
  BY <1>3, <1>4, <1>5
<1>7. Checked.rule \in RuleContext /\ Checked.rule.ac \in Index
  BY <1>6 DEF Context, RuleContext
<1> QED
  BY <1>3, <1>4, <1>5, <1>6, <1>7 DEF k

\* The loop variables lead to a rule that is configured and has a generation.
LEMMA RuleIsThere ==
  ASSUME TypeOK, Within
  PROVE  /\ AtRule => pos.l \in DOMAIN conf[r] /\ pos.q \in DOMAIN conf[r][pos.l]
         /\ AtRule \/ at = "action" => ThisRule \in DOMAIN gen /\ gen[ThisRule] \in Nat
<1>1. /\ r \in DOMAIN conf /\ pos.q \in Index
      /\ \A l \in DOMAIN conf[r] :
           DOMAIN conf[r][l] = 1..Len(conf[r][l]) /\ Len(conf[r][l]) \in Nat
  BY Places, Moves DEF TypeOK, Context, r
<1>2. AtRule \/ at = "action" => pos.l \in DOMAIN conf[r]
  BY DEF AtRule, Within
<1>3. AtRule \/ at = "action" => pos.q \in DOMAIN conf[r][pos.l]
  BY <1>1, <1>2 DEF AtRule, Within, Index
<1> QED
  BY <1>1, <1>2, <1>3, Places DEF ThisRule, TypeOK

\* What a condition that defers saves, and an action that waits.
LEMMA DefersSaves ==
  ASSUME TypeOK, Within, Defers
  PROVE  \E c \in Context :
           /\ ctx' = ListDeferred(c)
           /\ c.rs = ctx.rs /\ c.li = ctx.li
           /\ \E mark \in Mark :
                mark.rule = ThisRule /\ c.rule = [Checked.rule EXCEPT !.stack = <<mark>>]
<1>1. AtRule /\ Checked.rule.stack = <<>>
  BY DEF Defers
<1> DEFINE mark == [rule |-> ThisRule, gen |-> gen[ThisRule]]
           c == [Checked EXCEPT !.rule.stack = <<mark>> \o @]
<1>2. mark \in Mark /\ mark.rule = ThisRule
  BY <1>1, RuleIsThere DEF Mark
<1>3. <<mark>> \o Checked.rule.stack = <<mark>> /\ <<mark>> \in Seq(Mark)
  BY <1>1, <1>2, ConcatEmptySeq
<1>4. /\ c \in Context /\ c.rs = ctx.rs /\ c.li = ctx.li
      /\ c.rule = [Checked.rule EXCEPT !.stack = <<mark>>]
  BY <1>3, CheckedContext DEF Context, RuleContext
<1>5. ctx' = ListDeferred(c)
  BY DEF Defers, Suspend
<1> QED
  BY <1>2, <1>4, <1>5

\* The action that waits saves its index and the generation of its rule.
LEMMA WaitSaves ==
  ASSUME TypeOK, Within, WaitStarts
  PROVE  \E c \in Context :
           /\ ctx' = ListDeferred(c)
           /\ c.rs = ctx.rs /\ c.li = ctx.li
           /\ c.rule = [ctx.rule EXCEPT !.ruGen = gen[ThisRule], !.ac = pos.a, !.data = FALSE]
<1> DEFINE c == [ctx EXCEPT !.rule.ruGen = gen[ThisRule], !.rule.ac = pos.a, !.rule.data = FALSE]
<1>1. at = "action"
  BY DEF WaitStarts, AtAction
<1>2. gen[ThisRule] \in Nat /\ pos.a \in Index /\ ctx \in Context
  BY <1>1, RuleIsThere, Moves DEF TypeOK
<1>3. /\ c \in Context /\ c.rs = ctx.rs /\ c.li = ctx.li
      /\ c.rule = [ctx.rule EXCEPT !.ruGen = gen[ThisRule], !.ac = pos.a, !.data = FALSE]
  BY <1>2 DEF Context, RuleContext
<1>4. ctx' = ListDeferred(c)
  BY DEF WaitStarts, Suspend
<1> QED
  BY <1>3, <1>4

\* Only updates change what is configured.
LEMMA StaticKept ==
  ASSUME TypeOK, UNCHANGED <<conf, gen, off>>, known' \subseteq DOMAIN conf,
         ctx' \in Context, at' \in Place, pos' \in Position, wake' \in Wakes
  PROVE  TypeOK'
<1>1. Context' = Context
  BY DEF Context, RuleContext, Mark
<1> QED
  BY <1>1 DEF TypeOK

\* The type invariant and Within are inductive.
LEMMA TypeStep == TypeOK /\ Within /\ [Next]_vars => TypeOK' /\ Within'
<1> SUFFICES ASSUME TypeOK, Within, [Next]_vars PROVE TypeOK' /\ Within'
  OBVIOUS
<1> DEFINE Fine == /\ UNCHANGED <<conf, gen, off>> /\ known' \subseteq DOMAIN conf
                   /\ ctx' \in Context /\ at' \in Place /\ pos' \in Position
                   /\ wake' \in Wakes /\ Within'
<1>a. Fine => TypeOK' /\ Within'
  BY StaticKept
<1>b. /\ r \in DOMAIN conf /\ DOMAIN conf = 1..Len(conf) /\ Len(conf) \in Nat /\ 1 \in DOMAIN conf
      /\ DOMAIN conf[r] = 1..Len(conf[r]) /\ Len(conf[r]) \in Nat
      /\ \A l \in DOMAIN conf[r] : DOMAIN conf[r][l] = 1..Len(conf[r][l]) /\ Len(conf[r][l]) \in Nat
  BY Places DEF TypeOK, Context, r
<1>c. /\ known \subseteq DOMAIN conf /\ ctx \in Context /\ at \in Place
      /\ pos \in Position /\ wake \in Wakes
  BY DEF TypeOK
<1>d. gen[<<r>>] \in Generation
  BY <1>b, Places DEF TypeOK, Generation
<1>e. ctx \in Context /\ 1 \in Index
  BY <1>c DEF Index
<1>f. pos \in Position
  BY <1>c
<1> USE DEF Suspend, Goes, Place, Over, Wakes
<1>1. ASSUME Handle PROVE Fine
  <2>1. Woken \in Context /\ Woken.rs = r
    BY <1>d, <1>e DEF Woken, Context, RuleContext, r
  <2>2. ctx' \in Context
    BY <1>1, <1>b, <2>1 DEF Handle, FirstRuleset, Context
  <2> QED
    BY <1>1, <1>b, <1>c, <2>2 DEF Handle, Within
<1>2. ASSUME FetchRuleset PROVE Fine
  BY <1>2, <1>c, Saves DEF FetchRuleset, Within
<1>3. ASSUME EvalRuleset PROVE Fine
  BY <1>3, <1>b, <1>c DEF EvalRuleset, NextRuleset, Context, Within, r
<1>4. ASSUME EnterPhase PROVE Fine
  BY <1>4, <1>c DEF EnterPhase, Context, Position, Index, Within
<1>5. ASSUME PhaseEnds PROVE Fine
  BY <1>5, <1>b, <1>c DEF PhaseEnds, NextRuleset, Context, Within, r
<1>6. ASSUME EnterList PROVE Fine
  <2>1. pos.l \in Index
    BY <1>f, Moves
  <2>2. /\ [ctx EXCEPT !.li = pos.l] \in Context /\ [ctx EXCEPT !.li = pos.l].rs = r
        /\ [ctx EXCEPT !.li = pos.l].rule.ru \in Index
    BY <1>e, <2>1 DEF Context, RuleContext, r
  <2>3. /\ pos' \in Position
        /\ at' = "list" => pos'.l = pos.l
        /\ ctx' = [ctx EXCEPT !.li = pos.l] /\ at' \in {"list", "phase"}
        /\ UNCHANGED <<conf, gen, off, known, wake>>
    BY <1>6, <1>e, <1>f, <2>2, Moves DEF EnterList
  <2>4. pos.l \in DOMAIN conf[r]
    BY <1>6, <1>b, <2>1 DEF EnterList, Index
  <2> QED
    BY <1>c, <2>2, <2>3, <2>4 DEF Within, r
<1>7. ASSUME ListEnds PROVE Fine
  <2>1. [ctx EXCEPT !.rule.ru = 1] \in Context
    BY <1>e DEF Context, RuleContext
  <2> QED
    BY <1>7, <1>c, <1>f, <2>1, Moves DEF ListEnds, Within
<1>8. ASSUME DisabledRule PROVE Fine
  <2>1. [ctx EXCEPT !.rule.ru = pos.q] \in Context /\ [ctx EXCEPT !.rule.ru = pos.q].rs = r
    BY <1>e, <1>f, Moves DEF Context, RuleContext, r
  <2> QED
    BY <1>8, <1>c, <1>f, <2>1, Moves DEF DisabledRule, AtRule, Within, r
<1>9. AtRule => pos.l \in DOMAIN conf[r] /\ pos.q \in DOMAIN conf[r][pos.l]
  BY RuleIsThere
<1>10. /\ Checked \in Context /\ Checked.rs = r
       /\ Checked.rule \in RuleContext /\ Checked.rule.ac \in Index
  BY CheckedContext DEF r
<1>11. ASSUME NEW c \in Context, c.rs = r, AtRule, Acts(c) PROVE Fine
  <2>1. c.rule.ac \in Index
    BY <1>11 DEF Context, RuleContext
  <2> DEFINE n == IF c.nocheck THEN 1 ELSE c.rule.ac
  <2>2. n \in Index
    BY <1>e, <2>1
  <2>3. /\ pos' = [pos EXCEPT !.a = n]
        /\ UNCHANGED <<conf, gen, off, known, wake>> /\ ctx' = c /\ at' = "action"
    BY <1>11 DEF Acts
  <2> HIDE DEF n
  <2>4. pos' \in Position /\ pos'.l = pos.l /\ pos'.q = pos.q
    BY <1>f, <2>2, <2>3, Moves
  <2> QED
    BY <1>11, <1>9, <1>c, <2>3, <2>4 DEF Within, r
<1>12. ASSUME Concludes PROVE Fine
  <2>1. AtRule /\ RuleAt(ThisRule).holds \in BOOLEAN
    BY <1>12, <1>9, <1>b, Places DEF Concludes, RuleAt, ThisRule, Rule
  <2> DEFINE c == [Checked EXCEPT !.rule.done = TRUE,
                                  !.rule.true = RuleAt(ThisRule).holds,
                                  !.rule.stack = IF RuleAt(ThisRule).kind = "plain" \/ @ = <<>>
                                                 THEN @ ELSE Tail(@)]
             s == Checked.rule.stack
  <2>2. s \in Seq(Mark) /\ (s # <<>> => Tail(s) \in Seq(Mark))
    <3>1. s \in Seq(Mark)
      BY <1>10, <2>1 DEF RuleContext
    <3> QED
      BY <3>1, HeadTailProperties
  <2>3. c \in Context /\ c.rs = r
    BY <1>10, <2>1, <2>2 DEF Context, RuleContext
  <2>4. Acts(c)
    BY <1>12 DEF Concludes
  <2> QED
    BY <1>11, <2>1, <2>3, <2>4
<1>13. ASSUME DoneBefore PROVE Fine
  BY <1>13, <1>10, <1>11 DEF DoneBefore
<1>14. ASSUME Defers PROVE Fine
  <2>1. AtRule /\ ctx' \in Context
    BY <1>14, <1>9, DefersSaves, Saves DEF Defers
  <2> QED
    BY <1>14, <1>c, <2>1 DEF Defers, Within
<1>15. ASSUME Tag \/ WaitEnds PROVE Fine
  <2>1. [ctx EXCEPT !.rule.data = FALSE] \in Context /\ [ctx EXCEPT !.rule.data = FALSE].rs = r
    BY <1>e DEF Context, RuleContext, r
  <2>2. NextAction /\ at = "action"
    BY <1>15 DEF Tag, WaitEnds, AtAction
  <2> QED
    BY <1>c, <1>f, <2>1, <2>2, Moves DEF NextAction, Within, r
<1>16. ASSUME WaitStarts PROVE Fine
  <2>1. at = "action" /\ ctx' \in Context
    BY <1>16, WaitSaves, Saves DEF WaitStarts, AtAction, Within
  <2> QED
    BY <1>16, <1>c, <2>1 DEF WaitStarts, Within
<1>17. ASSUME Decide PROVE Fine
  BY <1>17, <1>c DEF Decide, Within
<1>18. ASSUME ActionsEnd PROVE Fine
  <2> DEFINE c == [ctx EXCEPT !.rule.done = FALSE, !.rule.true = FALSE]
  <2>1. c \in Context /\ c.rs = r
    BY <1>e DEF Context, RuleContext, r
  <2> QED
    BY <1>18, <1>c, <1>f, <2>1, Moves DEF ActionsEnd, Within, r
<1>19. ASSUME Close PROVE Fine
  <2>1. [ctx EXCEPT !.rule.stack = <<>>] \in Context
    BY <1>e, EmptySeq DEF Context, RuleContext
  <2> QED
    BY <1>19, <1>c, <2>1 DEF Close, Within
<1>20. ASSUME Refused PROVE Fine
  <2>1. CASE at = "ruleset" /\ r \in known /\ Suspend(RulesetDeferred(ctx), "none")
    BY <2>1, <1>c, Saves DEF Within
  <2>2. CASE at = "enter" /\ Suspend(RulesetDeferred([ctx EXCEPT !.phGen = 0]), "none")
    <3>1. [ctx EXCEPT !.phGen = 0] \in Context
      BY <1>e DEF Context, Generation
    <3> QED
      BY <2>2, <3>1, <1>c, Saves DEF Within
  <2>3. CASE at = "phase" /\ Suspend(PhaseDeferred([ctx EXCEPT !.li = pos.l, !.liGen = 0]), "none")
    <3>1. [ctx EXCEPT !.li = pos.l, !.liGen = 0] \in Context
      BY <1>e, <1>f, Moves DEF Context, Generation
    <3> QED
      BY <2>3, <3>1, <1>c, Saves DEF Within
  <2>4. CASE AtRule /\ Suspend(ListDeferred([ctx EXCEPT !.rule.ru = pos.q]), "none")
    <3>1. [ctx EXCEPT !.rule.ru = pos.q] \in Context
      BY <1>e, <1>f, Moves DEF Context, RuleContext
    <3> QED
      BY <2>4, <3>1, <1>9, <1>c, Saves DEF Within
  <2> QED
    BY <1>20, <2>1, <2>2, <2>3, <2>4 DEF Refused
<1>21. CASE UNCHANGED vars
  <2>1. Fine
    BY <1>21, <1>c DEF vars, Within, r
  <2> QED
    BY <1>a, <2>1
<1>22. CASE Next
  <2> HIDE DEF Fine
  <2> QED
    BY <1>1, <1>2, <1>3, <1>4, <1>5, <1>6, <1>7, <1>8, <1>12, <1>13, <1>14, <1>15, <1>16,
       <1>17, <1>18, <1>19, <1>20, <1>22, <1>a, UpdateTypes DEF Next, Evaluate
<1> QED
  BY <1>21, <1>22

\* Init establishes it.
LEMMA TypeInit == Init => TypeOK /\ Within
<1> SUFFICES ASSUME Init PROVE TypeOK /\ Within
  OBVIOUS
<1>1. conf \in Seq(Seq(Seq(Rule))) \ {<<>>}
  BY EvaluationAssumption DEF Init
<1>2. 1 \in DOMAIN conf
  BY <1>1, EmptySeq, LenProperties
<1>3. gen \in [DOMAIN gen -> Nat] /\ DOMAIN gen = Elements(conf)
  BY DEF Init
<1>4. off \subseteq DOMAIN gen /\ known \subseteq DOMAIN conf
  BY <1>3 DEF Init, Disableable
<1>5. ctx \in Context
  <2>1. Zeroed \in RuleContext
    BY EmptySeq DEF Zeroed, RuleContext, Index
  <2> QED
    BY <1>2, <2>1 DEF Init, NewContext, Context, Generation, Index
<1> QED
  BY <1>1, <1>3, <1>4, <1>5 DEF Init, TypeOK, Within, Place, Position, Index, Wakes

-----------------------------------------------------------------------------
(* The phase of the only ruleset.                                          *)

\* Nobody calls the handler again.
Halted == at = "closed" \/ (at = "suspended" /\ wake = "none")

\* The list that a request is in is there as long as the phase has the generation
\* that the request saved: it was there when the place was saved, and whoever
\* takes it away changes the generation.
SavedList ==
  /\ at \in {"list", "action"} => ctx.li = pos.l
  /\ Len(conf) = 1 =>
       /\ at # "aborted"
       /\ ctx.phGen <= gen[<<1, 0>>]
       /\ ctx.phGen = gen[<<1, 0>>] /\ ~Halted => ctx.li \in DOMAIN conf[1]

\* SavedList holds in a new request, which has saved nothing.
LEMMA SavedListInit == Init => SavedList
<1> SUFFICES ASSUME Init PROVE SavedList
  OBVIOUS
<1>1. TypeOK
  BY TypeInit
<1>2. gen[<<1, 0>>] \in Nat
  BY <1>1, Places DEF TypeOK
<1>3. at = "new" /\ ctx.phGen = -1
  BY DEF Init, NewContext, Uninitialised
<1> QED
  BY <1>2, <1>3 DEF SavedList

\* It is kept: what shortens a phase raises its generation, so that a place
\* saved before no longer counts.
LEMMA SavedListStep ==
  TypeOK /\ Within /\ SavedList /\ [Next]_vars => SavedList'
<1> SUFFICES ASSUME TypeOK, Within, SavedList, [Next]_vars PROVE SavedList'
  OBVIOUS
<1>1. /\ ctx \in Context /\ pos \in Position /\ r \in DOMAIN conf
      /\ 1 \in DOMAIN conf /\ Len(conf) = 1 => r = 1
      /\ DOMAIN conf[1] = 1..Len(conf[1]) /\ Len(conf[1]) \in Nat
  BY Places DEF TypeOK, Context, r
<1>2. gen[<<1, 0>>] \in Nat /\ ctx.phGen \in Generation /\ ctx.rule \in RuleContext
  BY <1>1, Places DEF TypeOK, Context
\* An action that neither moves in the phase nor saves a place.
<1>3. ASSUME UNCHANGED <<conf, gen>>, ctx'.phGen = ctx.phGen, ctx'.li = ctx.li,
             at' # "aborted", Halted => Halted',
             at' \in {"list", "action"} => at \in {"list", "action"} /\ pos'.l = pos.l
      PROVE  SavedList'
  BY <1>3 DEF SavedList, Halted
<1> USE DEF Suspend, Goes
<1>4. ASSUME Handle PROVE SavedList'
  <2>1. Woken.phGen = ctx.phGen /\ Woken.li = ctx.li
    BY <1>1 DEF Woken, Context
  <2>2. ctx'.phGen = ctx.phGen /\ ctx'.li = ctx.li
    BY <1>1, <1>4, <2>1 DEF Handle, Woken, Context
  <2> QED
    BY <1>3, <1>4, <2>2 DEF Handle, Halted
<1>5. ASSUME FetchRuleset PROVE SavedList'
  BY <1>1, <1>3, <1>5, Saved DEF FetchRuleset, Halted
<1>6. ASSUME NextRuleset, at \in {"ruleset", "phase"} PROVE SavedList'
  BY <1>1, <1>3, <1>6 DEF NextRuleset, Halted, Context
<1>7. ASSUME EvalRuleset PROVE SavedList'
  BY <1>3, <1>6, <1>7 DEF EvalRuleset, Halted
<1>8. ASSUME EnterPhase PROVE SavedList'
  <2>1. Len(conf) = 1 => at' # "aborted"
    BY <1>1, <1>8 DEF EnterPhase, SavedList, Halted, ThisPhase, Context
  <2> QED
    BY <1>8, <2>1 DEF EnterPhase, SavedList, Halted
<1>9. ASSUME PhaseEnds PROVE SavedList'
  BY <1>6, <1>9 DEF PhaseEnds
<1>10. ASSUME EnterList PROVE SavedList'
  <2>1. ctx'.li = pos.l /\ ctx'.phGen = ctx.phGen
    BY <1>1, <1>10 DEF EnterList, Context
  <2>2. Len(conf) = 1 => pos.l \in DOMAIN conf[1]
    BY <1>1, <1>10 DEF EnterList, Position, Index
  <2>3. at' = "list" => pos'.l = pos.l
    BY <1>1, <1>10 DEF EnterList, Position
  <2> QED
    BY <1>10, <2>1, <2>2, <2>3 DEF EnterList, SavedList, Halted
<1>11. ASSUME ListEnds PROVE SavedList'
  BY <1>1, <1>3, <1>11 DEF ListEnds, Halted, Context
<1>12. ASSUME DisabledRule PROVE SavedList'
  BY <1>1, <1>3, <1>12 DEF DisabledRule, AtRule, Halted, Context, Position
<1>13. Checked \in Context /\ Checked.li = ctx.li /\ Checked.phGen = ctx.phGen
  BY CheckedContext
<1>14. ASSUME Concludes \/ DoneBefore PROVE SavedList'
  BY <1>1, <1>3, <1>13, <1>14 DEF Concludes, DoneBefore, AtRule, Acts, Halted, Context, Position
\* An action that saves the place in the phase.
<1>15. ASSUME NEW c \in Context, c.li = pos.l, pos.l \in DOMAIN conf[r],
              ctx' = PhaseDeferred(c) \/ ctx' = ListDeferred(c),
              at' = "suspended", UNCHANGED <<conf, gen>>
       PROVE  SavedList'
  BY <1>1, <1>2, <1>15, Saved DEF SavedList, ThisPhase
<1>16. at \in {"list", "action"} => ctx.li = pos.l /\ pos.l \in DOMAIN conf[r]
  BY DEF SavedList, Within
<1>17. ASSUME Defers PROVE SavedList'
  <2>1. at = "list" /\ at' = "suspended" /\ UNCHANGED <<conf, gen>>
    BY <1>17 DEF Defers, AtRule
  <2> QED
    BY <1>15, <1>16, <1>17, <2>1, DefersSaves
<1>18. ASSUME Tag \/ WaitEnds \/ Decide \/ ActionsEnd PROVE SavedList'
  BY <1>1, <1>3, <1>18 DEF Tag, WaitEnds, Decide, ActionsEnd, AtAction, NextAction, Halted, Context, Position
<1>19. ASSUME WaitStarts PROVE SavedList'
  <2>1. at = "action" /\ at' = "suspended" /\ UNCHANGED <<conf, gen>>
    BY <1>19 DEF WaitStarts, AtAction
  <2> QED
    BY <1>15, <1>16, <1>19, <2>1, WaitSaves
<1>20. ASSUME Close PROVE SavedList'
  BY <1>1, <1>20 DEF Close, SavedList, Halted, Context
<1>21. ASSUME NEW e \in Elements(conf), Update(e) PROVE SavedList'
  <2>1. UNCHANGED <<ctx, at, pos, wake>> /\ Len(conf') = Len(conf)
    BY <1>21, Smaller DEF Update
  <2>2. CASE e = <<1, 0>>
    <3>1. gen'[<<1, 0>>] = gen[<<1, 0>>] + 1
      BY <1>1, <1>21, <2>2, Places DEF Update, TypeOK
    <3> QED
      BY <1>2, <2>1, <3>1 DEF SavedList, Generation, Uninitialised
  <2>3. CASE e # <<1, 0>>
    <3>1. gen'[<<1, 0>>] = gen[<<1, 0>>] /\ DOMAIN conf'[1] = DOMAIN conf[1]
      BY <1>1, <1>21, <2>3, Smaller, Places DEF Update, TypeOK
    <3> QED
      BY <2>1, <3>1 DEF SavedList, Halted
  <2> QED
    BY <2>2, <2>3
<1>22. ASSUME Refused PROVE SavedList'
  <2>1. at' = "suspended" /\ wake' = "none" /\ UNCHANGED <<conf, gen>>
    BY <1>22 DEF Refused
  <2>2. [ctx EXCEPT !.phGen = 0] \in Context /\ [ctx EXCEPT !.phGen = 0].phGen = 0
    BY <1>1 DEF Context, Generation
  <2>3. /\ [ctx EXCEPT !.li = pos.l, !.liGen = 0] \in Context
        /\ [ctx EXCEPT !.rule.ru = pos.q] \in Context
    BY <1>1, Moves DEF Context, RuleContext, Generation
  <2>4. ctx'.phGen = ctx.phGen \/ ctx'.phGen = 0 \/ ctx'.phGen = gen[ThisPhase]
    <3>1. CASE ctx' = RulesetDeferred(ctx)
      BY <1>1, <3>1, Saved
    <3>2. CASE ctx' = RulesetDeferred([ctx EXCEPT !.phGen = 0])
      BY <2>2, <3>2, Saved
    <3>3. CASE ctx' = PhaseDeferred([ctx EXCEPT !.li = pos.l, !.liGen = 0])
      BY <2>3, <3>3, Saved
    <3>4. CASE ctx' = ListDeferred([ctx EXCEPT !.rule.ru = pos.q])
      BY <2>3, <3>4, Saved
    <3> QED
      BY <1>22, <3>1, <3>2, <3>3, <3>4 DEF Refused
  <2>5. Len(conf) = 1 => ctx'.phGen <= gen[<<1, 0>>]
    BY <1>1, <1>2, <2>4 DEF SavedList, ThisPhase
  <2> QED
    BY <2>1, <2>5 DEF SavedList, Halted
<1>23. CASE UNCHANGED vars
  BY <1>23 DEF vars, SavedList, Halted
<1> QED
  BY <1>4, <1>5, <1>7, <1>8, <1>9, <1>10, <1>11, <1>12, <1>14, <1>17, <1>18, <1>19, <1>20,
     <1>21, <1>22, <1>23 DEF Next, Evaluate

\* Types are right, and a worker in a list or at a rule finds it (what a request
\* has reserved is not updated).
THEOREM EvaluationTypes == Spec => [](TypeOK /\ Within)
<1>1. TypeOK /\ Within /\ [Next]_vars => (TypeOK /\ Within)'
  BY TypeStep
<1>2. Init => TypeOK /\ Within
  BY TypeInit
<1> QED
  BY <1>1, <1>2, PTL DEF Spec

\* Where there is only one ruleset, its phase is never resumed beyond its end:
\* the assertion of wfx_phase_eval holds, whatever is updated while requests wait.
THEOREM PhaseResumes == Spec => []OnePhaseResumes
<1>1. Init => TypeOK /\ Within /\ SavedList
  BY TypeInit, SavedListInit
<1>2. TypeOK /\ Within /\ SavedList /\ [Next]_vars => (TypeOK /\ Within /\ SavedList)'
  BY TypeStep, SavedListStep
<1>3. SavedList => OnePhaseResumes
  BY DEF SavedList, OnePhaseResumes
<1> QED
  BY <1>1, <1>2, <1>3, PTL DEF Spec

-----------------------------------------------------------------------------
(* Nothing twice and nothing out of order.                                 *)

\* What happens has a place: the ruleset, the list, the rule and the action.
Item == Nat \X Nat \X Nat \X Nat

\* What has not happened yet is not before this place.
Frontier ==
  <<r,
    IF at \in {"phase", "list", "action"} THEN pos.l ELSE IF ctx.nocheck THEN 0 ELSE ctx.li,
    IF at \in {"list", "action"} THEN pos.q ELSE IF ctx.nocheck THEN 0 ELSE ctx.rule.ru,
    IF at = "action" THEN pos.a
    ELSE IF ctx.nocheck \/ ~ctx.rule.done THEN 0 ELSE ctx.rule.ac>>

Running == at \in {"ruleset", "enter", "phase", "list", "action"}
Waits == at = "suspended" /\ wake \in {"delay", "wait", "answer"}

\* While nothing is updated, the generations that a request has saved are those
\* of the elements, and it goes on where it was.
Resumable ==
  /\ ctx.rule.ruGen = 0
  /\ (Running /\ ~ctx.nocheck) \/ Waits => ctx.phGen = 0 /\ ctx.liGen = 0
  /\ at \in {"enter", "phase", "list", "action"} \/ Waits => r \in known
  /\ Waits => ctx.kept /\ ~ctx.nocheck /\ ctx.rsGen = 0
  /\ at = "action" => ctx.rule.ru = pos.q /\ ctx.rule.done
  /\ at = "new" => ctx.nocheck /\ ran = <<>> /\ wake = "none"

Sequential ==
  /\ ran \in Seq(Item)
  /\ Untouched =>
       /\ Resumable
       /\ \A i, j \in DOMAIN ran : i < j => Before(ran[i], ran[j])
       /\ Running \/ Waits => \A i \in DOMAIN ran : Before(ran[i], Frontier)

\* Before is the lexicographic order.
LEMMA Lexicographic ==
  ASSUME NEW p \in Item, NEW o \in Item
  PROVE  Before(p, o) <=>
           \/ p[1] < o[1]
           \/ p[1] = o[1] /\ p[2] < o[2]
           \/ p[1] = o[1] /\ p[2] = o[2] /\ p[3] < o[3]
           \/ p[1] = o[1] /\ p[2] = o[2] /\ p[3] = o[3] /\ p[4] < o[4]
<1> DEFINE First(i) == p[i] < o[i] /\ \A j \in 1..(i - 1) : p[j] = o[j]
<1>1. Before(p, o) <=> First(1) \/ First(2) \/ First(3) \/ First(4)
  <2>1. 1..4 = {1, 2, 3, 4}
    OBVIOUS
  <2> QED
    BY <2>1 DEF Before
<1>2. First(1) <=> p[1] < o[1]
  OBVIOUS
<1>3. First(2) <=> p[1] = o[1] /\ p[2] < o[2]
  <2>1. \A j : j \in 1..(2 - 1) <=> j = 1
    OBVIOUS
  <2> QED
    BY <2>1
<1>4. First(3) <=> p[1] = o[1] /\ p[2] = o[2] /\ p[3] < o[3]
  <2>1. \A j : j \in 1..(3 - 1) <=> j = 1 \/ j = 2
    OBVIOUS
  <2> QED
    BY <2>1
<1>5. First(4) <=> p[1] = o[1] /\ p[2] = o[2] /\ p[3] = o[3] /\ p[4] < o[4]
  <2>1. \A j : j \in 1..(4 - 1) <=> j = 1 \/ j = 2 \/ j = 3
    OBVIOUS
  <2> QED
    BY <2>1
<1> QED
  BY <1>1, <1>2, <1>3, <1>4, <1>5

\* And it is transitive.
LEMMA Transitive ==
  ASSUME NEW p \in Item, NEW o \in Item, NEW t \in Item, Before(p, o), Before(o, t)
  PROVE  Before(p, t)
<1>1. \A x \in {p, o, t} : x[1] \in Nat /\ x[2] \in Nat /\ x[3] \in Nat /\ x[4] \in Nat
  BY DEF Item
<1> QED
  BY <1>1, Lexicographic

\* The numbers that the frontier is made of.
LEMMA Numbers ==
  ASSUME TypeOK
  PROVE  /\ r \in DOMAIN conf /\ r \in Nat
         /\ pos.l \in Nat \ {0} /\ pos.q \in Nat \ {0} /\ pos.a \in Nat \ {0}
         /\ ctx.li \in Nat \ {0} /\ ctx.rule.ru \in Nat \ {0} /\ ctx.rule.ac \in Nat \ {0}
         /\ ctx.nocheck \in BOOLEAN /\ ctx.rule.done \in BOOLEAN
         /\ Frontier \in Item
<1>1. r \in DOMAIN conf /\ r \in Nat
  BY Places DEF TypeOK, Context, r
<1>2. pos.l \in Nat \ {0} /\ pos.q \in Nat \ {0} /\ pos.a \in Nat \ {0}
  BY DEF TypeOK, Position, Index
<1>3. /\ ctx.li \in Nat \ {0} /\ ctx.rule.ru \in Nat \ {0} /\ ctx.rule.ac \in Nat \ {0}
      /\ ctx.nocheck \in BOOLEAN /\ ctx.rule.done \in BOOLEAN
  BY DEF TypeOK, Context, RuleContext, Index
<1>4. Frontier \in Item
  BY <1>1, <1>2, <1>3 DEF Frontier, Item
<1> QED
  BY <1>1, <1>2, <1>3, <1>4

\* The frontier is a place.
LEMMA FrontierType == TypeOK => Frontier \in Item
  BY Numbers

\* A step that does nothing but go on.
LEMMA GoesOn ==
  ASSUME TypeOK, TypeOK', Sequential, UNCHANGED <<gen, ran>>,
         Untouched =>
           /\ Resumable'
           /\ Running' \/ Waits' =>
                /\ Running \/ Waits
                /\ Frontier' = Frontier \/ Before(Frontier, Frontier')
  PROVE  Sequential'
<1>1. Frontier \in Item /\ Frontier' \in Item
  <2>1. (TypeOK => Frontier \in Item)'
    BY FrontierType, PTL
  <2> QED
    BY <2>1, FrontierType
<1>2. ran \in Seq(Item) /\ \A i \in DOMAIN ran : ran[i] \in Item
  BY LenProperties, ElementOfSeq DEF Sequential
<1> SUFFICES ASSUME Untouched'
             PROVE  /\ \A i, j \in DOMAIN ran : i < j => Before(ran[i], ran[j])
                    /\ Running' \/ Waits' => \A i \in DOMAIN ran : Before(ran[i], Frontier')
  BY <1>2 DEF Sequential, Untouched
<1>3. Untouched
  BY DEF Untouched
<1>4. ASSUME Running' \/ Waits', NEW i \in DOMAIN ran PROVE Before(ran[i], Frontier')
  <2>1. Before(ran[i], Frontier)
    BY <1>3, <1>4 DEF Sequential
  <2> QED
    BY <1>1, <1>2, <1>3, <1>4, <2>1, Transitive
<1> QED
  BY <1>3, <1>4 DEF Sequential

\* A step that does what is due.
LEMMA Does ==
  ASSUME TypeOK, TypeOK', Sequential, UNCHANGED gen,
         NEW item \in Item, ran' = Append(ran, item), Running, ~Waits',
         Untouched =>
           /\ item = Frontier
           /\ Resumable'
           /\ Running' => Before(Frontier, Frontier')
  PROVE  Sequential'
<1>1. Frontier \in Item /\ Frontier' \in Item
  <2>1. (TypeOK => Frontier \in Item)'
    BY FrontierType, PTL
  <2> QED
    BY <2>1, FrontierType
<1>2. /\ ran \in Seq(Item) /\ Len(ran) \in Nat /\ DOMAIN ran = 1..Len(ran)
      /\ \A i \in DOMAIN ran : ran[i] \in Item
  BY LenProperties, ElementOfSeq DEF Sequential
<1>3. /\ ran' \in Seq(Item) /\ DOMAIN ran' = 1..(Len(ran) + 1)
      /\ \A i \in DOMAIN ran : ran'[i] = ran[i]
      /\ ran'[Len(ran) + 1] = item
  BY <1>2
<1> SUFFICES ASSUME Untouched'
             PROVE  /\ \A i, j \in DOMAIN ran' : i < j => Before(ran'[i], ran'[j])
                    /\ Running' => \A i \in DOMAIN ran' : Before(ran'[i], Frontier')
  BY <1>3 DEF Sequential, Untouched
<1>4. Untouched /\ item = Frontier
  BY DEF Untouched
<1>5. \A i \in DOMAIN ran : Before(ran[i], item)
  BY <1>4 DEF Sequential
<1>6. ASSUME NEW i \in DOMAIN ran', NEW j \in DOMAIN ran', i < j
      PROVE  Before(ran'[i], ran'[j])
  <2>1. i \in DOMAIN ran /\ (j \in DOMAIN ran \/ j = Len(ran) + 1)
    BY <1>2, <1>3, <1>6
  <2> QED
    BY <1>3, <1>4, <1>5, <1>6, <2>1 DEF Sequential
<1>7. ASSUME Running', NEW i \in DOMAIN ran' PROVE Before(ran'[i], Frontier')
  <2>1. Before(item, Frontier')
    BY <1>4, <1>7
  <2>2. i \in DOMAIN ran \/ i = Len(ran) + 1
    BY <1>2, <1>3
  <2> QED
    BY <1>1, <1>2, <1>3, <1>5, <2>1, <2>2, Transitive
<1> QED
  BY <1>6, <1>7
\* The parts of the frontier.
LEMMA FrontierParts ==
  /\ Frontier[1] = r
  /\ Frontier[2] = IF at \in {"phase", "list", "action"} THEN pos.l
                   ELSE IF ctx.nocheck THEN 0 ELSE ctx.li
  /\ Frontier[3] = IF at \in {"list", "action"} THEN pos.q
                   ELSE IF ctx.nocheck THEN 0 ELSE ctx.rule.ru
  /\ Frontier[4] = IF at = "action" THEN pos.a
                   ELSE IF ctx.nocheck \/ ~ctx.rule.done THEN 0 ELSE ctx.rule.ac
  BY DEF Frontier

\* It moves by a part if those before it stay.
LEMMA FrontierMoves ==
  ASSUME TypeOK, TypeOK',
         \/ Frontier[1] < Frontier'[1]
         \/ Frontier[1] = Frontier'[1] /\ Frontier[2] < Frontier'[2]
         \/ Frontier[1] = Frontier'[1] /\ Frontier[2] = Frontier'[2] /\ Frontier[3] < Frontier'[3]
         \/ /\ Frontier[1] = Frontier'[1] /\ Frontier[2] = Frontier'[2] /\ Frontier[3] = Frontier'[3]
            /\ Frontier[4] < Frontier'[4]
  PROVE  Before(Frontier, Frontier')
<1>1. (TypeOK => Frontier \in Item)'
  BY FrontierType, PTL
<1> QED
  BY <1>1, FrontierType, Lexicographic

\* It may also stay where it is.
LEMMA FrontierGoesOn ==
  ASSUME TypeOK, TypeOK',
         \/ Frontier[1] < Frontier'[1]
         \/ Frontier[1] = Frontier'[1] /\ Frontier[2] < Frontier'[2]
         \/ Frontier[1] = Frontier'[1] /\ Frontier[2] = Frontier'[2] /\ Frontier[3] < Frontier'[3]
         \/ /\ Frontier[1] = Frontier'[1] /\ Frontier[2] = Frontier'[2] /\ Frontier[3] = Frontier'[3]
            /\ Frontier[4] < Frontier'[4] \/ Frontier[4] = Frontier'[4]
  PROVE  Frontier' = Frontier \/ Before(Frontier, Frontier')
<1>1. ASSUME Frontier[1] = Frontier'[1], Frontier[2] = Frontier'[2], Frontier[3] = Frontier'[3],
             Frontier[4] = Frontier'[4]
      PROVE  Frontier' = Frontier
  BY <1>1 DEF Frontier
<1> QED
  BY <1>1, FrontierMoves

\* Where nothing was updated, every generation is 0.
LEMMA Zero ==
  ASSUME TypeOK, Within, Untouched
  PROVE  /\ gen[<<r>>] = 0 /\ gen[ThisPhase] = 0
         /\ pos.l \in DOMAIN conf[r] => gen[ThisList] = 0
         /\ AtRule \/ at = "action" => gen[ThisRule] = 0
<1>1. <<r>> \in DOMAIN gen /\ ThisPhase \in DOMAIN gen
  BY Places, Numbers DEF ThisPhase
<1>2. pos.l \in DOMAIN conf[r] => ThisList \in DOMAIN gen
  BY Places, Numbers DEF ThisList
<1> QED
  BY <1>1, <1>2, RuleIsThere DEF Untouched

\* Every step keeps what was done in order and before the frontier.
LEMMA SequentialStep ==
  TypeOK /\ Within /\ SavedList /\ Sequential /\ [Next]_vars => Sequential'
<1> SUFFICES ASSUME TypeOK, Within, SavedList, Sequential, [Next]_vars PROVE Sequential'
  OBVIOUS
<1>1. TypeOK'
  BY TypeStep
<1>2. ctx \in Context /\ pos \in Position /\ wake \in Wakes /\ at \in Place
  BY DEF TypeOK
<1>3. Untouched => Resumable
  BY DEF Sequential
<1>4. at \in {"list", "action"} => ctx.li = pos.l
  BY DEF SavedList
<1>a. Frontier'[1] = r' /\ Frontier'[2] = (IF at' \in {"phase", "list", "action"} THEN pos'.l
                                           ELSE IF ctx'.nocheck THEN 0 ELSE ctx'.li)
  BY DEF Frontier
<1>b. /\ Frontier'[3] = (IF at' \in {"list", "action"} THEN pos'.q
                         ELSE IF ctx'.nocheck THEN 0 ELSE ctx'.rule.ru)
      /\ Frontier'[4] = (IF at' = "action" THEN pos'.a
                         ELSE IF ctx'.nocheck \/ ~ctx'.rule.done THEN 0 ELSE ctx'.rule.ac)
  BY DEF Frontier
<1> USE DEF Suspend, Goes
<1>5. ASSUME FetchRuleset PROVE Sequential'
  <2>1. /\ at' = "suspended" /\ wake' = "fetch" /\ UNCHANGED <<gen, ran>>
        /\ ctx'.rule = ctx.rule
    BY <1>2, <1>5, Saved DEF FetchRuleset
  <2>2. Untouched => Resumable'
    BY <1>3, <2>1 DEF Resumable, Running, Waits
  <2> QED
    BY <1>1, <2>1, <2>2, GoesOn DEF Running, Waits
<1>6. ASSUME NextRuleset, UNCHANGED ran, at \in {"ruleset", "phase"} PROVE Sequential'
  <2>1. CASE r = Len(conf)
    <3>1. at' = "pass" /\ UNCHANGED <<ctx, known, gen, ran>>
      BY <1>6, <2>1 DEF NextRuleset
    <3>2. Untouched => Resumable'
      BY <1>3, <3>1 DEF Resumable, Running, Waits
    <3> QED
      BY <1>1, <3>1, <3>2, GoesOn DEF Running, Waits
  <2>2. CASE r # Len(conf)
    <3>1. /\ at' = "ruleset" /\ UNCHANGED <<known, gen, ran>>
          /\ ctx' = [ctx EXCEPT !.rs = ctx.rs + 1]
      BY <1>6, <2>2 DEF NextRuleset, r
    <3>2. /\ ctx'.rs = r + 1 /\ ctx'.nocheck = ctx.nocheck /\ ctx'.rule = ctx.rule
          /\ ctx'.phGen = ctx.phGen /\ ctx'.liGen = ctx.liGen /\ ctx'.li = ctx.li
      BY <1>2, <3>1 DEF Context, r
    <3>3. Untouched => Resumable'
      BY <1>3, <1>6, <3>1, <3>2 DEF Resumable, Running, Waits
    <3>4. Frontier[1] < Frontier'[1]
      BY <3>2, <1>a, FrontierParts, Numbers DEF r
    <3> QED
      BY <1>1, <1>6, <3>1, <3>3, <3>4, FrontierGoesOn, GoesOn DEF Running, Waits
  <2> QED
    BY <2>1, <2>2
<1>7. ASSUME EvalRuleset PROVE Sequential'
  <2>1. CASE <<r>> \in off
    BY <1>6, <1>7, <2>1 DEF EvalRuleset
  <2>2. CASE <<r>> \notin off
    <3>1. /\ at = "ruleset" /\ at' = "enter" /\ r \in known
          /\ UNCHANGED <<ctx, pos, gen, known, ran>>
      BY <1>7, <2>2 DEF EvalRuleset
    <3>2. Untouched => Resumable'
      BY <1>3, <3>1 DEF Resumable, Running, Waits, r
    <3>3. Frontier' = Frontier
      BY <3>1 DEF Frontier, r
    <3> QED
      BY <1>1, <3>1, <3>2, <3>3, GoesOn DEF Running, Waits
  <2> QED
    BY <2>1, <2>2
<1>8. ASSUME EnterPhase PROVE Sequential'
  <2>1. at = "enter" /\ UNCHANGED <<ctx, gen, known, ran>>
    BY <1>8 DEF EnterPhase
  <2>2. CASE at' = "aborted"
    <3>1. Untouched => Resumable'
      BY <1>3, <2>1, <2>2 DEF Resumable, Running, Waits
    <3> QED
      BY <1>1, <2>1, <2>2, <3>1, GoesOn DEF Running, Waits
  <2>3. CASE at' = "phase"
    <3>1. Untouched => Resumable'
      BY <1>3, <2>1, <2>3 DEF Resumable, Running, Waits, r
    <3>2. ASSUME Untouched PROVE pos'.l = IF ctx.nocheck THEN 1 ELSE ctx.li
      <4>1. gen[ThisPhase] = 0 /\ (~ctx.nocheck => ctx.phGen = 0)
        BY <1>3, <2>1, <3>2, Zero DEF Resumable, Running
      <4> QED
        BY <1>2, <1>8, <2>3, <4>1 DEF EnterPhase, Position
    <3>3. ASSUME Untouched PROVE Frontier' = Frontier \/ Before(Frontier, Frontier')
      BY <1>1, <1>a, <1>b, <2>1, <2>3, <3>2, <3>3, FrontierParts, FrontierGoesOn, Numbers DEF r
    <3> QED
      BY <1>1, <2>1, <3>1, <3>3, GoesOn DEF Running
  <2> QED
    BY <1>8, <2>2, <2>3 DEF EnterPhase
<1>9. ASSUME PhaseEnds PROVE Sequential'
  BY <1>6, <1>9 DEF PhaseEnds
<1>10. ASSUME EnterList PROVE Sequential'
  <2>1. /\ at = "phase" /\ pos.l \in DOMAIN conf[r] /\ UNCHANGED <<gen, known, ran>>
        /\ ctx' = [ctx EXCEPT !.li = pos.l] /\ at' \in {"phase", "list"}
    BY <1>10, Places, Numbers DEF EnterList
  <2>2. /\ ctx'.rs = ctx.rs /\ ctx'.rule = ctx.rule /\ ctx'.nocheck = ctx.nocheck
        /\ ctx'.phGen = ctx.phGen /\ ctx'.liGen = ctx.liGen /\ ctx'.li = pos.l
    BY <1>2, <2>1 DEF Context
  <2>3. Untouched => Resumable'
    BY <1>3, <2>1, <2>2 DEF Resumable, Running, Waits, r
  <2>4. CASE at' = "phase"
    <3>1. pos'.l = pos.l + 1
      BY <1>2, <1>10, <2>4 DEF EnterList, Position
    <3>2. Frontier[1] = Frontier'[1] /\ Frontier[2] < Frontier'[2]
      BY <1>a, <2>1, <2>2, <2>4, <3>1, FrontierParts, Numbers DEF r
    <3> QED
      BY <1>1, <2>1, <2>3, <3>2, FrontierGoesOn, GoesOn DEF Running
  <2>5. CASE at' = "list"
    <3>1. ASSUME Untouched
          PROVE  pos'.l = pos.l /\ pos'.q = IF ctx.nocheck THEN 1 ELSE ctx.rule.ru
      <4>1. gen[ThisList] = 0 /\ (~ctx.nocheck => ctx.liGen = 0)
        BY <1>3, <2>1, <3>1, Zero DEF Resumable, Running
      <4>2. pos' = [pos EXCEPT !.q = IF ~ctx'.nocheck /\ ctx'.liGen = gen[ThisList]
                                     THEN ctx'.rule.ru ELSE 1]
        BY <1>10, <2>1, <2>5 DEF EnterList
      <4> QED
        BY <1>2, <2>2, <4>1, <4>2 DEF Position
    <3>2. ASSUME Untouched PROVE Frontier' = Frontier \/ Before(Frontier, Frontier')
      BY <1>1, <1>a, <1>b, <2>1, <2>2, <2>5, <3>1, <3>2, FrontierParts, FrontierGoesOn, Numbers DEF r
    <3> QED
      BY <1>1, <2>1, <2>3, <3>2, GoesOn DEF Running
  <2> QED
    BY <2>1, <2>4, <2>5
<1>11. ASSUME ListEnds PROVE Sequential'
  <2>1. /\ at = "list" /\ at' = "phase" /\ UNCHANGED <<gen, known, ran>>
        /\ ctx'.rs = ctx.rs /\ ctx'.rule.ruGen = ctx.rule.ruGen /\ ctx'.nocheck = ctx.nocheck
        /\ ctx'.phGen = ctx.phGen /\ ctx'.liGen = ctx.liGen
        /\ pos'.l = pos.l + 1
    BY <1>2, <1>11 DEF ListEnds, Context, RuleContext, Position
  <2>2. Untouched => Resumable'
    BY <1>3, <2>1 DEF Resumable, Running, Waits, r
  <2>3. Frontier[1] = Frontier'[1] /\ Frontier[2] < Frontier'[2]
    BY <1>a, <2>1, FrontierParts, Numbers DEF r
  <2> QED
    BY <1>1, <2>1, <2>2, <2>3, FrontierGoesOn, GoesOn DEF Running
\* What deferred and what is done in a rule that was not updated.
<1>12. ASSUME Untouched, AtRule
       PROVE  /\ Checked.rule.ru = pos.q /\ Checked.rule.ruGen = 0
              /\ Checked.rule.done = ctx.rule.done /\ Checked.rule.ac = ctx.rule.ac
  <2>1. ~Restarts
    BY <1>3, <1>12, Zero DEF Restarts, Resumable
  <2>2. Checked = [ctx EXCEPT !.rule.ru = pos.q]
    BY <2>1, CheckedContext
  <2> QED
    BY <1>2, <1>3, <1>12, <2>2 DEF Context, RuleContext, Resumable
<1>13. AtRule => at = "list" /\ ctx.li = pos.l
  BY <1>4 DEF AtRule
<1>14. ASSUME DisabledRule PROVE Sequential'
  <2>1. /\ at = "list" /\ at' = "list" /\ UNCHANGED <<gen, known, ran>>
        /\ ctx'.rs = ctx.rs /\ ctx'.rule.ruGen = ctx.rule.ruGen /\ ctx'.nocheck = ctx.nocheck
        /\ ctx'.phGen = ctx.phGen /\ ctx'.liGen = ctx.liGen /\ ctx'.li = ctx.li
        /\ pos'.l = pos.l /\ pos'.q = pos.q + 1
    BY <1>2, <1>14 DEF DisabledRule, AtRule, Context, RuleContext, Position
  <2>2. Untouched => Resumable'
    BY <1>3, <2>1 DEF Resumable, Running, Waits, r
  <2>3. Frontier[1] = Frontier'[1] /\ Frontier[2] = Frontier'[2] /\ Frontier[3] < Frontier'[3]
    BY <1>a, <1>b, <2>1, FrontierParts, Numbers DEF r
  <2> QED
    BY <1>1, <2>1, <2>2, <2>3, FrontierGoesOn, GoesOn DEF Running
<1>15. ASSUME Concludes PROVE Sequential'
  <2> DEFINE item == <<r, pos.l, pos.q, 0>>
  <2>1. /\ AtRule /\ (ctx.nocheck \/ ~Checked.rule.done)
        /\ at' = "action" /\ UNCHANGED <<gen, known>> /\ ran' = Append(ran, item)
    BY <1>15 DEF Concludes, Acts
  <2>2. /\ ctx'.rs = ctx.rs /\ ctx'.li = ctx.li /\ ctx'.phGen = ctx.phGen
        /\ ctx'.liGen = ctx.liGen /\ ctx'.nocheck = ctx.nocheck
        /\ ctx'.rule.ru = Checked.rule.ru /\ ctx'.rule.ruGen = Checked.rule.ruGen
        /\ ctx'.rule.done /\ ctx'.rule.ac = Checked.rule.ac
    BY <1>15, CheckedContext DEF Concludes, Acts, Context, RuleContext
  <2>3. /\ pos'.l = pos.l /\ pos'.q = pos.q
        /\ pos'.a = IF ctx.nocheck THEN 1 ELSE Checked.rule.ac
    <3>1. pos' = [pos EXCEPT !.a = IF ctx'.nocheck THEN 1 ELSE ctx'.rule.ac]
      BY <1>15 DEF Concludes, Acts
    <3> QED
      BY <1>2, <2>2, <3>1 DEF Position
  <2>4. item \in Item
    BY Numbers DEF Item
  <2>5. ASSUME Untouched
        PROVE  item = Frontier /\ Resumable' /\ Before(Frontier, Frontier')
    <3>1. item = Frontier
      BY <1>12, <1>13, <2>1, <2>5, Numbers DEF Frontier
    <3>2. Resumable'
      BY <1>3, <1>12, <1>13, <2>1, <2>2, <2>3, <2>5 DEF Resumable, Running, Waits, r
    <3>3. /\ Frontier[1] = Frontier'[1] /\ Frontier[2] = Frontier'[2]
          /\ Frontier[3] = Frontier'[3] /\ Frontier[4] < Frontier'[4]
      BY <1>a, <1>b, <1>12, <1>13, <2>1, <2>2, <2>3, <2>5, FrontierParts, Numbers DEF r
    <3> QED
      BY <1>1, <3>1, <3>2, <3>3, FrontierMoves
  <2> HIDE DEF item
  <2> QED
    BY <1>1, <1>13, <2>1, <2>4, <2>5, Does DEF Running, Waits
<1>16. ASSUME DoneBefore PROVE Sequential'
  <2>1. /\ AtRule /\ ~ctx.nocheck /\ Checked.rule.done
        /\ at' = "action" /\ UNCHANGED <<gen, known, ran>> /\ ctx' = Checked
        /\ pos' = [pos EXCEPT !.a = IF Checked.nocheck THEN 1 ELSE Checked.rule.ac]
    BY <1>16 DEF DoneBefore, Acts
  <2>2. /\ ctx'.rs = ctx.rs /\ ctx'.li = ctx.li /\ ctx'.phGen = ctx.phGen
        /\ ctx'.liGen = ctx.liGen /\ ctx'.nocheck = ctx.nocheck
    BY <2>1, CheckedContext
  <2>3. pos'.l = pos.l /\ pos'.q = pos.q /\ pos'.a = Checked.rule.ac
    BY <1>2, <2>1, <2>2 DEF Position
  <2>4. ASSUME Untouched
        PROVE  Resumable' /\ (Frontier' = Frontier \/ Before(Frontier, Frontier'))
    <3>1. Resumable'
      BY <1>3, <1>12, <1>13, <2>1, <2>2, <2>3, <2>4 DEF Resumable, Running, Waits, r
    <3>2. /\ Frontier[1] = Frontier'[1] /\ Frontier[2] = Frontier'[2]
          /\ Frontier[3] = Frontier'[3] /\ Frontier[4] = Frontier'[4]
      BY <1>a, <1>b, <1>12, <1>13, <2>1, <2>2, <2>3, <2>4, FrontierParts DEF r
    <3> QED
      BY <1>1, <3>1, <3>2, FrontierGoesOn
  <2> QED
    BY <1>1, <1>13, <2>1, <2>4, GoesOn DEF Running
\* A request that waits has saved where it is.
<1>17. ASSUME Untouched, at \in {"list", "action"}, NEW c \in Context,
              ctx' = ListDeferred(c), c.rs = ctx.rs, c.li = ctx.li,
              c.rule.ru = pos.q, c.rule.ruGen = 0,
              at' = "suspended", UNCHANGED known
       PROVE  /\ Resumable'
              /\ Frontier' = <<r, pos.l, pos.q, IF c.rule.done THEN c.rule.ac ELSE 0>>
  <2>1. /\ ctx'.rs = ctx.rs /\ ctx'.li = pos.l /\ ctx'.rule = c.rule
        /\ ctx'.kept /\ ~ctx'.nocheck
        /\ ctx'.phGen = gen[ThisPhase] /\ ctx'.liGen = gen[ThisList] /\ ctx'.rsGen = gen[<<r>>]
    BY <1>4, <1>17, Saved
  <2>2. gen[<<r>>] = 0 /\ gen[ThisPhase] = 0 /\ gen[ThisList] = 0
    BY <1>17, Zero DEF Within
  <2>3. r \in known
    BY <1>3, <1>17 DEF Resumable
  <2>4. Resumable'
    BY <1>17, <2>1, <2>2, <2>3 DEF Resumable, Running, Waits, r
  <2>5. Frontier' = <<r, pos.l, pos.q, IF c.rule.done THEN c.rule.ac ELSE 0>>
    BY <1>17, <2>1 DEF Frontier, r
  <2> QED
    BY <2>4, <2>5
<1>18. ASSUME Defers PROVE Sequential'
  <2>1. /\ AtRule /\ (ctx.nocheck \/ ~Checked.rule.done)
        /\ at' = "suspended" /\ UNCHANGED <<gen, known, ran>>
    BY <1>18 DEF Defers
  <2>2. PICK c \in Context :
          /\ ctx' = ListDeferred(c) /\ c.rs = ctx.rs /\ c.li = ctx.li
          /\ \E mark \in Mark : c.rule = [Checked.rule EXCEPT !.stack = <<mark>>]
    BY <1>18, DefersSaves
  <2>3. /\ c.rule.ru = Checked.rule.ru /\ c.rule.ruGen = Checked.rule.ruGen
        /\ c.rule.done = Checked.rule.done /\ c.rule.ac = Checked.rule.ac
    BY <2>2, CheckedContext DEF RuleContext
  <2>4. ASSUME Untouched
        PROVE  Resumable' /\ (Frontier' = Frontier \/ Before(Frontier, Frontier'))
    <3>1. Resumable' /\ Frontier' = <<r, pos.l, pos.q, IF ctx.rule.done THEN ctx.rule.ac ELSE 0>>
      BY <1>12, <1>13, <1>17, <2>1, <2>2, <2>3, <2>4
    <3>2. Frontier = <<r, pos.l, pos.q, 0>>
      BY <1>12, <1>13, <2>1, <2>4 DEF Frontier
    <3>3. CASE ctx.rule.done
      BY <1>1, <3>1, <3>2, <3>3, Numbers, FrontierMoves
    <3>4. CASE ~ctx.rule.done
      BY <3>1, <3>2, <3>4
    <3> QED
      BY <3>1, <3>3, <3>4
  <2> QED
    BY <1>1, <1>13, <2>1, <2>4, GoesOn DEF Running
<1>19. ASSUME WaitStarts PROVE Sequential'
  <2>1. at = "action" /\ at' = "suspended" /\ UNCHANGED <<gen, known, ran>>
    BY <1>19 DEF WaitStarts, AtAction
  <2>2. PICK c \in Context :
          /\ ctx' = ListDeferred(c) /\ c.rs = ctx.rs /\ c.li = ctx.li
          /\ c.rule = [ctx.rule EXCEPT !.ruGen = gen[ThisRule], !.ac = pos.a, !.data = FALSE]
    BY <1>19, WaitSaves
  <2>3. /\ c.rule.ru = ctx.rule.ru /\ c.rule.ruGen = gen[ThisRule]
        /\ c.rule.done = ctx.rule.done /\ c.rule.ac = pos.a
    BY <1>2, <2>2 DEF Context, RuleContext
  <2>4. ASSUME Untouched PROVE Resumable' /\ Frontier' = Frontier
    <3>1. ctx.rule.ru = pos.q /\ ctx.rule.done /\ gen[ThisRule] = 0
      BY <1>3, <2>1, <2>4, Zero DEF Resumable
    <3>2. Resumable' /\ Frontier' = <<r, pos.l, pos.q, pos.a>>
      BY <1>17, <2>1, <2>2, <2>3, <2>4, <3>1
    <3> QED
      BY <2>1, <3>2 DEF Frontier
  <2> QED
    BY <1>1, <2>1, <2>4, GoesOn DEF Running
<1>20. ASSUME Tag \/ WaitEnds PROVE Sequential'
  <2> DEFINE item == <<r, pos.l, pos.q, pos.a>>
  <2>1. /\ at = "action" /\ at' = "action" /\ UNCHANGED <<gen, known>> /\ ran' = Append(ran, item)
        /\ ctx' = [ctx EXCEPT !.rule.data = FALSE] /\ pos' = [pos EXCEPT !.a = pos.a + 1]
    BY <1>20 DEF Tag, WaitEnds, AtAction, NextAction, Ran
  <2>2. /\ ctx'.rs = ctx.rs /\ ctx'.li = ctx.li /\ ctx'.phGen = ctx.phGen
        /\ ctx'.liGen = ctx.liGen /\ ctx'.nocheck = ctx.nocheck
        /\ ctx'.rule.ru = ctx.rule.ru /\ ctx'.rule.ruGen = ctx.rule.ruGen
        /\ ctx'.rule.done = ctx.rule.done
        /\ pos'.l = pos.l /\ pos'.q = pos.q /\ pos'.a = pos.a + 1
    BY <1>2, <2>1 DEF Context, RuleContext, Position
  <2>3. item \in Item /\ item = Frontier
    BY <2>1, Numbers DEF Item, Frontier
  <2>4. Untouched => Resumable'
    BY <1>3, <2>1, <2>2 DEF Resumable, Running, Waits, r
  <2>5. Before(Frontier, Frontier')
    BY <1>1, <1>a, <1>b, <2>1, <2>2, FrontierParts, FrontierMoves, Numbers DEF r
  <2> HIDE DEF item
  <2> QED
    BY <1>1, <2>1, <2>3, <2>4, <2>5, Does DEF Running, Waits
<1>21. ASSUME Decide PROVE Sequential'
  <2> DEFINE item == <<r, pos.l, pos.q, pos.a>>
  <2>1. /\ at = "action" /\ at' \in {"pass", "reject"} /\ ran' = Append(ran, item)
        /\ UNCHANGED <<gen, known, ctx, pos>>
    BY <1>21 DEF Decide, AtAction, Ran
  <2>2. item \in Item /\ item = Frontier
    BY <2>1, Numbers DEF Item, Frontier
  <2>3. Untouched => Resumable'
    BY <1>3, <2>1 DEF Resumable, Running, Waits
  <2> HIDE DEF item
  <2> QED
    BY <1>1, <2>1, <2>2, <2>3, Does DEF Running, Waits
<1>22. ASSUME ActionsEnd PROVE Sequential'
  <2>1. /\ at = "action" /\ at' = "list" /\ UNCHANGED <<gen, known, ran>>
        /\ ctx' = [ctx EXCEPT !.rule.done = FALSE, !.rule.true = FALSE]
        /\ pos' = [pos EXCEPT !.q = pos.q + 1]
    BY <1>22 DEF ActionsEnd
  <2>2. /\ ctx'.rs = ctx.rs /\ ctx'.phGen = ctx.phGen /\ ctx'.liGen = ctx.liGen
        /\ ctx'.nocheck = ctx.nocheck /\ ctx'.rule.ruGen = ctx.rule.ruGen
        /\ pos'.l = pos.l /\ pos'.q = pos.q + 1
    BY <1>2, <2>1 DEF Context, RuleContext, Position
  <2>3. Untouched => Resumable'
    BY <1>3, <2>1, <2>2 DEF Resumable, Running, Waits, r
  <2>4. Before(Frontier, Frontier')
    BY <1>1, <1>a, <1>b, <2>1, <2>2, FrontierParts, FrontierMoves, Numbers DEF r
  <2> QED
    BY <1>1, <2>1, <2>3, <2>4, GoesOn DEF Running
<1>23. ASSUME Close PROVE Sequential'
  <2>1. /\ at' = "closed" /\ UNCHANGED <<gen, ran>>
        /\ ctx'.rule.ruGen = ctx.rule.ruGen
    BY <1>2, <1>23 DEF Close, Context, RuleContext
  <2>2. Untouched => Resumable'
    BY <1>3, <2>1 DEF Resumable, Running, Waits
  <2> QED
    BY <1>1, <2>1, <2>2, GoesOn DEF Running, Waits
<1>24. ASSUME Refused PROVE Sequential'
  <2>1. at' = "suspended" /\ wake' = "none" /\ UNCHANGED <<gen, ran>>
    BY <1>24 DEF Refused
  <2>2. [ctx EXCEPT !.phGen = 0] \in Context /\ [ctx EXCEPT !.phGen = 0].rule = ctx.rule
    BY <1>2 DEF Context, Generation
  <2>3. /\ [ctx EXCEPT !.li = pos.l, !.liGen = 0] \in Context
        /\ [ctx EXCEPT !.li = pos.l, !.liGen = 0].rule = ctx.rule
    BY <1>2, Moves DEF Context, Generation
  <2>4. /\ [ctx EXCEPT !.rule.ru = pos.q] \in Context
        /\ [ctx EXCEPT !.rule.ru = pos.q].rule.ruGen = ctx.rule.ruGen
    BY <1>2, Moves DEF Context, RuleContext
  <2>5. ctx'.rule.ruGen = ctx.rule.ruGen
    <3>1. CASE ctx' = RulesetDeferred(ctx)
      BY <1>2, <3>1, Saved
    <3>2. CASE ctx' = RulesetDeferred([ctx EXCEPT !.phGen = 0])
      BY <2>2, <3>2, Saved
    <3>3. CASE ctx' = PhaseDeferred([ctx EXCEPT !.li = pos.l, !.liGen = 0])
      BY <2>3, <3>3, Saved
    <3>4. CASE ctx' = ListDeferred([ctx EXCEPT !.rule.ru = pos.q])
      BY <2>4, <3>4, Saved
    <3> QED
      BY <1>24, <3>1, <3>2, <3>3, <3>4 DEF Refused
  <2>6. Untouched => Resumable'
    BY <1>3, <2>1, <2>5 DEF Resumable, Running, Waits
  <2> QED
    BY <1>1, <2>1, <2>6, GoesOn DEF Running, Waits
<1>25. ASSUME NEW e \in Elements(conf), Update(e) PROVE Sequential'
  <2>1. e \in DOMAIN gen /\ gen[e] \in Nat /\ gen' = [gen EXCEPT ![e] = gen[e] + 1] /\ ran' = ran
    BY <1>25 DEF Update, TypeOK
  <2>2. ~Untouched'
    BY <2>1 DEF Untouched
  <2> QED
    BY <2>1, <2>2 DEF Sequential
<1>26. ASSUME Handle PROVE Sequential'
  <2>1. /\ at = "new" \/ (at = "suspended" /\ wake # "none")
        /\ at' = "ruleset" /\ UNCHANGED <<gen, pos>>
        /\ ctx' = [Woken EXCEPT !.rs = FirstRuleset(Woken)]
        /\ known' = IF wake = "fetch" THEN known \cup {r} ELSE known
        /\ ran' = IF wake = "fetch" THEN <<>> ELSE ran
    BY <1>26 DEF Handle
  <2>2. /\ Woken.rs = ctx.rs /\ Woken.li = ctx.li /\ Woken.phGen = ctx.phGen
        /\ Woken.liGen = ctx.liGen /\ Woken.kept = ctx.kept
        /\ Woken.rule.ru = ctx.rule.ru /\ Woken.rule.ruGen = ctx.rule.ruGen
        /\ Woken.rule.done = ctx.rule.done /\ Woken.rule.ac = ctx.rule.ac
        /\ wake = "fetch" => Woken.nocheck
        /\ wake # "fetch" => Woken.nocheck = ctx.nocheck /\ Woken.rsGen = ctx.rsGen
    BY <1>2 DEF Woken, Context, RuleContext
  <2>3. /\ ctx'.rs = FirstRuleset(Woken) /\ ctx'.li = Woken.li /\ ctx'.phGen = Woken.phGen
        /\ ctx'.liGen = Woken.liGen /\ ctx'.nocheck = Woken.nocheck /\ ctx'.rule = Woken.rule
    BY <1>2, <2>1 DEF Woken, Context, RuleContext
  <2>4. CASE wake = "fetch"
    <3>1. ran' = <<>> /\ ran' \in Seq(Item) /\ DOMAIN ran' = {}
      BY <2>1, <2>4, EmptySeq
    <3>2. Untouched' => Untouched
      BY <2>1 DEF Untouched
    <3>3. Untouched => Resumable'
      BY <1>3, <2>1, <2>2, <2>3, <2>4 DEF Resumable, Running, Waits
    <3> QED
      BY <3>1, <3>2, <3>3 DEF Sequential
  <2>5. CASE at = "new" /\ wake # "fetch"
    <3>1. Untouched' => Untouched /\ ran' = <<>> /\ DOMAIN ran' = {}
      BY <1>3, <2>1, <2>5 DEF Untouched, Resumable
    <3>2. Untouched => Resumable'
      BY <1>3, <2>1, <2>2, <2>3, <2>5 DEF Resumable, Running, Waits
    <3>3. ran' \in Seq(Item)
      BY <2>1, <2>5 DEF Sequential
    <3> QED
      BY <3>1, <3>2, <3>3 DEF Sequential
  <2>6. CASE at = "suspended" /\ wake \in {"delay", "wait", "answer"}
    <3>1. ASSUME Untouched PROVE Resumable' /\ Frontier' = Frontier
      <4>1. /\ ctx.kept /\ ~ctx.nocheck /\ ctx.rsGen = 0 /\ r \in known /\ gen[<<r>>] = 0
            /\ ctx.phGen = 0 /\ ctx.liGen = 0
        BY <1>3, <2>6, <3>1, Zero DEF Resumable, Waits
      <4>2. ctx'.rs = ctx.rs
        BY <2>1, <2>2, <2>3, <2>6, <4>1 DEF FirstRuleset, r
      <4>3. Resumable'
        BY <1>3, <2>1, <2>2, <2>3, <2>6, <3>1, <4>1, <4>2 DEF Resumable, Running, Waits
      <4>4. Frontier' = Frontier
        BY <2>1, <2>2, <2>3, <2>6, <4>1, <4>2 DEF Frontier, r
      <4> QED
        BY <4>3, <4>4
    <3> QED
      BY <1>1, <2>1, <2>6, <3>1, GoesOn DEF Waits
  <2> QED
    BY <1>2, <2>1, <2>4, <2>5, <2>6 DEF Wakes
<1>27. CASE UNCHANGED vars
  <2>1. Resumable' <=> Resumable
    BY <1>27 DEF vars, Resumable, Running, Waits, r
  <2>2. Frontier' = Frontier
    BY <1>27 DEF vars, Frontier, r
  <2> QED
    BY <1>1, <1>3, <1>27, <2>1, <2>2, GoesOn DEF vars, Running, Waits
<1> QED
  BY <1>5, <1>7, <1>8, <1>9, <1>10, <1>11, <1>14, <1>15, <1>16, <1>18, <1>19, <1>20, <1>21,
     <1>22, <1>23, <1>24, <1>25, <1>26, <1>27 DEF Next, Evaluate

\* A new request has done nothing.
LEMMA SequentialInit == Init => Sequential
<1> SUFFICES ASSUME Init PROVE Sequential
  OBVIOUS
<1>1. ran = <<>> /\ ran \in Seq(Item) /\ DOMAIN ran = {}
  BY EmptySeq DEF Init
<1>2. Resumable
  BY <1>1 DEF Init, NewContext, Zeroed, Resumable, Running, Waits
<1> QED
  BY <1>1, <1>2 DEF Sequential

\* Nothing is done twice or out of order, unless everything is evaluated anew:
\* for any configuration and however often the request waits.
THEOREM DoneInOrder == Spec => []InOrder
<1>1. Init => TypeOK /\ Within /\ SavedList /\ Sequential
  BY TypeInit, SavedListInit, SequentialInit
<1>2. TypeOK /\ Within /\ SavedList /\ Sequential /\ [Next]_vars
      => (TypeOK /\ Within /\ SavedList /\ Sequential)'
  BY TypeStep, SavedListStep, SequentialStep
<1>3. Sequential => InOrder
  BY DEF Sequential, InOrder
<1> QED
  BY <1>1, <1>2, <1>3, PTL DEF Spec

-----------------------------------------------------------------------------
(* What a request carries from one evaluation of a rule to the next.       *)

\* The rule in which the request waits, and what it has of it.
Left == <<r, ctx.li, ctx.rule.ru>>
Carries == ctx.rule.stack # <<>> \/ ctx.rule.done

\* On its way back to that rule nothing is disabled and nothing is done that could
\* take it for another: a wait on the stack is that of the condition, which is not
\* done then, and the branch of one that is done is its own.
OnTheWay ==
  /\ ~ctx.nocheck /\ r \in known
  /\ {<<r>>, <<r, ctx.li>>, Left} \cap off = {}
  /\ ctx.li \in DOMAIN conf[r] /\ ctx.rule.ru \in DOMAIN conf[r][ctx.li]
  /\ at \in {"phase", "list"} => pos.l = ctx.li
  /\ at = "list" => pos.q = ctx.rule.ru
  /\ ctx.rule.stack # <<>> =>
       /\ ~ctx.rule.done /\ RuleAt(Left).kind # "plain"
       /\ Len(ctx.rule.stack) = 1 /\ ctx.rule.stack[1].rule = Left
  /\ ctx.rule.done => ctx.rule.true = RuleAt(Left).holds

Carried ==
  Untouched =>
    /\ at \in {"enter", "phase", "list", "action"} => <<r>> \notin off
    /\ at \in {"list", "action"} => ThisList \notin off
    /\ at = "action" =>
         /\ ThisRule \notin off /\ ctx.rule.stack = <<>>
         /\ ctx.rule.true = RuleAt(ThisRule).holds
    /\ at = "new" \/ (at = "suspended" /\ wake = "fetch") => ~Carries
    /\ ((Running /\ at # "action") \/ Waits) /\ Carries => OnTheWay

\* Nothing stays of a sequence of one.
LEMMA TailOfOne ==
  ASSUME NEW S, NEW s \in Seq(S), Len(s) = 1
  PROVE  Tail(s) = <<>>
<1>1. s # <<>>
  BY EmptySeq
<1>2. Tail(s) \in Seq(S) /\ Len(Tail(s)) = 0
  BY <1>1, HeadTailProperties
<1> QED
  BY <1>2, EmptySeq

\* A request that comes has nothing.
LEMMA CarriedInit == Init => Carried
<1> SUFFICES ASSUME Init PROVE Carried
  OBVIOUS
<1>1. at = "new" /\ ctx.rule.stack = <<>> /\ ~ctx.rule.done
  BY DEF Init, NewContext, Zeroed
<1> QED
  BY <1>1 DEF Carried, Carries, Running, Waits

\* And it is carried by every step to where it belongs.
LEMMA CarriedStep ==
  TypeOK /\ Within /\ SavedList /\ Sequential /\ Carried /\ [Next]_vars => Carried'
<1> SUFFICES ASSUME TypeOK, Within, SavedList, Sequential, Carried, [Next]_vars, Untouched'
             PROVE  Carried'
  BY DEF Carried
<1>1. ctx \in Context /\ pos \in Position /\ wake \in Wakes /\ at \in Place
  BY DEF TypeOK
<1>2. /\ r \in DOMAIN conf /\ DOMAIN conf = 1..Len(conf) /\ Len(conf) \in Nat
      /\ DOMAIN conf[r] = 1..Len(conf[r]) /\ Len(conf[r]) \in Nat
      /\ \A l \in DOMAIN conf[r] :
           DOMAIN conf[r][l] = 1..Len(conf[r][l]) /\ Len(conf[r][l]) \in Nat
  BY <1>1, Places DEF TypeOK, Context, r
<1>3. ASSUME UNCHANGED gen
      PROVE  /\ Untouched /\ Resumable
             /\ at \in {"enter", "phase", "list", "action"} => <<r>> \notin off
             /\ at \in {"list", "action"} => ThisList \notin off
             /\ at = "action" => /\ ThisRule \notin off /\ ctx.rule.stack = <<>>
                                 /\ ctx.rule.true = RuleAt(ThisRule).holds
             /\ at = "new" \/ (at = "suspended" /\ wake = "fetch") => ~Carries
             /\ ((Running /\ at # "action") \/ Waits) /\ Carries => OnTheWay
  <2>1. Untouched
    BY <1>3 DEF Untouched
  <2> QED
    BY <2>1 DEF Carried, Sequential
<1>4. at \in {"list", "action"} => ctx.li = pos.l
  BY DEF SavedList
<1> USE DEF Suspend, Goes
<1>5. CASE FetchRuleset
  <2>1. /\ at' = "suspended" /\ wake' = "fetch" /\ ctx'.rule = ctx.rule /\ UNCHANGED gen
        /\ at = "ruleset" /\ r \notin known
    BY <1>1, <1>5, Saved DEF FetchRuleset
  <2>2. ~Carries
    BY <1>3, <2>1 DEF Running, OnTheWay
  <2> QED
    BY <2>1, <2>2 DEF Carried, Carries, Running, Waits
<1>6. ASSUME NextRuleset, ~Carries PROVE Carried'
  <2>1. CASE r = Len(conf)
    BY <1>6, <2>1 DEF NextRuleset, Carried, Running, Waits
  <2>2. CASE r # Len(conf)
    <3>1. at' = "ruleset" /\ ctx'.rule = ctx.rule
      BY <1>1, <1>6, <2>2 DEF NextRuleset, Context
    <3> QED
      BY <1>6, <3>1 DEF Carried, Carries, Running, Waits
  <2> QED
    BY <2>1, <2>2
<1>7. CASE EvalRuleset
  <2>1. at = "ruleset"
    BY <1>7 DEF EvalRuleset
  <2>2. CASE <<r>> \in off
    <3>1. NextRuleset /\ UNCHANGED gen
      BY <1>7, <2>2 DEF EvalRuleset, NextRuleset
    <3>2. ~Carries
      BY <1>3, <2>1, <2>2, <3>1 DEF Running, OnTheWay
    <3> QED
      BY <1>6, <3>1, <3>2
  <2>3. CASE <<r>> \notin off
    <3>1. at' = "enter" /\ UNCHANGED <<conf, gen, off, known, ctx, pos>>
      BY <1>7, <2>3 DEF EvalRuleset
    <3>2. Carries => OnTheWay
      BY <1>3, <2>1, <3>1 DEF Running
    <3>3. Carries' <=> Carries
      BY <3>1 DEF Carries
    <3>4. Carries' => OnTheWay'
      BY <2>1, <3>1, <3>2, <3>3 DEF OnTheWay, Left, RuleAt, r
    <3> QED
      BY <2>3, <3>1, <3>4 DEF Carried, r
  <2> QED
    BY <2>2, <2>3
<1>8. CASE EnterPhase
  <2>1. at = "enter" /\ UNCHANGED <<conf, gen, off, known, ctx>> /\ at' \in {"aborted", "phase"}
    BY <1>8 DEF EnterPhase
  <2>2. CASE at' = "aborted"
    BY <2>2 DEF Carried, Running, Waits
  <2>3. CASE at' = "phase"
    <3>1. Carries => OnTheWay
      BY <1>3, <2>1 DEF Running
    <3>2. Carries' <=> Carries
      BY <2>1 DEF Carries
    <3>3. ASSUME Carries PROVE pos'.l = ctx.li
      <4>1. ~ctx.nocheck
        BY <3>1, <3>3 DEF OnTheWay
      <4>2. gen[ThisPhase] = 0 /\ ctx.phGen = 0
        BY <1>3, <2>1, <4>1, Zero DEF Resumable, Running
      <4> QED
        BY <1>1, <1>8, <2>3, <4>1, <4>2 DEF EnterPhase, Position
    <3>4. Carries' => OnTheWay'
      BY <2>1, <2>3, <3>1, <3>2, <3>3 DEF OnTheWay, Left, RuleAt, r
    <3>5. <<r>>' \notin off'
      BY <1>3, <2>1 DEF r
    <3> QED
      BY <2>3, <3>4, <3>5 DEF Carried
  <2> QED
    BY <2>1, <2>2, <2>3
<1>9. CASE PhaseEnds
  <2>1. at = "phase" /\ ~(pos.l \in DOMAIN conf[r]) /\ NextRuleset /\ UNCHANGED gen
    BY <1>2, <1>9 DEF PhaseEnds, NextRuleset
  <2>2. ~Carries
    BY <1>3, <2>1 DEF Running, OnTheWay
  <2> QED
    BY <1>6, <2>1, <2>2
<1>10. CASE EnterList
  <2>1. /\ at = "phase" /\ UNCHANGED <<conf, gen, off, known>>
        /\ ctx' = [ctx EXCEPT !.li = pos.l] /\ at' \in {"phase", "list"}
    BY <1>10 DEF EnterList
  <2>2. /\ ctx'.rs = ctx.rs /\ ctx'.rule = ctx.rule /\ ctx'.nocheck = ctx.nocheck
        /\ ctx'.liGen = ctx.liGen /\ ctx'.li = pos.l
    BY <1>1, <2>1 DEF Context
  <2>3. (Carries => OnTheWay) /\ (Carries' <=> Carries) /\ <<r>>' \notin off' /\ r' = r
    BY <1>3, <2>1, <2>2 DEF Running, Carries, r
  <2>4. CASE at' = "phase"
    <3>1. ThisList \in off
      BY <1>10, <2>4 DEF EnterList
    <3>2. ~Carries'
      BY <2>1, <2>3, <3>1 DEF OnTheWay, ThisList
    <3> QED
      BY <2>3, <2>4, <3>2 DEF Carried
  <2>5. CASE at' = "list"
    <3>1. /\ ThisList \notin off
          /\ pos' = [pos EXCEPT !.q = IF ~ctx'.nocheck /\ ctx'.liGen = gen[ThisList]
                                      THEN ctx'.rule.ru ELSE 1]
      BY <1>10, <2>1, <2>5 DEF EnterList
    <3>2. pos'.l = pos.l
      BY <1>1, <3>1 DEF Position
    <3>3. ASSUME Carries PROVE pos.l = ctx.li /\ pos'.q = ctx.rule.ru
      <4>1. ~ctx.nocheck /\ pos.l = ctx.li /\ pos.l \in DOMAIN conf[r]
        BY <2>1, <2>3, <3>3 DEF OnTheWay
      <4>2. gen[ThisList] = 0 /\ ctx.liGen = 0
        BY <1>3, <2>1, <4>1, Zero DEF Resumable, Running
      <4> QED
        BY <1>1, <2>2, <3>1, <4>1, <4>2 DEF Position
    <3>4. Carries' => OnTheWay'
      BY <2>1, <2>2, <2>3, <2>5, <3>2, <3>3 DEF OnTheWay, Left, RuleAt
    <3>5. ThisList' \notin off'
      BY <2>1, <2>3, <3>1, <3>2 DEF ThisList
    <3> QED
      BY <2>3, <2>5, <3>4, <3>5 DEF Carried
  <2> QED
    BY <2>1, <2>4, <2>5
<1>11. CASE ListEnds
  <2>1. /\ at = "list" /\ at' = "phase" /\ UNCHANGED <<conf, gen, off, known>>
        /\ ctx'.rs = ctx.rs /\ ctx'.rule.stack = ctx.rule.stack /\ ctx'.rule.done = ctx.rule.done
    BY <1>1, <1>11 DEF ListEnds, Context, RuleContext
  <2>2. pos.l \in DOMAIN conf[r] /\ ~(pos.q \in DOMAIN conf[r][pos.l])
    BY <1>2, <1>11, <2>1 DEF ListEnds, Within
  <2>3. ~Carries'
    BY <1>3, <1>4, <2>1, <2>2 DEF Running, OnTheWay, Carries
  <2>4. <<r>>' \notin off'
    BY <1>3, <2>1 DEF r
  <2> QED
    BY <2>1, <2>3, <2>4 DEF Carried
\* The rule at which the request arrives with what it carries.
<1>12. ASSUME AtRule, UNCHANGED gen
       PROVE  /\ at = "list" /\ pos.l = ctx.li
              /\ Checked.rule.stack = ctx.rule.stack /\ Checked.rule.done = ctx.rule.done
              /\ Checked.rule.true = ctx.rule.true /\ Checked.rule.ru = pos.q
              /\ Carries => OnTheWay /\ Left = ThisRule
              /\ pos.l \in DOMAIN conf[r] /\ pos.q \in DOMAIN conf[r][pos.l]
              /\ <<r>> \notin off /\ ThisList \notin off /\ r \in known
  <2>1. at = "list" /\ pos.l = ctx.li
    BY <1>4, <1>12 DEF AtRule
  <2>2. Checked = [ctx EXCEPT !.rule.ru = pos.q]
    BY <1>3, <1>12, Zero, CheckedContext DEF Restarts, Resumable
  <2>3. /\ Checked.rule.stack = ctx.rule.stack /\ Checked.rule.done = ctx.rule.done
        /\ Checked.rule.true = ctx.rule.true /\ Checked.rule.ru = pos.q
    BY <1>1, <2>2 DEF Context, RuleContext
  <2>4. Carries => OnTheWay /\ Left = ThisRule
    BY <1>3, <1>12, <2>1 DEF Running, OnTheWay, Left, ThisRule
  <2>5. pos.l \in DOMAIN conf[r] /\ pos.q \in DOMAIN conf[r][pos.l]
    BY <1>12, RuleIsThere
  <2>6. <<r>> \notin off /\ ThisList \notin off /\ r \in known
    BY <1>3, <1>12, <2>1 DEF Resumable
  <2> QED
    BY <2>1, <2>3, <2>4, <2>5, <2>6
<1>13. CASE DisabledRule
  <2>1. /\ AtRule /\ ThisRule \in off /\ at' = "list" /\ UNCHANGED <<conf, gen, off, known>>
        /\ ctx'.rs = ctx.rs /\ ctx'.rule.stack = ctx.rule.stack /\ ctx'.rule.done = ctx.rule.done
        /\ pos'.l = pos.l
    BY <1>1, <1>13 DEF DisabledRule, Context, RuleContext, Position
  <2>2. ~Carries'
    BY <1>12, <2>1 DEF OnTheWay, Carries
  <2>3. <<r>>' \notin off' /\ ThisList' \notin off'
    BY <1>12, <2>1 DEF r, ThisList
  <2> QED
    BY <2>1, <2>2, <2>3 DEF Carried
\* At an action of this rule.
<1>14. ASSUME AtRule, ThisRule \notin off, UNCHANGED <<conf, gen, off, known>>,
              ctx'.rs = ctx.rs, pos'.l = pos.l, pos'.q = pos.q, at' = "action",
              ctx'.rule.stack = <<>>, ctx'.rule.true = RuleAt(ThisRule).holds
       PROVE  Carried'
  <2>1. <<r>>' \notin off' /\ ThisList' \notin off' /\ ThisRule' = ThisRule
    BY <1>12, <1>14 DEF r, ThisList, ThisRule
  <2>2. ThisRule' \notin off' /\ ctx'.rule.true = (RuleAt(ThisRule).holds)'
    BY <1>14, <2>1 DEF RuleAt
  <2> QED
    BY <1>14, <2>1, <2>2 DEF Carried, Running, Waits
<1>15. CASE Concludes
  <2> DEFINE plain == RuleAt(ThisRule).kind = "plain"
             stack == IF plain \/ Checked.rule.stack = <<>> THEN Checked.rule.stack
                      ELSE Tail(Checked.rule.stack)
  <2>1. /\ AtRule /\ ThisRule \notin off /\ (ctx.nocheck \/ ~Checked.rule.done)
        /\ at' = "action" /\ UNCHANGED <<conf, gen, off, known>>
    BY <1>15 DEF Concludes, Acts
  <2>2. /\ ctx'.rs = ctx.rs /\ ctx'.rule.true = RuleAt(ThisRule).holds
        /\ ctx'.rule.stack = stack
    BY <1>15, CheckedContext DEF Concludes, Acts, Context, RuleContext
  <2>3. pos'.l = pos.l /\ pos'.q = pos.q
    BY <1>1, <1>15 DEF Concludes, Acts, Position
  <2>4. stack = <<>>
    <3>1. CASE Carries
      <4>1. /\ ctx.rule.stack # <<>> /\ ~plain /\ Len(ctx.rule.stack) = 1
        BY <1>12, <2>1, <3>1 DEF Carries, OnTheWay
      <4>2. Tail(ctx.rule.stack) = <<>>
        <5>1. ctx.rule.stack \in Seq(Mark)
          BY <1>1 DEF Context, RuleContext
        <5> QED
          BY <4>1, <5>1, TailOfOne
      <4> QED
        BY <1>12, <2>1, <4>1, <4>2
    <3>2. CASE ~Carries
      BY <1>12, <2>1, <3>2 DEF Carries
    <3> QED
      BY <3>1, <3>2
  <2> HIDE DEF stack
  <2> QED
    BY <1>14, <2>1, <2>2, <2>3, <2>4
<1>16. CASE DoneBefore
  <2>1. /\ AtRule /\ ThisRule \notin off /\ Checked.rule.done
        /\ at' = "action" /\ UNCHANGED <<conf, gen, off, known>> /\ ctx' = Checked
    BY <1>16 DEF DoneBefore, Acts
  <2>2. pos'.l = pos.l /\ pos'.q = pos.q
    BY <1>1, <1>16 DEF DoneBefore, Acts, Position
  <2>3. Carries /\ OnTheWay /\ Left = ThisRule
    BY <1>12, <2>1 DEF Carries
  <2>4. /\ ctx'.rs = ctx.rs /\ ctx'.rule.stack = <<>>
        /\ ctx'.rule.true = RuleAt(ThisRule).holds
    BY <1>12, <2>1, <2>3, CheckedContext DEF OnTheWay
  <2> QED
    BY <1>14, <2>1, <2>2, <2>4
\* Where the request waits.
<1>17. ASSUME at \in {"list", "action"}, UNCHANGED <<conf, gen, off, known>>,
              NEW c \in Context, ctx' = ListDeferred(c), c.rs = ctx.rs, c.li = ctx.li,
              c.rule.ru = pos.q, ThisRule \notin off,
              pos.l \in DOMAIN conf[r], pos.q \in DOMAIN conf[r][pos.l],
              at' = "suspended", wake' \in {"delay", "wait", "answer"},
              c.rule.stack # <<>> =>
                /\ ~c.rule.done /\ RuleAt(ThisRule).kind # "plain"
                /\ Len(c.rule.stack) = 1 /\ c.rule.stack[1].rule = ThisRule,
              c.rule.done => c.rule.true = RuleAt(ThisRule).holds
       PROVE  Carried'
  <2>1. /\ ctx'.rs = ctx.rs /\ ctx'.li = pos.l /\ ctx'.rule = c.rule /\ ~ctx'.nocheck
    BY <1>4, <1>17, Saved
  <2>2. r' = r /\ Left' = ThisRule /\ <<r, pos.l>> = ThisList
    BY <1>17, <2>1 DEF Left, ThisRule, ThisList, r
  <2>3. r \in known /\ <<r>> \notin off /\ ThisList \notin off
    BY <1>3, <1>17 DEF Resumable
  <2>4. RuleAt(Left)' = RuleAt(ThisRule)
    BY <1>17, <2>2 DEF RuleAt
  <2>5. OnTheWay'
    BY <1>17, <2>1, <2>2, <2>3, <2>4 DEF OnTheWay
  <2> QED
    BY <1>17, <2>5 DEF Carried, Running
<1>18. CASE Defers
  <2>1. /\ AtRule /\ ThisRule \notin off /\ (ctx.nocheck \/ ~Checked.rule.done)
        /\ at' = "suspended" /\ UNCHANGED <<conf, gen, off, known>>
        /\ wake' \in {"delay", "answer"} /\ RuleAt(ThisRule).kind # "plain"
    BY <1>18 DEF Defers
  <2>2. PICK c \in Context, mark \in Mark :
          /\ ctx' = ListDeferred(c) /\ c.rs = ctx.rs /\ c.li = ctx.li
          /\ mark.rule = ThisRule /\ c.rule = [Checked.rule EXCEPT !.stack = <<mark>>]
    BY <1>18, DefersSaves
  <2>3. /\ c.rule.ru = pos.q /\ c.rule.done = ctx.rule.done /\ c.rule.stack = <<mark>>
    BY <1>12, <2>1, <2>2, CheckedContext DEF RuleContext
  <2>4. ~ctx.rule.done
    BY <1>12, <2>1 DEF Carries, OnTheWay
  <2>5. Len(<<mark>>) = 1 /\ <<mark>>[1] = mark
    OBVIOUS
  <2> QED
    BY <1>12, <1>17, <2>1, <2>2, <2>3, <2>4, <2>5
<1>19. CASE WaitStarts
  <2>1. /\ at = "action" /\ at' = "suspended" /\ wake' = "wait"
        /\ UNCHANGED <<conf, gen, off, known>>
    BY <1>19 DEF WaitStarts, AtAction
  <2>2. PICK c \in Context :
          /\ ctx' = ListDeferred(c) /\ c.rs = ctx.rs /\ c.li = ctx.li
          /\ c.rule = [ctx.rule EXCEPT !.ruGen = gen[ThisRule], !.ac = pos.a, !.data = FALSE]
    BY <1>19, WaitSaves
  <2>3. /\ c.rule.ru = ctx.rule.ru /\ c.rule.stack = ctx.rule.stack
        /\ c.rule.done = ctx.rule.done /\ c.rule.true = ctx.rule.true
    BY <1>1, <2>2 DEF Context, RuleContext
  <2>4. /\ ctx.rule.ru = pos.q /\ ThisRule \notin off /\ ctx.rule.stack = <<>>
        /\ ctx.rule.true = RuleAt(ThisRule).holds
    BY <1>3, <2>1 DEF Resumable
  <2>5. pos.l \in DOMAIN conf[r] /\ pos.q \in DOMAIN conf[r][pos.l]
    BY <2>1 DEF Within
  <2> QED
    BY <1>17, <2>1, <2>2, <2>3, <2>4, <2>5
<1>20. CASE Tag \/ WaitEnds
  <2>1. /\ at = "action" /\ at' = "action" /\ UNCHANGED <<conf, gen, off, known>>
        /\ ctx' = [ctx EXCEPT !.rule.data = FALSE] /\ pos' = [pos EXCEPT !.a = pos.a + 1]
    BY <1>20 DEF Tag, WaitEnds, AtAction, NextAction
  <2>2. /\ ctx'.rs = ctx.rs /\ ctx'.rule.stack = ctx.rule.stack
        /\ ctx'.rule.true = ctx.rule.true /\ pos'.l = pos.l /\ pos'.q = pos.q
    BY <1>1, <2>1 DEF Context, RuleContext, Position
  <2>3. <<r>>' = <<r>> /\ ThisList' = ThisList /\ ThisRule' = ThisRule
    BY <2>2 DEF r, ThisList, ThisRule
  <2>4. RuleAt(ThisRule)' = RuleAt(ThisRule)
    BY <2>1, <2>3 DEF RuleAt
  <2> QED
    BY <1>3, <2>1, <2>2, <2>3, <2>4 DEF Carried, Running, Waits
<1>21. CASE Decide \/ Close
  <2>1. at' \in {"pass", "reject", "closed"}
    BY <1>21 DEF Decide, Close
  <2> QED
    BY <2>1 DEF Carried, Running, Waits
<1>22. CASE ActionsEnd
  <2>1. /\ at = "action" /\ at' = "list" /\ UNCHANGED <<conf, gen, off, known>>
        /\ ctx' = [ctx EXCEPT !.rule.done = FALSE, !.rule.true = FALSE]
        /\ pos' = [pos EXCEPT !.q = pos.q + 1]
    BY <1>22 DEF ActionsEnd
  <2>2. /\ ctx'.rs = ctx.rs /\ ctx'.rule.stack = ctx.rule.stack /\ ~ctx'.rule.done
        /\ pos'.l = pos.l
    BY <1>1, <2>1 DEF Context, RuleContext, Position
  <2>3. <<r>>' = <<r>> /\ ThisList' = ThisList
    BY <2>2 DEF r, ThisList
  <2> QED
    BY <1>3, <2>1, <2>2, <2>3 DEF Carried, Carries, Running, Waits
<1>23. CASE Refused
  <2>1. at' = "suspended" /\ wake' = "none"
    BY <1>23 DEF Refused
  <2> QED
    BY <2>1 DEF Carried, Running, Waits
<1>24. ASSUME NEW e \in Elements(conf), Update(e) PROVE FALSE
  <2>1. e \in DOMAIN gen /\ gen[e] \in Nat /\ gen' = [gen EXCEPT ![e] = gen[e] + 1]
    BY <1>24 DEF Update, TypeOK
  <2> QED
    BY <2>1 DEF Untouched
<1>25. CASE Handle
  <2>1. /\ at = "new" \/ (at = "suspended" /\ wake # "none")
        /\ at' = "ruleset" /\ UNCHANGED <<conf, gen, off, pos>>
        /\ ctx' = [Woken EXCEPT !.rs = FirstRuleset(Woken)]
        /\ known \subseteq known' /\ (wake # "fetch" => known' = known)
    BY <1>25 DEF Handle
  <2>2. /\ Woken.rs = ctx.rs /\ Woken.li = ctx.li /\ Woken.kept = ctx.kept
        /\ Woken.rule.ru = ctx.rule.ru /\ Woken.rule.stack = ctx.rule.stack
        /\ Woken.rule.done = ctx.rule.done /\ Woken.rule.true = ctx.rule.true
        /\ wake # "fetch" => Woken.nocheck = ctx.nocheck /\ Woken.rsGen = ctx.rsGen
    BY <1>1 DEF Woken, Context, RuleContext
  <2>3. /\ ctx'.rs = FirstRuleset(Woken) /\ ctx'.li = Woken.li
        /\ ctx'.nocheck = Woken.nocheck /\ ctx'.rule = Woken.rule
    BY <1>1, <2>1 DEF Woken, Context, RuleContext
  <2>4. Carries' <=> Carries
    BY <2>2, <2>3 DEF Carries
  <2>5. CASE at = "new" \/ wake = "fetch"
    <3>1. ~Carries
      BY <1>3, <2>1, <2>5
    <3> QED
      BY <2>1, <2>4, <3>1 DEF Carried
  <2>6. CASE at = "suspended" /\ wake \in {"delay", "wait", "answer"}
    <3>1. Carries => OnTheWay
      BY <1>3, <2>1, <2>6 DEF Waits
    <3>2. ctx'.rs = ctx.rs
      <4>1. /\ ctx.kept /\ ~ctx.nocheck /\ ctx.rsGen = 0 /\ r \in known /\ gen[<<r>>] = 0
        BY <1>3, <2>1, <2>6, Zero DEF Resumable, Waits
      <4> QED
        BY <2>1, <2>2, <2>3, <2>6, <4>1 DEF FirstRuleset, r
    <3>3. r' = r /\ Left' = Left
      BY <2>2, <2>3, <3>2 DEF r, Left
    <3>4. RuleAt(Left)' = RuleAt(Left)
      BY <2>1, <3>3 DEF RuleAt
    <3>5. Carries' => OnTheWay'
      BY <2>1, <2>2, <2>3, <2>4, <2>6, <3>1, <3>3, <3>4 DEF OnTheWay
    <3> QED
      BY <2>1, <3>5 DEF Carried
  <2> QED
    BY <1>1, <2>1, <2>5, <2>6 DEF Wakes
<1>26. CASE UNCHANGED vars
  <2>1. UNCHANGED gen
    BY <1>26 DEF vars
  <2> QED
    BY <1>3, <1>26, <2>1
       DEF vars, Carried, Carries, OnTheWay, Left, ThisList, ThisRule, RuleAt, Running, Waits, r
<1> QED
  BY <1>5, <1>7, <1>8, <1>9, <1>10, <1>11, <1>13, <1>15, <1>16, <1>18, <1>19, <1>20, <1>21,
     <1>22, <1>23, <1>24, <1>25, <1>26 DEF Next, Evaluate

\* While nothing is updated, a condition that finds a wait on the stack has put it
\* there itself, and the branch that is taken is that of its own condition.
THEOREM OwnContext == Spec => []ContextIsOwn
<1>1. Init => TypeOK /\ Within /\ SavedList /\ Sequential /\ Carried
  BY TypeInit, SavedListInit, SequentialInit, CarriedInit
<1>2. TypeOK /\ Within /\ SavedList /\ Sequential /\ Carried /\ [Next]_vars
      => (TypeOK /\ Within /\ SavedList /\ Sequential /\ Carried)'
  BY TypeStep, SavedListStep, SequentialStep, CarriedStep
<1>3. TypeOK /\ Within /\ SavedList /\ Carried => ContextIsOwn
  <2> SUFFICES ASSUME TypeOK, Within, SavedList, Carried, Untouched
               PROVE  ContextIsOwn
    BY DEF ContextIsOwn
  <2>1. ASSUME AtRule, ctx.rule.stack # <<>>
        PROVE  ctx.rule.stack[1].rule = ThisRule /\ Len(ctx.rule.stack) = 1
    <3>1. at = "list" /\ Carries /\ OnTheWay
      BY <2>1 DEF AtRule, Carries, Carried, Running
    <3> QED
      BY <2>1, <3>1 DEF OnTheWay, Left, ThisRule
  <2>2. at = "action" => ctx.rule.true = RuleAt(ThisRule).holds
    BY DEF Carried
  <2> QED
    BY <2>1, <2>2 DEF ContextIsOwn
<1> QED
  BY <1>1, <1>2, <1>3, PTL DEF Spec

-----------------------------------------------------------------------------
(* Nothing is left out: the order of module RuleOrder.                     *)

\* A place is that of its rule and a number.
LEMMA Four ==
  \A i, l, q, a \in Nat :
    <<i, l, q>> \o <<a>> = <<i, l, q, a>> /\ SubSeq(<<i, l, q, a>>, 1, 3) = <<i, l, q>>
<1> TAKE i, l, q, a \in Nat
<1>1. <<i, l, q>> \in Seq(Nat) /\ <<a>> \in Seq(Nat) /\ <<i, l, q, a>> \in Seq(Nat)
  OBVIOUS
<1>2. Len(<<i, l, q>>) = 3 /\ Len(<<a>>) = 1 /\ Len(<<i, l, q, a>>) = 4
  OBVIOUS
<1>3. <<i, l, q>> \o <<a>> = <<i, l, q, a>>
  <2>1. /\ Len(<<i, l, q>> \o <<a>>) = 4 /\ <<i, l, q>> \o <<a>> \in Seq(Nat)
        /\ \A k \in 1..4 : (<<i, l, q>> \o <<a>>)[k] = <<i, l, q, a>>[k]
    BY <1>1, <1>2, ConcatProperties
  <2> QED
    BY <1>1, <1>2, <2>1, SeqEqual
<1>4. SubSeq(<<i, l, q, a>>, 1, 3) = <<i, l, q>>
  <2>1. /\ Len(SubSeq(<<i, l, q, a>>, 1, 3)) = 3
        /\ \A k \in 1..3 : SubSeq(<<i, l, q, a>>, 1, 3)[k] = <<i, l, q>>[k]
    BY <1>1, <1>2, SubSeqProperties
  <2>2. SubSeq(<<i, l, q, a>>, 1, 3) \in Seq(Nat)
    BY <1>1, <1>2, SubSeqProperties
  <2> QED
    BY <1>1, <1>2, <2>1, <2>2, SeqEqual
<1> QED
  BY <1>3, <1>4

\* The branches of the rules that are configured.
LEMMA Branches ==
  ASSUME TypeOK, NEW i \in DOMAIN conf, NEW l \in DOMAIN conf[i], NEW q \in DOMAIN conf[i][l]
  PROVE  /\ Branch(conf[i][l][q]) \in Seq(Actions)
         /\ Len(Branch(conf[i][l][q])) \in Nat
         /\ DOMAIN Branch(conf[i][l][q]) = 1..Len(Branch(conf[i][l][q]))
<1>1. conf[i][l][q] \in Rule
  BY Places
<1>2. Branch(conf[i][l][q]) \in Seq(Actions)
  BY <1>1 DEF Rule, Branch
<1> QED
  BY <1>2, LenProperties

\* Nothing that a place is in is disabled.
Open(p) == {<<p[1]>>, <<p[1], p[2]>>, <<p[1], p[2], p[3]>>} \cap off = {}

\* What may happen is the conditions of the rules that are enabled and the actions
\* of the branches that they choose.
LEMMA TakenParts ==
  ASSUME TypeOK
  PROVE  /\ \A p \in Taken :
              /\ p \in Item /\ p[1] \in DOMAIN conf /\ p[2] \in DOMAIN conf[p[1]]
              /\ p[3] \in DOMAIN conf[p[1]][p[2]] /\ Open(p)
              /\ p[4] \in 0..Len(Branch(conf[p[1]][p[2]][p[3]]))
              /\ Ends(p) <=> p[4] > 0 /\ Branch(conf[p[1]][p[2]][p[3]])[p[4]] \in Final
         /\ \A i \in DOMAIN conf : \A l \in DOMAIN conf[i] : \A q \in DOMAIN conf[i][l] :
              \A a \in 0..Len(Branch(conf[i][l][q])) :
                Open(<<i, l, q, a>>) => <<i, l, q, a>> \in Taken
<1>1. ASSUME NEW p \in RulesOf(conf)
      PROVE  \E i \in DOMAIN conf : \E l \in DOMAIN conf[i] :
               \E q \in DOMAIN conf[i][l] : p = <<i, l, q>>
  <2>1. PICK k \in ListsOf(conf) : \E q \in DOMAIN conf[k[1]][k[2]] : p = <<k[1], k[2], q>>
    BY DEF RulesOf
  <2>2. PICK i \in DOMAIN conf : \E l \in DOMAIN conf[i] : k = <<i, l>>
    BY DEF ListsOf
  <2> QED
    BY <2>1, <2>2
<1>2. ASSUME NEW i \in DOMAIN conf, NEW l \in DOMAIN conf[i], NEW q \in DOMAIN conf[i][l]
      PROVE  i \in Nat /\ l \in Nat /\ q \in Nat /\ <<i, l, q>> \in RulesOf(conf)
  <2>1. <<i, l>> \in ListsOf(conf)
    BY DEF ListsOf
  <2>2. <<i, l, q>> \in RulesOf(conf)
    <3>1. <<i, l>>[1] = i /\ <<i, l>>[2] = l
      OBVIOUS
    <3> QED
      BY <2>1, <3>1 DEF RulesOf
  <2>3. i \in Nat /\ l \in Nat /\ q \in Nat
    BY Places
  <2> QED
    BY <2>2, <2>3
<1>3. ASSUME NEW p \in Taken
      PROVE  /\ p \in Item /\ p[1] \in DOMAIN conf /\ p[2] \in DOMAIN conf[p[1]]
             /\ p[3] \in DOMAIN conf[p[1]][p[2]] /\ Open(p)
             /\ p[4] \in 0..Len(Branch(conf[p[1]][p[2]][p[3]]))
             /\ Ends(p) <=> p[4] > 0 /\ Branch(conf[p[1]][p[2]][p[3]])[p[4]] \in Final
  <2>1. PICK e \in RulesOf(conf) : /\ Enabled(e)
                                   /\ \E a \in 0..Len(Branch(RuleAt(e))) : p = e \o <<a>>
    <3>1. \E e \in {x \in RulesOf(conf) : Enabled(x)} :
            p \in {e \o <<a>> : a \in 0..Len(Branch(RuleAt(e)))}
      BY Zenon DEF Taken
    <3> QED
      BY <3>1
  <2>2. PICK a \in 0..Len(Branch(RuleAt(e))) : p = e \o <<a>>
    BY <2>1
  <2>3. PICK i \in DOMAIN conf : \E l \in DOMAIN conf[i] :
               \E q \in DOMAIN conf[i][l] : e = <<i, l, q>>
    BY <1>1
  <2>4. PICK l \in DOMAIN conf[i] : \E q \in DOMAIN conf[i][l] : e = <<i, l, q>>
    BY <2>3
  <2>5. PICK q \in DOMAIN conf[i][l] : e = <<i, l, q>>
    BY <2>4
  <2>6. i \in Nat /\ l \in Nat /\ q \in Nat /\ a \in Nat
    <3>1. RuleAt(e) = conf[i][l][q]
      BY <2>5 DEF RuleAt
    <3>2. a \in 0..Len(Branch(conf[i][l][q])) /\ Len(Branch(conf[i][l][q])) \in Nat
      BY <3>1, Branches
    <3>3. a \in Nat
      BY <3>2
    <3>4. i \in Nat /\ l \in Nat /\ q \in Nat
      BY <1>2
    <3> QED
      BY <3>3, <3>4
  <2>7. p = <<i, l, q, a>> /\ SubSeq(<<i, l, q, a>>, 1, 3) = <<i, l, q>>
    BY <2>2, <2>5, <2>6, Four
  <2>8. p[1] = i /\ p[2] = l /\ p[3] = q /\ p[4] = a /\ p \in Item
    BY <2>6, <2>7 DEF Item
  <2>9. RuleAt(e) = conf[i][l][q]
    BY <2>5 DEF RuleAt
  <2>10. RuleAt(SubSeq(p, 1, 3)) = conf[i][l][q]
    BY <2>7 DEF RuleAt
  <2>11. Ends(p) <=> p[4] > 0 /\ Branch(conf[p[1]][p[2]][p[3]])[p[4]] \in Final
    BY <2>8, <2>10 DEF Ends
  <2>12. Open(p)
    BY <2>1, <2>5, <2>8 DEF Open, Enabled
  <2> QED
    BY <2>2, <2>8, <2>9, <2>11, <2>12
<1>4. ASSUME NEW i \in DOMAIN conf, NEW l \in DOMAIN conf[i], NEW q \in DOMAIN conf[i][l],
             NEW a, a \in 0..Len(Branch(conf[i][l][q])), Open(<<i, l, q, a>>)
      PROVE  <<i, l, q, a>> \in Taken
  <2>1. Enabled(<<i, l, q>>) /\ RuleAt(<<i, l, q>>) = conf[i][l][q]
    BY <1>4 DEF Open, Enabled, RuleAt
  <2>2. i \in Nat /\ l \in Nat /\ q \in Nat /\ a \in Nat
    <3>1. i \in Nat /\ l \in Nat /\ q \in Nat
      BY <1>2
    <3>2. a \in Nat
      BY <1>4, Branches
    <3> QED
      BY <3>1, <3>2
  <2>3. <<i, l, q>> \o <<a>> = <<i, l, q, a>> /\ SubSeq(<<i, l, q, a>>, 1, 3) = <<i, l, q>>
    BY <2>2, Four
  <2>4. \E e \in {x \in RulesOf(conf) : Enabled(x)} :
          <<i, l, q, a>> \in {e \o <<b>> : b \in 0..Len(Branch(RuleAt(e)))}
    <3>1. <<i, l, q>> \in {x \in RulesOf(conf) : Enabled(x)}
      BY <1>2, <2>1
    <3>2. a \in 0..Len(Branch(RuleAt(<<i, l, q>>)))
      BY <1>4, <2>1
    <3>3. <<i, l, q, a>> \in {<<i, l, q>> \o <<b>> : b \in 0..Len(Branch(RuleAt(<<i, l, q>>)))}
      BY <2>3, <3>2
    <3> QED
      BY <3>1, <3>3
  <2> QED
    BY <2>4 DEF Taken
<1> QED
  BY <1>3, <1>4

\* Before is total, and nothing is before itself.
LEMMA Total ==
  ASSUME NEW p \in Item, NEW o \in Item
  PROVE  /\ Before(p, o) \/ p = o \/ Before(o, p)
         /\ ~(Before(p, o) /\ Before(o, p)) /\ ~Before(p, p)
<1>1. \A x \in {p, o} : x[1] \in Nat /\ x[2] \in Nat /\ x[3] \in Nat /\ x[4] \in Nat
  BY DEF Item
<1>2. p[1] = o[1] /\ p[2] = o[2] /\ p[3] = o[3] /\ p[4] = o[4] => p = o
  BY DEF Item
<1>3. Before(p, o) \/ p = o \/ Before(o, p)
  BY <1>1, <1>2, Lexicographic
<1>4. ~(Before(p, o) /\ Before(o, p)) /\ ~Before(p, p)
  BY <1>1, Lexicographic
<1> QED
  BY <1>3, <1>4

\* One ruleset, and arrays that wait only in their first action: what is resumed
\* from an action behind the first one goes astray; and that end with their first
\* final action: what is behind it is not done (findings of README.md).
FirstAndLast(array) ==
  \A a \in DOMAIN array : (array[a] = "wait" => a = 1) /\ (array[a] \in Final => a = Len(array))
Arranged(c) ==
  /\ Len(c) = 1
  /\ \A l \in DOMAIN c[1] : \A q \in DOMAIN c[1][l] :
       FirstAndLast(c[1][l][q].then) /\ FirstAndLast(c[1][l][q].else)

\* A request that goes on after it waited carries something into its rule, up to
\* there, and begins every other list at its first rule and every array at its
\* first action.
Placed ==
  /\ ctx.rule.ac = 1
  /\ r \notin known \/ (at = "suspended" /\ wake = "fetch") => ran = <<>>
  /\ Waits => Carries
  /\ at \in {"ruleset", "enter"} /\ ~ctx.nocheck => Carries
  /\ at = "phase" /\ ~ctx.nocheck => Carries \/ ctx.rule.ru = 1

\* A new request starts at the top.
LEMMA PlacedInit == Init => Placed
  BY DEF Init, NewContext, Zeroed, Placed, Waits

\* What stays untouched is not updated.
LEMMA NoUpdate ==
  ASSUME TypeOK, Untouched, Untouched'
  PROVE  ~\E e \in Elements(conf) : Update(e)
<1> SUFFICES ASSUME NEW e \in Elements(conf), Update(e) PROVE FALSE
  OBVIOUS
<1>1. e \in DOMAIN gen /\ gen[e] \in Nat /\ gen' = [gen EXCEPT ![e] = gen[e] + 1]
  BY DEF Update, TypeOK
<1> QED
  BY <1>1 DEF Untouched

\* Only an update changes what is configured.
LEMMA RestUnchanged ==
  ASSUME [Next]_vars, ~\E e \in Elements(conf) : Update(e)
  PROVE  UNCHANGED <<conf, gen, off>>
<1> USE DEF Suspend, Goes
<1>1. FetchRuleset \/ EvalRuleset \/ EnterPhase \/ PhaseEnds \/ EnterList \/ ListEnds
      => UNCHANGED <<conf, gen, off>>
  BY DEF FetchRuleset, EvalRuleset, EnterPhase, PhaseEnds, NextRuleset, EnterList, ListEnds
<1>2. DisabledRule \/ Concludes \/ Defers \/ DoneBefore => UNCHANGED <<conf, gen, off>>
  BY DEF DisabledRule, Concludes, Defers, DoneBefore, Acts
<1>3. Tag \/ WaitStarts \/ WaitEnds \/ Decide \/ ActionsEnd => UNCHANGED <<conf, gen, off>>
  BY DEF Tag, WaitStarts, WaitEnds, Decide, ActionsEnd, NextAction
<1>4. Handle \/ Close \/ Refused \/ UNCHANGED vars => UNCHANGED <<conf, gen, off>>
  BY DEF Handle, Close, Refused, vars
<1> QED
  BY <1>1, <1>2, <1>3, <1>4 DEF Next, Evaluate

\* An array waits only in its first action.
LEMMA OnlyFirstWaits ==
  ASSUME TypeOK, Within, Arranged(conf), r = 1, at = "action",
         pos.a <= Len(Array), Array[pos.a] = "wait"
  PROVE  pos.a = 1
<1>1. pos.l \in DOMAIN conf[1] /\ pos.q \in DOMAIN conf[1][pos.l]
  BY DEF Within
<1>2. RuleAt(ThisRule) = conf[1][pos.l][pos.q]
  BY DEF RuleAt, ThisRule
<1>3. Array \in {conf[1][pos.l][pos.q].then, conf[1][pos.l][pos.q].else}
  BY <1>2 DEF Array
<1>4. FirstAndLast(Array)
  BY <1>1, <1>3 DEF Arranged
<1>5. Array \in Seq(Actions)
  <2>1. conf[1][pos.l][pos.q] \in Rule
    BY <1>1, Places
  <2> QED
    BY <1>3, <2>1 DEF Rule
<1>6. pos.a \in DOMAIN Array
  BY <1>5, LenProperties, Numbers
<1> QED
  BY <1>4, <1>6 DEF FirstAndLast

\* While nothing is updated, it is kept; and nothing is configured otherwise.
LEMMA PlacedStep ==
  ASSUME TypeOK, Within, Sequential, Carried, Placed, Arranged(conf),
         Untouched, Untouched', TypeOK', [Next]_vars
  PROVE  Placed' /\ UNCHANGED <<conf, gen, off>> /\ r = 1 /\ r' = 1
<1>1. ctx \in Context /\ pos \in Position /\ wake \in Wakes /\ at \in Place
  BY DEF TypeOK
<1>2. Resumable
  BY DEF Sequential
<1>3. ~\E e \in Elements(conf) : Update(e)
  BY NoUpdate
<1>4. UNCHANGED <<conf, gen, off>>
  BY <1>3, RestUnchanged
<1>5. r = 1 /\ r' = 1
  <2>1. Len(conf) = 1 /\ DOMAIN conf = 1..Len(conf) /\ r \in DOMAIN conf
    BY Places DEF Arranged, TypeOK, Context, r
  <2>2. r' \in DOMAIN conf
    BY <1>4 DEF TypeOK, Context, r
  <2> QED
    BY <2>1, <2>2
<1> USE DEF Suspend, Goes
<1>6. ASSUME ctx'.rule = ctx.rule, ctx'.nocheck = ctx.nocheck, UNCHANGED <<known, ran>>,
             at' # "suspended", at' \in {"ruleset", "enter"} => at \in {"ruleset", "enter"},
             at' = "phase" => at \in {"enter", "phase"}
      PROVE  Placed'
  BY <1>5, <1>6 DEF Placed, Waits, Carries
<1>7. ASSUME NextRuleset, UNCHANGED ran PROVE Placed'
  <2>1. UNCHANGED <<ctx, known>> /\ at' = "pass"
    BY <1>5, <1>7 DEF NextRuleset, Arranged
  <2> QED
    BY <1>6, <1>7, <2>1
<1>8. ASSUME FetchRuleset PROVE Placed'
  <2>1. /\ at' = "suspended" /\ wake' = "fetch" /\ UNCHANGED ran /\ r \notin known
        /\ ctx'.rule = ctx.rule
    BY <1>1, <1>8, Saved DEF FetchRuleset
  <2> QED
    BY <2>1 DEF Placed, Waits
<1>9. ASSUME EvalRuleset PROVE Placed'
  BY <1>6, <1>7, <1>9 DEF EvalRuleset
<1>10. ASSUME EnterPhase PROVE Placed'
  BY <1>6, <1>10 DEF EnterPhase
<1>11. ASSUME PhaseEnds PROVE Placed'
  BY <1>7, <1>11 DEF PhaseEnds
<1>12. ASSUME EnterList PROVE Placed'
  <2>1. /\ at = "phase" /\ UNCHANGED <<known, ran>>
        /\ ctx' = [ctx EXCEPT !.li = pos.l] /\ at' \in {"phase", "list"}
    BY <1>12 DEF EnterList
  <2>2. ctx'.rule = ctx.rule /\ ctx'.nocheck = ctx.nocheck
    BY <1>1, <2>1 DEF Context
  <2> QED
    BY <1>6, <2>1, <2>2
\* What goes on in a list or leaves one.
<1>13. ASSUME at' \in {"list", "action", "pass", "reject"}, ctx'.rule.ac = 1,
              at \in {"list", "action"}, UNCHANGED known
       PROVE  Placed'
  <2>1. r \in known
    BY <1>2, <1>13 DEF Resumable
  <2> QED
    BY <1>5, <1>13, <2>1 DEF Placed, Waits
<1>14. ctx.rule.ac = 1 /\ ctx.rule \in RuleContext
  BY <1>1 DEF Placed, Context
<1>15. Checked.rule.ac = 1 /\ Checked.rule \in RuleContext /\ Checked \in Context
  BY <1>1, <1>14, CheckedContext DEF Checked, Zeroed, Context, RuleContext
<1>16. ASSUME ListEnds PROVE Placed'
  <2>1. /\ at = "list" /\ at' = "phase" /\ UNCHANGED <<known, ran>>
        /\ ctx'.rule.ru = 1 /\ ctx'.rule.ac = ctx.rule.ac
    BY <1>1, <1>14, <1>16 DEF ListEnds, Context, RuleContext
  <2>2. r \in known
    BY <1>2, <2>1 DEF Resumable
  <2> QED
    BY <1>5, <1>14, <2>1, <2>2 DEF Placed, Waits
<1>17. ASSUME DisabledRule PROVE Placed'
  <2>1. /\ at = "list" /\ at' = "list" /\ UNCHANGED known /\ ctx'.rule.ac = ctx.rule.ac
    BY <1>1, <1>14, <1>17 DEF DisabledRule, AtRule, Context, RuleContext
  <2> QED
    BY <1>13, <1>14, <2>1
<1>18. ASSUME Concludes PROVE Placed'
  <2>1. /\ at = "list" /\ at' = "action" /\ UNCHANGED known /\ ctx'.rule.ac = Checked.rule.ac
    BY <1>15, <1>18 DEF Concludes, AtRule, Acts, Context, RuleContext
  <2> QED
    BY <1>13, <1>15, <2>1
<1>19. ASSUME DoneBefore PROVE Placed'
  BY <1>13, <1>15, <1>19 DEF DoneBefore, AtRule, Acts
<1>20. ASSUME Defers PROVE Placed'
  <2>1. at = "list" /\ at' = "suspended" /\ wake' \in {"delay", "answer"} /\ UNCHANGED known
    BY <1>20 DEF Defers, AtRule
  <2>2. PICK c \in Context :
          /\ ctx' = ListDeferred(c)
          /\ \E mark \in Mark : c.rule = [Checked.rule EXCEPT !.stack = <<mark>>]
    BY <1>20, DefersSaves
  <2>3. ctx'.rule.ac = 1 /\ ctx'.rule.stack # <<>>
    <3>1. ctx'.rule = c.rule
      BY <2>2, Saved
    <3>2. PICK mark \in Mark : c.rule = [Checked.rule EXCEPT !.stack = <<mark>>]
      BY <2>2
    <3>3. c.rule.ac = 1 /\ c.rule.stack = <<mark>>
      BY <1>15, <3>2 DEF RuleContext
    <3> QED
      BY <3>1, <3>3
  <2>4. r \in known
    BY <1>2, <2>1 DEF Resumable
  <2> QED
    BY <1>5, <2>1, <2>3, <2>4 DEF Placed, Carries
<1>21. ASSUME Tag \/ WaitEnds \/ Decide \/ ActionsEnd PROVE Placed'
  <2>1. /\ at = "action" /\ at' \in {"list", "action", "pass", "reject"} /\ UNCHANGED known
    BY <1>21 DEF Tag, WaitEnds, Decide, ActionsEnd, AtAction, NextAction
  <2>2. ctx'.rule.ac = ctx.rule.ac
    <3>1. \/ ctx' = ctx
          \/ ctx' = [ctx EXCEPT !.rule.data = FALSE]
          \/ ctx' = [ctx EXCEPT !.rule.done = FALSE, !.rule.true = FALSE]
      BY <1>21 DEF Tag, WaitEnds, Decide, ActionsEnd, NextAction
    <3> QED
      BY <1>1, <1>14, <3>1 DEF Context, RuleContext
  <2> QED
    BY <1>13, <1>14, <2>1, <2>2
<1>22. ASSUME WaitStarts PROVE Placed'
  <2>1. /\ at = "action" /\ at' = "suspended" /\ wake' = "wait" /\ UNCHANGED known
        /\ pos.a <= Len(Array) /\ Array[pos.a] = "wait"
    BY <1>22 DEF WaitStarts, AtAction
  <2>2. PICK c \in Context :
          /\ ctx' = ListDeferred(c)
          /\ c.rule = [ctx.rule EXCEPT !.ruGen = gen[ThisRule], !.ac = pos.a, !.data = FALSE]
    BY <1>22, WaitSaves
  <2>3. ctx'.rule.ac = pos.a /\ ctx'.rule.done = ctx.rule.done
    <3>1. ctx'.rule = c.rule
      BY <2>2, Saved
    <3>2. c.rule.ac = pos.a /\ c.rule.done = ctx.rule.done
      BY <1>14, <2>2 DEF RuleContext
    <3> QED
      BY <3>1, <3>2
  <2>4. pos.a = 1
    BY <1>5, <2>1, OnlyFirstWaits
  <2>5. ctx.rule.done /\ r \in known
    BY <1>2, <2>1 DEF Resumable
  <2> QED
    BY <1>5, <2>1, <2>3, <2>4, <2>5 DEF Placed, Carries
<1>23. ASSUME Close PROVE Placed'
  <2>1. at' = "closed" /\ UNCHANGED <<known, ran>> /\ ctx'.rule.ac = ctx.rule.ac
    BY <1>1, <1>14, <1>23 DEF Close, Context, RuleContext
  <2> QED
    BY <1>5, <2>1 DEF Placed, Waits
<1>24. ASSUME Refused PROVE Placed'
  <2>1. at' = "suspended" /\ wake' = "none" /\ UNCHANGED <<known, ran>>
    BY <1>24 DEF Refused
  <2>2. [ctx EXCEPT !.phGen = 0] \in Context /\ [ctx EXCEPT !.phGen = 0].rule = ctx.rule
    BY <1>1 DEF Context, Generation
  <2>3. /\ [ctx EXCEPT !.li = pos.l, !.liGen = 0] \in Context
        /\ [ctx EXCEPT !.li = pos.l, !.liGen = 0].rule = ctx.rule
    BY <1>1, Moves DEF Context, Generation
  <2>4. /\ [ctx EXCEPT !.rule.ru = pos.q] \in Context
        /\ [ctx EXCEPT !.rule.ru = pos.q].rule.ac = ctx.rule.ac
    BY <1>1, Moves DEF Context, RuleContext
  <2>5. ctx'.rule.ac = ctx.rule.ac
    <3>1. CASE ctx' = RulesetDeferred(ctx)
      BY <1>1, <3>1, Saved
    <3>2. CASE ctx' = RulesetDeferred([ctx EXCEPT !.phGen = 0])
      BY <2>2, <3>2, Saved
    <3>3. CASE ctx' = PhaseDeferred([ctx EXCEPT !.li = pos.l, !.liGen = 0])
      BY <2>3, <3>3, Saved
    <3>4. CASE ctx' = ListDeferred([ctx EXCEPT !.rule.ru = pos.q])
      BY <2>4, <3>4, Saved
    <3> QED
      BY <1>24, <3>1, <3>2, <3>3, <3>4 DEF Refused
  <2> QED
    BY <1>5, <2>1, <2>5 DEF Placed, Waits
<1>25. ASSUME Handle PROVE Placed'
  <2>1. /\ at = "new" \/ (at = "suspended" /\ wake # "none")
        /\ at' = "ruleset" /\ known \subseteq known'
        /\ ran' = IF wake = "fetch" THEN <<>> ELSE ran
        /\ ctx' = [Woken EXCEPT !.rs = FirstRuleset(Woken)]
    BY <1>25 DEF Handle
  <2>2. /\ ctx'.rule.ac = ctx.rule.ac /\ ctx'.rule.stack = ctx.rule.stack
        /\ ctx'.rule.done = ctx.rule.done
        /\ ctx'.nocheck = (ctx.nocheck \/ wake = "fetch")
    BY <1>1, <1>14, <2>1 DEF Woken, Context, RuleContext
  <2>3. r' \notin known' => ran' = <<>>
    BY <1>5, <2>1 DEF Placed
  <2>4. ~ctx'.nocheck => Carries'
    <3>1. CASE at = "new"
      BY <1>2, <2>2, <3>1 DEF Resumable
    <3>2. CASE at = "suspended" /\ wake # "fetch"
      BY <1>1, <2>1, <2>2, <3>2 DEF Placed, Waits, Wakes, Carries
    <3>3. CASE wake = "fetch"
      BY <2>2, <3>3
    <3> QED
      BY <2>1, <3>1, <3>2, <3>3
  <2> QED
    BY <2>1, <2>2, <2>3, <2>4 DEF Placed, Waits
<1>26. ASSUME UNCHANGED vars PROVE Placed'
  <2>1. known' = known /\ ctx' = ctx /\ at' = at /\ wake' = wake /\ ran' = ran
    BY <1>26 DEF vars
  <2> QED
    BY <1>5, <2>1 DEF Placed, Waits, Carries
<1>27. Placed'
  BY <1>3, <1>8, <1>9, <1>10, <1>11, <1>12, <1>16, <1>17, <1>18, <1>19, <1>20, <1>21, <1>22,
     <1>23, <1>24, <1>25, <1>26 DEF Next, Evaluate
<1> QED
  BY <1>4, <1>5, <1>27

\* What could have happened before the place that the request is at has happened,
\* and nothing of it was a verdict.
Happened == {ran[i] : i \in DOMAIN ran}
Covers ==
  Running \/ Waits =>
    \A p \in Taken : Before(p, Frontier) => p \in Happened /\ ~Ends(p)

\* What may happen, and what is due, is a matter of the configuration alone.
LEMMA SameTaken ==
  ASSUME UNCHANGED <<conf, off>>
  PROVE  Taken' = Taken /\ Due' = Due /\ \A p : Ends(p)' <=> Ends(p)
<1>1. conf' = conf /\ off' = off
  OBVIOUS
<1>2. Taken' = Taken
  BY <1>1 DEF Taken, RulesOf, ListsOf, Enabled, Branch, RuleAt
<1>3. \A p : Ends(p)' <=> Ends(p)
  BY <1>1 DEF Ends, Branch, RuleAt
<1> QED
  BY <1>2, <1>3 DEF Due

\* From one place to the next nothing is left out that could have happened.
LEMMA Passed ==
  ASSUME TypeOK, Len(conf) = 1, NEW f \in Item, NEW g \in Item, f[1] = 1, g[1] = 1,
         \/ f = g
         \/ /\ g[2] = f[2] + 1 /\ g[3] \in {0, 1} /\ g[4] = 0
            /\ \A p \in Taken : p[2] = f[2] => Before(p, f)
         \/ /\ g[2] = f[2] /\ g[3] = f[3] + 1 /\ g[4] = 0
            /\ \A p \in Taken : p[2] = f[2] /\ p[3] = f[3] => Before(p, f)
  PROVE  \A p \in Taken : Before(p, g) => Before(p, f)
<1> SUFFICES ASSUME NEW p \in Taken, Before(p, g) PROVE Before(p, f)
  OBVIOUS
<1>1. /\ p \in Item /\ p[1] = 1 /\ p[2] \in Nat \ {0} /\ p[3] \in Nat \ {0} /\ p[4] \in Nat
  <2>1. /\ p \in Item /\ p[1] \in DOMAIN conf /\ p[2] \in DOMAIN conf[p[1]]
        /\ p[3] \in DOMAIN conf[p[1]][p[2]]
    BY TakenParts
  <2>2. DOMAIN conf = 1..1
    BY Places
  <2>3. p[1] = 1
    BY <2>1, <2>2
  <2>4. p[2] \in Nat \ {0} /\ p[3] \in Nat \ {0}
    BY <2>1, Places
  <2> QED
    BY <2>1, <2>3, <2>4 DEF Item
<1>2. \A x \in {f, g} : x[2] \in Nat /\ x[3] \in Nat /\ x[4] \in Nat
  BY DEF Item
<1>3. CASE f = g
  BY <1>3
<1>4. CASE /\ g[2] = f[2] + 1 /\ g[3] \in {0, 1} /\ g[4] = 0
           /\ \A o \in Taken : o[2] = f[2] => Before(o, f)
  <2>1. p[2] < f[2] + 1
    BY <1>1, <1>2, <1>4, Lexicographic
  <2> QED
    BY <1>1, <1>2, <1>4, <2>1, Lexicographic
<1>5. CASE /\ g[2] = f[2] /\ g[3] = f[3] + 1 /\ g[4] = 0
           /\ \A o \in Taken : o[2] = f[2] /\ o[3] = f[3] => Before(o, f)
  <2>1. p[2] < f[2] \/ (p[2] = f[2] /\ p[3] < f[3] + 1)
    BY <1>1, <1>2, <1>5, Lexicographic
  <2> QED
    BY <1>1, <1>2, <1>5, <2>1, Lexicographic
<1> QED
  BY <1>3, <1>4, <1>5

\* A step that only goes on does not show.
LEMMA Stays ==
  ASSUME TypeOK, Covers, UNCHANGED <<conf, off, ran>>,
         at \notin Over \cup {"aborted"}, at' \notin Over \cup {"aborted"},
         Running' \/ Waits' =>
           /\ Running \/ Waits
           /\ \A p \in Taken : Before(p, Frontier') => Before(p, Frontier)
  PROVE  Covers' /\ UNCHANGED Order!vars
<1>1. Taken' = Taken /\ Due' = Due /\ \A p : Ends(p)' <=> Ends(p)
  BY SameTaken
<1>2. ran' = ran
  OBVIOUS
<1>3. Happened' = Happened
  BY <1>2 DEF Happened
<1>4. Covers'
  <2> SUFFICES ASSUME Running' \/ Waits', NEW p \in Taken, Before(p, Frontier')
               PROVE  p \in Happened /\ ~Ends(p)
    BY <1>1, <1>3 DEF Covers
  <2> QED
    BY DEF Covers
<1>5. UNCHANGED Order!vars
  BY <1>1, <1>2 DEF Order!vars
<1> QED
  BY <1>4, <1>5

\* Nothing is left, and nothing rejected the request.
LEMMA NothingLeft ==
  ASSUME UNCHANGED <<conf, off, ran>>, Running, at' = "pass",
         \A p \in Due : p \in Happened
  PROVE  Covers' /\ Order!Next
<1>1. Due' = Due /\ ran' = ran
  BY SameTaken
<1>2. Covers'
  BY DEF Covers, Running, Waits
<1>3. Order!Pass
  BY <1>1 DEF Order!Pass, Running, Over, Happened
<1> QED
  BY <1>2, <1>3 DEF Order!Next

\* Nothing that may happen in the array of a final action is behind it.
LEMMA NothingBehind ==
  ASSUME TypeOK, Arranged(conf), NEW p \in Taken, NEW o \in Taken, Ends(p), SameArray(p, o)
  PROVE  ~Before(p, o)
<1> DEFINE rule == conf[p[1]][p[2]][p[3]]
           array == Branch(rule)
<1>1. /\ p \in Item /\ p[1] \in DOMAIN conf /\ p[2] \in DOMAIN conf[p[1]]
      /\ p[3] \in DOMAIN conf[p[1]][p[2]] /\ p[4] \in 0..Len(array)
      /\ p[4] > 0 /\ array[p[4]] \in Final
  BY TakenParts
<1>2. /\ o \in Item /\ o[1] = p[1] /\ o[2] = p[2] /\ o[3] = p[3]
      /\ o[4] \in 0..Len(Branch(conf[o[1]][o[2]][o[3]]))
  <2>1. o \in Item /\ o[4] \in 0..Len(Branch(conf[o[1]][o[2]][o[3]]))
    BY TakenParts
  <2> QED
    BY <2>1 DEF SameArray
<1>3. array \in Seq(Actions) /\ FirstAndLast(array)
  <2>1. Len(conf) = 1 /\ DOMAIN conf = {1}
    BY Places DEF Arranged, TypeOK
  <2>2. rule \in Rule /\ p[1] = 1
    BY <1>1, <2>1, Places
  <2>3. array \in {rule.then, rule.else}
    BY DEF Branch
  <2> QED
    BY <1>1, <2>2, <2>3 DEF Arranged, Rule
<1>4. p[4] = Len(array)
  BY <1>1, <1>3, LenProperties DEF FirstAndLast
<1>5. o[4] <= p[4] /\ o[4] \in Nat /\ p[4] \in Nat
  BY <1>1, <1>2, <1>3, <1>4, LenProperties
<1> QED
  BY <1>1, <1>2, <1>5, Lexicographic DEF Item

\* What the request is about to do is what is due next.
LEMMA Happens ==
  ASSUME TypeOK, Sequential, Covers, Untouched, Running, UNCHANGED <<conf, off>>,
         Arranged(conf), NEW item, item = Frontier, item \in Taken, ran' = Append(ran, item),
         \/ /\ Running' /\ ~Ends(item)
            /\ \A p \in Taken : Before(p, Frontier') => Before(p, item) \/ p = item
         \/ at' \in {"pass", "reject"} /\ Ends(item)
  PROVE  Covers' /\ Order!Next
<1>1. Taken' = Taken /\ Due' = Due /\ \A p : Ends(p)' <=> Ends(p)
  BY SameTaken
<1>2. item \in Item /\ \A p \in Taken : p \in Item
  BY TakenParts
<1>3. Happened' = Happened \cup {item}
  <2>1. ran \in Seq(Item)
    BY DEF Sequential
  <2>2. /\ DOMAIN ran = 1..Len(ran) /\ Len(ran) \in Nat
        /\ DOMAIN ran' = 1..(Len(ran) + 1)
        /\ \A i \in DOMAIN ran : ran'[i] = ran[i]
        /\ ran'[Len(ran) + 1] = item
    BY <1>2, <2>1, LenProperties, AppendProperties
  <2> QED
    BY <2>2 DEF Happened
<1>4. item \notin Happened
  <2>1. \A i \in DOMAIN ran : Before(ran[i], item)
    BY DEF Sequential
  <2>2. ~Before(item, item)
    BY <1>2, Total
  <2> QED
    BY <2>1, <2>2 DEF Happened
<1>5. \A p \in Taken : Before(p, item) => p \in Happened /\ ~Ends(p)
  BY DEF Covers
<1>6. item \in Due
  BY <1>5 DEF Due
<1>7. ASSUME NEW o \in Due, o # item, o \notin Happened
      PROVE  Before(item, o)
  <2>1. o \in Taken
    BY DEF Due
  <2> QED
    BY <1>2, <1>5, <1>7, <2>1, Total
<1>8. Ends(item) => \A o \in Due : o = item \/ o \in Happened
  <2> SUFFICES ASSUME Ends(item), NEW o \in Due, o # item, o \notin Happened PROVE FALSE
    OBVIOUS
  <2>1. o \in Taken /\ Before(item, o) /\ SameArray(item, o)
    BY <1>7 DEF Due
  <2> QED
    BY <2>1, NothingBehind
<1>9. Covers'
  <2> SUFFICES ASSUME Running' \/ Waits', NEW p \in Taken, Before(p, Frontier')
               PROVE  p \in Happened' /\ ~Ends(p)
    BY <1>1 DEF Covers
  <2>1. Running' /\ ~Ends(item) /\ (Before(p, item) \/ p = item)
    BY DEF Running, Waits
  <2> QED
    BY <1>3, <1>5, <2>1
<1>10. (Due \ Happened)' = (Due \ Happened) \ {item}
  BY <1>1, <1>3
<1>11. Order!Run(item)
  <2>1. (IF at \in Over \cup {"aborted"} THEN at ELSE "none") = "none"
    BY DEF Running, Over
  <2>2. \/ (IF at' \in Over \cup {"aborted"} THEN at' ELSE "none") = "none"
        \/ /\ (IF at' \in Over \cup {"aborted"} THEN at' ELSE "none") \in {"pass", "reject"}
           /\ (Due \ Happened)' = {}
    <3>1. CASE Running'
      BY <3>1 DEF Running, Over
    <3>2. CASE at' \in {"pass", "reject"} /\ Ends(item)
      BY <1>8, <1>10, <3>2 DEF Over
    <3> QED
      BY <3>1, <3>2
  <2>3. item \in Due \ Happened /\ \A o \in (Due \ Happened) \ {item} : Before(item, o)
    BY <1>4, <1>6, <1>7
  <2> QED
    BY <1>10, <2>1, <2>2, <2>3 DEF Order!Run, Happened
<1>12. item \in Due \ Happened
  BY <1>4, <1>6
<1> QED
  BY <1>9, <1>11, <1>12 DEF Order!Next, Happened

\* Every step of an evaluation is one of its order, or does not show.
LEMMA OrderStep ==
  ASSUME TypeOK, Within, SavedList, Sequential, Carried, Placed, Covers, Arranged(conf),
         Untouched, Untouched', TypeOK', SavedList', [Next]_vars
  PROVE  Covers' /\ (Order!Next \/ UNCHANGED Order!vars)
<1>1. /\ ctx \in Context /\ pos \in Position /\ wake \in Wakes /\ at \in Place
      /\ ctx.rule \in RuleContext
  BY DEF TypeOK, Context
<1>2. conf' = conf /\ gen' = gen /\ off' = off /\ r = 1 /\ r' = 1 /\ Len(conf) = 1 /\ Placed'
  BY PlacedStep DEF Arranged
<1>3. Frontier \in Item /\ Frontier' \in Item
  <2>1. (TypeOK => Frontier \in Item)'
    BY FrontierType, PTL
  <2> QED
    BY <2>1, FrontierType
<1>4. /\ Frontier[1] = 1
      /\ Frontier[2] = IF at \in {"phase", "list", "action"} THEN pos.l
                       ELSE IF ctx.nocheck THEN 0 ELSE ctx.li
      /\ Frontier[3] = IF at \in {"list", "action"} THEN pos.q
                       ELSE IF ctx.nocheck THEN 0 ELSE ctx.rule.ru
      /\ Frontier[4] = IF at = "action" THEN pos.a
                       ELSE IF ctx.nocheck \/ ~ctx.rule.done THEN 0 ELSE 1
  BY <1>2, FrontierParts DEF Placed
<1>5. /\ Frontier'[1] = 1
      /\ Frontier'[2] = IF at' \in {"phase", "list", "action"} THEN pos'.l
                        ELSE IF ctx'.nocheck THEN 0 ELSE ctx'.li
      /\ Frontier'[3] = IF at' \in {"list", "action"} THEN pos'.q
                        ELSE IF ctx'.nocheck THEN 0 ELSE ctx'.rule.ru
      /\ Frontier'[4] = IF at' = "action" THEN pos'.a
                        ELSE IF ctx'.nocheck \/ ~ctx'.rule.done THEN 0 ELSE 1
  <2>1. Frontier'[1] = r' /\ Frontier'[2] = (IF at' \in {"phase", "list", "action"} THEN pos'.l
                                             ELSE IF ctx'.nocheck THEN 0 ELSE ctx'.li)
    BY DEF Frontier
  <2>2. /\ Frontier'[3] = (IF at' \in {"list", "action"} THEN pos'.q
                           ELSE IF ctx'.nocheck THEN 0 ELSE ctx'.rule.ru)
        /\ Frontier'[4] = (IF at' = "action" THEN pos'.a
                           ELSE IF ctx'.nocheck \/ ~ctx'.rule.done THEN 0 ELSE ctx'.rule.ac)
    BY DEF Frontier
  <2> QED
    BY <1>2, <2>1, <2>2 DEF Placed
<1>6. Resumable
  BY DEF Sequential
\* A step that goes on without anything that happens.
<1>7. ASSUME UNCHANGED ran, at \notin Over \cup {"aborted"}, at' \notin Over \cup {"aborted"},
             Running' \/ Waits' =>
               /\ Running \/ Waits
               /\ \/ /\ Frontier'[2] = Frontier[2] /\ Frontier'[3] = Frontier[3]
                     /\ Frontier'[4] = Frontier[4]
                  \/ /\ Frontier'[2] = Frontier[2] + 1 /\ Frontier'[3] \in {0, 1}
                     /\ Frontier'[4] = 0
                     /\ \A p \in Taken : p[2] = Frontier[2] => Before(p, Frontier)
                  \/ /\ Frontier'[2] = Frontier[2] /\ Frontier'[3] = Frontier[3] + 1
                     /\ Frontier'[4] = 0
                     /\ \A p \in Taken : p[2] = Frontier[2] /\ p[3] = Frontier[3]
                                         => Before(p, Frontier)
      PROVE  Covers' /\ UNCHANGED Order!vars
  <2>1. ASSUME Running' \/ Waits'
        PROVE  (Running \/ Waits) /\ \A p \in Taken : Before(p, Frontier') => Before(p, Frontier)
    <3> DEFINE f == Frontier
               g == Frontier'
    <3>1. f \in Item /\ g \in Item /\ f[1] = 1 /\ g[1] = 1
      BY <1>3, <1>4, <1>5
    <3>2. f[2] = g[2] /\ f[3] = g[3] /\ f[4] = g[4] => f = g
      BY <3>1 DEF Item
    <3>3. \/ f = g
          \/ /\ g[2] = f[2] + 1 /\ g[3] \in {0, 1} /\ g[4] = 0
             /\ \A p \in Taken : p[2] = f[2] => Before(p, f)
          \/ /\ g[2] = f[2] /\ g[3] = f[3] + 1 /\ g[4] = 0
             /\ \A p \in Taken : p[2] = f[2] /\ p[3] = f[3] => Before(p, f)
      BY <1>7, <2>1, <3>2
    <3> HIDE DEF f, g
    <3>4. \A p \in Taken : Before(p, g) => Before(p, f)
      BY <1>2, <3>1, <3>3, Passed
    <3> QED
      BY <1>7, <2>1, <3>4 DEF f, g
  <2> QED
    BY <1>2, <1>7, <2>1, Stays
\* What a place has behind it.
<1>8. \A p \in Taken : /\ p \in Item /\ p[1] = 1 /\ p[2] \in DOMAIN conf[1]
                       /\ p[3] \in DOMAIN conf[1][p[2]] /\ Open(p)
                       /\ p[4] \in 0..Len(Branch(conf[1][p[2]][p[3]]))
                       /\ p[2] \in Nat \ {0} /\ p[3] \in Nat \ {0} /\ p[4] \in Nat
  <2> SUFFICES ASSUME NEW p \in Taken
               PROVE  /\ p \in Item /\ p[1] = 1 /\ p[2] \in DOMAIN conf[1]
                      /\ p[3] \in DOMAIN conf[1][p[2]] /\ Open(p)
                      /\ p[4] \in 0..Len(Branch(conf[1][p[2]][p[3]]))
                      /\ p[2] \in Nat \ {0} /\ p[3] \in Nat \ {0} /\ p[4] \in Nat
    OBVIOUS
  <2>1. /\ p \in Item /\ p[1] \in DOMAIN conf /\ p[2] \in DOMAIN conf[p[1]]
        /\ p[3] \in DOMAIN conf[p[1]][p[2]] /\ Open(p)
        /\ p[4] \in 0..Len(Branch(conf[p[1]][p[2]][p[3]]))
    BY TakenParts
  <2>2. p[1] = 1
    <3>1. DOMAIN conf = 1..1
      BY <1>2, Places
    <3> QED
      BY <2>1, <3>1
  <2>3. p[2] \in Nat \ {0} /\ p[3] \in Nat \ {0}
    <3>1. DOMAIN conf[p[1]] = 1..Len(conf[p[1]]) /\ Len(conf[p[1]]) \in Nat
      BY <2>1, Places
    <3>2. /\ DOMAIN conf[p[1]][p[2]] = 1..Len(conf[p[1]][p[2]])
          /\ Len(conf[p[1]][p[2]]) \in Nat
      BY <2>1, Places
    <3> QED
      BY <2>1, <3>1, <3>2
  <2> QED
    BY <2>1, <2>2, <2>3 DEF Item
\* What is carried into a list or a rule that is enabled.
<1>9. /\ at \in {"ruleset", "enter", "phase", "list"} /\ ctx.nocheck => ~ctx.rule.done
      /\ at = "phase" /\ ThisList \in off => ~Carries
      /\ at = "list" /\ (ThisRule \in off \/ pos.q \notin DOMAIN conf[1][pos.l]) => ~Carries
  <2>1. ((Running /\ at # "action") \/ Waits) /\ Carries => OnTheWay
    BY DEF Carried
  <2>2. at \in {"ruleset", "enter", "phase", "list"} /\ ctx.nocheck => ~ctx.rule.done
    BY <2>1 DEF OnTheWay, Running, Carries
  <2>3. at = "phase" /\ ThisList \in off => ~Carries
    BY <2>1 DEF OnTheWay, Running, ThisList
  <2>4. at = "list" /\ (ThisRule \in off \/ pos.q \notin DOMAIN conf[1][pos.l]) => ~Carries
    BY <1>2, <2>1 DEF OnTheWay, Running, ThisRule, Left
  <2> QED
    BY <2>2, <2>3, <2>4
<1>10. at \in {"phase", "list"} /\ ~Carries => Frontier[4] = 0
  BY <1>4 DEF Carries
<1> USE DEF Suspend, Goes
<1>11. ASSUME FetchRuleset PROVE Covers' /\ UNCHANGED Order!vars
  <2>1. at = "ruleset" /\ at' = "suspended" /\ wake' = "fetch" /\ UNCHANGED ran
    BY <1>11 DEF FetchRuleset
  <2> QED
    BY <1>7, <2>1 DEF Running, Waits, Over
<1>12. ASSUME at \in {"ruleset", "phase"}, NextRuleset, UNCHANGED ran,
              \A p \in Taken : Before(p, Frontier)
       PROVE  Covers' /\ Order!Next
  <2>1. at' = "pass"
    BY <1>2, <1>12 DEF NextRuleset
  <2>2. \A p \in Due : p \in Happened
    BY <1>12 DEF Due, Covers, Running
  <2> QED
    BY <1>2, <1>12, <2>1, <2>2, NothingLeft DEF Running
<1>13. ASSUME EvalRuleset PROVE Covers' /\ (Order!Next \/ UNCHANGED Order!vars)
  <2>1. at = "ruleset" /\ UNCHANGED ran
    BY <1>13 DEF EvalRuleset
  <2>2. CASE <<r>> \in off
    <3>1. Taken = {}
      BY <1>2, <1>8, <2>2 DEF Open
    <3> QED
      BY <1>12, <1>13, <2>1, <2>2, <3>1 DEF EvalRuleset
  <2>3. CASE <<r>> \notin off
    <3>1. at' = "enter" /\ UNCHANGED <<ctx, pos>>
      BY <1>13, <2>3 DEF EvalRuleset
    <3>2. /\ Frontier'[2] = Frontier[2] /\ Frontier'[3] = Frontier[3]
          /\ Frontier'[4] = Frontier[4]
      BY <1>4, <1>5, <2>1, <3>1
    <3> QED
      BY <1>7, <2>1, <3>1, <3>2 DEF Running, Over
  <2> QED
    BY <2>2, <2>3
<1>14. ASSUME EnterPhase PROVE Covers' /\ UNCHANGED Order!vars
  <2>1. at = "enter" /\ at' = "phase" /\ UNCHANGED <<ctx, ran>>
    BY <1>2, <1>14 DEF EnterPhase, SavedList
  <2>2. gen[ThisPhase] = 0 /\ (~ctx.nocheck => ctx.phGen = 0)
    BY <1>6, <2>1, Zero DEF Resumable, Running
  <2>3. pos'.l = IF ctx.nocheck THEN 1 ELSE ctx.li
    BY <1>1, <1>14, <2>1, <2>2 DEF EnterPhase, Position
  <2>4. CASE ctx.nocheck
    <3>1. /\ Frontier'[2] = Frontier[2] + 1 /\ Frontier'[3] \in {0, 1} /\ Frontier'[4] = 0
          /\ Frontier[2] = 0
      BY <1>4, <1>5, <2>1, <2>3, <2>4
    <3>2. \A p \in Taken : p[2] = Frontier[2] => Before(p, Frontier)
      BY <1>8, <3>1
    <3> QED
      BY <1>7, <2>1, <3>1, <3>2 DEF Running, Over
  <2>5. CASE ~ctx.nocheck
    <3>1. /\ Frontier'[2] = Frontier[2] /\ Frontier'[3] = Frontier[3]
          /\ Frontier'[4] = Frontier[4]
      BY <1>4, <1>5, <2>1, <2>3, <2>5
    <3> QED
      BY <1>7, <2>1, <3>1 DEF Running, Over
  <2> QED
    BY <2>4, <2>5
<1>15. ASSUME PhaseEnds PROVE Covers' /\ Order!Next
  <2>1. at = "phase" /\ pos.l > Len(conf[1]) /\ NextRuleset /\ UNCHANGED ran
    BY <1>2, <1>15 DEF PhaseEnds
  <2>2. \A p \in Taken : Before(p, Frontier)
    <3>1. pos.l \in Nat /\ DOMAIN conf[1] = 1..Len(conf[1]) /\ Len(conf[1]) \in Nat
      BY Places, Numbers
    <3>2. \A p \in Taken : p \in Item /\ p[1] = 1 /\ p[2] < pos.l
      BY <1>8, <2>1, <3>1
    <3>3. Frontier[2] = pos.l
      BY <1>4, <2>1
    <3> QED
      BY <1>3, <1>4, <3>2, <3>3, Lexicographic
  <2> QED
    BY <1>12, <2>1, <2>2
<1>16. ASSUME EnterList PROVE Covers' /\ UNCHANGED Order!vars
  <2>1. /\ at = "phase" /\ UNCHANGED ran /\ pos.l \in DOMAIN conf[r]
        /\ ctx' = [ctx EXCEPT !.li = pos.l] /\ at' \in {"phase", "list"}
        /\ at' = "phase" <=> ThisList \in off
    BY <1>16, Places, Numbers DEF EnterList
  <2>2. /\ ctx'.rule = ctx.rule /\ ctx'.nocheck = ctx.nocheck /\ ctx'.liGen = ctx.liGen
    BY <1>1, <2>1 DEF Context
  <2>3. CASE ThisList \in off
    <3>1. pos' = [pos EXCEPT !.l = pos.l + 1] /\ at' = "phase"
      BY <1>16, <2>1, <2>3 DEF EnterList
    <3>2. pos'.l = pos.l + 1
      BY <1>1, <3>1 DEF Position
    <3>3. ~Carries /\ (~ctx.nocheck => ctx.rule.ru = 1)
      BY <1>9, <2>1, <2>3 DEF Placed
    <3>4. /\ Frontier'[2] = Frontier[2] + 1 /\ Frontier'[3] \in {0, 1} /\ Frontier'[4] = 0
          /\ Frontier[2] = pos.l
      BY <1>4, <1>5, <2>1, <2>2, <3>1, <3>2, <3>3 DEF Carries
    <3>5. \A p \in Taken : p[2] # pos.l
      BY <1>2, <1>8, <2>3 DEF Open, ThisList
    <3> QED
      BY <1>7, <2>1, <3>1, <3>4, <3>5 DEF Running, Over
  <2>4. CASE ThisList \notin off
    <3>1. at' = "list" /\ pos' = [pos EXCEPT !.q = IF ~ctx'.nocheck /\ ctx'.liGen = gen[ThisList]
                                                   THEN ctx'.rule.ru ELSE 1]
      BY <1>16, <2>1, <2>4 DEF EnterList
    <3>2. gen[ThisList] = 0 /\ (~ctx.nocheck => ctx.liGen = 0)
      BY <1>6, <2>1, Zero DEF Resumable, Running
    <3>3. pos'.l = pos.l /\ pos'.q = IF ctx.nocheck THEN 1 ELSE ctx.rule.ru
      BY <1>1, <2>2, <3>1, <3>2 DEF Position
    <3>4. CASE ctx.nocheck
      <4>1. /\ Frontier'[2] = Frontier[2] /\ Frontier'[3] = Frontier[3] + 1 /\ Frontier'[4] = 0
            /\ Frontier[3] = 0
        BY <1>4, <1>5, <2>1, <2>2, <3>1, <3>3, <3>4
      <4>2. \A p \in Taken : p[2] = Frontier[2] /\ p[3] = Frontier[3] => Before(p, Frontier)
        BY <1>8, <4>1
      <4> QED
        BY <1>7, <2>1, <3>1, <4>1, <4>2 DEF Running, Over
    <3>5. CASE ~ctx.nocheck
      <4>1. /\ Frontier'[2] = Frontier[2] /\ Frontier'[3] = Frontier[3]
            /\ Frontier'[4] = Frontier[4]
        BY <1>4, <1>5, <2>1, <2>2, <3>1, <3>3, <3>5
      <4> QED
        BY <1>7, <2>1, <3>1, <4>1 DEF Running, Over
    <3> QED
      BY <3>4, <3>5
  <2> QED
    BY <2>3, <2>4
<1>17. ASSUME ListEnds PROVE Covers' /\ UNCHANGED Order!vars
  <2>1. /\ at = "list" /\ at' = "phase" /\ UNCHANGED ran /\ pos.q > Len(conf[1][pos.l])
        /\ ctx'.nocheck = ctx.nocheck /\ ctx'.rule.ru = 1 /\ ctx'.rule.done = ctx.rule.done
        /\ pos'.l = pos.l + 1
    BY <1>1, <1>2, <1>17 DEF ListEnds, Context, RuleContext, Position
  <2>2. /\ pos.l \in DOMAIN conf[1] /\ pos.q \in Nat
        /\ DOMAIN conf[1][pos.l] = 1..Len(conf[1][pos.l]) /\ Len(conf[1][pos.l]) \in Nat
    BY <1>2, <2>1, Places, Numbers DEF Within
  <2>3. ~Carries
    BY <1>9, <2>1, <2>2
  <2>4. /\ Frontier'[2] = Frontier[2] + 1 /\ Frontier'[3] \in {0, 1} /\ Frontier'[4] = 0
        /\ Frontier[2] = pos.l /\ Frontier[3] = pos.q
    BY <1>4, <1>5, <2>1, <2>3 DEF Carries
  <2>5. \A p \in Taken : p[2] = Frontier[2] => Before(p, Frontier)
    <3>1. \A p \in Taken : p[2] = pos.l => p \in Item /\ p[1] = 1 /\ p[3] < pos.q
      BY <1>8, <2>1, <2>2
    <3> QED
      BY <1>3, <1>4, <2>4, <3>1, Lexicographic
  <2> QED
    BY <1>7, <2>1, <2>4, <2>5 DEF Running, Over
<1>18. ASSUME DisabledRule PROVE Covers' /\ UNCHANGED Order!vars
  <2>1. /\ at = "list" /\ at' = "list" /\ UNCHANGED ran /\ ThisRule \in off
        /\ ctx'.nocheck = ctx.nocheck /\ ctx'.rule.done = ctx.rule.done
        /\ pos'.l = pos.l /\ pos'.q = pos.q + 1
    BY <1>1, <1>18 DEF DisabledRule, AtRule, Context, RuleContext, Position
  <2>2. ~Carries
    BY <1>9, <2>1
  <2>3. /\ Frontier'[2] = Frontier[2] /\ Frontier'[3] = Frontier[3] + 1 /\ Frontier'[4] = 0
        /\ Frontier[2] = pos.l /\ Frontier[3] = pos.q
    BY <1>4, <1>5, <2>1, <2>2 DEF Carries
  <2>4. \A p \in Taken : ~(p[2] = pos.l /\ p[3] = pos.q)
    BY <1>2, <1>8, <2>1 DEF Open, ThisRule
  <2> QED
    BY <1>7, <2>1, <2>3, <2>4 DEF Running, Over
\* A rule that was not updated is not restarted.
<1>19. ASSUME AtRule
       PROVE  /\ at = "list" /\ ctx.li = pos.l
              /\ Checked = [ctx EXCEPT !.rule.ru = pos.q]
              /\ Checked.rule.ru = pos.q /\ Checked.rule.done = ctx.rule.done
              /\ Checked.nocheck = ctx.nocheck
  <2>1. ~Restarts
    BY <1>6, <1>19, Zero DEF Restarts, Resumable
  <2>2. Checked = [ctx EXCEPT !.rule.ru = pos.q]
    BY <2>1, CheckedContext
  <2> QED
    BY <1>1, <1>19, <2>2 DEF AtRule, SavedList, Context, RuleContext
\* What the worker is at is something that may happen.
<1>20. ASSUME AtRule \/ at = "action", ThisRule \notin off,
              NEW a, a \in 0..Len(Branch(RuleAt(ThisRule)))
       PROVE  <<1, pos.l, pos.q, a>> \in Taken
  <2>1. /\ pos.l \in DOMAIN conf[1] /\ pos.q \in DOMAIN conf[1][pos.l]
        /\ RuleAt(ThisRule) = conf[1][pos.l][pos.q] /\ 1 \in DOMAIN conf
    BY <1>2, <1>20, RuleIsThere, Places DEF Within, RuleAt, ThisRule
  <2>2. <<r>> \notin off /\ ThisList \notin off
    BY <1>20 DEF Carried, AtRule
  <2>3. Open(<<1, pos.l, pos.q, a>>)
    BY <1>2, <1>20, <2>2 DEF Open, ThisRule, ThisList
  <2> QED
    BY <1>20, <2>1, <2>3, TakenParts
\* The next action, or the first one after the condition.
<1>21. ASSUME Frontier'[2] = Frontier[2], Frontier'[3] = Frontier[3],
              Frontier'[4] = Frontier[4] + 1
       PROVE  \A p \in Taken : Before(p, Frontier') => Before(p, Frontier) \/ p = Frontier
  <2> DEFINE f == Frontier
             g == Frontier'
  <2>1. f \in Item /\ g \in Item /\ f[1] = 1 /\ g[1] = 1
    BY <1>3, <1>4, <1>5
  <2>2. g[2] = f[2] /\ g[3] = f[3] /\ g[4] = f[4] + 1
    BY <1>21
  <2> HIDE DEF f, g
  <2>3. ASSUME NEW p \in Taken, Before(p, g) PROVE Before(p, f) \/ p = f
    <3>1. /\ p \in Item /\ p[1] = 1 /\ p[2] \in Nat /\ p[3] \in Nat /\ p[4] \in Nat
          /\ f[2] \in Nat /\ f[3] \in Nat /\ f[4] \in Nat
      BY <1>8, <2>1 DEF Item
    <3>2. \/ p[2] < f[2]
          \/ p[2] = f[2] /\ p[3] < f[3]
          \/ p[2] = f[2] /\ p[3] = f[3] /\ p[4] < f[4] + 1
      BY <2>1, <2>2, <2>3, <3>1, Lexicographic
    <3>3. ~Before(f, p)
      BY <2>1, <3>1, <3>2, Lexicographic
    <3> QED
      BY <2>1, <3>1, <3>3, Total
  <2> QED
    BY <2>3 DEF f, g
<1>22. ASSUME Concludes PROVE Covers' /\ Order!Next
  <2>1. /\ AtRule /\ at' = "action" /\ ThisRule \notin off
        /\ ctx.nocheck \/ ~Checked.rule.done
        /\ ran' = Append(ran, <<1, pos.l, pos.q, 0>>)
    BY <1>2, <1>22 DEF Concludes, Acts
  <2>2. ctx'.nocheck = ctx.nocheck /\ ctx'.rule.ac = 1
    <3>1. ctx'.nocheck = Checked.nocheck
      BY <1>22, CheckedContext DEF Concludes, Acts, Context
    <3> QED
      BY <1>2, <1>19, <2>1, <3>1 DEF Placed
  <2>3. pos'.l = pos.l /\ pos'.q = pos.q /\ pos'.a = 1
    <3>1. pos' = [pos EXCEPT !.a = IF ctx'.nocheck THEN 1 ELSE ctx'.rule.ac]
      BY <1>22 DEF Concludes, Acts
    <3> QED
      BY <1>1, <2>2, <3>1 DEF Position
  <2>4. /\ Frontier[2] = pos.l /\ Frontier[3] = pos.q /\ Frontier[4] = 0
    BY <1>4, <1>19, <2>1
  <2>5. Frontier = <<1, pos.l, pos.q, 0>>
    BY <1>4, <2>4 DEF Frontier
  <2>6. <<1, pos.l, pos.q, 0>> \in Taken
    <3>1. 0 \in 0..Len(Branch(RuleAt(ThisRule)))
      <4>1. RuleAt(ThisRule) = conf[1][pos.l][pos.q]
        BY <1>2 DEF RuleAt, ThisRule
      <4>2. Len(Branch(conf[1][pos.l][pos.q])) \in Nat
        BY <1>2, <2>1, RuleIsThere, Places, Branches
      <4> QED
        BY <4>1, <4>2
    <3> QED
      BY <1>20, <2>1, <3>1
  <2>7. ~Ends(<<1, pos.l, pos.q, 0>>)
    BY DEF Ends
  <2>8. \A p \in Taken : Before(p, Frontier') => Before(p, Frontier) \/ p = Frontier
    BY <1>5, <1>21, <2>1, <2>3, <2>4
  <2> DEFINE item == <<1, pos.l, pos.q, 0>>
  <2>9. /\ item = Frontier /\ item \in Taken /\ ran' = Append(ran, item) /\ ~Ends(item)
        /\ \A p \in Taken : Before(p, Frontier') => Before(p, item) \/ p = item
    BY <2>1, <2>5, <2>6, <2>7, <2>8
  <2>10. Running /\ Running'
    BY <1>19, <2>1 DEF Running
  <2> HIDE DEF item
  <2> QED
    BY <1>2, <2>9, <2>10, Happens
<1>23. ASSUME DoneBefore PROVE Covers' /\ UNCHANGED Order!vars
  <2>1. /\ AtRule /\ ~ctx.nocheck /\ Checked.rule.done /\ at' = "action" /\ UNCHANGED ran
        /\ ctx' = Checked
        /\ pos' = [pos EXCEPT !.a = IF Checked.nocheck THEN 1 ELSE Checked.rule.ac]
    BY <1>23 DEF DoneBefore, Acts
  <2>2. pos'.l = pos.l /\ pos'.q = pos.q /\ pos'.a = 1
    BY <1>1, <1>2, <1>19, <2>1 DEF Position, Placed
  <2>3. /\ Frontier'[2] = Frontier[2] /\ Frontier'[3] = Frontier[3]
        /\ Frontier'[4] = Frontier[4]
    BY <1>4, <1>5, <1>19, <2>1, <2>2
  <2> QED
    BY <1>7, <1>19, <2>1, <2>3 DEF Running, Over
<1>24. ASSUME Defers PROVE Covers' /\ UNCHANGED Order!vars
  <2>1. /\ AtRule /\ (ctx.nocheck \/ ~Checked.rule.done)
        /\ at' = "suspended" /\ UNCHANGED ran
    BY <1>24 DEF Defers
  <2>2. PICK c \in Context :
          /\ ctx' = ListDeferred(c) /\ c.li = ctx.li
          /\ \E mark \in Mark : c.rule = [Checked.rule EXCEPT !.stack = <<mark>>]
    BY <1>24, DefersSaves
  <2>3. /\ ctx'.li = pos.l /\ ctx'.rule.ru = pos.q /\ ctx'.rule.done = ctx.rule.done
        /\ ~ctx'.nocheck
    <3>1. c.rule.ru = Checked.rule.ru /\ c.rule.done = Checked.rule.done
      BY <2>2, CheckedContext DEF RuleContext
    <3>2. ctx'.li = c.li /\ ctx'.rule = c.rule /\ ~ctx'.nocheck
      BY <2>2, Saved
    <3> QED
      BY <1>19, <2>1, <2>2, <3>1, <3>2
  <2>4. ~ctx.rule.done
    BY <1>9, <1>19, <2>1
  <2>5. /\ Frontier'[2] = Frontier[2] /\ Frontier'[3] = Frontier[3]
        /\ Frontier'[4] = Frontier[4]
    BY <1>4, <1>5, <1>19, <2>1, <2>3, <2>4
  <2> QED
    BY <1>7, <1>19, <2>1, <2>5 DEF Running, Over
<1>25. ASSUME WaitStarts PROVE Covers' /\ UNCHANGED Order!vars
  <2>1. /\ at = "action" /\ at' = "suspended" /\ UNCHANGED ran
        /\ pos.a <= Len(Array) /\ Array[pos.a] = "wait"
    BY <1>25 DEF WaitStarts, AtAction
  <2>2. PICK c \in Context :
          /\ ctx' = ListDeferred(c) /\ c.li = ctx.li
          /\ c.rule = [ctx.rule EXCEPT !.ruGen = gen[ThisRule], !.ac = pos.a, !.data = FALSE]
    BY <1>25, WaitSaves
  <2>3. /\ ctx'.li = pos.l /\ ctx'.rule.ru = pos.q /\ ctx'.rule.done /\ ~ctx'.nocheck
    <3>1. c.rule.ru = ctx.rule.ru /\ c.rule.done = ctx.rule.done
      BY <1>1, <2>2 DEF RuleContext
    <3>2. ctx'.li = c.li /\ ctx'.rule = c.rule /\ ~ctx'.nocheck
      BY <2>2, Saved
    <3> QED
      BY <1>6, <2>1, <2>2, <3>1, <3>2 DEF Resumable, SavedList
  <2>4. pos.a = 1
    BY <1>2, <2>1, OnlyFirstWaits
  <2>5. /\ Frontier'[2] = Frontier[2] /\ Frontier'[3] = Frontier[3]
        /\ Frontier'[4] = Frontier[4]
    BY <1>4, <1>5, <2>1, <2>3, <2>4
  <2> QED
    BY <1>7, <2>1, <2>5 DEF Running, Over
\* An action of the branch that is taken.
<1>26. ASSUME at = "action", pos.a <= Len(Array)
       PROVE  /\ <<1, pos.l, pos.q, pos.a>> = Frontier /\ Frontier \in Taken
              /\ Ends(Frontier) <=> Array[pos.a] \in Final
  <2>1. ThisRule \notin off /\ Array = Branch(RuleAt(ThisRule))
    BY <1>26 DEF Carried, Array, Branch
  <2>2. <<1, pos.l, pos.q, pos.a>> = Frontier
    BY <1>2, <1>26 DEF Frontier
  <2>3. pos.a \in 0..Len(Branch(RuleAt(ThisRule))) /\ pos.a > 0
    <3>1. RuleAt(ThisRule) = conf[1][pos.l][pos.q]
      BY <1>2 DEF RuleAt, ThisRule
    <3>2. Len(Branch(conf[1][pos.l][pos.q])) \in Nat
      BY <1>2, <1>26, Places, Branches DEF Within
    <3> QED
      BY <1>26, <2>1, <3>1, <3>2, Numbers
  <2>4. Frontier \in Taken
    BY <1>20, <1>26, <2>1, <2>2, <2>3
  <2>5. /\ Frontier[1] = 1 /\ Frontier[2] = pos.l /\ Frontier[3] = pos.q /\ Frontier[4] = pos.a
    BY <1>4, <1>26
  <2>6. Ends(Frontier) <=> Branch(conf[1][pos.l][pos.q])[pos.a] \in Final
    BY <2>3, <2>4, <2>5, TakenParts
  <2> QED
    BY <1>2, <2>1, <2>2, <2>4, <2>6 DEF RuleAt, ThisRule
<1>27. ASSUME Tag \/ WaitEnds PROVE Covers' /\ Order!Next
  <2>1. /\ at = "action" /\ at' = "action" /\ pos.a <= Len(Array)
        /\ Array[pos.a] \in {"tag", "wait"}
        /\ ran' = Append(ran, <<1, pos.l, pos.q, pos.a>>)
        /\ pos' = [pos EXCEPT !.a = pos.a + 1]
    BY <1>2, <1>27 DEF Tag, WaitEnds, AtAction, NextAction, Ran
  <2>2. pos'.l = pos.l /\ pos'.q = pos.q /\ pos'.a = pos.a + 1
    BY <1>1, <2>1 DEF Position
  <2>3. /\ Frontier'[2] = Frontier[2] /\ Frontier'[3] = Frontier[3]
        /\ Frontier'[4] = Frontier[4] + 1
    BY <1>4, <1>5, <2>1, <2>2
  <2> DEFINE item == <<1, pos.l, pos.q, pos.a>>
  <2>4. /\ item = Frontier /\ item \in Taken /\ ran' = Append(ran, item) /\ ~Ends(item)
        /\ \A p \in Taken : Before(p, Frontier') => Before(p, item) \/ p = item
    BY <1>21, <1>26, <2>1, <2>3 DEF Final
  <2>5. Running /\ Running'
    BY <2>1 DEF Running
  <2> HIDE DEF item
  <2> QED
    BY <1>2, <2>4, <2>5, Happens
<1>28. ASSUME Decide PROVE Covers' /\ Order!Next
  <2>1. /\ at = "action" /\ at' \in {"pass", "reject"} /\ pos.a <= Len(Array)
        /\ Array[pos.a] \in Final
        /\ ran' = Append(ran, <<1, pos.l, pos.q, pos.a>>)
    BY <1>2, <1>28 DEF Decide, AtAction, Ran
  <2> DEFINE item == <<1, pos.l, pos.q, pos.a>>
  <2>2. item = Frontier /\ item \in Taken /\ ran' = Append(ran, item) /\ Ends(item)
    BY <1>26, <2>1
  <2>3. Running
    BY <2>1 DEF Running
  <2> HIDE DEF item
  <2> QED
    BY <1>2, <2>1, <2>2, <2>3, Happens
<1>29. ASSUME ActionsEnd PROVE Covers' /\ UNCHANGED Order!vars
  <2>1. /\ at = "action" /\ at' = "list" /\ UNCHANGED ran /\ pos.a > Len(Array)
        /\ ctx' = [ctx EXCEPT !.rule.done = FALSE, !.rule.true = FALSE]
        /\ pos' = [pos EXCEPT !.q = pos.q + 1]
    BY <1>29 DEF ActionsEnd
  <2>2. ~ctx'.rule.done /\ pos'.l = pos.l /\ pos'.q = pos.q + 1
    BY <1>1, <2>1 DEF Context, RuleContext, Position
  <2>3. /\ Frontier'[2] = Frontier[2] /\ Frontier'[3] = Frontier[3] + 1 /\ Frontier'[4] = 0
        /\ Frontier[2] = pos.l /\ Frontier[3] = pos.q /\ Frontier[4] = pos.a
    BY <1>4, <1>5, <2>1, <2>2
  <2>4. Array = Branch(conf[1][pos.l][pos.q])
    BY <1>2, <2>1 DEF Carried, Array, Branch, RuleAt, ThisRule
  <2>5. Len(Branch(conf[1][pos.l][pos.q])) \in Nat /\ pos.a \in Nat
    BY <1>2, <2>1, Places, Branches, Numbers DEF Within
  <2>6. \A p \in Taken : p[2] = Frontier[2] /\ p[3] = Frontier[3] => Before(p, Frontier)
    <3>1. \A p \in Taken : p[2] = pos.l /\ p[3] = pos.q => p \in Item /\ p[1] = 1 /\ p[4] < pos.a
      BY <1>8, <2>1, <2>4, <2>5
    <3> QED
      BY <1>3, <1>4, <2>3, <3>1, Lexicographic
  <2> QED
    BY <1>7, <2>1, <2>3, <2>6 DEF Running, Over
<1>30. ASSUME Close PROVE Covers' /\ Order!Next
  <2>1. at = "suspended" /\ at' = "closed" /\ ran' = ran
    BY <1>30 DEF Close
  <2>2. Covers'
    BY <2>1 DEF Covers, Running, Waits
  <2>3. Due' = Due
    BY <1>2, SameTaken
  <2>4. Order!Close
    BY <2>1, <2>3 DEF Order!Close, Over
  <2> QED
    BY <2>2, <2>4 DEF Order!Next
<1>31. ASSUME Refused PROVE Covers' /\ UNCHANGED Order!vars
  <2>1. at \in {"ruleset", "enter", "phase", "list"} /\ at' = "suspended" /\ wake' = "none"
        /\ UNCHANGED ran
    BY <1>31 DEF Refused, AtRule
  <2> QED
    BY <1>7, <2>1 DEF Running, Waits, Over
<1>32. ASSUME Handle PROVE Covers' /\ UNCHANGED Order!vars
  <2>1. /\ at = "new" \/ (at = "suspended" /\ wake # "none")
        /\ at' = "ruleset"
        /\ ctx' = [Woken EXCEPT !.rs = FirstRuleset(Woken)]
        /\ ran' = IF wake = "fetch" THEN <<>> ELSE ran
    BY <1>32 DEF Handle
  <2>2. /\ ctx'.li = ctx.li /\ ctx'.rule.ru = ctx.rule.ru /\ ctx'.rule.done = ctx.rule.done
        /\ ctx'.nocheck = (ctx.nocheck \/ wake = "fetch")
    BY <1>1, <2>1 DEF Woken, Context, RuleContext
  <2>3. ran' = ran
    BY <1>6, <2>1 DEF Placed, Resumable
  <2>4. CASE at = "new" \/ wake = "fetch"
    <3>1. Covers'
      <4>1. Frontier'[2] = 0
        BY <1>5, <1>6, <2>1, <2>2, <2>4 DEF Resumable
      <4>2. \A p \in Taken : ~Before(p, Frontier')
        BY <1>3, <1>5, <1>8, <4>1, Lexicographic
      <4>3. Taken' = Taken
        BY <1>2, SameTaken
      <4> QED
        BY <4>2, <4>3 DEF Covers
    <3>2. UNCHANGED Order!vars
      <4>1. Due' = Due
        BY <1>2, SameTaken
      <4> QED
        BY <2>1, <2>3, <4>1 DEF Order!vars, Over
    <3> QED
      BY <3>1, <3>2
  <2>5. CASE at = "suspended" /\ wake # "fetch"
    <3>1. Waits
      BY <1>1, <2>1, <2>5 DEF Waits, Wakes
    <3>2. /\ Frontier'[2] = Frontier[2] /\ Frontier'[3] = Frontier[3]
          /\ Frontier'[4] = Frontier[4]
      <4>1. ~ctx.nocheck /\ ~ctx'.nocheck
        BY <1>6, <2>2, <2>5, <3>1 DEF Resumable
      <4>2. ctx'.li = ctx.li /\ ctx'.rule.ru = ctx.rule.ru /\ ctx'.rule.done = ctx.rule.done
        BY <2>2
      <4> QED
        BY <1>4, <1>5, <2>1, <2>5, <4>1, <4>2
    <3> QED
      BY <1>7, <2>1, <2>3, <2>5, <3>1, <3>2 DEF Over
  <2> QED
    BY <2>1, <2>4, <2>5
<1>33. ASSUME UNCHANGED vars PROVE Covers' /\ UNCHANGED Order!vars
  <2>1. ctx' = ctx /\ at' = at /\ pos' = pos /\ wake' = wake /\ ran' = ran
    BY <1>33 DEF vars
  <2>2. Taken' = Taken /\ Due' = Due /\ \A p : Ends(p)' <=> Ends(p)
    BY <1>2, SameTaken
  <2>3. UNCHANGED Order!vars
    BY <2>1, <2>2 DEF Order!vars
  <2>4. Frontier' = Frontier /\ Happened' = Happened
    BY <2>1 DEF Frontier, r, Happened
  <2>5. (Running' \/ Waits') => Running \/ Waits
    BY <2>1 DEF Running, Waits
  <2> QED
    BY <2>2, <2>3, <2>4, <2>5 DEF Covers
<1>34. ~\E e \in Elements(conf) : Update(e)
  BY NoUpdate
<1> QED
  BY <1>11, <1>13, <1>14, <1>15, <1>16, <1>17, <1>18, <1>22, <1>23, <1>24, <1>25, <1>27,
     <1>28, <1>29, <1>30, <1>31, <1>32, <1>33, <1>34 DEF Next, Evaluate

\* At first nothing has happened.
LEMMA OrderInit == Init => Covers /\ Order!Init
  BY DEF Init, Covers, Running, Waits, Order!Init, Over

\* As long as nothing is updated, suspending and resuming does not show: with one
\* ruleset, waits only in the first action of an array and final actions only in
\* the last, everything that is due happens once and in its order, and there is
\* a verdict when it has.
THEOREM OrderKept ==
  ASSUME \A c \in Configurations : Arranged(c)
  PROVE  Spec /\ []Untouched => ImplementsOrder
<1> DEFINE Inv == /\ TypeOK /\ Within /\ SavedList /\ Sequential /\ Carried
                  /\ Placed /\ Covers /\ Arranged(conf)
<1>1. Init => Inv /\ Order!Init
  <2>1. Init => TypeOK /\ Within /\ SavedList /\ Sequential /\ Carried /\ Placed
    BY TypeInit, SavedListInit, SequentialInit, CarriedInit, PlacedInit
  <2>2. Init => Arranged(conf)
    BY DEF Init
  <2> QED
    BY <2>1, <2>2, OrderInit
<1>2. Inv /\ Untouched /\ Untouched' /\ [Next]_vars => Inv' /\ [Order!Next]_(Order!vars)
  <2> SUFFICES ASSUME Inv, Untouched, Untouched', [Next]_vars
               PROVE  Inv' /\ [Order!Next]_(Order!vars)
    OBVIOUS
  <2>1. TypeOK' /\ Within' /\ SavedList' /\ Sequential' /\ Carried'
    BY TypeStep, SavedListStep, SequentialStep, CarriedStep
  <2>2. Placed' /\ conf' = conf
    BY <2>1, PlacedStep
  <2>3. Covers' /\ (Order!Next \/ UNCHANGED Order!vars)
    BY <2>1, OrderStep
  <2>4. Arranged(conf)'
    BY <2>2 DEF Arranged
  <2> QED
    BY <2>1, <2>2, <2>3, <2>4
<1> HIDE DEF Inv
<1>3. Spec /\ []Untouched => Order!Init /\ [][Order!Next]_(Order!vars)
  BY <1>1, <1>2, PTL DEF Spec
<1> QED
  BY <1>3 DEF ImplementsOrder, Order!Spec
=============================================================================
