--------------------------- MODULE LimiterProofs ---------------------------
(***************************************************************************)
(* What Limiter promises, for any number of workers, requests, keys and    *)
(* values, however often workers die and whenever the manager quits.       *)
(***************************************************************************)
EXTENDS Limiter, FiniteSetTheorems, SequenceTheorems, TLAPS

-----------------------------------------------------------------------------
(* The inductive invariant.                                                *)

\* The table of the manager and the values that are allocated tell of each other.
Table ==
  /\ \A k \in Keys : mtable[k] # NULL => mtable[k] \in alive /\ vkey[mtable[k]] = k
  /\ \A v \in alive : vkey[v] \in Keys /\ mtable[vkey[v]] = v

\* A count is that of the grants that did not come back, so that there are none
\* of a value that is free.
Counted ==
  \A v \in Values :
    /\ grants[v] \subseteq 1..granted
    /\ refcount[v] = Cardinality(grants[v])
    /\ v \notin alive => grants[v] = {}

\* Every pointer is such a grant, made for its key, as long as its value was not
\* freed, which only a manager that quits does; and no other pointer is the same.
OwnedAs(c) ==
  /\ c.val \in alive => c.grant \in grants[c.val] /\ vkey[c.val] = c.key
  /\ c.val \notin alive => mgr # "runs" /\ mtable[c.key] = NULL
Owned == \A c \in Pointers : OwnedAs(c)
Once == \A c, d \in Pointers : c.val = d.val /\ c.grant = d.grant => c = d

\* A worker that is asked to give a value back has no other for its key, and will
\* not have been sent another by then: what it is sent later is behind the demand.
Asked ==
  \A w \in Workers : \A i \in DOMAIN toWkr[w] :
    LET m == toWkr[w][i] IN
      m.type = "release" =>
        /\ m.val # NULL
        /\ wtable[w][m.key].val \in {NULL, m.val}
        /\ \A j \in 1..(i - 1) :
             toWkr[w][j].type = "response" /\ toWkr[w][j].key = m.key =>
               toWkr[w][j].val \in {NULL, m.val}

\* What is given back is a value.
GivenBack ==
  \A w \in Workers : \A i \in DOMAIN toMgr[w] :
    toMgr[w][i].type = "released" => toMgr[w][i].val # NULL

IInv == TypeOK /\ Table /\ Counted /\ Owned /\ Once /\ Asked /\ GivenBack

-----------------------------------------------------------------------------
(* Pipes.                                                                  *)

Pipes == [Workers -> Seq(Message)]

\* The first alert is taken out of a pipe.
LEMMA Popped ==
  ASSUME NEW P \in Pipes, NEW w \in Workers, P[w] # <<>>,
         NEW Q, Q = [P EXCEPT ![w] = Tail(P[w])]
  PROVE  /\ Q \in Pipes
         /\ 1 \in DOMAIN P[w] /\ Head(P[w]) = P[w][1] /\ Head(P[w]) \in Message
         /\ \A u \in Workers : u # w => Q[u] = P[u]
         /\ \A i \in DOMAIN Q[w] :
              i \in Nat \ {0} /\ i + 1 \in DOMAIN P[w] /\ Q[w][i] = P[w][i + 1]
<1>1. P[w] \in Seq(Message) /\ P \in [Workers -> Seq(Message)]
  BY DEF Pipes
<1>2. /\ Head(P[w]) \in Message /\ Tail(P[w]) \in Seq(Message)
      /\ Len(Tail(P[w])) = Len(P[w]) - 1
      /\ \A i \in 1..Len(Tail(P[w])) : Tail(P[w])[i] = P[w][i + 1]
  BY <1>1, HeadTailProperties
<1>3. Len(P[w]) \in Nat \ {0} /\ DOMAIN P[w] = 1..Len(P[w])
  BY <1>1, EmptySeq, LenProperties
<1>4. DOMAIN Tail(P[w]) = 1..Len(Tail(P[w]))
  BY <1>2, LenProperties
<1>5. Q[w] = Tail(P[w]) /\ Q \in Pipes /\ \A u \in Workers : u # w => Q[u] = P[u]
  BY <1>1, <1>2 DEF Pipes
<1>6. Head(P[w]) = P[w][1]
  BY <1>1
<1>7. ASSUME NEW i \in DOMAIN Q[w]
      PROVE  i \in Nat \ {0} /\ i + 1 \in DOMAIN P[w] /\ Q[w][i] = P[w][i + 1]
  <2>1. i \in 1..Len(Tail(P[w]))
    BY <1>4, <1>5, <1>7
  <2>2. i \in Nat \ {0} /\ i + 1 \in 1..Len(P[w])
    BY <1>2, <1>3, <2>1
  <2> QED
    BY <1>2, <1>3, <1>5, <2>1, <2>2
<1>8. 1 \in DOMAIN P[w]
  BY <1>3
<1> QED
  BY <1>2, <1>5, <1>6, <1>7, <1>8

\* One is sent.
LEMMA Pushed ==
  ASSUME NEW P \in Pipes, NEW w \in Workers, NEW m \in Message,
         NEW Q, Q = [P EXCEPT ![w] = Append(P[w], m)]
  PROVE  /\ Q \in Pipes
         /\ Len(P[w]) \in Nat /\ DOMAIN P[w] = 1..Len(P[w])
         /\ \A u \in Workers : u # w => Q[u] = P[u]
         /\ DOMAIN Q[w] = 1..(Len(P[w]) + 1)
         /\ \A i \in DOMAIN P[w] : i \in DOMAIN Q[w] /\ Q[w][i] = P[w][i]
         /\ Q[w][Len(P[w]) + 1] = m
<1>1. P[w] \in Seq(Message) /\ P \in [Workers -> Seq(Message)]
  BY DEF Pipes
<1>2. /\ Append(P[w], m) \in Seq(Message) /\ Len(Append(P[w], m)) = Len(P[w]) + 1
      /\ \A i \in 1..Len(P[w]) : Append(P[w], m)[i] = P[w][i]
      /\ Append(P[w], m)[Len(P[w]) + 1] = m
  BY <1>1, AppendProperties
<1>3. Len(P[w]) \in Nat /\ DOMAIN P[w] = 1..Len(P[w])
  BY <1>1, LenProperties
<1>4. DOMAIN Append(P[w], m) = 1..(Len(P[w]) + 1)
  BY <1>2, LenProperties
<1>5. Q[w] = Append(P[w], m) /\ Q \in Pipes /\ \A u \in Workers : u # w => Q[u] = P[u]
  BY <1>1, <1>2 DEF Pipes
<1> QED
  BY <1>2, <1>3, <1>4, <1>5

\* Every pipe is sent one.
LEMMA PushedAll ==
  ASSUME NEW P \in Pipes, NEW m \in Message,
         NEW Q, Q = [w \in Workers |-> Append(P[w], m)]
  PROVE  /\ Q \in Pipes
         /\ \A w \in Workers :
              /\ Len(P[w]) \in Nat /\ DOMAIN P[w] = 1..Len(P[w])
              /\ DOMAIN Q[w] = 1..(Len(P[w]) + 1)
              /\ \A i \in DOMAIN P[w] : i \in DOMAIN Q[w] /\ Q[w][i] = P[w][i]
              /\ Q[w][Len(P[w]) + 1] = m
<1>1. ASSUME NEW w \in Workers
      PROVE  /\ Q[w] \in Seq(Message)
             /\ Len(P[w]) \in Nat /\ DOMAIN P[w] = 1..Len(P[w])
             /\ DOMAIN Q[w] = 1..(Len(P[w]) + 1)
             /\ \A i \in DOMAIN P[w] : i \in DOMAIN Q[w] /\ Q[w][i] = P[w][i]
             /\ Q[w][Len(P[w]) + 1] = m
  <2>1. P[w] \in Seq(Message) /\ Q[w] = Append(P[w], m)
    BY DEF Pipes
  <2>2. /\ Append(P[w], m) \in Seq(Message) /\ Len(Append(P[w], m)) = Len(P[w]) + 1
        /\ \A i \in 1..Len(P[w]) : Append(P[w], m)[i] = P[w][i]
        /\ Append(P[w], m)[Len(P[w]) + 1] = m
    BY <2>1, AppendProperties
  <2>3. Len(P[w]) \in Nat /\ DOMAIN P[w] = 1..Len(P[w])
    BY <2>1, LenProperties
  <2>4. DOMAIN Append(P[w], m) = 1..(Len(P[w]) + 1)
    BY <2>2, LenProperties
  <2> QED
    BY <2>1, <2>2, <2>3, <2>4
<1>2. Q \in Pipes
  BY <1>1 DEF Pipes
<1> QED
  BY <1>1, <1>2

\* The end of each is lost.
LEMMA Lost ==
  ASSUME TypeOK, ManagerExits
  PROVE  /\ toWkr' \in Pipes
         /\ \A w \in Workers : \A i \in DOMAIN toWkr'[w] :
              i \in DOMAIN toWkr[w] /\ toWkr'[w][i] = toWkr[w][i]
<1>1. PICK n \in [Workers -> UNION {0..Len(toWkr[w]) : w \in Workers}] :
        /\ \A w \in Workers : n[w] <= Len(toWkr[w])
        /\ toWkr' = [w \in Workers |-> SubSeq(toWkr[w], 1, n[w])]
  BY DEF ManagerExits
<1>2. ASSUME NEW w \in Workers
      PROVE  /\ toWkr'[w] \in Seq(Message)
             /\ \A i \in DOMAIN toWkr'[w] :
                  i \in DOMAIN toWkr[w] /\ toWkr'[w][i] = toWkr[w][i]
  <2>1. toWkr[w] \in Seq(Message) /\ Len(toWkr[w]) \in Nat /\ DOMAIN toWkr[w] = 1..Len(toWkr[w])
    BY LenProperties DEF TypeOK
  <2>2. n[w] \in Nat /\ n[w] <= Len(toWkr[w])
    <3>1. PICK u \in Workers : n[w] \in 0..Len(toWkr[u])
      BY <1>1
    <3>2. Len(toWkr[u]) \in Nat
      BY LenProperties DEF TypeOK
    <3> QED
      BY <1>1, <3>1, <3>2
  <2> DEFINE k == n[w]
             P == toWkr[w]
             Q == SubSeq(P, 1, k)
  <2>3. toWkr'[w] = Q
    BY <1>1
  <2> HIDE DEF k, P
  <2>4. Q \in Seq(Message) /\ Len(Q) = k /\ \A i \in 1..k : Q[i] = P[1 + i - 1]
    BY <2>1, <2>2, SubSeqProperties DEF k, P
  <2>5. DOMAIN Q = 1..k
    BY <2>4, LenProperties
  <2>6. \A i \in 1..k : 1 + i - 1 = i /\ i \in 1..Len(P)
    BY <2>2, <2>1 DEF k, P
  <2> HIDE DEF Q
  <2> QED
    BY <2>1, <2>3, <2>4, <2>5, <2>6 DEF P
<1>3. toWkr' \in Pipes
  BY <1>1, <1>2 DEF Pipes
<1> QED
  BY <1>2, <1>3

-----------------------------------------------------------------------------
(* Types.                                                                  *)

\* What the alerts carry.
LEMMA Messages ==
  ASSUME TypeOK
  PROVE  /\ \A r \in Requests, k \in Keys : RequestMsg(r, k) \in Message
         /\ \A r \in Requests \cup {NULL}, k \in Keys, v \in Values \cup {NULL}, g \in Nat :
              ResponseMsg(r, k, v, g) \in Message
         /\ \A v \in Values, f \in BOOLEAN : vkey[v] \in Keys => ReleaseMsg(v, f) \in Message
         /\ \A w \in Workers, m \in Message : ReleasedMsg(m, wtable[w][m.key]) \in Message
BY DEF TypeOK, Message, Entry, RequestMsg, ResponseMsg, ReleaseMsg, ReleasedMsg

\* What a worker that dies leaves.
LEMMA DieTypes ==
  ASSUME TypeOK, NEW w \in Workers, Die(w)
  PROVE  /\ up' \in SUBSET Workers
         /\ wtable' \in [Workers -> [Keys -> Entry]]
         /\ req' \in [Workers -> [Requests -> Request]]
         /\ left' \in [Workers -> SUBSET Requests]
         /\ \A u \in Workers, k \in Keys :
              wtable'[u][k].val # NULL => u # w /\ wtable'[u][k] = wtable[u][k]
<1>1. [k \in Keys |-> NoEntry] \in [Keys -> Entry]
  BY DEF NoEntry, Entry
<1>2. [r \in Requests |-> NoRequest] \in [Requests -> Request]
  BY DEF NoRequest, Request
<1>3. Waiting(w) \in SUBSET Requests
  BY DEF Waiting
<1>4. left' \in [Workers -> SUBSET Requests]
  BY <1>3 DEF TypeOK, Die
<1> QED
  BY <1>1, <1>2, <1>4 DEF TypeOK, Die, NoEntry

\* What a value that is freed leaves.
LEMMA ReapTypes ==
  ASSUME TypeOK, NEW v \in Values, Reap(v)
  PROVE  /\ alive' \in SUBSET Values /\ mtable' \in [Keys -> Values \cup {NULL}]
         /\ vkey' \in [Values -> Keys \cup {NULL}] /\ hot' \in SUBSET Values
         /\ refcount' \in [Values -> Nat] /\ grants' \in [Values -> SUBSET Nat]
BY DEF TypeOK, Reap, Forget

\* The grants of a value are finite in number.
LEMMA FewGrants ==
  ASSUME TypeOK, Counted, NEW v \in Values
  PROVE  IsFiniteSet(grants[v]) /\ refcount[v] = Cardinality(grants[v]) /\ refcount[v] \in Nat
<1>1. grants[v] \subseteq 1..granted /\ granted \in Nat /\ refcount[v] = Cardinality(grants[v])
  BY DEF Counted, TypeOK
<1>2. IsFiniteSet(1..granted)
  BY <1>1, FS_Interval, 1 \in Int
<1>3. IsFiniteSet(grants[v])
  BY <1>1, <1>2, FS_Subset
<1> QED
  BY <1>1, <1>3, FS_CardinalityType

\* What is sent to the manager, or to nobody.
LEMMA Sent ==
  ASSUME TypeOK, NEW w \in Workers, NEW m \in Message, ToManager(w, m)
  PROVE  toMgr' \in Pipes
<1>1. toMgr \in Pipes
  BY DEF TypeOK, Pipes
<1>2. CASE mgr = "runs"
  BY <1>1, <1>2, Pushed DEF ToManager
<1>3. CASE mgr # "runs"
  BY <1>1, <1>3 DEF ToManager
<1> QED
  BY <1>2, <1>3

\* A manager that quits asks for v with force, if it is held.
LEMMA Forced ==
  ASSUME TypeOK, Table, NEW v \in Values, ReaperForces(v)
  PROVE  /\ toWkr' \in Pipes /\ v \in alive
         /\ \/ toWkr' = toWkr
            \/ toWkr' = [w \in Workers |-> Append(toWkr[w], ReleaseMsg(v, TRUE))]
<1>1. v \in alive /\ toWkr \in Pipes
  BY DEF ReaperForces, TypeOK, Pipes
<1>2. ReleaseMsg(v, TRUE) \in Message
  BY <1>1, Messages DEF Table
<1>3. CASE refcount[v] = 0
  <2>1. toWkr' = [w \in Workers |-> toWkr[w]]
    BY <1>3 DEF ReaperForces
  <2>2. toWkr' = toWkr
    BY <1>1, <2>1 DEF Pipes
  <2> QED
    BY <1>1, <2>2
<1>4. CASE refcount[v] # 0
  <2>1. toWkr' = [w \in Workers |-> Append(toWkr[w], ReleaseMsg(v, TRUE))]
    BY <1>4 DEF ReaperForces
  <2> QED
    BY <1>1, <1>2, <2>1, PushedAll
<1> QED
  BY <1>3, <1>4

\* The type invariant is kept.
LEMMA TypeStep == IInv /\ [Next]_vars => TypeOK'
<1> SUFFICES ASSUME IInv, [Next]_vars PROVE TypeOK'
  OBVIOUS
<1>1. TypeOK /\ toMgr \in Pipes /\ toWkr \in Pipes
  BY DEF IInv, TypeOK, Pipes
<1>2. ASSUME NEW w \in Workers, NEW r \in Requests, NEW k \in Keys, EvalHit(w, r, k)
      PROVE  TypeOK'
  BY <1>1, <1>2 DEF EvalHit, TypeOK, Use, manager, worker
<1>3. ASSUME NEW w \in Workers, NEW r \in Requests, NEW k \in Keys, EvalMiss(w, r, k)
      PROVE  TypeOK'
  <2>1. toMgr' \in Pipes
    BY <1>1, <1>3, Messages, Sent DEF EvalMiss
  <2>2. req' \in [Workers -> [Requests -> Request]]
    BY <1>1, <1>3 DEF EvalMiss, TypeOK, Request
  <2>3. UNCHANGED <<manager, hot, wtable, left, up, toWkr>> /\ starts' \in Nat
    BY <1>1, <1>3 DEF EvalMiss, TypeOK
  <2> QED
    BY <1>1, <2>1, <2>2, <2>3 DEF TypeOK, Pipes, manager
<1>4. ASSUME NEW w \in Workers, NEW r \in Requests, Close(w, r) PROVE TypeOK'
  <2>1. req' \in [Workers -> [Requests -> Request]]
    BY <1>1, <1>4 DEF Close, TypeOK, Request, NoRequest
  <2>2. left' \in [Workers -> SUBSET Requests]
    BY <1>1, <1>4 DEF Close, TypeOK
  <2> QED
    BY <1>1, <1>4, <2>1, <2>2 DEF Close, TypeOK, manager
\* A worker handles an alert.
<1>5. ASSUME NEW w \in Workers, NEW type, WorkerReceives(w, type)
      PROVE  /\ toWkr[w] # <<>> /\ Head(toWkr[w]) \in Message
             /\ [toWkr EXCEPT ![w] = Tail(toWkr[w])] \in Pipes
  BY <1>1, <1>5, Popped DEF WorkerReceives
<1>6. ASSUME NEW w \in Workers, ResponseFails(w) \/ ReleaseFails(w) PROVE TypeOK'
  <2>1. /\ Die(w) /\ toWkr' \in Pipes /\ UNCHANGED <<manager, hot, toMgr, starts>>
    BY <1>5, <1>6 DEF ResponseFails, ReleaseFails
  <2> QED
    BY <1>1, <2>1, DieTypes DEF TypeOK, Pipes, manager
<1>7. ASSUME NEW w \in Workers, ResponseResumes(w) \/ ResponseUntracked(w) PROVE TypeOK'
  <2> DEFINE m == Head(toWkr[w])
  <2>1. /\ m \in Message /\ m.val # NULL /\ toWkr' \in Pipes
        /\ wtable' = [wtable EXCEPT ![w][m.key] = [val |-> m.val, grant |-> m.grant]]
        /\ hot' \in {hot, hot \cup ({m.val} \cap alive)}
        /\ UNCHANGED <<manager, left, up, toMgr, starts>>
        /\ \/ req' = req
           \/ req' = [req EXCEPT ![w][m.req] = [req[w][m.req] EXCEPT !.st = "done", !.used = m.key]]
    BY <1>5, <1>7 DEF ResponseResumes, ResponseUntracked, Set, Use
  <2>2. m.val \in Values /\ m.key \in Keys /\ m.grant \in Nat
    BY <2>1 DEF Message
  <2>3. wtable' \in [Workers -> [Keys -> Entry]] /\ hot' \in SUBSET Values
    BY <1>1, <2>1, <2>2 DEF TypeOK, Entry
  <2>4. req' \in [Workers -> [Requests -> Request]]
    <3> DEFINE done == [req[w][m.req] EXCEPT !.st = "done", !.used = m.key]
    <3>1. CASE m.req \in Requests
      <4>1. req[w][m.req] \in Request /\ req[w] \in [Requests -> Request]
        BY <1>1, <3>1 DEF TypeOK
      <4>2. done \in Request
        BY <2>2, <4>1 DEF Request
      <4>3. req' = req \/ req' = [req EXCEPT ![w][m.req] = done]
        BY <2>1
      <4> HIDE DEF done, m
      <4>4. [req EXCEPT ![w][m.req] = done] \in [Workers -> [Requests -> Request]]
        BY <1>1, <3>1, <4>2 DEF TypeOK
      <4> QED
        BY <1>1, <4>3, <4>4 DEF TypeOK
    <3>2. CASE m.req \notin Requests
      <4> HIDE DEF m
      <4>1. [req[w] EXCEPT ![m.req] = done] = req[w]
        BY <1>1, <3>2 DEF TypeOK
      <4> HIDE DEF done
      <4> QED
        BY <1>1, <2>1, <3>2, <4>1 DEF TypeOK, done
    <3> QED
      BY <3>1, <3>2
  <2> QED
    BY <1>1, <2>1, <2>3, <2>4 DEF TypeOK, Pipes, manager
<1>8. ASSUME NEW w \in Workers, ReleaseHeld(w) PROVE TypeOK'
  <2> DEFINE m == Head(toWkr[w])
  <2>1. /\ m \in Message /\ toWkr' \in Pipes
        /\ wtable' = [wtable EXCEPT ![w][m.key] = NoEntry]
        /\ ToManager(w, ReleasedMsg(m, wtable[w][m.key]))
        /\ UNCHANGED <<manager, hot, req, left, up, starts>>
    BY <1>5, <1>8 DEF ReleaseHeld, Set
  <2>2. m.key \in Keys
    BY <2>1 DEF Message
  <2>3. toMgr' \in Pipes
    <3>1. ReleasedMsg(m, wtable[w][m.key]) \in Message
      BY <1>1, <2>1, Messages
    <3> HIDE DEF m
    <3> QED
      BY <1>1, <2>1, <3>1, Sent
  <2>4. wtable' \in [Workers -> [Keys -> Entry]]
    BY <1>1, <2>1, <2>2 DEF TypeOK, NoEntry, Entry
  <2> QED
    BY <1>1, <2>1, <2>3, <2>4 DEF TypeOK, Pipes, manager
<1>9. ASSUME NEW w \in Workers, ReleaseNotHeld(w) PROVE TypeOK'
  <2>1. toWkr' \in Pipes /\ UNCHANGED <<manager, worker, hot, toMgr, starts>>
    BY <1>5, <1>9 DEF ReleaseNotHeld
  <2> QED
    BY <1>1, <2>1 DEF TypeOK, Pipes, manager, worker
<1>10. ASSUME NEW w \in Workers, Respawn(w) PROVE TypeOK'
  BY <1>1, <1>10 DEF Respawn, TypeOK, manager
\* The manager handles one.
<1>11. ASSUME NEW w \in Workers, NEW type, ManagerReceives(w, type)
       PROVE  /\ Head(toMgr[w]) \in Message /\ Head(toMgr[w]) = toMgr[w][1]
              /\ 1 \in DOMAIN toMgr[w] /\ [toMgr EXCEPT ![w] = Tail(toMgr[w])] \in Pipes
  BY <1>1, <1>11, Popped DEF ManagerReceives
<1>12. ASSUME NEW w \in Workers, RequestFound(w) \/ RequestCreates(w) \/ RequestFails(w)
       PROVE  TypeOK'
  <2> DEFINE m == Head(toMgr[w])
  <2>1. m \in Message /\ toMgr' \in Pipes
    BY <1>11, <1>12 DEF RequestFound, RequestCreates, RequestFails, Grant
  <2>2. m.key \in Keys /\ m.req \in Requests \cup {NULL}
    BY <2>1 DEF Message
  <2>3. ASSUME NEW v \in Values \cup {NULL}, NEW g \in Nat,
               toWkr' = [toWkr EXCEPT ![w] = Append(toWkr[w], ResponseMsg(m.req, m.key, v, g))]
        PROVE  toWkr' \in Pipes
    <3>1. ResponseMsg(m.req, m.key, v, g) \in Message
      BY <1>1, <2>2, Messages
    <3> HIDE DEF m
    <3> QED
      BY <1>1, <2>3, <3>1, Pushed
  <2>4. CASE RequestFound(w)
    <3>1. /\ mtable[m.key] \in Values /\ granted' = granted + 1 /\ granted' \in Nat
          /\ toWkr' = [toWkr EXCEPT ![w] =
                         Append(toWkr[w], ResponseMsg(m.req, m.key, mtable[m.key], granted + 1))]
      BY <1>1, <2>2, <2>4 DEF RequestFound, Grant, TypeOK
    <3>2. toWkr' \in Pipes
      BY <2>3, <3>1
    <3>3. refcount' \in [Values -> Nat] /\ grants' \in [Values -> SUBSET Nat]
      BY <1>1, <2>4, <3>1 DEF RequestFound, TypeOK
    <3> QED
      BY <1>1, <2>1, <2>4, <3>1, <3>2, <3>3 DEF RequestFound, TypeOK, Pipes, worker
  <2>5. CASE RequestCreates(w)
    <3>1. PICK v \in Values \ alive :
            /\ alive' = alive \cup {v}
            /\ vkey' = [vkey EXCEPT ![v] = m.key]
            /\ hot' = hot \cup {v}
            /\ refcount' = [refcount EXCEPT ![v] = 1]
            /\ mtable' = [mtable EXCEPT ![m.key] = v]
            /\ grants' = [grants EXCEPT ![v] = {granted + 1}]
            /\ Grant(w, m, v)
      BY <2>5 DEF RequestCreates
    <3>2. /\ granted + 1 \in Nat /\ granted' = granted + 1 /\ v \in Values \cup {NULL}
          /\ toWkr' = [toWkr EXCEPT ![w] =
                         Append(toWkr[w], ResponseMsg(m.req, m.key, v, granted + 1))]
      BY <1>1, <3>1 DEF Grant, TypeOK
    <3>3. granted' \in Nat /\ toWkr' \in Pipes
      BY <2>3, <3>2
    <3>4. /\ alive' \in SUBSET Values /\ vkey' \in [Values -> Keys \cup {NULL}]
          /\ hot' \in SUBSET Values /\ refcount' \in [Values -> Nat]
          /\ mtable' \in [Keys -> Values \cup {NULL}] /\ grants' \in [Values -> SUBSET Nat]
      BY <1>1, <2>2, <3>1 DEF TypeOK
    <3> QED
      BY <1>1, <2>1, <2>5, <3>3, <3>4 DEF RequestCreates, TypeOK, Pipes, worker
  <2>6. CASE RequestFails(w)
    <3>1. toWkr' \in Pipes
      BY <2>3, <2>6 DEF RequestFails
    <3> QED
      BY <1>1, <2>1, <2>6, <3>1 DEF RequestFails, TypeOK, Pipes, worker, manager
  <2> QED
    BY <1>12, <2>4, <2>5, <2>6
<1>13. ASSUME NEW w \in Workers, Released(w) PROVE TypeOK'
  <2> DEFINE m == Head(toMgr[w])
  <2>1. /\ m \in Message /\ toMgr' \in Pipes /\ m.type = "released" /\ m = toMgr[w][1]
        /\ 1 \in DOMAIN toMgr[w] /\ mgr = "runs"
        /\ UNCHANGED <<mgr, granted, worker, toWkr, starts>>
    BY <1>11, <1>13 DEF Released, ManagerReceives
  <2>2. m.val \in Values /\ m.val # NULL
    BY <2>1 DEF IInv, GivenBack, Message
  <2>3. refcount[m.val] # 0
    <3>1. m.val \in Values /\ refcount[m.val] \in Nat
      BY <1>1, <2>2 DEF TypeOK
    <3> DEFINE c == Pointer("returned", w, 1, m.key, m)
    <3>2. c \in Pointers /\ c.grant = m.grant /\ c.val = m.val
      <4>1. 1 \in With(toMgr, w, "released")
        BY <2>1, <2>2 DEF With
      <4> QED
        BY <2>1, <4>1 DEF Pointers, SentPointers, Pointer
    <3> HIDE DEF c
    <3>3. m.grant \in grants[m.val]
      BY <2>1, <3>2 DEF IInv, Owned, OwnedAs
    <3>4. /\ refcount[m.val] = Cardinality(grants[m.val]) /\ IsFiniteSet(grants[m.val])
      BY <1>1, <3>1, FewGrants DEF IInv
    <3> QED
      BY <3>3, <3>4, FS_EmptySet
  <2>4. /\ alive' \in SUBSET Values /\ mtable' \in [Keys -> Values \cup {NULL}]
        /\ vkey' \in [Values -> Keys \cup {NULL}] /\ hot' \in SUBSET Values
        /\ refcount' \in [Values -> Nat] /\ grants' \in [Values -> SUBSET Nat]
    <3>1. CASE Reap(m.val)
      BY <1>1, <2>2, <3>1, ReapTypes
    <3>2. CASE UNCHANGED <<mtable, refcount, alive, vkey, grants, hot>>
      BY <1>1, <3>2 DEF TypeOK
    <3>3. CASE /\ refcount' = [refcount EXCEPT ![m.val] = @ - 1]
               /\ grants' = [grants EXCEPT ![m.val] = @ \ {m.grant}]
               /\ UNCHANGED <<mtable, alive, vkey, hot>>
      BY <1>1, <2>2, <2>3, <3>3 DEF TypeOK
    <3> QED
      BY <1>13, <3>1, <3>2, <3>3 DEF Released
  <2> HIDE DEF m
  <2> QED
    BY <1>1, <2>1, <2>4 DEF TypeOK, Pipes, worker
<1>14. ASSUME NEW v \in Values, ReaperFrees(v) PROVE TypeOK'
  <2>1. Reap(v) /\ UNCHANGED <<mgr, granted, worker, toMgr, toWkr, starts>>
    BY <1>14 DEF ReaperFrees
  <2> QED
    BY <1>1, <2>1, ReapTypes DEF TypeOK, worker
<1>15. ASSUME NEW v \in Values, ReaperAsks(v) PROVE TypeOK'
  <2>1. ReleaseMsg(v, FALSE) \in Message
    BY <1>1, <1>15, Messages DEF ReaperAsks, IInv, Table
  <2>2. toWkr' \in Pipes
    BY <1>1, <1>15, <2>1, PushedAll DEF ReaperAsks
  <2> QED
    BY <1>1, <1>15, <2>2 DEF ReaperAsks, TypeOK, Pipes, worker, manager
<1>16. ASSUME NEW v \in Values, Drain(v) PROVE TypeOK'
  BY <1>1, <1>16 DEF Drain, TypeOK, worker, manager
\* The manager quits.
<1>17. ASSUME NEW v \in Values, ReaperForces(v) PROVE TypeOK'
  <2>1. toWkr' \in Pipes
    BY <1>1, <1>17, Forced DEF IInv
  <2>2. Reap(v) /\ UNCHANGED <<mgr, granted, worker, toMgr, starts>>
    BY <1>17 DEF ReaperForces
  <2> QED
    BY <1>1, <2>1, <2>2, ReapTypes DEF TypeOK, Pipes, worker
<1>18. CASE ManagerQuits
  <2>1. toMgr' \in Pipes
    BY <1>18 DEF ManagerQuits, Pipes
  <2> QED
    BY <1>1, <1>18, <2>1 DEF ManagerQuits, TypeOK, Pipes, worker
<1>19. CASE ManagerExits
  BY <1>1, <1>19, Lost DEF ManagerExits, TypeOK, Pipes, worker
<1>20. CASE UNCHANGED vars
  BY <1>1, <1>20 DEF vars, TypeOK
<1> QED
  BY <1>2, <1>3, <1>4, <1>6, <1>7, <1>8, <1>9, <1>10, <1>12, <1>13, <1>14, <1>15, <1>16,
     <1>17, <1>18, <1>19, <1>20 DEF Next, WorkerHandles, ManagerHandles

-----------------------------------------------------------------------------
(* Where pointers come from.                                               *)

\* The three kinds of pointers.
Forms ==
  /\ \A w \in Workers, k \in Keys :
       wtable[w][k].val # NULL => Pointer("table", w, k, k, wtable[w][k]) \in Pointers
  /\ \A w \in Workers : \A i \in DOMAIN toWkr[w] :
       toWkr[w][i].type = "response" /\ toWkr[w][i].val # NULL =>
         Pointer("answer", w, i, toWkr[w][i].key, toWkr[w][i]) \in Pointers
  /\ \A w \in Workers : \A i \in DOMAIN toMgr[w] :
       toMgr[w][i].type = "released" /\ toMgr[w][i].val # NULL =>
         Pointer("returned", w, i, toMgr[w][i].key, toMgr[w][i]) \in Pointers
  /\ \A c \in Pointers :
       \/ \E w \in Workers, k \in Keys :
            wtable[w][k].val # NULL /\ c = Pointer("table", w, k, k, wtable[w][k])
       \/ \E w \in Workers : \E i \in DOMAIN toWkr[w] :
            /\ toWkr[w][i].type = "response" /\ toWkr[w][i].val # NULL
            /\ c = Pointer("answer", w, i, toWkr[w][i].key, toWkr[w][i])
       \/ \E w \in Workers : \E i \in DOMAIN toMgr[w] :
            /\ toMgr[w][i].type = "released" /\ toMgr[w][i].val # NULL
            /\ c = Pointer("returned", w, i, toMgr[w][i].key, toMgr[w][i])

LEMMA PointerForms == Forms
<1>1. ASSUME NEW w \in Workers, NEW k \in Keys, wtable[w][k].val # NULL
      PROVE  Pointer("table", w, k, k, wtable[w][k]) \in Pointers
  BY <1>1 DEF Pointers, HeldPointers, Held
<1>2. ASSUME NEW w \in Workers, NEW i \in DOMAIN toWkr[w],
             toWkr[w][i].type = "response", toWkr[w][i].val # NULL
      PROVE  Pointer("answer", w, i, toWkr[w][i].key, toWkr[w][i]) \in Pointers
  BY <1>2 DEF Pointers, SentPointers, With
<1>3. ASSUME NEW w \in Workers, NEW i \in DOMAIN toMgr[w],
             toMgr[w][i].type = "released", toMgr[w][i].val # NULL
      PROVE  Pointer("returned", w, i, toMgr[w][i].key, toMgr[w][i]) \in Pointers
  BY <1>3 DEF Pointers, SentPointers, With
<1>4. ASSUME NEW c \in Pointers
      PROVE  \/ \E w \in Workers, k \in Keys :
                  wtable[w][k].val # NULL /\ c = Pointer("table", w, k, k, wtable[w][k])
             \/ \E w \in Workers : \E i \in DOMAIN toWkr[w] :
                  /\ toWkr[w][i].type = "response" /\ toWkr[w][i].val # NULL
                  /\ c = Pointer("answer", w, i, toWkr[w][i].key, toWkr[w][i])
             \/ \E w \in Workers : \E i \in DOMAIN toMgr[w] :
                  /\ toMgr[w][i].type = "released" /\ toMgr[w][i].val # NULL
                  /\ c = Pointer("returned", w, i, toMgr[w][i].key, toMgr[w][i])
  <2>1. CASE c \in HeldPointers
    BY <2>1 DEF HeldPointers, Held
  <2>2. CASE c \in SentPointers(toWkr, "answer", "response")
    BY <2>2 DEF SentPointers, With
  <2>3. CASE c \in SentPointers(toMgr, "returned", "released")
    BY <2>3 DEF SentPointers, With
  <2> QED
    BY <2>1, <2>2, <2>3 DEF Pointers
<1> QED
  BY <1>1, <1>2, <1>3, <1>4 DEF Forms

\* Each pointer of S was one before, where h tells, and no two were the same.
Comes(S, h) ==
  /\ \A c \in S : /\ h[c] \in Pointers
                  /\ h[c].key = c.key /\ h[c].val = c.val /\ h[c].grant = c.grant
  /\ \A c, d \in S : h[c] = h[d] => c = d

\* A worker handles an alert m: it forgets what m told, or what it had in its table;
\* or it keeps the value of an answer; or it gives one back that it had.
Handles(w, m) ==
  /\ toWkr[w] # <<>> /\ m = Head(toWkr[w])
  /\ toWkr' = [toWkr EXCEPT ![w] = Tail(toWkr[w])]
  /\ \A u \in Workers, k \in Keys :
       wtable'[u][k].val # NULL =>
         wtable'[u][k] = IF u = w /\ k = m.key /\ m.type = "response"
                         THEN [val |-> m.val, grant |-> m.grant] ELSE wtable[u][k]
  /\ \/ UNCHANGED toMgr
     \/ /\ m.type = "release" /\ wtable'[w][m.key].val = NULL /\ wtable[w][m.key].val # NULL
        /\ toMgr' = [toMgr EXCEPT ![w] = Append(toMgr[w], ReleasedMsg(m, wtable[w][m.key]))]

\* After it no pointer is where it was not before in another place.
LEMMA WorkerMoves ==
  ASSUME TypeOK, NEW w \in Workers, NEW m, Handles(w, m)
  PROVE  \E h : Comes(Pointers', h)
<1> DEFINE n == Len(toMgr[w]) + 1
           Told(c) == c.in = "answer" /\ c.w = w
           Kept(c) == c.in = "table" /\ c.w = w /\ c.i = m.key /\ m.type = "response"
           Given(c) == c.in = "returned" /\ c.w = w /\ c.i = n
           was(c) == CASE Told(c) -> Pointer("answer", w, c.i + 1, toWkr[w][c.i + 1].key, toWkr[w][c.i + 1])
                       [] Kept(c) -> Pointer("answer", w, 1, m.key, m)
                       [] Given(c) -> Pointer("table", w, m.key, m.key, wtable[w][m.key])
                       [] OTHER -> c
           h == [c \in Pointers' |-> was(c)]
           \* was(c) is the same pointer as c, and c can be told from was(c).
           Same(c) ==
             /\ h[c] \in Pointers
             /\ h[c].key = c.key /\ h[c].val = c.val /\ h[c].grant = c.grant
             /\ Told(c) => /\ h[c].in = "answer" /\ h[c].w = w /\ h[c].i = c.i + 1 /\ c.i \in Nat \ {0}
                           /\ c = Pointer("answer", w, c.i, toWkr'[w][c.i].key, toWkr'[w][c.i])
             /\ Kept(c) => /\ h[c].in = "answer" /\ h[c].w = w /\ h[c].i = 1
                           /\ c = Pointer("table", w, m.key, m.key, wtable'[w][m.key])
             /\ Given(c) => /\ h[c].in = "table" /\ h[c].w = w /\ h[c].i = m.key
                            /\ c = Pointer("returned", w, n, toMgr'[w][n].key, toMgr'[w][n])
                            /\ wtable'[w][m.key].val = NULL
             /\ ~Told(c) /\ ~Kept(c) /\ ~Given(c) => h[c] = c
             /\ c.in = "table" => wtable'[c.w][c.i].val # NULL
<1>1. Forms
  BY PointerForms
<1>a. Forms'
  BY PointerForms, PTL
<1>2. /\ \A u \in Workers : u # w => toWkr'[u] = toWkr[u]
      /\ 1 \in DOMAIN toWkr[w] /\ m = toWkr[w][1] /\ m \in Message
      /\ \A i \in DOMAIN toWkr'[w] :
           i \in Nat \ {0} /\ i + 1 \in DOMAIN toWkr[w] /\ toWkr'[w][i] = toWkr[w][i + 1]
  BY Popped DEF Handles, TypeOK, Pipes
<1>3. \A c \in Pointers' : h[c] = was(c)
  OBVIOUS
<1>4. n \in Nat /\ DOMAIN toMgr[w] = 1..(n - 1)
  BY LenProperties DEF TypeOK
<1> HIDE DEF h, n
<1>5. ASSUME NEW u \in Workers, NEW k \in Keys, wtable'[u][k].val # NULL,
             NEW c \in Pointers', c = Pointer("table", u, k, k, wtable'[u][k])
      PROVE  Same(c)
  <2>1. /\ c.in = "table" /\ c.w = u /\ c.i = k /\ c.key = k
        /\ c.val = wtable'[u][k].val /\ c.grant = wtable'[u][k].grant
    BY <1>5 DEF Pointer
  <2>2. CASE Kept(c)
    <3> DEFINE b == Pointer("answer", w, 1, m.key, m)
    <3>1. h[c] = b
      BY <1>3, <2>1, <2>2
    <3>2. u = w /\ k = m.key /\ m.type = "response"
      BY <2>1, <2>2
    <3>3. c.val = m.val /\ c.grant = m.grant
      <4>1. wtable'[w][m.key] = [val |-> m.val, grant |-> m.grant]
        BY <1>5, <3>2 DEF Handles
      <4> QED
        BY <2>1, <3>2, <4>1
    <3>4. b \in Pointers
      <4>1. m.type = "response" /\ m.val # NULL
        BY <1>5, <2>1, <3>2, <3>3
      <4> QED
        BY <1>1, <1>2, <4>1 DEF Forms
    <3>5. b.in = "answer" /\ b.w = w /\ b.i = 1 /\ b.key = m.key /\ b.val = m.val /\ b.grant = m.grant
      BY DEF Pointer
    <3> HIDE DEF b
    <3> QED
      BY <1>5, <2>1, <2>2, <3>1, <3>2, <3>3, <3>4, <3>5
  <2>3. CASE ~Kept(c)
    <3>1. wtable'[u][k] = wtable[u][k]
      BY <1>5, <2>1, <2>3 DEF Handles
    <3>2. c \in Pointers
      BY <1>1, <1>5, <3>1 DEF Forms
    <3> QED
      BY <1>3, <1>5, <2>1, <2>3, <3>2
  <2> QED
    BY <2>2, <2>3
<1>6. ASSUME NEW u \in Workers, NEW i \in DOMAIN toWkr'[u],
             toWkr'[u][i].type = "response", toWkr'[u][i].val # NULL,
             NEW c \in Pointers', c = Pointer("answer", u, i, toWkr'[u][i].key, toWkr'[u][i])
      PROVE  Same(c)
  <2>1. /\ c.in = "answer" /\ c.w = u /\ c.i = i /\ c.key = toWkr'[u][i].key
        /\ c.val = toWkr'[u][i].val /\ c.grant = toWkr'[u][i].grant
    BY <1>6 DEF Pointer
  <2>2. CASE u = w
    <3> DEFINE b == Pointer("answer", w, i + 1, toWkr[w][i + 1].key, toWkr[w][i + 1])
    <3>1. h[c] = b
      BY <1>3, <2>1, <2>2
    <3>2. i \in Nat \ {0} /\ i + 1 \in DOMAIN toWkr[w] /\ toWkr'[w][i] = toWkr[w][i + 1]
      BY <1>2, <1>6, <2>2
    <3>3. b \in Pointers
      <4>1. toWkr[w][i + 1].type = "response" /\ toWkr[w][i + 1].val # NULL
        BY <1>6, <2>2, <3>2
      <4> QED
        BY <1>1, <3>2, <4>1 DEF Forms
    <3>4. /\ b.in = "answer" /\ b.w = w /\ b.i = i + 1 /\ b.key = toWkr[w][i + 1].key
          /\ b.val = toWkr[w][i + 1].val /\ b.grant = toWkr[w][i + 1].grant
      BY DEF Pointer
    <3>5. Told(c) /\ ~Kept(c) /\ ~Given(c) /\ c.in # "table"
      BY <2>1, <2>2
    <3>6. c = Pointer("answer", w, c.i, toWkr'[w][c.i].key, toWkr'[w][c.i])
      BY <1>6, <2>1, <2>2
    <3>7. /\ h[c] \in Pointers /\ h[c].key = c.key /\ h[c].val = c.val /\ h[c].grant = c.grant
          /\ h[c].in = "answer" /\ h[c].w = w /\ h[c].i = c.i + 1 /\ c.i \in Nat \ {0}
      BY <2>1, <2>2, <3>1, <3>2, <3>3, <3>4
    <3> HIDE DEF b, Told, Kept, Given
    <3> QED
      BY <3>5, <3>6, <3>7
  <2>3. CASE u # w
    <3>1. c \in Pointers
      BY <1>1, <1>2, <1>6, <2>3 DEF Forms
    <3> QED
      BY <1>3, <2>1, <2>3, <3>1
  <2> QED
    BY <2>2, <2>3
<1>7. ASSUME NEW u \in Workers, NEW i \in DOMAIN toMgr'[u],
             toMgr'[u][i].type = "released", toMgr'[u][i].val # NULL,
             NEW c \in Pointers', c = Pointer("returned", u, i, toMgr'[u][i].key, toMgr'[u][i])
      PROVE  Same(c)
  <2>1. /\ c.in = "returned" /\ c.w = u /\ c.i = i /\ c.key = toMgr'[u][i].key
        /\ c.val = toMgr'[u][i].val /\ c.grant = toMgr'[u][i].grant
    BY <1>7 DEF Pointer
  <2>2. ASSUME i \in DOMAIN toMgr[u], toMgr'[u][i] = toMgr[u][i], ~Given(c) PROVE Same(c)
    <3>1. c \in Pointers
      BY <1>1, <1>7, <2>2 DEF Forms
    <3> QED
      BY <1>3, <2>1, <2>2, <3>1
  <2>3. CASE UNCHANGED toMgr
    <3>1. ~Given(c)
      BY <1>4, <1>7, <2>1, <2>3
    <3> QED
      BY <1>7, <2>2, <2>3, <3>1
  <2>4. CASE /\ m.type = "release" /\ wtable'[w][m.key].val = NULL /\ wtable[w][m.key].val # NULL
             /\ toMgr' = [toMgr EXCEPT ![w] = Append(toMgr[w], ReleasedMsg(m, wtable[w][m.key]))]
    <3> DEFINE x == ReleasedMsg(m, wtable[w][m.key])
    <3>1. m.key \in Keys /\ x \in Message
      BY <1>2, Messages DEF Message
    <3>2. /\ \A v \in Workers : v # w => toMgr'[v] = toMgr[v]
          /\ DOMAIN toMgr'[w] = 1..n
          /\ \A j \in DOMAIN toMgr[w] : toMgr'[w][j] = toMgr[w][j]
          /\ toMgr'[w][n] = x
      <4> HIDE DEF x
      <4>1. toMgr \in Pipes
        BY DEF TypeOK, Pipes
      <4>2. toMgr' = [toMgr EXCEPT ![w] = Append(toMgr[w], x)]
        BY <2>4 DEF x
      <4> QED
        BY <3>1, <4>1, <4>2, Pushed DEF n
    <3>3. CASE Given(c)
      <4> DEFINE b == Pointer("table", w, m.key, m.key, wtable[w][m.key])
      <4>1. h[c] = b
        BY <1>3, <2>1, <3>3
      <4>2. u = w /\ i = n
        BY <2>1, <3>3
      <4>3. c.key = m.key /\ c.val = wtable[w][m.key].val /\ c.grant = wtable[w][m.key].grant
        BY <2>1, <3>2, <4>2 DEF ReleasedMsg
      <4>4. b \in Pointers
        BY <1>1, <2>4, <3>1 DEF Forms
      <4>5. /\ b.in = "table" /\ b.w = w /\ b.i = m.key /\ b.key = m.key
            /\ b.val = wtable[w][m.key].val /\ b.grant = wtable[w][m.key].grant
        BY DEF Pointer
      <4> HIDE DEF b, x
      <4> QED
        BY <1>7, <2>1, <2>4, <3>3, <4>1, <4>2, <4>3, <4>4, <4>5
    <3>4. CASE ~Given(c)
      <4>1. i \in DOMAIN toMgr[u] /\ toMgr'[u][i] = toMgr[u][i]
        <5>1. CASE u = w
          BY <1>4, <1>7, <2>1, <3>2, <3>4, <5>1
        <5>2. CASE u # w
          BY <1>7, <3>2, <5>2
        <5> QED
          BY <5>1, <5>2
      <4> QED
        BY <2>2, <3>4, <4>1
    <3> QED
      BY <3>3, <3>4
  <2> QED
    BY <2>3, <2>4 DEF Handles
<1>8. ASSUME NEW c \in Pointers' PROVE Same(c)
  <2> HIDE DEF Same
  <2> QED
    BY <1>a, <1>5, <1>6, <1>7 DEF Forms
<1>9. ASSUME NEW c \in Pointers', NEW d \in Pointers', h[c] = h[d] PROVE c = d
  BY <1>8, <1>9
<1>10. Comes(Pointers', h)
  BY <1>8, <1>9 DEF Comes
<1> QED
  BY <1>10

\* What the workers do when they handle an alert.
LEMMA WorkerSteps ==
  ASSUME IInv, NEW w \in Workers,
         \/ ResponseFails(w) \/ ResponseResumes(w) \/ ResponseUntracked(w)
         \/ ReleaseHeld(w) \/ ReleaseNotHeld(w) \/ ReleaseFails(w)
  PROVE  Handles(w, Head(toWkr[w])) /\ UNCHANGED manager
<1> DEFINE m == Head(toWkr[w])
<1>1. TypeOK
  BY DEF IInv
<1>2. toWkr[w] # <<>> /\ toWkr' = [toWkr EXCEPT ![w] = Tail(toWkr[w])] /\ UNCHANGED manager
  BY DEF ResponseFails, ResponseResumes, ResponseUntracked, ReleaseHeld, ReleaseNotHeld,
         ReleaseFails, WorkerReceives
<1>3. 1 \in DOMAIN toWkr[w] /\ m = toWkr[w][1] /\ m \in Message /\ m.key \in Keys
  <2>1. toWkr \in Pipes
    BY <1>1 DEF TypeOK, Pipes
  <2>2. 1 \in DOMAIN toWkr[w] /\ m = toWkr[w][1] /\ m \in Message
    BY <1>2, <2>1, Popped
  <2> QED
    BY <2>2 DEF Message
<1> HIDE DEF m
<1>4. CASE ResponseFails(w) \/ ReleaseFails(w)
  <2>1. Die(w) /\ UNCHANGED toMgr
    BY <1>4 DEF ResponseFails, ReleaseFails
  <2>2. \A u \in Workers, k \in Keys :
          wtable'[u][k].val # NULL => u # w /\ wtable'[u][k] = wtable[u][k]
    BY <1>1, <2>1, DieTypes
  <2> QED
    BY <1>2, <2>1, <2>2 DEF Handles, m
<1>5. CASE ResponseResumes(w) \/ ResponseUntracked(w)
  <2>1. /\ m.type = "response" /\ UNCHANGED toMgr
        /\ wtable' = [wtable EXCEPT ![w][m.key] = [val |-> m.val, grant |-> m.grant]]
    BY <1>5 DEF ResponseResumes, ResponseUntracked, WorkerReceives, Set, m
  <2>2. \A u \in Workers, k \in Keys :
          wtable'[u][k] = IF u = w /\ k = m.key /\ m.type = "response"
                          THEN [val |-> m.val, grant |-> m.grant] ELSE wtable[u][k]
    BY <1>1, <1>3, <2>1 DEF TypeOK
  <2> QED
    BY <1>2, <2>1, <2>2 DEF Handles, m
<1>6. CASE ReleaseHeld(w)
  <2>1. /\ m.type = "release" /\ wtable[w][m.key].val = m.val
        /\ wtable' = [wtable EXCEPT ![w][m.key] = NoEntry]
        /\ \/ UNCHANGED toMgr
           \/ toMgr' = [toMgr EXCEPT ![w] = Append(toMgr[w], ReleasedMsg(m, wtable[w][m.key]))]
    <3>1. ToManager(w, ReleasedMsg(m, wtable[w][m.key]))
      BY <1>6 DEF ReleaseHeld, m
    <3>2. \/ UNCHANGED toMgr
          \/ toMgr' = [toMgr EXCEPT ![w] = Append(toMgr[w], ReleasedMsg(m, wtable[w][m.key]))]
      BY <3>1 DEF ToManager
    <3> QED
      BY <1>6, <3>2 DEF ReleaseHeld, WorkerReceives, Set, m
  <2>2. m.val # NULL
    BY <1>3, <2>1 DEF IInv, Asked
  <2>3. /\ wtable'[w][m.key].val = NULL
        /\ \A u \in Workers, k \in Keys :
             wtable'[u][k].val # NULL => wtable'[u][k] = wtable[u][k]
    BY <1>1, <1>3, <2>1 DEF TypeOK, NoEntry
  <2>4. m.type # "response"
    BY <2>1
  <2> QED
    BY <1>2, <2>1, <2>2, <2>3, <2>4 DEF Handles, m
<1>7. CASE ReleaseNotHeld(w)
  <2>1. m.type = "release" /\ UNCHANGED <<wtable, toMgr>>
    BY <1>7 DEF ReleaseNotHeld, WorkerReceives, worker, m
  <2> QED
    BY <1>2, <2>1 DEF Handles, m
<1> QED
  BY <1>4, <1>5, <1>6, <1>7 DEF m

\* The manager handles an alert m and answers with x, or not: no pointer but the answer
\* is new, and what m gave back is gone.
LEMMA ManagerMoves ==
  ASSUME TypeOK, NEW w \in Workers, toMgr[w] # <<>>, NEW m, m = Head(toMgr[w]),
         toMgr' = [toMgr EXCEPT ![w] = Tail(toMgr[w])], UNCHANGED wtable,
         NEW x \in Message, NEW S, NEW n, n = Len(toWkr[w]) + 1,
         \/ toWkr' = toWkr /\ S = Pointers'
         \/ /\ toWkr' = [toWkr EXCEPT ![w] = Append(toWkr[w], x)]
            /\ S = Pointers' \ {Pointer("answer", w, n, x.key, x)}
  PROVE  \E h : /\ Comes(S, h)
               /\ \A c \in S : h[c] # Pointer("returned", w, 1, m.key, m)
<1> DEFINE Back(c) == c.in = "returned" /\ c.w = w
           was(c) == IF Back(c)
                     THEN Pointer("returned", w, c.i + 1, toMgr[w][c.i + 1].key, toMgr[w][c.i + 1])
                     ELSE c
           h == [c \in S |-> was(c)]
           Same(c) ==
             /\ h[c] \in Pointers
             /\ h[c].key = c.key /\ h[c].val = c.val /\ h[c].grant = c.grant
             /\ Back(c) => /\ h[c].in = "returned" /\ h[c].w = w /\ h[c].i = c.i + 1 /\ c.i \in Nat \ {0}
                           /\ c = Pointer("returned", w, c.i, toMgr'[w][c.i].key, toMgr'[w][c.i])
             /\ ~Back(c) => h[c] = c
<1>1. Forms
  BY PointerForms
<1>2. Forms'
  BY PointerForms, PTL
<1>3. /\ \A u \in Workers : u # w => toMgr'[u] = toMgr[u]
      /\ \A i \in DOMAIN toMgr'[w] :
           i \in Nat \ {0} /\ i + 1 \in DOMAIN toMgr[w] /\ toMgr'[w][i] = toMgr[w][i + 1]
  BY Popped DEF TypeOK, Pipes
<1>4. \A c \in S : h[c] = was(c)
  OBVIOUS
<1> HIDE DEF h
<1>5. ASSUME NEW u \in Workers, NEW k \in Keys, wtable'[u][k].val # NULL,
             NEW c \in S, c = Pointer("table", u, k, k, wtable'[u][k])
      PROVE  Same(c)
  <2>1. c.in = "table"
    BY <1>5 DEF Pointer
  <2>2. c \in Pointers
    BY <1>1, <1>5 DEF Forms
  <2> QED
    BY <1>4, <2>1, <2>2
<1>6. ASSUME NEW u \in Workers, NEW i \in DOMAIN toWkr'[u],
             toWkr'[u][i].type = "response", toWkr'[u][i].val # NULL,
             NEW c \in S, c = Pointer("answer", u, i, toWkr'[u][i].key, toWkr'[u][i])
      PROVE  Same(c)
  <2>1. c.in = "answer" /\ c.w = u /\ c.i = i
    BY <1>6 DEF Pointer
  <2>2. i \in DOMAIN toWkr[u] /\ toWkr'[u][i] = toWkr[u][i]
    <3>1. CASE toWkr' = toWkr
      BY <1>6, <3>1
    <3>2. CASE /\ toWkr' = [toWkr EXCEPT ![w] = Append(toWkr[w], x)]
               /\ S = Pointers' \ {Pointer("answer", w, n, x.key, x)}
      <4>1. toWkr \in Pipes
        BY DEF TypeOK, Pipes
      <4>2. /\ Len(toWkr[w]) \in Nat /\ DOMAIN toWkr[w] = 1..Len(toWkr[w])
            /\ \A v \in Workers : v # w => toWkr'[v] = toWkr[v]
            /\ DOMAIN toWkr'[w] = 1..n
            /\ \A j \in DOMAIN toWkr[w] : toWkr'[w][j] = toWkr[w][j]
            /\ toWkr'[w][n] = x
        BY <3>2, <4>1, Pushed
      <4>3. u # w \/ i # n
        BY <1>6, <3>2, <4>2
      <4> QED
        BY <1>6, <4>2, <4>3
    <3> QED
      BY <3>1, <3>2
  <2>3. c \in Pointers
    BY <1>1, <1>6, <2>2 DEF Forms
  <2> QED
    BY <1>4, <2>1, <2>3
<1>7. ASSUME NEW u \in Workers, NEW i \in DOMAIN toMgr'[u],
             toMgr'[u][i].type = "released", toMgr'[u][i].val # NULL,
             NEW c \in S, c = Pointer("returned", u, i, toMgr'[u][i].key, toMgr'[u][i])
      PROVE  Same(c)
  <2>1. /\ c.in = "returned" /\ c.w = u /\ c.i = i /\ c.key = toMgr'[u][i].key
        /\ c.val = toMgr'[u][i].val /\ c.grant = toMgr'[u][i].grant
    BY <1>7 DEF Pointer
  <2>2. CASE u = w
    <3> DEFINE b == Pointer("returned", w, i + 1, toMgr[w][i + 1].key, toMgr[w][i + 1])
    <3>1. h[c] = b
      BY <1>4, <2>1, <2>2
    <3>2. i \in Nat \ {0} /\ i + 1 \in DOMAIN toMgr[w] /\ toMgr'[w][i] = toMgr[w][i + 1]
      BY <1>3, <1>7, <2>2
    <3>3. b \in Pointers
      <4>1. toMgr[w][i + 1].type = "released" /\ toMgr[w][i + 1].val # NULL
        BY <1>7, <2>2, <3>2
      <4> QED
        BY <1>1, <3>2, <4>1 DEF Forms
    <3>4. /\ b.in = "returned" /\ b.w = w /\ b.i = i + 1 /\ b.key = toMgr[w][i + 1].key
          /\ b.val = toMgr[w][i + 1].val /\ b.grant = toMgr[w][i + 1].grant
      BY DEF Pointer
    <3>5. Back(c) /\ c = Pointer("returned", w, c.i, toMgr'[w][c.i].key, toMgr'[w][c.i])
      BY <1>7, <2>1, <2>2
    <3>6. /\ h[c] \in Pointers /\ h[c].key = c.key /\ h[c].val = c.val /\ h[c].grant = c.grant
          /\ h[c].in = "returned" /\ h[c].w = w /\ h[c].i = c.i + 1 /\ c.i \in Nat \ {0}
      BY <2>1, <2>2, <3>1, <3>2, <3>3, <3>4
    <3> HIDE DEF b, Back
    <3> QED
      BY <3>5, <3>6
  <2>3. CASE u # w
    <3>1. c \in Pointers
      BY <1>1, <1>3, <1>7, <2>3 DEF Forms
    <3> QED
      BY <1>4, <2>1, <2>3, <3>1
  <2> QED
    BY <2>2, <2>3
<1>8. ASSUME NEW c \in S PROVE Same(c)
  <2>1. c \in Pointers'
    BY <1>8
  <2> HIDE DEF Same
  <2> QED
    BY <1>2, <1>5, <1>6, <1>7, <2>1 DEF Forms
<1>9. ASSUME NEW c \in S, NEW d \in S, h[c] = h[d] PROVE c = d
  BY <1>8, <1>9
<1>10. ASSUME NEW c \in S PROVE h[c] # Pointer("returned", w, 1, m.key, m)
  <2>1. \/ h[c].in # "returned"
        \/ h[c].w # w
        \/ h[c].i = c.i + 1 /\ c.i \in Nat \ {0}
    BY <1>8
  <2> QED
    BY <2>1 DEF Pointer
<1>11. Comes(S, h)
  BY <1>8, <1>9 DEF Comes
<1> QED
  BY <1>10, <1>11

\* What nobody handles leaves the pointers where they are: an alert is sent that
\* carries none.
LEMMA NothingHandled ==
  ASSUME TypeOK, UNCHANGED wtable,
         \A w \in Workers : \A i \in DOMAIN toWkr'[w] :
           \/ i \in DOMAIN toWkr[w] /\ toWkr'[w][i] = toWkr[w][i]
           \/ toWkr'[w][i].type # "response",
         \A w \in Workers : \A i \in DOMAIN toMgr'[w] :
           \/ i \in DOMAIN toMgr[w] /\ toMgr'[w][i] = toMgr[w][i]
           \/ toMgr'[w][i].type # "released"
  PROVE  \E h : Comes(Pointers', h)
<1>1. Forms
  BY PointerForms
<1>2. Forms'
  BY PointerForms, PTL
<1>3. ASSUME NEW c \in Pointers' PROVE c \in Pointers
  BY <1>1, <1>2 DEF Forms
<1> DEFINE h == [c \in Pointers' |-> c]
<1>4. \A c \in Pointers' : h[c] = c
  OBVIOUS
<1> HIDE DEF h
<1>5. Comes(Pointers', h)
  BY <1>3, <1>4 DEF Comes
<1> QED
  BY <1>5

\* What comes from the pointers before is still theirs, and different.
LEMMA StillOwned ==
  ASSUME Owned, Once, NEW S, NEW h, Comes(S, h)
  PROVE  /\ \A c \in S : OwnedAs(c)
         /\ \A c, d \in S : c.val = d.val /\ c.grant = d.grant => c = d
<1>1. ASSUME NEW c \in S PROVE OwnedAs(c)
  <2>1. /\ h[c] \in Pointers /\ OwnedAs(h[c])
        /\ h[c].key = c.key /\ h[c].val = c.val /\ h[c].grant = c.grant
    BY DEF Owned, Comes
  <2> QED
    BY <2>1 DEF OwnedAs
<1>2. ASSUME NEW c \in S, NEW d \in S, c.val = d.val, c.grant = d.grant PROVE c = d
  <2>1. h[c] = h[d]
    BY <1>2 DEF Once, Comes
  <2> QED
    BY <2>1 DEF Comes
<1> QED
  BY <1>1, <1>2

\* The parts of a pointer.
LEMMA PointerTypes ==
  TypeOK => \A c \in Pointers : c.key \in Keys /\ c.val \in Values /\ c.grant \in Nat
<1> SUFFICES ASSUME TypeOK, NEW c \in Pointers
             PROVE  c.key \in Keys /\ c.val \in Values /\ c.grant \in Nat
  OBVIOUS
<1>1. Forms
  BY PointerForms
<1>2. CASE \E w \in Workers, k \in Keys :
             wtable[w][k].val # NULL /\ c = Pointer("table", w, k, k, wtable[w][k])
  BY <1>2 DEF Pointer, TypeOK, Entry
<1>3. CASE \E w \in Workers : \E i \in DOMAIN toWkr[w] :
             /\ toWkr[w][i].type = "response" /\ toWkr[w][i].val # NULL
             /\ c = Pointer("answer", w, i, toWkr[w][i].key, toWkr[w][i])
  <2>1. PICK w \in Workers : \E i \in DOMAIN toWkr[w] :
             /\ toWkr[w][i].type = "response" /\ toWkr[w][i].val # NULL
             /\ c = Pointer("answer", w, i, toWkr[w][i].key, toWkr[w][i])
    BY <1>3
  <2>2. PICK i \in DOMAIN toWkr[w] :
             /\ toWkr[w][i].type = "response" /\ toWkr[w][i].val # NULL
             /\ c = Pointer("answer", w, i, toWkr[w][i].key, toWkr[w][i])
    BY <2>1
  <2>3. toWkr[w][i] \in Message
    BY ElementOfSeq, LenProperties DEF TypeOK
  <2> QED
    BY <2>2, <2>3 DEF Pointer, Message
<1>4. CASE \E w \in Workers : \E i \in DOMAIN toMgr[w] :
             /\ toMgr[w][i].type = "released" /\ toMgr[w][i].val # NULL
             /\ c = Pointer("returned", w, i, toMgr[w][i].key, toMgr[w][i])
  <2>1. PICK w \in Workers : \E i \in DOMAIN toMgr[w] :
             /\ toMgr[w][i].type = "released" /\ toMgr[w][i].val # NULL
             /\ c = Pointer("returned", w, i, toMgr[w][i].key, toMgr[w][i])
    BY <1>4
  <2>2. PICK i \in DOMAIN toMgr[w] :
             /\ toMgr[w][i].type = "released" /\ toMgr[w][i].val # NULL
             /\ c = Pointer("returned", w, i, toMgr[w][i].key, toMgr[w][i])
    BY <2>1
  <2>3. toMgr[w][i] \in Message
    BY ElementOfSeq, LenProperties DEF TypeOK
  <2> QED
    BY <2>2, <2>3 DEF Pointer, Message
<1> QED
  BY <1>1, <1>2, <1>3, <1>4 DEF Forms

\* Whoever has a pointer has the value of the manager's table, if it was not freed.
LEMMA Alive ==
  ASSUME TypeOK, Table, Owned
  PROVE  PointersAlive
<1> SUFFICES ASSUME NEW c \in Pointers
             PROVE  c.val = mtable[c.key] \/ (mgr # "runs" /\ mtable[c.key] = NULL)
  BY DEF PointersAlive
<1>1. c.val \in Values /\ OwnedAs(c)
  BY PointerTypes DEF Owned
<1>2. CASE c.val \in alive
  BY <1>1, <1>2 DEF Table, OwnedAs
<1>3. CASE c.val \notin alive
  BY <1>1, <1>3 DEF OwnedAs
<1> QED
  BY <1>2, <1>3

-----------------------------------------------------------------------------
(* The accounts are kept.                                                  *)

Accounts == Table /\ Counted /\ Owned /\ Once

\* Who changes nothing of the manager's keeps them, if no pointer is new.
LEMMA OthersAccounts ==
  ASSUME Accounts, UNCHANGED <<mtable, refcount, alive, vkey, grants, granted>>,
         mgr' = mgr \/ mgr' # "runs", \E h : Comes(Pointers', h)
  PROVE  Accounts'
<1>1. Table' /\ Counted'
  BY DEF Accounts, Table, Counted
<1>2. Owned' /\ Once'
  <2>1. PICK h : Comes(Pointers', h)
    OBVIOUS
  <2>2. /\ \A c \in Pointers' : OwnedAs(c)
        /\ \A c, d \in Pointers' : c.val = d.val /\ c.grant = d.grant => c = d
    BY <2>1, StillOwned DEF Accounts
  <2> HIDE DEF Pointers
  <2>3. \A c \in Pointers' : OwnedAs(c)'
    BY <2>2 DEF OwnedAs
  <2> QED
    BY <2>2, <2>3 DEF Owned, Once
<1> QED
  BY <1>1, <1>2 DEF Accounts

\* A value is granted, one that was there or one that is new.
LEMMA GrantAccounts ==
  ASSUME TypeOK, Accounts, NEW w \in Workers, ManagerReceives(w, "request"), NEW m, m = Head(toMgr[w]),
         NEW v \in Values, Grant(w, m, v), UNCHANGED wtable,
         grants' = [grants EXCEPT ![v] = @ \cup {granted + 1}],
         refcount' = [refcount EXCEPT ![v] = @ + 1],
         \/ mtable[m.key] = v /\ UNCHANGED <<mtable, alive, vkey>>
         \/ /\ mtable[m.key] = NULL /\ v \notin alive
            /\ alive' = alive \cup {v}
            /\ vkey' = [vkey EXCEPT ![v] = m.key]
            /\ mtable' = [mtable EXCEPT ![m.key] = v]
  PROVE  Accounts'
<1> DEFINE x == ResponseMsg(m.req, m.key, v, granted + 1)
           n == Len(toWkr[w]) + 1
           new == Pointer("answer", w, n, x.key, x)
<1>1. /\ toMgr[w] # <<>> /\ toMgr' = [toMgr EXCEPT ![w] = Tail(toMgr[w])]
      /\ toWkr' = [toWkr EXCEPT ![w] = Append(toWkr[w], x)]
      /\ granted \in Nat /\ granted' = granted + 1
  BY DEF ManagerReceives, Grant, TypeOK
<1>2. m \in Message
  BY <1>1, Popped DEF TypeOK, Pipes
<1>3. m.key \in Keys /\ m.req \in Requests \cup {NULL} /\ x \in Message
  <2>1. /\ m.key \in Keys /\ m.req \in Requests \cup {NULL}
        /\ v \in Values \cup {NULL} /\ granted + 1 \in Nat
    BY <1>1, <1>2 DEF Message
  <2> QED
    BY <2>1, Messages
<1>4. new.key = m.key /\ new.val = v /\ new.grant = granted + 1
  BY DEF Pointer, ResponseMsg
<1>5. PICK h : Comes(Pointers' \ {new}, h)
  <2> DEFINE S == Pointers' \ {new}
  <2>1. S = Pointers' \ {Pointer("answer", w, n, x.key, x)}
    OBVIOUS
  <2> HIDE DEF x, S, new
  <2>2. \E h : Comes(S, h)
    BY <1>1, <1>3, <2>1, ManagerMoves
  <2> QED
    BY <2>2 DEF S
<1> HIDE DEF new, x, n
<1>6. /\ \A c \in Pointers' \ {new} :
           c.val \in alive /\ c.grant \in grants[c.val] /\ vkey[c.val] = c.key
      /\ \A c, d \in Pointers' \ {new} : c.val = d.val /\ c.grant = d.grant => c = d
  <2>1. /\ \A c \in Pointers' \ {new} : OwnedAs(c)
        /\ \A c, d \in Pointers' \ {new} : c.val = d.val /\ c.grant = d.grant => c = d
    BY <1>5, StillOwned DEF Accounts
  <2>2. mgr = "runs"
    BY DEF ManagerReceives
  <2> QED
    BY <2>1, <2>2 DEF OwnedAs
<1>7. \A c \in Pointers' \ {new} : c.val \in Values
  BY <1>5, PointerTypes DEF Comes
<1>8. /\ grants[v] \subseteq 1..granted /\ granted + 1 \notin grants[v]
      /\ grants'[v] = grants[v] \cup {granted + 1}
      /\ \A u \in Values : u # v => grants'[u] = grants[u] /\ refcount'[u] = refcount[u]
      /\ refcount'[v] = refcount[v] + 1
  BY <1>1 DEF TypeOK, Accounts, Counted
<1>9. Table'
  <2>1. CASE mtable[m.key] = v /\ UNCHANGED <<mtable, alive, vkey>>
    BY <2>1 DEF Accounts, Table
  <2>2. CASE /\ mtable[m.key] = NULL /\ v \notin alive
             /\ alive' = alive \cup {v}
             /\ vkey' = [vkey EXCEPT ![v] = m.key]
             /\ mtable' = [mtable EXCEPT ![m.key] = v]
    BY <1>3, <2>2, LimiterAssumption DEF Accounts, Table, TypeOK
  <2> QED
    BY <2>1, <2>2
<1>10. Counted'
  <2>1. ASSUME NEW u \in Values PROVE grants'[u] \subseteq 1..granted'
    <3>1. grants[u] \subseteq 1..granted
      BY DEF Accounts, Counted
    <3> QED
      BY <1>1, <1>8, <3>1
  <2>2. ASSUME NEW u \in Values PROVE refcount'[u] = Cardinality(grants'[u])
    <3>1. IsFiniteSet(grants[v]) /\ refcount[v] = Cardinality(grants[v])
      BY FewGrants DEF Accounts
    <3>2. Cardinality(grants[v] \cup {granted + 1}) = Cardinality(grants[v]) + 1
      BY <1>8, <3>1, FS_AddElement
    <3> QED
      BY <1>8, <3>1, <3>2 DEF Accounts, Counted
  <2>3. ASSUME NEW u \in Values, u \notin alive' PROVE grants'[u] = {}
    <3>1. u # v /\ u \notin alive
      BY <1>3, <2>3, LimiterAssumption DEF Accounts, Table
    <3> QED
      BY <1>8, <3>1 DEF Accounts, Counted
  <2> QED
    BY <2>1, <2>2, <2>3 DEF Counted
<1>11. \A c \in Pointers' \ {new} : vkey'[c.val] = vkey[c.val]
  <2> TAKE c \in Pointers' \ {new}
  <2>1. v \notin alive => c.val # v
    BY <1>6
  <2> QED
    BY <1>7, <2>1 DEF TypeOK
<1>12. vkey'[v] = m.key
  BY <1>3, LimiterAssumption DEF TypeOK, Accounts, Table
<1>a. v \in alive' /\ alive \subseteq alive'
  BY <1>3, LimiterAssumption DEF Accounts, Table
<1>13. Owned'
  <2>1. ASSUME NEW c \in Pointers'
        PROVE  c.val \in alive' /\ c.grant \in grants'[c.val] /\ vkey'[c.val] = c.key
    <3>1. CASE c = new
      BY <1>4, <1>8, <1>12, <1>a, <3>1
    <3>2. CASE c # new
      BY <1>6, <1>7, <1>8, <1>11, <1>a, <3>2
    <3> QED
      BY <3>1, <3>2
  <2> HIDE DEF Pointers
  <2>2. \A c \in Pointers' : OwnedAs(c)'
    BY <2>1 DEF OwnedAs
  <2> QED
    BY <2>2 DEF Owned
<1>14. Once'
  <2>1. ASSUME NEW c \in Pointers', NEW d \in Pointers', c.val = d.val, c.grant = d.grant
        PROVE  c = d
    <3>1. \A e \in Pointers' \ {new} : e.val # new.val \/ e.grant # new.grant
      BY <1>4, <1>6, <1>8
    <3> QED
      BY <1>6, <2>1, <3>1
  <2> HIDE DEF Pointers
  <2> QED
    BY <2>1 DEF Once
<1> QED
  BY <1>9, <1>10, <1>13, <1>14 DEF Accounts

\* An answer without a value is no pointer.
LEMMA FailAccounts ==
  ASSUME TypeOK, TypeOK', Accounts, NEW w \in Workers, RequestFails(w)
  PROVE  Accounts'
<1> DEFINE m == Head(toMgr[w])
           x == ResponseMsg(m.req, m.key, NULL, 0)
           n == Len(toWkr[w]) + 1
           new == Pointer("answer", w, n, x.key, x)
           S == Pointers' \ {new}
<1>1. /\ toMgr[w] # <<>> /\ toMgr' = [toMgr EXCEPT ![w] = Tail(toMgr[w])]
      /\ toWkr' = [toWkr EXCEPT ![w] = Append(toWkr[w], x)]
      /\ UNCHANGED wtable /\ UNCHANGED manager
  BY DEF RequestFails, ManagerReceives, worker
<1>2. m \in Message
  BY <1>1, Popped DEF TypeOK, Pipes
<1>3. x \in Message
  <2>1. /\ m.key \in Keys /\ m.req \in Requests \cup {NULL}
        /\ NULL \in Values \cup {NULL} /\ 0 \in Nat
    BY <1>2 DEF Message
  <2> QED
    BY <2>1, Messages
<1>4. S = Pointers' \ {Pointer("answer", w, n, x.key, x)}
  OBVIOUS
<1>5. new.val = NULL
  BY DEF Pointer, ResponseMsg
<1> HIDE DEF m, x, new, S
<1>6. \E h : Comes(S, h)
  BY <1>1, <1>3, <1>4, ManagerMoves DEF m
<1>7. \A c \in Pointers' : c.val \in Values
  <2>1. (TypeOK => \A c \in Pointers : c.key \in Keys /\ c.val \in Values /\ c.grant \in Nat)'
    BY PointerTypes, PTL
  <2> QED
    BY <2>1
<1>8. S = Pointers'
  BY <1>5, <1>7, LimiterAssumption DEF S
<1>9. UNCHANGED <<mgr, mtable, refcount, alive, vkey, grants, granted>>
  BY <1>1 DEF manager
<1> QED
  BY <1>6, <1>8, <1>9, OthersAccounts

\* A value is freed, which no pointer is to, unless the manager quits.
LEMMA ReapAccounts ==
  ASSUME TypeOK, Accounts, NEW v \in alive, Reap(v), UNCHANGED <<mgr, granted>>,
         NEW h, Comes(Pointers', h), mgr # "runs" \/ \A c \in Pointers' : c.val # v
  PROVE  Accounts'
<1>1. v \in Values /\ vkey[v] \in Keys /\ mtable[vkey[v]] = v
  BY DEF TypeOK, Accounts, Table
<1>2. /\ alive' = alive \ {v} /\ mtable' = [mtable EXCEPT ![vkey[v]] = NULL]
      /\ grants'[v] = {} /\ refcount'[v] = 0
      /\ \A u \in Values :
           u # v => grants'[u] = grants[u] /\ refcount'[u] = refcount[u] /\ vkey'[u] = vkey[u]
  BY <1>1 DEF TypeOK, Reap, Forget
<1>3. Table'
  <2>1. ASSUME NEW k \in Keys, mtable'[k] # NULL PROVE mtable'[k] \in alive' /\ vkey'[mtable'[k]] = k
    <3>1. k # vkey[v] /\ mtable'[k] = mtable[k]
      BY <1>1, <1>2, <2>1 DEF TypeOK
    <3>2. mtable[k] \in alive /\ vkey[mtable[k]] = k /\ mtable[k] # v
      BY <1>1, <2>1, <3>1 DEF Accounts, Table
    <3> QED
      BY <1>2, <3>1, <3>2 DEF TypeOK
  <2>2. ASSUME NEW u \in alive' PROVE vkey'[u] \in Keys /\ mtable'[vkey'[u]] = u
    <3>1. u \in alive /\ u # v /\ u \in Values
      BY <1>2, <2>2 DEF TypeOK
    <3>2. vkey'[u] = vkey[u] /\ vkey[u] \in Keys /\ mtable[vkey[u]] = u
      BY <1>2, <3>1 DEF Accounts, Table
    <3>3. vkey[u] # vkey[v]
      BY <1>1, <3>1, <3>2
    <3> QED
      BY <1>2, <3>2, <3>3 DEF TypeOK
  <2> QED
    BY <2>1, <2>2 DEF Table
<1>4. Counted'
  <2>1. ASSUME NEW u \in Values
        PROVE  /\ grants'[u] \subseteq 1..granted' /\ refcount'[u] = Cardinality(grants'[u])
               /\ u \notin alive' => grants'[u] = {}
    <3>1. CASE u = v
      BY <1>2, <3>1, FS_EmptySet
    <3>2. CASE u # v
      BY <1>2, <3>2 DEF Accounts, Counted
    <3> QED
      BY <3>1, <3>2
  <2> QED
    BY <2>1 DEF Counted
<1>5. /\ \A c \in Pointers' : OwnedAs(c)
      /\ \A c, d \in Pointers' : c.val = d.val /\ c.grant = d.grant => c = d
  BY StillOwned DEF Accounts
<1>6. \A c \in Pointers' : c.val \in Values /\ c.key \in Keys
  BY PointerTypes DEF Comes
<1>7. Owned' /\ Once'
  <2> HIDE DEF Pointers
  <2>1. ASSUME NEW c \in Pointers' PROVE OwnedAs(c)'
    <3>1. CASE c.val = v
      <4>1. mgr # "runs" /\ mgr' = mgr
        BY <3>1
      <4>2. c.key = vkey[v]
        BY <1>5, <3>1 DEF OwnedAs
      <4>3. mtable'[c.key] = NULL /\ c.val \notin alive'
        BY <1>1, <1>2, <3>1, <4>2 DEF TypeOK
      <4> QED
        BY <4>1, <4>3 DEF OwnedAs
    <3>2. CASE c.val # v /\ c.val \in alive
      BY <1>2, <1>5, <1>6, <3>2 DEF OwnedAs
    <3>3. CASE c.val # v /\ c.val \notin alive
      <4>1. mgr # "runs" /\ mgr' = mgr /\ mtable[c.key] = NULL
        BY <1>5, <3>3 DEF OwnedAs
      <4>2. mtable'[c.key] = NULL /\ c.val \notin alive'
        BY <1>2, <1>6, <3>3, <4>1 DEF TypeOK
      <4> QED
        BY <4>1, <4>2 DEF OwnedAs
    <3> QED
      BY <3>1, <3>2, <3>3
  <2> QED
    BY <1>5, <2>1 DEF Owned, Once
<1> QED
  BY <1>3, <1>4, <1>7 DEF Accounts

\* A pointer comes back.
LEMMA ReleasedAccounts ==
  ASSUME TypeOK, Accounts, GivenBack, NEW w \in Workers, Released(w)
  PROVE  Accounts'
<1> DEFINE m == Head(toMgr[w])
           old == Pointer("returned", w, 1, m.key, m)
<1>1. /\ toMgr[w] # <<>> /\ toMgr' = [toMgr EXCEPT ![w] = Tail(toMgr[w])]
      /\ mgr = "runs" /\ m.type = "released" /\ UNCHANGED <<mgr, granted, wtable, toWkr>>
  BY DEF Released, ManagerReceives, worker
<1>2. m \in Message /\ 1 \in DOMAIN toMgr[w] /\ m = toMgr[w][1]
  BY <1>1, Popped DEF TypeOK, Pipes
<1>3. m.val \in Values /\ m.val # NULL
  BY <1>1, <1>2 DEF GivenBack, Message
<1>4. old \in Pointers /\ old.val = m.val /\ old.grant = m.grant
  BY <1>1, <1>2, <1>3, PointerForms DEF Forms, Pointer
<1>5. PICK h : Comes(Pointers', h) /\ \A c \in Pointers' : h[c] # old
  BY <1>1, <1>2, ManagerMoves
<1>6. \/ UNCHANGED <<mtable, refcount, alive, vkey, grants>>
      \/ refcount[m.val] = 1 /\ Reap(m.val)
      \/ /\ refcount' = [refcount EXCEPT ![m.val] = @ - 1]
         /\ grants' = [grants EXCEPT ![m.val] = @ \ {m.grant}]
         /\ UNCHANGED <<mtable, alive, vkey>>
  BY DEF Released
<1> HIDE DEF old, m
<1>7. m.grant \in grants[m.val] /\ m.val \in alive
  BY <1>1, <1>4 DEF Accounts, Owned, OwnedAs
<1>8. /\ \A c \in Pointers' : OwnedAs(c)
      /\ \A c, d \in Pointers' : c.val = d.val /\ c.grant = d.grant => c = d
  BY <1>5, StillOwned DEF Accounts
<1>9. \A c \in Pointers' : c.val \in Values /\ (c.val # m.val \/ c.grant # m.grant)
  <2> TAKE c \in Pointers'
  <2>1. h[c] \in Pointers /\ h[c].val = c.val /\ h[c].grant = c.grant /\ h[c] # old
    BY <1>5 DEF Comes
  <2>2. c.val \in Values
    BY <2>1, PointerTypes
  <2> QED
    BY <1>4, <2>1, <2>2 DEF Accounts, Once
<1>10. IsFiniteSet(grants[m.val]) /\ refcount[m.val] = Cardinality(grants[m.val])
  BY <1>3, FewGrants DEF Accounts
<1>11. CASE UNCHANGED <<mtable, refcount, alive, vkey, grants>>
  BY <1>1, <1>5, <1>11, OthersAccounts
<1>12. CASE refcount[m.val] = 1 /\ Reap(m.val)
  <2>1. grants[m.val] = {m.grant}
    <3> DEFINE G == grants[m.val]
               g == m.grant
    <3>a. g \in G /\ IsFiniteSet(G) /\ Cardinality(G) = 1
      BY <1>7, <1>10, <1>12
    <3> HIDE DEF G, g
    <3>b. IsFiniteSet(G \ {g}) /\ Cardinality(G \ {g}) = Cardinality(G) - 1
      BY <3>a, FS_RemoveElement
    <3>1. Cardinality(grants[m.val] \ {m.grant}) = 0 /\ IsFiniteSet(grants[m.val] \ {m.grant})
      BY <3>a, <3>b DEF G, g
    <3>2. grants[m.val] \ {m.grant} = {}
      BY <3>1, FS_EmptySet
    <3> QED
      BY <1>7, <3>2
  <2>2. \A c \in Pointers' : c.val # m.val
    <3> HIDE DEF Pointers
    <3> QED
      BY <1>7, <1>8, <1>9, <2>1 DEF OwnedAs
  <2> QED
    BY <1>1, <1>5, <1>7, <1>12, <2>2, ReapAccounts
<1>13. CASE /\ refcount' = [refcount EXCEPT ![m.val] = @ - 1]
            /\ grants' = [grants EXCEPT ![m.val] = @ \ {m.grant}]
            /\ UNCHANGED <<mtable, alive, vkey>>
  <2>1. /\ grants'[m.val] = grants[m.val] \ {m.grant} /\ refcount'[m.val] = refcount[m.val] - 1
        /\ \A u \in Values : u # m.val => grants'[u] = grants[u] /\ refcount'[u] = refcount[u]
    BY <1>3, <1>13 DEF TypeOK
  <2>2. Cardinality(grants'[m.val]) = refcount'[m.val]
    BY <1>7, <1>10, <2>1, FS_RemoveElement
  <2>3. Table'
    BY <1>13 DEF Accounts, Table
  <2>4. Counted'
    BY <1>1, <1>7, <1>13, <2>1, <2>2 DEF Accounts, Counted
  <2>5. Owned' /\ Once'
    <3> HIDE DEF Pointers
    <3>1. \A c \in Pointers' : OwnedAs(c)'
      BY <1>1, <1>8, <1>9, <1>13, <2>1 DEF OwnedAs
    <3> QED
      BY <1>8, <3>1 DEF Owned, Once
  <2> QED
    BY <2>3, <2>4, <2>5 DEF Accounts
<1> QED
  BY <1>6, <1>11, <1>12, <1>13

\* The reaper asks every worker for v, or a manager that quits may do so.
Asking(v) ==
  /\ v \in alive /\ UNCHANGED wtable
  /\ \/ toWkr' = toWkr
     \/ \E f \in BOOLEAN : toWkr' = [w \in Workers |-> Append(toWkr[w], ReleaseMsg(v, f))]

LEMMA WhoAsks ==
  ASSUME IInv, NEW v \in Values, ReaperAsks(v) \/ ReaperForces(v)
  PROVE  Asking(v) /\ UNCHANGED toMgr
<1>1. CASE ReaperAsks(v)
  BY <1>1 DEF ReaperAsks, Asking, worker
<1>2. CASE ReaperForces(v)
  <2>1. /\ v \in alive
        /\ \/ toWkr' = toWkr
           \/ toWkr' = [w \in Workers |-> Append(toWkr[w], ReleaseMsg(v, TRUE))]
    BY <1>2, Forced DEF IInv
  <2>2. UNCHANGED <<wtable, toMgr>>
    BY <1>2 DEF ReaperForces, worker
  <2> QED
    BY <2>1, <2>2 DEF Asking
<1> QED
  BY <1>1, <1>2

\* The steps that send no pointer and handle no alert.
LEMMA QuietPointers ==
  ASSUME IInv,
         \/ UNCHANGED <<wtable, toMgr, toWkr>>
         \/ \E w \in Workers, r \in Requests, k \in Keys : EvalMiss(w, r, k)
         \/ \E v \in Values : Asking(v) /\ UNCHANGED toMgr
         \/ ManagerQuits \/ ManagerExits
  PROVE  \E h : Comes(Pointers', h)
<1>1. TypeOK /\ toMgr \in Pipes /\ toWkr \in Pipes
  BY DEF IInv, TypeOK, Pipes
<1>2. CASE UNCHANGED <<wtable, toMgr, toWkr>>
  BY <1>1, <1>2, NothingHandled
<1>3. ASSUME NEW w \in Workers, NEW r \in Requests, NEW k \in Keys, EvalMiss(w, r, k)
      PROVE  \E h : Comes(Pointers', h)
  <2> DEFINE x == RequestMsg(r, k)
  <2>1. x \in Message /\ x.type = "request"
    BY <1>1, Messages DEF RequestMsg
  <2>2. /\ UNCHANGED <<wtable, toWkr>>
        /\ toMgr' = toMgr \/ toMgr' = [toMgr EXCEPT ![w] = Append(toMgr[w], x)]
    BY <1>3 DEF EvalMiss, ToManager
  <2> HIDE DEF x
  <2>3. ASSUME NEW u \in Workers, NEW i \in DOMAIN toMgr'[u]
        PROVE  \/ i \in DOMAIN toMgr[u] /\ toMgr'[u][i] = toMgr[u][i]
               \/ toMgr'[u][i].type # "released"
    <3>1. CASE toMgr' = toMgr
      BY <2>3, <3>1
    <3>2. CASE toMgr' = [toMgr EXCEPT ![w] = Append(toMgr[w], x)]
      <4>1. CASE u = w
        BY <1>1, <2>1, <2>3, <3>2, <4>1, Pushed
      <4>2. CASE u # w
        BY <1>1, <2>1, <2>3, <3>2, <4>2, Pushed
      <4> QED
        BY <4>1, <4>2
    <3> QED
      BY <2>2, <3>1, <3>2
  <2> QED
    BY <1>1, <2>2, <2>3, NothingHandled
<1>4. ASSUME NEW v \in Values, Asking(v), UNCHANGED toMgr PROVE \E h : Comes(Pointers', h)
  <2>1. CASE toWkr' = toWkr
    BY <1>2, <1>4, <2>1 DEF Asking
  <2>2. ASSUME NEW f \in BOOLEAN, toWkr' = [w \in Workers |-> Append(toWkr[w], ReleaseMsg(v, f))]
        PROVE  \E h : Comes(Pointers', h)
    <3> DEFINE x == ReleaseMsg(v, f)
    <3>1. x \in Message /\ x.type = "release"
      BY <1>1, <1>4, Messages DEF Asking, IInv, Table, ReleaseMsg
    <3>2. UNCHANGED <<wtable, toMgr>> /\ toWkr' = [u \in Workers |-> Append(toWkr[u], x)]
      BY <1>4, <2>2 DEF Asking
    <3> HIDE DEF x
    <3>3. ASSUME NEW u \in Workers, NEW i \in DOMAIN toWkr'[u]
          PROVE  \/ i \in DOMAIN toWkr[u] /\ toWkr'[u][i] = toWkr[u][i]
                 \/ toWkr'[u][i].type # "response"
      BY <1>1, <3>1, <3>2, <3>3, PushedAll
    <3> QED
      BY <1>1, <3>2, <3>3, NothingHandled
  <2> QED
    BY <1>4, <2>1, <2>2 DEF Asking
<1>5. CASE ManagerQuits
  <2>1. UNCHANGED <<wtable, toWkr>> /\ \A w \in Workers : DOMAIN toMgr'[w] = {}
    BY <1>5 DEF ManagerQuits, worker
  <2> QED
    BY <1>1, <2>1, NothingHandled
<1>6. CASE ManagerExits
  <2>1. UNCHANGED <<wtable, toMgr>>
    BY <1>6 DEF ManagerExits, worker
  <2> QED
    BY <1>1, <1>6, <2>1, Lost, NothingHandled
<1> QED
  BY <1>2, <1>3, <1>4, <1>5, <1>6

\* The accounts are kept by every step.
LEMMA AccountStep == IInv /\ TypeOK' /\ [Next]_vars => Accounts'
<1> SUFFICES ASSUME IInv, TypeOK', [Next]_vars PROVE Accounts'
  OBVIOUS
<1>1. TypeOK /\ Accounts /\ GivenBack
  BY DEF IInv, Accounts
<1>q. ASSUME UNCHANGED manager, \E h : Comes(Pointers', h) PROVE Accounts'
  BY <1>1, <1>q, OthersAccounts DEF manager
<1>2. ASSUME NEW w \in Workers, NEW r \in Requests, NEW k \in Keys, EvalHit(w, r, k) \/ EvalMiss(w, r, k)
      PROVE  Accounts'
  <2>1. UNCHANGED manager /\ (UNCHANGED <<wtable, toMgr, toWkr>> \/ EvalMiss(w, r, k))
    BY <1>2 DEF EvalHit, EvalMiss, worker
  <2> QED
    BY <1>q, <2>1, QuietPointers
<1>3. ASSUME NEW w \in Workers, NEW r \in Requests, Close(w, r) PROVE Accounts'
  <2>1. UNCHANGED manager /\ UNCHANGED <<wtable, toMgr, toWkr>>
    BY <1>3 DEF Close
  <2> QED
    BY <1>q, <2>1, QuietPointers
<1>4. ASSUME NEW w \in Workers,
             \/ ResponseFails(w) \/ ResponseResumes(w) \/ ResponseUntracked(w)
             \/ ReleaseHeld(w) \/ ReleaseNotHeld(w) \/ ReleaseFails(w)
      PROVE  Accounts'
  <2>1. Handles(w, Head(toWkr[w])) /\ UNCHANGED manager
    BY <1>4, WorkerSteps
  <2> QED
    BY <1>1, <1>q, <2>1, WorkerMoves
<1>5. ASSUME NEW w \in Workers, Respawn(w) PROVE Accounts'
  <2>1. UNCHANGED manager /\ UNCHANGED <<wtable, toMgr, toWkr>>
    BY <1>5 DEF Respawn
  <2> QED
    BY <1>q, <2>1, QuietPointers
<1>6. ASSUME NEW w \in Workers, RequestFound(w) PROVE Accounts'
  <2> DEFINE m == Head(toMgr[w])
             v == mtable[m.key]
  <2>1. ManagerReceives(w, "request") /\ toMgr[w] # <<>>
    BY <1>6 DEF RequestFound, ManagerReceives
  <2>2. m.key \in Keys
    <3>1. m \in Message
      BY <1>1, <2>1, Popped DEF TypeOK, Pipes
    <3> QED
      BY <3>1 DEF Message
  <2>3. v \in Values
    BY <1>1, <1>6, <2>2 DEF RequestFound, TypeOK
  <2>4. /\ Grant(w, m, v) /\ UNCHANGED wtable
        /\ grants' = [grants EXCEPT ![v] = @ \cup {granted + 1}]
        /\ refcount' = [refcount EXCEPT ![v] = @ + 1]
        /\ mtable[m.key] = v /\ UNCHANGED <<mtable, alive, vkey>>
    BY <1>6 DEF RequestFound, worker
  <2> HIDE DEF m, v
  <2> QED
    BY <1>1, <2>1, <2>3, <2>4, GrantAccounts DEF m
<1>7. ASSUME NEW w \in Workers, RequestCreates(w) PROVE Accounts'
  <2> DEFINE m == Head(toMgr[w])
  <2>1. ManagerReceives(w, "request") /\ mtable[m.key] = NULL /\ UNCHANGED wtable
    BY <1>7 DEF RequestCreates, worker
  <2>2. PICK v \in Values \ alive :
          /\ alive' = alive \cup {v}
          /\ vkey' = [vkey EXCEPT ![v] = m.key]
          /\ refcount' = [refcount EXCEPT ![v] = 1]
          /\ mtable' = [mtable EXCEPT ![m.key] = v]
          /\ grants' = [grants EXCEPT ![v] = {granted + 1}]
          /\ Grant(w, m, v)
    BY <1>7 DEF RequestCreates
  <2>3. grants[v] = {} /\ refcount[v] = 0
    BY <1>1, FS_EmptySet DEF Accounts, Counted
  <2>4. /\ grants' = [grants EXCEPT ![v] = grants[v] \cup {granted + 1}]
        /\ refcount' = [refcount EXCEPT ![v] = refcount[v] + 1]
    BY <2>2, <2>3
  <2> HIDE DEF m
  <2> QED
    BY <1>1, <2>1, <2>2, <2>4, GrantAccounts DEF m
<1>8. ASSUME NEW w \in Workers, RequestFails(w) PROVE Accounts'
  BY <1>1, <1>8, FailAccounts
<1>9. ASSUME NEW w \in Workers, Released(w) PROVE Accounts'
  BY <1>1, <1>9, ReleasedAccounts
<1>10. ASSUME NEW v \in Values, ReaperFrees(v) PROVE Accounts'
  <2>1. /\ v \in alive /\ refcount[v] = 0 /\ Reap(v) /\ mgr = "runs"
        /\ UNCHANGED <<mgr, granted, wtable, toMgr, toWkr>>
    BY <1>10 DEF ReaperFrees, worker
  <2>2. grants[v] = {}
    BY <1>1, <2>1, FewGrants, FS_EmptySet DEF Accounts
  <2>3. PICK h : Comes(Pointers', h)
    BY <2>1, QuietPointers
  <2>4. \A c \in Pointers' : OwnedAs(c)
    BY <1>1, <2>3, StillOwned DEF Accounts
  <2>5. \A c \in Pointers' : c.val # v
    <3> HIDE DEF Pointers
    <3> QED
      BY <2>1, <2>2, <2>4 DEF OwnedAs
  <2> QED
    BY <1>1, <2>1, <2>3, <2>5, ReapAccounts
<1>11. ASSUME NEW v \in Values, ReaperAsks(v) \/ Drain(v) PROVE Accounts'
  <2>1. /\ UNCHANGED manager
        /\ UNCHANGED <<wtable, toMgr, toWkr>> \/ (Asking(v) /\ UNCHANGED toMgr)
    BY <1>11, WhoAsks DEF ReaperAsks, Drain, worker
  <2> QED
    BY <1>q, <2>1, QuietPointers
<1>13. ASSUME NEW v \in Values, ReaperForces(v) PROVE Accounts'
  <2>1. mgr # "runs" /\ v \in alive /\ Reap(v) /\ UNCHANGED <<mgr, granted>>
    BY <1>13 DEF ReaperForces
  <2>2. PICK h : Comes(Pointers', h)
    BY <1>13, WhoAsks, QuietPointers
  <2> QED
    BY <1>1, <2>1, <2>2, ReapAccounts
<1>14. CASE ManagerQuits \/ ManagerExits
  <2>1. UNCHANGED <<mtable, refcount, alive, vkey, grants, granted>> /\ mgr' # "runs"
    BY <1>14 DEF ManagerQuits, ManagerExits
  <2>2. \E h : Comes(Pointers', h)
    BY <1>14, QuietPointers
  <2> QED
    BY <1>1, <2>1, <2>2, OthersAccounts
<1>12. CASE UNCHANGED vars
  <2>1. UNCHANGED manager /\ UNCHANGED <<wtable, toMgr, toWkr>>
    BY <1>12 DEF vars, manager
  <2> QED
    BY <1>q, <2>1, QuietPointers
<1> QED
  BY <1>2, <1>3, <1>4, <1>5, <1>6, <1>7, <1>8, <1>9, <1>10, <1>11, <1>12,
     <1>13, <1>14 DEF Next, WorkerHandles, ManagerHandles

-----------------------------------------------------------------------------
(* What is asked for, and what is given back.                              *)

\* The demand m at the place i of a pipe P of a worker with the table T.
Fits(m, P, i, T) ==
  m.type = "release" =>
    /\ m.val # NULL
    /\ T[m.key].val \in {NULL, m.val}
    /\ \A j \in 1..(i - 1) : P[j].type = "response" /\ P[j].key = m.key => P[j].val \in {NULL, m.val}

AllFit ==
  \A w \in Workers : \A i \in DOMAIN toWkr[w] : Fits(toWkr[w][i], toWkr[w], i, wtable[w])

LEMMA AskedFits == Asked <=> AllFit
BY DEF Asked, AllFit, Fits

\* A pipe in which something follows what was there.
LEMMA AskedPushed ==
  ASSUME TypeOK, Asked, UNCHANGED wtable, NEW w \in Workers, NEW x \in Message,
         x.type # "release", toWkr' = [toWkr EXCEPT ![w] = Append(toWkr[w], x)]
  PROVE  Asked'
<1>1. toWkr \in Pipes
  BY DEF TypeOK, Pipes
<1>2. /\ Len(toWkr[w]) \in Nat /\ DOMAIN toWkr[w] = 1..Len(toWkr[w])
      /\ \A u \in Workers : u # w => toWkr'[u] = toWkr[u]
      /\ DOMAIN toWkr'[w] = 1..(Len(toWkr[w]) + 1)
      /\ \A i \in DOMAIN toWkr[w] : i \in DOMAIN toWkr'[w] /\ toWkr'[w][i] = toWkr[w][i]
      /\ toWkr'[w][Len(toWkr[w]) + 1] = x
  BY <1>1, Pushed
<1>3. ASSUME NEW u \in Workers, NEW i \in DOMAIN toWkr'[u]
      PROVE  Fits(toWkr'[u][i], toWkr'[u], i, wtable[u])
  <2>1. CASE u # w
    BY <1>2, <1>3, <2>1, AskedFits DEF AllFit
  <2>2. CASE u = w /\ i \in DOMAIN toWkr[w]
    <3>1. toWkr'[w][i] = toWkr[w][i] /\ \A j \in 1..(i - 1) : toWkr'[w][j] = toWkr[w][j]
      BY <1>2, <2>2
    <3>2. Fits(toWkr[w][i], toWkr[w], i, wtable[w])
      BY <2>2, AskedFits DEF AllFit
    <3> QED
      BY <2>2, <3>1, <3>2 DEF Fits
  <2>3. CASE u = w /\ i \notin DOMAIN toWkr[w]
    <3>1. toWkr'[w][i] = x
      BY <1>2, <1>3, <2>3
    <3> QED
      BY <2>3, <3>1 DEF Fits
  <2> QED
    BY <2>1, <2>2, <2>3
<1>4. wtable' = wtable
  OBVIOUS
<1>5. (Asked <=> AllFit)'
  BY AskedFits, PTL
<1> QED
  BY <1>3, <1>4, <1>5 DEF AllFit

\* A worker that handled an alert still has what it may be asked for, or nothing.
LEMMA AskedHandled ==
  ASSUME TypeOK, Asked, NEW w \in Workers, NEW m, Handles(w, m)
  PROVE  Asked'
<1>1. /\ \A u \in Workers : u # w => toWkr'[u] = toWkr[u]
      /\ 1 \in DOMAIN toWkr[w] /\ m = toWkr[w][1] /\ m \in Message
      /\ \A i \in DOMAIN toWkr'[w] :
           i \in Nat \ {0} /\ i + 1 \in DOMAIN toWkr[w] /\ toWkr'[w][i] = toWkr[w][i + 1]
      /\ toWkr' \in Pipes
  BY Popped DEF Handles, TypeOK, Pipes
<1>2. \A u \in Workers, k \in Keys :
        wtable'[u][k].val # NULL =>
          wtable'[u][k] = IF u = w /\ k = m.key /\ m.type = "response"
                          THEN [val |-> m.val, grant |-> m.grant] ELSE wtable[u][k]
  BY DEF Handles
<1>3. ASSUME NEW u \in Workers, NEW i \in DOMAIN toWkr[u]
      PROVE  toWkr[u][i] \in Message /\ toWkr[u][i].key \in Keys
  <2>1. toWkr[u][i] \in Message
    BY ElementOfSeq, LenProperties DEF TypeOK
  <2> QED
    BY <2>1 DEF Message
<1>4. ASSUME NEW u \in Workers, NEW i \in DOMAIN toWkr'[u]
      PROVE  Fits(toWkr'[u][i], toWkr'[u], i, wtable'[u])
  <2>1. CASE u # w
    <3>1. i \in DOMAIN toWkr[u] /\ toWkr'[u] = toWkr[u] /\ toWkr[u][i].key \in Keys
      BY <1>1, <1>3, <1>4, <2>1
    <3>2. Fits(toWkr[u][i], toWkr[u], i, wtable[u])
      BY <3>1, AskedFits DEF AllFit
    <3>3. wtable'[u][toWkr[u][i].key].val \in {NULL, wtable[u][toWkr[u][i].key].val}
      BY <1>2, <2>1, <3>1
    <3> QED
      BY <3>1, <3>2, <3>3 DEF Fits
  <2>2. CASE u = w
    <3> DEFINE r == toWkr[w][i + 1]
    <3>1. /\ i \in Nat \ {0} /\ i + 1 \in DOMAIN toWkr[w] /\ toWkr'[w][i] = r
          /\ r \in Message /\ r.key \in Keys
      BY <1>1, <1>3, <1>4, <2>2
    <3> HIDE DEF r
    <3>2. SUFFICES ASSUME r.type = "release" PROVE Fits(r, toWkr'[w], i, wtable'[w])
      BY <2>2, <3>1 DEF Fits
    <3>3. Fits(r, toWkr[w], i + 1, wtable[w])
      BY <3>1, AskedFits DEF AllFit, r
    <3>4. /\ r.val # NULL /\ wtable[w][r.key].val \in {NULL, r.val}
          /\ \A j \in 1..i : toWkr[w][j].type = "response" /\ toWkr[w][j].key = r.key =>
               toWkr[w][j].val \in {NULL, r.val}
      BY <3>1, <3>2, <3>3 DEF Fits
    <3>5. m.type = "response" /\ m.key = r.key => m.val \in {NULL, r.val}
      BY <1>1, <3>1, <3>4
    <3>6. wtable'[w][r.key].val \in {NULL, r.val}
      BY <1>2, <3>1, <3>4, <3>5
    <3>7. ASSUME NEW j \in 1..(i - 1), toWkr'[w][j].type = "response", toWkr'[w][j].key = r.key
          PROVE  toWkr'[w][j].val \in {NULL, r.val}
      <4>1. j \in DOMAIN toWkr'[w]
        <5>1. DOMAIN toWkr'[w] = 1..Len(toWkr'[w]) /\ Len(toWkr'[w]) \in Nat
          BY <1>1, LenProperties DEF Pipes
        <5> QED
          BY <1>4, <2>2, <3>1, <3>7, <5>1
      <4>2. toWkr'[w][j] = toWkr[w][j + 1] /\ j + 1 \in 1..i
        BY <1>1, <3>1, <3>7, <4>1
      <4> QED
        BY <3>4, <3>7, <4>2
    <3> QED
      BY <3>4, <3>6, <3>7 DEF Fits
  <2> QED
    BY <2>1, <2>2
<1>5. (Asked <=> AllFit)'
  BY AskedFits, PTL
<1> QED
  BY <1>4, <1>5 DEF AllFit

\* The reaper asks for what everybody has for this key, if anything.
LEMMA AskedAsks ==
  ASSUME IInv, NEW v \in Values, v \in alive, UNCHANGED wtable,
         NEW f \in BOOLEAN, toWkr' = [w \in Workers |-> Append(toWkr[w], ReleaseMsg(v, f))]
  PROVE  Asked'
<1> DEFINE x == ReleaseMsg(v, f)
<1>1. TypeOK /\ Asked /\ toWkr \in Pipes /\ PointersAlive
  BY Alive DEF IInv, TypeOK, Pipes
<1>2. vkey[v] \in Keys /\ mtable[vkey[v]] = v
  BY DEF IInv, Table
<1>3. x \in Message /\ x.key = vkey[v] /\ x.val = v /\ v # NULL
  BY <1>1, <1>2, Messages, LimiterAssumption DEF ReleaseMsg
<1>e. mtable[vkey[v]] # NULL
  BY <1>2, <1>3
<1>4. UNCHANGED wtable /\ toWkr' = [u \in Workers |-> Append(toWkr[u], x)]
  OBVIOUS
<1> HIDE DEF x
<1>5. \A w \in Workers :
        /\ Len(toWkr[w]) \in Nat /\ DOMAIN toWkr[w] = 1..Len(toWkr[w])
        /\ DOMAIN toWkr'[w] = 1..(Len(toWkr[w]) + 1)
        /\ \A i \in DOMAIN toWkr[w] : i \in DOMAIN toWkr'[w] /\ toWkr'[w][i] = toWkr[w][i]
        /\ toWkr'[w][Len(toWkr[w]) + 1] = x
  BY <1>1, <1>3, <1>4, PushedAll
<1>6. \A w \in Workers : wtable[w][vkey[v]].val \in {NULL, v}
  <2> TAKE w \in Workers
  <2>1. SUFFICES ASSUME wtable[w][vkey[v]].val # NULL PROVE wtable[w][vkey[v]].val = v
    OBVIOUS
  <2> DEFINE c == Pointer("table", w, vkey[v], vkey[v], wtable[w][vkey[v]])
  <2>2. c \in Pointers
    BY <1>2, <2>1, PointerForms DEF Forms
  <2>3. c.key = vkey[v] /\ c.val = wtable[w][vkey[v]].val
    BY DEF Pointer
  <2> HIDE DEF c
  <2> QED
    BY <1>1, <1>2, <1>e, <2>2, <2>3 DEF PointersAlive
<1>7. \A w \in Workers : \A j \in DOMAIN toWkr[w] :
        toWkr[w][j].type = "response" /\ toWkr[w][j].key = vkey[v] => toWkr[w][j].val \in {NULL, v}
  <2> TAKE w \in Workers
  <2> TAKE j \in DOMAIN toWkr[w]
  <2>1. SUFFICES ASSUME toWkr[w][j].type = "response", toWkr[w][j].key = vkey[v], toWkr[w][j].val # NULL
                 PROVE  toWkr[w][j].val = v
    OBVIOUS
  <2> DEFINE c == Pointer("answer", w, j, toWkr[w][j].key, toWkr[w][j])
  <2>2. c \in Pointers
    BY <2>1, PointerForms DEF Forms
  <2>3. c.key = toWkr[w][j].key /\ c.val = toWkr[w][j].val
    BY DEF Pointer
  <2> HIDE DEF c
  <2> QED
    BY <1>1, <1>2, <1>e, <2>1, <2>2, <2>3 DEF PointersAlive
<1>8. ASSUME NEW u \in Workers, NEW i \in DOMAIN toWkr'[u]
      PROVE  Fits(toWkr'[u][i], toWkr'[u], i, wtable[u])
  <2>1. CASE i \in DOMAIN toWkr[u]
    <3>1. toWkr'[u][i] = toWkr[u][i] /\ \A j \in 1..(i - 1) : toWkr'[u][j] = toWkr[u][j]
      BY <1>5, <2>1
    <3>2. Fits(toWkr[u][i], toWkr[u], i, wtable[u])
      BY <1>1, <2>1, AskedFits DEF AllFit
    <3> QED
      BY <3>1, <3>2 DEF Fits
  <2>2. CASE i \notin DOMAIN toWkr[u]
    <3>1. /\ toWkr'[u][i] = x
          /\ \A j \in 1..(i - 1) : j \in DOMAIN toWkr[u] /\ toWkr'[u][j] = toWkr[u][j]
      BY <1>5, <1>8, <2>2
    <3> QED
      BY <1>3, <1>6, <1>7, <3>1 DEF Fits
  <2> QED
    BY <2>1, <2>2
<1>9. (Asked <=> AllFit)'
  BY AskedFits, PTL
<1> QED
  BY <1>4, <1>8, <1>9 DEF AllFit

\* No step breaks Asked.
LEMMA AskedStep == IInv /\ [Next]_vars => Asked'
<1> SUFFICES ASSUME IInv, [Next]_vars PROVE Asked'
  OBVIOUS
<1>1. TypeOK /\ Asked /\ toMgr \in Pipes
  BY DEF IInv, TypeOK, Pipes
<1>2. CASE UNCHANGED <<wtable, toWkr>>
  BY <1>1, <1>2 DEF Asked
<1>3. ASSUME NEW w \in Workers,
             \/ ResponseFails(w) \/ ResponseResumes(w) \/ ResponseUntracked(w)
             \/ ReleaseHeld(w) \/ ReleaseNotHeld(w) \/ ReleaseFails(w)
      PROVE  Asked'
  BY <1>1, <1>3, WorkerSteps, AskedHandled
<1>4. ASSUME NEW w \in Workers, RequestFound(w) \/ RequestCreates(w) \/ RequestFails(w)
      PROVE  Asked'
  <2> DEFINE m == Head(toMgr[w])
  <2>1. m \in Message
    BY <1>1, <1>4, Popped DEF RequestFound, RequestCreates, RequestFails, ManagerReceives
  <2>2. m.key \in Keys /\ m.req \in Requests \cup {NULL}
    BY <2>1 DEF Message
  <2>3. PICK v \in Values \cup {NULL}, g \in Nat :
          toWkr' = [toWkr EXCEPT ![w] = Append(toWkr[w], ResponseMsg(m.req, m.key, v, g))]
    <3>1. granted + 1 \in Nat /\ 0 \in Nat /\ mtable[m.key] \in Values \cup {NULL}
      BY <1>1, <2>2 DEF TypeOK
    <3>2. CASE RequestFound(w)
      BY <3>1, <3>2 DEF RequestFound, Grant
    <3>3. CASE RequestCreates(w)
      <4>1. PICK v \in Values \ alive : Grant(w, m, v)
        BY <3>3 DEF RequestCreates
      <4> QED
        BY <3>1, <4>1 DEF Grant
    <3>4. CASE RequestFails(w)
      BY <3>1, <3>4 DEF RequestFails
    <3> QED
      BY <1>4, <3>2, <3>3, <3>4
  <2>4. UNCHANGED wtable
    BY <1>4 DEF RequestFound, RequestCreates, RequestFails, worker
  <2> DEFINE x == ResponseMsg(m.req, m.key, v, g)
  <2>5. x \in Message /\ x.type # "release"
    BY <1>1, <2>2, Messages DEF ResponseMsg
  <2> HIDE DEF m, x
  <2>6. toWkr' = [toWkr EXCEPT ![w] = Append(toWkr[w], x)]
    BY <2>3 DEF x
  <2> QED
    BY <1>1, <2>4, <2>5, <2>6, AskedPushed
<1>5. ASSUME NEW v \in Values, ReaperAsks(v) \/ ReaperForces(v) PROVE Asked'
  <2>1. Asking(v)
    BY <1>5, WhoAsks
  <2> QED
    BY <1>2, <2>1, AskedAsks DEF Asking
<1>6. ASSUME NEW w \in Workers, NEW r \in Requests,
             (\E k \in Keys : EvalHit(w, r, k) \/ EvalMiss(w, r, k)) \/ Close(w, r)
      PROVE  Asked'
  BY <1>2, <1>6 DEF EvalHit, EvalMiss, Close, worker
<1>7. ASSUME NEW w \in Workers, Respawn(w) \/ Released(w) PROVE Asked'
  BY <1>2, <1>7 DEF Respawn, Released, worker
<1>8. ASSUME NEW v \in Values, ReaperFrees(v) \/ Drain(v) PROVE Asked'
  BY <1>2, <1>8 DEF ReaperFrees, Drain, worker
<1>9. CASE UNCHANGED vars \/ ManagerQuits
  BY <1>2, <1>9 DEF vars, ManagerQuits, worker
<1>10. CASE ManagerExits
  <2>1. /\ UNCHANGED wtable /\ toWkr' \in Pipes
        /\ \A w \in Workers : \A i \in DOMAIN toWkr'[w] :
             i \in DOMAIN toWkr[w] /\ toWkr'[w][i] = toWkr[w][i]
    BY <1>1, <1>10, Lost DEF ManagerExits, worker
  <2>2. ASSUME NEW w \in Workers, NEW i \in DOMAIN toWkr'[w]
        PROVE  Fits(toWkr'[w][i], toWkr'[w], i, wtable'[w])
    <3>1. DOMAIN toWkr'[w] = 1..Len(toWkr'[w]) /\ Len(toWkr'[w]) \in Nat
      BY <2>1, LenProperties DEF Pipes
    <3>2. \A j \in 1..(i - 1) : j \in DOMAIN toWkr'[w] /\ toWkr'[w][j] = toWkr[w][j]
      BY <2>1, <2>2, <3>1
    <3>3. Fits(toWkr[w][i], toWkr[w], i, wtable[w]) /\ toWkr'[w][i] = toWkr[w][i]
      BY <1>1, <2>1, <2>2, AskedFits DEF AllFit
    <3> QED
      BY <2>1, <3>2, <3>3 DEF Fits
  <2>3. (Asked <=> AllFit)'
    BY AskedFits, PTL
  <2> QED
    BY <2>2, <2>3 DEF AllFit
<1> QED
  BY <1>3, <1>4, <1>5, <1>6, <1>7, <1>8, <1>9, <1>10 DEF Next, WorkerHandles, ManagerHandles

\* No step breaks GivenBack.
LEMMA GivenBackStep == IInv /\ [Next]_vars => GivenBack'
<1> SUFFICES ASSUME IInv, [Next]_vars PROVE GivenBack'
  OBVIOUS
<1>1. TypeOK /\ GivenBack /\ toMgr \in Pipes
  BY DEF IInv, TypeOK, Pipes
<1>2. CASE UNCHANGED toMgr
  BY <1>1, <1>2 DEF GivenBack
<1>3. ASSUME NEW w \in Workers, NEW x \in Message, x.type = "released" => x.val # NULL,
             toMgr' = [toMgr EXCEPT ![w] = Append(toMgr[w], x)]
      PROVE  GivenBack'
  <2>1. /\ Len(toMgr[w]) \in Nat /\ DOMAIN toMgr[w] = 1..Len(toMgr[w])
        /\ \A u \in Workers : u # w => toMgr'[u] = toMgr[u]
        /\ DOMAIN toMgr'[w] = 1..(Len(toMgr[w]) + 1)
        /\ \A i \in DOMAIN toMgr[w] : i \in DOMAIN toMgr'[w] /\ toMgr'[w][i] = toMgr[w][i]
        /\ toMgr'[w][Len(toMgr[w]) + 1] = x
    BY <1>1, <1>3, Pushed
  <2>2. ASSUME NEW u \in Workers, NEW i \in DOMAIN toMgr'[u], toMgr'[u][i].type = "released"
        PROVE  toMgr'[u][i].val # NULL
    <3>1. \/ i \in DOMAIN toMgr[u] /\ toMgr'[u][i] = toMgr[u][i]
          \/ toMgr'[u][i] = x
      BY <2>1, <2>2
    <3> QED
      BY <1>1, <1>3, <2>2, <3>1 DEF GivenBack
  <2> QED
    BY <2>2 DEF GivenBack
<1>4. ASSUME NEW w \in Workers, toMgr[w] # <<>>, toMgr' = [toMgr EXCEPT ![w] = Tail(toMgr[w])]
      PROVE  GivenBack'
  <2>1. toMgr \in Pipes
    BY <1>1
  <2>2. /\ \A u \in Workers : u # w => toMgr'[u] = toMgr[u]
        /\ \A i \in DOMAIN toMgr'[w] : i + 1 \in DOMAIN toMgr[w] /\ toMgr'[w][i] = toMgr[w][i + 1]
    BY <1>4, <2>1, Popped DEF Pipes
  <2>3. ASSUME NEW u \in Workers, NEW i \in DOMAIN toMgr'[u], toMgr'[u][i].type = "released"
        PROVE  toMgr'[u][i].val # NULL
    BY <1>1, <2>2, <2>3 DEF GivenBack
  <2> QED
    BY <2>3 DEF GivenBack
<1>5. ASSUME NEW w \in Workers, NEW r \in Requests, NEW k \in Keys, EvalMiss(w, r, k)
      PROVE  GivenBack'
  <2> DEFINE x == RequestMsg(r, k)
  <2>1. x \in Message /\ x.type # "released"
    BY <1>1, Messages DEF RequestMsg
  <2>2. toMgr' = toMgr \/ toMgr' = [toMgr EXCEPT ![w] = Append(toMgr[w], x)]
    BY <1>5 DEF EvalMiss, ToManager
  <2> HIDE DEF x
  <2> QED
    BY <1>2, <1>3, <2>1, <2>2
<1>6. ASSUME NEW w \in Workers,
             \/ ResponseFails(w) \/ ResponseResumes(w) \/ ResponseUntracked(w)
             \/ ReleaseHeld(w) \/ ReleaseNotHeld(w) \/ ReleaseFails(w)
      PROVE  GivenBack'
  <2> DEFINE m == Head(toWkr[w])
             x == ReleasedMsg(m, wtable[w][m.key])
  <2>1. Handles(w, m)
    BY <1>6, WorkerSteps
  <2>2. m \in Message
    BY <1>1, <2>1, Popped DEF Handles, TypeOK, Pipes
  <2>3. x \in Message /\ x.val = wtable[w][m.key].val
    BY <1>1, <2>2, Messages DEF ReleasedMsg
  <2> HIDE DEF m, x
  <2>4. \/ UNCHANGED toMgr
        \/ /\ wtable[w][m.key].val # NULL
           /\ toMgr' = [toMgr EXCEPT ![w] = Append(toMgr[w], x)]
    BY <2>1 DEF Handles, x
  <2> QED
    BY <1>2, <1>3, <2>3, <2>4
<1>7. ASSUME NEW w \in Workers,
             RequestFound(w) \/ RequestCreates(w) \/ RequestFails(w) \/ Released(w)
      PROVE  GivenBack'
  <2>1. toMgr[w] # <<>> /\ toMgr' = [toMgr EXCEPT ![w] = Tail(toMgr[w])]
    BY <1>7 DEF RequestFound, RequestCreates, RequestFails, Released, ManagerReceives, Grant
  <2> QED
    BY <1>4, <2>1
<1>8. ASSUME NEW w \in Workers, NEW r \in Requests, (\E k \in Keys : EvalHit(w, r, k)) \/ Close(w, r)
      PROVE  GivenBack'
  BY <1>2, <1>8 DEF EvalHit, Close
<1>9. ASSUME NEW w \in Workers, Respawn(w) PROVE GivenBack'
  BY <1>2, <1>9 DEF Respawn
<1>10. ASSUME NEW v \in Values, ReaperFrees(v) \/ ReaperAsks(v) \/ ReaperForces(v) \/ Drain(v)
       PROVE  GivenBack'
  BY <1>2, <1>10 DEF ReaperFrees, ReaperAsks, ReaperForces, Drain
<1>11. CASE UNCHANGED vars \/ ManagerExits
  BY <1>2, <1>11 DEF vars, ManagerExits
<1>12. CASE ManagerQuits
  <2>1. \A w \in Workers : DOMAIN toMgr'[w] = {}
    BY <1>12 DEF ManagerQuits
  <2> QED
    BY <2>1 DEF GivenBack
<1> QED
  BY <1>5, <1>6, <1>7, <1>8, <1>9, <1>10, <1>11, <1>12 DEF Next, WorkerHandles, ManagerHandles

-----------------------------------------------------------------------------
(* The theorems.                                                           *)

\* The invariant holds before anything was granted.
LEMMA InitInv == Init => IInv
<1> SUFFICES ASSUME Init PROVE IInv
  OBVIOUS
<1>1. TypeOK
  <2>1. [k \in Keys |-> NoEntry] \in [Keys -> Entry] /\ NoRequest \in Request
    BY DEF NoEntry, Entry, NoRequest, Request
  <2>2. <<>> \in Seq(Message)
    OBVIOUS
  <2> QED
    BY <2>1, <2>2 DEF Init, TypeOK
<1>2. Table
  BY DEF Init, Table
<1>3. Counted
  BY FS_EmptySet DEF Init, Counted
<1>4. \A w \in Workers : DOMAIN toWkr[w] = {} /\ DOMAIN toMgr[w] = {}
  BY DEF Init
<1>5. \A c \in Pointers : FALSE
  <2>1. \A w \in Workers, k \in Keys : wtable[w][k].val = NULL
    BY DEF Init, NoEntry
  <2> QED
    BY <1>4, <2>1, PointerForms DEF Forms
<1>6. Owned /\ Once
  BY <1>5 DEF Owned, Once
<1>7. Asked /\ GivenBack
  BY <1>4 DEF Asked, GivenBack
<1> QED
  BY <1>1, <1>2, <1>3, <1>6, <1>7 DEF IInv

\* Every step keeps it.
LEMMA StepInv == IInv /\ [Next]_vars => IInv'
<1> SUFFICES ASSUME IInv, [Next]_vars PROVE IInv'
  OBVIOUS
<1>1. TypeOK'
  BY TypeStep
<1>2. Accounts'
  BY <1>1, AccountStep
<1>3. Asked' /\ GivenBack'
  BY AskedStep, GivenBackStep
<1> QED
  BY <1>1, <1>2, <1>3 DEF IInv, Accounts

LEMMA Invariance == Spec => []IInv
  BY InitInv, StepInv, PTL DEF Spec

\* As long as the manager runs, no process follows a pointer to a freed value
\* (limiter_reap_value), or to the value of another key, however many workers there are
\* and whenever they die; and when it quits and frees what is held (limiter.c:193), no
\* key gets another value that a worker could take for the one it holds.
THEOREM LimiterPointers == Spec => []PointersAlive
<1>1. IInv => PointersAlive
  BY Alive DEF IInv
<1> QED
  BY <1>1, Invariance, PTL

\* The manager's table names every value that is allocated and no other.
THEOREM LimiterTable == Spec => []ManagerTable
<1>1. IInv => ManagerTable
  BY DEF IInv, Table, ManagerTable
<1> QED
  BY <1>1, Invariance, PTL

\* lval->refcount is the number of grants that did not come back, and every pointer is
\* one of them, no two the same: a value that is freed at 0 has none.
THEOREM LimiterGrants == Spec => []GrantsAccounted
<1>1. IInv => GrantsAccounted
  <2> SUFFICES ASSUME IInv PROVE GrantsAccounted
    OBVIOUS
  <2>1. \A v \in alive : refcount[v] = Cardinality(grants[v])
    BY DEF IInv, Counted, TypeOK
  <2> HIDE DEF Pointers
  <2> QED
    BY <2>1 DEF IInv, Owned, OwnedAs, Once, GrantsAccounted
<1> QED
  BY <1>1, Invariance, PTL

\* The assertion of unsetLimiterValue does not fail: what a worker is asked to give back
\* it has, or has given back already.
THEOREM LimiterRelease == Spec => []ReleaseMatches
<1>1. IInv => ReleaseMatches
  <2> SUFFICES ASSUME IInv, NEW w \in up, WorkerReceives(w, "release")
               PROVE  wtable[w][Head(toWkr[w]).key].val \in {NULL, Head(toWkr[w]).val}
    BY DEF ReleaseMatches
  <2>1. w \in Workers /\ toWkr \in Pipes /\ toWkr[w] # <<>> /\ Head(toWkr[w]).type = "release"
    BY DEF IInv, TypeOK, Pipes, WorkerReceives
  <2>2. 1 \in DOMAIN toWkr[w] /\ Head(toWkr[w]) = toWkr[w][1]
    BY <2>1, Popped
  <2> QED
    BY <2>1, <2>2 DEF IInv, Asked
<1> QED
  BY <1>1, Invariance, PTL

-----------------------------------------------------------------------------
(***************************************************************************)
(* What Limiter promises the requests it limits.  What is under way about  *)
(* a request is for that request, unless one at its address was closed, or *)
(* died with the worker, while it waited (`left`): what was sent for that  *)
(* one is not told apart from what is sent for another.                    *)
(***************************************************************************)

(* What is under way for the requests rs of a worker, in the pipe p to the *)
(* manager and in the pipe q from it: at most one question or one answer   *)
(* about each address that nobody left, and this for the key it waits for. *)
Asks(p, i, lf) == p[i].type = "request" /\ p[i].req \notin lf
Answers(q, i, lf) == q[i].type = "response" /\ q[i].req \notin lf

Concerns(m, rs) ==
  /\ m.req \in Requests
  /\ rs[m.req].st = "waiting"
  /\ rs[m.req].key = m.key

Served(p, q, rs, lf) ==
  /\ \A i \in DOMAIN p : Asks(p, i, lf) => Concerns(p[i], rs)
  /\ \A i \in DOMAIN q : Answers(q, i, lf) => Concerns(q[i], rs)
  /\ \A i, j \in DOMAIN p :
       Asks(p, i, lf) /\ Asks(p, j, lf) /\ p[i].req = p[j].req => i = j
  /\ \A i, j \in DOMAIN q :
       Answers(q, i, lf) /\ Answers(q, j, lf) /\ q[i].req = q[j].req => i = j
  /\ \A i \in DOMAIN p, j \in DOMAIN q :
       Asks(p, i, lf) /\ Answers(q, j, lf) => p[i].req # q[j].req

AllServed == \A w \in Workers : Served(toMgr[w], toWkr[w], req[w], left[w])

(* The inductive invariant, beside IInv.                                   *)
Serves == AllServed /\ RightKey

-----------------------------------------------------------------------------
(* What the callbacks do to the pipes of one worker.                       *)

LEMMA Shorter ==
  ASSUME NEW p \in Seq(Message), p # <<>>
  PROVE  /\ Tail(p) \in Seq(Message)
         /\ 1 \in DOMAIN p /\ Head(p) = p[1] /\ Head(p) \in Message
         /\ \A i \in DOMAIN Tail(p) :
              i \in Nat \ {0} /\ i + 1 \in DOMAIN p /\ Tail(p)[i] = p[i + 1]
<1>1. /\ Head(p) \in Message /\ Tail(p) \in Seq(Message)
      /\ Len(Tail(p)) = Len(p) - 1
      /\ \A i \in 1 .. Len(Tail(p)) : Tail(p)[i] = p[i + 1]
  BY HeadTailProperties
<1>2. Len(p) \in Nat \ {0} /\ DOMAIN p = 1 .. Len(p)
  BY EmptySeq, LenProperties
<1>3. DOMAIN Tail(p) = 1 .. Len(Tail(p))
  BY <1>1, LenProperties
<1>4. Head(p) = p[1]
  OBVIOUS
<1>5. ASSUME NEW i \in DOMAIN Tail(p)
      PROVE  i \in Nat \ {0} /\ i + 1 \in DOMAIN p /\ Tail(p)[i] = p[i + 1]
  BY <1>1, <1>2, <1>3, <1>5
<1> QED
  BY <1>1, <1>2, <1>4, <1>5

LEMMA Longer ==
  ASSUME NEW p \in Seq(Message), NEW m \in Message
  PROVE  /\ Append(p, m) \in Seq(Message)
         /\ Len(p) + 1 \notin DOMAIN p
         /\ \A i \in DOMAIN Append(p, m) : i = Len(p) + 1 \/ i \in DOMAIN p
         /\ \A i \in DOMAIN p : i # Len(p) + 1 /\ Append(p, m)[i] = p[i]
         /\ Append(p, m)[Len(p) + 1] = m
<1>1. /\ Append(p, m) \in Seq(Message) /\ Len(Append(p, m)) = Len(p) + 1
      /\ \A i \in 1 .. Len(p) : Append(p, m)[i] = p[i]
      /\ Append(p, m)[Len(p) + 1] = m
  BY AppendProperties
<1>2. Len(p) \in Nat /\ DOMAIN p = 1 .. Len(p)
  BY LenProperties
<1>3. DOMAIN Append(p, m) = 1 .. (Len(p) + 1)
  BY <1>1, LenProperties
<1> QED
  BY <1>1, <1>2, <1>3

LEMMA ManagerTakes ==
  ASSUME NEW p \in Seq(Message), NEW q, NEW rs, NEW lf, p # <<>>, Served(p, q, rs, lf)
  PROVE  Served(Tail(p), q, rs, lf)
<1> PICK t : t = Tail(p)
  OBVIOUS
<1>1. \A i \in DOMAIN t : i \in Nat /\ i + 1 \in DOMAIN p /\ t[i] = p[i + 1]
  BY Shorter
<1>2. \A i \in DOMAIN t : Asks(t, i, lf) => Concerns(t[i], rs)
  BY <1>1 DEF Served, Asks
<1>3. \A i, j \in DOMAIN t : Asks(t, i, lf) /\ Asks(t, j, lf) /\ t[i].req = t[j].req => i = j
  <2> TAKE i, j \in DOMAIN t
  <2> HAVE Asks(t, i, lf) /\ Asks(t, j, lf) /\ t[i].req = t[j].req
  <2>1. i + 1 = j + 1
    BY <1>1 DEF Served, Asks
  <2> QED
    BY <1>1, <2>1
<1>4. \A i \in DOMAIN t, j \in DOMAIN q :
        Asks(t, i, lf) /\ Answers(q, j, lf) => t[i].req # q[j].req
  BY <1>1 DEF Served, Asks
<1>5. Served(t, q, rs, lf)
  BY <1>2, <1>3, <1>4 DEF Served
<1> QED
  BY <1>5

LEMMA WorkerTakes ==
  ASSUME NEW p, NEW q \in Seq(Message), NEW rs, NEW lf, q # <<>>, Served(p, q, rs, lf)
  PROVE  Served(p, Tail(q), rs, lf)
<1> PICK t : t = Tail(q)
  OBVIOUS
<1>1. \A i \in DOMAIN t : i \in Nat /\ i + 1 \in DOMAIN q /\ t[i] = q[i + 1]
  BY Shorter
<1>2. \A i \in DOMAIN t : Answers(t, i, lf) => Concerns(t[i], rs)
  BY <1>1 DEF Served, Answers
<1>3. \A i, j \in DOMAIN t :
        Answers(t, i, lf) /\ Answers(t, j, lf) /\ t[i].req = t[j].req => i = j
  <2> TAKE i, j \in DOMAIN t
  <2> HAVE Answers(t, i, lf) /\ Answers(t, j, lf) /\ t[i].req = t[j].req
  <2>1. i + 1 = j + 1
    BY <1>1 DEF Served, Answers
  <2> QED
    BY <1>1, <2>1
<1>4. \A i \in DOMAIN p, j \in DOMAIN t :
        Asks(p, i, lf) /\ Answers(t, j, lf) => p[i].req # t[j].req
  BY <1>1 DEF Served, Answers
<1>5. Served(p, t, rs, lf)
  BY <1>2, <1>3, <1>4 DEF Served
<1> QED
  BY <1>5

(* An alert that neither asks nor answers does not matter.                 *)
LEMMA OtherToManager ==
  ASSUME NEW p \in Seq(Message), NEW q, NEW rs, NEW lf, NEW m \in Message,
         m.type # "request", Served(p, q, rs, lf)
  PROVE  Served(Append(p, m), q, rs, lf)
<1> PICK t : t = Append(p, m)
  OBVIOUS
<1>1. \A i \in DOMAIN t : Asks(t, i, lf) => i \in DOMAIN p /\ t[i] = p[i] /\ Asks(p, i, lf)
  BY Longer DEF Asks
<1>2. Served(t, q, rs, lf)
  BY <1>1 DEF Served
<1> QED
  BY <1>2

LEMMA OtherToWorker ==
  ASSUME NEW p, NEW q \in Seq(Message), NEW rs, NEW lf, NEW m \in Message,
         m.type # "response", Served(p, q, rs, lf)
  PROVE  Served(p, Append(q, m), rs, lf)
<1> PICK t : t = Append(q, m)
  OBVIOUS
<1>1. \A i \in DOMAIN t :
        Answers(t, i, lf) => i \in DOMAIN q /\ t[i] = q[i] /\ Answers(q, i, lf)
  BY Longer DEF Answers
<1>2. Served(p, t, rs, lf)
  BY <1>1 DEF Served
<1> QED
  BY <1>2

(* Some of it is lost.                                                     *)
LEMMA Fewer ==
  ASSUME NEW p, NEW q, NEW rs, NEW lf, Served(p, q, rs, lf), NEW pt, NEW qt,
         \A i \in DOMAIN pt : i \in DOMAIN p /\ pt[i] = p[i],
         \A i \in DOMAIN qt : i \in DOMAIN q /\ qt[i] = q[i]
  PROVE  Served(pt, qt, rs, lf)
<1>1. /\ \A i \in DOMAIN pt : Asks(pt, i, lf) => Asks(p, i, lf)
      /\ \A i \in DOMAIN qt : Answers(qt, i, lf) => Answers(q, i, lf)
  BY DEF Asks, Answers
<1> QED
  BY <1>1 DEF Served

(* Requests are closed, or die: what is under way about them is of no      *)
(* request any more.                                                       *)
LEMMA Leaves ==
  ASSUME NEW p, NEW q, NEW rs, NEW lf, Served(p, q, rs, lf), NEW rt, NEW lt,
         lf \subseteq lt,
         \A r \in Requests : r \notin lt /\ rs[r].st = "waiting" => rt[r] = rs[r]
  PROVE  Served(p, q, rt, lt)
<1>1. /\ \A i \in DOMAIN p : Asks(p, i, lt) => Asks(p, i, lf) /\ p[i].req \notin lt
      /\ \A i \in DOMAIN q : Answers(q, i, lt) => Answers(q, i, lf) /\ q[i].req \notin lt
  BY DEF Asks, Answers
<1>2. /\ \A i \in DOMAIN p : Asks(p, i, lt) => Concerns(p[i], rt)
      /\ \A i \in DOMAIN q : Answers(q, i, lt) => Concerns(q[i], rt)
  BY <1>1 DEF Served, Concerns
<1> QED
  BY <1>1, <1>2 DEF Served

(* A request that is idle asks, if there is who reads it: nothing is under *)
(* way about it.                                                           *)
LEMMA RequestAsks ==
  ASSUME NEW p \in Seq(Message), NEW q, NEW rs \in [Requests -> Request], NEW lf,
         NEW r \in Requests, NEW k \in Keys, rs[r].st = "idle",
         RequestMsg(r, k) \in Message, Served(p, q, rs, lf),
         NEW rt, rt = [rs EXCEPT ![r] = [st |-> "waiting", key |-> k, used |-> NULL]]
  PROVE  Served(p, q, rt, lf) /\ Served(Append(p, RequestMsg(r, k)), q, rt, lf)
<1> PICK t : t = Append(p, RequestMsg(r, k))
  OBVIOUS
<1>0. /\ \A a \in Requests : a # r => rt[a] = rs[a]
      /\ rt[r].st = "waiting" /\ rt[r].key = k
  OBVIOUS
<1>1. \A i \in DOMAIN t :
        \/ t[i].req = r /\ t[i].key = k /\ i = Len(p) + 1
        \/ i \in DOMAIN p /\ t[i] = p[i] /\ i # Len(p) + 1
  BY Longer DEF RequestMsg
<1>2. \A i \in DOMAIN p : Asks(p, i, lf) => p[i].req # r /\ Concerns(p[i], rt)
  BY <1>0 DEF Served, Concerns
<1>3. \A i \in DOMAIN q : Answers(q, i, lf) => q[i].req # r /\ Concerns(q[i], rt)
  BY <1>0 DEF Served, Concerns
<1>4. \A i \in DOMAIN t : Asks(t, i, lf) => Concerns(t[i], rt)
  BY <1>0, <1>1, <1>2 DEF Asks, Concerns
<1>5. \A i, j \in DOMAIN t : Asks(t, i, lf) /\ Asks(t, j, lf) /\ t[i].req = t[j].req => i = j
  BY <1>1, <1>2 DEF Asks, Served
<1>6. \A i \in DOMAIN t, j \in DOMAIN q :
        Asks(t, i, lf) /\ Answers(q, j, lf) => t[i].req # q[j].req
  BY <1>1, <1>3 DEF Asks, Served
<1>7. Served(t, q, rt, lf)
  BY <1>3, <1>4, <1>5, <1>6 DEF Served
<1>8. Served(p, q, rt, lf)
  BY <1>2, <1>3 DEF Served
<1> QED
  BY <1>7, <1>8

(* The manager answers the question it takes.                              *)
LEMMA ManagerAnswers ==
  ASSUME NEW p \in Seq(Message), NEW q \in Seq(Message), NEW rs, NEW lf,
         p # <<>>, Head(p).type = "request",
         NEW m \in Message, m.req = Head(p).req, m.key = Head(p).key,
         Served(p, q, rs, lf)
  PROVE  Served(Tail(p), Append(q, m), rs, lf)
<1> PICK t : t = Append(q, m)
  OBVIOUS
<1> PICK u : u = Tail(p)
  OBVIOUS
<1>1. Served(u, q, rs, lf)
  BY ManagerTakes
<1>2. \A i \in DOMAIN u :
        i \in Nat \ {0} /\ i + 1 \in DOMAIN p /\ u[i] = p[i + 1]
  BY Shorter
<1>3. 1 \in DOMAIN p /\ p[1].type = "request" /\ m.req = p[1].req /\ m.key = p[1].key
  BY Shorter
<1>4. m.req \notin lf => Asks(p, 1, lf) /\ Concerns(m, rs)
  BY <1>3 DEF Served, Concerns, Asks
<1>5. \A i \in DOMAIN u : Asks(u, i, lf) => u[i].req # m.req
  <2> TAKE i \in DOMAIN u
  <2> HAVE Asks(u, i, lf)
  <2>1. i + 1 # 1 /\ i + 1 \in DOMAIN p /\ Asks(p, i + 1, lf) /\ u[i] = p[i + 1]
    BY <1>2 DEF Asks
  <2>2. u[i].req \notin lf
    BY DEF Asks
  <2> QED
    BY <1>3, <1>4, <2>1, <2>2 DEF Served
<1>6. \A j \in DOMAIN q : Answers(q, j, lf) => q[j].req # m.req
  BY <1>3, <1>4 DEF Served, Answers
<1>7. \A i \in DOMAIN t :
        \/ t[i] = m /\ i = Len(q) + 1
        \/ i \in DOMAIN q /\ t[i] = q[i] /\ i # Len(q) + 1
  BY Longer
<1>8. \A i \in DOMAIN t : Answers(t, i, lf) => Concerns(t[i], rs)
  BY <1>4, <1>7 DEF Answers, Served
<1>9. \A i, j \in DOMAIN t :
        Answers(t, i, lf) /\ Answers(t, j, lf) /\ t[i].req = t[j].req => i = j
  BY <1>6, <1>7 DEF Answers, Served
<1>10. \A i \in DOMAIN u, j \in DOMAIN t :
         Asks(u, i, lf) /\ Answers(t, j, lf) => u[i].req # t[j].req
  BY <1>1, <1>5, <1>7 DEF Answers, Served
<1>11. Served(u, t, rs, lf)
  BY <1>1, <1>8, <1>9, <1>10 DEF Served
<1> QED
  BY <1>11

(* The worker takes the answer: nothing more is under way about its        *)
(* request, whatever becomes of it.                                        *)
LEMMA WorkerResumes ==
  ASSUME NEW p, NEW q \in Seq(Message), NEW rs \in [Requests -> Request], NEW lf,
         q # <<>>, Head(q).type = "response", Served(p, q, rs, lf),
         NEW x, NEW rt, rt = [rs EXCEPT ![Head(q).req] = x]
  PROVE  Served(p, Tail(q), rt, lf)
<1> PICK t : t = Tail(q)
  OBVIOUS
<1> PICK r : r = Head(q).req
  OBVIOUS
<1>1. Served(p, t, rs, lf)
  BY WorkerTakes
<1>2. 1 \in DOMAIN q /\ q[1].req = r /\ (r \notin lf => Answers(q, 1, lf))
  BY Shorter DEF Answers
<1>3. \A i \in DOMAIN p : Asks(p, i, lf) => p[i].req # r
  BY <1>2 DEF Served, Asks
<1>4. \A i \in DOMAIN t : Answers(t, i, lf) => t[i].req # r
  <2> TAKE i \in DOMAIN t
  <2> HAVE Answers(t, i, lf)
  <2>1. i + 1 # 1 /\ i + 1 \in DOMAIN q /\ Answers(q, i + 1, lf) /\ t[i] = q[i + 1]
    BY Shorter DEF Answers
  <2>2. t[i].req \notin lf
    BY DEF Answers
  <2> QED
    BY <1>2, <2>1, <2>2 DEF Served
<1>5. \A a \in Requests : a # r => rt[a] = rs[a]
  OBVIOUS
<1>6. /\ \A i \in DOMAIN p : Asks(p, i, lf) => Concerns(p[i], rt)
      /\ \A i \in DOMAIN t : Answers(t, i, lf) => Concerns(t[i], rt)
  BY <1>1, <1>3, <1>4, <1>5 DEF Served, Concerns
<1>7. Served(p, t, rt, lf)
  BY <1>1, <1>6 DEF Served
<1> QED
  BY <1>7

-----------------------------------------------------------------------------
(* The invariant is inductive.                                             *)

LEMMA ServesFirst == Init => Serves
<1> SUFFICES ASSUME Init PROVE Serves
  OBVIOUS
<1>1. \A w \in Workers : DOMAIN toWkr[w] = {} /\ DOMAIN toMgr[w] = {}
  BY DEF Init
<1>2. AllServed
  BY <1>1 DEF AllServed, Served
<1>3. RightKey
  BY DEF Init, RightKey, NoRequest
<1> QED
  BY <1>2, <1>3 DEF Serves

LEMMA ServesNext ==
  ASSUME IInv, Serves, [Next]_vars
  PROVE  Serves'
<1>1. /\ TypeOK /\ AllServed /\ RightKey
      /\ \A w \in Workers :
           /\ toMgr[w] \in Seq(Message) /\ toWkr[w] \in Seq(Message)
           /\ req[w] \in [Requests -> Request]
           /\ Served(toMgr[w], toWkr[w], req[w], left[w])
      /\ toMgr \in [Workers -> Seq(Message)] /\ toWkr \in [Workers -> Seq(Message)]
      /\ req \in [Workers -> [Requests -> Request]] /\ left \in [Workers -> SUBSET Requests]
  BY DEF IInv, TypeOK, Serves, AllServed
(* A callback that involves one worker changes nothing of the others.      *)
<1>2. ASSUME NEW w \in Workers,
             \A u \in Workers : u # w => UNCHANGED <<toMgr[u], toWkr[u], req[u], left[u]>>,
             Served(toMgr'[w], toWkr'[w], req'[w], left'[w])
      PROVE  AllServed'
  BY <1>1, <1>2 DEF AllServed
<1>3. ASSUME UNCHANGED <<req, left>> PROVE RightKey'
  BY <1>1, <1>3 DEF RightKey
<1>4. ASSUME NEW w \in Workers, NEW r \in Requests, NEW x,
             req' = [req EXCEPT ![w][r] = x],
             \A u \in Workers : left[u] \subseteq left'[u],
             x.used # NULL => x.used = x.key \/ r \in left[w]
      PROVE  RightKey'
  <2>1. \A u \in Workers, a \in Requests :
          req'[u][a] = IF u = w /\ a = r THEN x ELSE req[u][a]
    BY <1>1, <1>4
  <2> QED
    BY <1>1, <1>4, <2>1 DEF RightKey
<1>5. ASSUME UNCHANGED <<toMgr, toWkr, req, left>> PROVE AllServed' /\ RightKey'
  BY <1>1, <1>3, <1>5 DEF AllServed
<1>6. ASSUME NEW w \in Workers, NEW r \in Requests, NEW k \in Keys, EvalMiss(w, r, k)
      PROVE  AllServed' /\ RightKey'
  <2> PICK x : x = [st |-> "waiting", key |-> k, used |-> NULL]
    OBVIOUS
  <2>1. /\ req' = [req EXCEPT ![w][r] = x] /\ toWkr' = toWkr /\ left' = left
        /\ \/ toMgr' = toMgr
           \/ toMgr' = [toMgr EXCEPT ![w] = Append(toMgr[w], RequestMsg(r, k))]
        /\ req[w][r].st = "idle"
    BY <1>6 DEF EvalMiss, ToManager
  <2>2. RequestMsg(r, k) \in Message
    BY <1>1, Messages
  <2>3. /\ req'[w] = [req[w] EXCEPT ![r] = x]
        /\ toMgr'[w] = toMgr[w] \/ toMgr'[w] = Append(toMgr[w], RequestMsg(r, k))
        /\ \A u \in Workers : u # w => UNCHANGED <<toMgr[u], toWkr[u], req[u], left[u]>>
    BY <1>1, <2>1
  <2>4. /\ Served(toMgr[w], toWkr[w], req'[w], left[w])
        /\ Served(Append(toMgr[w], RequestMsg(r, k)), toWkr[w], req'[w], left[w])
    BY <1>1, <2>1, <2>2, <2>3, RequestAsks
  <2>5. AllServed'
    BY <1>2, <2>1, <2>3, <2>4
  <2>6. RightKey'
    BY <1>4, <2>1
  <2> QED
    BY <2>5, <2>6
<1>7. ASSUME NEW w \in Workers, NEW r \in Requests, Close(w, r)
      PROVE  AllServed' /\ RightKey'
  <2>1. /\ req' = [req EXCEPT ![w][r] = NoRequest] /\ UNCHANGED <<toMgr, toWkr>>
        /\ left' = [left EXCEPT ![w] = left[w] \cup (Waiting(w) \cap {r})]
    BY <1>7 DEF Close
  <2>2. /\ req'[w] = [req[w] EXCEPT ![r] = NoRequest]
        /\ left'[w] = left[w] \cup (Waiting(w) \cap {r})
        /\ \A u \in Workers : u # w => UNCHANGED <<toMgr[u], toWkr[u], req[u], left[u]>>
    BY <1>1, <2>1
  <2>3. \A a \in Requests : a \notin left'[w] /\ req[w][a].st = "waiting" => req'[w][a] = req[w][a]
    BY <1>1, <2>2 DEF Waiting
  <2>4. Served(toMgr[w], toWkr[w], req'[w], left'[w])
    BY <1>1, <2>2, <2>3, Leaves
  <2>5. AllServed'
    BY <1>2, <2>1, <2>2, <2>4
  <2>6. \A u \in Workers : left[u] \subseteq left'[u]
    BY <2>2
  <2>7. RightKey'
    BY <1>4, <2>1, <2>6 DEF NoRequest
  <2> QED
    BY <2>5, <2>7
(* A worker that dies leaves what waited in it.                            *)
<1>8. ASSUME NEW w \in Workers, ResponseFails(w) \/ ReleaseFails(w)
      PROVE  AllServed' /\ RightKey'
  <2>1. /\ toWkr[w] # <<>> /\ toMgr' = toMgr
        /\ toWkr' = [toWkr EXCEPT ![w] = Tail(toWkr[w])]
        /\ req' = [req EXCEPT ![w] = [r \in Requests |-> NoRequest]]
        /\ left' = [left EXCEPT ![w] = left[w] \cup Waiting(w)]
    BY <1>8 DEF ResponseFails, ReleaseFails, WorkerReceives, Die
  <2>2. /\ toWkr'[w] = Tail(toWkr[w]) /\ req'[w] = [r \in Requests |-> NoRequest]
        /\ left'[w] = left[w] \cup Waiting(w)
        /\ \A u \in Workers : u # w => UNCHANGED <<toMgr[u], toWkr[u], req[u], left[u]>>
    BY <1>1, <2>1
  <2>3. Served(toMgr[w], Tail(toWkr[w]), req[w], left[w])
    BY <1>1, <2>1, WorkerTakes
  <2>4. Served(toMgr[w], Tail(toWkr[w]), req'[w], left'[w])
    <3>1. \A a \in Requests : a \notin left'[w] => req[w][a].st # "waiting"
      BY <2>2 DEF Waiting
    <3> QED
      BY <2>2, <2>3, <3>1, Leaves
  <2>5. AllServed'
    BY <1>2, <2>1, <2>2, <2>4
  <2>6. RightKey'
    <3>1. \A r \in Requests : req'[w][r].used = NULL
      BY <2>2 DEF NoRequest
    <3> QED
      BY <1>1, <2>2, <3>1 DEF RightKey
  <2> QED
    BY <2>5, <2>6
<1>9. ASSUME NEW w \in Workers, ResponseResumes(w)
      PROVE  AllServed' /\ RightKey'
  <2> PICK m : m = Head(toWkr[w])
    OBVIOUS
  <2> PICK x : x = [req[w][m.req] EXCEPT !.st = "done", !.used = m.key]
    OBVIOUS
  <2>1. /\ toWkr[w] # <<>> /\ m.type = "response" /\ req[w][m.req].st = "waiting"
        /\ req' = [req EXCEPT ![w][m.req] = x] /\ toMgr' = toMgr /\ left' = left
        /\ toWkr' = [toWkr EXCEPT ![w] = Tail(toWkr[w])]
    BY <1>9 DEF ResponseResumes, WorkerReceives
  <2>2. /\ toWkr'[w] = Tail(toWkr[w]) /\ req'[w] = [req[w] EXCEPT ![m.req] = x]
        /\ \A u \in Workers : u # w => UNCHANGED <<toMgr[u], toWkr[u], req[u], left[u]>>
    BY <1>1, <2>1
  <2>3. Served(toMgr[w], Tail(toWkr[w]), req'[w], left[w])
    BY <1>1, <2>1, <2>2, WorkerResumes
  <2>4. AllServed'
    BY <1>2, <2>1, <2>2, <2>3
  <2>5. CASE m.req \in Requests
    <3>1. 1 \in DOMAIN toWkr[w] /\ m = toWkr[w][1]
      BY <1>1, <2>1, Shorter
    <3>2. m.req \in left[w] \/ req[w][m.req].key = m.key
      BY <1>1, <2>1, <3>1 DEF Served, Concerns, Answers
    <3>3. x.used = m.key /\ x.key = req[w][m.req].key
      <4>1. req[w][m.req] \in Request
        BY <1>1, <2>5
      <4> QED
        BY <4>1 DEF Request
    <3>4. RightKey'
      BY <1>4, <2>1, <2>5, <3>2, <3>3
    <3> QED
      BY <2>4, <3>4
  <2>6. CASE m.req \notin Requests
    <3>1. req' = req
      BY <1>1, <2>1, <2>6
    <3> QED
      BY <1>3, <2>1, <2>4, <3>1
  <2> QED
    BY <2>5, <2>6
(* The other alerts a worker handles leave its requests alone.             *)
<1>10. ASSUME NEW w \in Workers,
              ResponseUntracked(w) \/ ReleaseHeld(w) \/ ReleaseNotHeld(w)
       PROVE  AllServed' /\ RightKey'
  <2> PICK m : m = Head(toWkr[w])
    OBVIOUS
  <2> PICK x : x = ReleasedMsg(m, wtable[w][m.key])
    OBVIOUS
  <2>1. /\ toWkr[w] # <<>> /\ req' = req /\ left' = left
        /\ toWkr' = [toWkr EXCEPT ![w] = Tail(toWkr[w])]
        /\ toMgr' = toMgr \/ toMgr' = [toMgr EXCEPT ![w] = Append(toMgr[w], x)]
    BY <1>10 DEF ResponseUntracked, ReleaseHeld, ReleaseNotHeld, WorkerReceives, ToManager, worker
  <2>2. x \in Message /\ x.type # "request"
    <3>1. m \in Message
      BY <1>1, <2>1, Shorter
    <3> QED
      BY <1>1, <3>1, Messages DEF ReleasedMsg
  <2>3. Served(toMgr[w], Tail(toWkr[w]), req[w], left[w])
    BY <1>1, <2>1, WorkerTakes
  <2>4. Served(Append(toMgr[w], x), Tail(toWkr[w]), req[w], left[w])
    BY <1>1, <2>2, <2>3, OtherToManager
  <2>5. /\ toWkr'[w] = Tail(toWkr[w])
        /\ toMgr'[w] = toMgr[w] \/ toMgr'[w] = Append(toMgr[w], x)
        /\ \A u \in Workers : u # w => UNCHANGED <<toMgr[u], toWkr[u], req[u], left[u]>>
    BY <1>1, <2>1
  <2>6. AllServed'
    BY <1>2, <2>1, <2>3, <2>4, <2>5
  <2> QED
    BY <1>3, <2>1, <2>6
<1>11. ASSUME NEW w \in Workers, RequestFound(w) \/ RequestCreates(w) \/ RequestFails(w)
       PROVE  AllServed' /\ RightKey'
  <2> PICK m : m = Head(toMgr[w])
    OBVIOUS
  <2>1. toMgr[w] # <<>> /\ m.type = "request" /\ req' = req /\ left' = left
    BY <1>11 DEF RequestFound, RequestCreates, RequestFails, ManagerReceives, worker
  <2>2. m \in Message
    BY <1>1, <2>1, Shorter
  <2>3. m.key \in Keys /\ m.req \in Requests \cup {NULL}
    BY <2>2 DEF Message
  <2>4. PICK v \in Values \cup {NULL}, g \in Nat :
          /\ toWkr' = [toWkr EXCEPT ![w] = Append(toWkr[w], ResponseMsg(m.req, m.key, v, g))]
          /\ toMgr' = [toMgr EXCEPT ![w] = Tail(toMgr[w])]
    <3>1. granted + 1 \in Nat /\ 0 \in Nat /\ mtable[m.key] \in Values \cup {NULL}
      BY <1>1, <2>3 DEF TypeOK
    <3>2. CASE RequestFound(w)
      BY <3>1, <3>2 DEF RequestFound, Grant
    <3>3. CASE RequestCreates(w)
      <4>1. PICK v \in Values \ alive : Grant(w, m, v)
        BY <3>3 DEF RequestCreates
      <4> QED
        BY <3>1, <4>1 DEF Grant
    <3>4. CASE RequestFails(w)
      BY <3>1, <3>4 DEF RequestFails
    <3> QED
      BY <1>11, <3>2, <3>3, <3>4
  <2> PICK x : x = ResponseMsg(m.req, m.key, v, g)
    OBVIOUS
  <2>5. x \in Message /\ x.req = m.req /\ x.key = m.key
    <3>1. x \in Message
      BY <1>1, <2>3, Messages
    <3> QED
      BY <3>1 DEF ResponseMsg
  <2>6. Served(Tail(toMgr[w]), Append(toWkr[w], x), req[w], left[w])
    BY <1>1, <2>1, <2>5, ManagerAnswers
  <2>7. /\ toWkr'[w] = Append(toWkr[w], x) /\ toMgr'[w] = Tail(toMgr[w])
        /\ \A u \in Workers : u # w => UNCHANGED <<toMgr[u], toWkr[u], req[u], left[u]>>
    BY <1>1, <2>1, <2>4
  <2>8. AllServed'
    BY <1>2, <2>1, <2>6, <2>7
  <2> QED
    BY <1>3, <2>1, <2>8
<1>12. ASSUME NEW w \in Workers, Released(w)
       PROVE  AllServed' /\ RightKey'
  <2>1. /\ toMgr[w] # <<>> /\ req' = req /\ toWkr' = toWkr /\ left' = left
        /\ toMgr' = [toMgr EXCEPT ![w] = Tail(toMgr[w])]
    BY <1>12 DEF Released, ManagerReceives, worker
  <2>2. Served(Tail(toMgr[w]), toWkr[w], req[w], left[w])
    BY <1>1, <2>1, ManagerTakes
  <2>3. /\ toMgr'[w] = Tail(toMgr[w])
        /\ \A u \in Workers : u # w => UNCHANGED <<toMgr[u], toWkr[u], req[u], left[u]>>
    BY <1>1, <2>1
  <2>4. AllServed'
    BY <1>2, <2>1, <2>2, <2>3
  <2> QED
    BY <1>3, <2>1, <2>4
<1>13. ASSUME NEW v \in Values, ReaperAsks(v) \/ ReaperForces(v)
       PROVE  AllServed' /\ RightKey'
  <2>1. Asking(v) /\ UNCHANGED <<toMgr, req, left>>
    BY <1>13, WhoAsks DEF ReaperAsks, ReaperForces, worker
  <2>2. CASE toWkr' = toWkr
    BY <1>5, <2>1, <2>2
  <2>3. ASSUME NEW f \in BOOLEAN,
               toWkr' = [w \in Workers |-> Append(toWkr[w], ReleaseMsg(v, f))]
        PROVE  AllServed' /\ RightKey'
    <3> PICK x : x = ReleaseMsg(v, f)
      OBVIOUS
    <3>1. x \in Message /\ x.type # "response"
      <4>1. vkey[v] \in Keys
        BY <2>1 DEF Asking, IInv, Table
      <4> QED
        BY <1>1, <4>1, Messages DEF ReleaseMsg
    <3>2. \A w \in Workers : Served(toMgr[w], Append(toWkr[w], x), req[w], left[w])
      BY <1>1, <3>1, OtherToWorker
    <3>3. AllServed'
      BY <2>1, <2>3, <3>2 DEF AllServed
    <3> QED
      BY <1>3, <2>1, <3>3
  <2> QED
    BY <2>1, <2>2, <2>3 DEF Asking
<1>14. ASSUME ManagerQuits \/ ManagerExits PROVE AllServed' /\ RightKey'
  <2>1. UNCHANGED <<req, left>>
    BY <1>14 DEF ManagerQuits, ManagerExits, worker
  <2>2. ASSUME NEW w \in Workers
        PROVE  /\ \A i \in DOMAIN toMgr'[w] : i \in DOMAIN toMgr[w] /\ toMgr'[w][i] = toMgr[w][i]
               /\ \A i \in DOMAIN toWkr'[w] : i \in DOMAIN toWkr[w] /\ toWkr'[w][i] = toWkr[w][i]
    <3>1. CASE ManagerQuits
      <4>1. toWkr' = toWkr /\ DOMAIN toMgr'[w] = {}
        BY <3>1 DEF ManagerQuits
      <4> QED
        BY <4>1
    <3>2. CASE ManagerExits
      <4>1. toMgr' = toMgr
        BY <3>2 DEF ManagerExits
      <4> QED
        BY <1>1, <3>2, <4>1, Lost
    <3> QED
      BY <1>14, <3>1, <3>2
  <2>3. ASSUME NEW w \in Workers PROVE Served(toMgr'[w], toWkr'[w], req[w], left[w])
    <3>1. Served(toMgr[w], toWkr[w], req[w], left[w])
      BY <1>1
    <3> QED
      BY <2>2, <3>1, Fewer
  <2>4. AllServed'
    BY <2>1, <2>3 DEF AllServed
  <2> QED
    BY <1>3, <2>1, <2>4
<1>15. ASSUME NEW w \in Workers, NEW r \in Requests, NEW k \in Keys, EvalHit(w, r, k)
       PROVE  AllServed' /\ RightKey'
  BY <1>5, <1>15 DEF EvalHit, worker
<1>16. ASSUME NEW v \in Values, ReaperFrees(v) \/ Drain(v)
       PROVE  AllServed' /\ RightKey'
  BY <1>5, <1>16 DEF ReaperFrees, Drain, worker
<1>17. ASSUME NEW w \in Workers, Respawn(w) PROVE AllServed' /\ RightKey'
  BY <1>5, <1>17 DEF Respawn
<1>18. ASSUME UNCHANGED vars PROVE AllServed' /\ RightKey'
  <2>1. UNCHANGED <<toMgr, toWkr, req, left>>
    BY <1>18 DEF vars
  <2> QED
    BY <1>5, <2>1
<1>19. ASSUME NEW w \in Workers, WorkerHandles(w) \/ ManagerHandles(w)
       PROVE  AllServed' /\ RightKey'
  BY <1>8, <1>9, <1>10, <1>11, <1>12, <1>19 DEF WorkerHandles, ManagerHandles
<1> QED
  BY <1>6, <1>7, <1>13, <1>14, <1>15, <1>16, <1>17, <1>18, <1>19 DEF Next, Serves

LEMMA ServesAlways == Spec => []Serves
<1>1. Init => Serves
  BY ServesFirst
<1>2. IInv /\ Serves /\ [Next]_vars => Serves'
  BY ServesNext
<1> QED
  BY <1>1, <1>2, Invariance, PTL DEF Spec

(* Every answer resumes the request that asked, with a value of the key it *)
(* asked for, unless one was closed or died at its address while it waited.*)
THEOREM LimiterServes == Spec => []RightKey
<1>1. Serves => RightKey
  BY DEF Serves
<1> QED
  BY <1>1, ServesAlways, PTL

(* A worker dies in a callback of the limiter for one of three reasons:    *)
(* it is asked for a value and has none of this limiter, the manager had   *)
(* no memory, or the answer is to a request that was closed or died while  *)
(* it waited and whose address is that of another now.                     *)
THEOREM LimiterDeaths == Spec => DeathsExplained
<1> DEFINE Explained ==
      \A w \in up \ up' :
        LET m == Head(toWkr[w]) IN
          \/ m.type = "release" /\ HoldsNothing(w)
          \/ m.type = "response" /\ (m.val = NULL \/ m.req \in left[w])
<1>1. IInv /\ Serves /\ [Next]_vars => [Explained]_vars
  <2> SUFFICES ASSUME IInv, Serves, Next, NEW w \in up, w \notin up'
               PROVE  LET m == Head(toWkr[w]) IN
                        \/ m.type = "release" /\ HoldsNothing(w)
                        \/ m.type = "response" /\ (m.val = NULL \/ m.req \in left[w])
    OBVIOUS
  <2> PICK m : m = Head(toWkr[w])
    OBVIOUS
  <2>1. w \in Workers /\ toWkr[w] \in Seq(Message)
    BY DEF IInv, TypeOK
  <2>2. ResponseFails(w) \/ ReleaseFails(w)
    <3>1. ASSUME NEW u \in Workers, WorkerHandles(u) PROVE ResponseFails(w) \/ ReleaseFails(w)
      <4>1. CASE ResponseFails(u) \/ ReleaseFails(u)
        <5>1. up' = up \ {u}
          BY <4>1 DEF ResponseFails, ReleaseFails, Die
        <5> QED
          BY <4>1, <5>1
      <4>2. CASE ResponseResumes(u) \/ ResponseUntracked(u) \/ ReleaseHeld(u) \/ ReleaseNotHeld(u)
        BY <4>2 DEF ResponseResumes, ResponseUntracked, ReleaseHeld, ReleaseNotHeld, worker
      <4> QED
        BY <3>1, <4>1, <4>2 DEF WorkerHandles
    <3>2. ASSUME NEW u \in Workers, ManagerHandles(u) \/ Respawn(u) PROVE FALSE
      BY <3>2 DEF ManagerHandles, RequestFound, RequestCreates, RequestFails, Released, Respawn, worker
    <3>3. ASSUME NEW u \in Workers, NEW r \in Requests,
                 Close(u, r) \/ \E k \in Keys : EvalHit(u, r, k) \/ EvalMiss(u, r, k)
          PROVE  FALSE
      BY <3>3 DEF Close, EvalHit, EvalMiss, worker
    <3>4. ASSUME NEW v \in Values,
                 ReaperFrees(v) \/ ReaperAsks(v) \/ ReaperForces(v) \/ Drain(v)
          PROVE  FALSE
      BY <3>4 DEF ReaperFrees, ReaperAsks, ReaperForces, Drain, worker
    <3>5. ~ManagerQuits /\ ~ManagerExits
      BY DEF ManagerQuits, ManagerExits, worker
    <3> QED
      BY <3>1, <3>2, <3>3, <3>4, <3>5 DEF Next
  <2>3. CASE ResponseFails(w)
    <3>1. /\ toWkr[w] # <<>> /\ m.type = "response"
          /\ m.val = NULL \/ req[w][m.req].st = "done"
      BY <2>3 DEF ResponseFails, WorkerReceives
    <3>2. 1 \in DOMAIN toWkr[w] /\ m = toWkr[w][1]
      BY <2>1, <3>1, Shorter
    <3>3. m.req \in left[w] \/ req[w][m.req].st = "waiting"
      BY <2>1, <3>1, <3>2 DEF Serves, AllServed, Served, Answers, Concerns
    <3> QED
      BY <3>1, <3>3
  <2>4. CASE ReleaseFails(w)
    <3>1. /\ toWkr[w] # <<>> /\ m.type = "release"
          /\ HoldsNothing(w) \/ wtable[w][m.key].val \notin {NULL, m.val}
      BY <2>4 DEF ReleaseFails, WorkerReceives
    <3>2. 1 \in DOMAIN toWkr[w] /\ m = toWkr[w][1]
      BY <2>1, <3>1, Shorter
    <3>3. wtable[w][m.key].val \in {NULL, m.val}
      BY <2>1, <3>1, <3>2 DEF IInv, Asked
    <3> QED
      BY <3>1, <3>3
  <2> QED
    BY <2>2, <2>3, <2>4
<1>2. DeathsExplained <=> [][Explained]_vars
  BY DEF DeathsExplained
<1> HIDE DEF Explained
<1> QED
  BY <1>1, <1>2, Invariance, ServesAlways, PTL DEF Spec

=============================================================================
