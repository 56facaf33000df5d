----------------------------- MODULE NetIp_proofs -----------------------------
(***************************************************************************)
(* Proofs about net_ip, net_entity and worker, for any number of entities  *)
(* and threads and any application program.                                *)
(*                                                                         *)
(* CallInv relates what each thread is doing to m_mutex and to the run     *)
(* thread's queue; Lifecycle relates an entity's m_started to its state    *)
(* and to the calls on it that the run thread has not executed yet;        *)
(* StopAllInv is about a stop_all under way.                               *)
(***************************************************************************)
EXTENDS NetIp, TLAPS

-----------------------------------------------------------------------------
(* Threads, the mutex and the queue.                                       *)

EntityFns == {"start", "stop", "visit"}

\* what thread t at each step has called, and whether it holds m_mutex
Shape(t) ==
    /\ pc[t] \in {"idle", "join", "callback", "callback_done"} => op[t] = NoCall
    /\ pc[t] = "lock" =>
         \/ op[t].fn \in {"make", "remove"} /\ op[t].ent \in Ents
         \/ op[t].fn \in {"remove_all", "stop_all"} /\ op[t].ent = NoEnt
    /\ pc[t] \in {"post", "wait"} =>
         \/ op[t].fn \in EntityFns /\ op[t].ent \in Ents
         \/ op[t].fn = "stop_all" /\ op[t].ent = NoEnt /\ m_mutex = t /\ todo # <<>>
    /\ pc[t] = "next" => op[t] = [fn |-> "stop_all", ent |-> NoEnt] /\ m_mutex = t
    /\ m_mutex = t => op[t].fn = "stop_all" /\ pc[t] \in {"next", "post", "wait"}
    /\ t # Run => pc[t] \notin {"callback", "callback_done"}
    /\ t = Run => pc[t] \notin {"next", "join"} /\ m_mutex # t

CallShape == \A t \in Threads : Shape(t)

\* what thread t has posted
PostedFn(t) == IF op[t].fn = "stop_all" THEN "stop" ELSE op[t].fn
PostedEnt(t) == IF op[t].fn = "stop_all" THEN Head(todo) ELSE op[t].ent

Places == 1..Len(execq)

\* the threads that wait are those that have a function in the queue
QueueOfWaiting ==
    /\ \A i \in Places :
         /\ pc[execq[i].by] = "wait"
         /\ execq[i].fn = PostedFn(execq[i].by) /\ execq[i].ent = PostedEnt(execq[i].by)
         /\ \A j \in Places : execq[j].by = execq[i].by => j = i
    /\ \A t \in Threads : pc[t] = "wait" => \E i \in Places : execq[i].by = t

\* the head has been executed, its caller not yet answered
Executed ==
    in_posted =>
      /\ execq # <<>> /\ pc[Run] # "idle"
      /\ execq[1].fn = "stop" => state[execq[1].ent] # "open"
      /\ execq[1].fn = "start" => state[execq[1].ent] \notin {"none", "new"}

QueueShape == QueueOfWaiting /\ Executed

CallInv == CallShape /\ QueueShape

-----------------------------------------------------------------------------
(* An entity.                                                              *)

\* the run thread has not yet executed what t posts
Unserved(t) == pc[t] = "post" \/ (pc[t] = "wait" /\ ~(in_posted /\ execq[1].by = t))

InStart(t, e) == pc[t] \in {"post", "wait"} /\ PostedFn(t) = "start" /\ PostedEnt(t) = e
InStop(t, e) == pc[t] \in {"post", "wait"} /\ PostedFn(t) = "stop" /\ PostedEnt(t) = e

PendingStart(t, e) == Unserved(t) /\ InStart(t, e)
PendingStop(t, e) == Unserved(t) /\ InStop(t, e)

StartPending(e) == \E t \in Threads : PendingStart(t, e)
StopPending(e) == \E t \in Threads : PendingStop(t, e)

\* m_started runs ahead of the entity's state by the calls under way
Ahead(e) ==
    /\ m_started[e] = 0 => state[e] \in {"none", "new"}
    /\ state[e] = "none" => m_started[e] = 0
    /\ m_started[e] = 1 =>
         \/ state[e] = "open" \/ StartPending(e)
         \/ e \in Connectors /\ state[e] \notin {"none", "new"}
    /\ state[e] = "open" => m_started[e] = 1 \/ (m_started[e] = 2 /\ StopPending(e))
    /\ StartPending(e) /\ m_started[e] = 2 => StopPending(e)

\* a start is pending only on an entity that never ran, and only once
StartOnce(t, e) ==
    PendingStart(t, e) =>
      /\ state[e] = "new" /\ m_started[e] # 0
      /\ pc[t] = "post" => m_started[e] = 1
      /\ \A u \in Threads : PendingStart(u, e) => u = t

Lifecycle ==
    /\ \A e \in Ents : Ahead(e)
    /\ \A e \in Ents, t \in Threads : StartOnce(t, e)
    /\ \A e \in Ents, t \in Threads : InStop(t, e) => m_started[e] = 2

\* an entity's start is executed before its stop
StartBeforeStop ==
    \A i, j \in Places :
        execq[i].fn = "start" /\ execq[j].fn = "stop" /\ execq[i].ent = execq[j].ent => i < j

-----------------------------------------------------------------------------
(* stop_all.                                                               *)

StopAllInv ==
    /\ m_mutex = NoOne => stopping = {}
    /\ \A e \in stopping : state[e] \notin {"none", "new"}
    /\ StopAllStops

Inv == TypeOK /\ CallInv /\ Lifecycle /\ StartBeforeStop /\ StopAllInv

-----------------------------------------------------------------------------
(* Lemmas about the containers and the queue.                              *)

LEMMA ErasedType ==
    ASSUME NEW S, NEW s \in Seq(S), NEW e
    PROVE  Erased(s, e) \in Seq(S)
<1>1. CASE e \in Range(s)
  <2>1. \E i \in 1..Len(s) : s[i] = e
    BY <1>1 DEF Range
  <2> DEFINE i == CHOOSE i \in 1..Len(s) : s[i] = e
  <2>2. i \in 1..Len(s)
    BY <2>1
  <2>3. Erased(s, e) = SubSeq(s, 1, i - 1) \o SubSeq(s, i + 1, Len(s))
    BY <1>1 DEF Erased
  <2> HIDE DEF i
  <2>4. SubSeq(s, 1, i - 1) \in Seq(S) /\ SubSeq(s, i + 1, Len(s)) \in Seq(S)
    BY <2>2
  <2> QED
    BY <2>3, <2>4
<1>2. CASE e \notin Range(s)
  BY <1>2 DEF Erased
<1> QED
  BY <1>1, <1>2

Entries == [fn : EntityFns, ent : Ents, by : Threads]

LEMMA Posting ==
    ASSUME NEW q \in Seq(Entries), NEW e \in Entries
    PROVE  /\ Append(q, e) \in Seq(Entries)
           /\ Len(Append(q, e)) = Len(q) + 1
           /\ \A i \in 1..Len(q) : Append(q, e)[i] = q[i]
           /\ Append(q, e)[Len(q) + 1] = e
           /\ \A i \in 1..Len(Append(q, e)) :
                \/ i \in 1..Len(q) /\ Append(q, e)[i] = q[i]
                \/ i = Len(q) + 1 /\ Append(q, e)[i] = e
  OBVIOUS

LEMMA Taking ==
    ASSUME NEW q \in Seq(Entries), q # <<>>
    PROVE  /\ Tail(q) \in Seq(Entries)
           /\ Len(q) \in Nat \ {0} /\ Len(Tail(q)) = Len(q) - 1
           /\ \A i \in 1..(Len(q) - 1) : Tail(q)[i] = q[i + 1]
           /\ Head(q) = q[1] /\ q[1] \in Entries
  OBVIOUS

LEMMA RangeOfTail ==
    ASSUME NEW S, NEW s \in Seq(S), s # <<>>
    PROVE  Head(s) \in S /\ Range(s) = {Head(s)} \cup Range(Tail(s))
<1>1. /\ Len(s) \in Nat \ {0} /\ Head(s) = s[1] /\ s[1] \in S
      /\ DOMAIN s = 1..Len(s) /\ DOMAIN Tail(s) = 1..(Len(s) - 1)
      /\ \A i \in 1..(Len(s) - 1) : Tail(s)[i] = s[i + 1]
  OBVIOUS
<1>2. ASSUME NEW x \in Range(s), x # Head(s) PROVE x \in Range(Tail(s))
  <2>1. PICK i \in 1..Len(s) : s[i] = x
    BY <1>1 DEF Range
  <2>2. i - 1 \in 1..(Len(s) - 1) /\ Tail(s)[i - 1] = x
    BY <1>1, <1>2, <2>1
  <2> QED
    BY <1>1, <2>2 DEF Range
<1>3. ASSUME NEW x \in Range(Tail(s)) PROVE x \in Range(s)
  <2>1. PICK i \in 1..(Len(s) - 1) : Tail(s)[i] = x
    BY <1>1 DEF Range
  <2>2. i + 1 \in 1..Len(s) /\ s[i + 1] = x
    BY <1>1, <2>1
  <2> QED
    BY <1>1, <2>2 DEF Range
<1>4. Head(s) \in Range(s)
  BY <1>1 DEF Range
<1> QED
  BY <1>1, <1>2, <1>3, <1>4

LEMMA RangeOfBoth ==
    ASSUME NEW S, NEW r \in Seq(S), NEW s \in Seq(S)
    PROVE  r \o s \in Seq(S) /\ Range(r \o s) = Range(r) \cup Range(s)
<1>1. /\ r \o s \in Seq(S) /\ Len(r) \in Nat /\ Len(s) \in Nat
      /\ DOMAIN r = 1..Len(r) /\ DOMAIN s = 1..Len(s)
      /\ DOMAIN (r \o s) = 1..(Len(r) + Len(s))
      /\ \A i \in 1..Len(r) : (r \o s)[i] = r[i]
      /\ \A i \in 1..Len(s) : (r \o s)[Len(r) + i] = s[i]
  OBVIOUS
<1> DEFINE m == Len(r)
           n == Len(s)
           rs == r \o s
<1>2. ASSUME NEW x \in Range(rs) PROVE x \in Range(r) \cup Range(s)
  <2>1. PICK i \in 1..(m + n) : rs[i] = x
    BY <1>1 DEF Range
  <2>2. CASE i \in 1..m
    BY <1>1, <2>1, <2>2 DEF Range
  <2>3. CASE i \notin 1..m
    <3>1. i - m \in 1..n /\ m + (i - m) = i
      BY <1>1, <2>1, <2>3
    <3>2. s[i - m] = x
      BY <1>1, <2>1, <3>1
    <3> QED
      BY <1>1, <3>1, <3>2 DEF Range
  <2> QED
    BY <2>2, <2>3
<1>3. ASSUME NEW x \in Range(r) PROVE x \in Range(rs)
  <2>1. PICK i \in 1..m : r[i] = x
    BY <1>1 DEF Range
  <2>2. i \in 1..(m + n) /\ rs[i] = x
    BY <1>1, <2>1
  <2> QED
    BY <1>1, <2>2 DEF Range
<1>4. ASSUME NEW x \in Range(s) PROVE x \in Range(rs)
  <2>1. PICK i \in 1..n : s[i] = x
    BY <1>1 DEF Range
  <2>2. m + i \in 1..(m + n) /\ rs[m + i] = x
    BY <1>1, <2>1
  <2> QED
    BY <1>1, <2>2 DEF Range
<1> QED
  BY <1>1, <1>2, <1>3, <1>4

LEMMA RangeOfThree ==
    ASSUME NEW S, NEW q \in Seq(S), NEW r \in Seq(S), NEW s \in Seq(S)
    PROVE  Range(q \o r \o s) = Range(q) \cup Range(r) \cup Range(s)
<1>1. q \o r \in Seq(S) /\ Range(q \o r) = Range(q) \cup Range(r)
  BY RangeOfBoth
<1> DEFINE p == q \o r
<1>2. p \in Seq(S) /\ Range(p) = Range(q) \cup Range(r)
  BY <1>1
<1> HIDE DEF p
<1>3. Range(p \o s) = Range(p) \cup Range(s)
  BY <1>2, RangeOfBoth
<1> QED
  BY <1>2, <1>3 DEF p

\* What a thread that is about to post posts.
LEMMA PostedEntry ==
    ASSUME TypeOK, CallShape, NEW t \in Threads, pc[t] \in {"post", "wait"}
    PROVE  /\ PostedFn(t) \in EntityFns /\ PostedEnt(t) \in Ents
           /\ [fn |-> PostedFn(t), ent |-> PostedEnt(t), by |-> t] \in Entries
<1>1. CASE op[t].fn \in EntityFns
  BY <1>1 DEF TypeOK, CallShape, Shape, PostedFn, PostedEnt, EntityFns, Entries
<1>2. CASE op[t].fn = "stop_all"
  <2>1. todo \in Seq(Ents) /\ todo # <<>>
    BY <1>2 DEF TypeOK, CallShape, Shape, EntityFns
  <2>2. Head(todo) \in Ents
    BY <2>1
  <2> QED
    BY <1>2, <2>2 DEF PostedFn, PostedEnt, EntityFns, Entries
<1> QED
  BY <1>1, <1>2 DEF CallShape, Shape

Ops == [fn : Fns \cup {"none"}, ent : Ents \cup {NoEnt}]
Steps == {"idle", "lock", "post", "wait", "next", "join", "callback", "callback_done"}
States == {"none", "new", "open", "closing", "closed"}

LEMMA Update ==
    ASSUME NEW T, NEW S, NEW f \in [T -> S], NEW t, NEW c \in S
    PROVE  [f EXCEPT ![t] = c] \in [T -> S]
  OBVIOUS

\* A thread whose call has returned.
LEMMA Idling ==
    ASSUME NEW f \in [Threads -> Ops], NEW t
    PROVE  [f EXCEPT ![t] = NoCall] \in [Threads -> Ops]
<1>1. NoCall \in Ops
  BY DEF NoCall, Ops
<1> QED
  BY <1>1, Update

-----------------------------------------------------------------------------
(* Types.                                                                  *)

LEMMA TypeStep ==
    ASSUME Inv, Next
    PROVE  TypeOK'
<1> USE NetIpAssumption
<1>0. /\ TypeOK /\ CallShape /\ QueueShape /\ execq \in Seq(Entries)
      /\ op \in [Threads -> Ops] /\ m_started \in [Ents -> 0..2]
      /\ state \in [Ents -> States] /\ pc \in [Threads -> Steps]
  BY DEF Inv, CallInv, TypeOK, Entries, EntityFns, Ops, States, Steps
<1>1. ASSUME NEW t \in Threads, CallLocked(t) PROVE TypeOK'
  <2>1. PICK fn \in {"make", "remove", "remove_all", "stop_all"}, e \in Ents \cup {NoEnt} :
          /\ fn = "make" => e # NoEnt
          /\ state' = state \/ state' = [state EXCEPT ![e] = "new"]
          /\ op' = [op EXCEPT ![t] = [fn |-> fn, ent |-> e]]
    BY <1>1 DEF CallLocked
  <2>2. /\ pc' = [pc EXCEPT ![t] = "lock"]
        /\ UNCHANGED <<m_mutex, m_udp_entities, m_connectors, m_acceptors, m_started, execq>>
        /\ UNCHANGED <<in_posted, todo, worker, stopping>>
    BY <1>1 DEF CallLocked, Goto, containers
  <2>3. state' \in [Ents -> {"none", "new", "open", "closing", "closed"}]
    BY <1>0, <2>1 DEF TypeOK
  <2>4. op' \in [Threads -> [fn : Fns \cup {"none"}, ent : Ents \cup {NoEnt}]]
    BY <1>0, <2>1 DEF TypeOK, Fns
  <2> QED
    BY <1>0, <2>2, <2>3, <2>4 DEF TypeOK
<1>2. ASSUME NEW t \in Threads, NEW e \in Ents, CallStart(t, e) \/ CallStop(t, e) \/ CallVisit(t, e)
      PROVE  TypeOK'
  <2>1. /\ \/ m_started' = m_started
           \/ m_started' = [m_started EXCEPT ![e] = 1]
           \/ m_started' = [m_started EXCEPT ![e] = 2]
        /\ \E fn \in EntityFns : CallEntity(t, fn, e)
    BY <1>2 DEF CallStart, CallStop, CallVisit, EntityFns
  <2>2. PICK fn \in EntityFns : CallEntity(t, fn, e)
    BY <2>1
  <2>3. op' \in [Threads -> [fn : Fns \cup {"none"}, ent : Ents \cup {NoEnt}]]
    BY <1>0, <2>2 DEF TypeOK, Fns, EntityFns, CallEntity
  <2>4. m_started' \in [Ents -> 0..2]
    BY <1>0, <2>1
  <2>5. /\ pc' = [pc EXCEPT ![t] = "post"]
        /\ UNCHANGED <<m_mutex, m_udp_entities, m_connectors, m_acceptors, state, execq>>
        /\ UNCHANGED <<in_posted, todo, worker, stopping>>
    BY <2>2 DEF CallEntity, Goto, containers
  <2> QED
    BY <1>0, <2>3, <2>4, <2>5 DEF TypeOK
<1>3. ASSUME NEW t \in Threads, LockedStep(t) PROVE TypeOK'
  <2>1. /\ op' = [op EXCEPT ![t] = NoCall]
        /\ pc' = [pc EXCEPT ![t] = Returned(t)]
        /\ UNCHANGED <<m_mutex, m_started, state, execq, in_posted, todo, worker, stopping>>
    BY <1>3 DEF LockedStep, MakeUdp, MakeConnector, MakeAcceptor, Remove, RemoveAll, EndLocked,
       Goto, ents
  <2>2. /\ m_udp_entities' \in Seq(Udps) /\ m_connectors' \in Seq(Connectors)
        /\ m_acceptors' \in Seq(Acceptors)
    <3>0. /\ m_udp_entities \in Seq(Udps) /\ m_connectors \in Seq(Connectors)
          /\ m_acceptors \in Seq(Acceptors)
      BY <1>0 DEF TypeOK
    <3>1. CASE MakeUdp(t) \/ MakeConnector(t) \/ MakeAcceptor(t)
      <4>1. CASE MakeUdp(t)
        BY <3>0, <4>1 DEF MakeUdp
      <4>2. CASE MakeConnector(t)
        BY <3>0, <4>2 DEF MakeConnector
      <4>3. CASE MakeAcceptor(t)
        BY <3>0, <4>3 DEF MakeAcceptor
      <4> QED
        BY <3>1, <4>1, <4>2, <4>3
    <3>2. CASE Remove(t)
      BY <1>0, <3>2, ErasedType DEF Remove, TypeOK
    <3>3. CASE RemoveAll(t)
      BY <3>3 DEF RemoveAll
    <3> QED
      BY <1>3, <3>1, <3>2, <3>3 DEF LockedStep
  <2>3. op' \in [Threads -> Ops]
    BY <1>0, <2>1, Idling
  <2> QED
    BY <1>0, <2>1, <2>2, <2>3 DEF TypeOK, Returned, Ops
<1>4. ASSUME NEW t \in Threads, Post(t) PROVE TypeOK'
  <2>1. execq' = Append(execq, [fn |-> PostedFn(t), ent |-> PostedEnt(t), by |-> t])
    BY <1>4 DEF Post, PostedFn, PostedEnt
  <2>2. execq' \in Seq(Entries)
    BY <1>0, <1>4, <2>1, PostedEntry, Posting DEF Post
  <2> QED
    BY <1>0, <1>4, <2>2 DEF Post, Goto, containers, ents, TypeOK, Entries, EntityFns
<1>5. ASSUME NEW t \in Threads, StopAll(t) PROVE TypeOK'
  <2>1. /\ todo' = m_udp_entities \o m_connectors \o m_acceptors
        /\ stopping' \subseteq Contained
    BY <1>5 DEF StopAll
  <2>2. /\ m_udp_entities \in Seq(Ents) /\ m_connectors \in Seq(Ents)
        /\ m_acceptors \in Seq(Ents)
    BY <1>0 DEF TypeOK, Ents
  <2>3. todo' \in Seq(Ents) /\ Contained \subseteq Ents
    BY <2>1, <2>2 DEF Contained, Range
  <2> QED
    BY <1>0, <1>5, <2>1, <2>3 DEF StopAll, Goto, containers, ents, TypeOK
<1>6. ASSUME NEW t \in Threads, StopAllNext(t) PROVE TypeOK'
  <2>1. /\ todo # <<>> /\ (todo' = todo \/ todo' = Tail(todo))
        /\ m_started' = m_started \/ m_started' = [m_started EXCEPT ![Head(todo)] = 2]
        /\ pc' = pc \/ pc' = [pc EXCEPT ![t] = "post"]
        /\ UNCHANGED <<m_mutex, m_udp_entities, m_connectors, m_acceptors, state, execq>>
        /\ UNCHANGED <<in_posted, op, worker, stopping>>
    BY <1>6 DEF StopAllNext, Goto, containers
  <2>2. todo' \in Seq(Ents)
    <3>1. todo \in Seq(Ents)
      BY <1>0 DEF TypeOK
    <3> QED
      BY <2>1, <3>1
  <2>3. m_started' \in [Ents -> 0..2]
    BY <1>0, <2>1
  <2>4. pc' \in [Threads -> Steps]
    BY <1>0, <2>1 DEF Steps
  <2> QED
    BY <1>0, <2>1, <2>2, <2>3, <2>4 DEF TypeOK, Steps
<1>7. ASSUME NEW t \in Threads, StopAllEnds(t) PROVE TypeOK'
  <2>1. op' \in [Threads -> Ops]
    BY <1>0, <1>7, Idling DEF StopAllEnds
  <2> QED
    BY <1>0, <1>7, <2>1 DEF StopAllEnds, Goto, Returned, containers, ents, TypeOK, Ops
<1>8. CASE Execute
  <2>1. execq[1] \in Entries /\ Head(execq) = execq[1]
    BY <1>0, <1>8, Taking DEF Execute
  <2> DEFINE e == execq[1].ent
  <2>2. /\ \/ state' = state
           \/ state' = [state EXCEPT ![e] = "open"]
           \/ state' = [state EXCEPT ![e] = "closed"]
           \/ state' = [state EXCEPT ![e] = "closing"]
        /\ m_started' = m_started \/ m_started' = [m_started EXCEPT ![e] = 2]
    <3>1. state = [state EXCEPT ![e] = @]
      BY <1>0 DEF TypeOK
    <3> QED
      BY <1>8, <2>1, <3>1 DEF Execute, ents
  <2>3. in_posted' \in BOOLEAN
    BY <1>8, Zenon DEF Execute
  <2>4. /\ pc' = [pc EXCEPT ![Run] = "callback"]
        /\ UNCHANGED <<m_mutex, m_udp_entities, m_connectors, m_acceptors, execq>>
        /\ UNCHANGED <<op, todo, worker, stopping>>
    BY <1>8 DEF Execute, Goto, containers
  <2>5. state' \in [Ents -> States]
    BY <1>0, <2>2 DEF States
  <2>6. m_started' \in [Ents -> 0..2]
    BY <1>0, <2>2
  <2> QED
    BY <1>0, <2>3, <2>4, <2>5, <2>6 DEF TypeOK, States
<1>9. CASE EndHandler
  <2>1. in_posted' \in BOOLEAN
    BY <1>9, Zenon DEF EndHandler
  <2>2. /\ UNCHANGED <<m_mutex, m_udp_entities, m_connectors, m_acceptors, m_started, state>>
        /\ UNCHANGED <<todo, worker, stopping>>
    BY <1>9 DEF EndHandler, containers, ents
  <2>3. CASE in_posted
    <3>1. execq # <<>>
      BY <1>0, <2>3 DEF QueueShape, Executed, QueueOfWaiting
    <3>2. execq[1] \in Entries /\ Head(execq) = execq[1] /\ Tail(execq) \in Seq(Entries)
      BY <1>0, <3>1, Taking
    <3> DEFINE t == execq[1].by
    <3>3. /\ execq' = Tail(execq)
          /\ pc' = [pc EXCEPT ![Run] = "idle",
                              ![t] = IF op[t].fn = "stop_all" THEN "next" ELSE "idle"]
          /\ op' = op \/ op' = [op EXCEPT ![t] = NoCall]
      BY <1>9, <2>3, <3>2 DEF EndHandler
    <3>4. op' \in [Threads -> Ops]
      BY <1>0, <3>3, Idling
    <3>5. pc' \in [Threads -> {"idle", "lock", "post", "wait", "next", "join",
                               "callback", "callback_done"}]
      BY <1>0, <3>3 DEF TypeOK
    <3> QED
      BY <1>0, <2>1, <2>2, <3>2, <3>3, <3>4, <3>5 DEF TypeOK, Entries, EntityFns, Ops
  <2>4. CASE ~in_posted
    <3>1. pc' = [pc EXCEPT ![Run] = "idle"] /\ UNCHANGED <<execq, op>>
      BY <1>9, <2>4 DEF EndHandler, Goto
    <3> QED
      BY <1>0, <2>1, <2>2, <3>1 DEF TypeOK
  <2> QED
    BY <2>3, <2>4
<1>10. CASE RunReturns \/ WorkerStart \/ WorkerStop \/ WorkerReset \/ Joined
  BY <1>0, <1>10 DEF RunReturns, WorkerStart, WorkerStop, WorkerReset, Joined, WorkerStep, Goto,
     containers, ents, TypeOK
<1>11. ASSUME NEW e \in Ents, Drained(e) \/ Handler(e) PROVE TypeOK'
  <2>1. /\ \/ state' = state
           \/ state' = [state EXCEPT ![e] = "closed"]
           \/ state' = [state EXCEPT ![e] = "closing"]
        /\ m_started' = m_started \/ m_started' = [m_started EXCEPT ![e] = 2]
        /\ pc' = pc \/ pc' = [pc EXCEPT ![Run] = "callback"]
        /\ UNCHANGED <<m_mutex, m_udp_entities, m_connectors, m_acceptors, execq, in_posted>>
        /\ UNCHANGED <<op, todo, worker, stopping>>
    BY <1>11 DEF Drained, Handler, Goto, containers, ents
  <2>2. state' \in [Ents -> States]
    BY <1>0, <2>1 DEF States
  <2>3. m_started' \in [Ents -> 0..2]
    BY <1>0, <2>1
  <2>4. pc' \in [Threads -> Steps]
    BY <1>0, <2>1 DEF Steps
  <2> QED
    BY <1>0, <2>1, <2>2, <2>3, <2>4 DEF TypeOK, Steps, States
<1> QED
  BY <1>1, <1>2, <1>3, <1>4, <1>5, <1>6, <1>7, <1>8, <1>9, <1>10, <1>11
     DEF Next, Call, RunStep, StopAllStep, Threads

-----------------------------------------------------------------------------
(* Threads and the mutex.                                                  *)

\* A thread is not disturbed by what others do to m_mutex and todo.
LEMMA ShapeKept ==
    ASSUME NEW u, Shape(u), pc'[u] = pc[u], op'[u] = op[u],
           m_mutex' = u <=> m_mutex = u, m_mutex = u => todo' = todo
    PROVE  Shape(u)'
  BY DEF Shape

LEMMA CallShapeStep ==
    ASSUME Inv, Next
    PROVE  CallShape'
<1> USE NetIpAssumption
<1>0. /\ \A u \in Threads : Shape(u)
      /\ QueueShape /\ execq \in Seq(Entries)
      /\ op \in [Threads -> Ops] /\ pc \in [Threads -> Steps] /\ todo \in Seq(Ents)
      /\ Main \in Threads /\ Run \in Threads /\ Main # Run /\ NoOne \notin Threads
      /\ AppThreads \subseteq Threads /\ Run \notin AppThreads
  BY DEF Inv, CallInv, CallShape, TypeOK, Entries, EntityFns, Ops, Steps, Threads
<1>1. ASSUME NEW t \in Threads, CallLocked(t) PROVE CallShape'
  <2>1. PICK fn \in {"make", "remove", "remove_all", "stop_all"}, e \in Ents \cup {NoEnt} :
          /\ pc[t] \in {"idle", "callback"}
          /\ fn \in {"make", "remove"} <=> e # NoEnt
          /\ op' = [op EXCEPT ![t] = [fn |-> fn, ent |-> e]]
    BY <1>1 DEF CallLocked, MayCall
  <2>2. pc' = [pc EXCEPT ![t] = "lock"] /\ UNCHANGED <<m_mutex, todo>>
    BY <1>1 DEF CallLocked, Goto
  <2>3. Shape(t)'
    <3>1. Shape(t) /\ m_mutex # t
      BY <1>0, <2>1 DEF Shape
    <3>2. op'[t] = [fn |-> fn, ent |-> e] /\ pc'[t] = "lock"
      BY <1>0, <2>1, <2>2
    <3> QED
      BY <2>1, <2>2, <3>1, <3>2 DEF Shape
  <2>4. ASSUME NEW u \in Threads, u # t PROVE Shape(u)'
    BY <1>0, <2>1, <2>2, <2>4, ShapeKept
  <2> QED
    BY <1>0, <2>3, <2>4 DEF CallShape
<1>2. ASSUME NEW t \in Threads, NEW e \in Ents, CallStart(t, e) \/ CallStop(t, e) \/ CallVisit(t, e)
      PROVE  CallShape'
  <2>1. PICK fn \in EntityFns : CallEntity(t, fn, e)
    BY <1>2 DEF CallStart, CallStop, CallVisit, EntityFns
  <2>2. /\ pc' = [pc EXCEPT ![t] = "post"] /\ UNCHANGED <<m_mutex, todo>>
        /\ op' = [op EXCEPT ![t] = [fn |-> fn, ent |-> e]]
        /\ pc[t] \in {"idle", "callback"}
    BY <2>1 DEF CallEntity, MayCall, Goto
  <2>3. Shape(t)'
    <3>1. Shape(t) /\ m_mutex # t
      BY <1>0, <2>2 DEF Shape
    <3>2. op'[t] = [fn |-> fn, ent |-> e] /\ pc'[t] = "post"
      BY <1>0, <2>2
    <3> QED
      BY <2>2, <3>1, <3>2 DEF Shape
  <2>4. ASSUME NEW u \in Threads, u # t PROVE Shape(u)'
    BY <1>0, <2>2, <2>4, ShapeKept
  <2> QED
    BY <1>0, <2>3, <2>4 DEF CallShape
<1>3. ASSUME NEW t \in Threads, LockedStep(t) PROVE CallShape'
  <2>1. /\ op' = [op EXCEPT ![t] = NoCall] /\ pc' = [pc EXCEPT ![t] = Returned(t)]
        /\ UNCHANGED <<m_mutex, todo>> /\ m_mutex = NoOne
    BY <1>3 DEF LockedStep, MakeUdp, MakeConnector, MakeAcceptor, Remove, RemoveAll, EndLocked,
       Goto, Locks
  <2>2. Shape(t)'
    <3>1. op'[t] = NoCall /\ pc'[t] = IF t = Run THEN "callback_done" ELSE "idle"
      BY <1>0, <2>1 DEF Returned
    <3>2. NoCall.fn = "none"
      BY DEF NoCall
    <3> QED
      BY <1>0, <2>1, <3>1, <3>2 DEF Shape
  <2>3. ASSUME NEW u \in Threads, u # t PROVE Shape(u)'
    BY <1>0, <2>1, <2>3, ShapeKept
  <2> QED
    BY <1>0, <2>2, <2>3 DEF CallShape
<1>4. ASSUME NEW t \in Threads, Post(t) PROVE CallShape'
  <2>1. pc[t] = "post" /\ pc' = [pc EXCEPT ![t] = "wait"] /\ UNCHANGED <<m_mutex, todo, op>>
    BY <1>4 DEF Post, Goto
  <2>2. Shape(t)'
    <3>1. Shape(t) /\ pc'[t] = "wait"
      BY <1>0, <2>1
    <3> QED
      BY <2>1, <3>1 DEF Shape
  <2>3. ASSUME NEW u \in Threads, u # t PROVE Shape(u)'
    BY <1>0, <2>1, <2>3, ShapeKept
  <2> QED
    BY <1>0, <2>2, <2>3 DEF CallShape
<1>5. ASSUME NEW t \in AppThreads, StopAll(t) PROVE CallShape'
  <2>1. /\ pc[t] = "lock" /\ op[t].fn = "stop_all" /\ m_mutex = NoOne /\ m_mutex' = t
        /\ pc' = [pc EXCEPT ![t] = "next"] /\ op' = op
    BY <1>5 DEF StopAll, Goto, Locks
  <2>2. Shape(t)'
    <3>1. Shape(t) /\ pc'[t] = "next" /\ t # Run /\ op[t] \in Ops
      BY <1>0, <2>1
    <3>2. op[t].ent = NoEnt
      BY <2>1, <3>1 DEF Shape
    <3>3. op[t] = [fn |-> "stop_all", ent |-> NoEnt]
      BY <2>1, <3>1, <3>2 DEF Ops
    <3> QED
      BY <2>1, <3>1, <3>3 DEF Shape
  <2>3. ASSUME NEW u \in Threads, u # t PROVE Shape(u)'
    BY <1>0, <2>1, <2>3, ShapeKept
  <2> QED
    BY <1>0, <2>2, <2>3 DEF CallShape
<1>6. ASSUME NEW t \in AppThreads, StopAllNext(t) PROVE CallShape'
  <2>1. /\ pc[t] = "next" /\ todo # <<>> /\ UNCHANGED <<m_mutex, op>>
        /\ \/ pc' = [pc EXCEPT ![t] = "post"] /\ todo' = todo
           \/ pc' = pc
    BY <1>6 DEF StopAllNext, Goto
  <2>2. m_mutex = t /\ Shape(t) /\ t # Run
    BY <1>0, <2>1 DEF Shape
  <2>3. Shape(t)'
    <3>1. CASE pc' = pc
      BY <2>1, <2>2, <3>1 DEF Shape
    <3>2. CASE pc' = [pc EXCEPT ![t] = "post"] /\ todo' = todo
      <4>1. pc'[t] = "post"
        BY <1>0, <3>2
      <4> QED
        BY <2>1, <2>2, <3>2, <4>1 DEF Shape
    <3> QED
      BY <2>1, <3>1, <3>2
  <2>4. ASSUME NEW u \in Threads, u # t PROVE Shape(u)'
    BY <1>0, <2>1, <2>2, <2>4, ShapeKept
  <2> QED
    BY <1>0, <2>3, <2>4 DEF CallShape
<1>7. ASSUME NEW t \in AppThreads, StopAllEnds(t) PROVE CallShape'
  <2>1. /\ pc[t] = "next" /\ m_mutex' = NoOne /\ todo' = todo
        /\ op' = [op EXCEPT ![t] = NoCall] /\ pc' = [pc EXCEPT ![t] = Returned(t)]
    BY <1>7 DEF StopAllEnds, Goto
  <2>2. m_mutex = t /\ t # Run /\ t # NoOne
    BY <1>0, <2>1 DEF Shape
  <2>3. Shape(t)'
    <3>1. op'[t] = NoCall /\ pc'[t] = "idle"
      BY <1>0, <2>1, <2>2 DEF Returned
    <3>2. NoCall.fn = "none"
      BY DEF NoCall
    <3> QED
      BY <2>1, <2>2, <3>1, <3>2 DEF Shape
  <2>4. ASSUME NEW u \in Threads, u # t PROVE Shape(u)'
    BY <1>0, <2>1, <2>2, <2>4, ShapeKept
  <2> QED
    BY <1>0, <2>3, <2>4 DEF CallShape
<1>8. ASSUME pc[Run] = "idle", pc' \in {pc, [pc EXCEPT ![Run] = "callback"]},
             UNCHANGED <<m_mutex, op, todo>>
      PROVE  CallShape'
  <2>1. Shape(Run)'
    <3>1. Shape(Run) /\ (pc'[Run] = "idle" \/ pc'[Run] = "callback")
      BY <1>0, <1>8
    <3> QED
      BY <1>8, <3>1 DEF Shape
  <2>2. ASSUME NEW u \in Threads, u # Run PROVE Shape(u)'
    <3>1. pc'[u] = pc[u]
      BY <1>0, <1>8, <2>2
    <3> QED
      BY <1>0, <1>8, <3>1, ShapeKept
  <2> QED
    BY <1>0, <2>1, <2>2 DEF CallShape
<1>9. CASE EndHandler
  <2>1. pc[Run] \in {"callback", "callback_done"} /\ UNCHANGED <<m_mutex, todo>>
    BY <1>9 DEF EndHandler
  <2>2. m_mutex # Run /\ op[Run] = NoCall /\ NoCall.fn = "none"
    BY <1>0, <2>1 DEF Shape, NoCall
  <2>3. CASE in_posted
    <3>1. execq # <<>>
      BY <1>0, <2>3 DEF QueueShape, Executed, QueueOfWaiting
    <3>2. execq[1] \in Entries /\ Head(execq) = execq[1] /\ 1 \in Places
      BY <1>0, <3>1, Taking DEF Places
    <3>3. PICK t \in Threads : t = execq[1].by /\ pc[t] = "wait" /\ t # Run
      BY <1>0, <2>1, <3>2 DEF QueueShape, QueueOfWaiting, Entries
    <3>4. /\ pc' = [pc EXCEPT ![Run] = "idle",
                              ![t] = IF op[t].fn = "stop_all" THEN "next" ELSE "idle"]
          /\ op' = IF op[t].fn = "stop_all" THEN op ELSE [op EXCEPT ![t] = NoCall]
      BY <1>9, <2>3, <3>2, <3>3 DEF EndHandler
    <3>5. /\ pc'[Run] = "idle" /\ op'[Run] = op[Run]
          /\ pc'[t] = IF op[t].fn = "stop_all" THEN "next" ELSE "idle"
          /\ op'[t] = IF op[t].fn = "stop_all" THEN op[t] ELSE NoCall
          /\ \A u \in Threads : u # Run /\ u # t => pc'[u] = pc[u] /\ op'[u] = op[u]
      BY <1>0, <3>3, <3>4
    <3>6. Shape(Run)'
      BY <2>1, <2>2, <3>5 DEF Shape
    <3>7. Shape(t)'
      <4>1. Shape(t) /\ op[t] \in Ops
        BY <1>0, <3>3
      <4>2. CASE op[t].fn = "stop_all"
        <5>1. op[t].ent = NoEnt /\ m_mutex = t
          BY <3>3, <4>1, <4>2 DEF Shape, EntityFns
        <5>2. op[t] = [fn |-> "stop_all", ent |-> NoEnt]
          BY <4>1, <4>2, <5>1 DEF Ops
        <5> QED
          BY <2>1, <3>3, <3>5, <4>1, <4>2, <5>1, <5>2 DEF Shape
      <4>3. CASE op[t].fn # "stop_all"
        BY <2>1, <2>2, <3>3, <3>5, <4>1, <4>3 DEF Shape
      <4> QED
        BY <4>2, <4>3
    <3>8. ASSUME NEW u \in Threads, u # Run, u # t PROVE Shape(u)'
      BY <1>0, <2>1, <3>5, <3>8, ShapeKept
    <3> QED
      BY <1>0, <3>6, <3>7, <3>8 DEF CallShape
  <2>4. CASE ~in_posted
    <3>1. pc' = [pc EXCEPT ![Run] = "idle"] /\ op' = op
      BY <1>9, <2>4 DEF EndHandler, Goto
    <3>2. Shape(Run)'
      <4>1. pc'[Run] = "idle"
        BY <1>0, <3>1
      <4> QED
        BY <2>1, <2>2, <3>1, <4>1 DEF Shape
    <3>3. ASSUME NEW u \in Threads, u # Run PROVE Shape(u)'
      BY <1>0, <2>1, <3>1, <3>3, ShapeKept
    <3> QED
      BY <1>0, <3>2, <3>3 DEF CallShape
  <2> QED
    BY <2>3, <2>4
<1>10. ASSUME pc[Main] \in {"idle", "join"}, NEW s \in {"idle", "join"},
              pc' = pc \/ pc' = [pc EXCEPT ![Main] = s], UNCHANGED <<m_mutex, op, todo>>
       PROVE  CallShape'
  <2>1. Shape(Main)'
    <3>1. Shape(Main) /\ pc'[Main] \in {"idle", "join"}
      BY <1>0, <1>10
    <3> QED
      BY <1>0, <1>10, <3>1 DEF Shape
  <2>2. ASSUME NEW u \in Threads, u # Main PROVE Shape(u)'
    <3>1. pc'[u] = pc[u]
      BY <1>0, <1>10, <2>2
    <3> QED
      BY <1>0, <1>10, <3>1, ShapeKept
  <2> QED
    BY <1>0, <2>1, <2>2 DEF CallShape
<1>11. CASE Execute \/ RunReturns \/ \E e \in Ents : Drained(e) \/ Handler(e)
  BY <1>8, <1>11 DEF Execute, RunReturns, RunReady, WorkerStep, Drained, Handler, Goto
<1>12. CASE WorkerStop \/ WorkerReset \/ Joined
  BY <1>10, <1>12 DEF WorkerStop, WorkerReset, Joined, WorkerStep, Goto
<1>13. CASE WorkerStart
  BY <1>0, <1>13, ShapeKept DEF WorkerStart, WorkerStep, CallShape
<1> QED
  BY <1>0, <1>1, <1>2, <1>3, <1>4, <1>5, <1>6, <1>7, <1>9, <1>11, <1>12, <1>13
     DEF Next, Call, RunStep, StopAllStep

-----------------------------------------------------------------------------
(* The queue.                                                              *)

\* What a thread has posted stays what it has posted.
LEMMA PostedKept ==
    ASSUME NEW u, op'[u] = op[u], op[u].fn = "stop_all" => todo' = todo
    PROVE  PostedFn(u)' = PostedFn(u) /\ PostedEnt(u)' = PostedEnt(u)
  BY DEF PostedFn, PostedEnt

\* what becomes of an entity that no call is about: it is made, closes by
\* itself and is closed
EntityKept(e) ==
    \/ state'[e] = state[e] /\ m_started'[e] = m_started[e]
    \/ state[e] = "none" /\ state'[e] = "new" /\ m_started'[e] = m_started[e]
    \/ state[e] = "open" /\ state'[e] = "closing" /\ m_started'[e] = 2
    \/ /\ e \in Connectors /\ m_started'[e] = m_started[e]
       /\ state[e] = "open" /\ state'[e] = "closing"
    \/ state[e] = "closing" /\ state'[e] = "closed" /\ m_started'[e] = m_started[e]

\* the step leaves alone the calls that are posted or about to be
Quiet ==
    /\ \A e \in Ents : EntityKept(e)
    /\ execq' = execq /\ in_posted' = in_posted
    /\ \A u \in Threads :
         pc[u] \in {"post", "wait"} \/ pc'[u] \in {"post", "wait"} =>
           /\ pc'[u] = pc[u] /\ op'[u] = op[u]
           /\ op[u].fn = "stop_all" => todo' = todo
    /\ in_posted =>
         /\ pc'[Run] # "idle"
         /\ \A e \in Ents : state'[e] = state[e] \/ (state[e] = "none" /\ state'[e] = "new")

\* the steps that do not: a call through a handle, stop_all's stop of an
\* entity, a post, an execution and an answer
CallPosts == \E t \in Threads, e \in Ents : CallStart(t, e) \/ CallStop(t, e) \/ CallVisit(t, e)

StopAllPosts(t) == StopAllNext(t) /\ m_started[Head(todo)] = 1

Answers == EndHandler /\ in_posted

LEMMA QuietSteps ==
    ASSUME Inv, Next
    PROVE  \/ Quiet \/ CallPosts \/ Execute \/ Answers
           \/ \E t \in Threads : StopAllPosts(t) \/ Post(t)
<1> USE NetIpAssumption
<1>0. /\ \A u \in Threads : Shape(u)
      /\ QueueShape /\ state \in [Ents -> States] /\ pc \in [Threads -> Steps]
      /\ op \in [Threads -> Ops] /\ m_started \in [Ents -> 0..2]
      /\ Main \in Threads /\ Run \in Threads /\ Main # Run /\ NoOne \notin Threads
      /\ AppThreads \subseteq Threads /\ Run \notin AppThreads
      /\ in_posted => pc[Run] # "idle"
  BY DEF Inv, CallInv, CallShape, TypeOK, Ops, States, Steps, Threads, QueueShape, Executed
<1>1. ASSUME NEW t \in Threads, CallLocked(t) PROVE Quiet
  <2>1. /\ UNCHANGED <<execq, in_posted, todo>>
        /\ pc[t] \in {"idle", "callback"} /\ pc' = [pc EXCEPT ![t] = "lock"]
        /\ \E x : op' = [op EXCEPT ![t] = x]
        /\ \/ state' = state
           \/ \E e \in Ents : state[e] = "none" /\ state' = [state EXCEPT ![e] = "new"]
    BY <1>1 DEF CallLocked, MayCall, Goto
  <2>2. \A e \in Ents :
          /\ state'[e] = state[e] \/ (state[e] = "none" /\ state'[e] = "new")
          /\ EntityKept(e)
    <3>1. m_started' = m_started
      BY <1>1 DEF CallLocked
    <3> QED
      BY <1>0, <2>1, <3>1 DEF EntityKept
  <2>3. /\ pc'[t] = "lock" /\ \A u \in Threads : u # t => pc'[u] = pc[u] /\ op'[u] = op[u]
        /\ in_posted' = in_posted
    BY <1>0, <2>1
  <2>4. in_posted => pc'[Run] # "idle"
    BY <1>0, <2>3
  <2> QED
    BY <2>1, <2>2, <2>3, <2>4 DEF Quiet
<1>2. ASSUME NEW t \in Threads, LockedStep(t) PROVE Quiet
  <2>1. /\ UNCHANGED <<execq, in_posted, todo, state, m_started>>
        /\ pc[t] = "lock" /\ pc' = [pc EXCEPT ![t] = Returned(t)]
        /\ op' = [op EXCEPT ![t] = NoCall]
    BY <1>2 DEF LockedStep, MakeUdp, MakeConnector, MakeAcceptor, Remove, RemoveAll, EndLocked,
       Goto, Locks, ents
  <2>2. /\ pc'[t] = IF t = Run THEN "callback_done" ELSE "idle"
        /\ \A u \in Threads : u # t => pc'[u] = pc[u] /\ op'[u] = op[u]
        /\ in_posted' = in_posted
    BY <1>0, <2>1 DEF Returned
  <2>3. in_posted => pc'[Run] # "idle"
    BY <1>0, <2>2
  <2> QED
    BY <2>1, <2>2, <2>3 DEF Quiet, EntityKept
<1>3. ASSUME NEW t \in AppThreads, StopAll(t) \/ StopAllEnds(t) PROVE Quiet
  <2>1. /\ UNCHANGED <<execq, in_posted, state, m_started>>
        /\ pc[t] \in {"lock", "next"}
        /\ pc' = [pc EXCEPT ![t] = "next"] \/ pc' = [pc EXCEPT ![t] = "idle"]
        /\ op' = op \/ op' = [op EXCEPT ![t] = NoCall]
        /\ todo' = todo \/ m_mutex = NoOne
    BY <1>0, <1>3 DEF StopAll, StopAllEnds, Goto, Locks, Returned, ents
  <2>2. /\ pc'[t] \in {"next", "idle"} /\ t # Run /\ t \in Threads
        /\ \A u \in Threads : u # t => pc'[u] = pc[u] /\ op'[u] = op[u]
        /\ in_posted' = in_posted
    BY <1>0, <2>1
  <2>3. ASSUME NEW u \in Threads, pc[u] \in {"post", "wait"}, op[u].fn = "stop_all"
        PROVE  todo' = todo
    BY <1>0, <2>1, <2>3 DEF Shape, EntityFns
  <2>4. in_posted => pc'[Run] # "idle"
    BY <1>0, <2>2
  <2> QED
    BY <2>1, <2>2, <2>3, <2>4 DEF Quiet, EntityKept
<1>4. ASSUME NEW t \in AppThreads, StopAllNext(t), m_started[Head(todo)] # 1 PROVE Quiet
  <2>1. /\ UNCHANGED <<execq, in_posted, state, pc, op>> /\ pc[t] = "next"
        /\ m_started' = m_started
    BY <1>4 DEF StopAllNext
  <2>2. m_mutex = t
    BY <1>0, <2>1 DEF Shape
  <2>3. ASSUME NEW u \in Threads, pc[u] \in {"post", "wait"}, op[u].fn = "stop_all"
        PROVE  FALSE
    BY <1>0, <2>1, <2>2, <2>3 DEF Shape, EntityFns
  <2>4. in_posted => pc'[Run] # "idle"
    BY <1>0, <2>1
  <2> QED
    BY <2>1, <2>3, <2>4 DEF Quiet, EntityKept
<1>5. ASSUME UNCHANGED <<execq, op, todo>>, in_posted' = in_posted, \A e \in Ents : EntityKept(e),
             pc[Run] = "idle", pc' = pc \/ pc' = [pc EXCEPT ![Run] = "callback"]
      PROVE  Quiet
  <2>1. \A u \in Threads : u # Run => pc'[u] = pc[u]
    BY <1>0, <1>5
  <2>2. pc'[Run] \in {"idle", "callback"}
    BY <1>0, <1>5
  <2>3. ~in_posted
    BY <1>0, <1>5, Zenon
  <2> QED
    BY <1>5, <2>1, <2>2, <2>3 DEF Quiet
<1>6. CASE EndHandler /\ ~in_posted
  <2>1. /\ UNCHANGED <<execq, op, todo>> /\ ~in_posted
        /\ pc[Run] \in {"callback", "callback_done"} /\ pc' = [pc EXCEPT ![Run] = "idle"]
    BY <1>6 DEF EndHandler, Goto
  <2>2. in_posted' = in_posted
    <3>1. in_posted' = FALSE /\ in_posted = FALSE
      <4>1. in_posted \in BOOLEAN
        BY DEF Inv, TypeOK
      <4> QED
        BY <1>6, <4>1, Zenon DEF EndHandler
    <3> QED
      BY <3>1, Zenon
  <2>3. pc'[Run] = "idle" /\ \A u \in Threads : u # Run => pc'[u] = pc[u]
    BY <1>0, <2>1
  <2>4. UNCHANGED <<state, m_started>>
    BY <1>6 DEF EndHandler, ents
  <2> QED
    BY <2>1, <2>2, <2>3, <2>4 DEF Quiet, EntityKept
<1>7. ASSUME NEW s \in {"idle", "join"}, pc[Main] \in {"idle", "join"},
             pc' = pc \/ pc' = [pc EXCEPT ![Main] = s],
             UNCHANGED <<execq, op, todo, state, m_started>>, in_posted' = in_posted
       PROVE  Quiet
  <2>1. pc'[Main] \in {"idle", "join"} /\ \A u \in Threads : u # Main => pc'[u] = pc[u]
    BY <1>0, <1>7
  <2>2. in_posted => pc'[Run] # "idle"
    BY <1>0, <2>1
  <2> QED
    BY <1>7, <2>1, <2>2 DEF Quiet, EntityKept
<1>8. CASE RunReturns \/ \E e \in Ents : Drained(e) \/ Handler(e)
  <2>1. /\ UNCHANGED <<execq, op, todo>> /\ pc[Run] = "idle"
        /\ pc' = pc \/ pc' = [pc EXCEPT ![Run] = "callback"]
    BY <1>8 DEF RunReturns, RunReady, WorkerStep, Drained, Handler, Goto
  <2>2. in_posted' = in_posted
    BY <1>8, Zenon DEF RunReturns, WorkerStep, Drained, Handler
  <2>3. \A e \in Ents : EntityKept(e)
    <3>1. CASE RunReturns
      BY <3>1 DEF RunReturns, WorkerStep, EntityKept, ents
    <3>2. ASSUME NEW e \in Ents, Drained(e) \/ Handler(e) PROVE \A f \in Ents : EntityKept(f)
      <4>1. \/ UNCHANGED <<state, m_started>>
            \/ /\ state[e] = "open" /\ state' = [state EXCEPT ![e] = "closing"]
               /\ m_started' = [m_started EXCEPT ![e] = 2]
            \/ /\ e \in Connectors /\ m_started' = m_started
               /\ state[e] = "open" /\ state' = [state EXCEPT ![e] = "closing"]
            \/ /\ state[e] = "closing" /\ state' = [state EXCEPT ![e] = "closed"]
               /\ m_started' = m_started
        BY <3>2 DEF Drained, Handler, ents
      <4> QED
        BY <1>0, <4>1 DEF EntityKept
    <3> QED
      BY <1>8, <3>1, <3>2
  <2> QED
    BY <1>5, <2>1, <2>2, <2>3
<1>9. CASE WorkerStop \/ WorkerReset \/ Joined
  <2>1. /\ UNCHANGED <<execq, op, todo, state, m_started>> /\ pc[Main] \in {"idle", "join"}
        /\ \E s \in {"idle", "join"} : pc' = [pc EXCEPT ![Main] = s]
    BY <1>9 DEF WorkerStop, WorkerReset, Joined, WorkerStep, Goto, ents
  <2>2. in_posted' = in_posted
    BY <1>9, Zenon DEF WorkerStop, WorkerReset, Joined, WorkerStep
  <2> QED
    BY <1>7, <2>1, <2>2
<1>10. CASE WorkerStart
  <2>1. UNCHANGED <<execq, op, todo, state, m_started, pc>>
    BY <1>10 DEF WorkerStart, WorkerStep, ents
  <2>2. in_posted' = in_posted
    BY <1>10, Zenon DEF WorkerStart, WorkerStep
  <2> QED
    BY <1>0, <2>1, <2>2 DEF Quiet, EntityKept
<1>11. CASE \E t \in Threads : Call(t)
  BY <1>1, <1>11 DEF Call, CallPosts
<1>12. CASE \E t \in AppThreads : LockedStep(t) \/ StopAllStep(t) \/ Post(t)
  BY <1>0, <1>2, <1>3, <1>4, <1>12 DEF StopAllStep, StopAllPosts
<1>13. CASE RunStep
  BY <1>0, <1>2, <1>6, <1>8, <1>13 DEF RunStep, Answers
<1> QED
  BY <1>8, <1>9, <1>10, <1>11, <1>12, <1>13 DEF Next

LEMMA QueueKept ==
    ASSUME QueueShape, execq' = execq, in_posted' = in_posted, in_posted => pc'[Run] # "idle",
           execq \in Seq(Entries),
           \A u \in Threads :
             /\ pc'[u] = "wait" => pc[u] = "wait"
             /\ pc[u] = "wait" => /\ pc'[u] = "wait" /\ op'[u] = op[u]
                                  /\ op[u].fn = "stop_all" => todo' = todo,
           in_posted => \A e \in Ents :
                          state'[e] = state[e] \/ (state[e] = "none" /\ state'[e] = "new")
    PROVE  QueueShape'
<1>1. Places' = Places /\ \A i \in Places : execq[i] \in Entries
  BY DEF Places
<1>2. ASSUME NEW i \in Places
      PROVE  /\ pc'[execq[i].by] = "wait"
             /\ execq[i].fn = PostedFn(execq[i].by)' /\ execq[i].ent = PostedEnt(execq[i].by)'
  <2>1. PICK u \in Threads : u = execq[i].by
    BY <1>1, <1>2 DEF Entries
  <2>2. pc[u] = "wait" /\ execq[i].fn = PostedFn(u) /\ execq[i].ent = PostedEnt(u)
    BY <1>2, <2>1 DEF QueueShape, QueueOfWaiting
  <2>3. PostedFn(u)' = PostedFn(u) /\ PostedEnt(u)' = PostedEnt(u)
    BY <2>2, PostedKept
  <2>4. execq'[i].by = u
    BY <2>1
  <2> QED
    BY <2>1, <2>2, <2>3, <2>4
<1>3. QueueOfWaiting'
  <2>1. ASSUME NEW i \in Places, NEW j \in Places, execq[j].by = execq[i].by PROVE j = i
    BY <2>1 DEF QueueShape, QueueOfWaiting
  <2>2. ASSUME NEW u \in Threads, pc'[u] = "wait" PROVE \E i \in Places : execq[i].by = u
    BY <2>2 DEF QueueShape, QueueOfWaiting
  <2> QED
    BY <1>1, <1>2, <2>1, <2>2 DEF QueueOfWaiting
<1>4. Executed'
  <2>1. ASSUME in_posted
        PROVE  /\ execq # <<>> /\ pc'[Run] # "idle"
               /\ execq[1].fn = "stop" => state'[execq[1].ent] # "open"
               /\ execq[1].fn = "start" => state'[execq[1].ent] \notin {"none", "new"}
    <3>1. /\ execq # <<>>
          /\ execq[1].fn = "stop" => state[execq[1].ent] # "open"
          /\ execq[1].fn = "start" => state[execq[1].ent] \notin {"none", "new"}
      BY <2>1 DEF QueueShape, Executed
    <3>2. execq[1].ent \in Ents
      BY <3>1, Taking DEF Entries
    <3> QED
      BY <2>1, <3>1, <3>2
  <2> QED
    BY <2>1 DEF Executed
<1> QED
  BY <1>3, <1>4 DEF QueueShape

LEMMA QueueShapeStep ==
    ASSUME Inv, Next
    PROVE  QueueShape'
<1> USE NetIpAssumption
<1>0. /\ TypeOK /\ CallShape /\ \A u \in Threads : Shape(u)
      /\ QueueShape /\ QueueOfWaiting /\ Executed
      /\ execq \in Seq(Entries) /\ state \in [Ents -> States] /\ pc \in [Threads -> Steps]
      /\ op \in [Threads -> Ops] /\ m_started \in [Ents -> 0..2]
      /\ Run \in Threads /\ in_posted \in BOOLEAN
      /\ in_posted => pc[Run] # "idle" /\ execq # <<>>
  BY DEF Inv, CallInv, CallShape, TypeOK, Entries, EntityFns, Ops, States, Steps, Threads,
     QueueShape, Executed
<1>1. CASE Quiet
  BY <1>0, <1>1, QueueKept DEF Quiet
<1>2. ASSUME NEW t \in Threads, pc[t] \in {"idle", "callback", "next"},
             pc' = [pc EXCEPT ![t] = "post"], \A u \in Threads : u # t => op'[u] = op[u],
             UNCHANGED <<execq, todo, state>>, in_posted' = in_posted
      PROVE  QueueShape'
  <2>1. pc'[t] = "post" /\ \A u \in Threads : u # t => pc'[u] = pc[u]
    BY <1>0, <1>2
  <2>2. in_posted => pc'[Run] # "idle"
    BY <1>0, <2>1
  <2> QED
    BY <1>0, <1>2, <2>1, <2>2, QueueKept
<1>3. CASE CallPosts
  <2>1. PICK t \in Threads, e \in Ents, fn \in EntityFns : CallEntity(t, fn, e)
    BY <1>3 DEF CallPosts, CallStart, CallStop, CallVisit, EntityFns
  <2>2. /\ pc[t] \in {"idle", "callback"} /\ pc' = [pc EXCEPT ![t] = "post"]
        /\ UNCHANGED <<execq, todo, state>>
        /\ op' = [op EXCEPT ![t] = [fn |-> fn, ent |-> e]]
    BY <2>1 DEF CallEntity, MayCall, Goto
  <2>3. in_posted' = in_posted
    BY <2>1, Zenon DEF CallEntity
  <2>4. \A u \in Threads : u # t => op'[u] = op[u]
    BY <1>0, <2>2
  <2> QED
    BY <1>2, <2>2, <2>3, <2>4
<1>4. ASSUME NEW t \in Threads, StopAllPosts(t) PROVE QueueShape'
  <2>1. /\ pc[t] = "next" /\ pc' = [pc EXCEPT ![t] = "post"]
        /\ UNCHANGED <<execq, todo, state, op>>
    BY <1>4 DEF StopAllPosts, StopAllNext, Goto
  <2>2. in_posted' = in_posted
    BY <1>4, Zenon DEF StopAllPosts, StopAllNext
  <2> QED
    BY <1>2, <2>1, <2>2
<1>5. ASSUME NEW t \in Threads, Post(t) PROVE QueueShape'
  <2> DEFINE p == [fn |-> PostedFn(t), ent |-> PostedEnt(t), by |-> t]
  <2>1. /\ execq' = Append(execq, p) /\ pc[t] = "post" /\ pc' = [pc EXCEPT ![t] = "wait"]
        /\ UNCHANGED <<op, todo, state>>
    BY <1>5 DEF Post, PostedFn, PostedEnt, Goto, ents
  <2>2. in_posted' = in_posted
    BY <1>5, Zenon DEF Post
  <2>3. p \in Entries /\ p.fn = PostedFn(t) /\ p.ent = PostedEnt(t) /\ p.by = t
    BY <1>0, <2>1, PostedEntry
  <2>4. \A u \in Threads : PostedFn(u)' = PostedFn(u) /\ PostedEnt(u)' = PostedEnt(u)
    BY <2>1, PostedKept
  <2>5. pc'[t] = "wait" /\ \A u \in Threads : u # t => pc'[u] = pc[u]
    BY <1>0, <2>1
  <2> HIDE DEF p
  <2> DEFINE n == Len(execq)
  <2>6. /\ n \in Nat /\ Places = 1..n /\ Places' = 1..(n + 1)
        /\ \A i \in 1..n : execq'[i] = execq[i] /\ execq[i] \in Entries
        /\ execq'[n + 1] = p
    <3>1. /\ Len(execq') = Len(execq) + 1 /\ execq'[Len(execq) + 1] = p
          /\ \A i \in 1..Len(execq) : execq'[i] = execq[i]
      BY <1>0, <2>1, <2>3, Posting
    <3> QED
      BY <1>0, <3>1 DEF Places
  <2> HIDE DEF n
  <2>7. ASSUME NEW i \in 1..n
        PROVE  execq[i].by \in Threads /\ pc[execq[i].by] = "wait" /\ execq[i].by # t
    BY <1>0, <2>1, <2>6 DEF QueueOfWaiting, Entries
  <2>8. ASSUME NEW i \in 1..(n + 1)
        PROVE  /\ pc'[execq'[i].by] = "wait"
               /\ execq'[i].fn = PostedFn(execq[i].by)' /\ execq'[i].ent = PostedEnt(execq[i].by)'
               /\ \A j \in 1..(n + 1) : execq'[j].by = execq'[i].by => j = i
    <3>1. CASE i = n + 1
      <4>1. execq'[i] = p
        BY <2>6, <3>1
      <4>2. PostedFn(execq[i].by)' = PostedFn(t) /\ PostedEnt(execq[i].by)' = PostedEnt(t)
        <5>1. PICK u \in Threads : u = t
          OBVIOUS
        <5>2. execq'[i].by = u
          BY <2>3, <4>1, <5>1
        <5> QED
          BY <2>4, <5>1, <5>2
      <4> QED
        BY <2>3, <2>5, <2>6, <2>7, <3>1, <4>1, <4>2
    <3>2. CASE i \in 1..n
      <4>1. PICK u \in Threads : u = execq[i].by /\ pc[u] = "wait" /\ u # t
        BY <2>7, <3>2
      <4>2. execq'[i] = execq[i] /\ execq'[i].by = u
        BY <2>6, <3>2, <4>1
      <4>3. execq[i].fn = PostedFn(u) /\ execq[i].ent = PostedEnt(u)
        BY <1>0, <2>6, <3>2, <4>1 DEF QueueOfWaiting
      <4>4. \A j \in 1..(n + 1) : execq'[j].by = u => j = i
        <5>1. \A j \in 1..n : execq[j].by = execq[i].by => j = i
          BY <1>0, <2>6, <3>2 DEF QueueOfWaiting
        <5>2. \A j \in 1..(n + 1) : j \in 1..n \/ j = n + 1
          BY <2>6
        <5> QED
          BY <2>3, <2>6, <4>1, <5>1, <5>2
      <4> QED
        BY <2>4, <2>5, <4>1, <4>2, <4>3, <4>4
    <3> QED
      BY <2>6, <3>1, <3>2
  <2>9. ASSUME NEW u \in Threads, pc'[u] = "wait" PROVE \E i \in 1..(n + 1) : execq'[i].by = u
    <3>1. CASE u = t
      BY <2>3, <2>6, <3>1
    <3>2. CASE u # t
      <4>1. PICK i \in 1..n : execq[i].by = u
        BY <1>0, <2>5, <2>6, <2>9, <3>2 DEF QueueOfWaiting
      <4>2. i \in 1..(n + 1) /\ execq'[i].by = u
        BY <2>6, <4>1
      <4> QED
        BY <4>2
    <3> QED
      BY <3>1, <3>2
  <2>10. QueueOfWaiting'
    BY <2>6, <2>8, <2>9 DEF QueueOfWaiting
  <2>11. ASSUME in_posted
         PROVE  /\ execq' # <<>> /\ pc'[Run] # "idle"
                /\ execq'[1].fn = "stop" => state'[execq'[1].ent] # "open"
                /\ execq'[1].fn = "start" => state'[execq'[1].ent] \notin {"none", "new"}
    <3>1. n # 0 /\ 1 \in 1..n
      BY <1>0, <2>6, <2>11 DEF n
    <3>2. execq'[1] = execq[1] /\ execq' # <<>>
      BY <1>0, <2>1, <2>3, <2>6, <3>1
    <3> QED
      BY <1>0, <2>1, <2>5, <2>11, <3>2 DEF Executed
  <2>12. Executed'
    BY <2>2, <2>11 DEF Executed
  <2> QED
    BY <2>10, <2>12 DEF QueueShape
<1>6. CASE Execute
  <2>1. /\ pc[Run] = "idle" /\ execq # <<>> /\ UNCHANGED <<execq, op, todo>>
        /\ pc' = [pc EXCEPT ![Run] = "callback"]
    BY <1>6 DEF Execute, RunReady, Goto
  <2>2. execq[1] \in Entries /\ Head(execq) = execq[1]
    BY <1>0, <2>1, Taking
  <2>3. pc'[Run] = "callback" /\ \A u \in Threads : u # Run => pc'[u] = pc[u]
    BY <1>0, <2>1
  <2>4. QueueOfWaiting'
    <3>1. QueueOfWaiting' = QueueOfWaiting
      <4>1. /\ \A u \in Threads : PostedFn(u)' = PostedFn(u) /\ PostedEnt(u)' = PostedEnt(u)
            /\ \A u \in Threads : pc'[u] = "wait" <=> pc[u] = "wait"
        BY <2>1, <2>3, PostedKept
      <4>2. Places' = Places /\ \A i \in Places : execq[i].by \in Threads /\ execq'[i] = execq[i]
        <5>1. \A i \in 1..Len(execq) : execq[i] \in Entries
          BY <1>0
        <5> QED
          BY <2>1, <5>1 DEF Places, Entries
      <4>3. ASSUME NEW i \in Places
            PROVE  /\ PostedFn(execq[i].by)' = PostedFn(execq[i].by)
                   /\ PostedEnt(execq[i].by)' = PostedEnt(execq[i].by)
                   /\ pc'[execq'[i].by] = "wait" <=> pc[execq[i].by] = "wait"
        <5>1. PICK u \in Threads : u = execq[i].by /\ execq'[i].by = u
          BY <4>2
        <5> QED
          BY <4>1, <5>1
      <4> QED
        BY <4>1, <4>2, <4>3 DEF QueueOfWaiting
    <3> QED
      BY <1>0, <3>1
  <2>5. /\ execq[1].fn = "stop" => state'[execq[1].ent] # "open"
        /\ execq[1].fn = "start" => state'[execq[1].ent] \notin {"none", "new"}
    <3>1. execq[1].ent \in Ents
      BY <2>2 DEF Entries
    <3>2. CASE execq[1].fn = "start"
      <4>1. \/ state' = [state EXCEPT ![execq[1].ent] = "open"]
            \/ state' = [state EXCEPT ![execq[1].ent] = "closed"]
        BY <1>6, <2>2, <3>2 DEF Execute
      <4> QED
        BY <1>0, <3>1, <3>2, <4>1
    <3>3. CASE execq[1].fn = "stop"
      <4>1. state' = [state EXCEPT ![execq[1].ent] = IF @ = "open" THEN "closing" ELSE @]
        BY <1>6, <2>2, <3>3 DEF Execute
      <4> QED
        BY <1>0, <3>1, <3>3, <4>1
    <3> QED
      BY <3>2, <3>3
  <2>6. Executed'
    BY <2>1, <2>3, <2>5 DEF Executed
  <2> QED
    BY <2>4, <2>6 DEF QueueShape
<1>7. CASE Answers
  <2>1. in_posted /\ execq # <<>> /\ execq' = Tail(execq)
    BY <1>0, <1>7 DEF Answers, EndHandler
  <2>2. in_posted' = FALSE
    BY <1>7, Zenon DEF Answers, EndHandler
  <2>3. /\ execq[1] \in Entries /\ Head(execq) = execq[1]
        /\ pc[Run] \in {"callback", "callback_done"} /\ todo' = todo
    BY <1>0, <1>7, <2>1, Taking DEF Answers, EndHandler
  <2> DEFINE n == Len(execq)
  <2>4. /\ n \in Nat \ {0} /\ Places = 1..n /\ Places' = 1..(n - 1)
        /\ \A i \in 1..(n - 1) : execq'[i] = execq[i + 1] /\ execq[i + 1] \in Entries
    BY <1>0, <2>1, Taking DEF Places
  <2> HIDE DEF n
  <2>5. PICK t \in Threads : t = execq[1].by /\ pc[t] = "wait" /\ t # Run
    BY <1>0, <2>3, <2>4 DEF QueueOfWaiting, Entries
  <2>6. /\ pc' = [pc EXCEPT ![Run] = "idle",
                            ![t] = IF op[t].fn = "stop_all" THEN "next" ELSE "idle"]
        /\ op' = IF op[t].fn = "stop_all" THEN op ELSE [op EXCEPT ![t] = NoCall]
    BY <1>7, <2>1, <2>3, <2>5 DEF Answers, EndHandler
  <2>7. /\ pc'[Run] # "wait" /\ pc'[t] # "wait"
        /\ \A u \in Threads : u # Run /\ u # t => pc'[u] = pc[u] /\ op'[u] = op[u]
    BY <1>0, <2>5, <2>6
  <2>8. ASSUME NEW i \in 1..(n - 1)
        PROVE  \E u \in Threads : /\ u = execq[i + 1].by /\ u = execq'[i].by
                                  /\ pc[u] = "wait" /\ u # Run /\ u # t
    <3>1. i + 1 \in 1..n /\ i + 1 # 1 /\ 1 \in 1..n
      BY <2>4
    <3> QED
      BY <1>0, <2>3, <2>4, <2>5, <3>1 DEF QueueOfWaiting, Entries
  <2>9. ASSUME NEW i \in 1..(n - 1)
        PROVE  /\ pc'[execq'[i].by] = "wait"
               /\ execq'[i].fn = PostedFn(execq[i].by)' /\ execq'[i].ent = PostedEnt(execq[i].by)'
               /\ \A j \in 1..(n - 1) : execq'[j].by = execq'[i].by => j = i
    <3>1. PICK u \in Threads : /\ u = execq[i + 1].by /\ u = execq'[i].by
                               /\ pc[u] = "wait" /\ u # Run /\ u # t
      BY <2>8
    <3>2. pc'[u] = "wait" /\ PostedFn(u)' = PostedFn(u) /\ PostedEnt(u)' = PostedEnt(u)
      BY <2>3, <2>7, <3>1, PostedKept
    <3>3. i + 1 \in Places
      BY <2>4
    <3>4. execq[i + 1].fn = PostedFn(u) /\ execq[i + 1].ent = PostedEnt(u)
      BY <1>0, <3>1, <3>3 DEF QueueOfWaiting
    <3>5. ASSUME NEW j \in 1..(n - 1), execq'[j].by = execq'[i].by PROVE j = i
      <4>1. j + 1 \in Places /\ execq[j + 1].by = execq[i + 1].by
        BY <2>4, <3>5
      <4>2. j + 1 = i + 1
        BY <1>0, <3>3, <4>1 DEF QueueOfWaiting
      <4> QED
        BY <2>4, <4>2
    <3> QED
      BY <2>4, <3>1, <3>2, <3>4, <3>5
  <2>10. ASSUME NEW u \in Threads, pc'[u] = "wait" PROVE \E i \in 1..(n - 1) : execq'[i].by = u
    <3>1. u # Run /\ u # t /\ pc[u] = "wait"
      BY <2>7, <2>10
    <3>2. PICK k \in 1..n : execq[k].by = u
      BY <1>0, <2>4, <3>1 DEF QueueOfWaiting
    <3>3. k # 1
      BY <2>5, <3>1, <3>2
    <3>4. k - 1 \in 1..(n - 1) /\ (k - 1) + 1 = k
      BY <2>4, <3>3
    <3> QED
      BY <2>4, <3>2, <3>4
  <2>11. QueueOfWaiting'
    BY <2>4, <2>9, <2>10 DEF QueueOfWaiting
  <2>12. Executed'
    BY <2>2 DEF Executed
  <2> QED
    BY <2>11, <2>12 DEF QueueShape
<1> QED
  BY <1>1, <1>3, <1>4, <1>5, <1>6, <1>7, QuietSteps

-----------------------------------------------------------------------------
(* Entities.                                                               *)

\* A step after which the same calls are pending as before.
LEMMA LifecycleKept ==
    ASSUME Lifecycle,
           \A e \in Ents : EntityKept(e),
           \A u \in Threads : \A e \in Ents :
             /\ PendingStart(u, e)' <=> PendingStart(u, e)
             /\ PendingStop(u, e)' <=> PendingStop(u, e)
             /\ InStop(u, e)' => InStop(u, e)
             /\ PendingStart(u, e)' /\ pc'[u] = "post" => pc[u] = "post"
    PROVE  Lifecycle'
<1>1. ASSUME NEW e \in Ents
      PROVE  (StartPending(e)' <=> StartPending(e)) /\ (StopPending(e)' <=> StopPending(e))
  BY DEF StartPending, StopPending
<1>2. ASSUME NEW e \in Ents
      PROVE  Ahead(e) /\ (StartPending(e) => state[e] = "new")
  BY DEF Lifecycle, StartOnce, StartPending
<1>3. ASSUME NEW e \in Ents PROVE Ahead(e)'
  BY <1>1, <1>2 DEF Ahead, EntityKept
<1>4. ASSUME NEW e \in Ents, NEW t \in Threads PROVE StartOnce(t, e)'
  <2>1. StartOnce(t, e)
    BY DEF Lifecycle
  <2>2. PendingStart(t, e) => state'[e] = "new" /\ m_started'[e] = m_started[e]
    BY <2>1 DEF EntityKept, StartOnce
  <2>3. \A u \in Threads : PendingStart(u, e)' <=> PendingStart(u, e)
    OBVIOUS
  <2>4. PendingStart(t, e)' /\ pc'[t] = "post" => pc[t] = "post"
    OBVIOUS
  <2> QED
    BY <2>1, <2>2, <2>3, <2>4 DEF StartOnce
<1>5. ASSUME NEW e \in Ents, NEW t \in Threads, InStop(t, e)' PROVE m_started'[e] = 2
  <2>1. m_started[e] = 2
    BY <1>5 DEF Lifecycle
  <2> QED
    BY <2>1 DEF EntityKept
<1> QED
  BY <1>3, <1>4, <1>5 DEF Lifecycle

\* The calls of a thread that the step does not concern.
LEMMA PendingKept ==
    ASSUME NEW u, PostedFn(u)' = PostedFn(u), PostedEnt(u)' = PostedEnt(u),
           pc'[u] \in {"post", "wait"} <=> pc[u] \in {"post", "wait"},
           Unserved(u)' <=> Unserved(u), NEW e
    PROVE  /\ PendingStart(u, e)' <=> PendingStart(u, e)
           /\ PendingStop(u, e)' <=> PendingStop(u, e)
           /\ InStart(u, e)' <=> InStart(u, e)
           /\ InStop(u, e)' <=> InStop(u, e)
  BY DEF PendingStart, PendingStop, InStart, InStop

LEMMA QuietLifecycle ==
    ASSUME Inv, Quiet
    PROVE  Lifecycle'
<1>1. ASSUME NEW u \in Threads, NEW e \in Ents
      PROVE  /\ PendingStart(u, e)' <=> PendingStart(u, e)
             /\ PendingStop(u, e)' <=> PendingStop(u, e)
             /\ InStop(u, e)' => InStop(u, e)
             /\ PendingStart(u, e)' /\ pc'[u] = "post" => pc[u] = "post"
  <2>1. CASE pc[u] \in {"post", "wait"} \/ pc'[u] \in {"post", "wait"}
    <3>1. pc'[u] = pc[u] /\ op'[u] = op[u] /\ (op[u].fn = "stop_all" => todo' = todo)
      BY <2>1 DEF Quiet
    <3>2. PostedFn(u)' = PostedFn(u) /\ PostedEnt(u)' = PostedEnt(u)
      BY <3>1, PostedKept
    <3>3. Unserved(u)' <=> Unserved(u)
      <4>1. execq' = execq /\ in_posted' = in_posted
        BY Zenon DEF Quiet
      <4> QED
        BY <3>1, <4>1, Zenon DEF Unserved
    <3> QED
      BY <3>1, <3>2, <3>3, PendingKept
  <2>2. CASE pc[u] \notin {"post", "wait"} /\ pc'[u] \notin {"post", "wait"}
    BY <2>2 DEF PendingStart, PendingStop, InStart, InStop
  <2> QED
    BY <2>1, <2>2
<1>2. Lifecycle /\ \A e \in Ents : EntityKept(e)
  BY DEF Inv, Quiet
<1> QED
  BY <1>1, <1>2, LifecycleKept

\* what a call of fn on e does to m_started before it posts
Begun(e, fn) ==
    \/ fn = "start" /\ m_started[e] = 0 /\ m_started' = [m_started EXCEPT ![e] = 1]
    \/ /\ fn = "stop" /\ m_started[e] = 1 /\ ~Starting(e)
       /\ m_started' = [m_started EXCEPT ![e] = 2]
    \/ fn = "visit" /\ m_started' = m_started

\* t gets to its post: its start or stop of e has just been won, or it visits e.
LEMMA CallingLifecycle ==
    ASSUME Inv, NEW t \in Threads, NEW e \in Ents, NEW fn \in EntityFns,
           pc[t] \notin {"post", "wait"}, pc' = [pc EXCEPT ![t] = "post"],
           \A u \in Threads : u # t => op'[u] = op[u],
           PostedFn(t)' = fn, PostedEnt(t)' = e,
           UNCHANGED <<execq, todo, state>>, in_posted' = in_posted,
           state[e] # "none", Begun(e, fn)
    PROVE  Lifecycle'
<1> USE DEF Begun
<1>0. /\ Lifecycle /\ op \in [Threads -> Ops] /\ m_started \in [Ents -> 0..2]
      /\ pc \in [Threads -> Steps] /\ \A u \in Threads : Shape(u)
  BY DEF Inv, CallInv, CallShape, TypeOK, Ops, Steps
<1>1. pc'[t] = "post" /\ \A u \in Threads : u # t => pc'[u] = pc[u]
  BY <1>0
<1>2. ASSUME NEW u \in Threads, u # t, NEW f \in Ents
      PROVE  /\ PendingStart(u, f)' <=> PendingStart(u, f)
             /\ PendingStop(u, f)' <=> PendingStop(u, f)
             /\ InStop(u, f)' <=> InStop(u, f)
  <2>1. PostedFn(u)' = PostedFn(u) /\ PostedEnt(u)' = PostedEnt(u)
    BY <1>2, PostedKept
  <2>2. Unserved(u)' <=> Unserved(u)
    BY <1>1, <1>2, Zenon DEF Unserved
  <2> QED
    BY <1>1, <1>2, <2>1, <2>2, PendingKept
<1>3. ASSUME NEW f \in Ents
      PROVE  /\ ~PendingStart(t, f) /\ ~PendingStop(t, f) /\ ~InStop(t, f)
             /\ PendingStart(t, f)' <=> fn = "start" /\ f = e
             /\ PendingStop(t, f)' <=> fn = "stop" /\ f = e
             /\ InStop(t, f)' <=> fn = "stop" /\ f = e
  <2>1. Unserved(t)'
    BY <1>1 DEF Unserved
  <2> QED
    BY <1>1, <2>1 DEF PendingStart, PendingStop, InStart, InStop
<1>4. ASSUME NEW f \in Ents
      PROVE  /\ StartPending(f)' <=> StartPending(f) \/ (fn = "start" /\ f = e)
             /\ StopPending(f)' <=> StopPending(f) \/ (fn = "stop" /\ f = e)
  BY <1>2, <1>3 DEF StartPending, StopPending
<1>5. /\ m_started[e] = 0 => state[e] = "new" /\ ~StartPending(e)
      /\ m_started[e] # 2 => \A u \in Threads : ~InStop(u, e)
  BY <1>0 DEF Lifecycle, Ahead, StartOnce, StartPending
<1>6. /\ \A f \in Ents : f # e => m_started'[f] = m_started[f]
      /\ fn = "start" => m_started[e] = 0 /\ m_started'[e] = 1
      /\ fn = "stop" => m_started[e] = 1 /\ m_started'[e] = 2
      /\ fn = "visit" => m_started'[e] = m_started[e]
  BY <1>0
<1>7. ASSUME NEW f \in Ents PROVE Ahead(f)'
  <2>1. Ahead(f)
    BY <1>0 DEF Lifecycle
  <2> QED
    BY <1>4, <1>5, <1>6, <2>1 DEF Ahead, EntityFns
<1>8. ASSUME NEW f \in Ents, NEW u \in Threads PROVE StartOnce(u, f)'
  <2>1. CASE u = t
    <3>1. ASSUME PendingStart(t, f)' PROVE fn = "start" /\ f = e
      BY <1>3, <3>1
    <3>2. ASSUME fn = "start", NEW v \in Threads, PendingStart(v, e)' PROVE v = t
      <4>1. v # t => PendingStart(v, e)
        BY <1>2, <3>2
      <4> QED
        BY <1>5, <1>6, <3>2, <4>1 DEF StartPending
    <3> QED
      BY <1>5, <1>6, <2>1, <3>1, <3>2 DEF StartOnce
  <2>2. CASE u # t
    <3>1. SUFFICES ASSUME PendingStart(u, f)' PROVE StartOnce(u, f)'
      BY DEF StartOnce
    <3>2. PendingStart(u, f) /\ StartOnce(u, f)
      BY <1>0, <1>2, <2>2, <3>1 DEF Lifecycle
    <3>3. /\ state[f] = "new" /\ m_started[f] # 0
          /\ pc[u] = "post" => m_started[f] = 1
          /\ \A v \in Threads : PendingStart(v, f) => v = u
      BY <3>2 DEF StartOnce
    <3>4. ~(fn = "start" /\ f = e)
      BY <1>6, <3>3
    <3>5. \A v \in Threads : PendingStart(v, f)' => v = u
      BY <1>2, <1>3, <3>3, <3>4
    <3>6. ASSUME pc[u] = "post", f = e, fn = "stop" PROVE FALSE
      <4>1. PostedFn(u) = "start" /\ PostedEnt(u) = e /\ op[u] \in Ops /\ Shape(u)
        BY <1>0, <3>2, <3>6 DEF PendingStart, InStart
      <4>2. op[u].fn = "start" /\ op[u].ent = e
        BY <4>1 DEF PostedFn, PostedEnt
      <4>3. op[u] = [fn |-> "start", ent |-> e]
        BY <4>1, <4>2 DEF Ops
      <4> QED
        BY <3>6, <4>3 DEF Starting
    <3>7. m_started'[f] # 0 /\ (pc'[u] = "post" => m_started'[f] = 1)
      BY <1>1, <1>6, <2>2, <3>3, <3>4, <3>6 DEF EntityFns
    <3> QED
      BY <3>3, <3>5, <3>7 DEF StartOnce
  <2> QED
    BY <2>1, <2>2
<1>9. ASSUME NEW f \in Ents, NEW u \in Threads, InStop(u, f)' PROVE m_started'[f] = 2
  <2>1. CASE u = t
    BY <1>3, <1>6, <1>9, <2>1
  <2>2. CASE u # t
    <3>1. InStop(u, f) /\ m_started[f] = 2
      BY <1>0, <1>2, <1>9, <2>2 DEF Lifecycle
    <3> QED
      BY <1>6, <3>1 DEF EntityFns
  <2> QED
    BY <2>1, <2>2
<1> QED
  BY <1>7, <1>8, <1>9 DEF Lifecycle

LEMMA LifecycleStep ==
    ASSUME Inv, Next
    PROVE  Lifecycle'
<1> USE NetIpAssumption
<1>0. /\ TypeOK /\ CallShape /\ Lifecycle /\ StartBeforeStop
      /\ \A u \in Threads : Shape(u)
      /\ QueueOfWaiting /\ Executed
      /\ execq \in Seq(Entries) /\ state \in [Ents -> States] /\ pc \in [Threads -> Steps]
      /\ op \in [Threads -> Ops] /\ m_started \in [Ents -> 0..2] /\ todo \in Seq(Ents)
      /\ Run \in Threads /\ in_posted \in BOOLEAN
      /\ in_posted => pc[Run] # "idle" /\ execq # <<>>
  BY DEF Inv, CallInv, CallShape, TypeOK, Entries, EntityFns, Ops, States, Steps, Threads,
     QueueShape, Executed
<1>1. CASE Quiet
  BY <1>1, QuietLifecycle
<1>2. CASE CallPosts
  <2>1. PICK t \in Threads, e \in Ents, fn \in EntityFns :
          CallEntity(t, fn, e) /\ Begun(e, fn)
    BY <1>2 DEF CallPosts, CallStart, CallStop, CallVisit, EntityFns, Begun
  <2>2. /\ pc[t] \in {"idle", "callback"} /\ pc' = [pc EXCEPT ![t] = "post"]
        /\ UNCHANGED <<execq, todo, state>> /\ state[e] # "none"
        /\ op' = [op EXCEPT ![t] = [fn |-> fn, ent |-> e]]
    BY <2>1 DEF CallEntity, MayCall, Goto
  <2>3. in_posted' = in_posted
    BY <2>1, Zenon DEF CallEntity
  <2>4. op'[t] = [fn |-> fn, ent |-> e] /\ \A u \in Threads : u # t => op'[u] = op[u]
    BY <1>0, <2>2
  <2>5. PostedFn(t)' = fn /\ PostedEnt(t)' = e
    BY <2>4 DEF PostedFn, PostedEnt, EntityFns
  <2>6. pc[t] \notin {"post", "wait"}
    BY <2>2
  <2> QED
    BY <2>1, <2>2, <2>3, <2>4, <2>5, <2>6, CallingLifecycle
<1>3. ASSUME NEW t \in Threads, StopAllPosts(t) PROVE Lifecycle'
  <2>1. PICK e \in Ents : e = Head(todo)
    BY <1>0, <1>3 DEF StopAllPosts, StopAllNext
  <2>2. /\ pc[t] = "next" /\ pc' = [pc EXCEPT ![t] = "post"]
        /\ UNCHANGED <<execq, todo, state, op>>
        /\ m_started[e] = 1 /\ ~Starting(e) /\ m_started' = [m_started EXCEPT ![e] = 2]
    BY <1>3, <2>1 DEF StopAllPosts, StopAllNext, Goto
  <2>3. in_posted' = in_posted
    BY <1>3, Zenon DEF StopAllPosts, StopAllNext
  <2>4. op'[t].fn = "stop_all" /\ todo' = todo
    BY <1>0, <2>2 DEF Shape
  <2>5. PostedFn(t)' = "stop" /\ PostedEnt(t)' = e
    BY <2>1, <2>4 DEF PostedFn, PostedEnt
  <2>6. state[e] # "none" /\ "stop" \in EntityFns
    BY <1>0, <2>2 DEF Lifecycle, Ahead, EntityFns
  <2> QED
    BY <2>2, <2>3, <2>5, <2>6, CallingLifecycle DEF Begun
<1>4. ASSUME NEW t \in Threads, Post(t) PROVE Lifecycle'
  <2> DEFINE p == [fn |-> PostedFn(t), ent |-> PostedEnt(t), by |-> t]
  <2>1. /\ execq' = Append(execq, p) /\ pc[t] = "post" /\ pc' = [pc EXCEPT ![t] = "wait"]
        /\ UNCHANGED <<op, todo, state, m_started>>
    BY <1>4 DEF Post, PostedFn, PostedEnt, Goto, ents
  <2>2. in_posted' = in_posted
    BY <1>4, Zenon DEF Post
  <2>3. p \in Entries /\ p.by = t
    BY <1>0, <2>1, PostedEntry
  <2> HIDE DEF p
  <2>4. pc'[t] = "wait" /\ \A u \in Threads : u # t => pc'[u] = pc[u]
    BY <1>0, <2>1
  <2>5. ASSUME in_posted PROVE execq'[1] = execq[1] /\ execq[1].by # t
    <3>1. execq # <<>> /\ 1 \in Places
      BY <1>0, <2>5, Taking DEF Places
    <3>2. execq'[1] = execq[1]
      BY <1>0, <2>1, <2>3, <3>1, Posting DEF Places
    <3> QED
      BY <1>0, <2>1, <3>1, <3>2 DEF QueueOfWaiting
  <2>6. ASSUME NEW u \in Threads PROVE Unserved(u)' <=> Unserved(u)
    <3>1. CASE u = t
      BY <2>1, <2>2, <2>4, <2>5, <3>1, Zenon DEF Unserved
    <3>2. CASE u # t
      BY <2>2, <2>4, <2>5, <3>2, Zenon DEF Unserved
    <3> QED
      BY <3>1, <3>2
  <2>7. ASSUME NEW u \in Threads, NEW e \in Ents
        PROVE  /\ PendingStart(u, e)' <=> PendingStart(u, e)
               /\ PendingStop(u, e)' <=> PendingStop(u, e)
               /\ InStop(u, e)' => InStop(u, e)
               /\ PendingStart(u, e)' /\ pc'[u] = "post" => pc[u] = "post"
    <3>1. PostedFn(u)' = PostedFn(u) /\ PostedEnt(u)' = PostedEnt(u)
      BY <2>1, PostedKept
    <3>2. /\ pc'[u] \in {"post", "wait"} <=> pc[u] \in {"post", "wait"}
          /\ pc'[u] = "post" => pc[u] = "post"
      BY <2>1, <2>4
    <3> QED
      BY <2>6, <3>1, <3>2, PendingKept
  <2>8. \A e \in Ents : EntityKept(e)
    BY <2>1 DEF EntityKept
  <2> QED
    BY <1>0, <2>7, <2>8, LifecycleKept
<1>5. CASE Execute
  <2>1. /\ pc[Run] = "idle" /\ execq # <<>> /\ UNCHANGED <<execq, op, todo>>
        /\ pc' = [pc EXCEPT ![Run] = "callback"]
    BY <1>5 DEF Execute, RunReady, Goto
  <2>2. ~in_posted /\ in_posted'
    <3>1. in_posted' = TRUE
      BY <1>5, Zenon DEF Execute
    <3>2. ~in_posted
      BY <1>0, <2>1
    <3> QED
      BY <3>1, <3>2
  <2>3. PICK b \in Threads, e \in Ents, fn \in EntityFns :
          /\ execq[1] = [fn |-> fn, ent |-> e, by |-> b] /\ Head(execq) = execq[1]
          /\ 1 \in Places
    <3>1. execq[1] \in Entries /\ Head(execq) = execq[1] /\ 1 \in Places
      BY <1>0, <2>1, Taking DEF Places
    <3>2. /\ execq[1] = [fn |-> execq[1].fn, ent |-> execq[1].ent, by |-> execq[1].by]
          /\ execq[1].fn \in EntityFns /\ execq[1].ent \in Ents /\ execq[1].by \in Threads
      BY <3>1 DEF Entries
    <3> QED
      BY <3>1, <3>2
  <2>4. pc[b] = "wait" /\ PostedFn(b) = fn /\ PostedEnt(b) = e
    BY <1>0, <2>3 DEF QueueOfWaiting
  <2>5. /\ b # Run /\ pc'[Run] = "callback" /\ \A u \in Threads : u # Run => pc'[u] = pc[u]
    BY <1>0, <2>1, <2>4
  <2>6. execq'[1].by = b
    BY <2>1, <2>3
  <2>7. ASSUME NEW u \in Threads, NEW f \in Ents
        PROVE  /\ PendingStart(u, f)' <=> PendingStart(u, f) /\ u # b
               /\ PendingStop(u, f)' <=> PendingStop(u, f) /\ u # b
               /\ InStop(u, f)' <=> InStop(u, f)
    <3>1. PostedFn(u)' = PostedFn(u) /\ PostedEnt(u)' = PostedEnt(u)
      BY <2>1, PostedKept
    <3>2. pc'[u] \in {"post", "wait"} <=> pc[u] \in {"post", "wait"}
      BY <2>1, <2>5
    <3>3. Unserved(u)' <=> Unserved(u) /\ u # b
      <4>1. CASE u = b
        BY <2>2, <2>4, <2>5, <2>6, <4>1 DEF Unserved
      <4>2. CASE u # b
        BY <2>1, <2>2, <2>5, <2>6, <4>2 DEF Unserved
      <4> QED
        BY <4>1, <4>2
    <3> QED
      BY <3>1, <3>2, <3>3 DEF PendingStart, PendingStop, InStart, InStop
  <2>8. /\ Unserved(b)
        /\ \A f \in Ents : PendingStart(b, f) <=> fn = "start" /\ f = e
        /\ \A f \in Ents : PendingStop(b, f) <=> fn = "stop" /\ f = e
    BY <2>2, <2>4 DEF Unserved, PendingStart, PendingStop, InStart, InStop
  <2>9. ASSUME NEW f \in Ents, f # e \/ fn = "visit"
        PROVE  (StartPending(f)' <=> StartPending(f)) /\ (StopPending(f)' <=> StopPending(f))
    <3>1. ~PendingStart(b, f) /\ ~PendingStop(b, f)
      BY <2>8, <2>9
    <3> QED
      BY <2>7, <3>1 DEF StartPending, StopPending
  <2>10. \A f \in Ents : /\ f # e \/ fn = "visit" => state'[f] = state[f]
                         /\ f # e \/ fn = "visit" => m_started'[f] = m_started[f]
    BY <1>0, <1>5, <2>3 DEF Execute, ents, EntityFns
  <2>11. \A f \in Ents : Ahead(f) /\ \A u \in Threads : StartOnce(u, f)
    BY <1>0 DEF Lifecycle
  <2>12. fn = "start" => ~StartPending(e)' /\ \A u \in Threads : ~PendingStart(u, e)'
    <3>1. ASSUME NEW u \in Threads, fn = "start" PROVE ~PendingStart(u, e)'
      BY <2>7, <2>8, <2>11, <3>1 DEF StartOnce
    <3> QED
      BY <3>1 DEF StartPending
  <2>13. fn = "stop" => /\ ~StartPending(e)' /\ m_started[e] = 2
                        /\ \A u \in Threads : ~PendingStart(u, e)'
    <3>1. ASSUME fn = "stop" PROVE m_started[e] = 2
      <4>1. InStop(b, e)
        BY <2>8, <3>1 DEF PendingStop
      <4> QED
        BY <1>0, <4>1 DEF Lifecycle
    <3>2. ASSUME NEW u \in Threads, fn = "stop", PendingStart(u, e) PROVE FALSE
      <4>1. pc[u] = "wait" /\ PostedFn(u) = "start" /\ PostedEnt(u) = e
        BY <2>11, <3>1, <3>2 DEF StartOnce, PendingStart, InStart
      <4>2. PICK i \in Places : execq[i].by = u
        BY <1>0, <4>1 DEF QueueOfWaiting
      <4>3. execq[i].fn = "start" /\ execq[i].ent = e
        BY <1>0, <4>1, <4>2 DEF QueueOfWaiting
      <4>4. i < 1
        BY <1>0, <2>3, <3>2, <4>3 DEF StartBeforeStop
      <4> QED
        BY <4>4 DEF Places
    <3> QED
      BY <2>7, <3>1, <3>2 DEF StartPending
  <2>14. fn = "start" =>
           /\ state'[e] \in {"open", "closed"}
           /\ state'[e] = "open" => m_started'[e] = m_started[e]
           /\ state'[e] = "closed" => m_started'[e] = 2
           /\ m_started[e] = 2 => m_started'[e] = 2
    <3>1. ASSUME fn = "start"
          PROVE  \/ state' = [state EXCEPT ![e] = "open"] /\ m_started' = m_started
                 \/ /\ state' = [state EXCEPT ![e] = "closed"]
                    /\ m_started' = [m_started EXCEPT ![e] = 2]
      BY <1>5, <2>3, <3>1 DEF Execute
    <3> QED
      BY <1>0, <3>1
  <2>15. fn = "stop" =>
           /\ m_started'[e] = m_started[e]
           /\ state'[e] = IF state[e] = "open" THEN "closing" ELSE state[e]
    <3>1. ASSUME fn = "stop"
          PROVE  /\ state' = [state EXCEPT ![e] = IF @ = "open" THEN "closing" ELSE @]
                 /\ m_started' = m_started
      BY <1>5, <2>3, <3>1 DEF Execute
    <3> QED
      BY <1>0, <3>1
  <2>16. ASSUME NEW f \in Ents PROVE Ahead(f)'
    <3>1. CASE f # e \/ fn = "visit"
      BY <2>9, <2>10, <2>11, <3>1 DEF Ahead
    <3>2. CASE f = e /\ fn = "start"
      <4>1. ASSUME m_started[e] = 2 PROVE StopPending(e)'
        <5>1. StartPending(e)
          BY <2>8, <3>2 DEF StartPending
        <5>2. PICK u \in Threads : PendingStop(u, e)
          BY <2>11, <4>1, <5>1 DEF Ahead, StopPending
        <5>3. u # b
          BY <2>8, <3>2, <5>2
        <5> QED
          BY <2>7, <5>2, <5>3 DEF StopPending
      <4>2. m_started[e] \in {1, 2}
        BY <1>0, <2>8, <2>11, <3>2 DEF StartOnce
      <4> QED
        BY <2>12, <2>14, <3>2, <4>1, <4>2 DEF Ahead
    <3>3. CASE f = e /\ fn = "stop"
      <4>1. m_started'[e] = 2 /\ ~StartPending(e)' /\ state'[e] # "open" /\ state'[e] # "none"
        <5>1. state[e] # "none"
          BY <2>11, <2>13, <3>3 DEF Ahead
        <5> QED
          BY <2>13, <2>15, <3>3, <5>1
      <4> QED
        BY <3>3, <4>1 DEF Ahead
    <3> QED
      BY <3>1, <3>2, <3>3 DEF EntityFns
  <2>17. ASSUME NEW f \in Ents, NEW u \in Threads PROVE StartOnce(u, f)'
    <3>1. CASE f # e \/ fn = "visit"
      BY <2>5, <2>7, <2>8, <2>10, <2>11, <3>1 DEF StartOnce
    <3>2. CASE f = e /\ fn # "visit"
      BY <2>12, <2>13, <3>2 DEF StartOnce, EntityFns
    <3> QED
      BY <3>1, <3>2
  <2>18. ASSUME NEW f \in Ents, NEW u \in Threads, InStop(u, f)' PROVE m_started'[f] = 2
    <3>1. m_started[f] = 2
      BY <1>0, <2>7, <2>18 DEF Lifecycle
    <3> QED
      BY <2>10, <2>14, <2>15, <3>1 DEF EntityFns
  <2> QED
    BY <2>16, <2>17, <2>18 DEF Lifecycle
<1>6. CASE Answers
  <2>1. in_posted /\ execq # <<>> /\ UNCHANGED <<todo, state, m_started>>
    BY <1>0, <1>6 DEF Answers, EndHandler, ents
  <2>2. in_posted' = FALSE
    BY <1>6, Zenon DEF Answers, EndHandler
  <2>3. /\ execq[1] \in Entries /\ Head(execq) = execq[1] /\ 1 \in Places
        /\ pc[Run] \in {"callback", "callback_done"}
    BY <1>0, <1>6, <2>1, Taking DEF Answers, EndHandler, Places
  <2>4. PICK t \in Threads : t = execq[1].by /\ pc[t] = "wait" /\ t # Run
    BY <1>0, <2>3 DEF QueueOfWaiting, Entries
  <2>5. /\ pc' = [pc EXCEPT ![Run] = "idle",
                            ![t] = IF op[t].fn = "stop_all" THEN "next" ELSE "idle"]
        /\ op' = IF op[t].fn = "stop_all" THEN op ELSE [op EXCEPT ![t] = NoCall]
    BY <1>6, <2>1, <2>3, <2>4 DEF Answers, EndHandler
  <2>6. /\ pc'[Run] = "idle" /\ pc'[t] \in {"next", "idle"}
        /\ \A u \in Threads : u # Run /\ u # t => pc'[u] = pc[u] /\ op'[u] = op[u]
    BY <1>0, <2>4, <2>5
  <2>7. ASSUME NEW u \in Threads, NEW e \in Ents
        PROVE  /\ PendingStart(u, e)' <=> PendingStart(u, e)
               /\ PendingStop(u, e)' <=> PendingStop(u, e)
               /\ InStop(u, e)' => InStop(u, e)
               /\ PendingStart(u, e)' /\ pc'[u] = "post" => pc[u] = "post"
    <3>1. CASE u = Run
      BY <2>3, <2>6, <3>1 DEF PendingStart, PendingStop, InStart, InStop
    <3>2. CASE u = t
      BY <2>1, <2>4, <2>6, <3>2 DEF PendingStart, PendingStop, InStart, InStop, Unserved
    <3>3. CASE u # Run /\ u # t
      <4>1. pc'[u] = pc[u] /\ PostedFn(u)' = PostedFn(u) /\ PostedEnt(u)' = PostedEnt(u)
        BY <2>1, <2>6, <3>3, PostedKept
      <4>2. Unserved(u)' <=> Unserved(u)
        BY <2>2, <2>4, <3>3, <4>1 DEF Unserved
      <4> QED
        BY <4>1, <4>2, PendingKept
    <3> QED
      BY <3>1, <3>2, <3>3
  <2>8. \A e \in Ents : EntityKept(e)
    BY <2>1 DEF EntityKept
  <2> QED
    BY <1>0, <2>7, <2>8, LifecycleKept
<1> QED
  BY <1>1, <1>2, <1>3, <1>4, <1>5, <1>6, QuietSteps

\* A start is posted only before the exchange of the stop, and so before it.
LEMMA StartBeforeStopStep ==
    ASSUME Inv, Next
    PROVE  StartBeforeStop'
<1> USE NetIpAssumption
<1>0. /\ TypeOK /\ CallShape /\ Lifecycle /\ StartBeforeStop
      /\ QueueOfWaiting /\ Executed /\ execq \in Seq(Entries)
      /\ in_posted => execq # <<>>
  BY DEF Inv, CallInv, TypeOK, Entries, EntityFns, QueueShape, Executed
<1>1. CASE execq' = execq
  BY <1>0, <1>1 DEF StartBeforeStop, Places
<1>2. ASSUME NEW t \in Threads, Post(t) PROVE StartBeforeStop'
  <2> DEFINE p == [fn |-> PostedFn(t), ent |-> PostedEnt(t), by |-> t]
  <2>1. execq' = Append(execq, p) /\ pc[t] = "post"
    BY <1>2 DEF Post, PostedFn, PostedEnt
  <2>2. p \in Entries /\ p.fn = PostedFn(t) /\ p.ent = PostedEnt(t)
    BY <1>0, <2>1, PostedEntry
  <2> HIDE DEF p
  <2> DEFINE n == Len(execq)
  <2>3. /\ n \in Nat /\ Places = 1..n /\ Places' = 1..(n + 1)
        /\ \A i \in 1..n : execq'[i] = execq[i] /\ execq[i] \in Entries
        /\ execq'[n + 1] = p
    <3>1. /\ Len(execq') = Len(execq) + 1 /\ execq'[Len(execq) + 1] = p
          /\ \A i \in 1..Len(execq) : execq'[i] = execq[i]
      BY <1>0, <2>1, <2>2, Posting
    <3> QED
      BY <1>0, <3>1 DEF Places
  <2> HIDE DEF n
  <2>4. ASSUME PostedFn(t) = "start", NEW j \in 1..n, execq[j].fn = "stop",
               execq[j].ent = PostedEnt(t)
        PROVE  FALSE
    <3>1. PICK e \in Ents : e = PostedEnt(t)
      BY <1>0, <2>1, PostedEntry
    <3>2. PendingStart(t, e)
      BY <2>1, <2>4, <3>1 DEF PendingStart, Unserved, InStart
    <3>3. m_started[e] = 1
      BY <1>0, <2>1, <3>2 DEF Lifecycle, StartOnce
    <3>4. PICK u \in Threads : u = execq[j].by
      BY <2>3 DEF Entries
    <3>5. InStop(u, e)
      BY <1>0, <2>3, <2>4, <3>1, <3>4 DEF QueueOfWaiting, InStop
    <3> QED
      BY <1>0, <3>3, <3>5 DEF Lifecycle
  <2>5. ASSUME NEW i \in 1..(n + 1), NEW j \in 1..(n + 1), execq'[i].fn = "start",
               execq'[j].fn = "stop", execq'[i].ent = execq'[j].ent
        PROVE  i < j
    <3>1. CASE i \in 1..n /\ j \in 1..n
      BY <1>0, <2>3, <2>5, <3>1 DEF StartBeforeStop
    <3>2. CASE i \in 1..n /\ j = n + 1
      BY <2>3, <3>2
    <3>3. CASE i = n + 1 /\ j \in 1..n
      BY <2>2, <2>3, <2>4, <2>5, <3>3
    <3>4. CASE i = n + 1 /\ j = n + 1
      BY <2>5, <3>4
    <3> QED
      BY <2>3, <3>1, <3>2, <3>3, <3>4
  <2> QED
    BY <2>3, <2>5 DEF StartBeforeStop
<1>3. CASE Answers
  <2>1. in_posted /\ execq # <<>> /\ execq' = Tail(execq)
    BY <1>0, <1>3 DEF Answers, EndHandler
  <2> DEFINE n == Len(execq)
  <2>2. /\ n \in Nat \ {0} /\ Places = 1..n /\ Places' = 1..(n - 1)
        /\ \A i \in 1..(n - 1) : execq'[i] = execq[i + 1]
    BY <1>0, <2>1, Taking DEF Places
  <2> HIDE DEF n
  <2>3. ASSUME NEW i \in 1..(n - 1), NEW j \in 1..(n - 1), execq'[i].fn = "start",
               execq'[j].fn = "stop", execq'[i].ent = execq'[j].ent
        PROVE  i < j
    <3>1. i + 1 \in Places /\ j + 1 \in Places
      BY <2>2
    <3>2. i + 1 < j + 1
      BY <1>0, <2>2, <2>3, <3>1 DEF StartBeforeStop
    <3> QED
      BY <2>2, <3>2
  <2> QED
    BY <2>2, <2>3 DEF StartBeforeStop
<1>4. CASE Quiet \/ CallPosts \/ Execute \/ \E t \in Threads : StopAllPosts(t)
  <2>1. execq' = execq
    BY <1>4 DEF Quiet, CallPosts, CallStart, CallStop, CallVisit, CallEntity, Execute,
       StopAllPosts, StopAllNext
  <2> QED
    BY <1>1, <2>1
<1> QED
  BY <1>2, <1>3, <1>4, QuietSteps

-----------------------------------------------------------------------------
(* stop_all.                                                               *)

\* what a stop_all does with m_mutex, its list and its history, no one else does
LEMMA StopAllAlone ==
    ASSUME Inv, Next
    PROVE  \/ UNCHANGED <<m_mutex, todo, stopping>>
           \/ \E t \in AppThreads : StopAllStep(t)
<1>0. Run \notin AppThreads /\ Threads = AppThreads \cup {Run}
  BY NetIpAssumption DEF Threads
<1>1. ASSUME NEW t \in Threads, Call(t) \/ LockedStep(t) \/ Post(t)
      PROVE  UNCHANGED <<m_mutex, todo, stopping>>
  BY <1>1 DEF Call, CallLocked, CallStart, CallStop, CallVisit, CallEntity, LockedStep, MakeUdp,
     MakeConnector, MakeAcceptor, Remove, RemoveAll, EndLocked, Post
<1>2. CASE WorkerStart \/ WorkerStop \/ WorkerReset \/ Joined \/ Execute \/ EndHandler
           \/ RunReturns \/ \E e \in Ents : Drained(e) \/ Handler(e)
  BY <1>2 DEF WorkerStart, WorkerStop, WorkerReset, Joined, RunReturns, WorkerStep, Execute,
     EndHandler, Drained, Handler
<1> QED
  BY <1>0, <1>1, <1>2 DEF Next, RunStep

\* An entity that has been started is not made again, nor started.
LEMMA NeverReopened ==
    ASSUME Inv, Next, NEW e \in Ents, state[e] \notin {"none", "new"}
    PROVE  state'[e] \notin {"none", "new"} /\ (state'[e] = "open" => state[e] = "open")
<1>0. /\ Lifecycle /\ QueueOfWaiting /\ Executed /\ execq \in Seq(Entries)
      /\ state \in [Ents -> States]
      /\ in_posted => pc[Run] # "idle"
  BY DEF Inv, CallInv, TypeOK, Entries, EntityFns, QueueShape, Executed, States
<1>1. CASE Quiet
  <2>1. EntityKept(e)
    BY <1>1 DEF Quiet
  <2> QED
    BY <2>1 DEF EntityKept
<1>2. CASE CallPosts \/ Answers \/ \E t \in Threads : StopAllPosts(t) \/ Post(t)
  <2>1. state' = state
    BY <1>2 DEF CallPosts, CallStart, CallStop, CallVisit, CallEntity, Answers, EndHandler,
       StopAllPosts, StopAllNext, Post, ents
  <2> QED
    BY <2>1
<1>3. CASE Execute
  <2>1. execq # <<>> /\ pc[Run] = "idle"
    BY <1>3 DEF Execute, RunReady
  <2>2. execq[1] \in Entries /\ Head(execq) = execq[1] /\ 1 \in Places
    BY <1>0, <2>1, Taking DEF Places
  <2>3. CASE execq[1].fn = "start"
    <3>1. PICK b \in Threads, f \in Ents : b = execq[1].by /\ f = execq[1].ent
      BY <2>2 DEF Entries
    <3>2. PendingStart(b, f)
      <4>1. ~in_posted
        BY <1>0, <2>1
      <4> QED
        BY <1>0, <2>2, <2>3, <3>1, <4>1
           DEF QueueOfWaiting, PendingStart, Unserved, InStart
    <3>3. state[f] = "new"
      BY <1>0, <3>2 DEF Lifecycle, StartOnce
    <3>4. \E s : state' = [state EXCEPT ![f] = s]
      BY <1>3, <2>2, <2>3, <3>1 DEF Execute
    <3> QED
      BY <1>0, <3>3, <3>4
  <2>4. CASE execq[1].fn = "stop"
    <3>1. state' = [state EXCEPT ![execq[1].ent] = IF @ = "open" THEN "closing" ELSE @]
      BY <1>3, <2>2, <2>4 DEF Execute
    <3> QED
      BY <1>0, <3>1
  <2>5. CASE execq[1].fn \notin {"start", "stop"}
    <3>1. state' = state
      BY <1>3, <2>2, <2>5 DEF Execute, ents
    <3> QED
      BY <3>1
  <2> QED
    BY <2>3, <2>4, <2>5
<1> QED
  BY <1>1, <1>2, <1>3, QuietSteps

\* A thread's stop of an open entity does not return before it is closed.
LEMMA StopOutlasts ==
    ASSUME Inv, Next, NEW e \in Ents, NEW u \in Threads, op[u] = [fn |-> "stop", ent |-> e],
           state[e] = "open"
    PROVE  op'[u] = op[u]
<1> USE NetIpAssumption
<1>0. /\ \A t \in Threads : Shape(t)
      /\ QueueOfWaiting /\ Executed /\ execq \in Seq(Entries) /\ op \in [Threads -> Ops]
      /\ pc \in [Threads -> Steps]
      /\ in_posted => execq # <<>>
  BY DEF Inv, CallInv, CallShape, TypeOK, Entries, EntityFns, QueueShape, Executed, Ops, Steps
<1>1. pc[u] \in {"post", "wait"}
  <2>1. Shape(u) /\ pc[u] \in Steps
    BY <1>0
  <2>2. NoCall.fn = "none"
    BY DEF NoCall
  <2> QED
    BY <2>1, <2>2 DEF Shape, Steps
<1>2. CASE Quiet
  BY <1>1, <1>2 DEF Quiet
<1>3. CASE CallPosts
  <2>1. PICK t \in Threads, f \in Ents, fn \in EntityFns : CallEntity(t, fn, f)
    BY <1>3 DEF CallPosts, CallStart, CallStop, CallVisit, EntityFns
  <2>2. pc[t] \in {"idle", "callback"} /\ op' = [op EXCEPT ![t] = [fn |-> fn, ent |-> f]]
    BY <2>1 DEF CallEntity, MayCall
  <2> QED
    BY <1>0, <1>1, <2>2
<1>4. CASE Execute \/ \E t \in Threads : StopAllPosts(t) \/ Post(t)
  BY <1>4 DEF Execute, StopAllPosts, StopAllNext, Post
<1>5. CASE Answers
  <2>1. in_posted /\ execq # <<>>
    BY <1>0, <1>5 DEF Answers
  <2>2. execq[1] \in Entries /\ Head(execq) = execq[1] /\ 1 \in Places
    BY <1>0, <2>1, Taking DEF Places
  <2>3. PICK t \in Threads : t = execq[1].by
    BY <2>2 DEF Entries
  <2>4. t # u
    <3>1. ASSUME t = u PROVE FALSE
      <4>1. execq[1].fn = "stop" /\ execq[1].ent = e
        <5>1. PostedFn(u) = "stop" /\ PostedEnt(u) = e
          BY DEF PostedFn, PostedEnt
        <5> QED
          <6>1. execq[1].fn = PostedFn(execq[1].by) /\ execq[1].ent = PostedEnt(execq[1].by)
            BY <1>0, <2>2 DEF QueueOfWaiting
          <6> QED
            BY <2>3, <3>1, <5>1, <6>1
      <4> QED
        BY <1>0, <2>1, <4>1 DEF Executed
    <3> QED
      BY <3>1
  <2>5. op' = op \/ op' = [op EXCEPT ![t] = NoCall]
    BY <1>5, <2>1, <2>2, <2>3 DEF Answers, EndHandler
  <2> QED
    BY <1>0, <2>4, <2>5
<1> QED
  BY <1>2, <1>3, <1>4, <1>5, QuietSteps

LEMMA StopAllInvStep ==
    ASSUME Inv, Next
    PROVE  StopAllInv'
<1> USE NetIpAssumption
<1>0. /\ \A t \in Threads : Shape(t)
      /\ Lifecycle /\ StopAllInv /\ todo \in Seq(Ents) /\ op \in [Threads -> Ops]
      /\ stopping \subseteq Ents /\ AppThreads \subseteq Threads /\ NoOne \notin AppThreads
      /\ m_started \in [Ents -> 0..2]
  BY DEF Inv, CallInv, CallShape, TypeOK, Ops, Threads
<1>1. ASSUME UNCHANGED <<m_mutex, todo, stopping>> PROVE StopAllInv'
  <2>1. ASSUME NEW e \in stopping
        PROVE  state'[e] \notin {"none", "new"} /\ (state'[e] = "open" => state[e] = "open")
    BY <1>0, <2>1, NeverReopened DEF StopAllInv
  <2>2. ASSUME NEW e \in stopping \ Range(todo), state'[e] = "open"
        PROVE  \E t \in Threads : op'[t] = [fn |-> "stop", ent |-> e]
    <3>1. state[e] = "open" /\ e \in Ents
      BY <1>0, <2>1, <2>2
    <3>2. PICK t \in Threads : op[t] = [fn |-> "stop", ent |-> e]
      BY <1>0, <2>2, <3>1 DEF StopAllInv, StopAllStops
    <3>3. op'[t] = op[t]
      BY <3>1, <3>2, StopOutlasts
    <3> QED
      BY <3>2, <3>3
  <2> QED
    BY <1>0, <1>1, <2>1, <2>2 DEF StopAllInv, StopAllStops
<1>2. ASSUME NEW t \in AppThreads, StopAll(t) PROVE StopAllInv'
  <2>1. /\ m_mutex' = t /\ todo' = m_udp_entities \o m_connectors \o m_acceptors
        /\ stopping' = {e \in Contained : state[e] = "open"} /\ state' = state
    BY <1>2 DEF StopAll, ents
  <2>2. Range(todo') = Contained
    <3>1. /\ m_udp_entities \in Seq(Udps) /\ m_connectors \in Seq(Connectors)
          /\ m_acceptors \in Seq(Acceptors)
      BY DEF Inv, TypeOK
    <3>2. m_udp_entities \in Seq(Ents) /\ m_connectors \in Seq(Ents) /\ m_acceptors \in Seq(Ents)
      BY <3>1 DEF Ents
    <3> QED
      BY <2>1, <3>2, RangeOfThree DEF Contained
  <2> QED
    BY <1>0, <2>1, <2>2 DEF StopAllInv, StopAllStops
<1>3. ASSUME NEW t \in AppThreads, StopAllNext(t) PROVE StopAllInv'
  <2>1. /\ UNCHANGED <<m_mutex, stopping, state, op>> /\ pc[t] = "next" /\ todo # <<>>
        /\ todo' = todo \/ (todo' = Tail(todo) /\ m_started[Head(todo)] # 1)
    BY <1>3 DEF StopAllNext
  <2>2. CASE todo' = todo
    BY <1>0, <2>1, <2>2 DEF StopAllInv, StopAllStops
  <2>3. CASE todo' = Tail(todo) /\ m_started[Head(todo)] # 1
    <3>1. PICK h \in Ents : h = Head(todo) /\ Range(todo) = {h} \cup Range(todo')
      BY <1>0, <2>1, <2>3, RangeOfTail
    <3>2. ASSUME state[h] = "open" PROVE \E u \in Threads : op[u] = [fn |-> "stop", ent |-> h]
      <4>1. StopPending(h)
        BY <1>0, <2>3, <3>1, <3>2 DEF Lifecycle, Ahead
      <4>2. PICK u \in Threads : InStop(u, h)
        BY <4>1 DEF StopPending, PendingStop
      <4>3. op[u].fn # "stop_all"
        <5>1. m_mutex = t /\ u # t
          BY <1>0, <2>1, <4>2 DEF Shape, InStop
        <5> QED
          BY <1>0, <4>2, <5>1 DEF Shape, InStop, EntityFns
      <4>4. op[u] \in Ops /\ op[u].fn = "stop" /\ op[u].ent = h
        BY <1>0, <4>2, <4>3 DEF InStop, PostedFn, PostedEnt
      <4>5. op[u] = [fn |-> "stop", ent |-> h]
        BY <4>4 DEF Ops
      <4> QED
        BY <4>5
    <3>3. ASSUME NEW e \in stopping \ Range(todo')
          PROVE  state[e] # "open" \/ \E u \in Threads : op[u] = [fn |-> "stop", ent |-> e]
      BY <1>0, <3>1, <3>2, <3>3 DEF StopAllInv, StopAllStops
    <3> QED
      BY <1>0, <2>1, <3>3 DEF StopAllInv, StopAllStops
  <2> QED
    BY <2>1, <2>2, <2>3
<1>4. ASSUME NEW t \in AppThreads, StopAllEnds(t) PROVE StopAllInv'
  BY <1>4 DEF StopAllEnds, StopAllInv, StopAllStops
<1> QED
  BY <1>1, <1>2, <1>3, <1>4, StopAllAlone DEF StopAllStep

-----------------------------------------------------------------------------
(* The invariant.                                                          *)

LEMMA InitInv ==
    ASSUME Init
    PROVE  Inv
<1> USE NetIpAssumption
<1>1. TypeOK
  <2>1. \A t \in Threads : NoCall \in Ops
    BY DEF NoCall, Ops
  <2>2. op \in [Threads -> Ops]
    BY <2>1 DEF Init
  <2>3. in_posted \in BOOLEAN
    BY Zenon DEF Init
  <2>4. pc \in [Threads -> Steps] /\ m_started \in [Ents -> 0..2] /\ state \in [Ents -> States]
    BY DEF Init, Steps, States
  <2>5. /\ m_udp_entities \in Seq(Udps) /\ m_connectors \in Seq(Connectors)
        /\ m_acceptors \in Seq(Acceptors) /\ todo \in Seq(Ents) /\ execq \in Seq(Entries)
        /\ m_mutex = NoOne /\ worker = "new" /\ stopping = {}
    BY DEF Init
  <2> QED
    BY <2>2, <2>3, <2>4, <2>5 DEF TypeOK, Ops, Steps, States, Entries, EntityFns
<1>2. /\ execq = <<>> /\ \A t \in Threads : pc[t] = "idle" /\ op[t] = NoCall
      /\ NoCall.fn = "none" /\ Run \in Threads /\ Places = {}
  BY DEF Init, NoCall, Threads, Places
<1>3. CallShape
  <2>1. m_mutex = NoOne /\ NoOne \notin Threads
    BY DEF Init, Threads
  <2> QED
    BY <1>2, <2>1 DEF CallShape, Shape
<1>4. QueueShape
  <2>1. ~in_posted
    BY Zenon DEF Init
  <2> QED
    BY <1>2, <2>1 DEF QueueShape, QueueOfWaiting, Executed
<1>5. Lifecycle
  <2>1. \A e \in Ents, t \in Threads : ~PendingStart(t, e) /\ ~InStop(t, e)
    BY <1>2 DEF PendingStart, InStart, InStop
  <2>2. \A e \in Ents : m_started[e] = 0 /\ state[e] = "none"
    BY DEF Init
  <2> QED
    BY <2>1, <2>2 DEF Lifecycle, Ahead, StartOnce, StartPending
<1>6. StartBeforeStop
  BY <1>2 DEF StartBeforeStop
<1>7. StopAllInv
  BY DEF Init, StopAllInv, StopAllStops
<1> QED
  BY <1>1, <1>3, <1>4, <1>5, <1>6, <1>7 DEF Inv, CallInv

LEMMA InvStep ==
    ASSUME Inv, [Next]_vars
    PROVE  Inv'
<1>1. CASE Next
  BY <1>1, TypeStep, CallShapeStep, QueueShapeStep, LifecycleStep, StartBeforeStopStep,
     StopAllInvStep DEF Inv, CallInv
<1>2. CASE UNCHANGED vars
  <2>1. /\ UNCHANGED <<m_mutex, m_udp_entities, m_connectors, m_acceptors, m_started, state>>
        /\ UNCHANGED <<execq, in_posted, pc, op, todo, worker, program, stopping>>
    BY <1>2 DEF vars, containers, ents
  <2>2. TypeOK' /\ CallShape' /\ QueueShape' /\ StartBeforeStop' /\ StopAllInv'
    BY <2>1 DEF Inv, CallInv, TypeOK, CallShape, Shape, QueueShape, QueueOfWaiting, Executed,
       Places, PostedFn, PostedEnt, StartBeforeStop, StopAllInv, StopAllStops
  <2>3. Quiet
    <3>1. in_posted => pc[Run] # "idle"
      BY DEF Inv, CallInv, QueueShape, Executed
    <3>2. in_posted' = in_posted
      BY <2>1, Zenon
    <3> QED
      BY <2>1, <3>1, <3>2 DEF Quiet, EntityKept
  <2>4. Lifecycle'
    BY <2>3, QuietLifecycle
  <2> QED
    BY <2>2, <2>4 DEF Inv, CallInv
<1> QED
  BY <1>1, <1>2

LEMMA Invariant == Spec => []Inv
<1> QED
  BY InitInv, InvStep, PTL DEF Spec

-----------------------------------------------------------------------------
(* What follows.                                                           *)

\* Every container holds entities of its kind, every call and posted
\* function is one that net_ip.hpp and net_entity.hpp make.
THEOREM TypeCorrect == Spec => []TypeOK
<1>1. Inv => TypeOK
  BY DEF Inv
<1> QED
  BY <1>1, Invariant, PTL

\* net_ip::stop_all: the entities that were open when it took m_mutex and
\* that its loops are past are not open any more, or another thread's stop
\* of them is under way.
THEOREM StopAllIsComplete == Spec => []StopAllStops
<1>1. Inv => StopAllStops
  BY DEF Inv, StopAllInv
<1> QED
  BY <1>1, Invariant, PTL

\* net_entity::is_started and net_entity_common::is_started: m_started, which
\* the compare and exchange of start and stop move ahead of the entity, agrees
\* with what an acceptor or UDP entity is when no call on it is under way; a
\* connector, whose finish_close leaves m_started alone, is started while it
\* is open and may say so when it no longer is.
THEOREM IsStartedIsTrue == Spec => []IsStartedAgrees
<1>1. ASSUME Inv, NEW e \in Ents,
             \A t \in Threads : /\ op[t].ent # e
                                /\ op[t].fn = "stop_all" => e \notin Range(todo)
      PROVE  /\ state[e] = "open" => IsStarted(e) = {TRUE}
             /\ IsStarted(e) = {TRUE} =>
                  IF e \in Connectors THEN state[e] \notin {"none", "new"}
                                      ELSE state[e] = "open"
  <2>1. ASSUME NEW t \in Threads, pc[t] \in {"post", "wait"} PROVE PostedEnt(t) # e
    <3>1. CASE op[t].fn = "stop_all"
      <4>1. todo \in Seq(Ents) /\ todo # <<>>
        BY <1>1, <2>1, <3>1 DEF Inv, TypeOK, CallInv, CallShape, Shape, EntityFns
      <4>2. Head(todo) \in Range(todo)
        BY <4>1, RangeOfTail
      <4> QED
        BY <1>1, <3>1, <4>2 DEF PostedEnt
    <3>2. CASE op[t].fn # "stop_all"
      BY <1>1, <3>2 DEF PostedEnt
    <3> QED
      BY <3>1, <3>2
  <2>2. ~StartPending(e) /\ ~StopPending(e)
    BY <2>1 DEF StartPending, StopPending, PendingStart, PendingStop, InStart, InStop
  <2>3. /\ state[e] = "open" => m_started[e] = 1
        /\ m_started[e] = 1 =>
             IF e \in Connectors THEN state[e] \notin {"none", "new"} ELSE state[e] = "open"
    BY <1>1, <2>2 DEF Inv, Lifecycle, Ahead
  <2>4. ASSUME state[e] = "open" PROVE IsStarted(e) = {TRUE}
    <3>1. Alive(e) /\ (m_started[e] = 1) = TRUE
      BY <2>3, <2>4 DEF Alive
    <3> QED
      BY <3>1, Zenon DEF IsStarted, Access
  <2>5. ASSUME m_started[e] # 1 PROVE IsStarted(e) # {TRUE}
    <3>1. (m_started[e] = 1) = FALSE
      BY <2>5
    <3>2. IsStarted(e) = {FALSE} \/ IsStarted(e) = {}
      BY <3>1, Zenon DEF IsStarted, Access
    <3> QED
      BY <3>2
  <2> QED
    BY <2>3, <2>4, <2>5
<1>2. Inv => IsStartedAgrees
  BY <1>1, Zenon DEF IsStartedAgrees
<1> QED
  BY <1>2, Invariant, PTL

=============================================================================
