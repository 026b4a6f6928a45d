-------------------------- MODULE JavaClientProofs --------------------------
(***************************************************************************)
(* Proofs about JavaClient for every set of topics and sockets and every   *)
(* bound.                                                                  *)
(*                                                                         *)
(* That isReconnecting is never kept for nothing rests on FlagInv: whoever *)
(* keeps it set has an attempt under way (OwnerLeft), an attempt whose     *)
(* begin() finds the socket of another one connected already leaves it to  *)
(* that one (Overtaken), and the application's begin() is alone while it   *)
(* makes its socket (OpensAlone).                                          *)
(***************************************************************************)
EXTENDS JavaClient, TLAPS

Assumptions == FlagsAssumption /\ BoundsAssumption /\ NoneAssumption

(***************************************************************************)
(* Types.                                                                  *)
(***************************************************************************)
LEMMA CappedType ==
  ASSUME Assumptions, NEW n \in Nat
  PROVE  Capped(n) \in 0..MaxCopies
<1>1. MaxCopies \in Nat
  BY DEF Assumptions, BoundsAssumption
<1>2. CASE n <= MaxCopies
  <2>1. n \in {n, MaxCopies} /\ \A y \in {n, MaxCopies} : n <= y
    BY <1>1, <1>2
  <2>2. /\ Min({n, MaxCopies}) \in {n, MaxCopies}
        /\ \A y \in {n, MaxCopies} : Min({n, MaxCopies}) <= y
    BY <2>1 DEF Min
  <2>3. Min({n, MaxCopies}) = n
    BY <1>1, <1>2, <2>2
  <2> QED
    BY <1>1, <1>2, <2>3 DEF Capped
<1>3. CASE ~(n <= MaxCopies)
  <2>1. MaxCopies \in {n, MaxCopies} /\ \A y \in {n, MaxCopies} : MaxCopies <= y
    BY <1>1, <1>3
  <2>2. /\ Min({n, MaxCopies}) \in {n, MaxCopies}
        /\ \A y \in {n, MaxCopies} : Min({n, MaxCopies}) <= y
    BY <2>1 DEF Min
  <2>3. Min({n, MaxCopies}) = MaxCopies
    BY <1>1, <1>3, <2>2
  <2> QED
    BY <1>1, <2>3 DEF Capped
<1> QED
  BY <1>2, <1>3

Pools == [Ops -> [Topics -> 0..MaxCopies]]

LEMMA PoolType ==
  ASSUME Assumptions, TypeOK
  PROVE  /\ \A nxt \in Ops, t \in Topics \cup {None} : Spawn(nxt, t) \in Pools
         /\ \A op \in Ops, t \in Topics : pool[op][t] > 0 => Finish(op, t) \in Pools
         /\ \A op, nxt \in Ops, t \in Topics :
              pool[op][t] > 0 => Advance(op, nxt, t) \in Pools
<1>1. MaxCopies \in Nat
  BY DEF Assumptions, BoundsAssumption
<1>2. ASSUME NEW p \in Pools, NEW nxt \in Ops, NEW t \in Topics \cup {None}
      PROVE  Joined(p, nxt, t) \in Pools
  <2> DEFINE q == [p[nxt] EXCEPT ![t] = Capped(p[nxt][t] + 1)]
  <2>1. p[nxt] \in [Topics -> 0..MaxCopies]
    BY DEF Pools
  <2>2. q \in [Topics -> 0..MaxCopies]
    <3>1. CASE t \in Topics
      <4>1. p[nxt][t] \in 0..MaxCopies
        BY <2>1, <3>1
      <4>2. Capped(p[nxt][t] + 1) \in 0..MaxCopies
        BY <1>1, <4>1, CappedType
      <4> QED
        BY <2>1, <4>2
    <3>2. CASE t \notin Topics
      BY <2>1, <3>2
    <3> QED
      BY <3>1, <3>2
  <2>3. Joined(p, nxt, t) = [p EXCEPT ![nxt] = q]
    BY DEF Joined
  <2> HIDE DEF q
  <2> QED
    BY <2>2, <2>3 DEF Pools
<1>3. ASSUME NEW op \in Ops, NEW t \in Topics, pool[op][t] > 0
      PROVE  Finish(op, t) \in Pools
  BY <1>1, <1>3 DEF Finish, TypeOK, Pools
<1>4. pool \in Pools
  BY DEF TypeOK, Pools
<1> QED
  BY <1>2, <1>3, <1>4 DEF Spawn, Advance

LEMMA LoopType ==
  ASSUME TypeOK, Assumptions
  PROVE  /\ \A ks \in SUBSET Topics : LoopOver(ks) \in Loops
         /\ \A t \in Topics : \A list, key \in BOOLEAN :
              Notice(t, list, key) => loop' \in [Socks -> Loops]
<1>1. MaxCopies \in Nat
  BY DEF Assumptions, BoundsAssumption
<1>2. ASSUME NEW ks \in SUBSET Topics PROVE LoopOver(ks) \in Loops
  BY <1>1 DEF LoopOver, Loops
<1>3. ASSUME NEW t \in Topics, NEW list \in BOOLEAN, NEW key \in BOOLEAN, Notice(t, list, key)
      PROVE  loop' \in [Socks -> Loops]
  BY <1>3 DEF Notice, Loops, TypeOK
<1> QED
  BY <1>2, <1>3

(***************************************************************************)
(* Init.                                                                   *)
(***************************************************************************)
LEMMA InitType == Assumptions /\ Init => TypeOK
<1> SUFFICES ASSUME Assumptions, Init PROVE TypeOK
  OBVIOUS
<1>1. MaxCopies \in Nat /\ MaxCalls \in Nat /\ MaxLosses \in Nat
  BY DEF Assumptions, BoundsAssumption
<1>2. NoLoop \in Loops
  BY <1>1 DEF NoLoop, LoopOver, Loops
<1>3. pool \in Pools
  BY <1>1 DEF Init, Pools
<1>4. /\ copies \in [Topics -> 0..MaxCopies] /\ calls \in 0..MaxCalls
      /\ losses \in 0..MaxLosses
  BY <1>1 DEF Init
<1>5. loop \in [Socks -> Loops]
  BY <1>2 DEF Init
<1> QED
  BY <1>3, <1>4, <1>5 DEF Init, TypeOK, States, Tasks, Pools

\* A begin() finds a socket to make.
LEMMA NewSocketIs ==
  ASSUME \E s \in Socks : Fresh(s)
  PROVE  NewSocket \in Socks /\ task[NewSocket] = "none"
  BY DEF NewSocket, Fresh

(***************************************************************************)
(* The types.                                                              *)
(***************************************************************************)
LEMMA TypeStep == Assumptions /\ TypeOK /\ [Next]_vars => TypeOK'
<1> SUFFICES ASSUME Assumptions, TypeOK, [Next]_vars PROVE TypeOK'
  OBVIOUS
<1>1. MaxCopies \in Nat /\ MaxCalls \in Nat /\ MaxLosses \in Nat
  BY DEF Assumptions, BoundsAssumption
<1>2. ASSUME DelayEnds \/ TryReconnect \/ TryClears \/ Begin PROVE TypeOK'
  <2>1. CASE DelayEnds \/ TryClears
    <3>1. scheduled' \in Nat /\ due' \in Nat
      BY <2>1 DEF DelayEnds, TryClears, TypeOK
    <3> QED
      BY <2>1, <3>1 DEF DelayEnds, TryClears, map, tasks, app, TypeOK
  <2>2. CASE TryReconnect
    <3>1. scheduled' \in Nat /\ due' \in Nat
      BY <2>2 DEF TryReconnect, TypeOK
    <3>2. task' \in [Socks -> Tasks]
      <4>1. CASE WsClosed
        BY <2>2, <4>1 DEF TryReconnect, BeginSpawned, TypeOK, Tasks
      <4>2. CASE ~WsClosed
        BY <2>2, <4>2 DEF TryReconnect, TypeOK
      <4> QED
        BY <4>1, <4>2
    <3>3. clearing' \in BOOLEAN
      BY <2>2 DEF TryReconnect, TypeOK
    <3> QED
      BY <2>2, <3>1, <3>2, <3>3 DEF TryReconnect, map, app, TypeOK
  <2>3. CASE Begin
    BY <2>3, NewSocketIs
    DEF Begin, BeginSpawned, map, reconnection, tasks, app, TypeOK, Tasks
  <2> QED
    BY <1>2, <2>1, <2>2, <2>3
<1>3. ASSUME NEW s \in Socks,
             SocketSchedules(s) \/ TaskTests(s) \/ TaskSchedules(s) \/ RetryClears(s)
      PROVE  TypeOK'
  <2>1. CASE SocketSchedules(s)
    BY <2>1 DEF SocketSchedules, Schedule, map, reconnection, tasks, app, TypeOK
  <2>2. CASE TaskTests(s)
    BY <2>2 DEF TaskTests, map, reconnection, tasks, app, TypeOK, Tasks
  <2>3. CASE TaskSchedules(s)
    BY <2>3 DEF TaskSchedules, Schedule, map, reconnection, tasks, app, TypeOK, Tasks
  <2>4. CASE RetryClears(s)
    BY <2>4 DEF RetryClears, map, reconnection, tasks, app, TypeOK, Tasks
  <2> QED
    BY <1>3, <2>1, <2>2, <2>3, <2>4
<1>4. ASSUME NEW s \in Socks, BeginAssigns(s) \/ BeginConnects(s) \/ BeginWaited(s)
      PROVE  TypeOK'
  BY <1>4 DEF BeginAssigns, BeginConnects, BeginWaited, Failure, Over, map, reconnection,
     tasks, app, TypeOK, Tasks, States
<1>5. ASSUME NEW s \in Socks, OnOpen(s) \/ OnError(s) \/ OnMessageThrows(s)
      PROVE  TypeOK'
  BY <1>1, <1>5 DEF OnOpen, OnError, OnMessageThrows, TestBySocket, map, reconnection, tasks,
     app, TypeOK, States
<1>6. ASSUME NEW s \in Socks, OnClose(s) \/ OnHeartbeat(s) PROVE TypeOK'
  BY <1>1, <1>6 DEF OnClose, OnHeartbeat, WsOpen, TestBySocket, map, reconnection, tasks, app,
     TypeOK, States
<1>7. ASSUME NEW s \in Socks, LoopStarts(s) \/ LoopRaises(s) \/ LoopEnds(s) PROVE TypeOK'
  <2>1. LoopOver(keys) \in Loops /\ NoLoop \in Loops
    BY LoopType DEF NoLoop, TypeOK
  <2> HIDE DEF LoopOver, NoLoop
  <2> QED
    BY <1>7, <2>1 DEF LoopStarts, LoopRaises, LoopEnds, map, reconnection, tasks, app,
       TypeOK, Tasks
<1>8. ASSUME NEW s \in Socks, LoopTopic(s) PROVE TypeOK'
  <2>1. loop' \in [Socks -> Loops]
    BY <1>8 DEF LoopTopic, TypeOK, Loops
  <2> QED
    BY <1>8, <2>1 DEF LoopTopic, map, reconnection, tasks, app, TypeOK
<1>9. ASSUME NEW s \in Socks, LoopSubscribes(s) PROVE TypeOK'
  <2>1. loop' \in [Socks -> Loops]
    BY <1>1, <1>9 DEF LoopSubscribes, TypeOK, Loops
  <2>2. loop[s].topic \in Topics \cup {None} /\ "add" \in Ops
    BY DEF TypeOK, Loops, Ops
  <2>3. pool' \in Pools
    BY <1>9, <2>2, PoolType DEF LoopSubscribes
  <2> QED
    BY <1>9, <2>1, <2>3 DEF LoopSubscribes, map, reconnection, tasks, app, TypeOK, Pools
<1>10. ASSUME NEW t \in Topics, Subscribe(t) \/ Unsubscribe(t) PROVE TypeOK'
  <2>1. pool' \in Pools
    BY <1>10, PoolType DEF Subscribe, Unsubscribe, Call, Ops
  <2> QED
    BY <1>1, <1>10, <2>1 DEF Subscribe, Unsubscribe, Call, map, reconnection, tasks, app,
       TypeOK, Pools
<1>11. ASSUME NEW t \in Topics, SendSubscribe(t) \/ SendUnsubscribe(t) PROVE TypeOK'
  <2>1. pool' \in Pools
    BY <1>11, PoolType DEF SendSubscribe, SendUnsubscribe, Ops
  <2> QED
    BY <1>11, <2>1 DEF SendSubscribe, SendUnsubscribe, WsOpen, map, reconnection, tasks, app,
       TypeOK, Pools
<1>12. ASSUME NEW t \in Topics, Add(t) \/ Remove(t) \/ RemoveOne(t) PROVE TypeOK'
  <2>1. pool' \in Pools
    BY <1>12, PoolType DEF Add, Remove, RemoveOne, Ops
  <2>2. loop' \in [Socks -> Loops]
    <3>1. (t \in keys) \in BOOLEAN /\ (t \notin keys) \in BOOLEAN
          /\ (copies[t] > 0) \in BOOLEAN
      OBVIOUS
    <3>2. \E list, key \in BOOLEAN : Notice(t, list, key)
      BY <1>12, <3>1 DEF Add, Remove, RemoveOne
    <3> QED
      BY <3>2, LoopType
  <2>3. copies[t] \in 0..MaxCopies /\ Capped(copies[t] + 1) \in 0..MaxCopies
    BY <1>1, CappedType DEF TypeOK
  <2>4. copies' \in [Topics -> 0..MaxCopies]
    <3>1. CASE Add(t)
      BY <2>3, <3>1 DEF Add, TypeOK
    <3>2. CASE Remove(t)
      BY <1>1, <3>2 DEF Remove, TypeOK
    <3>3. CASE RemoveOne(t)
      <4>1. (IF copies[t] = 0 THEN 0 ELSE copies[t] - 1) \in 0..MaxCopies
        BY <1>1, <2>3
      <4> QED
        BY <3>3, <4>1 DEF RemoveOne, TypeOK
    <3> QED
      BY <1>12, <3>1, <3>2, <3>3
  <2> QED
    BY <1>12, <2>1, <2>2, <2>4 DEF Add, Remove, RemoveOne, map, reconnection, tasks, app,
       TypeOK, Pools
<1>13. CASE UNCHANGED vars
  BY <1>13 DEF vars, map, reconnection, tasks, app, TypeOK
<1> QED
  BY <1>2, <1>3, <1>4, <1>5, <1>6, <1>7, <1>8, <1>9, <1>10, <1>11, <1>12, <1>13 DEF Next

(***************************************************************************)
(* Who owns isReconnecting.                                                *)
(***************************************************************************)
\* The begin() of a task of tryReconnect, up to isReconnecting = false.
Tries(s) == s # own /\ task[s] \in {"spawned", "assigned", "waiting", "finished"}

\* An attempt will clear the flag.
OwnerLeft == isReconnecting => scheduled + due > 0 \/ clearing \/ \E s \in Socks : Tries(s)

\* The begin() of an attempt fails when it finds this.websocket connected already,
\* by another attempt: that one has not cleared the flag yet, or the flag has been
\* set again since and its attempt waits for the delay.
Overtaken ==
  isReconnecting /\ state[websocket] # "new"
    /\ (\E s \in Socks \ {own} : task[s] = "assigned")
  => scheduled > 0 \/ \E s \in Socks \ {own} : task[s] \in {"waiting", "finished"}

\* The begin() of the application is over before there is anything to reconnect.
Opening == own # None /\ task[own] \in {"spawned", "assigned"}

OpensAlone ==
  /\ ~begun => own = None /\ \A s \in Socks : task[s] = "none"
  /\ own # None => task[own] \in {"spawned", "assigned", "waiting"}
  /\ ~begun \/ Opening =>
       /\ passed = {} /\ scheduled = 0 /\ due = 0
       /\ \A s \in Socks \ {own} : task[s] = "none"
       /\ \A s \in Socks : state[s] \in {"new", "closed"}
  /\ \A s \in Socks : task[s] = "assigned" => websocket # None

FlagInv == OwnerLeft /\ Overtaken /\ OpensAlone

LEMMA FlagInit == Init => FlagInv
  BY DEF Init, FlagInv, OwnerLeft, Overtaken, OpensAlone, Opening

\* The steps of the attempts before their begin() and of who schedules them.
LEMMA FlagScheduleStep ==
  ASSUME Assumptions, TypeOK, FlagInv, NEW s,
         \/ DelayEnds \/ TryReconnect \/ TryClears
         \/ s \in Socks /\ (SocketSchedules(s) \/ TaskTests(s) \/ TaskSchedules(s))
  PROVE  FlagInv'
<1> USE DEF FlagInv, TypeOK
<1>0. None \notin Socks
  BY DEF Assumptions, NoneAssumption
<1>1. CASE DelayEnds
  <2>1. scheduled' + due' = scheduled + due /\ scheduled > 0
    BY <1>1 DEF DelayEnds
  <2>2. UNCHANGED <<websocket, isReconnecting, clearing, passed, state, task, own, begun>>
    BY <1>1 DEF DelayEnds, tasks, app
  <2>3. \A w \in Socks : task[w] \in {"none", "waiting"}
    BY <1>1 DEF DelayEnds, InTheMiddle
  <2>4. OwnerLeft'
    BY <2>1, <2>2 DEF OwnerLeft, Tries
  <2>5. Overtaken'
    BY <2>2, <2>3 DEF Overtaken
  <2>6. begun /\ ~Opening
    BY <2>1 DEF OpensAlone
  <2>7. OpensAlone'
    BY <2>2, <2>6 DEF OpensAlone, Opening
  <2> QED
    BY <2>4, <2>5, <2>7
<1>2. CASE TryReconnect
  <2>1. due > 0 /\ due' = due - 1
        /\ UNCHANGED <<websocket, isReconnecting, scheduled, passed, state, own, begun>>
    BY <1>2 DEF TryReconnect, app
  <2>2. begun /\ ~Opening
    BY <2>1 DEF OpensAlone
  <2>3. CASE ~WsClosed
    <3>1. clearing' /\ UNCHANGED task
      BY <1>2, <2>3 DEF TryReconnect
    <3> QED
      BY <2>1, <2>2, <3>1 DEF OwnerLeft, Overtaken, OpensAlone, Opening
  <2>4. CASE WsClosed
    <3>1. PICK w \in Socks : task[w] = "none" /\ task' = [task EXCEPT ![w] = "spawned"]
      BY <1>2, <2>4, NewSocketIs DEF TryReconnect, BeginSpawned
    <3>2. w # own
      BY <1>0, <3>1 DEF OpensAlone
    <3>3. OwnerLeft'
      <4>1. Tries(w)'
        BY <2>1, <3>1, <3>2 DEF Tries
      <4> QED
        BY <4>1 DEF OwnerLeft
    <3>4. Overtaken'
      BY <2>1, <3>1 DEF Overtaken
    <3>5. OpensAlone'
      BY <2>1, <2>2, <3>1, <3>2 DEF OpensAlone, Opening
    <3> QED
      BY <3>3, <3>4, <3>5
  <2> QED
    BY <2>3, <2>4
<1>3. CASE TryClears
  <2>1. ~isReconnecting'
        /\ UNCHANGED <<websocket, scheduled, due, passed, state, task, own, begun>>
    BY <1>3 DEF TryClears, tasks, app
  <2> QED
    BY <2>1 DEF OwnerLeft, Overtaken, OpensAlone, Opening
<1>4. CASE s \in Socks /\ (SocketSchedules(s) \/ TaskSchedules(s))
  <2>1. /\ scheduled' = IF scheduled < MaxAttempts THEN scheduled + 1 ELSE scheduled
        /\ UNCHANGED <<websocket, due, clearing, state, own, begun>>
        /\ task' = task \/ task' = [task EXCEPT ![s] = "none"]
        /\ s \in passed \/ task[s] = "passed"
        /\ task' # task => task[s] = "passed"
    BY <1>4 DEF SocketSchedules, TaskSchedules, Schedule, tasks, app
  <2>2. scheduled' > 0 /\ scheduled' \in Nat
    BY <2>1 DEF Assumptions, BoundsAssumption
  <2>3. begun /\ ~Opening
    BY <1>0, <1>4, <2>1 DEF OpensAlone, Opening
  <2>4. OwnerLeft' /\ Overtaken'
    BY <2>1, <2>2 DEF OwnerLeft, Overtaken
  <2>5. OpensAlone'
    BY <1>0, <1>4, <2>1, <2>3 DEF OpensAlone, Opening
  <2> QED
    BY <2>4, <2>5
<1>5. CASE s \in Socks /\ TaskTests(s)
  <2>1. /\ task[s] = "failed"
        /\ \E end \in {"none", "passed"} : task' = [task EXCEPT ![s] = end]
        /\ UNCHANGED <<websocket, isReconnecting, scheduled, due, clearing, passed, state,
                       own, begun>>
    BY <1>5 DEF TaskTests, reconnection, app
  <2>2. \A w \in Socks : Tries(w) => Tries(w)'
    BY <2>1 DEF Tries
  <2>3. s # own /\ begun /\ ~Opening
    BY <1>0, <1>5, <2>1 DEF OpensAlone
  <2>4. OwnerLeft' /\ Overtaken'
    BY <2>1, <2>2 DEF OwnerLeft, Overtaken
  <2>5. OpensAlone'
    BY <2>1, <2>3 DEF OpensAlone, Opening
  <2> QED
    BY <2>4, <2>5
<1> QED
  BY <1>1, <1>2, <1>3, <1>4, <1>5

\* The body of begin().
LEMMA FlagBeginStep ==
  ASSUME Assumptions, TypeOK, FlagInv, NEW s \in Socks,
         Begin \/ BeginAssigns(s) \/ BeginConnects(s) \/ BeginWaited(s)
  PROVE  FlagInv'
<1> USE DEF FlagInv, TypeOK
<1>0. None \notin Socks
  BY DEF Assumptions, NoneAssumption
<1>1. CASE Begin
  <2>1. /\ ~begun /\ begun'
        /\ UNCHANGED <<websocket, isReconnecting, scheduled, due, clearing, passed, state>>
    BY <1>1 DEF Begin, reconnection
  <2>2. /\ NewSocket \in Socks /\ own' = NewSocket
        /\ task' = [task EXCEPT ![NewSocket] = "spawned"]
    BY <1>1, NewSocketIs DEF Begin, BeginSpawned
  <2>3. own = None /\ \A v \in Socks : task[v] = "none"
    BY <2>1 DEF OpensAlone
  <2>4. OwnerLeft' /\ Overtaken'
    BY <2>1, <2>2, <2>3 DEF OwnerLeft, Overtaken, OpensAlone, Tries
  <2>5. OpensAlone'
    BY <1>0, <2>1, <2>2, <2>3 DEF OpensAlone, Opening
  <2> QED
    BY <2>4, <2>5
<1>2. CASE BeginAssigns(s)
  <2>1. /\ task[s] = "spawned" /\ task' = [task EXCEPT ![s] = "assigned"]
        /\ websocket' = s /\ state' = [state EXCEPT ![s] = "new"]
        /\ UNCHANGED <<isReconnecting, scheduled, due, clearing, passed, own, begun>>
    BY <1>2 DEF BeginAssigns, reconnection, app
  <2>2. (\A w \in Socks : Tries(w)' <=> Tries(w)) /\ (Opening' <=> Opening)
    BY <1>0, <2>1 DEF Tries, Opening
  <2>3. OwnerLeft' /\ Overtaken'
    BY <2>1, <2>2 DEF OwnerLeft, Overtaken
  <2>4. OpensAlone'
    BY <1>0, <2>1, <2>2 DEF OpensAlone
  <2> QED
    BY <2>3, <2>4
<1>3. CASE BeginConnects(s)
  <2>1. /\ task[s] = "assigned" /\ websocket \in Socks
        /\ state' = [w \in Socks |-> IF w = websocket /\ state[w] = "new" THEN "dialing"
                                     ELSE IF w = s /\ w # websocket THEN "closed"
                                     ELSE state[w]]
        /\ UNCHANGED <<websocket, isReconnecting, scheduled, due, clearing, passed, begun>>
    BY <1>3 DEF BeginConnects, OpensAlone, reconnection, app
  <2>2. begun
    BY <2>1 DEF OpensAlone
  <2>3. Opening => s = own
    BY <1>0, <2>1 DEF OpensAlone, Opening
  <2>4. CASE state[websocket] = "new"
    <3>1. task' = [task EXCEPT ![s] = "waiting"] /\ UNCHANGED own
      BY <1>3, <2>4 DEF BeginConnects
    <3>2. \A w \in Socks : Tries(w)' <=> Tries(w)
      BY <2>1, <3>1 DEF Tries
    <3>3. OwnerLeft'
      BY <2>1, <3>2 DEF OwnerLeft
    <3>4. Overtaken'
      <4>1. CASE s # own
        BY <2>1, <3>1, <4>1 DEF Overtaken
      <4>2. CASE s = own
        BY <1>0, <2>1, <3>1, <4>2 DEF Overtaken, OpensAlone, Opening
      <4> QED
        BY <4>1, <4>2
    <3>5. ~Opening'
      BY <2>1, <2>3, <3>1 DEF Opening
    <3>6. OpensAlone'
      BY <1>0, <2>1, <2>2, <3>1, <3>5 DEF OpensAlone
    <3> QED
      BY <3>3, <3>4, <3>6
  <2>5. CASE state[websocket] # "new"
    <3>1. /\ task' = [task EXCEPT ![s] = Failure(s)] /\ Failure(s) \in {"failed", "none"}
          /\ own' = IF s = own THEN None ELSE own
      BY <1>3, <2>5 DEF BeginConnects, Failure, Over
    <3>2. \A w \in Socks \ {own} :
            w # s => task'[w] = task[w] /\ (Tries(w) => Tries(w)')
      BY <1>0, <2>1, <3>1 DEF Tries
    <3>3. OwnerLeft'
      <4>1. CASE s # own
        <5>1. CASE \E w \in Socks \ {own} : task[w] \in {"waiting", "finished"}
          <6>1. PICK w \in Socks \ {own} : task[w] \in {"waiting", "finished"}
            BY <5>1
          <6>2. w # s /\ Tries(w)
            BY <2>1, <6>1 DEF Tries
          <6> QED
            BY <3>2, <6>1, <6>2 DEF OwnerLeft
        <5>2. CASE scheduled > 0
          BY <2>1, <5>2 DEF OwnerLeft
        <5>3. CASE ~isReconnecting
          BY <2>1, <5>3 DEF OwnerLeft
        <5> QED
          BY <2>1, <2>5, <4>1, <5>1, <5>2, <5>3 DEF Overtaken
      <4>2. CASE s = own
        <5>1. \A w \in Socks : Tries(w) => Tries(w)'
          BY <3>2, <4>2 DEF Tries
        <5> QED
          BY <2>1, <5>1 DEF OwnerLeft
      <4> QED
        BY <4>1, <4>2
    <3>4. Overtaken'
      <4>1. \A w \in Socks : task'[w] = "assigned" => task[w] = "assigned" /\ w # s
        BY <2>1, <3>1
      <4>2. \A w \in Socks \ {own} :
              task[w] \in {"waiting", "finished"} => w # s /\ task'[w] = task[w]
        BY <2>1, <3>2
      <4>3. \A w \in Socks : w # s => (w = own' <=> w = own)
        BY <1>0, <3>1
      <4> QED
        BY <2>1, <2>5, <4>1, <4>2, <4>3 DEF Overtaken
    <3>5. ~Opening'
      BY <1>0, <2>1, <2>3, <3>1 DEF Opening
    <3>6. OpensAlone'
      BY <1>0, <2>1, <2>2, <3>1, <3>5 DEF OpensAlone
    <3> QED
      BY <3>3, <3>4, <3>6
  <2> QED
    BY <2>4, <2>5
<1>4. CASE BeginWaited(s)
  <2>1. /\ task[s] = "waiting"
        /\ task' = [task EXCEPT ![s] = IF s = own THEN "none" ELSE "finished"]
        /\ own' = IF s = own THEN None ELSE own
        /\ UNCHANGED <<websocket, isReconnecting, scheduled, due, clearing, passed, state,
                       begun>>
    BY <1>4 DEF BeginWaited, Over, reconnection, app
  <2>2. \A w \in Socks : Tries(w) => Tries(w)'
    BY <1>0, <2>1 DEF Tries
  <2>3. begun
    BY <2>1 DEF OpensAlone
  <2>4. ~Opening
    BY <1>0, <2>1 DEF OpensAlone, Opening
  <2>5. ~Opening'
    BY <1>0, <2>1, <2>4 DEF Opening
  <2>6. OwnerLeft'
    BY <2>1, <2>2 DEF OwnerLeft
  <2>7. Overtaken'
    <3>1. \A w \in Socks : task'[w] = "assigned" => task[w] = "assigned" /\ w # s
      BY <2>1
    <3>2. \A w \in Socks \ {own} : task[w] \in {"waiting", "finished"} =>
            w # own' /\ task'[w] \in {"waiting", "finished"}
      BY <1>0, <2>1
    <3>3. \A w \in Socks : w # s => (w = own' <=> w = own)
      BY <1>0, <2>1
    <3> QED
      BY <2>1, <3>1, <3>2, <3>3 DEF Overtaken
  <2>8. OpensAlone'
    BY <1>0, <2>1, <2>3, <2>5 DEF OpensAlone
  <2> QED
    BY <2>6, <2>7, <2>8
<1> QED
  BY <1>1, <1>2, <1>3, <1>4

\* What follows an attempt, and the threads of the sockets.
LEMMA FlagOtherStep ==
  ASSUME Assumptions, TypeOK, FlagInv, NEW s \in Socks,
         \/ RetryClears(s) \/ LoopStarts(s) \/ LoopRaises(s) \/ LoopEnds(s)
         \/ OnOpen(s) \/ OnError(s) \/ OnClose(s) \/ OnMessageThrows(s) \/ OnHeartbeat(s)
  PROVE  FlagInv'
<1> USE DEF FlagInv, TypeOK
<1>0. None \notin Socks
  BY DEF Assumptions, NoneAssumption
<1>1. CASE RetryClears(s)
  <2>1. ~isReconnecting' /\ task[s] = "finished" /\ task' = [task EXCEPT ![s] = "cleared"]
        /\ UNCHANGED <<websocket, scheduled, due, passed, state, own, begun>>
    BY <1>1 DEF RetryClears, app
  <2>2. s # own /\ begun /\ ~Opening
    BY <1>0, <2>1 DEF OpensAlone, Opening
  <2> QED
    BY <2>1, <2>2 DEF OwnerLeft, Overtaken, OpensAlone, Opening
<1>2. CASE LoopStarts(s) \/ LoopRaises(s) \/ LoopEnds(s)
  <2>1. /\ task[s] \in {"cleared", "looping"}
        /\ \E end \in {"looping", "failed", "none"} : task' = [task EXCEPT ![s] = end]
        /\ UNCHANGED <<websocket, isReconnecting, scheduled, due, clearing, passed, state,
                       own, begun>>
    BY <1>2 DEF LoopStarts, LoopRaises, LoopEnds, reconnection, app
  <2>2. s # own /\ begun /\ ~Opening
    BY <1>0, <2>1 DEF OpensAlone, Opening
  <2>3. \A w \in Socks : Tries(w)' <=> Tries(w)
    BY <2>1 DEF Tries
  <2>4. OwnerLeft' /\ Overtaken'
    BY <2>1, <2>3 DEF OwnerLeft, Overtaken
  <2>5. OpensAlone'
    BY <2>1, <2>2 DEF OpensAlone, Opening
  <2> QED
    BY <2>4, <2>5
<1>3. CASE OnOpen(s) \/ OnError(s) \/ OnClose(s) \/ OnMessageThrows(s) \/ OnHeartbeat(s)
  <2>1. /\ state[s] \notin {"new", "closed"}
        /\ UNCHANGED <<websocket, isReconnecting, scheduled, due, clearing, task, own, begun>>
        /\ \E end \in States \ {"new"} : state' = [state EXCEPT ![s] = end]
    BY <1>3 DEF OnOpen, OnError, OnClose, OnMessageThrows, OnHeartbeat, States, reconnection,
       tasks, app
  <2>2. begun /\ ~Opening
    BY <2>1 DEF OpensAlone
  <2>3. state'[websocket] # "new" => state[websocket] # "new"
    BY <2>1
  <2>4. (\A w \in Socks : Tries(w)' <=> Tries(w)) /\ (Opening' <=> Opening)
    BY <2>1 DEF Tries, Opening
  <2>5. OwnerLeft'
    BY <2>1, <2>4 DEF OwnerLeft
  <2>6. Overtaken'
    BY <2>1, <2>3 DEF Overtaken
  <2>7. OpensAlone'
    BY <2>1, <2>2, <2>4 DEF OpensAlone
  <2> QED
    BY <2>5, <2>6, <2>7
<1> QED
  BY <1>1, <1>2, <1>3

\* The variables the invariant is about.
scope == <<websocket, isReconnecting, scheduled, due, clearing, passed, state, task, own,
           begun>>

LEMMA FlagStep == Assumptions /\ TypeOK /\ FlagInv /\ [Next]_vars => FlagInv'
<1> SUFFICES ASSUME Assumptions, TypeOK, FlagInv, [Next]_vars PROVE FlagInv'
  OBVIOUS
<1>1. ASSUME UNCHANGED scope PROVE FlagInv'
  BY <1>1 DEF scope, FlagInv, OwnerLeft, Overtaken, OpensAlone, Opening, Tries
<1>2. CASE DelayEnds \/ TryReconnect \/ TryClears \/ Begin
  <2>1. CASE Begin
    <3>1. NewSocket \in Socks
      BY <2>1, NewSocketIs DEF Begin, BeginSpawned
    <3> QED
      BY <2>1, <3>1, FlagBeginStep
  <2> QED
    BY <1>2, <2>1, FlagScheduleStep
<1>3. ASSUME NEW s \in Socks, SocketSchedules(s) \/ TaskTests(s) \/ TaskSchedules(s)
      PROVE  FlagInv'
  BY <1>3, FlagScheduleStep
<1>4. ASSUME NEW s \in Socks, BeginAssigns(s) \/ BeginConnects(s) \/ BeginWaited(s)
      PROVE  FlagInv'
  BY <1>4, FlagBeginStep
<1>5. ASSUME NEW s \in Socks,
             \/ RetryClears(s) \/ LoopStarts(s) \/ LoopRaises(s) \/ LoopEnds(s)
             \/ OnOpen(s) \/ OnError(s) \/ OnClose(s) \/ OnMessageThrows(s) \/ OnHeartbeat(s)
      PROVE  FlagInv'
  BY <1>5, FlagOtherStep
<1>6. ASSUME NEW s \in Socks, LoopTopic(s) \/ LoopSubscribes(s) PROVE UNCHANGED scope
  BY <1>6 DEF LoopTopic, LoopSubscribes, reconnection, app, scope
<1>7. ASSUME NEW t \in Topics,
             Subscribe(t) \/ Unsubscribe(t) \/ Add(t) \/ SendSubscribe(t)
             \/ Remove(t) \/ SendUnsubscribe(t) \/ RemoveOne(t)
      PROVE  UNCHANGED scope
  BY <1>7 DEF Subscribe, Unsubscribe, Call, Add, SendSubscribe, Remove, SendUnsubscribe,
     RemoveOne, reconnection, tasks, app, scope
<1>8. CASE UNCHANGED vars
  BY <1>1, <1>8 DEF vars, reconnection, tasks, app, scope
<1> QED
  BY <1>1, <1>2, <1>3, <1>4, <1>5, <1>6, <1>7, <1>8 DEF Next

(***************************************************************************)
(* The theorems.                                                           *)
(***************************************************************************)
\* Every variable keeps its type.
THEOREM TypeCorrect == Spec => []TypeOK
<1>1. Assumptions
  BY FlagsAssumption, BoundsAssumption, NoneAssumption DEF Assumptions
<1> QED
  BY <1>1, InitType, TypeStep, PTL DEF Spec

\* isReconnecting, which keeps everyone else from scheduling, is never left set: the
\* attempt it was set for, or one that has overtaken it, is still under way, whatever
\* threads have raced past the test of the flag (AutobahnClient.java:67-98).
THEOREM FlagIsOwned == Spec => []FlagHasOwner
<1>1. Assumptions
  BY FlagsAssumption, BoundsAssumption, NoneAssumption DEF Assumptions
<1>2. Init => TypeOK /\ FlagInv
  BY <1>1, InitType, FlagInit
<1>3. TypeOK /\ FlagInv /\ [Next]_vars => TypeOK' /\ FlagInv'
  BY <1>1, TypeStep, FlagStep
<1>4. TypeOK /\ FlagInv => FlagHasOwner
  BY DEF TypeOK, FlagInv, OwnerLeft, Tries, FlagHasOwner
<1> QED
  BY <1>2, <1>3, <1>4, PTL DEF Spec
=============================================================================
