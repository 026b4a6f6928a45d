-------------------------- MODULE RustClientProofs --------------------------
(***************************************************************************)
(* Proofs about RustClient for every set of callers, topics and            *)
(* connections, every bound and either value of Reconnect.                 *)
(***************************************************************************)
EXTENDS RustClient, TLAPS

(***************************************************************************)
(* The inductive invariant, in parts.                                      *)
(***************************************************************************)

\* Until begin() has returned once there is no writer, no signal and no
\* reconnect task, and only before that may a caller be inside begin().
BeginsOnce ==
  /\ ~started => write = None /\ ~connectionTx /\ \A p \in Callers : loop[p] =
     "off"
  /\ started => \A p \in Callers : pc[p] \notin BeginSteps

\* A connection in the hands of a connector has been dialed, and only then is
\* there one; the writer's has been dialed too.
FreshDialed ==
  /\ \A p \in Callers :
       /\ IF pc[p] \in {"dialed", "resub", "install"}
          THEN link[fresh[p]] # "unused"
          ELSE fresh[p] = None
       /\ IF loop[p] \in {"dialed", "resub"}
          THEN link[loopFresh[p]] # "unused" /\ write = None
          ELSE loopFresh[p] = None
  /\ write # None => link[write] # "unused"

\* What each step of a call or of a reconnect turn has put in its locals.
Locals ==
  \A p \in Callers :
    /\ pc[p] \in {"subscribe", "unsubscribe"} => topic[p] \in Owns[p]
    /\ pc[p] \in {"dialed", "resub", "install"} => fresh[p] \in Conns
    /\ loop[p] \in {"dialed", "resub"} => loopFresh[p] \in Conns

\* What a subscribe or unsubscribe in progress knows about its own topic.
CallTopics ==
  \A p \in Callers :
    /\ pc[p] = "subscribe" => topic[p] \in callbacks
    /\ pc[p] = "unsubscribe" => topic[p] \notin callbacks

\* A deferred task never waits for a signal that has already been lost.
DeferredSignalled ==
  \A t \in Topics : deferred[t] > 0 /\ write # None => connectionTx

\* During a resubscription every topic is at the hub or still to be sent; after
\* begin()'s, one added since is held by its subscribe() or by a deferred task.
Resubscribing ==
  \A p \in Callers, t \in Topics :
    t \in callbacks =>
      /\ pc[p] = "resub" /\ Up(fresh[p]) =>
           t \in hubTopics[fresh[p]] \cup todo[fresh[p]]
      /\ pc[p] = "install" /\ Up(fresh[p]) =>
           \/ t \in hubTopics[fresh[p]]
           \/ \E q \in Callers : pc[q] = "subscribe" /\ topic[q] = t
           \/ deferred[t] > 0
      /\ loop[p] = "resub" /\ Up(loopFresh[p]) =>
           t \in hubTopics[loopFresh[p]] \cup todo[loopFresh[p]]

SafeInv == TypeOK /\ Locals /\ MutexDiscipline /\ OneConnector
             /\ BeginsOnce /\ FreshDialed /\ NoOrphanConnection

SubscriptionInv == CallTopics /\ DeferredSignalled /\ Resubscribing
                     /\ SubscribedWhenConnected

\* No topic is subscribed or unsubscribed by two callers.
DisjointOwners ==
  \A p, q \in Callers : p # q => Owns[p] \cap Owns[q] = {}

(***************************************************************************)
(* Type correctness.                                                       *)
(***************************************************************************)
HubTyped == hubTopics \in [Conns -> SUBSET Topics]

LEMMA SubscribeTyped ==
  ASSUME HubTyped, NEW c, NEW t \in Topics, SendSubscribe(c, t)
  PROVE  HubTyped'
  BY DEF SendSubscribe, HubTyped

LEMMA ReplyTyped ==
  ASSUME HubTyped, awaiting \in [Conns -> BOOLEAN], NEW c,
         NEW S \in SUBSET Topics, SendHeartbeatReply(c, S)
  PROVE  HubTyped' /\ awaiting' \in [Conns -> BOOLEAN]
  BY DEF SendHeartbeatReply, HubTyped

LEMMA RoutedTyped ==
  ASSUME inbound \in [Conns -> Seq(Frames)], NEW c, NEW t \in Topics,
     Routed(c, t)
  PROVE  inbound' \in [Conns -> Seq(Frames)]
  BY DEF Routed, Frames

\* Before the first call nobody is in a step of begin() or of the reconnect task.
LEMMA AtRest ==
  ASSUME Init
  PROVE  /\ write = None /\ ~started /\ ~connectionTx /\ callbacks = {}
         /\ writeLock = None /\ cbLock = None /\ startedLock = None
         /\ \A p \in Callers : /\ pc[p] = "idle" /\ loop[p] = "off"
                              /\ fresh[p] = None /\ loopFresh[p] = None
         /\ \A c \in Conns : link[c] = "unused" /\ reader[c] = "off"
  BY DEF Init

LEMMA TypeInit == Init => TypeOK /\ Locals
  <1> SUFFICES ASSUME Init PROVE TypeOK /\ Locals
    OBVIOUS
  <1>1. inbound \in [Conns -> Seq(Frames)]
    BY DEF Init
  <1>2. TypeOK
    BY <1>1 DEF Init, TypeOK, CallSteps, LoopSteps, ReaderSteps, LinkStates, Frames
  <1>3. Locals
    BY AtRest DEF Locals
  <1>. QED
    BY <1>2, <1>3

LEMMA TypeNext == TypeOK /\ Locals /\ [Next]_vars => TypeOK' /\ Locals'
  <1> SUFFICES ASSUME TypeOK, Locals, [Next]_vars
               PROVE  TypeOK' /\ Locals'
    OBVIOUS
  <1>0. HubTyped
    BY DEF TypeOK, HubTyped
  <1> USE OwnsAssumption
      DEF TypeOK, Locals, vars, clientVars, callerVars, loopVars,
       readerVars, hubVars, CallSteps, BeginSteps, LoopSteps, ReaderSteps,
       LinkStates, Frames, LoopTasks, BeginTasks, ReaderTasks, LoopTask,
       BeginTask, ReaderTask
  <1>1. ASSUME NEW p \in Callers, BeginAgain(p)
       PROVE  TypeOK' /\ Locals'
    BY <1>1 DEF BeginAgain, Call
  <1>2. ASSUME NEW p \in Callers, Begin(p)
       PROVE  TypeOK' /\ Locals'
    BY <1>2 DEF Begin, Call
  <1>3. ASSUME NEW p \in Callers, BeginDial(p)
       PROVE  TypeOK' /\ Locals'
    BY <1>3 DEF BeginDial, Open
  <1>4. ASSUME NEW p \in Callers, BeginDialFails(p)
       PROVE  TypeOK' /\ Locals'
    BY <1>4, ReconnectAssumption DEF BeginDialFails, Return
  <1>5. ASSUME NEW p \in Callers, BeginLockCallbacks(p)
       PROVE  TypeOK' /\ Locals'
    BY <1>5 DEF BeginLockCallbacks
  <1>6. ASSUME NEW p \in Callers, BeginResubscribe(p)
       PROVE  TypeOK' /\ Locals'
    <2>1. PICK t \in todo[fresh[p]] :
            /\ SendSubscribe(fresh[p], t)
            /\ todo' = [todo EXCEPT ![fresh[p]] = @ \ {t}]
      BY <1>6 DEF BeginResubscribe
    <2>2. fresh[p] \in Conns /\ t \in Topics
      BY <2>1, <1>6 DEF BeginResubscribe
    <2>3. HubTyped'
      BY <1>0, <2>1, <2>2, SubscribeTyped
    <2>. QED
      BY <1>6, <2>1, <2>2, <2>3 DEF BeginResubscribe, HubTyped
  <1>7. ASSUME NEW p \in Callers, BeginUnlockCallbacks(p)
       PROVE  TypeOK' /\ Locals'
    BY <1>7 DEF BeginUnlockCallbacks
  <1>8. ASSUME NEW p \in Callers, BeginInstall(p)
       PROVE  TypeOK' /\ Locals'
    BY <1>8, ReconnectAssumption DEF BeginInstall, Install, Signal, Return
  <1>9. ASSUME NEW p \in Callers, SubscribeSend(p)
       PROVE  TypeOK' /\ Locals'
    <2>1. topic[p] \in Topics
      BY <1>9 DEF SubscribeSend, Defer
    <2>2. HubTyped'
      BY <1>9, <1>0, <2>1, SubscribeTyped DEF SubscribeSend, Defer, HubTyped
    <2>3. deferred' \in [Topics -> Nat]
      BY <1>9, <2>1 DEF SubscribeSend, Defer
    <2>. QED
      BY <1>9, <2>2, <2>3 DEF SubscribeSend, Defer, HubTyped
  <1>10. ASSUME NEW p \in Callers, UnsubscribeSend(p)
       PROVE  TypeOK' /\ Locals'
    <2>1. HubTyped'
      BY <1>10 DEF UnsubscribeSend, SendUnsubscribe, HubTyped
    <2>. QED
      BY <1>10, <2>1 DEF UnsubscribeSend, HubTyped
  <1>11. ASSUME NEW p \in Callers, WaitUntilConnected(p)
       PROVE  TypeOK' /\ Locals'
    BY <1>11 DEF WaitUntilConnected, Call
  <1>12. ASSUME NEW p \in Callers, WaitReturns(p)
       PROVE  TypeOK' /\ Locals'
    BY <1>12 DEF WaitReturns, EndWait
  <1>13. ASSUME NEW p \in Callers, WaitTimesOut(p)
       PROVE  TypeOK' /\ Locals'
    BY <1>13 DEF WaitTimesOut, EndWait
  <1>14. ASSUME NEW p \in Callers, NEW t \in Topics, Subscribe(p, t)
       PROVE  TypeOK' /\ Locals'
    BY <1>14 DEF Subscribe, Call
  <1>15. ASSUME NEW p \in Callers, NEW t \in Topics, Unsubscribe(p, t)
       PROVE  TypeOK' /\ Locals'
    BY <1>15 DEF Unsubscribe, Call
  <1>16. ASSUME NEW p \in Callers, NEW t \in Topics, Publish(p, t)
       PROVE  TypeOK' /\ Locals'
    <2>1. inbound' \in [Conns -> Seq(Frames)]
      BY <1>16, RoutedTyped DEF Publish
    <2>. QED
      BY <1>16, <2>1 DEF Publish, Call
  <1>17. ASSUME NEW p \in Callers, LoopLock(p)
       PROVE  TypeOK' /\ Locals'
    BY <1>17 DEF LoopLock
  <1>18. ASSUME NEW p \in Callers, LoopPing(p)
       PROVE  TypeOK' /\ Locals'
    BY <1>18 DEF LoopPing, PingFails, LoopSleep
  <1>19. ASSUME NEW p \in Callers, LoopDialFails(p)
       PROVE  TypeOK' /\ Locals'
    BY <1>19 DEF LoopDialFails, LoopSleep
  <1>20. ASSUME NEW p \in Callers, LoopDial(p)
       PROVE  TypeOK' /\ Locals'
    BY <1>20 DEF LoopDial, Open
  <1>21. ASSUME NEW p \in Callers, LoopLockCallbacks(p)
       PROVE  TypeOK' /\ Locals'
    BY <1>21 DEF LoopLockCallbacks
  <1>22. ASSUME NEW p \in Callers, LoopResubscribe(p)
       PROVE  TypeOK' /\ Locals'
    <2>1. PICK t \in todo[loopFresh[p]] :
            /\ SendSubscribe(loopFresh[p], t)
            /\ todo' = [todo EXCEPT ![loopFresh[p]] = @ \ {t}]
      BY <1>22 DEF LoopResubscribe
    <2>2. loopFresh[p] \in Conns /\ t \in Topics
      BY <2>1, <1>22 DEF LoopResubscribe
    <2>3. HubTyped'
      BY <1>0, <2>1, <2>2, SubscribeTyped
    <2>. QED
      BY <1>22, <2>1, <2>2, <2>3 DEF LoopResubscribe, HubTyped
  <1>23. ASSUME NEW p \in Callers, LoopInstall(p)
       PROVE  TypeOK' /\ Locals'
    BY <1>23 DEF LoopInstall, Install, Signal, LoopSleep
  <1>24. ASSUME NEW c \in Conns, ReadPublish(c)
       PROVE  TypeOK' /\ Locals'
    BY <1>24 DEF ReadPublish, NextFrameIs
  <1>25. ASSUME NEW c \in Conns, ReadHeartbeat(c)
       PROVE  TypeOK' /\ Locals'
    BY <1>25 DEF ReadHeartbeat, Answers, NextFrameIs
  <1>26. ASSUME NEW c \in Conns, HeartbeatLock(c)
       PROVE  TypeOK' /\ Locals'
    BY <1>26 DEF HeartbeatLock, LockForReply
  <1>27. ASSUME NEW c \in Conns, HeartbeatSnapshot(c)
       PROVE  TypeOK' /\ Locals'
    BY <1>27 DEF HeartbeatSnapshot
  <1>28. ASSUME NEW c \in Conns, HeartbeatReply(c)
       PROVE  TypeOK' /\ Locals'
    <2>1. snapshot[c] \in SUBSET Topics
      OBVIOUS
    <2>2. HubTyped' /\ awaiting' \in [Conns -> BOOLEAN]
      BY <1>28, <1>0, <2>1, ReplyTyped DEF HeartbeatReply, HubTyped
    <2>. QED
      BY <1>28, <2>2 DEF HeartbeatReply, HubTyped
  <1>29. ASSUME NEW c \in Conns, ReaderEnds(c)
       PROVE  TypeOK' /\ Locals'
    BY <1>29 DEF ReaderEnds
  <1>30. ASSUME NEW c \in Conns, HubHeartbeat(c)
       PROVE  TypeOK' /\ Locals'
    BY <1>30 DEF HubHeartbeat
  <1>31. ASSUME NEW c \in Conns, Break(c)
       PROVE  TypeOK' /\ Locals'
    BY <1>31 DEF Break
  <1>32. ASSUME NEW c \in Conns, Detect(c)
       PROVE  TypeOK' /\ Locals'
    BY <1>32 DEF Detect
  <1>33. ASSUME NEW t \in Topics, DeferredSend(t)
       PROVE  TypeOK' /\ Locals'
    <2>1. HubTyped'
      BY <1>33, <1>0, SubscribeTyped DEF DeferredSend, Signalled, HubTyped
    <2>2. deferred' \in [Topics -> Nat]
      BY <1>33 DEF DeferredSend, Signalled
    <2>. QED
      BY <1>33, <2>1, <2>2 DEF DeferredSend, Signalled, HubTyped
  <1>34. CASE UNCHANGED vars
    BY <1>34
  <1>. QED
    BY <1>1, <1>2, <1>3, <1>4, <1>5, <1>6, <1>7, <1>8, <1>9, <1>10, <1>11,
       <1>12, <1>13, <1>14, <1>15, <1>16, <1>17, <1>18, <1>19, <1>20, <1>21,
       <1>22, <1>23, <1>24, <1>25, <1>26, <1>27, <1>28, <1>29, <1>30, <1>31,
       <1>32, <1>33, <1>34
    DEF Next, CallerStep, BeginStep, LoopStep, ReaderStep, NetworkStep

(***************************************************************************)
(* Mutual exclusion, and at most one connector with at most one live sink. *)
(***************************************************************************)
LEMMA SafeInit == Init => SafeInv
  <1> SUFFICES ASSUME Init PROVE SafeInv
    OBVIOUS
  <1>1. TypeOK /\ Locals
    BY TypeInit
  <1>2. MutexDiscipline
    BY AtRest, NoneAssumption DEF MutexDiscipline, BeginSteps, BeginTasks, LoopTasks,
       ReaderTasks, BeginTask, LoopTask, ReaderTask
  <1>3. OneConnector /\ BeginsOnce /\ FreshDialed
    BY AtRest DEF OneConnector, BeginsOnce, FreshDialed, BeginSteps
  <1>4. NoOrphanConnection
    BY AtRest DEF NoOrphanConnection
  <1>. QED
    BY <1>1, <1>2, <1>3, <1>4 DEF SafeInv

LEMMA SafeNext == SafeInv /\ [Next]_vars => SafeInv'
  <1> DEFINE ConnectorInv == /\ MutexDiscipline /\ OneConnector /\ BeginsOnce
                             /\ FreshDialed /\ NoOrphanConnection
  <1> SUFFICES ASSUME TypeOK, Locals, ConnectorInv, [Next]_vars
               PROVE  ConnectorInv'
    BY TypeNext DEF SafeInv
  <1> USE NoneAssumption
      DEF TypeOK, Locals, MutexDiscipline, OneConnector, BeginsOnce,
          FreshDialed, NoOrphanConnection, vars, clientVars, callerVars,
          loopVars, readerVars, hubVars, BeginSteps, CallSteps, LoopSteps,
          ReaderSteps, LinkStates, LoopTask, BeginTask, ReaderTask, LoopTasks,
          BeginTasks, ReaderTasks
  <1>1. ASSUME NEW p \in Callers, BeginAgain(p)
       PROVE  ConnectorInv'
    BY <1>1 DEF BeginAgain, Call
  <1>2. ASSUME NEW p \in Callers, Begin(p)
       PROVE  ConnectorInv'
    BY <1>2 DEF Begin, Call
  <1>3. ASSUME NEW p \in Callers, BeginDial(p)
       PROVE  ConnectorInv'
    <2>1. PICK c \in Conns : Open(c) /\ fresh' = [fresh EXCEPT ![p] = c]
      BY <1>3 DEF BeginDial
    <2>2. /\ MutexDiscipline' /\ OneConnector'
          /\ BeginsOnce' /\ FreshDialed'
      BY <1>3, <2>1 DEF BeginDial, Open
    <2>3. ASSUME NEW d \in Conns, link'[d] \in {"open", "broken"}
          PROVE  d = write' \/ \E q \in Callers : d \in {fresh'[q],
             loopFresh'[q]}
      <3>1. CASE d = c
        BY <1>3, <2>1, <3>1
      <3>2. CASE d # c
        <4>1. link[d] \in {"open", "broken"} /\ fresh[p] = None
          BY <1>3, <2>1, <2>3, <3>2 DEF BeginDial, Open
        <4>2. d = write \/ \E q \in Callers : d \in {fresh[q], loopFresh[q]}
          BY <4>1
        <4>3. ASSUME NEW q \in Callers, d \in {fresh[q], loopFresh[q]}
              PROVE  d \in {fresh'[q], loopFresh'[q]}
          BY <1>3, <2>1, <4>1, <4>3 DEF BeginDial
        <4>. QED
          BY <1>3, <4>2, <4>3 DEF BeginDial
      <3>. QED
        BY <3>1, <3>2
    <2>. QED
      BY <2>2, <2>3
  <1>4. ASSUME NEW p \in Callers, BeginDialFails(p)
       PROVE  ConnectorInv'
    BY <1>4 DEF BeginDialFails, Return
  <1>5. ASSUME NEW p \in Callers, BeginLockCallbacks(p)
       PROVE  ConnectorInv'
    BY <1>5 DEF BeginLockCallbacks
  <1>6. ASSUME NEW p \in Callers, BeginResubscribe(p)
       PROVE  ConnectorInv'
    BY <1>6 DEF BeginResubscribe
  <1>7. ASSUME NEW p \in Callers, BeginUnlockCallbacks(p)
       PROVE  ConnectorInv'
    BY <1>7 DEF BeginUnlockCallbacks
  <1>8. ASSUME NEW p \in Callers, BeginInstall(p)
       PROVE  ConnectorInv'
    BY <1>8 DEF BeginInstall, Install, Signal, Return
  <1>9. ASSUME NEW p \in Callers, SubscribeSend(p)
       PROVE  ConnectorInv'
    BY <1>9 DEF SubscribeSend, Defer
  <1>10. ASSUME NEW p \in Callers, UnsubscribeSend(p)
       PROVE  ConnectorInv'
    BY <1>10 DEF UnsubscribeSend
  <1>11. ASSUME NEW p \in Callers, WaitUntilConnected(p)
       PROVE  ConnectorInv'
    BY <1>11 DEF WaitUntilConnected, Call
  <1>12. ASSUME NEW p \in Callers, WaitReturns(p)
       PROVE  ConnectorInv'
    BY <1>12 DEF WaitReturns, EndWait
  <1>13. ASSUME NEW p \in Callers, WaitTimesOut(p)
       PROVE  ConnectorInv'
    BY <1>13 DEF WaitTimesOut, EndWait
  <1>14. ASSUME NEW p \in Callers, NEW t \in Topics, Subscribe(p, t)
       PROVE  ConnectorInv'
    BY <1>14 DEF Subscribe, Call
  <1>15. ASSUME NEW p \in Callers, NEW t \in Topics, Unsubscribe(p, t)
       PROVE  ConnectorInv'
    BY <1>15 DEF Unsubscribe, Call
  <1>16. ASSUME NEW p \in Callers, NEW t \in Topics, Publish(p, t)
       PROVE  ConnectorInv'
    BY <1>16 DEF Publish, Call
  <1>17. ASSUME NEW p \in Callers, LoopLock(p)
       PROVE  ConnectorInv'
    BY <1>17 DEF LoopLock
  <1>18. ASSUME NEW p \in Callers, LoopPing(p)
       PROVE  ConnectorInv'
    BY <1>18 DEF LoopPing, PingFails, LoopSleep
  <1>19. ASSUME NEW p \in Callers, LoopDialFails(p)
       PROVE  ConnectorInv'
    BY <1>19 DEF LoopDialFails, LoopSleep
  <1>20. ASSUME NEW p \in Callers, LoopDial(p)
       PROVE  ConnectorInv'
    BY <1>20 DEF LoopDial, Open
  <1>21. ASSUME NEW p \in Callers, LoopLockCallbacks(p)
       PROVE  ConnectorInv'
    BY <1>21 DEF LoopLockCallbacks
  <1>22. ASSUME NEW p \in Callers, LoopResubscribe(p)
       PROVE  ConnectorInv'
    BY <1>22 DEF LoopResubscribe
  <1>23. ASSUME NEW p \in Callers, LoopInstall(p)
       PROVE  ConnectorInv'
    BY <1>23 DEF LoopInstall, Install, Signal, LoopSleep
  <1>24. ASSUME NEW c \in Conns, ReadPublish(c)
       PROVE  ConnectorInv'
    BY <1>24 DEF ReadPublish, NextFrameIs
  <1>25. ASSUME NEW c \in Conns, ReadHeartbeat(c)
       PROVE  ConnectorInv'
    BY <1>25 DEF ReadHeartbeat, Answers, NextFrameIs
  <1>26. ASSUME NEW c \in Conns, HeartbeatLock(c)
       PROVE  ConnectorInv'
    BY <1>26 DEF HeartbeatLock, LockForReply
  <1>27. ASSUME NEW c \in Conns, HeartbeatSnapshot(c)
       PROVE  ConnectorInv'
    BY <1>27 DEF HeartbeatSnapshot
  <1>28. ASSUME NEW c \in Conns, HeartbeatReply(c)
       PROVE  ConnectorInv'
    BY <1>28 DEF HeartbeatReply
  <1>29. ASSUME NEW c \in Conns, ReaderEnds(c)
       PROVE  ConnectorInv'
    BY <1>29 DEF ReaderEnds
  <1>30. ASSUME NEW c \in Conns, HubHeartbeat(c)
       PROVE  ConnectorInv'
    BY <1>30 DEF HubHeartbeat
  <1>31. ASSUME NEW c \in Conns, Break(c)
       PROVE  ConnectorInv'
    <2>1. \A d \in Conns : link'[d] \in {"open", "broken"} =>
                             link[d] \in {"open", "broken"}
      BY <1>31 DEF Break, Up
    <2>2. NoOrphanConnection'
      BY <1>31, <2>1 DEF Break
    <2>. QED
      BY <1>31, <2>2 DEF Break
  <1>32. ASSUME NEW c \in Conns, Detect(c)
       PROVE  ConnectorInv'
    BY <1>32 DEF Detect
  <1>33. ASSUME NEW t \in Topics, DeferredSend(t)
       PROVE  ConnectorInv'
    BY <1>33 DEF DeferredSend, Signalled
  <1>34. CASE UNCHANGED vars
    BY <1>34
  <1>. QED
    BY <1>1, <1>2, <1>3, <1>4, <1>5, <1>6, <1>7, <1>8, <1>9, <1>10, <1>11,
       <1>12, <1>13, <1>14, <1>15, <1>16, <1>17, <1>18, <1>19, <1>20, <1>21,
       <1>22, <1>23, <1>24, <1>25, <1>26, <1>27, <1>28, <1>29, <1>30, <1>31,
       <1>32, <1>33, <1>34
    DEF Next, CallerStep, BeginStep, LoopStep, ReaderStep, NetworkStep

(***************************************************************************)
(* Every topic with a callback reaches the hub.                            *)
(***************************************************************************)
LEMMA SubscriptionInit == Init => SubscriptionInv
  <1> SUFFICES ASSUME Init PROVE SubscriptionInv
    OBVIOUS
  <1>1. CallTopics
    BY AtRest DEF CallTopics
  <1>2. DeferredSignalled
    BY AtRest DEF DeferredSignalled
  <1>3. Resubscribing /\ SubscribedWhenConnected
    BY AtRest DEF Resubscribing, SubscribedWhenConnected
  <1>. QED
    BY <1>1, <1>2, <1>3 DEF SubscriptionInv

LEMMA SubscriptionNext ==
  DisjointOwners /\ SafeInv /\ SubscriptionInv /\ [Next]_vars =>
     SubscriptionInv'
  <1> SUFFICES ASSUME DisjointOwners, TypeOK, Locals, MutexDiscipline,
                      BeginsOnce, FreshDialed, SubscriptionInv, [Next]_vars
               PROVE  SubscriptionInv'
    BY DEF SafeInv
  <1> USE NoneAssumption, OwnsAssumption
      DEF DisjointOwners, TypeOK, Locals, MutexDiscipline, BeginsOnce,
          FreshDialed, SubscriptionInv, CallTopics, DeferredSignalled,
          Resubscribing, SubscribedWhenConnected, vars, clientVars,
          callerVars, loopVars, readerVars, hubVars, BeginSteps, CallSteps,
          LoopSteps, LoopTask, BeginTask, ReaderTask, LoopTasks, BeginTasks,
          ReaderTasks, LinkStates, Up
  <1>1. ASSUME NEW p \in Callers, BeginAgain(p)
       PROVE  SubscriptionInv'
    BY <1>1 DEF BeginAgain, Call
  <1>2. ASSUME NEW p \in Callers, Begin(p)
       PROVE  SubscriptionInv'
    BY <1>2 DEF Begin, Call
  <1>3. ASSUME NEW p \in Callers, BeginDial(p)
       PROVE  SubscriptionInv'
    BY <1>3 DEF BeginDial, Open
  <1>4. ASSUME NEW p \in Callers, BeginDialFails(p)
       PROVE  SubscriptionInv'
    BY <1>4 DEF BeginDialFails, Return
  <1>5. ASSUME NEW p \in Callers, BeginLockCallbacks(p)
       PROVE  SubscriptionInv'
    BY <1>5 DEF BeginLockCallbacks
  <1>6. ASSUME NEW p \in Callers, BeginResubscribe(p)
       PROVE  SubscriptionInv'
    BY <1>6 DEF BeginResubscribe, SendSubscribe
  <1>7. ASSUME NEW p \in Callers, BeginUnlockCallbacks(p)
       PROVE  SubscriptionInv'
    BY <1>7 DEF BeginUnlockCallbacks
  <1>8. ASSUME NEW p \in Callers, BeginInstall(p)
       PROVE  SubscriptionInv'
    <2>0. CallTopics' /\ Resubscribing'
      BY <1>8 DEF BeginInstall, Install, Signal, Return
    <2>1. DeferredSignalled'
      BY <1>8 DEF BeginInstall, Install, Signal, Return, Receivers
    <2>2. ASSUME NEW t \in callbacks, Up(fresh[p])
          PROVE  \/ t \in hubTopics'[fresh[p]]
                 \/ \E q \in Callers : pc'[q] = "subscribe" /\ topic'[q] = t
                 \/ deferred'[t] > 0 /\ connectionTx'
      <3>1. t \in Topics /\ pc[p] = "install"
        BY <1>8 DEF BeginInstall
      <3>2. CASE t \in hubTopics[fresh[p]]
        BY <1>8, <3>2 DEF BeginInstall
      <3>3. CASE \E q \in Callers : pc[q] = "subscribe" /\ topic[q] = t
        BY <1>8, <3>1, <3>3 DEF BeginInstall, Return
      <3>4. CASE deferred[t] > 0
        BY <1>8, <3>1, <3>4 DEF BeginInstall, Install, Signal, Receivers
      <3>. QED
        BY <2>2, <3>1, <3>2, <3>3, <3>4
    <2>3. SubscribedWhenConnected'
      BY <1>8, <2>2 DEF BeginInstall, Install, Return
    <2>. QED
      BY <2>0, <2>1, <2>3
  <1>9. ASSUME NEW p \in Callers, SubscribeSend(p)
       PROVE  SubscriptionInv'
    <2>1. CallTopics' /\ DeferredSignalled' /\ SubscribedWhenConnected'
      BY <1>9 DEF SubscribeSend, Defer, SendSubscribe
    <2>2. ASSUME NEW q \in Callers, NEW t \in callbacks', pc'[q] = "install",
                 Up(fresh[q])'
          PROVE  \/ t \in hubTopics'[fresh'[q]]
                 \/ \E r \in Callers : pc'[r] = "subscribe" /\ topic'[r] = t
                 \/ deferred'[t] > 0
      <3>1. t \in Topics /\ write = None /\ pc[q] = "install" /\ Up(fresh[q])
        BY <1>9, <2>2 DEF SubscribeSend, Defer
      <3>2. deferred' = [deferred EXCEPT ![topic[p]] = @ + 1]
            /\ UNCHANGED <<hubTopics, fresh>>
        BY <1>9, <3>1 DEF SubscribeSend, Defer
      <3>3. CASE topic[p] = t
        BY <3>1, <3>2, <3>3
      <3>4. CASE topic[p] # t
        BY <1>9, <2>2, <3>1, <3>2, <3>4 DEF SubscribeSend, Defer
      <3>. QED
        BY <3>3, <3>4
    <2>3. Resubscribing'
      BY <1>9, <2>2 DEF SubscribeSend, Defer, SendSubscribe
    <2>. QED
      BY <2>1, <2>3
  <1>10. ASSUME NEW p \in Callers, UnsubscribeSend(p)
       PROVE  SubscriptionInv'
    <2>1. CallTopics' /\ DeferredSignalled' /\ Resubscribing'
      BY <1>10 DEF UnsubscribeSend, SendUnsubscribe
    <2>2. topic[p] \notin callbacks
      BY <1>10 DEF UnsubscribeSend
    <2>3. ASSUME NEW t \in callbacks, write \in Conns, t \in hubTopics[write]
          PROVE  t \in hubTopics'[write]
      BY <1>10, <2>2, <2>3 DEF UnsubscribeSend, SendUnsubscribe
    <2>4. ASSUME NEW q \in Callers, pc[q] = "subscribe"
          PROVE  pc'[q] = "subscribe" /\ topic'[q] = topic[q]
      BY <1>10, <2>4 DEF UnsubscribeSend
    <2>5. SubscribedWhenConnected'
      BY <1>10, <2>3, <2>4 DEF UnsubscribeSend
    <2>. QED
      BY <2>1, <2>5
  <1>11. ASSUME NEW p \in Callers, WaitUntilConnected(p)
       PROVE  SubscriptionInv'
    BY <1>11 DEF WaitUntilConnected, Call
  <1>12. ASSUME NEW p \in Callers, WaitReturns(p)
       PROVE  SubscriptionInv'
    BY <1>12 DEF WaitReturns, EndWait
  <1>13. ASSUME NEW p \in Callers, WaitTimesOut(p)
       PROVE  SubscriptionInv'
    BY <1>13 DEF WaitTimesOut, EndWait
  <1>14. ASSUME NEW p \in Callers, NEW t \in Topics, Subscribe(p, t)
       PROVE  SubscriptionInv'
    BY <1>14 DEF Subscribe, Call
  <1>15. ASSUME NEW p \in Callers, NEW t \in Topics, Unsubscribe(p, t)
       PROVE  SubscriptionInv'
    BY <1>15 DEF Unsubscribe, Call
  <1>16. ASSUME NEW p \in Callers, NEW t \in Topics, Publish(p, t)
       PROVE  SubscriptionInv'
    BY <1>16 DEF Publish, Call, Routed
  <1>17. ASSUME NEW p \in Callers, LoopLock(p)
       PROVE  SubscriptionInv'
    BY <1>17 DEF LoopLock
  <1>18. ASSUME NEW p \in Callers, LoopPing(p)
       PROVE  SubscriptionInv'
    BY <1>18 DEF LoopPing, PingFails, LoopSleep
  <1>19. ASSUME NEW p \in Callers, LoopDialFails(p)
       PROVE  SubscriptionInv'
    BY <1>19 DEF LoopDialFails, LoopSleep
  <1>20. ASSUME NEW p \in Callers, LoopDial(p)
       PROVE  SubscriptionInv'
    BY <1>20 DEF LoopDial, Open
  <1>21. ASSUME NEW p \in Callers, LoopLockCallbacks(p)
       PROVE  SubscriptionInv'
    BY <1>21 DEF LoopLockCallbacks
  <1>22. ASSUME NEW p \in Callers, LoopResubscribe(p)
       PROVE  SubscriptionInv'
    BY <1>22 DEF LoopResubscribe, SendSubscribe
  <1>23. ASSUME NEW p \in Callers, LoopInstall(p)
       PROVE  SubscriptionInv'
    BY <1>23 DEF LoopInstall, Install, Signal, LoopSleep, Receivers
  <1>24. ASSUME NEW c \in Conns, ReadPublish(c)
       PROVE  SubscriptionInv'
    BY <1>24 DEF ReadPublish, NextFrameIs
  <1>25. ASSUME NEW c \in Conns, ReadHeartbeat(c)
       PROVE  SubscriptionInv'
    BY <1>25 DEF ReadHeartbeat, Answers, NextFrameIs
  <1>26. ASSUME NEW c \in Conns, HeartbeatLock(c)
       PROVE  SubscriptionInv'
    BY <1>26 DEF HeartbeatLock, LockForReply
  <1>27. ASSUME NEW c \in Conns, HeartbeatSnapshot(c)
       PROVE  SubscriptionInv'
    BY <1>27 DEF HeartbeatSnapshot
  <1>28. ASSUME NEW c \in Conns, HeartbeatReply(c)
       PROVE  SubscriptionInv'
    BY <1>28 DEF HeartbeatReply, SendHeartbeatReply
  <1>29. ASSUME NEW c \in Conns, ReaderEnds(c)
       PROVE  SubscriptionInv'
    BY <1>29 DEF ReaderEnds
  <1>30. ASSUME NEW c \in Conns, HubHeartbeat(c)
       PROVE  SubscriptionInv'
    BY <1>30 DEF HubHeartbeat
  <1>31. ASSUME NEW c \in Conns, Break(c)
       PROVE  SubscriptionInv'
    BY <1>31 DEF Break
  <1>32. ASSUME NEW c \in Conns, Detect(c)
       PROVE  SubscriptionInv'
    BY <1>32 DEF Detect
  <1>33. ASSUME NEW t \in Topics, DeferredSend(t)
       PROVE  SubscriptionInv'
    BY <1>33 DEF DeferredSend, Signalled, SendSubscribe
  <1>34. CASE UNCHANGED vars
    BY <1>34
  <1>. QED
    BY <1>1, <1>2, <1>3, <1>4, <1>5, <1>6, <1>7, <1>8, <1>9, <1>10, <1>11,
       <1>12, <1>13, <1>14, <1>15, <1>16, <1>17, <1>18, <1>19, <1>20, <1>21,
       <1>22, <1>23, <1>24, <1>25, <1>26, <1>27, <1>28, <1>29, <1>30, <1>31,
       <1>32, <1>33, <1>34
    DEF Next, CallerStep, BeginStep, LoopStep, ReaderStep, NetworkStep

(***************************************************************************)
(* Only a deferred SUBSCRIBE comes after the end of a subscription.        *)
(***************************************************************************)

\* What is about to be sent again is still wanted: a topic of a resubscription
\* has its callback, and so has a topic of a heartbeat reply unless the call that
\* removed it has yet to send its UNSUBSCRIBE.
Resending ==
  /\ \A p \in Callers :
       /\ pc[p] = "resub" => todo[fresh[p]] \subseteq callbacks
       /\ loop[p] = "resub" => todo[loopFresh[p]] \subseteq callbacks
  /\ \A c \in Conns : \A t \in snapshot[c] :
       reader[c] = "reply" =>
         \/ t \in callbacks
         \/ \E p \in Callers : pc[p] = "unsubscribe" /\ topic[p] = t

LEMMA ResendingInit == Init => Resending
  BY DEF Init, Resending

LEMMA ResendingNext == SafeInv /\ Resending /\ [Next]_vars => Resending'
  <1> SUFFICES ASSUME TypeOK, Locals, MutexDiscipline, Resending, [Next]_vars
               PROVE  Resending'
    BY DEF SafeInv
  <1> USE NoneAssumption
      DEF TypeOK, Locals, MutexDiscipline, Resending, vars, clientVars,
          callerVars, loopVars, readerVars, hubVars, BeginSteps, CallSteps,
          LoopSteps, ReaderSteps, LoopTask, BeginTask, ReaderTask, LoopTasks,
          BeginTasks, ReaderTasks
  <1>1. ASSUME NEW p \in Callers, BeginAgain(p)
       PROVE  Resending'
    BY <1>1 DEF BeginAgain, Call
  <1>2. ASSUME NEW p \in Callers, Begin(p)
       PROVE  Resending'
    BY <1>2 DEF Begin, Call
  <1>3. ASSUME NEW p \in Callers, BeginDial(p)
       PROVE  Resending'
    BY <1>3 DEF BeginDial, Open
  <1>4. ASSUME NEW p \in Callers, BeginDialFails(p)
       PROVE  Resending'
    BY <1>4 DEF BeginDialFails, Return
  <1>5. ASSUME NEW p \in Callers, BeginLockCallbacks(p)
       PROVE  Resending'
    BY <1>5 DEF BeginLockCallbacks
  <1>6. ASSUME NEW p \in Callers, BeginResubscribe(p)
       PROVE  Resending'
    BY <1>6 DEF BeginResubscribe
  <1>7. ASSUME NEW p \in Callers, BeginUnlockCallbacks(p)
       PROVE  Resending'
    BY <1>7 DEF BeginUnlockCallbacks
  <1>8. ASSUME NEW p \in Callers, BeginInstall(p)
       PROVE  Resending'
    BY <1>8 DEF BeginInstall, Install, Signal, Return
  <1>9. ASSUME NEW p \in Callers, SubscribeSend(p)
       PROVE  Resending'
    BY <1>9 DEF SubscribeSend, Defer
  <1>10. ASSUME NEW p \in Callers, UnsubscribeSend(p)
       PROVE  Resending'
    BY <1>10 DEF UnsubscribeSend
  <1>11. ASSUME NEW p \in Callers, WaitUntilConnected(p)
       PROVE  Resending'
    BY <1>11 DEF WaitUntilConnected, Call
  <1>12. ASSUME NEW p \in Callers, WaitReturns(p)
       PROVE  Resending'
    BY <1>12 DEF WaitReturns, EndWait
  <1>13. ASSUME NEW p \in Callers, WaitTimesOut(p)
       PROVE  Resending'
    BY <1>13 DEF WaitTimesOut, EndWait
  <1>14. ASSUME NEW p \in Callers, NEW t \in Topics, Subscribe(p, t)
       PROVE  Resending'
    BY <1>14 DEF Subscribe, Call
  <1>15. ASSUME NEW p \in Callers, NEW t \in Topics, Unsubscribe(p, t)
       PROVE  Resending'
    BY <1>15 DEF Unsubscribe, Call
  <1>16. ASSUME NEW p \in Callers, NEW t \in Topics, Publish(p, t)
       PROVE  Resending'
    BY <1>16 DEF Publish, Call, Routed
  <1>17. ASSUME NEW p \in Callers, LoopLock(p)
       PROVE  Resending'
    BY <1>17 DEF LoopLock
  <1>18. ASSUME NEW p \in Callers, LoopPing(p)
       PROVE  Resending'
    BY <1>18 DEF LoopPing, PingFails, LoopSleep
  <1>19. ASSUME NEW p \in Callers, LoopDialFails(p)
       PROVE  Resending'
    BY <1>19 DEF LoopDialFails, LoopSleep
  <1>20. ASSUME NEW p \in Callers, LoopDial(p)
       PROVE  Resending'
    BY <1>20 DEF LoopDial, Open
  <1>21. ASSUME NEW p \in Callers, LoopLockCallbacks(p)
       PROVE  Resending'
    BY <1>21 DEF LoopLockCallbacks
  <1>22. ASSUME NEW p \in Callers, LoopResubscribe(p)
       PROVE  Resending'
    BY <1>22 DEF LoopResubscribe
  <1>23. ASSUME NEW p \in Callers, LoopInstall(p)
       PROVE  Resending'
    BY <1>23 DEF LoopInstall, Install, Signal, LoopSleep
  <1>24. ASSUME NEW c \in Conns, ReadPublish(c)
       PROVE  Resending'
    BY <1>24 DEF ReadPublish, NextFrameIs
  <1>25. ASSUME NEW c \in Conns, ReadHeartbeat(c)
       PROVE  Resending'
    BY <1>25 DEF ReadHeartbeat, Answers, NextFrameIs
  <1>26. ASSUME NEW c \in Conns, HeartbeatLock(c)
       PROVE  Resending'
    BY <1>26 DEF HeartbeatLock, LockForReply
  <1>27. ASSUME NEW c \in Conns, HeartbeatSnapshot(c)
       PROVE  Resending'
    BY <1>27 DEF HeartbeatSnapshot
  <1>28. ASSUME NEW c \in Conns, HeartbeatReply(c)
       PROVE  Resending'
    BY <1>28 DEF HeartbeatReply
  <1>29. ASSUME NEW c \in Conns, ReaderEnds(c)
       PROVE  Resending'
    BY <1>29 DEF ReaderEnds
  <1>30. ASSUME NEW c \in Conns, HubHeartbeat(c)
       PROVE  Resending'
    BY <1>30 DEF HubHeartbeat
  <1>31. ASSUME NEW c \in Conns, Break(c)
       PROVE  Resending'
    BY <1>31 DEF Break
  <1>32. ASSUME NEW c \in Conns, Detect(c)
       PROVE  Resending'
    BY <1>32 DEF Detect
  <1>33. ASSUME NEW t \in Topics, DeferredSend(t)
       PROVE  Resending'
    BY <1>33 DEF DeferredSend, Signalled
  <1>34. CASE UNCHANGED vars
    BY <1>34
  <1>. QED
    BY <1>1, <1>2, <1>3, <1>4, <1>5, <1>6, <1>7, <1>8, <1>9, <1>10, <1>11,
       <1>12, <1>13, <1>14, <1>15, <1>16, <1>17, <1>18, <1>19, <1>20, <1>21,
       <1>22, <1>23, <1>24, <1>25, <1>26, <1>27, <1>28, <1>29, <1>30, <1>31,
       <1>32, <1>33, <1>34
    DEF Next, CallerStep, BeginStep, LoopStep, ReaderStep, NetworkStep


NoResurrection ==
  \A c \in Conns, t \in Topics :
    t \in hubTopics'[c] \ hubTopics[c] /\ deferred' = deferred =>
      \/ t \in callbacks
      \/ \E p \in Callers : pc[p] = "unsubscribe" /\ topic[p] = t

LEMMA ResurrectionStep ==
  SafeInv /\ CallTopics /\ Resending /\ [Next]_vars => NoResurrection
  <1> SUFFICES ASSUME TypeOK, CallTopics, Resending, [Next]_vars
               PROVE  NoResurrection
    BY DEF SafeInv
  <1> USE DEF NoResurrection, TypeOK, CallTopics, Resending, vars, clientVars,
          callerVars, loopVars, readerVars, hubVars
  <1>1. ASSUME NEW p \in Callers, BeginAgain(p)
       PROVE  NoResurrection
    BY <1>1 DEF BeginAgain, Call
  <1>2. ASSUME NEW p \in Callers, Begin(p)
       PROVE  NoResurrection
    BY <1>2 DEF Begin, Call
  <1>3. ASSUME NEW p \in Callers, BeginDial(p)
       PROVE  NoResurrection
    BY <1>3 DEF BeginDial, Open
  <1>4. ASSUME NEW p \in Callers, BeginDialFails(p)
       PROVE  NoResurrection
    BY <1>4 DEF BeginDialFails, Return
  <1>5. ASSUME NEW p \in Callers, BeginLockCallbacks(p)
       PROVE  NoResurrection
    BY <1>5 DEF BeginLockCallbacks
  <1>6. ASSUME NEW p \in Callers, BeginResubscribe(p)
       PROVE  NoResurrection
    BY <1>6 DEF BeginResubscribe, SendSubscribe
  <1>7. ASSUME NEW p \in Callers, BeginUnlockCallbacks(p)
       PROVE  NoResurrection
    BY <1>7 DEF BeginUnlockCallbacks
  <1>8. ASSUME NEW p \in Callers, BeginInstall(p)
       PROVE  NoResurrection
    BY <1>8 DEF BeginInstall, Install, Signal, Return
  <1>9. ASSUME NEW p \in Callers, SubscribeSend(p)
       PROVE  NoResurrection
    <2>1. CASE write = None
      BY <1>9, <2>1 DEF SubscribeSend
    <2>2. CASE write # None
      <3>1. SendSubscribe(write, topic[p]) /\ topic[p] \in callbacks
        BY <1>9, <2>2 DEF SubscribeSend
      <3>. QED
        BY <2>2, <3>1 DEF SendSubscribe
    <2>. QED
      BY <2>1, <2>2
  <1>10. ASSUME NEW p \in Callers, UnsubscribeSend(p)
       PROVE  NoResurrection
    <2>1. \A c \in Conns : hubTopics'[c] \subseteq hubTopics[c]
      BY <1>10 DEF UnsubscribeSend, SendUnsubscribe
    <2>. QED
      BY <2>1
  <1>11. ASSUME NEW p \in Callers, WaitUntilConnected(p)
       PROVE  NoResurrection
    BY <1>11 DEF WaitUntilConnected, Call
  <1>12. ASSUME NEW p \in Callers, WaitReturns(p)
       PROVE  NoResurrection
    BY <1>12 DEF WaitReturns, EndWait
  <1>13. ASSUME NEW p \in Callers, WaitTimesOut(p)
       PROVE  NoResurrection
    BY <1>13 DEF WaitTimesOut, EndWait
  <1>14. ASSUME NEW p \in Callers, NEW t \in Topics, Subscribe(p, t)
       PROVE  NoResurrection
    BY <1>14 DEF Subscribe, Call
  <1>15. ASSUME NEW p \in Callers, NEW t \in Topics, Unsubscribe(p, t)
       PROVE  NoResurrection
    BY <1>15 DEF Unsubscribe, Call
  <1>16. ASSUME NEW p \in Callers, NEW t \in Topics, Publish(p, t)
       PROVE  NoResurrection
    BY <1>16 DEF Publish, Call, Routed
  <1>17. ASSUME NEW p \in Callers, LoopLock(p)
       PROVE  NoResurrection
    BY <1>17 DEF LoopLock
  <1>18. ASSUME NEW p \in Callers, LoopPing(p)
       PROVE  NoResurrection
    BY <1>18 DEF LoopPing, PingFails, LoopSleep
  <1>19. ASSUME NEW p \in Callers, LoopDialFails(p)
       PROVE  NoResurrection
    BY <1>19 DEF LoopDialFails, LoopSleep
  <1>20. ASSUME NEW p \in Callers, LoopDial(p)
       PROVE  NoResurrection
    BY <1>20 DEF LoopDial, Open
  <1>21. ASSUME NEW p \in Callers, LoopLockCallbacks(p)
       PROVE  NoResurrection
    BY <1>21 DEF LoopLockCallbacks
  <1>22. ASSUME NEW p \in Callers, LoopResubscribe(p)
       PROVE  NoResurrection
    BY <1>22 DEF LoopResubscribe, SendSubscribe
  <1>23. ASSUME NEW p \in Callers, LoopInstall(p)
       PROVE  NoResurrection
    BY <1>23 DEF LoopInstall, Install, Signal, LoopSleep
  <1>24. ASSUME NEW c \in Conns, ReadPublish(c)
       PROVE  NoResurrection
    BY <1>24 DEF ReadPublish, NextFrameIs
  <1>25. ASSUME NEW c \in Conns, ReadHeartbeat(c)
       PROVE  NoResurrection
    BY <1>25 DEF ReadHeartbeat, Answers, NextFrameIs
  <1>26. ASSUME NEW c \in Conns, HeartbeatLock(c)
       PROVE  NoResurrection
    BY <1>26 DEF HeartbeatLock, LockForReply
  <1>27. ASSUME NEW c \in Conns, HeartbeatSnapshot(c)
       PROVE  NoResurrection
    BY <1>27 DEF HeartbeatSnapshot
  <1>28. ASSUME NEW c \in Conns, HeartbeatReply(c)
       PROVE  NoResurrection
    <2>1. \A d \in Conns : hubTopics'[d] \subseteq hubTopics[d] \cup snapshot[c]
      BY <1>28 DEF HeartbeatReply, SendHeartbeatReply
    <2>2. reader[c] = "reply"
      BY <1>28 DEF HeartbeatReply
    <2>. QED
      BY <2>1, <2>2
  <1>29. ASSUME NEW c \in Conns, ReaderEnds(c)
       PROVE  NoResurrection
    BY <1>29 DEF ReaderEnds
  <1>30. ASSUME NEW c \in Conns, HubHeartbeat(c)
       PROVE  NoResurrection
    BY <1>30 DEF HubHeartbeat
  <1>31. ASSUME NEW c \in Conns, Break(c)
       PROVE  NoResurrection
    BY <1>31 DEF Break
  <1>32. ASSUME NEW c \in Conns, Detect(c)
       PROVE  NoResurrection
    BY <1>32 DEF Detect
  <1>33. ASSUME NEW t \in Topics, DeferredSend(t)
       PROVE  NoResurrection
    BY <1>33 DEF DeferredSend, Signalled, SendSubscribe
  <1>34. CASE UNCHANGED vars
    BY <1>34
  <1>. QED
    BY <1>1, <1>2, <1>3, <1>4, <1>5, <1>6, <1>7, <1>8, <1>9, <1>10, <1>11,
       <1>12, <1>13, <1>14, <1>15, <1>16, <1>17, <1>18, <1>19, <1>20, <1>21,
       <1>22, <1>23, <1>24, <1>25, <1>26, <1>27, <1>28, <1>29, <1>30, <1>31,
       <1>32, <1>33, <1>34
    DEF Next, CallerStep, BeginStep, LoopStep, ReaderStep, NetworkStep

(***************************************************************************)
(* The client implements LazySession.                                      *)
(***************************************************************************)

\* A connection that is not up holds nothing: one that is new, or gone.
Forgotten == \A c \in Conns : ~Up(c) => hubTopics[c] = {}

LEMMA ForgottenInit == Init => Forgotten
  BY DEF Init, Forgotten

LEMMA ForgottenNext == TypeOK /\ Locals /\ Forgotten /\ [Next]_vars => Forgotten'
  <1> SUFFICES ASSUME TypeOK, Locals, Forgotten, [Next]_vars PROVE Forgotten'
    OBVIOUS
  <1>1. ASSUME UNCHANGED <<hubTopics, link>> PROVE Forgotten'
    BY <1>1 DEF Forgotten, Up
  <1>2. ASSUME NEW c, NEW t, SendSubscribe(c, t), UNCHANGED link
        PROVE Forgotten'
    BY <1>2 DEF SendSubscribe, Forgotten, Up, TypeOK
  <1>3. ASSUME NEW c, NEW t, SendUnsubscribe(c, t), UNCHANGED link
        PROVE Forgotten'
    BY <1>3 DEF SendUnsubscribe, Forgotten, Up, TypeOK
  <1>4. ASSUME NEW c, NEW S, SendHeartbeatReply(c, S), UNCHANGED link
        PROVE Forgotten'
    BY <1>4 DEF SendHeartbeatReply, Forgotten, Up, TypeOK
  <1>5. ASSUME NEW c \in Conns, Open(c), UNCHANGED hubTopics PROVE Forgotten'
    BY <1>5 DEF Open, Forgotten, Up, TypeOK
  <1> USE DEF vars, clientVars, callerVars, loopVars, readerVars, hubVars
  <1>6. ASSUME NEW p \in Callers, BeginStep(p) PROVE Forgotten'
    <2>1. CASE BeginDial(p)
      BY <1>5, <2>1 DEF BeginDial
    <2>2. CASE BeginResubscribe(p)
      BY <1>2, <2>2 DEF BeginResubscribe
    <2>. QED
      BY <1>1, <1>6, <2>1, <2>2
      DEF BeginStep, BeginDialFails, BeginLockCallbacks, BeginUnlockCallbacks,
          BeginInstall
  <1>7. ASSUME NEW p \in Callers, CallerStep(p) PROVE Forgotten'
    <2>1. CASE SubscribeSend(p)
      BY <1>1, <1>2, <2>1 DEF SubscribeSend
    <2>2. CASE UnsubscribeSend(p)
      BY <1>1, <1>3, <2>2 DEF UnsubscribeSend
    <2>. QED
      BY <1>1, <1>6, <1>7, <2>1, <2>2
      DEF CallerStep, BeginAgain, Begin, Subscribe, Unsubscribe, Publish,
          WaitUntilConnected, WaitReturns, WaitTimesOut, EndWait
  <1>8. ASSUME NEW p \in Callers, LoopStep(p) PROVE Forgotten'
    <2>1. CASE LoopDial(p)
      BY <1>5, <2>1 DEF LoopDial
    <2>2. CASE LoopResubscribe(p)
      BY <1>2, <2>2 DEF LoopResubscribe
    <2>. QED
      BY <1>1, <1>8, <2>1, <2>2
      DEF LoopStep, LoopLock, LoopPing, LoopDialFails, LoopLockCallbacks,
          LoopInstall
  <1>9. ASSUME NEW c \in Conns, ReaderStep(c) PROVE Forgotten'
    <2>1. CASE HeartbeatReply(c)
      BY <1>1, <1>4, <2>1 DEF HeartbeatReply
    <2>. QED
      BY <1>1, <1>9, <2>1
      DEF ReaderStep, ReadPublish, ReadHeartbeat, HeartbeatLock,
          HeartbeatSnapshot, ReaderEnds
  <1>10. ASSUME NEW c \in Conns, NetworkStep(c) PROVE Forgotten'
    <2>1. CASE HubHeartbeat(c)
      BY <1>1, <2>1 DEF HubHeartbeat
    <2>2. CASE Break(c)
      BY <2>2 DEF Break, Forgotten, Up, TypeOK
    <2>3. CASE Detect(c)
      BY <2>3 DEF Detect, Forgotten, Up, TypeOK
    <2>. QED
      BY <1>10, <2>1, <2>2, <2>3 DEF NetworkStep
  <1>11. ASSUME NEW t \in Topics, DeferredSend(t) PROVE Forgotten'
    BY <1>1, <1>2, <1>11 DEF DeferredSend
  <1>. QED
    BY <1>1, <1>7, <1>8, <1>9, <1>10, <1>11 DEF Next

(***************************************************************************)
(* What the variables of LazySession are, and when they stay.              *)
(***************************************************************************)
LEMMA ToTellSame ==
  ASSUME \A q \in Callers :
           /\ q \in Telling' <=> q \in Telling
           /\ q \in Telling => topic'[q] = topic[q]
  PROVE  ToTell' = ToTell
  <1>1. Telling' = Telling
    BY DEF Telling
  <1>. QED
    BY <1>1 DEF ToTell, Telling

LEMMA ToTellMore ==
  ASSUME TypeOK, NEW p \in Callers, NEW t \in Topics, pc[p] = "idle",
         NEW s \in {"subscribe", "unsubscribe"},
         pc' = [pc EXCEPT ![p] = s], topic' = [topic EXCEPT ![p] = t]
  PROVE  ToTell' = ToTell \cup {t}
  <1>1. Telling' = Telling \cup {p} /\ p \notin Telling
    BY DEF Telling, TypeOK
  <1>2. \A q \in Telling : topic'[q] = topic[q]
    BY <1>1 DEF Telling, TypeOK
  <1>3. topic'[p] = t
    BY DEF TypeOK
  <1>. QED
    BY <1>1, <1>2, <1>3 DEF ToTell

\* With one caller for each topic, a call that has told the hub is the only one
\* there was to tell of its topic.
LEMMA ToTellLess ==
  ASSUME DisjointOwners, TypeOK, Locals, NEW p \in Telling,
         pc' = [pc EXCEPT ![p] = "idle"], topic' = [topic EXCEPT ![p] = None]
  PROVE  ToTell' = ToTell \ {topic[p]} /\ topic[p] \in ToTell
  <1>1. Telling' = Telling \ {p}
    BY DEF Telling, TypeOK
  <1>2. \A q \in Telling' : topic'[q] = topic[q] /\ topic[q] # topic[p]
    BY <1>1 DEF Telling, TypeOK, Locals, DisjointOwners
  <1>3. ToTell' = {topic[q] : q \in Telling \ {p}}
    BY <1>1, <1>2 DEF ToTell
  <1>. QED
    BY <1>1, <1>2, <1>3 DEF ToTell

LEMMA ConnectingNone ==
  ASSUME TypeOK, OneConnector, FreshDialed, write # None
  PROVE  Connecting = {} /\ Coming = {}
  BY NoneAssumption DEF Connecting, Coming, TypeOK, OneConnector, FreshDialed,
     BeginSteps

LEMMA ConnectingOne ==
  ASSUME TypeOK, Locals, OneConnector, FreshDialed, NEW p \in Callers
  PROVE  /\ pc[p] = "dial" => Connecting = {} /\ Coming = {}
         /\ pc[p] \in {"dialed", "resub", "install"} =>
              Connecting = {fresh[p]} /\ Coming = hubTopics[fresh[p]]
         /\ loop[p] \in {"sleep", "check"} => Connecting = {} /\ Coming = {}
         /\ loop[p] \in {"dialed", "resub"} =>
              Connecting = {loopFresh[p]} /\ Coming = hubTopics[loopFresh[p]]
  <1> USE NoneAssumption DEF TypeOK, Locals, OneConnector, FreshDialed, BeginSteps
  <1>1. ASSUME NEW c \in Connecting
        PROVE  \E q \in Callers :
                 \/ c = fresh[q] /\ pc[q] \in {"dialed", "resub", "install"}
                 \/ c = loopFresh[q] /\ loop[q] \in {"dialed", "resub"}
    BY DEF Connecting
  <1>2. pc[p] = "dial" \/ loop[p] \in {"sleep", "check"} => Connecting = {}
    BY <1>1
  <1>3. pc[p] \in {"dialed", "resub", "install"} => Connecting = {fresh[p]}
    <2> SUFFICES ASSUME pc[p] \in {"dialed", "resub", "install"}
                 PROVE  Connecting = {fresh[p]}
      OBVIOUS
    <2>1. fresh[p] \in Connecting
      BY DEF Connecting
    <2>2. ASSUME NEW c \in Connecting PROVE c = fresh[p]
      <3>1. PICK q \in Callers :
              \/ c = fresh[q] /\ pc[q] \in {"dialed", "resub", "install"}
              \/ c = loopFresh[q] /\ loop[q] \in {"dialed", "resub"}
        BY <1>1
      <3>2. q = p /\ loop[q] = "off"
        BY <3>1
      <3>. QED
        BY <3>1, <3>2
    <2>. QED
      BY <2>1, <2>2
  <1>4. loop[p] \in {"dialed", "resub"} => Connecting = {loopFresh[p]}
    <2> SUFFICES ASSUME loop[p] \in {"dialed", "resub"}
                 PROVE  Connecting = {loopFresh[p]}
      OBVIOUS
    <2>1. loopFresh[p] \in Connecting
      BY DEF Connecting
    <2>2. ASSUME NEW c \in Connecting PROVE c = loopFresh[p]
      <3>1. PICK q \in Callers :
              \/ c = fresh[q] /\ pc[q] \in {"dialed", "resub", "install"}
              \/ c = loopFresh[q] /\ loop[q] \in {"dialed", "resub"}
        BY <1>1
      <3>2. q = p /\ pc[p] \notin {"dialed", "resub", "install"}
        BY <3>1
      <3>. QED
        BY <3>1, <3>2
    <2>. QED
      BY <2>1, <2>2
  <1>. QED
    BY <1>2, <1>3, <1>4 DEF Coming

(***************************************************************************)
(* Every step of the client is a step of LazySession, or none.             *)
(***************************************************************************)
LazyInv == SafeInv /\ SubscriptionInv /\ Resending /\ Forgotten

LazyNext == [L!Next]_(L!vars)

LEMMA LazyInit == Init => L!Init
  <1> SUFFICES ASSUME Init PROVE L!Init
    OBVIOUS
  <1>1. ToTell = {} /\ Coming = {} /\ Held = {} /\ ~InUse
    BY NoneAssumption DEF Init, ToTell, Telling, Coming, Connecting, Held, InUse
  <1>. QED
    BY <1>1 DEF Init, L!Init

\* A step that touches none of what LazySession sees.
LEMMA LazyStutter ==
  ASSUME ToTell' = ToTell,
         UNCHANGED <<callbacks, deferred, hubTopics, link, write, fresh, loopFresh>>
  PROVE  LazyNext
  <1>1. Coming' = Coming /\ Held' = Held /\ InUse' = InUse
    BY DEF Coming, Connecting, Held, InUse, Up
  <1>. QED
    BY <1>1 DEF LazyNext, L!vars

LEMMA LazyBegin ==
  ASSUME DisjointOwners, LazyInv, NEW p \in Callers, BeginStep(p)
  PROVE  LazyNext
  <1> USE NoneAssumption
      DEF vars, clientVars, callerVars, loopVars, readerVars, hubVars
  <1>0. TypeOK /\ Locals /\ OneConnector /\ FreshDialed /\ pc[p] \in BeginSteps
    BY DEF LazyInv, SafeInv, BeginStep, BeginDial, BeginDialFails,
       BeginLockCallbacks, BeginResubscribe, BeginUnlockCallbacks, BeginInstall,
       BeginSteps
  <1>1. write = None /\ ~InUse /\ Held = {}
    BY <1>0 DEF OneConnector, InUse, Held
  <1>2. ToTell' = ToTell
    <2>1. pc'[p] \in BeginSteps \cup {"idle"} /\ topic' = topic
          /\ \A q \in Callers : q # p => pc'[q] = pc[q]
      BY <1>0 DEF BeginStep, BeginDial, BeginDialFails, BeginLockCallbacks,
         BeginResubscribe, BeginUnlockCallbacks, BeginInstall, Return,
         BeginSteps, TypeOK
    <2>. QED
      BY <1>0, <2>1, ToTellSame DEF Telling, BeginSteps
  <1>3. CASE BeginDial(p)
    <2>1. PICK c \in Conns : Open(c) /\ fresh' = [fresh EXCEPT ![p] = c]
      BY <1>3 DEF BeginDial
    <2>2. Coming = {} /\ Connecting = {}
      BY <1>0, <1>3, ConnectingOne DEF BeginDial
    <2>3. hubTopics[c] = {}
      BY <2>1 DEF Open, LazyInv, Forgotten, Up
    <2>4. \A d \in Connecting' : d = c
      BY <1>0, <1>3, <2>1, <2>2 DEF Connecting, BeginDial, TypeOK
    <2>5. Coming' = {}
      BY <1>3, <2>3, <2>4 DEF Coming, BeginDial
    <2>6. InUse' = InUse /\ Held' = Held
      BY <1>1, <1>3 DEF InUse, Held, BeginDial
    <2>. QED
      BY <1>2, <1>3, <2>2, <2>5, <2>6 DEF BeginDial, LazyNext, L!vars
  <1>4. CASE BeginResubscribe(p)
    <2>1. PICK t \in todo[fresh[p]] :
            /\ SendSubscribe(fresh[p], t)
            /\ todo' = [todo EXCEPT ![fresh[p]] = @ \ {t}]
      BY <1>4 DEF BeginResubscribe
    <2>2. t \in callbacks /\ t \in Topics /\ fresh[p] \in Conns
      BY <1>0, <1>4, <2>1
      DEF BeginResubscribe, LazyInv, Resending, TypeOK, Locals
    <2>3. Connecting = {fresh[p]} /\ Coming = hubTopics[fresh[p]]
      BY <1>0, <1>4, ConnectingOne DEF BeginResubscribe
    <2>4. Connecting' = Connecting
      BY <1>4 DEF Connecting, BeginResubscribe
    <2>5. Coming' = hubTopics'[fresh[p]]
      BY <2>3, <2>4 DEF Coming
    <2>6. Coming' = Coming \cup {t} \/ Coming' = Coming
      BY <1>0, <2>1, <2>2, <2>3, <2>5 DEF SendSubscribe, TypeOK
    <2>7. InUse' = InUse /\ Held' = Held
      BY <1>1, <1>4 DEF InUse, Held, BeginResubscribe
    <2>8. UNCHANGED <<callbacks, deferred>>
      BY <1>4 DEF BeginResubscribe
    <2>9. L!Prepare(t) \/ UNCHANGED L!vars
      BY <1>1, <1>2, <2>2, <2>6, <2>7, <2>8 DEF L!vars, L!Prepare
    <2>. QED
      BY <2>2, <2>9 DEF LazyNext, L!Next
  <1>5. CASE BeginInstall(p)
    <2>1. Connecting = {fresh[p]} /\ Coming = hubTopics[fresh[p]]
          /\ fresh[p] \in Conns
      BY <1>0, <1>5, ConnectingOne DEF BeginInstall, Locals
    <2>2. Connecting' = {} /\ Coming' = {}
      <3>1. \A q \in Callers : fresh'[q] = None /\ loopFresh'[q] = None
        BY <1>0, <1>5
        DEF BeginInstall, OneConnector, FreshDialed, TypeOK, BeginSteps
      <3>. QED
        BY <3>1 DEF Connecting, Coming
    <2>3. InUse' = Up(fresh[p]) /\ Held' = Coming
      BY <1>5, <2>1 DEF BeginInstall, Install, InUse, Held, Up, LazyInv, Forgotten
    <2>4. ASSUME Up(fresh[p]), NEW t \in callbacks
          PROVE  t \in Coming \/ t \in ToTell \/ deferred[t] > 0
      <3>1. t \in Topics /\ pc[p] = "install"
        BY <1>0, <1>5 DEF TypeOK, BeginInstall
      <3>2. \/ t \in hubTopics[fresh[p]]
            \/ \E q \in Callers : pc[q] = "subscribe" /\ topic[q] = t
            \/ deferred[t] > 0
        BY <2>4, <3>1 DEF LazyInv, SubscriptionInv, Resubscribing
      <3>. QED
        BY <2>1, <3>2 DEF ToTell, Telling
    <2>5. UNCHANGED <<callbacks, deferred>>
      BY <1>5 DEF BeginInstall
    <2>6. CASE Up(fresh[p])
      BY <1>1, <1>2, <2>2, <2>3, <2>4, <2>5, <2>6
      DEF LazyNext, L!Next, L!Open
    <2>7. CASE ~Up(fresh[p])
      <3>1. Coming = {}
        BY <2>1, <2>7 DEF LazyInv, Forgotten
      <3>2. InUse' = InUse
        BY <1>1, <2>3, <2>7 DEF InUse, Up
      <3>. QED
        BY <1>1, <1>2, <2>2, <2>3, <2>5, <3>1, <3>2 DEF LazyNext, L!vars
    <2>. QED
      BY <2>6, <2>7
  <1>6. CASE BeginDialFails(p) \/ BeginLockCallbacks(p) \/ BeginUnlockCallbacks(p)
    BY <1>2, <1>6, LazyStutter
    DEF BeginDialFails, Return, BeginLockCallbacks, BeginUnlockCallbacks
  <1>. QED
    BY <1>3, <1>4, <1>5, <1>6 DEF BeginStep

LEMMA LazyCaller ==
  ASSUME DisjointOwners, LazyInv, NEW p \in Callers, CallerStep(p)
  PROVE  LazyNext
  <1> USE NoneAssumption
      DEF vars, clientVars, callerVars, loopVars, readerVars, hubVars
  <1>0. TypeOK /\ Locals /\ OneConnector /\ FreshDialed
    BY DEF LazyInv, SafeInv
  <1>1. ASSUME NEW t \in Topics, Subscribe(p, t) \/ Unsubscribe(p, t)
        PROVE  LazyNext
    <2>1. ToTell' = ToTell \cup {t}
      BY <1>0, <1>1, ToTellMore DEF Subscribe, Unsubscribe, Call
    <2>2. t \notin ToTell
      BY <1>0, <1>1
      DEF ToTell, Telling, Subscribe, Unsubscribe, Call, Locals, DisjointOwners
    <2>3. callbacks' = callbacks \cup {t} \/ callbacks' = callbacks \ {t}
      BY <1>1 DEF Subscribe, Unsubscribe
    <2>4. Coming' = Coming /\ Held' = Held /\ InUse' = InUse /\ deferred' = deferred
      BY <1>1
      DEF Subscribe, Unsubscribe, Coming, Connecting, Held, InUse, Up
    <2>. QED
      BY <2>1, <2>2, <2>3, <2>4
      DEF LazyNext, L!Next, L!Ask, L!Want, L!Drop
  <1>2. CASE SubscribeSend(p) \/ UnsubscribeSend(p)
    <2> DEFINE t == topic[p]
    <2>1. p \in Telling
      BY <1>2 DEF SubscribeSend, UnsubscribeSend, Telling
    <2>2. t \in Topics
      BY <1>0, <2>1, OwnsAssumption DEF Telling, Locals
    <2>3. ToTell' = ToTell \ {t} /\ t \in ToTell
      <3>1. pc' = [pc EXCEPT ![p] = "idle"] /\ topic' = [topic EXCEPT ![p] = None]
        BY <1>2 DEF SubscribeSend, UnsubscribeSend
      <3>. QED
        BY <1>0, <2>1, <3>1, ToTellLess
    <2>4. UNCHANGED <<callbacks, write, link, fresh, loopFresh>>
      BY <1>2 DEF SubscribeSend, UnsubscribeSend
    <2>5. InUse' = InUse /\ Connecting' = Connecting
      BY <2>4 DEF InUse, Up, Connecting
    <2>6. CASE InUse
      <3>1. write \in Conns /\ write # None /\ Up(write)
        BY <1>0, <2>6 DEF InUse, TypeOK
      <3>2. Coming = {} /\ Coming' = {}
        BY <1>0, <2>5, <3>1, ConnectingNone DEF Coming
      <3>3. deferred' = deferred
        BY <1>2, <3>1 DEF SubscribeSend, UnsubscribeSend
      <3>4. hubTopics'[write] = IF t \in callbacks THEN hubTopics[write] \cup {t}
                                                  ELSE hubTopics[write] \ {t}
        <4>1. CASE SubscribeSend(p)
          <5>1. t \in callbacks /\ SendSubscribe(write, t)
            BY <3>1, <4>1 DEF SubscribeSend, LazyInv, SubscriptionInv, CallTopics
          <5>. QED
            BY <1>0, <3>1, <5>1 DEF SendSubscribe, TypeOK
        <4>2. CASE UnsubscribeSend(p)
          <5>1. t \notin callbacks /\ SendUnsubscribe(write, t)
            BY <3>1, <4>2 DEF UnsubscribeSend, LazyInv, SubscriptionInv, CallTopics
          <5>. QED
            BY <1>0, <3>1, <5>1 DEF SendUnsubscribe, TypeOK
        <4>. QED
          BY <1>2, <4>1, <4>2
      <3>5. Held = hubTopics[write] /\ Held' = hubTopics'[write]
        BY <2>4, <2>5, <2>6 DEF Held
      <3>6. L!Tell(t)
        BY <2>3, <2>4, <2>5, <2>6, <3>2, <3>3, <3>4, <3>5 DEF L!Tell
      <3>. QED
        BY <2>2, <3>6 DEF LazyNext, L!Next
    <2>7. CASE ~InUse
      <3>1. hubTopics' = hubTopics
        BY <1>2, <2>7
        DEF SubscribeSend, UnsubscribeSend, SendSubscribe, SendUnsubscribe, InUse
      <3>2. Coming' = Coming /\ Held' = Held
        BY <2>4, <2>5, <3>1 DEF Coming, Held
      <3>3. \/ deferred' = deferred
            \/ t \in callbacks /\ deferred' = [deferred EXCEPT ![t] = @ + 1]
        BY <1>2
        DEF SubscribeSend, UnsubscribeSend, Defer, LazyInv, SubscriptionInv,
            CallTopics
      <3>4. L!TellNobody(t)
        BY <2>3, <2>4, <2>5, <2>7, <3>2, <3>3 DEF L!TellNobody
      <3>. QED
        BY <2>2, <3>4 DEF LazyNext, L!Next
    <2>. QED
      BY <2>6, <2>7
  <1>3. CASE \/ BeginAgain(p) \/ Begin(p) \/ WaitUntilConnected(p)
             \/ WaitReturns(p) \/ WaitTimesOut(p) \/ \E t \in Topics : Publish(p, t)
    <2>1. ToTell' = ToTell
      <3>1. /\ pc[p] \in {"idle", "await"} /\ topic' = topic
            /\ pc'[p] \in {"idle", "dial", "await"}
            /\ \A q \in Callers : q # p => pc'[q] = pc[q]
        BY <1>0, <1>3
        DEF BeginAgain, Begin, WaitUntilConnected, WaitReturns, WaitTimesOut,
            EndWait, Publish, Call, TypeOK
      <3>. QED
        BY <3>1, ToTellSame DEF Telling
    <2>. QED
      BY <1>3, <2>1, LazyStutter
      DEF BeginAgain, Begin, WaitUntilConnected, WaitReturns, WaitTimesOut,
          EndWait, Publish
  <1>. QED
    BY <1>1, <1>2, <1>3, LazyBegin DEF CallerStep

LEMMA LazyLoop ==
  ASSUME DisjointOwners, LazyInv, NEW p \in Callers, LoopStep(p)
  PROVE  LazyNext
  <1> USE NoneAssumption
      DEF vars, clientVars, callerVars, loopVars, readerVars, hubVars
  <1>0. TypeOK /\ Locals /\ OneConnector /\ FreshDialed
    BY DEF LazyInv, SafeInv
  <1>1. UNCHANGED <<pc, topic, callbacks, deferred>> /\ ToTell' = ToTell
    BY DEF LoopStep, LoopLock, LoopPing, LoopDialFails, LoopDial,
       LoopLockCallbacks, LoopResubscribe, LoopInstall, ToTell, Telling
  <1>2. CASE LoopPing(p)
    <2>1. UNCHANGED <<hubTopics, link, fresh, loopFresh>> /\ write # None
      BY <1>2 DEF LoopPing
    <2>2. write' = write \/ (write' = None /\ link[write] = "dead")
      BY <1>2 DEF LoopPing, PingFails
    <2>3. InUse' = InUse
      BY <2>1, <2>2 DEF InUse, Up
    <2>4. Held' = Held
      BY <2>1, <2>2 DEF Held, InUse, Up
    <2>5. Coming' = Coming
      BY <2>1 DEF Coming, Connecting
    <2>. QED
      BY <1>1, <2>3, <2>4, <2>5 DEF LazyNext, L!vars
  <1>3. CASE LoopDial(p)
    <2>1. PICK c \in Conns : Open(c) /\ loopFresh' = [loopFresh EXCEPT ![p] = c]
      BY <1>3 DEF LoopDial
    <2>2. Coming = {} /\ Connecting = {}
      BY <1>0, <1>3, ConnectingOne DEF LoopDial
    <2>3. hubTopics[c] = {}
      BY <2>1 DEF Open, LazyInv, Forgotten, Up
    <2>4. \A d \in Connecting' : d = c
      BY <1>0, <1>3, <2>1, <2>2 DEF Connecting, LoopDial, TypeOK
    <2>5. Coming' = {}
      BY <1>3, <2>3, <2>4 DEF Coming, LoopDial
    <2>6. InUse' = InUse /\ Held' = Held
      BY <1>3 DEF InUse, Held, LoopDial
    <2>. QED
      BY <1>1, <2>2, <2>5, <2>6 DEF LazyNext, L!vars
  <1>4. CASE LoopResubscribe(p)
    <2>0. write = None /\ ~InUse
      BY <1>0, <1>4 DEF LoopResubscribe, FreshDialed, InUse
    <2>1. PICK t \in todo[loopFresh[p]] :
            /\ SendSubscribe(loopFresh[p], t)
            /\ todo' = [todo EXCEPT ![loopFresh[p]] = @ \ {t}]
      BY <1>4 DEF LoopResubscribe
    <2>2. t \in callbacks /\ t \in Topics /\ loopFresh[p] \in Conns
      BY <1>0, <1>4, <2>1
      DEF LoopResubscribe, LazyInv, Resending, TypeOK, Locals
    <2>3. Connecting = {loopFresh[p]} /\ Coming = hubTopics[loopFresh[p]]
      BY <1>0, <1>4, ConnectingOne DEF LoopResubscribe
    <2>4. Connecting' = Connecting
      BY <1>4 DEF Connecting, LoopResubscribe
    <2>5. Coming' = hubTopics'[loopFresh[p]]
      BY <2>3, <2>4 DEF Coming
    <2>6. Coming' = Coming \cup {t} \/ Coming' = Coming
      BY <1>0, <2>1, <2>2, <2>3, <2>5 DEF SendSubscribe, TypeOK
    <2>7. InUse' = InUse /\ Held' = Held
      BY <1>4, <2>0 DEF InUse, Held, LoopResubscribe
    <2>. QED
      BY <1>1, <2>0, <2>2, <2>6, <2>7 DEF LazyNext, L!vars, L!Next, L!Prepare
  <1>5. CASE LoopInstall(p)
    <2>0. write = None /\ ~InUse /\ Held = {}
      BY <1>0, <1>5 DEF LoopInstall, FreshDialed, InUse, Held
    <2>1. Connecting = {loopFresh[p]} /\ Coming = hubTopics[loopFresh[p]]
          /\ loopFresh[p] \in Conns
      BY <1>0, <1>5, ConnectingOne DEF LoopInstall, Locals
    <2>2. Connecting' = {} /\ Coming' = {}
      <3>1. \A q \in Callers : fresh'[q] = None /\ loopFresh'[q] = None
        BY <1>0, <1>5
        DEF LoopInstall, OneConnector, FreshDialed, TypeOK, BeginSteps
      <3>. QED
        BY <3>1 DEF Connecting, Coming
    <2>3. InUse' = Up(loopFresh[p]) /\ Held' = Coming
      BY <1>5, <2>1 DEF LoopInstall, Install, InUse, Held, Up, LazyInv, Forgotten
    <2>4. CASE Up(loopFresh[p])
      <3>1. callbacks \subseteq Coming
        BY <1>0, <1>5, <2>1, <2>4
        DEF LoopInstall, LazyInv, SubscriptionInv, Resubscribing, TypeOK
      <3>. QED
        BY <1>1, <2>0, <2>2, <2>3, <2>4, <3>1 DEF LazyNext, L!Next, L!Open
    <2>5. CASE ~Up(loopFresh[p])
      <3>1. Coming = {}
        BY <2>1, <2>5 DEF LazyInv, Forgotten
      <3>2. InUse' = InUse
        BY <2>0, <2>3, <2>5 DEF InUse, Up
      <3>. QED
        BY <1>1, <2>0, <2>2, <2>3, <3>1, <3>2 DEF LazyNext, L!vars
    <2>. QED
      BY <2>4, <2>5
  <1>6. CASE LoopLock(p) \/ LoopDialFails(p) \/ LoopLockCallbacks(p)
    BY <1>1, <1>6, LazyStutter DEF LoopLock, LoopDialFails, LoopLockCallbacks
  <1>. QED
    BY <1>2, <1>3, <1>4, <1>5, <1>6 DEF LoopStep

LEMMA LazyReader ==
  ASSUME LazyInv, NEW c \in Conns, ReaderStep(c)
  PROVE  LazyNext
  <1> USE NoneAssumption
      DEF vars, clientVars, callerVars, loopVars, readerVars, hubVars
  <1>0. TypeOK /\ OneConnector /\ FreshDialed
    BY DEF LazyInv, SafeInv
  <1>1. /\ UNCHANGED <<callbacks, deferred, write, link, fresh, loopFresh>>
        /\ ToTell' = ToTell /\ InUse' = InUse /\ Connecting' = Connecting
    BY DEF ReaderStep, ReadPublish, ReadHeartbeat, HeartbeatLock, NextFrameIs,
       HeartbeatSnapshot, HeartbeatReply, ReaderEnds, ToTell, Telling, InUse,
       Up, Connecting
  <1>2. CASE hubTopics' = hubTopics
    BY <1>1, <1>2, LazyStutter
  <1>3. CASE HeartbeatReply(c) /\ hubTopics' # hubTopics
    <2>1. /\ write \in Conns /\ write # None /\ Up(write) /\ InUse
          /\ hubTopics' = [hubTopics EXCEPT ![write] = @ \cup snapshot[c]]
      BY <1>0, <1>3 DEF HeartbeatReply, SendHeartbeatReply, InUse, TypeOK
    <2>2. Coming = {} /\ Coming' = {}
      BY <1>0, <1>1, <2>1, ConnectingNone DEF Coming
    <2>3. Held' = Held \cup snapshot[c]
      BY <1>0, <1>1, <2>1 DEF Held, TypeOK
    <2>4. snapshot[c] \subseteq callbacks \cup ToTell
      BY <1>3 DEF HeartbeatReply, LazyInv, Resending, ToTell, Telling
    <2>5. snapshot[c] \in SUBSET Topics
      BY <1>0 DEF TypeOK
    <2>6. L!Repeat(snapshot[c])
      BY <1>1, <2>1, <2>2, <2>3, <2>4 DEF L!Repeat
    <2>. QED
      BY <2>5, <2>6 DEF LazyNext, L!Next
  <1>. QED
    BY <1>2, <1>3
    DEF ReaderStep, ReadPublish, ReadHeartbeat, HeartbeatLock,
        HeartbeatSnapshot, ReaderEnds

LEMMA LazyNetwork ==
  ASSUME LazyInv, NEW c \in Conns, NetworkStep(c)
  PROVE  LazyNext
  <1> USE NoneAssumption
      DEF vars, clientVars, callerVars, loopVars, readerVars, hubVars
  <1>0. TypeOK /\ OneConnector /\ FreshDialed /\ NoOrphanConnection
    BY DEF LazyInv, SafeInv
  <1>1. UNCHANGED <<callbacks, deferred, write, fresh, loopFresh>>
        /\ ToTell' = ToTell /\ Connecting' = Connecting
    BY DEF NetworkStep, HubHeartbeat, Break, Detect, ToTell, Telling, Connecting
  <1>2. CASE HubHeartbeat(c)
    BY <1>1, <1>2, LazyStutter DEF HubHeartbeat
  <1>3. CASE Detect(c)
    <2>1. InUse' = InUse
      BY <1>0, <1>1, <1>3 DEF Detect, InUse, Up, TypeOK
    <2>2. Held' = Held /\ Coming' = Coming
      BY <1>1, <1>3, <2>1 DEF Detect, Held, Coming
    <2>. QED
      BY <1>1, <2>1, <2>2 DEF LazyNext, L!vars
  <1>4. CASE Break(c)
    <2>1. ~Up(c)' /\ hubTopics'[c] = {}
      BY <1>0, <1>4 DEF Break, Up, TypeOK
    <2>2. CASE c = write
      <3>1. Connecting = {}
        BY <1>0, <2>2, ConnectingNone
      <3>2. Coming' = {} /\ ~InUse' /\ Held' = {}
        BY <1>1, <2>1, <2>2, <3>1 DEF Coming, InUse, Held, Up
      <3>. QED
        BY <1>1, <3>2 DEF LazyNext, L!Next, L!Close
    <2>3. CASE c \in Connecting
      <3>1. write = None /\ Connecting = {c}
        <4>1. write = None
          BY <1>0, <2>3, ConnectingNone
        <4>2. PICK p \in Callers : c \in {fresh[p], loopFresh[p]}
          BY <2>3 DEF Connecting
        <4>3. \/ c = fresh[p] /\ pc[p] \in {"dialed", "resub", "install"}
              \/ c = loopFresh[p] /\ loop[p] \in {"dialed", "resub"}
          BY <1>0, <4>2 DEF FreshDialed
        <4>. QED
          BY <1>0, <4>1, <4>3, ConnectingOne DEF LazyInv, SafeInv
      <3>2. Coming' = {} /\ ~InUse' /\ Held' = {}
        BY <1>1, <2>1, <3>1 DEF Coming, InUse, Held
      <3>. QED
        BY <1>1, <3>2 DEF LazyNext, L!Next, L!Close
    <2>. QED
      BY <1>0, <1>4, <2>2, <2>3 DEF NoOrphanConnection, Connecting, Break, Up
  <1>. QED
    BY <1>2, <1>3, <1>4 DEF NetworkStep

LEMMA LazyDeferred ==
  ASSUME LazyInv, NEW t \in Topics, DeferredSend(t)
  PROVE  LazyNext
  <1> USE NoneAssumption
      DEF vars, clientVars, callerVars, loopVars, readerVars, hubVars
  <1>0. TypeOK /\ OneConnector /\ FreshDialed
    BY DEF LazyInv, SafeInv
  <1>1. /\ UNCHANGED <<callbacks, write, link, fresh, loopFresh>>
        /\ ToTell' = ToTell /\ InUse' = InUse /\ Connecting' = Connecting
        /\ deferred[t] > 0 /\ deferred' = [deferred EXCEPT ![t] = @ - 1]
    BY DEF DeferredSend, Signalled, ToTell, Telling, InUse, Up, Connecting
  <1>2. Coming' = Coming /\ Held' = IF InUse THEN Held \cup {t} ELSE Held
    <2>1. CASE InUse
      <3>1. /\ write \in Conns /\ write # None /\ Up(write)
            /\ hubTopics' = [hubTopics EXCEPT ![write] = @ \cup {t}]
        BY <1>0, <2>1 DEF DeferredSend, SendSubscribe, InUse, TypeOK
      <3>2. Coming = {} /\ Coming' = {}
        BY <1>0, <1>1, <3>1, ConnectingNone DEF Coming
      <3>. QED
        BY <1>0, <1>1, <2>1, <3>1, <3>2 DEF Held, TypeOK
    <2>2. CASE ~InUse
      <3>1. hubTopics' = hubTopics
        BY <2>2 DEF DeferredSend, SendSubscribe, InUse
      <3>. QED
        BY <1>1, <2>2, <3>1 DEF Held, Coming
    <2>. QED
      BY <2>1, <2>2
  <1>. QED
    BY <1>1, <1>2 DEF LazyNext, L!Next, L!TellLate

LEMMA LazyStep == DisjointOwners /\ LazyInv /\ [Next]_vars => LazyNext
  <1> SUFFICES ASSUME DisjointOwners, LazyInv, [Next]_vars PROVE LazyNext
    OBVIOUS
  <1>1. CASE UNCHANGED vars
    <2>1. ToTell' = ToTell
      BY <1>1 DEF vars, callerVars, ToTell, Telling
    <2>. QED
      BY <1>1, <2>1, LazyStutter
      DEF vars, clientVars, callerVars, loopVars, hubVars
  <1>2. CASE Next
    BY <1>2, LazyCaller, LazyLoop, LazyReader, LazyNetwork, LazyDeferred DEF Next
  <1>. QED
    BY <1>1, <1>2

(***************************************************************************)
(* The theorems.                                                           *)
(***************************************************************************)

\* Every variable keeps its type.
THEOREM TypeCorrect == Spec => []TypeOK
  <1>1. Spec => []SafeInv
    BY SafeInit, SafeNext, PTL DEF Spec
  <1>2. SafeInv => TypeOK
    BY DEF SafeInv
  <1>. QED
    BY <1>1, <1>2, PTL

\* Each mutex is held by exactly the task that is inside the section it guards.
THEOREM MutualExclusion == Spec => []MutexDiscipline
  <1>1. Spec => []SafeInv
    BY SafeInit, SafeNext, PTL DEF Spec
  <1>2. SafeInv => MutexDiscipline
    BY DEF SafeInv
  <1>. QED
    BY <1>1, <1>2, PTL

\* The connection/reconnect task is started once (autobahn.rs:55), whatever the
\* number of callers of begin().
THEOREM StartedOnce == Spec => []OneConnector
  <1>1. Spec => []SafeInv
    BY SafeInit, SafeNext, PTL DEF Spec
  <1>2. SafeInv => OneConnector
    BY DEF SafeInv
  <1>. QED
    BY <1>1, <1>2, PTL

\* Begin and reconnection never leave a connection the hub holds open behind.
THEOREM NothingOrphaned == Spec => []NoOrphanConnection
  <1>1. Spec => []SafeInv
    BY SafeInit, SafeNext, PTL DEF Spec
  <1>2. SafeInv => NoOrphanConnection
    BY DEF SafeInv
  <1>. QED
    BY <1>1, <1>2, PTL

\* When each topic has one caller, no callback is without its subscription on a
\* connection that is up, unless its SUBSCRIBE is on its way.
THEOREM NoLostSubscription == DisjointOwners => (Spec =>
   []SubscribedWhenConnected)
  <1> SUFFICES ASSUME DisjointOwners
               PROVE  Spec => []SubscribedWhenConnected
    OBVIOUS
  <1>1. Init => SafeInv /\ SubscriptionInv
    BY SafeInit, SubscriptionInit
  <1>2. (SafeInv /\ SubscriptionInv) /\ [Next]_vars => (SafeInv /\
     SubscriptionInv)'
    BY SafeNext, SubscriptionNext
  <1>3. SafeInv /\ SubscriptionInv => SubscribedWhenConnected
    BY DEF SubscriptionInv
  <1>. QED
    BY <1>1, <1>2, <1>3, PTL DEF Spec

\* When each topic has one caller, a connection gains a topic without a callback
\* only from a deferred task, or ahead of the UNSUBSCRIBE that takes it away.
THEOREM ResurrectedByDeferredOnly == DisjointOwners => (Spec =>
   OnlyDeferredResurrects)
  <1> SUFFICES ASSUME DisjointOwners
               PROVE  Spec => OnlyDeferredResurrects
    OBVIOUS
  <1> DEFINE Inv == SafeInv /\ SubscriptionInv /\ Resending
  <1>1. Init => Inv
    BY SafeInit, SubscriptionInit, ResendingInit
  <1>2. Inv /\ [Next]_vars => Inv'
    BY SafeNext, SubscriptionNext, ResendingNext
  <1>3. Inv /\ [Next]_vars => [NoResurrection]_vars
    BY ResurrectionStep DEF SubscriptionInv
  <1>. QED
    BY <1>1, <1>2, <1>3, PTL DEF Spec, OnlyDeferredResurrects, NoResurrection

\* When each topic has one caller, the client is a LazySession.
THEOREM ImplementsLazy == DisjointOwners => (Spec => ImplementsLazySession)
  <1> SUFFICES ASSUME DisjointOwners PROVE Spec => ImplementsLazySession
    OBVIOUS
  <1>1. Init => LazyInv
    BY SafeInit, SubscriptionInit, ResendingInit, ForgottenInit DEF LazyInv
  <1>2. LazyInv /\ [Next]_vars => LazyInv'
    BY SafeNext, SubscriptionNext, ResendingNext, ForgottenNext
    DEF LazyInv, SafeInv
  <1>3. LazyInv /\ [Next]_vars => [L!Next]_(L!vars)
    BY LazyStep DEF LazyNext
  <1>. QED
    BY <1>1, <1>2, <1>3, LazyInit, PTL DEF Spec, ImplementsLazySession, L!Spec
=============================================================================
