--------------------------- MODULE RustRpcProofs ---------------------------
(***************************************************************************)
(* Proofs about RustRpc for every set of calls, servers and functions.     *)
(***************************************************************************)
EXTENDS RustRpc, RpcNamesProofs

\* A request is published once, handled once and answered once: without it, a
\* response could name a handler that is running again.
OnceOnly ==
  \A s \in Servers, c \in Calls :
    /\ pc[c] \in {"idle", "subscribe", "publish"} =>
         served[s][c] = "no" /\ <<s, c>> \notin requests
    /\ <<s, c>> \in requests  => served[s][c] = "no"
    /\ <<s, c>> \in responses => served[s][c] \in Outcomes

\* What is there while call_rpc is at each of its steps.
Locals ==
  \A c \in Calls :
    /\ pc[c] = "subscribe" => c \in callbacks
    /\ pc[c] \in {"unsubscribe", "cleanup"} => c \notin callbacks
    /\ pc[c] = "unsubscribe" => answer[c] # None
    /\ result[c] # None => pc[c] = "done"

\* Until begin() has installed its writer no call gets past its publish, and no
\* deferred task has its signal: a call that finds the topics sent without its own
\* has its task still to come.
Beginning ==
  net[Caller] \in {"begin", "resubscribed"} =>
    /\ ~signal
    /\ \A c \in Calls :
         /\ pc[c] \in {"idle", "subscribe", "publish", "done"}
         /\ result[c] \in {None, "connection"}
         /\ net[Caller] = "resubscribed" /\ pc[c] = "publish" =>
              c \in hubTopics \/ deferred[c] = "waiting"

\* The hub forgets a client with its connection.
NothingWhenDown == net[Caller] \notin {"resubscribed", "up"} => hubTopics = {}

TypeInv == TypeOK /\ OnceOnly
IInv    ==
  TypeInv /\ Locals /\ Beginning /\ NothingWhenDown /\ ResponseRoutable /\ CleanedUp

LEMMA InitInv == Init => IInv
  <1> SUFFICES ASSUME Init PROVE IInv
    OBVIOUS
  <1>1. TypeOK
    BY BoundsAssumption
    DEF Init, TypeOK, NetStates, CallSteps, Outcomes, Results, Peers, Offered
  <1>2. OnceOnly /\ Locals /\ Beginning /\ NothingWhenDown
    BY DEF Init, OnceOnly, Locals, Beginning, NothingWhenDown, Peers
  <1>3. ResponseRoutable /\ CleanedUp
    BY NoneAssumption DEF Init, ResponseRoutable, CleanedUp
  <1>. QED
    BY <1>1, <1>2, <1>3 DEF IInv, TypeInv

\* A connection step changes the connection, and the caller's topics with it.
LEMMA NetTypes ==
  ASSUME TypeOK, NEW x \in Peers, NetStep(x) \/ (x = Caller /\ BeginStep)
  PROVE  /\ net' \in [Peers -> NetStates] /\ losses' \in Nat
         /\ hubTopics' \in SUBSET Calls /\ signal' \in BOOLEAN
         /\ UNCHANGED <<callbacks, deferred, callVars, serverVars, wireVars>>
  <1> USE DEF NetStep, DialStep, LoopDial, LoopDialFails, LoopInstall, LoopPingFails,
              Break, Detect, BeginStep, BeginDialFails, BeginResubscribe, BeginInstall,
              Signal
  <1>1. \E v \in NetStates : net' = [net EXCEPT ![x] = v]
    BY DEF NetStates
  <1>2. losses' \in Nat
    BY DEF TypeOK
  <1>3. hubTopics' \in SUBSET Calls /\ signal' \in BOOLEAN
    BY DEF TypeOK, topicVars, Resubscribed
  <1>4. UNCHANGED <<callbacks, deferred, callVars, serverVars, wireVars>>
    BY DEF topicVars
  <1>. QED
    BY <1>1, <1>2, <1>3, <1>4 DEF TypeOK

LEMMA NetLeavesCalls ==
  ASSUME BeginStep \/ \E x \in Peers : NetStep(x)
  PROVE  UNCHANGED <<callVars, serverVars>>
  BY DEF NetStep, LoopDial, DialStep, LoopDialFails, LoopInstall, LoopPingFails, Break,
     Detect, BeginStep, BeginDialFails, BeginResubscribe, BeginInstall

\* The two sends of a call that go before its wait.
LEMMA FailsOrGoesOn ==
  ASSUME NEW c \in Calls, CallSubscribe(c) \/ CallPublish(c)
  PROVE  /\ pc[c] \in {"subscribe", "publish"}
         /\ \/ FailConnection(c)
            \/ /\ pc' = [pc EXCEPT ![c] = IF @ = "subscribe" THEN "publish" ELSE "waiting"]
               /\ UNCHANGED result
  BY DEF CallSubscribe, CallPublish

LEMMA SendTypes ==
  ASSUME TypeOK, NEW c \in Calls, CallSubscribe(c) \/ CallPublish(c)
  PROVE  /\ pc' \in [Calls -> CallSteps] /\ result' \in [Calls -> Results \cup {None}]
         /\ pc'[c] = "done" \/ pc'[c] = IF pc[c] = "subscribe" THEN "publish" ELSE "waiting"
         /\ \A d \in Calls \ {c} : pc'[d] = pc[d]
  BY FailsOrGoesOn DEF TypeOK, FailConnection, CallSteps, Results

\* A step keeps the types and handles no request twice.
LEMMA NextType == TypeInv /\ [Next]_vars => TypeInv'
  <1> SUFFICES ASSUME TypeInv, [Next]_vars PROVE TypeInv'
    OBVIOUS
  <1> USE DEF TypeInv, TypeOK, OnceOnly, NetStates, CallSteps, Outcomes, Results,
              Peers, Offered, vars, netVars, topicVars, callVars, serverVars, wireVars
  <1>1. ASSUME NEW x \in Peers, NetStep(x) \/ (x = Caller /\ BeginStep) PROVE TypeInv'
    <2>1. /\ net' \in [Peers -> NetStates] /\ losses' \in Nat
          /\ hubTopics' \in SUBSET Calls /\ signal' \in BOOLEAN
          /\ UNCHANGED <<callbacks, deferred, callVars, serverVars, wireVars>>
      BY <1>1, NetTypes
    <2>. QED
      BY <2>1
  <1>2. ASSUME NEW c \in Calls, Call(c) PROVE TypeInv'
    BY <1>2 DEF Call
  <1>3. ASSUME NEW c \in Calls, CallSubscribe(c) PROVE TypeInv'
    <2>1. /\ pc[c] = "subscribe"
          /\ UNCHANGED <<netVars, callbacks, signal, answer, serverVars, wireVars>>
      BY <1>3 DEF CallSubscribe
    <2>2. /\ hubTopics' \in SUBSET Calls
          /\ deferred' \in [Calls -> {"no", "waiting", "sent"}]
      BY <1>3 DEF CallSubscribe, HubSubscribes
    <2>3. /\ pc' \in [Calls -> CallSteps] /\ result' \in [Calls -> Results \cup {None}]
          /\ \A d \in Calls \ {c} : pc'[d] = pc[d]
      BY <1>3, SendTypes
    <2>4. TypeOK'
      BY <2>1, <2>2, <2>3
    <2>5. OnceOnly'
      BY <2>1, <2>3
    <2>. QED
      BY <2>4, <2>5
  <1>4. ASSUME NEW c \in Calls, CallPublish(c) PROVE TypeInv'
    <2> DEFINE at == {s \in Servers : Serves(s, c)}
    <2>1. /\ pc[c] = "publish"
          /\ UNCHANGED <<netVars, topicVars, answer, serverVars, responses>>
      BY <1>4 DEF CallPublish
    <2>2. requests' = requests \/ requests' = requests \cup (at \X {c})
      BY <1>4 DEF CallPublish
    <2>3. /\ requests' \in SUBSET (Servers \X Calls)
          /\ \A s \in Servers, d \in Calls :
               <<s, d>> \in requests' => d = c \/ <<s, d>> \in requests
      BY <2>2
    <2>4. /\ pc' \in [Calls -> CallSteps] /\ result' \in [Calls -> Results \cup {None}]
          /\ pc'[c] \in {"waiting", "done"}
          /\ \A d \in Calls \ {c} : pc'[d] = pc[d]
      BY <1>4, <2>1, SendTypes
    <2> HIDE DEF at
    <2>5. TypeOK'
      BY <2>1, <2>3, <2>4
    <2>6. OnceOnly'
      BY <2>1, <2>3, <2>4
    <2>. QED
      BY <2>5, <2>6
  <1>5. ASSUME NEW c \in Calls, CallReceive(c) PROVE TypeInv'
    BY <1>5 DEF CallReceive
  <1>6. ASSUME NEW c \in Calls, CallReturn(c) PROVE TypeInv'
    BY <1>6 DEF CallReturn, SendUnsubscribe, Finish
  <1>7. ASSUME NEW c \in Calls, CallCleanup(c) PROVE TypeInv'
    BY <1>7 DEF CallCleanup, SendUnsubscribe, Finish
  <1>8. ASSUME NEW c \in Calls, CallTimeout(c) PROVE TypeInv'
    BY <1>8 DEF CallTimeout, TimesOut, RemoveCallback
  <1>9. ASSUME NEW c \in Calls, DeferredSend(c) PROVE TypeInv'
    BY <1>9 DEF DeferredSend
  <1>10. ASSUME NEW s \in Servers, NEW f \in Offers[s], Register(s, f)
         PROVE  TypeInv'
    BY <1>10 DEF Register
  <1>11. ASSUME NEW s \in Servers, NEW c \in Calls, HandleRequest(s, c)
         PROVE  TypeInv'
    BY <1>11 DEF HandleRequest, RequestTaken, Handlers
  <1>12. ASSUME NEW s \in Servers, NEW c \in Calls, Panic(s, c) PROVE TypeInv'
    BY <1>12 DEF Panic
  <1>13. ASSUME NEW s \in Servers, NEW c \in Calls, NEW o \in Outcomes,
                Respond(s, c, o)
         PROVE  TypeInv'
    BY <1>13 DEF Respond, EndsWith
  <1>14. ASSUME NEW s \in Servers, NEW c \in Calls, ReadResponse(s, c)
         PROVE  TypeInv'
    BY <1>14 DEF ReadResponse, SenderThere
  <1>15. ASSUME NEW s \in Servers, NEW c \in Calls,
                LoseRequest(s, c) \/ LoseResponse(s, c)
         PROVE  TypeInv'
    <2>1. CASE LoseRequest(s, c)
      BY <2>1 DEF LoseRequest
    <2>2. CASE LoseResponse(s, c)
      BY <2>2 DEF LoseResponse
    <2>. QED
      BY <1>15, <2>1, <2>2
  <1>16. CASE UNCHANGED vars
    BY <1>16
  <1> HIDE DEF TypeInv
  <1>17. CASE BeginStep
    BY <1>1, <1>17 DEF Peers
  <1>. QED
    BY <1>1, <1>2, <1>3, <1>4, <1>5, <1>6, <1>7, <1>8, <1>9, <1>10, <1>11,
       <1>12, <1>13, <1>14, <1>15, <1>16, <1>17
    DEF Next, CallStep, ServerStep, WireStep

\* A step keeps the rest: the topics of the calls, at the caller and at the hub.
LEMMA NextTopics == IInv /\ [Next]_vars => IInv'
  <1> SUFFICES ASSUME IInv, [Next]_vars PROVE IInv'
    OBVIOUS
  <1>0. TypeInv' /\ TypeOK
    BY NextType DEF IInv, TypeInv
  <1> USE <1>0, PeersAssumption, NoneAssumption
      DEF IInv, TypeOK, Locals, Beginning, NothingWhenDown, ResponseRoutable, CleanedUp,
          CallSteps, Outcomes, Results, Peers, Up, WriteFree, NoWriter, vars, netVars,
          topicVars, callVars, serverVars, wireVars
  <1>1. ASSUME NEW x \in Peers, NetStep(x) PROVE IInv'
    <2>1. CASE LoopInstall(x)
      BY <2>1 DEF LoopInstall, Resubscribed, Signal
    <2>2. CASE Break(x)
      BY <2>2 DEF Break
    <2>3. CASE LoopDial(x) \/ LoopDialFails(x) \/ LoopPingFails(x) \/ Detect(x)
      BY <2>3 DEF LoopDial, LoopDialFails, LoopPingFails, Detect
    <2>. QED
      BY <1>1, <2>1, <2>2, <2>3 DEF NetStep, DialStep
  <1>2. ASSUME NEW c \in Calls, Call(c) PROVE IInv'
    BY <1>2 DEF Call
  <1>3. ASSUME NEW c \in Calls, CallSubscribe(c) PROVE IInv'
    BY <1>3 DEF CallSubscribe, FailConnection, HubSubscribes
  <1>4. ASSUME NEW c \in Calls, CallPublish(c) PROVE IInv'
    BY <1>4 DEF CallPublish, FailConnection
  <1>5. ASSUME NEW c \in Calls, CallReceive(c) PROVE IInv'
    BY <1>5 DEF CallReceive
  <1>6. ASSUME NEW c \in Calls, CallReturn(c) PROVE IInv'
    BY <1>6 DEF CallReturn, SendUnsubscribe, Finish
  <1>7. ASSUME NEW c \in Calls, CallCleanup(c) PROVE IInv'
    BY <1>7 DEF CallCleanup, SendUnsubscribe, Finish
  <1>8. ASSUME NEW c \in Calls, CallTimeout(c) PROVE IInv'
    BY <1>8 DEF CallTimeout, TimesOut, RemoveCallback
  <1>9. ASSUME NEW c \in Calls, DeferredSend(c) PROVE IInv'
    BY <1>9 DEF DeferredSend
  <1>10. ASSUME NEW s \in Servers, NEW f \in Offers[s], Register(s, f) PROVE IInv'
    BY <1>10 DEF Register
  <1>11. ASSUME NEW s \in Servers, NEW c \in Calls, ServerStep(s, c) PROVE IInv'
    BY <1>11 DEF ServerStep, HandleRequest, Panic, Respond
  <1>12. ASSUME NEW s \in Servers, NEW c \in Calls, WireStep(s, c) PROVE IInv'
    BY <1>12 DEF WireStep, ReadResponse, SenderThere, LoseRequest, LoseResponse
  <1>13. CASE UNCHANGED vars
    BY <1>13
  <1>14. CASE BeginStep
    <2>1. CASE BeginDialFails
      BY <2>1 DEF BeginDialFails
    <2>2. CASE BeginResubscribe
      BY <2>2 DEF BeginResubscribe, Resubscribed
    <2>3. CASE BeginInstall
      BY <2>3 DEF BeginInstall, Signal
    <2>. QED
      BY <1>14, <2>1, <2>2, <2>3 DEF BeginStep
  <1> HIDE DEF IInv
  <1>. QED
    BY <1>1, <1>2, <1>3, <1>4, <1>5, <1>6, <1>7, <1>8, <1>9, <1>10, <1>11,
       <1>12, <1>13, <1>14
    DEF Next, CallStep

(***************************************************************************)
(* Which function runs.                                                    *)
(***************************************************************************)

\* A handler runs a function of the name the call was sent to, an error comes from
\* one that takes another message, and an answer from a server that has given it.
ServedBy ==
  /\ \A s \in Servers : handlers[s] \subseteq Offers[s]
  /\ \A s \in Servers, c \in Calls :
       /\ ran[s][c] # None => /\ ran[s][c] \in Offers[s]
                             /\ RpcName(ran[s][c]) = RpcName(Called[c])
       /\ served[s][c] = "error" => InputType(ran[s][c]) # InputType(Called[c])
  /\ \A c \in Calls : answer[c] = "error" => \E s \in Servers : served[s][c] = "error"

LEMMA InitServedBy == Init => ServedBy
  BY NoneAssumption DEF Init, ServedBy

LEMMA NextServedBy == TypeInv /\ ServedBy /\ [Next]_vars => ServedBy'
  <1> SUFFICES ASSUME TypeInv, ServedBy, [Next]_vars PROVE ServedBy'
    OBVIOUS
  <1> USE NoneAssumption
      DEF TypeInv, TypeOK, OnceOnly, ServedBy, Outcomes, vars, netVars, topicVars,
          callVars, serverVars, wireVars
  <1>1. CASE BeginStep \/ \E x \in Peers : NetStep(x)
    BY <1>1, NetLeavesCalls
  <1>2. ASSUME NEW c \in Calls, Call(c) \/ CallStep(c) PROVE ServedBy'
    BY <1>2 DEF Call, CallStep, CallSubscribe, CallPublish, CallReceive, CallReturn,
                CallCleanup, FailConnection, SendUnsubscribe, Finish
  <1>3. ASSUME NEW c \in Calls, CallTimeout(c) \/ DeferredSend(c) PROVE ServedBy'
    BY <1>3 DEF CallTimeout, DeferredSend
  <1>4. ASSUME NEW s \in Servers, NEW f \in Offers[s], Register(s, f)
        PROVE  ServedBy'
    BY <1>4 DEF Register
  <1>5. ASSUME NEW s \in Servers, NEW c \in Calls, HandleRequest(s, c)
        PROVE  ServedBy'
    <2>1. served[s][c] = "no" /\ served' = [served EXCEPT ![s][c] = "working"]
          /\ UNCHANGED <<handlers, answer>>
      BY <1>5 DEF HandleRequest
    <2>2. PICK f \in Offers[s] : /\ RpcName(f) = RpcName(Called[c])
                                 /\ ran' = [ran EXCEPT ![s][c] = f]
      BY <1>5 DEF HandleRequest, Handlers
    <2>. QED
      BY <2>1, <2>2
  <1>6. ASSUME NEW s \in Servers, NEW c \in Calls, Panic(s, c) PROVE ServedBy'
    BY <1>6 DEF Panic
  <1>7. ASSUME NEW s \in Servers, NEW c \in Calls, NEW o \in Outcomes, Respond(s, c, o)
        PROVE  ServedBy'
    <2>1. /\ served[s][c] = "working" /\ served' = [served EXCEPT ![s][c] = o]
          /\ UNCHANGED <<handlers, ran, answer>>
      BY <1>7 DEF Respond
    <2>2. o = "error" => InputType(ran[s][c]) # InputType(Called[c])
      BY <1>7 DEF Respond, EndsWith
    <2>. QED
      BY <2>1, <2>2
  <1>8. ASSUME NEW s \in Servers, NEW c \in Calls, WireStep(s, c) PROVE ServedBy'
    <2>1. UNCHANGED <<handlers, served, ran>>
      BY <1>8 DEF WireStep, ReadResponse, LoseRequest, LoseResponse
    <2>2. UNCHANGED answer \/ answer' = [answer EXCEPT ![c] = served[s][c]]
      BY <1>8 DEF WireStep, ReadResponse, LoseRequest, LoseResponse
    <2>3. ASSUME NEW d \in Calls, answer'[d] = "error"
          PROVE  \E t \in Servers : served'[t][d] = "error"
      <3>1. CASE answer[d] = "error"
        BY <2>1, <3>1
      <3>2. CASE answer[d] # "error"
        <4>1. d = c /\ served[s][c] = "error"
          BY <2>2, <2>3, <3>2
        <4>. QED
          BY <2>1, <4>1
      <3>. QED
        BY <3>1, <3>2
    <2>. QED
      BY <2>1, <2>3
  <1>9. CASE UNCHANGED vars
    BY <1>9
  <1> HIDE DEF ServedBy, TypeInv
  <1>. QED
    BY <1>1, <1>2, <1>3, <1>4, <1>5, <1>6, <1>7, <1>8, <1>9 DEF Next, ServerStep

(***************************************************************************)
(* The calls as RemoteCalls.                                               *)
(***************************************************************************)

\* A server has done something with a call when it has a function to run it by.
RanWhenServed ==
  \A s \in Servers, c \in Calls : served[s][c] = "no" <=> ran[s][c] = None

CallsInv == IInv /\ ServedBy /\ RanWhenServed

RemoteNext == [R!Next]_(R!vars)

LEMMA InitRemote == Init => RanWhenServed /\ R!Init
  <1> SUFFICES ASSUME Init PROVE RanWhenServed /\ R!Init
    OBVIOUS
  <1>1. \A c \in Calls : Stage(c) = "idle" /\ RanBy(c) = {}
    BY DEF Init, Stage, RanBy
  <1>2. answer = [c \in Calls |-> None] /\ result = [c \in Calls |-> None]
    BY DEF Init
  <1>3. RanWhenServed
    BY DEF Init, RanWhenServed
  <1>. QED
    BY <1>1, <1>2, <1>3 DEF R!Init

\* A step that touches none of what RemoteCall sees.
LEMMA RemoteStutter ==
  ASSUME \A c \in Calls : Stage(c)' = Stage(c), UNCHANGED <<ran, answer, result>>
  PROVE  RemoteNext
  BY DEF RemoteNext, R!vars, RanBy

\* A step of one call moves that call only.
LEMMA StageMoves ==
  ASSUME TypeOK, NEW c \in Calls, NEW q \in CallSteps, pc' = [pc EXCEPT ![c] = q]
  PROVE  /\ pc'[c] = q
         /\ \A d \in Calls \ {c} : Stage(d)' = Stage(d)
         /\ [d \in Calls |-> Stage(d)]' = [[d \in Calls |-> Stage(d)] EXCEPT ![c] = Stage(c)']
  BY DEF TypeOK, Stage

\* How call_rpc ends, with an answer it has taken or with a failure.
LEMMA RemoteEnd ==
  ASSUME CallsInv, NEW c \in Calls, pc[c] \notin {"idle", "done"},
         NEW r \in Results, pc' = [pc EXCEPT ![c] = "done"],
         result' = [result EXCEPT ![c] = r], UNCHANGED <<ran, answer>>,
         \/ r = answer[c] /\ answer[c] # None
         \/ r \notin Outcomes
  PROVE  RemoteNext
  <1>1. TypeOK
    BY DEF CallsInv, IInv, TypeInv
  <1>2. /\ [d \in Calls |-> Stage(d)]' = [[d \in Calls |-> Stage(d)] EXCEPT ![c] = "over"]
        /\ Stage(c) # "over"
    BY <1>1, StageMoves DEF Stage, CallSteps, TypeOK
  <1>3. UNCHANGED [d \in Calls |-> RanBy(d)]
    BY DEF RanBy
  <1>4. R!End(c, r)
    BY <1>2, <1>3 DEF R!End
  <1>5. R!Return(c) \/ R!Fail(c, r)
    BY <1>4 DEF R!Return, R!Fail
  <1>. QED
    BY <1>4 DEF RemoteNext, R!Next, R!Return, R!Fail, Results

LEMMA RemoteCaller ==
  ASSUME CallsInv, NEW c \in Calls, Call(c) \/ CallStep(c) \/ CallTimeout(c)
  PROVE  RemoteNext
  <1>0. TypeOK /\ Locals
    BY DEF CallsInv, IInv, TypeInv
  <1>1. UNCHANGED <<ran, answer>> /\ UNCHANGED [d \in Calls |-> RanBy(d)]
    BY DEF Call, CallStep, CallSubscribe, CallPublish, CallReceive, CallReturn,
           CallCleanup, CallTimeout, Finish, serverVars, RanBy
  <1>2. CASE Call(c)
    <2>1. Stage(c) = "idle" /\ pc' = [pc EXCEPT ![c] = "subscribe"] /\ UNCHANGED result
      BY <1>2 DEF Call, Stage
    <2>2. [d \in Calls |-> Stage(d)]' = [[d \in Calls |-> Stage(d)] EXCEPT ![c] = "waiting"]
      BY <1>0, <2>1, StageMoves DEF Stage, CallSteps
    <2>3. R!Start(c)
      BY <1>1, <2>1, <2>2 DEF R!Start
    <2>. QED
      BY <2>3 DEF RemoteNext, R!Next
  <1>3. CASE CallSubscribe(c) \/ CallPublish(c)
    <2>1. pc[c] \in {"subscribe", "publish"}
      BY <1>3, FailsOrGoesOn
    <2>2. CASE FailConnection(c)
      BY <1>1, <2>1, <2>2, RemoteEnd DEF FailConnection, Results, Outcomes
    <2>3. CASE ~FailConnection(c)
      <3> DEFINE q == IF pc[c] = "subscribe" THEN "publish" ELSE "waiting"
      <3>1. pc' = [pc EXCEPT ![c] = q] /\ UNCHANGED result
        BY <1>3, <2>3, FailsOrGoesOn
      <3>2. pc'[c] = q /\ \A d \in Calls \ {c} : Stage(d)' = Stage(d)
        BY <1>0, <3>1, StageMoves DEF CallSteps
      <3>3. Stage(c)' = Stage(c)
        BY <2>1, <3>2 DEF Stage
      <3>. QED
        BY <1>1, <3>1, <3>2, <3>3, RemoteStutter
    <2>. QED
      BY <2>2, <2>3
  <1>4. CASE CallReceive(c) \/ (CallTimeout(c) /\ pc[c] = "waiting")
    <2>1. Stage(c) = "waiting" /\ UNCHANGED result
      BY <1>4 DEF CallReceive, CallTimeout, Stage
    <2>2. PICK q \in {"unsubscribe", "cleanup"} : pc' = [pc EXCEPT ![c] = q]
      BY <1>4 DEF CallReceive, CallTimeout
    <2>3. /\ pc'[c] = q
          /\ [d \in Calls |-> Stage(d)]' = [[d \in Calls |-> Stage(d)] EXCEPT ![c] = Stage(c)']
      BY <1>0, <2>2, StageMoves DEF CallSteps
    <2>4. Stage(c)' = "leaving"
      BY <2>3 DEF Stage
    <2>5. R!Leave(c)
      BY <1>1, <2>1, <2>3, <2>4 DEF R!Leave
    <2>. QED
      BY <2>5 DEF RemoteNext, R!Next
  <1>5. CASE CallTimeout(c) /\ pc[c] = "unsubscribe"
    <2>1. pc' = [pc EXCEPT ![c] = "cleanup"] /\ UNCHANGED result
      BY <1>5 DEF CallTimeout
    <2>2. pc'[c] = "cleanup" /\ \A d \in Calls \ {c} : Stage(d)' = Stage(d)
      BY <1>0, <2>1, StageMoves DEF CallSteps
    <2>3. Stage(c)' = Stage(c)
      BY <1>5, <2>2 DEF Stage
    <2>. QED
      BY <1>1, <2>1, <2>2, <2>3, RemoteStutter
  <1>6. CASE CallReturn(c)
    <2>1. /\ pc[c] = "unsubscribe" /\ pc' = [pc EXCEPT ![c] = "done"]
          /\ result' = [result EXCEPT ![c] = answer[c]]
      BY <1>6 DEF CallReturn, Finish
    <2>2. answer[c] # None /\ answer[c] \in Outcomes
      BY <1>0, <2>1 DEF Locals, TypeOK
    <2>. QED
      BY <1>1, <2>1, <2>2, RemoteEnd DEF Results
  <1>7. CASE CallCleanup(c)
    <2>1. /\ pc[c] = "cleanup" /\ pc' = [pc EXCEPT ![c] = "done"]
          /\ result' = [result EXCEPT ![c] = "timeout"]
      BY <1>7 DEF CallCleanup, Finish
    <2>. QED
      BY <1>1, <2>1, RemoteEnd DEF Results, Outcomes
  <1>. QED
    BY <1>2, <1>3, <1>4, <1>5, <1>6, <1>7 DEF CallStep, CallTimeout, TimesOut

LEMMA RemoteServer ==
  ASSUME CallsInv, NEW s \in Servers, NEW c \in Calls, HandleRequest(s, c)
  PROVE  RemoteNext /\ RanWhenServed'
  <1>0. TypeOK /\ OnceOnly /\ ServedBy
    BY DEF CallsInv, IInv, TypeInv
  <1>1. /\ UNCHANGED <<pc, answer, result>>
        /\ served' = [served EXCEPT ![s][c] = "working"]
    BY DEF HandleRequest, callVars
  <1>2. PICK f \in Offers[s] : ran' = [ran EXCEPT ![s][c] = f]
    BY <1>0 DEF HandleRequest, Handlers, ServedBy
  <1>3. f # None
    BY <1>2, NoneAssumption
  <1>4. served[s][c] = "no" /\ pc[c] # "idle"
    BY <1>0 DEF HandleRequest, OnceOnly
  <1>5. RanWhenServed'
    BY <1>0, <1>1, <1>2, <1>3 DEF CallsInv, RanWhenServed, TypeOK
  <1>6. ran[s][c] = None
    BY <1>4 DEF CallsInv, RanWhenServed
  <1>7. \A d \in Calls : RanBy(d)' = IF d = c THEN RanBy(d) \cup {s} ELSE RanBy(d)
    BY <1>0, <1>2, <1>3 DEF RanBy, TypeOK
  <1>8. R!Run(s, c)
    <2>1. [d \in Calls |-> RanBy(d)]' = [[d \in Calls |-> RanBy(d)] EXCEPT ![c] = @ \cup {s}]
      BY <1>7
    <2>2. UNCHANGED [d \in Calls |-> Stage(d)]
      BY <1>1 DEF Stage
    <2>3. s \notin RanBy(c) /\ Stage(c) # "idle"
      BY <1>4, <1>6 DEF RanBy, Stage
    <2>. QED
      BY <1>1, <2>1, <2>2, <2>3 DEF R!Run
  <1>. QED
    BY <1>5, <1>8 DEF RemoteNext, R!Next

LEMMA RemoteRead ==
  ASSUME CallsInv, NEW s \in Servers, NEW c \in Calls, ReadResponse(s, c)
  PROVE  RemoteNext
  <1>0. TypeOK /\ OnceOnly
    BY DEF CallsInv, IInv, TypeInv
  <1>1. UNCHANGED <<pc, result, served, ran>>
    BY DEF ReadResponse, serverVars
  <1>2. CASE UNCHANGED answer
    <2>1. \A d \in Calls : Stage(d)' = Stage(d)
      BY <1>1 DEF Stage
    <2>. QED
      BY <1>1, <1>2, <2>1, RemoteStutter
  <1>3. CASE answer' # answer
    <2>1. /\ pc[c] = "waiting" /\ answer[c] = None
          /\ answer' = [answer EXCEPT ![c] = served[s][c]]
      BY <1>3 DEF ReadResponse, SenderThere
    <2>2. served[s][c] \in Outcomes
      BY <1>0 DEF ReadResponse, OnceOnly
    <2>3. s \in RanBy(c)
      BY <2>2 DEF CallsInv, RanWhenServed, RanBy, Outcomes
    <2>4. /\ Stage(c) = "waiting"
          /\ UNCHANGED [d \in Calls |-> Stage(d)] /\ UNCHANGED [d \in Calls |-> RanBy(d)]
      BY <1>1, <2>1 DEF Stage, RanBy
    <2>5. R!Take(c, served[s][c])
      BY <1>1, <2>1, <2>3, <2>4 DEF R!Take
    <2>. QED
      BY <2>2, <2>5 DEF RemoteNext, R!Next
  <1>. QED
    BY <1>2, <1>3

LEMMA NextRemote == CallsInv /\ [Next]_vars => RanWhenServed' /\ RemoteNext
  <1> SUFFICES ASSUME CallsInv, [Next]_vars PROVE RanWhenServed' /\ RemoteNext
    OBVIOUS
  <1> USE DEF vars, netVars, topicVars, callVars, serverVars, wireVars
  <1>0. TypeOK /\ RanWhenServed
    BY DEF CallsInv, IInv, TypeInv
  <1>1. ASSUME UNCHANGED <<served, ran>> PROVE RanWhenServed'
    BY <1>0, <1>1 DEF RanWhenServed
  <1>2. ASSUME UNCHANGED <<pc, ran, answer, result>> PROVE RemoteNext
    <2>1. \A d \in Calls : Stage(d)' = Stage(d)
      BY <1>2 DEF Stage
    <2>. QED
      BY <1>2, <2>1, RemoteStutter
  <1>3. CASE BeginStep \/ \E x \in Peers : NetStep(x)
    BY <1>1, <1>2, <1>3, NetLeavesCalls
  <1>4. ASSUME NEW c \in Calls, Call(c) \/ CallStep(c) \/ CallTimeout(c)
        PROVE  RanWhenServed' /\ RemoteNext
    <2>1. UNCHANGED <<served, ran>>
      BY <1>4 DEF Call, CallStep, CallSubscribe, CallPublish, CallReceive, CallReturn,
                  CallCleanup, CallTimeout, Finish
    <2>. QED
      BY <1>1, <1>4, <2>1, RemoteCaller
  <1>5. ASSUME NEW c \in Calls, DeferredSend(c) PROVE UNCHANGED <<callVars, serverVars>>
    BY <1>5 DEF DeferredSend
  <1>6. ASSUME NEW s \in Servers, NEW f \in Offers[s], Register(s, f)
        PROVE  UNCHANGED <<callVars, served, ran>>
    BY <1>6 DEF Register
  <1>7. ASSUME NEW s \in Servers, NEW c \in Calls, ServerStep(s, c)
        PROVE  RanWhenServed' /\ RemoteNext
    <2>1. CASE HandleRequest(s, c)
      BY <2>1, RemoteServer
    <2>2. CASE Panic(s, c) \/ \E o \in Outcomes : Respond(s, c, o)
      <3>1. /\ UNCHANGED <<callVars, ran>> /\ served[s][c] = "working"
            /\ \E v \in Outcomes \cup {"panicked"} : served' = [served EXCEPT ![s][c] = v]
        BY <2>2 DEF Panic, Respond
      <3>2. RanWhenServed'
        BY <1>0, <3>1 DEF RanWhenServed, TypeOK, Outcomes
      <3>. QED
        BY <1>2, <3>1, <3>2
    <2>. QED
      BY <1>7, <2>1, <2>2 DEF ServerStep
  <1>8. ASSUME NEW s \in Servers, NEW c \in Calls, WireStep(s, c)
        PROVE  RanWhenServed' /\ RemoteNext
    <2>1. CASE ReadResponse(s, c)
      <3>1. UNCHANGED <<served, ran>>
        BY <2>1 DEF ReadResponse
      <3>. QED
        BY <1>1, <2>1, <3>1, RemoteRead
    <2>2. CASE LoseRequest(s, c) \/ LoseResponse(s, c)
      <3>1. UNCHANGED <<callVars, serverVars>>
        BY <2>2 DEF LoseRequest, LoseResponse
      <3>. QED
        BY <1>1, <1>2, <3>1
    <2>. QED
      BY <1>8, <2>1, <2>2 DEF WireStep
  <1>9. CASE UNCHANGED vars
    BY <1>1, <1>2, <1>9
  <1>. QED
    BY <1>1, <1>2, <1>3, <1>4, <1>5, <1>6, <1>7, <1>8, <1>9 DEF Next

(***************************************************************************)
(* The theorems.                                                           *)
(***************************************************************************)

\* Every variable keeps its type; a response always carries what a handler that
\* ran to its end has returned, since no server handles a request twice.
THEOREM TypeCorrect == Spec => []TypeOK
  <1>1. Init => TypeInv
    BY InitInv DEF IInv
  <1>2. TypeInv => TypeOK
    BY DEF TypeInv
  <1>. QED
    BY <1>1, <1>2, NextType, PTL DEF Spec

\* However many calls, servers and losses, and wherever begin() is: a response to a
\* call that waits finds its callback at the caller, and its topic at the hub unless
\* the deferred task that will send it has been signalled and has not run.
THEOREM ResponsesAreRouted == Spec => []ResponseRoutable
  <1>1. IInv => ResponseRoutable
    BY DEF IInv
  <1>. QED
    BY <1>1, InitInv, NextTopics, PTL DEF Spec

\* A call that got to its wait gives its callback and its topic back, on every
\* path: answer, error answer, timeout of the wait, timeout of the clean-up.
THEOREM CallsCleanUp == Spec => []CleanedUp
  <1>1. IInv => CleanedUp
    BY DEF IInv
  <1>. QED
    BY <1>1, InitInv, NextTopics, PTL DEF Spec

\* The first answer a call takes is the one it keeps and returns.
THEOREM FirstAnswerKept == Spec => FirstAnswerStands
  <1> DEFINE Stands(c) ==
        /\ answer'[c] # answer[c] => answer[c] = None /\ pc[c] = "waiting"
        /\ result'[c] # result[c] /\ result'[c] \in Outcomes => result'[c] = answer[c]
  <1>1. ASSUME IInv, [Next]_vars, NEW c \in Calls PROVE Stands(c)
    <2> USE DEF IInv, TypeInv, TypeOK, Outcomes, Results, vars, netVars, topicVars,
                callVars, serverVars, wireVars
    <2>1. CASE BeginStep \/ \E x \in Peers : NetStep(x)
      BY <2>1, NetLeavesCalls
    <2>2. ASSUME NEW d \in Calls, Call(d) \/ CallStep(d) PROVE Stands(c)
      BY <1>1, <2>2 DEF Call, CallStep, CallSubscribe, CallPublish, CallReceive,
         CallReturn, CallCleanup, FailConnection, SendUnsubscribe, Finish
    <2>3. ASSUME NEW d \in Calls, CallTimeout(d) \/ DeferredSend(d)
          PROVE  Stands(c)
      BY <2>3 DEF CallTimeout, DeferredSend
    <2>4. ASSUME NEW s \in Servers, NEW f \in Offers[s], Register(s, f)
          PROVE  Stands(c)
      BY <2>4 DEF Register
    <2>5. ASSUME NEW s \in Servers, NEW d \in Calls, ServerStep(s, d)
          PROVE  Stands(c)
      BY <2>5 DEF ServerStep, HandleRequest, Panic, Respond
    <2>6. ASSUME NEW s \in Servers, NEW d \in Calls, WireStep(s, d)
          PROVE  Stands(c)
      BY <1>1, <2>6 DEF WireStep, ReadResponse, SenderThere, LoseRequest,
                        LoseResponse
    <2>7. CASE UNCHANGED vars
      BY <2>7
    <2>. QED
      BY <1>1, <2>1, <2>2, <2>3, <2>4, <2>5, <2>6, <2>7 DEF Next
  <1>2. IInv /\ [Next]_vars =>
          [\A c \in Calls : Stands(c)]_vars
    BY <1>1
  <1>. QED
    BY <1>2, InitInv, NextTopics, PTL DEF Spec, FirstAnswerStands

\* A call is run by no function that differs from the called one in one part, and
\* ends in an error only where the function takes another message.
THEOREM RunByItsFunction == Spec => []RightFunction
  <1>1. Init => TypeInv
    BY InitInv DEF IInv
  <1>2. ServedBy => RightFunction
    <2>1. ASSUME ServedBy, NEW c \in Calls, NEW s \in Servers,
                 NEW part \in {"name", "takes", "gives"}, ran[s][c] # None
          PROVE  Differ(ran[s][c], Called[c]) # {part}
      <3>1. ran[s][c] \in Offers[s] /\ RpcName(ran[s][c]) = RpcName(Called[c])
        BY <2>1 DEF ServedBy
      <3>2. ran[s][c] \in Functions /\ Called[c] \in Functions
        BY <3>1, CallsAssumption, OffersAssumption
      <3>. QED
        BY <3>1, <3>2, OnePartTellsApart
    <2>2. ASSUME ServedBy, NEW c \in Calls, answer[c] = "error"
          PROVE  \E s \in Servers : /\ served[s][c] = "error"
                                    /\ InputType(ran[s][c]) # InputType(Called[c])
      BY <2>2 DEF ServedBy
    <2>. QED
      BY <2>1, <2>2 DEF RightFunction
  <1>. QED
    BY <1>1, <1>2, InitServedBy, NextType, NextServedBy, PTL DEF Spec

\* Whatever is lost, late, replaced or answered twice: a call returns the first answer
\* it took, of a server that ran it, or fails.
THEOREM ImplementsCalls == Spec => ImplementsRemoteCall
  <1>1. Init => CallsInv /\ R!Init
    BY InitInv, InitServedBy, InitRemote DEF CallsInv
  <1>2. CallsInv /\ [Next]_vars => CallsInv' /\ RemoteNext
    BY NextTopics, NextServedBy, NextRemote DEF CallsInv, IInv
  <1>. QED
    BY <1>1, <1>2, PTL DEF Spec, ImplementsRemoteCall, R!Spec, RemoteNext
=============================================================================
