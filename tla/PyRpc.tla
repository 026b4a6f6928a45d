------------------------------- MODULE PyRpc -------------------------------
(***************************************************************************)
(* Remote calls of the Python client: the rpc_caller that rpc_callable     *)
(* makes (src/main/python/autobahn_client/rpc.py), over the client of      *)
(* PyClient, whose event loop, listener and reconnection it shares.        *)
(*                                                                         *)
(* The response topic of a call is a UUID, so a call stands for its topic  *)
(* and for its entry in self.callbacks.  A callback of the application may *)
(* itself make calls, and the listener awaits it.  The servers are the     *)
(* environment: some may answer a request, each once.  (Python itself      *)
(* serves nothing: no function reaches GLOBAL_RPC_FUNCTIONS, so that       *)
(* init_rpc_services has nothing to subscribe.)                            *)
(***************************************************************************)
EXTENDS PyClient

CONSTANTS
  Calls,      \* invocations of rpc_caller: topics of their own
  MaxAnswers  \* servers that answer a request (a bound)

ASSUME CallsAssumption   == Calls \subseteq Topics
ASSUME AnswersAssumption == MaxAnswers \in Nat
ASSUME ResultsAssumption ==
  None \notin {"value", "exception", "raised", "failed", "timeout", "cancelled"}

VARIABLES
  at,       \* where each rpc_caller is: in its subscribe, its publish, its wait
  sending,  \* the connection of the send it is suspended in, or None
  within,   \* the listener whose callback makes the call, or None
  future,   \* response_future of each call
  result,   \* how each call has ended
  asked,    \* calls whose request the hub has received
  answers   \* responses to each call so far

rpcVars == <<at, sending, within, future, result, asked, answers>>
allVars == <<vars, rpcVars>>

Outcomes == {"value", "exception"}
Results  == Outcomes \cup {"raised", "failed", "timeout", "cancelled"}

RpcInit ==
  /\ Init
  /\ at     = [k \in Calls |-> "idle"]
  /\ sending = [k \in Calls |-> None]
  /\ within = [k \in Calls |-> None]
  /\ future = [k \in Calls |-> None]
  /\ result = [k \in Calls |-> None]
  /\ asked = {}
  /\ answers = [k \in Calls |-> 0]

\* A call that is under way, and those a callback of listener c is making.
Open(k)   == at[k] \in {"subscribe", "publish", "waiting"}
Inside(c) == {k \in Calls : within[k] = c /\ Open(k)}

RpcTypeOK ==
  /\ at \in [Calls -> {"idle", "subscribe", "publish", "waiting", "done"}]
  /\ sending \in [Calls -> Conns \cup {None}]
  /\ within \in [Calls -> Conns \cup {None}]
  /\ future \in [Calls -> Outcomes \cup {None}]
  /\ result \in [Calls -> Results \cup {None}]
  /\ asked \in SUBSET Calls
  /\ answers \in [Calls -> 0..MaxAnswers]
  /\ \A k \in Calls :
       /\ at[k] = "done" <=> result[k] # None
       /\ at[k] \in {"subscribe", "publish"} <=> sending[k] # None
  /\ \A c \in Conns : \A k, l \in Inside(c) : k = l

\* Calls whose task was cancelled with the listener it is in, and is to run.
Cancelled == {k \in Calls : Open(k) /\ within[k] # None /\ within[k] \notin Alive}

Runs(k) == Open(k) /\ k \notin Cancelled

(***************************************************************************)
(* rpc_caller.                                                             *)
(***************************************************************************)
Goes(k, a, c) == at' = [at EXCEPT ![k] = a] /\ sending' = [sending EXCEPT ![k] = c]

End(k, r) ==
  /\ Goes(k, "done", None)
  /\ result' = [result EXCEPT ![k] = r]

\* is_connected and subscribe, which suspends in its send.  What they raise comes
\* before the try whose finally unsubscribes: the callback stays registered.
Subscribes(k) ==
  IF connected
  THEN /\ Register(k)
       /\ HubHolds(hubTopics[websocket] \cup {k})
       /\ IF SendRaises THEN End(k, "raised")
                        ELSE Goes(k, "subscribe", websocket) /\ UNCHANGED result
  ELSE End(k, "raised") /\ UNCHANGED <<callbacks, loop, hubTopics>>

\* By a task of the application, or by the callback that listener w awaits.
Call(k, w) ==
  /\ at[k] = "idle"
  /\ w # None => listener[w] = "callback" /\ Inside(w) = {}
  /\ within' = [within EXCEPT ![k] = w]
  /\ Subscribes(k)
  /\ UNCHANGED <<connected, websocket, listener, begin, calls, faults, link, inbound,
                 future, asked, answers>>

\* The send of the call raises: its connection has been closed meanwhile.
SendBroke(k) == sending[k] \in {c \in Conns : link[c] = "closed"}

CallSubscribeRaises(k) ==
  /\ at[k] = "subscribe"
  /\ Runs(k)
  /\ SendBroke(k)
  /\ End(k, "raised")
  /\ UNCHANGED <<vars, within, future, asked, answers>>

\* Mutant: the topic is given back after an answer only.
OnlyAnswered(k, r) ==
  IF r \in Outcomes
  THEN Unregister(k) /\ Retract(k)
  ELSE UNCHANGED <<callbacks, loop, hubTopics>>

\* The finally: what unsubscribe raises is logged.
GiveBack(k, r) == Unregister(k) /\ Retract(k)

Finally(k, r) ==
  /\ GiveBack(k, r)
  /\ End(k, r)
  /\ UNCHANGED <<connected, websocket, listener, begin, calls, faults, link, inbound,
                 within, future, answers>>

\* The send of subscribe is over.  publish() suspends in its own; it drops the
\* request when the client has lost its connection, and the call waits all the same.
CallPublish(k) ==
  /\ at[k] = "subscribe"
  /\ Runs(k)
  /\ ~SendRaises /\ (connected \/ Reconnect)
  /\ Goes(k, IF connected THEN "publish" ELSE "waiting", websocket)
  /\ asked' = IF websocket \in {c \in Conns : link[c] = "up"} THEN asked \cup {k}
                                                             ELSE asked
  /\ UNCHANGED <<vars, within, future, result, answers>>

\* publish() raises at once, because the websocket is closed or the client has none
\* and does not reconnect, or when its send is over.
CallPublishRaises(k) ==
  /\ Runs(k)
  /\ \/ at[k] = "subscribe" /\ (SendRaises \/ ~(connected \/ Reconnect))
     \/ at[k] = "publish" /\ SendBroke(k)
  /\ Finally(k, "failed")
  /\ UNCHANGED asked

CallWait(k) ==
  /\ at[k] = "publish"
  /\ Runs(k)
  /\ Goes(k, "waiting", None)
  /\ UNCHANGED <<vars, within, future, result, asked, answers>>

Resolved(k) == future[k] # None

CallReturn(k) ==
  /\ at[k] = "waiting"
  /\ Runs(k)
  /\ Resolved(k)
  /\ Finally(k, future[k])
  /\ UNCHANGED asked

\* Mutant: the timer of the wait starts when the request is out.
OnceAsked(k) == k \in asked

\* Since Python 3.12 the timer wins also over a result the task has not seen yet.
TimerRuns(k) == TRUE

CallTimeout(k) ==
  /\ at[k] = "waiting"
  /\ Runs(k)
  /\ TimerRuns(k)
  /\ Finally(k, "timeout")
  /\ UNCHANGED asked

\* The listener was cancelled in a callback that calls: CancelledError is raised at
\* the await of the call, which in subscribe is not in the try.
CallCancelled(k) ==
  /\ k \in Cancelled
  /\ IF at[k] = "subscribe"
     THEN End(k, "raised") /\ UNCHANGED <<vars, within, future, answers>>
     ELSE Finally(k, "cancelled")
  /\ UNCHANGED asked

(***************************************************************************)
(* response_handler, which the listener runs without suspending.           *)
(***************************************************************************)
\* Mutant: a second result replaces the first.
Overwritten(k) == TRUE

\* set_result and set_exception raise InvalidStateError on a future that is done
\* (the listener logs it).
Pending(k) == future[k] = None

ListenerResponse(c) ==
  /\ Receive(c, Calls)
  /\ LET k == Head(inbound[websocket]) IN
       IF k \in callbacks /\ Pending(k)
       THEN \E o \in Outcomes : future' = [future EXCEPT ![k] = o]
       ELSE UNCHANGED future
  /\ UNCHANGED <<callbacks, connected, websocket, listener, begin, loop, calls, faults,
                 link, hubTopics, at, sending, within, result, asked, answers>>

(***************************************************************************)
(* The servers, and the steps of the client.                               *)
(***************************************************************************)
\* A server answers, at any time; the hub passes the response on to the connections
\* that hold the topic then.
Answer(k) ==
  /\ k \in asked
  /\ answers[k] < MaxAnswers
  /\ \A c \in Conns : k \in hubTopics[c] => Len(inbound[c]) < MaxInbound
  /\ answers' = [answers EXCEPT ![k] = @ + 1]
  /\ HubSends(k, {c \in Conns : k \in hubTopics[c]})
  /\ UNCHANGED <<callbacks, connected, websocket, listener, begin, loop, calls, faults,
                 link, hubTopics, at, sending, within, future, result, asked>>

Alone(A) == A /\ UNCHANGED rpcVars

ClientStep ==
  \/ BeginDial \/ BeginOSError \/ BeginRaises
  \/ MaintainDial \/ MaintainPingFails \/ MaintainDialFails
  \/ ResubscribeRaises \/ ResubscribeNext \/ ResubscribeEnds
  \/ \E c \in Conns :
       \/ ListenerCloses(c) \/ ListenerFails(c) \/ ListenerHeartbeat(c)
       \/ HubHeartbeat(c) \/ HubGarbles(c) \/ Lose(c) \/ Detect(c)
  \/ \E t \in Topics \ Calls : Subscribe(t) \/ Unsubscribe(t) \/ Publish(t)

\* No send of a call is suspended in connection c: it may stand for a new one.
Unused(c) == \A k \in Calls : sending[k] # c

\* A cancelled task runs in the next turn of the event loop, before a dial ends.  All
\* unused connections being alike, one is dialed.
Dialed(c) ==
  /\ Cancelled = {}
  /\ Unused(c) /\ c = CHOOSE d \in Conns : Unused(d)
  /\ BeginConnected(c) \/ MaintainConnected(c)

ListenerMessage(c) ==
  /\ ListenerPublish(c)
  /\ Head(inbound[websocket]) \notin Calls

\* The callback ends when its calls have.
CallbackReturns(c) == Inside(c) = {} /\ CallbackEnds(c)

CallStep(k) ==
  \/ CallSubscribeRaises(k) \/ CallPublish(k) \/ CallPublishRaises(k) \/ CallWait(k)
  \/ CallReturn(k) \/ CallCancelled(k)

RpcNext ==
  \/ Alone(ClientStep)
  \/ \E c \in Conns :
       \/ Alone(Dialed(c) \/ ListenerMessage(c) \/ CallbackReturns(c))
       \/ ListenerResponse(c)
  \/ \E k \in Calls, w \in Conns \cup {None} : Call(k, w)
  \/ \E k \in Calls : CallStep(k) \/ CallTimeout(k) \/ Answer(k)

RpcSpec == RpcInit /\ [][RpcNext]_allVars

\* The fairness of HeartbeatSpec, and a loop that runs the tasks of the calls and
\* their timers; a send ends, if only because the keepalive closes its connection.
\* Nobody has to answer.
RpcFairSpec ==
  /\ RpcSpec
  /\ WF_allVars(Alone(MaintainDial)) /\ WF_allVars(Alone(MaintainPingFails))
  /\ WF_allVars(Alone(MaintainDialFails)) /\ SF_allVars(Alone(\E c \in Conns : Dialed(c)))
  /\ WF_allVars(Alone(ResubscribeRaises)) /\ WF_allVars(Alone(ResubscribeNext))
  /\ WF_allVars(Alone(ResubscribeEnds))
  /\ \A c \in Conns :
       /\ WF_allVars(Alone(Detect(c))) /\ WF_allVars(Alone(CallbackReturns(c)))
       /\ WF_allVars(Alone(ListenerCloses(c))) /\ WF_allVars(Alone(ListenerFails(c)))
       /\ WF_allVars(Alone(ListenerHeartbeat(c)))
       /\ WF_allVars(Alone(ListenerMessage(c))) /\ WF_allVars(ListenerResponse(c))
       /\ SF_allVars(Alone(HubHeartbeat(c)))
  /\ \A k \in Calls : WF_allVars(CallStep(k)) /\ WF_allVars(CallTimeout(k))

(***************************************************************************)
(* Properties.                                                             *)
(***************************************************************************)

\* "Subscribe to response topic" (rpc.py:280) comes before the request, and a
\* reconnection keeps it up: a call that waits has its callback, and the hub holds
\* its topic on the connection in use, whatever was lost and dialed meanwhile.
ResponseRoutable ==
  \A k \in Calls :
    Open(k) => k \in callbacks /\ (InUse => k \in hubTopics[websocket])

\* A call that got past its subscribe leaves nothing behind, on every path: when it is
\* answered, times out, cannot publish or is cancelled in its publish or its wait, and
\* also when the resubscription loop has just sent its topic.  (One that its subscribe
\* ends, because the send raises or its callback is cancelled meanwhile, is not in the
\* try of rpc.py:283 yet: "raised", it leaves its callback and its topic for good.)
CleanedUp ==
  \A k \in Calls :
    result[k] \notin {None, "raised"} =>
      k \notin callbacks /\ (websocket # None => k \notin hubTopics[websocket])

\* A response that comes second, or after the timeout, changes neither the future
\* nor what the call returns.
FirstAnswerStands ==
  [][\A k \in Calls :
       /\ future'[k] # future[k] => future[k] = None /\ at[k] \in {"publish", "waiting"}
       /\ result'[k] # result[k] /\ result'[k] \in Outcomes => result'[k] = future[k]]_allVars

\* A call made inside a callback is never answered, although its response is at the
\* client: only the listener could deliver it, and the listener awaits the callback.
\* No second listener does, before or after a reconnection.
NoAnswerInside ==
  \A k \in Calls : within[k] # None => future[k] = None /\ result[k] \notin Outcomes

\* Every call ends: dropped requests, lost responses, cancelled callbacks and calls
\* inside callbacks all come to their timeout at the latest.
CallsReturn == \A k \in Calls : at[k] # "idle" ~> at[k] = "done"

(***************************************************************************)
(* The calls as RemoteCalls, whose servers are told apart by the order in  *)
(* which they answer.                                                      *)
(***************************************************************************)
Stage(k) == CASE at[k] = "idle" -> "idle" [] Open(k) -> "waiting" [] OTHER -> "over"

R == INSTANCE RemoteCall WITH
       Servers <- 1..MaxAnswers, Failures <- Results \ Outcomes,
       stage <- [k \in Calls |-> Stage(k)], ran <- [k \in Calls |-> 1..answers[k]],
       answer <- future

\* A response that comes second, after the timeout, after a reconnection or for a
\* call whose callback was cancelled changes neither the future nor what the call
\* returns; a call returns what a server has answered, or fails.
ImplementsRemoteCall == R!Spec
=============================================================================
