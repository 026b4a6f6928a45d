------------------------------ MODULE JavaRpc -------------------------------
(***************************************************************************)
(* Remote calls over the Java client                                       *)
(* (src/main/java/autobahn/client/rpc/AutobahnRPC.java).                   *)
(*                                                                         *)
(* Requests and responses of a function go over one topic, which tells its *)
(* name and types.  One interface is modelled, whose functions have one    *)
(* name and are told apart by whether they take an argument and whether    *)
(* they give a value; other names have other topics.                       *)
(*                                                                         *)
(* A client is what is left of JavaClient between its losses: a connection *)
(* that is up or not, callbacks, and topics that get to the hub some time  *)
(* after their callbacks did, by SUBSCRIBE, by a resubscription or by a    *)
(* heartbeat.  The hub sends a message to everyone who subscribes to its   *)
(* topic, its sender too (src/test/java/autobahn/client/                   *)
(* IntegrationTests.java:274-279).  Equal messages on their way to one     *)
(* client count as one, so do two threads of a server for one call, and    *)
(* with them the copies of a callback that reconnections add.              *)
(* Definitions marked "Mutant" are plausible bugs, no part of the          *)
(* specification.                                                          *)
(***************************************************************************)
EXTENDS Naturals, Sequences

CONSTANTS
  Clients,
  Calls,
  Caller,     \* the client that makes each call
  Asks,       \* the method of the interface it calls
  Offers,     \* the functions that each client serves
  MaxLosses   \* connections lost (a bound)

\* A function, or the topic that its name and types make.
Functions == [takes : BOOLEAN, gives : BOOLEAN]

ASSUME CallerAssumption == Caller \in [Calls -> Clients]
ASSUME AsksAssumption   == Asks \in [Calls -> Functions]
ASSUME OffersAssumption == Offers \in [Clients -> SUBSET Functions]
ASSUME LossesAssumption == MaxLosses \in Nat

VARIABLES
  net,       \* whether the connection of each client is up
  losses,
  callbacks, \* its callbacks for each topic
  registered, \* clients whose service is in serviceInstances
  hubTopics, \* the topics the hub holds for it
  inbound,   \* the messages on their way to it
  running,   \* the threads of its functions, by call
  pc,        \* where each call is
  argument,  \* what it passes
  pending,   \* pendingCalls of all clients: a call id is unique
  response,  \* what the future of each call holds: at most one response
  result,    \* how it ended
  ran        \* the calls that each server has run its function for

connection == <<net, losses, callbacks, registered, hubTopics>>
call       == <<pc, argument, pending, response, result>>
vars == <<connection, inbound, running, call, ran>>

\* A message type's default has no bytes: it is sent as no payload.
Payloads  == {"empty", "full"}
Responses == [ok : BOOLEAN, payload : Payloads]
Messages  == [call : Calls, kind : {"request", "response"},
              ok : BOOLEAN, payload : Payloads]

Lists == Seq({"server", "proxy"})
Ends  == {"none", "value", "failed", "timeout", "error"}

RpcTypeOK ==
  /\ net \in [Clients -> BOOLEAN]
  /\ losses \in 0..MaxLosses
  /\ callbacks \in [Clients -> [Functions -> Lists]]
  /\ registered \in SUBSET Clients
  /\ hubTopics \in [Clients -> SUBSET Functions]
  /\ inbound \in [Clients -> SUBSET Messages]
  /\ running \in [Clients -> SUBSET Calls]
  /\ pc \in [Calls -> {"idle", "publish", "wait", "leave", "done"}]
  /\ argument \in [Calls -> Payloads \cup {"null"}]
  /\ pending \in SUBSET Calls
  /\ response \in [Calls -> SUBSET Responses]
  /\ result \in [Calls -> Ends]
  /\ ran \in [Clients -> SUBSET Calls]

Init ==
  /\ net = [x \in Clients |-> TRUE]
  /\ losses = 0
  /\ callbacks = [x \in Clients |-> [t \in Functions |-> <<>>]]
  /\ registered = {}
  /\ hubTopics = [x \in Clients |-> {}]
  /\ inbound = [x \in Clients |-> {}]
  /\ running = [x \in Clients |-> {}]
  /\ pc = [c \in Calls |-> "idle"]
  /\ argument = [c \in Calls |-> "null"]
  /\ pending = {}
  /\ response = [c \in Calls |-> {}]
  /\ result = [c \in Calls |-> "none"]
  /\ ran = [x \in Clients |-> {}]

\* generateTopicName: a call that passes null has the topic of a function
\* without argument.
Topic(c) == [Asks[c] EXCEPT !.takes = argument[c] # "null"]

(***************************************************************************)
(* The client below, and the hub.                                          *)
(***************************************************************************)
Lose(x) ==
  /\ net[x]
  /\ losses < MaxLosses
  /\ losses' = losses + 1
  /\ net' = [net EXCEPT ![x] = FALSE]
  /\ hubTopics' = [hubTopics EXCEPT ![x] = {}]
  /\ inbound' = [inbound EXCEPT ![x] = {}]
  /\ UNCHANGED <<callbacks, registered, running, call, ran>>

Reconnect(x) ==
  /\ ~net[x]
  /\ net' = [net EXCEPT ![x] = TRUE]
  /\ UNCHANGED <<losses, callbacks, registered, hubTopics, inbound, running, call, ran>>

Registers(x, t) ==
  /\ net[x]
  /\ callbacks[x][t] # <<>>
  /\ hubTopics' = [hubTopics EXCEPT ![x] = @ \cup {t}]
  /\ UNCHANGED <<net, losses, callbacks, registered, inbound, running, call, ran>>

Publish(m) ==
  inbound' = [x \in Clients |->
                IF Topic(m.call) \in hubTopics[x] THEN inbound[x] \cup {m} ELSE inbound[x]]

(***************************************************************************)
(* createRPCClient and registerRPCServices: the callbacks, in the order in *)
(* which the pool runs the subscribes.  Only the proxy is kept from being  *)
(* added twice (104): a service registered again, and a resubscription,    *)
(* add copies (AutobahnClient.java:91, 192; see JavaClient).  Here copies  *)
(* count once, as do the threads in which they run one function for one    *)
(* message: a callback is called if its first copy is.                     *)
(***************************************************************************)
AddCallback(x, t, handler) ==
  /\ \A i \in DOMAIN callbacks[x][t] : callbacks[x][t][i] # handler
  /\ callbacks' = [callbacks EXCEPT ![x][t] = Append(@, handler)]
  /\ UNCHANGED <<net, losses, registered, hubTopics, inbound, running, call, ran>>

CreateRPCClient(x) == \E c \in Calls : Caller[c] = x /\ AddCallback(x, Asks[c], "proxy")
Serve(x)           == \E t \in Offers[x] : AddCallback(x, t, "server")

\* The service is known after the last subscribe, and never if one of them throws.
RegisterRPCService(x) ==
  /\ x \notin registered
  /\ registered' = registered \cup {x}
  /\ UNCHANGED <<net, losses, callbacks, hubTopics, inbound, running, call, ran>>

(***************************************************************************)
(* onMessageServer and onMessageClient.  Neither looks at the message      *)
(* type: a response parses as a request and a request as a response, whose *)
(* fields 3 and 4 have other types and are skipped.                        *)
(***************************************************************************)
PayloadAsRequest(m) == IF m.kind = "request" THEN m.payload ELSE "empty"

\* Mutant: the payload is field 3 of both messages.
AsResponseShared(m) ==
  [ok |-> IF m.kind = "request" THEN TRUE ELSE m.ok, payload |-> m.payload]

AsResponse(m) ==
  IF m.kind = "request" THEN [ok |-> TRUE, payload |-> "empty"]
  ELSE [ok |-> m.ok, payload |-> m.payload]

\* Mutant: a function without parameters is served.
ThrowsAtPayload(x, m) == x \notin registered \/ PayloadAsRequest(m) = "full"

\* No service is found; getParameterTypes()[0] of a function without parameters;
\* parseFrom(byte[]) invoked with a ByteString.  Nobody catches any of these.
ServerThrows(x, m) ==
  x \notin registered \/ ~Topic(m.call).takes \/ PayloadAsRequest(m) = "full"

\* A callback that throws keeps the ones behind it from being called.
Reached(x, handler, m) ==
  LET handlers == callbacks[x][Topic(m.call)] IN
  \E i \in DOMAIN handlers :
    /\ handlers[i] = handler
    /\ ServerThrows(x, m) => \A j \in 1..i : handlers[j] # "server"

\* Mutant: a future is set again.
CompleteAgain(c, r) == {r}

\* CompletableFuture.complete
Complete(c, r) == IF response[c] = {} THEN {r} ELSE response[c]

OnMessage(x, m) ==
  /\ m \in inbound[x]
  /\ inbound' = [inbound EXCEPT ![x] = @ \ {m}]
  /\ running' = IF Reached(x, "server", m)
                THEN [running EXCEPT ![x] = @ \cup {m.call}] ELSE running
  /\ response' = IF Reached(x, "proxy", m) /\ Caller[m.call] = x /\ m.call \in pending
                 THEN [response EXCEPT ![m.call] = Complete(m.call, AsResponse(m))]
                 ELSE response
  /\ UNCHANGED <<connection, pc, argument, pending, result, ran>>

(***************************************************************************)
(* The thread of a function, which runs it with null for its argument.     *)
(***************************************************************************)
\* A value or, as the answer to a null, an error.
Answers(t) ==
  IF t.gives THEN [ok : {TRUE}, payload : Payloads] \cup {[ok |-> FALSE, payload |-> "full"]}
             ELSE {[ok |-> TRUE, payload |-> "empty"]}

FunctionEnds(x, c) ==
  /\ c \in running[x]
  /\ running' = [running EXCEPT ![x] = @ \ {c}]
  /\ ran' = [ran EXCEPT ![x] = @ \cup {c}]
  /\ UNCHANGED <<connection, call>>

\* publish throws without a connection, and the thread is gone.
FunctionReturns(x, c) ==
  /\ FunctionEnds(x, c)
  /\ \E r \in Answers(Topic(c)) :
       IF net[x]
       THEN Publish([call |-> c, kind |-> "response", ok |-> r.ok,
                     payload |-> r.payload])
       ELSE UNCHANGED inbound

\* The message of an InvocationTargetException is null, and copyFromUtf8 throws.
FunctionThrows(x, c) ==
  /\ FunctionEnds(x, c)
  /\ UNCHANGED inbound

(***************************************************************************)
(* makeRPCCall.                                                            *)
(***************************************************************************)
Call(c) ==
  /\ pc[c] = "idle"
  /\ \E a \in Payloads \cup {"null"} :
       /\ ~Asks[c].takes => a = "null"
       /\ argument' = [argument EXCEPT ![c] = a]
  /\ pending' = pending \cup {c}
  /\ pc' = [pc EXCEPT ![c] = "publish"]
  /\ UNCHANGED <<connection, inbound, running, response, result, ran>>

CallPublishes(c) ==
  /\ pc[c] = "publish"
  /\ net[Caller[c]]
  /\ Publish([call |-> c, kind |-> "request", ok |-> TRUE,
              payload |-> IF argument[c] = "full" THEN "full" ELSE "empty"])
  /\ pc' = [pc EXCEPT ![c] = "wait"]
  /\ UNCHANGED <<connection, running, argument, pending, response, result, ran>>

\* The end of the try block.
Leave(c, end) ==
  /\ result' = [result EXCEPT ![c] = end]
  /\ pc' = [pc EXCEPT ![c] = "leave"]
  /\ UNCHANGED <<connection, inbound, running, argument, pending, response, ran>>

CallRaises(c) ==
  /\ pc[c] = "publish"
  /\ ~net[Caller[c]]
  /\ Leave(c, "error")

CallReceives(c) ==
  /\ pc[c] = "wait"
  /\ \E r \in response[c] : Leave(c, IF r.ok THEN "value" ELSE "failed")

\* Mutant: get() without a timeout.
CallNeverTimesOut(c) == FALSE /\ Leave(c, "timeout")

CallTimesOut(c) ==
  /\ pc[c] = "wait"
  /\ response[c] = {}
  /\ Leave(c, "timeout")

\* finally
CallRemoves(c) ==
  /\ pc[c] = "leave"
  /\ pending' = pending \ {c}
  /\ pc' = [pc EXCEPT ![c] = "done"]
  /\ UNCHANGED <<connection, inbound, running, argument, response, result, ran>>

CallStep(c) ==
  CallPublishes(c) \/ CallRaises(c) \/ CallReceives(c) \/ CallTimesOut(c) \/ CallRemoves(c)

Next ==
  \/ \E x \in Clients :
       \/ Lose(x) \/ Reconnect(x) \/ CreateRPCClient(x)
       \/ Serve(x) \/ RegisterRPCService(x)
       \/ \E t \in Functions : Registers(x, t)
       \/ \E m \in inbound[x] : OnMessage(x, m)
       \/ \E c \in running[x] : FunctionReturns(x, c) \/ FunctionThrows(x, c)
  \/ \E c \in Calls : Call(c) \/ CallStep(c)

Spec == Init /\ [][Next]_vars

\* A thread in makeRPCCall goes on, and get() ends.
FairSpec == Spec /\ \A c \in Calls : WF_vars(CallStep(c))

(***************************************************************************)
(* Properties.                                                             *)
(***************************************************************************)
\* A pending call has a thread in makeRPCCall: none is left behind by a
\* publish that fails or a response that comes too late (466-505).
CleanedUp == \A c \in Calls : c \in pending <=> pc[c] \notin {"idle", "done"}

\* A message that comes second, or after the call is over, changes nothing.
FirstMessageStands ==
  [][\A c \in Calls :
       response[c] # {} \/ pc[c] = "done" => response'[c] = response[c]]_vars

\* An error, and a value that is not empty, was answered by a server, although
\* a call may take its own request for a response (328-342).
ValuesFromServers ==
  \A c \in Calls :
    \/ result[c] = "failed"
    \/ result[c] = "value" /\ \E r \in response[c] : r.payload = "full"
    => \E x \in Clients : c \in ran[x]

\* A function runs only for calls of itself, although a call with null has the
\* topic of another, and never with an argument it was not passed (260-290).
RunsItsOwnCalls ==
  \A x \in Clients : \A c \in ran[x] :
    Topic(c) = Asks[c] /\ Asks[c] \in Offers[x] /\ argument[c] = "empty"

\* Every call comes to an end (479-505), a call without an answer with its timeout,
\* if the publish it joins (478) does: that is assumed, for the join has no timeout.
CallsReturn == \A c \in Calls : pc[c] = "publish" ~> pc[c] = "done"

\* A call that returns a value has been answered by a server.
AnsweredByServer ==
  \A c \in Calls : result[c] = "value" => \E x \in Clients : c \in ran[x]
=============================================================================
