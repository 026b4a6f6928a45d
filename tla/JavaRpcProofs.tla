--------------------------- MODULE JavaRpcProofs ----------------------------
(***************************************************************************)
(* Theorems about JavaRpc, for any clients, calls and services.            *)
(***************************************************************************)
EXTENDS JavaRpc, TLAPS

Assumptions == CallerAssumption /\ AsksAssumption /\ OffersAssumption /\ LossesAssumption

Answered(c) == \E x \in Clients : c \in ran[x]

\* What holds of a call for which x runs its function.
Own(x, c) ==
  /\ pc[c] # "idle"
  /\ Topic(c) = Asks[c]
  /\ Asks[c] \in Offers[x]
  /\ argument[c] = "empty"

Serving ==
  \A x \in Clients, t \in Functions :
    \A i \in DOMAIN callbacks[x][t] : callbacks[x][t][i] = "server" => t \in Offers[x]

Arguments == \A c \in Calls : argument[c] # "null" => Asks[c].takes

Sent(m) ==
  /\ pc[m.call] # "idle"
  /\ m.kind = "request" => (m.payload = "full" <=> argument[m.call] = "full")
  /\ m.kind = "response" => Answered(m.call)

Messaging == \A x \in Clients : \A m \in inbound[x] : Sent(m)

Threads == \A x \in Clients : \A c \in running[x] \cup ran[x] : Own(x, c)

Futures ==
  \A c \in Calls :
    /\ \A r \in response[c] : ~r.ok \/ r.payload = "full" => Answered(c)
    /\ result[c] = "failed" => Answered(c)

RpcInv ==
  RpcTypeOK /\ CleanedUp /\ Serving /\ Arguments /\ Messaging /\ Threads /\ Futures

(***************************************************************************)
(* Topics and lists.                                                       *)
(***************************************************************************)
LEMMA TopicType ==
  ASSUME RpcTypeOK, Assumptions, NEW c \in Calls
  PROVE  /\ Topic(c) \in Functions
         /\ Topic(c).takes = (argument[c] # "null")
         /\ argument[c] # "null" /\ Asks[c].takes => Topic(c) = Asks[c]
<1>1. Asks[c] \in Functions
  BY DEF Assumptions, AsksAssumption
<1>2. PICK p, g \in BOOLEAN : Asks[c] = [takes |-> p, gives |-> g]
  BY <1>1 DEF Functions
<1>3. Topic(c) = [takes |-> argument[c] # "null", gives |-> g]
  BY <1>2 DEF Topic
<1> QED
  BY <1>2, <1>3 DEF Functions

LEMMA ListType ==
  ASSUME NEW list \in Lists, NEW handler \in {"server", "proxy"}
  PROVE  Append(list, handler) \in Lists
BY DEF Lists

\* What is true of an answer stays true: a call's argument is fixed when it has
\* started, and a function that has run has run.
LEMMA OwnKept ==
  ASSUME NEW x \in Clients, NEW c \in Calls, Own(x, c),
         pc'[c] # "idle", argument'[c] = argument[c]
  PROVE  Own(x, c)'
BY DEF Own, Topic

LEMMA SentKept ==
  ASSUME NEW m \in Messages, Sent(m),
         pc'[m.call] # "idle", argument'[m.call] = argument[m.call],
         \A x \in Clients : ran[x] \subseteq ran'[x]
  PROVE  Sent(m)'
BY DEF Sent, Answered

\* Publishing adds one message for some clients.
LEMMA Published ==
  ASSUME RpcTypeOK, NEW m \in Messages, Publish(m)
  PROVE  /\ inbound' \in [Clients -> SUBSET Messages]
         /\ \A x \in Clients : inbound'[x] \subseteq inbound[x] \cup {m}
BY DEF RpcTypeOK, Publish

(***************************************************************************)
(* The invariant holds initially, and every step keeps it: those of the    *)
(* client below, of a message, of a thread and of a call.                  *)
(***************************************************************************)
LEMMA InitRpcInv == Assumptions /\ Init => RpcInv
<1> SUFFICES ASSUME Assumptions, Init
             PROVE  RpcInv
  OBVIOUS
<1>1. <<>> \in Lists
  BY DEF Lists
<1>2. RpcTypeOK
  BY <1>1 DEF Init, RpcTypeOK, Assumptions, LossesAssumption, Ends
<1>3. CleanedUp /\ Serving /\ Arguments
  BY DEF Init, CleanedUp, Serving, Arguments
<1>4. Messaging /\ Threads /\ Futures
  BY DEF Init, Messaging, Threads, Futures
<1> QED
  BY <1>2, <1>3, <1>4 DEF RpcInv

LEMMA ConnectionStep ==
  ASSUME Assumptions, RpcInv, NEW x \in Clients,
         \/ Lose(x) \/ Reconnect(x) \/ RegisterRPCService(x)
         \/ \E t \in Functions : Registers(x, t)
  PROVE  RpcInv'
<1>1. UNCHANGED <<callbacks, running, call, ran>>
  BY DEF Lose, Reconnect, RegisterRPCService, Registers
<1>2. UNCHANGED <<pc, argument, pending, response, result>>
  BY <1>1 DEF call
<1>3. /\ inbound' \in [Clients -> SUBSET Messages]
      /\ \A y \in Clients : inbound'[y] \subseteq inbound[y]
  BY DEF RpcInv, RpcTypeOK, Lose, Reconnect, RegisterRPCService, Registers
<1>4. RpcTypeOK'
  <2>1. net' \in [Clients -> BOOLEAN]
    BY DEF RpcInv, RpcTypeOK, Lose, Reconnect, RegisterRPCService, Registers
  <2>3. losses' = losses \/ (losses < MaxLosses /\ losses' = losses + 1)
    BY DEF Lose, Reconnect, RegisterRPCService, Registers
  <2>4. losses' \in 0..MaxLosses
    BY <2>3 DEF RpcInv, RpcTypeOK, Assumptions, LossesAssumption
  <2>2. registered' \in SUBSET Clients /\ hubTopics' \in [Clients -> SUBSET Functions]
    BY DEF RpcInv, RpcTypeOK, Lose, Reconnect, RegisterRPCService, Registers
  <2> QED
    BY <1>1, <1>2, <1>3, <2>1, <2>2, <2>4 DEF RpcInv, RpcTypeOK
<1>5. CleanedUp' /\ Serving' /\ Arguments'
  BY <1>1, <1>2 DEF RpcInv, CleanedUp, Serving, Arguments
<1>6. Messaging'
  <2> SUFFICES ASSUME NEW y \in Clients, NEW m \in inbound'[y]
               PROVE  Sent(m)'
    BY DEF Messaging
  <2>1. m \in inbound[y] /\ Sent(m)
    BY <1>3 DEF RpcInv, Messaging
  <2> QED
    BY <1>1, <1>2, <2>1 DEF Sent, Answered
<1>7. Threads' /\ Futures'
  BY <1>1, <1>2 DEF RpcInv, Threads, Futures, Own, Topic, Answered
<1> QED
  BY <1>4, <1>5, <1>6, <1>7 DEF RpcInv

LEMMA CallbackStep ==
  ASSUME Assumptions, RpcInv, NEW x \in Clients, CreateRPCClient(x) \/ Serve(x)
  PROVE  RpcInv'
<1>1. PICK t \in Functions, handler \in {"server", "proxy"} :
        /\ AddCallback(x, t, handler)
        /\ handler = "server" => t \in Offers[x]
  BY DEF CreateRPCClient, Serve, Assumptions, AsksAssumption, OffersAssumption
<1>2. UNCHANGED <<net, losses, registered, hubTopics, inbound, running, ran>>
  BY <1>1 DEF AddCallback
<1>3. UNCHANGED <<pc, argument, pending, response, result>>
  BY <1>1 DEF AddCallback, call
<1>4. callbacks[x][t] \in Lists
  BY DEF RpcInv, RpcTypeOK
<1>5. Append(callbacks[x][t], handler) \in Lists
  BY <1>1, <1>4, ListType DEF AddCallback
<1>6. callbacks' = [callbacks EXCEPT ![x][t] = Append(callbacks[x][t], handler)]
  BY <1>1 DEF AddCallback
<1>7. RpcTypeOK'
  BY <1>2, <1>3, <1>5, <1>6 DEF RpcInv, RpcTypeOK
<1>8. Serving'
  <2> SUFFICES ASSUME NEW y \in Clients, NEW u \in Functions,
                      NEW i \in DOMAIN callbacks'[y][u], callbacks'[y][u][i] = "server"
               PROVE  u \in Offers[y]
    BY DEF Serving
  <2>1. CASE y = x /\ u = t
    <3>1. callbacks'[y][u] = Append(callbacks[x][t], handler)
      BY <1>6, <2>1 DEF RpcInv, RpcTypeOK
    <3>2. callbacks[x][t] \in Seq({"server", "proxy"})
      BY <1>4 DEF Lists
    <3>3. CASE i = Len(callbacks[x][t]) + 1
      BY <1>1, <2>1, <3>1, <3>2, <3>3
    <3>4. CASE i # Len(callbacks[x][t]) + 1
      <4>1. i \in DOMAIN callbacks[x][t] /\ callbacks[x][t][i] = "server"
        BY <3>1, <3>2, <3>4
      <4> QED
        BY <2>1, <4>1 DEF RpcInv, Serving
    <3> QED
      BY <3>3, <3>4
  <2>2. CASE ~(y = x /\ u = t)
    <3>1. callbacks'[y][u] = callbacks[y][u]
      BY <1>6, <2>2 DEF RpcInv, RpcTypeOK
    <3> QED
      BY <3>1 DEF RpcInv, Serving
  <2> QED
    BY <2>1, <2>2
<1>9. CleanedUp' /\ Arguments'
  BY <1>3 DEF RpcInv, CleanedUp, Arguments
<1>10. Messaging' /\ Threads' /\ Futures'
  BY <1>2, <1>3 DEF RpcInv, Messaging, Sent, Threads, Futures, Own, Topic, Answered
<1> QED
  BY <1>7, <1>8, <1>9, <1>10 DEF RpcInv

LEMMA MessageStep ==
  ASSUME Assumptions, RpcInv, NEW x \in Clients, NEW m \in inbound[x], OnMessage(x, m)
  PROVE  RpcInv'
<1>1. UNCHANGED <<net, losses, callbacks, registered, hubTopics>>
  BY DEF OnMessage, connection
<1>2. UNCHANGED <<pc, argument, pending, result, ran>>
  BY DEF OnMessage
<1>3. m \in Messages /\ m.call \in Calls /\ Sent(m)
  BY DEF RpcInv, RpcTypeOK, Messages, Messaging
<1>4. Topic(m.call) \in Functions
  BY <1>3, TopicType DEF RpcInv
<1>5. /\ inbound' \in [Clients -> SUBSET Messages]
      /\ \A y \in Clients : inbound'[y] \subseteq inbound[y]
  BY DEF RpcInv, RpcTypeOK, OnMessage
<1>6. AsResponse(m) \in Responses
  BY <1>3 DEF AsResponse, Responses, Messages, Payloads
<1>7. \A c \in Calls : \/ response'[c] = response[c]
                       \/ c = m.call /\ response'[c] = {AsResponse(m)}
  BY <1>3 DEF OnMessage, Complete, RpcInv, RpcTypeOK
<1>8. response' \in [Calls -> SUBSET Responses]
  BY <1>3, <1>6 DEF OnMessage, Complete, RpcInv, RpcTypeOK
<1>9. running' \in [Clients -> SUBSET Calls]
  BY <1>3 DEF OnMessage, RpcInv, RpcTypeOK
<1>10. RpcTypeOK'
  BY <1>1, <1>2, <1>5, <1>8, <1>9 DEF RpcInv, RpcTypeOK
<1>11. CleanedUp' /\ Serving' /\ Arguments'
  BY <1>1, <1>2 DEF RpcInv, CleanedUp, Serving, Arguments
<1>12. Messaging'
  BY <1>2, <1>5 DEF RpcInv, Messaging, Sent, Answered
<1>13. ASSUME Reached(x, "server", m)
       PROVE  Own(x, m.call)
  <2>1. Topic(m.call) \in Offers[x]
    BY <1>3, <1>4, <1>13 DEF Reached, RpcInv, Serving
  <2>2. ~ServerThrows(x, m)
    <3> SUFFICES ASSUME ServerThrows(x, m)
                 PROVE  FALSE
      OBVIOUS
    <3>1. PICK i \in DOMAIN callbacks[x][Topic(m.call)] :
            /\ callbacks[x][Topic(m.call)][i] = "server"
            /\ \A j \in 1..i : callbacks[x][Topic(m.call)][j] # "server"
      BY <1>13 DEF Reached
    <3>2. callbacks[x][Topic(m.call)] \in Seq({"server", "proxy"})
      BY <1>4 DEF RpcInv, RpcTypeOK, Lists
    <3>3. i \in 1..i
      BY <3>2
    <3> QED
      BY <3>1, <3>3
  <2>3. argument[m.call] # "null" /\ Topic(m.call) = Asks[m.call]
    BY <1>3, <2>2, TopicType DEF ServerThrows, RpcInv, Arguments
  <2>4. argument[m.call] # "full"
    <3>1. CASE m.kind = "request"
      BY <1>3, <2>2, <3>1 DEF Sent, ServerThrows, PayloadAsRequest
    <3>2. CASE m.kind = "response"
      BY <1>3, <3>2 DEF Sent, Answered, RpcInv, Threads, Own
    <3> QED
      BY <1>3, <3>1, <3>2 DEF Messages
  <2> QED
    BY <1>3, <2>1, <2>3, <2>4 DEF Own, Sent, RpcInv, RpcTypeOK, Payloads
<1>14. Threads'
  <2> SUFFICES ASSUME NEW y \in Clients, NEW c \in running'[y] \cup ran'[y]
               PROVE  Own(y, c)'
    BY DEF Threads
  <2>1. c \in running[y] \cup ran[y] \/ (y = x /\ c = m.call /\ Reached(x, "server", m))
    BY <1>2 DEF OnMessage, RpcInv, RpcTypeOK
  <2>2. Own(y, c)
    BY <1>13, <2>1 DEF RpcInv, Threads
  <2> QED
    BY <1>2, <2>2 DEF Own, Topic
<1>15. Futures'
  <2> SUFFICES ASSUME NEW c \in Calls
               PROVE  /\ \A r \in response'[c] : ~r.ok \/ r.payload = "full" => Answered(c)'
                      /\ result'[c] = "failed" => Answered(c)'
    BY DEF Futures
  <2>1. Answered(c) => Answered(c)'
    BY <1>2 DEF Answered
  <2>2. result'[c] = "failed" => Answered(c)'
    BY <1>2, <2>1 DEF RpcInv, Futures
  <2>3. CASE response'[c] = response[c]
    BY <2>1, <2>2, <2>3 DEF RpcInv, Futures
  <2>4. CASE c = m.call /\ response'[c] = {AsResponse(m)}
    BY <1>3, <2>1, <2>2, <2>4 DEF AsResponse, Sent, Messages
  <2> QED
    BY <1>7, <2>3, <2>4
<1> QED
  BY <1>10, <1>11, <1>12, <1>14, <1>15 DEF RpcInv

LEMMA ThreadStep ==
  ASSUME Assumptions, RpcInv, NEW x \in Clients, NEW c \in running[x],
         FunctionReturns(x, c) \/ FunctionThrows(x, c)
  PROVE  RpcInv'
<1>1. c \in Calls /\ FunctionEnds(x, c)
  BY DEF RpcInv, RpcTypeOK, FunctionReturns, FunctionThrows
<1>2. UNCHANGED <<net, losses, callbacks, registered, hubTopics>>
  BY <1>1 DEF FunctionEnds, connection
<1>3. UNCHANGED <<pc, argument, pending, response, result>>
  BY <1>1 DEF FunctionEnds, call
<1>4. /\ running' \in [Clients -> SUBSET Calls] /\ ran' \in [Clients -> SUBSET Calls]
      /\ \A y \in Clients : ran[y] \subseteq ran'[y]
      /\ \A y \in Clients : running'[y] \cup ran'[y] \subseteq running[y] \cup ran[y]
      /\ c \in ran'[x]
  BY <1>1 DEF FunctionEnds, RpcInv, RpcTypeOK
<1>5. /\ inbound' \in [Clients -> SUBSET Messages]
      /\ \A y \in Clients : \A m \in inbound'[y] :
           \/ m \in inbound[y]
           \/ m.call = c /\ m.kind = "response"
  <2>1. CASE inbound' = inbound
    BY <2>1 DEF RpcInv, RpcTypeOK
  <2>2. CASE inbound' # inbound
    <3>1. PICK r \in Answers(Topic(c)) :
            Publish([call |-> c, kind |-> "response", ok |-> r.ok, payload |-> r.payload])
      BY <2>2 DEF FunctionReturns, FunctionThrows
    <3>2. r.ok \in BOOLEAN /\ r.payload \in Payloads
      <4>1. \/ r \in [ok : {TRUE}, payload : Payloads]
            \/ r = [ok |-> FALSE, payload |-> "full"]
            \/ r = [ok |-> TRUE, payload |-> "empty"]
        BY DEF Answers
      <4>2. CASE r \in [ok : {TRUE}, payload : Payloads]
        BY <4>2
      <4>3. CASE r = [ok |-> FALSE, payload |-> "full"]
        BY <4>3 DEF Payloads
      <4>4. CASE r = [ok |-> TRUE, payload |-> "empty"]
        BY <4>4 DEF Payloads
      <4> QED
        BY <4>1, <4>2, <4>3, <4>4
    <3> DEFINE n == [call |-> c, kind |-> "response", ok |-> r.ok, payload |-> r.payload]
    <3>3. n \in Messages /\ n.call = c /\ n.kind = "response"
      BY <1>1, <3>2 DEF Messages
    <3>4. Publish(n)
      BY <3>1
    <3> HIDE DEF n
    <3> QED
      BY <3>3, <3>4, Published DEF RpcInv
  <2> QED
    BY <2>1, <2>2
<1>6. RpcTypeOK'
  BY <1>2, <1>3, <1>4, <1>5 DEF RpcInv, RpcTypeOK
<1>7. CleanedUp' /\ Serving' /\ Arguments'
  BY <1>2, <1>3 DEF RpcInv, CleanedUp, Serving, Arguments
<1>8. \A d \in Calls : Answered(d) => Answered(d)'
  BY <1>4 DEF Answered
<1>9. Messaging'
  <2> SUFFICES ASSUME NEW y \in Clients, NEW m \in inbound'[y]
               PROVE  Sent(m)'
    BY DEF Messaging
  <2>1. CASE m \in inbound[y]
    <3>1. m \in Messages /\ m.call \in Calls /\ Sent(m)
      BY <2>1 DEF RpcInv, RpcTypeOK, Messages, Messaging
    <3> QED
      BY <1>3, <1>4, <3>1, SentKept DEF Sent
  <2>2. CASE m.call = c /\ m.kind = "response"
    <3>1. pc[c] # "idle"
      BY DEF RpcInv, Threads, Own
    <3> QED
      BY <1>3, <1>4, <2>2, <3>1 DEF Sent, Answered
  <2> QED
    BY <1>5, <2>1, <2>2
<1>10. Threads'
  <2> SUFFICES ASSUME NEW y \in Clients, NEW d \in running'[y] \cup ran'[y]
               PROVE  Own(y, d)'
    BY DEF Threads
  <2>1. d \in running[y] \cup ran[y]
    BY <1>4
  <2>2. Own(y, d)
    BY <2>1 DEF RpcInv, Threads
  <2> QED
    BY <1>3, <2>2 DEF Own, Topic
<1>11. Futures'
  BY <1>3, <1>8 DEF RpcInv, Futures
<1> QED
  BY <1>6, <1>7, <1>9, <1>10, <1>11 DEF RpcInv

LEMMA CallStarts ==
  ASSUME Assumptions, RpcInv, NEW c \in Calls, Call(c)
  PROVE  RpcInv'
<1>1. UNCHANGED <<net, losses, callbacks, registered, hubTopics, inbound, running, response,
                  result, ran>>
  BY DEF Call, connection
<1>2. PICK a \in Payloads \cup {"null"} :
        /\ ~Asks[c].takes => a = "null"
        /\ argument' = [argument EXCEPT ![c] = a]
  BY DEF Call
<1>3. pc[c] = "idle" /\ pc' = [pc EXCEPT ![c] = "publish"] /\ pending' = pending \cup {c}
  BY DEF Call
<1>4. RpcTypeOK'
  BY <1>1, <1>2, <1>3 DEF RpcInv, RpcTypeOK
<1>5. CleanedUp' /\ Serving' /\ Arguments'
  BY <1>1, <1>2, <1>3 DEF RpcInv, RpcTypeOK, CleanedUp, Serving, Arguments
<1>6. \A d \in Calls : pc[d] # "idle" => pc'[d] # "idle" /\ argument'[d] = argument[d]
  BY <1>2, <1>3 DEF RpcInv, RpcTypeOK
<1>7. Messaging'
  <2> SUFFICES ASSUME NEW x \in Clients, NEW m \in inbound'[x]
               PROVE  Sent(m)'
    BY DEF Messaging
  <2>1. m \in Messages /\ m.call \in Calls /\ Sent(m)
    BY <1>1 DEF RpcInv, RpcTypeOK, Messages, Messaging
  <2> QED
    BY <1>1, <1>6, <2>1, SentKept DEF Sent
<1>8. Threads'
  <2> SUFFICES ASSUME NEW x \in Clients, NEW d \in running'[x] \cup ran'[x]
               PROVE  Own(x, d)'
    BY DEF Threads
  <2>1. d \in Calls /\ Own(x, d)
    BY <1>1 DEF RpcInv, RpcTypeOK, Threads
  <2> QED
    BY <1>6, <2>1, OwnKept DEF Own
<1>9. Futures'
  BY <1>1 DEF RpcInv, Futures, Answered
<1> QED
  BY <1>4, <1>5, <1>7, <1>8, <1>9 DEF RpcInv

LEMMA CallGoesOn ==
  ASSUME Assumptions, RpcInv, NEW c \in Calls, CallStep(c)
  PROVE  RpcInv'
<1>1. UNCHANGED <<net, losses, callbacks, registered, hubTopics, running, argument, response,
                  ran>>
  BY DEF CallStep, CallPublishes, CallRaises, CallReceives, CallTimesOut, CallRemoves, Leave,
         connection
<1>2. \/ pc[c] = "publish" /\ pc' = [pc EXCEPT ![c] = "wait"] /\ UNCHANGED <<pending, result>>
      \/ /\ pc[c] \in {"publish", "wait"} /\ pc' = [pc EXCEPT ![c] = "leave"]
         /\ UNCHANGED pending
         /\ \E end \in Ends : /\ result' = [result EXCEPT ![c] = end]
                              /\ end = "failed" => \E r \in response[c] : ~r.ok
      \/ /\ pc[c] = "leave" /\ pc' = [pc EXCEPT ![c] = "done"]
         /\ pending' = pending \ {c} /\ UNCHANGED result
  BY DEF CallStep, CallPublishes, CallRaises, CallReceives, CallTimesOut, CallRemoves, Leave,
         Ends
<1>3. \A d \in Calls : pc[d] # "idle" => pc'[d] # "idle"
  BY <1>2 DEF RpcInv, RpcTypeOK
<1>4. /\ inbound' \in [Clients -> SUBSET Messages]
      /\ \A x \in Clients : \A m \in inbound'[x] :
           \/ m \in inbound[x]
           \/ /\ m.call = c /\ m.kind = "request" /\ pc[c] # "idle"
              /\ m.payload = "full" <=> argument[c] = "full"
  <2>1. CASE inbound' = inbound
    BY <2>1 DEF RpcInv, RpcTypeOK
  <2>2. CASE inbound' # inbound
    <3> DEFINE n == [call |-> c, kind |-> "request", ok |-> TRUE,
                     payload |-> IF argument[c] = "full" THEN "full" ELSE "empty"]
    <3>1. Publish(n) /\ pc[c] # "idle"
      BY <2>2 DEF CallStep, CallPublishes, CallRaises, CallReceives, CallTimesOut, CallRemoves,
                  Leave
    <3>2. /\ n \in Messages /\ n.call = c /\ n.kind = "request"
          /\ n.payload = "full" <=> argument[c] = "full"
      BY DEF Messages, Payloads
    <3> HIDE DEF n
    <3> QED
      BY <3>1, <3>2, Published DEF RpcInv
  <2> QED
    BY <2>1, <2>2
<1>5. RpcTypeOK'
  <2>1. pending' \in SUBSET Calls /\ result' \in [Calls -> Ends]
    BY <1>2 DEF RpcInv, RpcTypeOK
  <2>2. pc' \in [Calls -> {"idle", "publish", "wait", "leave", "done"}]
    BY <1>2 DEF RpcInv, RpcTypeOK
  <2> QED
    BY <1>1, <1>4, <2>1, <2>2 DEF RpcInv, RpcTypeOK
<1>6. CleanedUp' /\ Serving' /\ Arguments'
  BY <1>1, <1>2 DEF RpcInv, RpcTypeOK, CleanedUp, Serving, Arguments
<1>7. Messaging'
  <2> SUFFICES ASSUME NEW x \in Clients, NEW m \in inbound'[x]
               PROVE  Sent(m)'
    BY DEF Messaging
  <2>1. CASE m \in inbound[x]
    <3>1. m \in Messages /\ m.call \in Calls /\ Sent(m)
      BY <2>1 DEF RpcInv, RpcTypeOK, Messages, Messaging
    <3> QED
      BY <1>1, <1>3, <3>1, SentKept DEF Sent
  <2>2. CASE m \notin inbound[x]
    BY <1>1, <1>3, <1>4, <2>2 DEF Sent
  <2> QED
    BY <2>1, <2>2
<1>8. Threads'
  <2> SUFFICES ASSUME NEW x \in Clients, NEW d \in running'[x] \cup ran'[x]
               PROVE  Own(x, d)'
    BY DEF Threads
  <2>1. d \in Calls /\ Own(x, d)
    BY <1>1 DEF RpcInv, RpcTypeOK, Threads
  <2> QED
    BY <1>1, <1>3, <2>1, OwnKept DEF Own
<1>9. Futures'
  <2>1. \A d \in Calls : Answered(d)' = Answered(d)
    BY <1>1 DEF Answered
  <2>2. \A d \in Calls : result'[d] = "failed" =>
           result[d] = "failed" \/ \E r \in response[d] : ~r.ok
    BY <1>2 DEF RpcInv, RpcTypeOK
  <2> QED
    BY <1>1, <2>1, <2>2 DEF RpcInv, Futures
<1> QED
  BY <1>5, <1>6, <1>7, <1>8, <1>9 DEF RpcInv

LEMMA NextRpcInv == Assumptions /\ RpcInv /\ [Next]_vars => RpcInv'
<1> SUFFICES ASSUME Assumptions, RpcInv, [Next]_vars
             PROVE  RpcInv'
  OBVIOUS
<1>1. ASSUME NEW x \in Clients,
             \/ Lose(x) \/ Reconnect(x) \/ RegisterRPCService(x)
             \/ \E t \in Functions : Registers(x, t)
      PROVE  RpcInv'
  BY <1>1, ConnectionStep
<1>2. ASSUME NEW x \in Clients, CreateRPCClient(x) \/ Serve(x)
      PROVE  RpcInv'
  BY <1>2, CallbackStep
<1>3. ASSUME NEW x \in Clients, NEW m \in inbound[x], OnMessage(x, m)
      PROVE  RpcInv'
  BY <1>3, MessageStep
<1>4. ASSUME NEW x \in Clients, NEW c \in running[x],
             FunctionReturns(x, c) \/ FunctionThrows(x, c)
      PROVE  RpcInv'
  BY <1>4, ThreadStep
<1>5. ASSUME NEW c \in Calls, Call(c)
      PROVE  RpcInv'
  BY <1>5, CallStarts
<1>6. ASSUME NEW c \in Calls, CallStep(c)
      PROVE  RpcInv'
  BY <1>6, CallGoesOn
<1>7. CASE UNCHANGED vars
  <2>1. UNCHANGED <<net, losses, callbacks, registered, hubTopics, inbound, running, pc,
                    argument, pending, response, result, ran>>
    BY <1>7 DEF vars, connection, call
  <2>2. RpcTypeOK' /\ CleanedUp' /\ Serving' /\ Arguments'
    BY <2>1 DEF RpcInv, RpcTypeOK, CleanedUp, Serving, Arguments
  <2>3. Messaging' /\ Threads' /\ Futures'
    BY <2>1 DEF RpcInv, Messaging, Sent, Threads, Futures, Own, Topic, Answered
  <2> QED
    BY <2>2, <2>3 DEF RpcInv
<1> QED
  BY <1>1, <1>2, <1>3, <1>4, <1>5, <1>6, <1>7 DEF Next

(***************************************************************************)
(* The theorems.                                                           *)
(***************************************************************************)
LEMMA Invariance == Spec => []RpcInv
<1>1. Assumptions
  BY CallerAssumption, AsksAssumption, OffersAssumption, LossesAssumption DEF Assumptions
<1>2. Init => RpcInv
  BY <1>1, InitRpcInv
<1>3. RpcInv /\ [Next]_vars => RpcInv'
  BY <1>1, NextRpcInv
<1> QED
  BY <1>2, <1>3, PTL DEF Spec

\* Every variable keeps its type, the messages on their way and what the futures
\* hold with it, whatever the handlers make of a message of the other kind.
THEOREM TypeCorrect == Spec => []RpcTypeOK
<1>1. RpcInv => RpcTypeOK
  BY DEF RpcInv
<1> QED
  BY <1>1, Invariance, PTL

\* A call is pending exactly while its thread is in makeRPCCall, on every path
\* through its try block (466-505).
THEOREM CallsCleanUp == Spec => []CleanedUp
<1>1. RpcInv => CleanedUp
  BY DEF RpcInv
<1> QED
  BY <1>1, Invariance, PTL

\* Errors and values that are not empty come from a server, whatever messages of
\* the wrong kind the handlers parse (260-342).
THEOREM ServersAnswer == Spec => []ValuesFromServers
<1>1. RpcInv => ValuesFromServers
  BY DEF RpcInv, Futures, ValuesFromServers, Answered
<1> QED
  BY <1>1, Invariance, PTL

\* No server runs a function for a call of another, nor for one that passed an
\* argument (260-292).
THEOREM RunsOwnCalls == Spec => []RunsItsOwnCalls
<1>1. RpcInv => RunsItsOwnCalls
  BY DEF RpcInv, Threads, Own, RunsItsOwnCalls
<1> QED
  BY <1>1, Invariance, PTL

\* The first message a future gets stays, and none comes after the call (334-338).
THEOREM FirstMessageKept == Spec => FirstMessageStands
<1>1. ASSUME RpcInv, [Next]_vars, NEW c \in Calls, response[c] # {} \/ pc[c] = "done"
      PROVE  response'[c] = response[c]
  <2>1. CASE UNCHANGED vars
    BY <2>1 DEF vars, call
  <2>2. ASSUME NEW x \in Clients, NEW m \in inbound[x], OnMessage(x, m)
        PROVE  response'[c] = response[c]
    <3>1. CASE pc[c] = "done"
      <4>1. c \notin pending
        BY <1>1, <3>1 DEF RpcInv, CleanedUp
      <4> QED
        BY <1>1, <2>2, <4>1 DEF OnMessage, RpcInv, RpcTypeOK
    <3>2. CASE response[c] # {}
      BY <1>1, <2>2, <3>2 DEF OnMessage, Complete, RpcInv, RpcTypeOK
    <3> QED
      BY <1>1, <3>1, <3>2
  <2>3. CASE UNCHANGED response
    BY <2>3
  <2>4. UNCHANGED response \/ UNCHANGED vars
        \/ \E x \in Clients : \E m \in inbound[x] : OnMessage(x, m)
    <3>1. ASSUME NEW x \in Clients,
                 \/ Lose(x) \/ Reconnect(x) \/ CreateRPCClient(x) \/ Serve(x)
                 \/ RegisterRPCService(x) \/ \E t \in Functions : Registers(x, t)
                 \/ \E d \in running[x] : FunctionReturns(x, d) \/ FunctionThrows(x, d)
          PROVE  UNCHANGED response
      BY <3>1 DEF Lose, Reconnect, CreateRPCClient, Serve, AddCallback, RegisterRPCService,
                  Registers, FunctionReturns, FunctionThrows, FunctionEnds, call
    <3>2. ASSUME NEW d \in Calls, Call(d) \/ CallStep(d)
          PROVE  UNCHANGED response
      BY <3>2 DEF Call, CallStep, CallPublishes, CallRaises, CallReceives, CallTimesOut,
                  CallRemoves, Leave
    <3> QED
      BY <1>1, <3>1, <3>2 DEF Next
  <2> QED
    BY <2>1, <2>2, <2>3, <2>4
<1>2. RpcInv /\ [Next]_vars =>
        [\A c \in Calls :
           response[c] # {} \/ pc[c] = "done" => response'[c] = response[c]]_vars
  BY <1>1
<1> QED
  BY <1>2, Invariance, PTL DEF Spec, FirstMessageStands
=============================================================================
