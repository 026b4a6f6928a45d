------------------------------ MODULE RustRpc ------------------------------
(***************************************************************************)
(* Remote calls of the Rust client: Autobahn::call_rpc (rpc/client.rs) and *)
(* the handlers initialize_rpc_server subscribes (rpc/server.rs), between  *)
(* one client that calls functions and the clients that serve them.  The   *)
(* names of the functions are those of RpcNames.                           *)
(*                                                                         *)
(* What the methods of Autobahn do is taken from autobahn.rs; RustClient   *)
(* has them in detail.  Here a turn of the reconnect task that connects is *)
(* one step, because it holds both mutexes from the list of topics to the  *)
(* new writer, and a send is one step with the mutex taken for it.  The    *)
(* caller's begin() is not: between its resubscription and its writer a    *)
(* call finds no writer.  Heartbeats add nothing here: their topics are    *)
(* held by the hub already.                                                *)
(*                                                                         *)
(* Every call has a topic of its own (a UUID), so a call stands for it.    *)
(* Payloads are left out; a response says "ok" or "error".  Every client   *)
(* reconnects.                                                             *)
(***************************************************************************)
EXTENDS RpcNames

CONSTANTS
  Calls,      \* invocations of call_rpc, by one client
  Called,     \* the function each of them calls, as its stub declares it
  Servers,    \* clients that serve functions
  Offers,     \* the functions in the registry of each server
  Caller,     \* the client that calls
  None,       \* no response, no result
  MaxLosses   \* connections lost in a behaviour (a bound)

ASSUME PeersAssumption  == Caller \notin Servers
ASSUME CallsAssumption ==
  \A c \in Calls : Called[c] \in Functions /\ ClientAccepts(Called[c])
ASSUME OffersAssumption ==
  \A s \in Servers : \A f \in Offers[s] : f \in Functions /\ ServerAccepts(f)
ASSUME NoneAssumption ==
  /\ None \notin {"ok", "error", "connection", "timeout"}
  /\ \A s \in Servers : None \notin Offers[s]
ASSUME BoundsAssumption == MaxLosses \in Nat

VARIABLES
  net,        \* the writer of each client and the connection under it
  losses,     \* connections lost so far
  callbacks,  \* response topics that have a callback at the caller
  hubTopics,  \* response topics the hub holds for the caller's connection
  deferred,   \* the deferred subscribe task of each call
  signal,     \* the value of the caller's connection signal
  pc,         \* where each call_rpc is
  answer,     \* what the oneshot channel of each call carries
  result,     \* what each call_rpc has returned
  registered, \* functions each server has subscribed so far
  handlers,   \* functions that have the callback of their topic there
  requests,   \* requests on their way to a server
  served,     \* what each server has done with each call
  ran,        \* the function it has done it with
  responses   \* responses on their way to the caller

callVars   == <<pc, answer, result>>
topicVars  == <<callbacks, hubTopics, deferred, signal>>
serverVars == <<registered, handlers, served, ran>>
wireVars   == <<requests, responses>>
netVars    == <<net, losses>>
vars       == <<netVars, topicVars, callVars, serverVars, wireVars>>

Peers    == Servers \cup {Caller}
Outcomes == {"ok", "error"}
Results  == Outcomes \cup {"connection", "timeout"}
Offered  == UNION {Offers[s] : s \in Servers}

\* "begin": begin() has not dialed yet.  "resubscribed": it has, and has sent the
\* topics there were.  "none": no writer.  "dialing": the reconnect task dials and
\* holds the write mutex.  "broken": the hub is gone and nobody has noticed.
\* "dead": writes fail.
NetStates == {"begin", "resubscribed", "none", "dialing", "up", "broken", "dead"}

CallSteps ==
  {"idle", "subscribe", "publish", "waiting", "unsubscribe", "cleanup", "done"}

TypeOK ==
  /\ net \in [Peers -> NetStates]
  /\ losses \in Nat
  /\ callbacks \in SUBSET Calls
  /\ hubTopics \in SUBSET Calls
  /\ deferred \in [Calls -> {"no", "waiting", "sent"}]
  /\ signal \in BOOLEAN
  /\ pc \in [Calls -> CallSteps]
  /\ answer \in [Calls -> Outcomes \cup {None}]
  /\ result \in [Calls -> Results \cup {None}]
  /\ registered \in [Servers -> SUBSET Offered]
  /\ handlers \in [Servers -> SUBSET Offered]
  /\ requests \in SUBSET (Servers \X Calls)
  /\ served \in [Servers -> [Calls -> Outcomes \cup {"no", "working", "panicked"}]]
  /\ ran \in [Servers -> [Calls -> Offered \cup {None}]]
  /\ responses \in SUBSET (Servers \X Calls)

\* What begin() does without a mutex matters for the caller only: a server has
\* nothing to send before its first connection.
Init ==
  /\ net = [x \in Peers |-> IF x = Caller THEN "begin" ELSE "none"]
  /\ losses = 0
  /\ callbacks = {} /\ hubTopics = {}
  /\ deferred = [c \in Calls |-> "no"]
  /\ signal = FALSE
  /\ pc = [c \in Calls |-> "idle"]
  /\ answer = [c \in Calls |-> None]
  /\ result = [c \in Calls |-> None]
  /\ registered = [s \in Servers |-> {}]
  /\ handlers = [s \in Servers |-> {}]
  /\ requests = {} /\ responses = {}
  /\ served = [s \in Servers |-> [c \in Calls |-> "no"]]
  /\ ran = [s \in Servers |-> [c \in Calls |-> None]]

(***************************************************************************)
(* Connections.  A function's topic is never unsubscribed, so the hub      *)
(* holds it for a server that has a callback for it and whose connection   *)
(* is up.                                                                  *)
(***************************************************************************)
Up(x)       == net[x] = "up"
WriteFree(x) == net[x] # "dialing"
NoWriter(x)  == net[x] \in {"begin", "resubscribed", "none"}

\* The functions of s that have the callback of the topic call c is sent to.
Handlers(s, c) == {f \in handlers[s] : RpcName(f) = RpcName(Called[c])}

Serves(s, c) == Handlers(s, c) # {} /\ Up(s)

\* Mutant: a reconnection does not resubscribe.
NothingResubscribed == {}

Resubscribed == callbacks

BeginDialFails ==
  /\ net[Caller] = "begin"
  /\ net' = [net EXCEPT ![Caller] = "none"]
  /\ UNCHANGED <<losses, topicVars, callVars, serverVars, wireVars>>

\* The topics are sent under the mutex of the callbacks, and that of the writer is
\* free.
BeginResubscribe ==
  /\ net[Caller] = "begin"
  /\ net' = [net EXCEPT ![Caller] = "resubscribed"]
  /\ hubTopics' = Resubscribed
  /\ UNCHANGED <<losses, callbacks, deferred, signal, callVars, serverVars, wireVars>>

\* watch::Sender::send changes nothing without a receiver: the deferred tasks.
Signal == signal' = (signal \/ \E c \in Calls : deferred[c] = "waiting")

\* A connection lost before this step is as good as one lost right after it.
BeginInstall ==
  /\ net[Caller] = "resubscribed"
  /\ net' = [net EXCEPT ![Caller] = "up"]
  /\ Signal
  /\ UNCHANGED <<losses, callbacks, hubTopics, deferred, callVars, serverVars, wireVars>>

LoopDial(x) ==
  /\ net[x] = "none"
  /\ net' = [net EXCEPT ![x] = "dialing"]
  /\ UNCHANGED <<losses, topicVars, callVars, serverVars, wireVars>>

LoopDialFails(x) ==
  /\ net[x] = "dialing"
  /\ net' = [net EXCEPT ![x] = "none"]
  /\ UNCHANGED <<losses, topicVars, callVars, serverVars, wireVars>>

LoopInstall(x) ==
  /\ net[x] = "dialing"
  /\ net' = [net EXCEPT ![x] = "up"]
  /\ IF x = Caller
     THEN hubTopics' = Resubscribed /\ Signal
     ELSE UNCHANGED <<hubTopics, signal>>
  /\ UNCHANGED <<losses, callbacks, deferred, callVars, serverVars, wireVars>>

LoopPingFails(x) ==
  /\ net[x] = "dead"
  /\ net' = [net EXCEPT ![x] = "none"]
  /\ UNCHANGED <<losses, topicVars, callVars, serverVars, wireVars>>

Break(x) ==
  /\ Up(x)
  /\ losses < MaxLosses
  /\ losses' = losses + 1
  /\ net' = [net EXCEPT ![x] = "broken"]
  /\ hubTopics' = IF x = Caller THEN {} ELSE hubTopics
  /\ UNCHANGED <<callbacks, deferred, signal, callVars, serverVars, wireVars>>

Detect(x) ==
  /\ net[x] = "broken"
  /\ net' = [net EXCEPT ![x] = "dead"]
  /\ UNCHANGED <<losses, topicVars, callVars, serverVars, wireVars>>

\* A frame that has not come through when its connection ends is lost.
LoseRequest(s, c) ==
  /\ <<s, c>> \in requests
  /\ ~Up(s)
  /\ requests' = requests \ {<<s, c>>}
  /\ UNCHANGED <<netVars, topicVars, callVars, serverVars, responses>>

LoseResponse(s, c) ==
  /\ <<s, c>> \in responses
  /\ ~Up(Caller)
  /\ responses' = responses \ {<<s, c>>}
  /\ UNCHANGED <<netVars, topicVars, callVars, serverVars, requests>>

(***************************************************************************)
(* call_rpc.  subscribe() stores the callback first and sends when it has  *)
(* the write mutex; without a writer it leaves the send to a task that     *)
(* waits for the connection signal.                                        *)
(***************************************************************************)
Call(c) ==
  /\ pc[c] = "idle"
  /\ callbacks' = callbacks \cup {c}
  /\ pc' = [pc EXCEPT ![c] = "subscribe"]
  /\ UNCHANGED <<netVars, hubTopics, deferred, signal, answer, result,
                 serverVars, wireVars>>

\* The early returns: neither takes the callback or the topic back.
FailConnection(c) ==
  /\ pc' = [pc EXCEPT ![c] = "done"]
  /\ result' = [result EXCEPT ![c] = "connection"]

\* Mutant: SUBSCRIBE is left to the next reconnection.
NoSendNow(c) == hubTopics

HubSubscribes(c) == hubTopics \cup {c}

CallSubscribe(c) ==
  /\ pc[c] = "subscribe"
  /\ WriteFree(Caller)
  /\ hubTopics' = IF Up(Caller) THEN HubSubscribes(c) ELSE hubTopics
  /\ deferred' = IF NoWriter(Caller) THEN [deferred EXCEPT ![c] = "waiting"]
                                     ELSE deferred
  /\ IF net[Caller] = "dead"
     THEN FailConnection(c)
     ELSE pc' = [pc EXCEPT ![c] = "publish"] /\ UNCHANGED result
  /\ UNCHANGED <<netVars, callbacks, signal, answer, serverVars, wireVars>>

\* The deferred task does not look at the callbacks: it may run after the call.
DeferredSend(c) ==
  /\ deferred[c] = "waiting"
  /\ signal
  /\ WriteFree(Caller)
  /\ deferred' = [deferred EXCEPT ![c] = "sent"]
  /\ hubTopics' = IF Up(Caller) THEN hubTopics \cup {c} ELSE hubTopics
  /\ UNCHANGED <<netVars, callbacks, signal, callVars, serverVars, wireVars>>

CallPublish(c) ==
  /\ pc[c] = "publish"
  /\ WriteFree(Caller)
  /\ IF NoWriter(Caller) \/ net[Caller] = "dead"
     THEN FailConnection(c)
     ELSE pc' = [pc EXCEPT ![c] = "waiting"] /\ UNCHANGED result
  /\ requests' = IF Up(Caller)
                 THEN requests \cup ({s \in Servers : Serves(s, c)} \X {c})
                 ELSE requests
  /\ UNCHANGED <<netVars, topicVars, answer, serverVars, responses>>

\* rx.await returns, and unsubscribe() removes the callback.
CallReceive(c) ==
  /\ pc[c] = "waiting"
  /\ answer[c] # None
  /\ callbacks' = callbacks \ {c}
  /\ pc' = [pc EXCEPT ![c] = "unsubscribe"]
  /\ UNCHANGED <<netVars, hubTopics, deferred, signal, answer, result,
                 serverVars, wireVars>>

\* The send of unsubscribe(); its error is dropped by both its callers here.
SendUnsubscribe(c) ==
  /\ WriteFree(Caller)
  /\ hubTopics' = IF Up(Caller) THEN hubTopics \ {c} ELSE hubTopics

Finish(c, r) ==
  /\ pc' = [pc EXCEPT ![c] = "done"]
  /\ result' = [result EXCEPT ![c] = r]
  /\ UNCHANGED <<netVars, callbacks, deferred, signal, answer, serverVars, wireVars>>

CallReturn(c) ==
  /\ pc[c] = "unsubscribe"
  /\ SendUnsubscribe(c)
  /\ Finish(c, answer[c])

\* Mutant: the clean-up is the business of the code inside the timeout.
NoCleanup(c) == UNCHANGED callbacks

RemoveCallback(c) == callbacks' = callbacks \ {c}

\* Mutant: the timeout covers the clean-up but not the wait.
CleanupTimesOut(c) == pc[c] = "unsubscribe"

\* tokio polls the future before the timer, so a response that is there is taken;
\* but the timeout also covers the unsubscribe that follows.
TimesOut(c) == \/ pc[c] = "waiting" /\ answer[c] = None
               \/ pc[c] = "unsubscribe"

CallTimeout(c) ==
  /\ TimesOut(c)
  /\ RemoveCallback(c)
  /\ pc' = [pc EXCEPT ![c] = "cleanup"]
  /\ UNCHANGED <<netVars, hubTopics, deferred, signal, answer, result,
                 serverVars, wireVars>>

CallCleanup(c) ==
  /\ pc[c] = "cleanup"
  /\ SendUnsubscribe(c)
  /\ Finish(c, "timeout")

(***************************************************************************)
(* A frame for the caller.  The reader spawns the callback of the topic,   *)
(* which takes the sender of the oneshot channel; that it runs at once     *)
(* loses nothing, for run late it finds the receiver waiting or gone.      *)
(***************************************************************************)
\* Mutant: the sender is not taken, so that a second response may follow.
AnyResponse(c) == pc[c] \in {"waiting", "unsubscribe"}

SenderThere(c) == pc[c] = "waiting" /\ answer[c] = None

ReadResponse(s, c) ==
  /\ <<s, c>> \in responses
  /\ responses' = responses \ {<<s, c>>}
  /\ answer' = IF c \in callbacks /\ SenderThere(c)
               THEN [answer EXCEPT ![c] = served[s][c]]
               ELSE answer
  /\ UNCHANGED <<netVars, topicVars, pc, result, serverVars, requests>>

(***************************************************************************)
(* The servers.  A handler runs in a task of its own for each request.     *)
(***************************************************************************)
\* A turn of the loop of initialize_rpc_server, over a registry that has the
\* functions in the order their constructors ran.  The callback of a topic that has
\* one is replaced.  Without a writer the subscription is made by the next
\* reconnection, and an error of subscribe() leaves the callback in place.  When the
\* SUBSCRIBE is deferred this step stands for its sending: nobody sees a function
\* whose topic the hub does not know.
Register(s, f) ==
  /\ f \in Offers[s] \ registered[s]
  /\ registered' = [registered EXCEPT ![s] = @ \cup {f}]
  /\ handlers' = [handlers EXCEPT ![s] = {g \in @ : RpcName(g) # RpcName(f)} \cup {f}]
  /\ UNCHANGED <<netVars, topicVars, callVars, served, ran, wireVars>>

RequestTaken(s, c) == requests \ {<<s, c>>}

HandleRequest(s, c) ==
  /\ <<s, c>> \in requests
  /\ requests' = RequestTaken(s, c)
  /\ \E f \in Handlers(s, c) : ran' = [ran EXCEPT ![s][c] = f]
  /\ served' = [served EXCEPT ![s][c] = "working"]
  /\ UNCHANGED <<netVars, topicVars, callVars, registered, handlers, responses>>

\* The function's wrapper returns Ok, so that the one error is a payload that does
\* not decode: one of another message type, which may also decode to nonsense.
EndsWith(s, c) ==
  IF InputType(ran[s][c]) = InputType(Called[c]) THEN {"ok"} ELSE Outcomes

\* The function returns and the response is published; the hub passes it on if
\* it holds the call's topic at that moment, and an error of publish() ends it.
Respond(s, c, o) ==
  /\ served[s][c] = "working"
  /\ o \in EndsWith(s, c)
  /\ WriteFree(s)
  /\ served' = [served EXCEPT ![s][c] = o]
  /\ responses' = IF Up(s) /\ Up(Caller) /\ c \in hubTopics
                  THEN responses \cup {<<s, c>>}
                  ELSE responses
  /\ UNCHANGED <<netVars, topicVars, callVars, registered, handlers, ran, requests>>

\* The function panics: its task ends and nothing is published.
Panic(s, c) ==
  /\ served[s][c] = "working"
  /\ served' = [served EXCEPT ![s][c] = "panicked"]
  /\ UNCHANGED <<netVars, topicVars, callVars, registered, handlers, ran, wireVars>>

(***************************************************************************)
(* The system.                                                             *)
(***************************************************************************)
CallStep(c) ==
  \/ CallSubscribe(c) \/ CallPublish(c) \/ CallReceive(c) \/ CallReturn(c)
  \/ CallCleanup(c)

DialStep(x) == LoopDialFails(x) \/ LoopInstall(x)

BeginStep == BeginDialFails \/ BeginResubscribe \/ BeginInstall

NetStep(x) == LoopDial(x) \/ DialStep(x) \/ LoopPingFails(x) \/ Break(x) \/ Detect(x)

ServerStep(s, c) ==
  \/ HandleRequest(s, c) \/ Panic(s, c) \/ \E o \in Outcomes : Respond(s, c, o)

WireStep(s, c) == ReadResponse(s, c) \/ LoseRequest(s, c) \/ LoseResponse(s, c)

Next ==
  \/ BeginStep
  \/ \E x \in Peers : NetStep(x)
  \/ \E c \in Calls : Call(c) \/ CallStep(c) \/ CallTimeout(c) \/ DeferredSend(c)
  \/ \E s \in Servers : \E f \in Offers[s] : Register(s, f)
  \/ \E s \in Servers, c \in Calls : ServerStep(s, c) \/ WireStep(s, c)

Spec == Init /\ [][Next]_vars

\* A task that waits for the write mutex gets it between two dials (it is FIFO),
\* a dial ends, and a timer fires.  No server has to answer.
FairSpec ==
  /\ Spec
  /\ \A c \in Calls : SF_vars(CallStep(c)) /\ WF_vars(CallTimeout(c))
  /\ WF_vars(DialStep(Caller))

(***************************************************************************)
(* Properties.                                                             *)
(***************************************************************************)

\* "Prepare a one-shot receiver and subscribe BEFORE publishing to avoid race
\* conditions" (rpc/client.rs:35): whenever the caller's connection is up and a
\* call has its request out or about to go, a callback takes its response and the
\* hub routes its topic, whatever was lost and resubscribed before; but for one
\* case.  A subscribe that finds begin() between its resubscription and its writer
\* leaves the SUBSCRIBE to a deferred task, and the request may overtake it: then
\* that task is still there, and has its signal.
ResponseRoutable ==
  \A c \in Calls :
    pc[c] \in {"publish", "waiting"} =>
      /\ c \in callbacks
      /\ Up(Caller) => c \in hubTopics \/ (deferred[c] = "waiting" /\ signal)

\* "best-effort cleanup of the per-call topic" (rpc/client.rs:72): a call that
\* got as far as its wait leaves no callback behind, and no topic at the hub but
\* for one that a deferred subscribe task sent.  (A call that returns a
\* connection error leaves both.)
CleanedUp ==
  \A c \in Calls :
    result[c] \in {"ok", "error", "timeout"} =>
      c \notin callbacks /\ (c \in hubTopics => deferred[c] = "sent")

\* When two servers answer, or one answers late, the caller keeps the first
\* answer: a call never trades an answer for another, takes none once it has
\* stopped waiting, and returns the one it took.
FirstAnswerStands ==
  [][\A c \in Calls :
       /\ answer'[c] # answer[c] => answer[c] = None /\ pc[c] = "waiting"
       /\ result'[c] # result[c] /\ result'[c] \in Outcomes => result'[c] = answer[c]]_vars

\* "A function that can handle RPC requests with proper type safety"
\* (macros/src/lib.rs:15): whatever is registered, replaced, lost or late, no server
\* runs a call by a function that differs from the one its stub declares in just
\* the name, the argument or the return type (it may differ in two: names run
\* together); and a caller is told of an error only where the function takes
\* another message.
RightFunction ==
  \A c \in Calls :
    /\ \A s \in Servers, part \in {"name", "takes", "gives"} :
         ran[s][c] # None => Differ(ran[s][c], Called[c]) # {part}
    /\ answer[c] = "error" =>
         \E s \in Servers : /\ served[s][c] = "error"
                            /\ InputType(ran[s][c]) # InputType(Called[c])

\* Every call returns: no lost request, lost response, panic or series of failed
\* dials keeps a caller waiting, as long as each dial ends.
CallsReturn == \A c \in Calls : pc[c] # "idle" ~> pc[c] = "done"

(***************************************************************************)
(* The calls as RemoteCalls.                                               *)
(***************************************************************************)
Stage(c) == CASE pc[c] = "idle" -> "idle"
              [] pc[c] \in {"subscribe", "publish", "waiting"} -> "waiting"
              [] pc[c] \in {"unsubscribe", "cleanup"} -> "leaving"
              [] OTHER -> "over"

RanBy(c) == {s \in Servers : ran[s][c] # None}

R == INSTANCE RemoteCall WITH
       Failures <- Results \ Outcomes,
       stage <- [c \in Calls |-> Stage(c)], ran <- [c \in Calls |-> RanBy(c)]

\* When two servers answer, or one answers late, or is not the one the call was
\* published to: the caller keeps the first answer and returns it or fails, takes
\* none once it has stopped waiting, and none that no server has run it for.
ImplementsRemoteCall == R!Spec
=============================================================================
