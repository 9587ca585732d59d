------------------------------- MODULE HubClient -------------------------------
(***************************************************************************)
(* The IoT Hub client (source/azure_iot_hub_client.c) on one MQTT session: *)
(* the receive contexts of the three features a device subscribes to, the  *)
(* blocking wait for a SUBACK with the callbacks that run inside it, the   *)
(* property requests and their identifiers, and the loss and the renewal   *)
(* of the connection.                                                      *)
(*                                                                         *)
(* The library has no threads: an API call runs to completion before the   *)
(* next one, except that AzureIoTMQTT_ProcessLoop hands each packet to     *)
(* prvEventCallback, which calls the application back, and the application *)
(* may call the non-blocking operations from there.  coreMQTT, the network *)
(* and the IoT Hub are external and modelled from how the client uses them.*)
(***************************************************************************)
EXTENDS RequestIds, Sequences, FiniteSets

CONSTANTS
    MaxPacketId,        \* 65535: packet identifiers are 1 .. MaxPacketId
    PacketIdBound,      \* bound: no identifier above it is ever asked for
    WaitInterval,       \* azureiothubSUBACK_WAIT_INTERVAL_MS
    Used,               \* the features the application subscribes to
    Timeouts,           \* the timeouts it passes to Subscribe
    Qualities,          \* the QoS levels it sends telemetry with
    CleanSessions,      \* the values of xCleanSession it passes to Connect
    MaxWire,            \* bound: packets under way to the client
    MaxOwed             \* bound: answers the hub has yet to send

ASSUME PacketIdAssumption ==
    MaxPacketId \in Nat \ {0} /\ PacketIdBound \in Nat
ASSUME TimeoutAssumption ==
    WaitInterval \in Nat \ {0} /\ Timeouts \subseteq Nat
ASSUME UseAssumption ==
    Used \subseteq 0 .. 2 /\ Qualities \subseteq {0, 1}
ASSUME SessionAssumption == CleanSessions \subseteq BOOLEAN
ASSUME BoundAssumption == MaxWire \in Nat /\ MaxOwed \in Nat

\* azureiothubRECEIVE_CONTEXT_INDEX_*: the order in which they are searched.
C2D        == 0
COMMANDS   == 1
PROPERTIES == 2
Feature    == {C2D, COMMANDS, PROPERTIES}
NoFeature  == 3

PacketId == 1 .. MaxPacketId

\* A receive context.  pxProcessFunction and the callback are set and erased
\* together with usState: they are present exactly when state is not NONE.
Context == [state : {"NONE", "SUB", "SUBACK"}, pid : 0 .. MaxPacketId]
NoContext == [state |-> "NONE", pid |-> 0]

\* The two kinds of property request; odd identifiers are for Reported.
RequestKind == {"Reported", "Requested"}

(***************************************************************************)
(* Packets to the client.  A RESPONSE is the PUBLISH that answers a        *)
(* property request; its field kind is what was asked, for the properties  *)
(* only: the client never reads it.                                        *)
(***************************************************************************)
Suback   == [type : {"SUBACK"}, id : PacketId]
Puback   == [type : {"PUBACK"}, id : PacketId]
Response == [type : {"RESPONSE"}, id : RequestId, kind : RequestKind]
Publish  == [type : {"PUBLISH"}, feature : Feature]
Packet   == Suback \cup Puback \cup Response \cup Publish

\* What the application's callback is handed: the feature, the request
\* identifier and the message type the client computed; and, for the
\* properties only, the kind of request that was really answered.
NoEvent == [feature |-> NoFeature, id |-> 0, type |-> "None", asked |-> "None"]
Event ==
    [feature : Feature \cup {NoFeature},
     id      : RequestCounter,
     type    : RequestKind \cup {"Message", "Telemetry", "None"},
     asked   : RequestKind \cup {"None"}]

Result == {"None", "Success", "Failed", "SubackWaitTimeout", "TopicNotSubscribed",
           "PublishFailed", "SubscribeFailed", "UnsubscribeFailed", "OutOfMemory"}

VARIABLES
    ctx,            \* xReceiveContext, one per feature
    requestId,      \* ulCurrentPropertyRequestID
    packetId,       \* the identifier AzureIoTMQTT_GetPacketId returns next
    pc,             \* "app", or inside "mqtt" (ProcessLoop), or in a "callback"
    waiting,        \* the feature prvWaitForSubAck waits for, or NoFeature
    left,           \* its ulTimeoutMilliseconds still to spend
    event,          \* what the running callback was handed
    result,         \* what the API call that ends in this step returned, or "None"
    acked,          \* history: the SUBACK of the running Subscribe was read
    link,           \* the connection: "closed", "up" or "broken" unnoticed
    persistent,     \* the session on the hub outlives the connection
    subscribed,     \* the features the hub has a subscription for
    owed,           \* the answers the hub owes
    wire            \* the packets under way to the client, in order

clientVars == <<ctx, requestId, packetId>>
callVars   == <<pc, waiting, left, event, acked>>
hubVars    == <<link, persistent, subscribed, owed, wire>>
vars       == <<clientVars, callVars, result, hubVars>>

\* No API call ends in this step.
Silent == result' = "None"
-------------------------------------------------------------------------------
(***************************************************************************)
(* coreMQTT and the IoT Hub.                                               *)
(***************************************************************************)
PacketIdAvailable == packetId <= PacketIdBound

TakePacketId == packetId' = IF packetId = MaxPacketId THEN 1 ELSE packetId + 1

\* A packet the client sends gets through only while the connection stands;
\* sending on a connection that broke unnoticed succeeds and is lost.
CanSend == link # "closed"

Owes(answers) ==
    owed' = IF link = "up" THEN owed \cup answers ELSE owed

HubHasRoom == Cardinality(owed) < MaxOwed

\* The hub sends one of the answers it owes, in any order.  It answers a
\* property request on the response topic only to a subscriber.
HubAnswers(answer) ==
    /\ answer \in owed
    /\ Len(wire) < MaxWire
    /\ owed' = owed \ {answer}
    /\ wire' = IF answer.type = "RESPONSE" /\ PROPERTIES \notin subscribed
                 THEN wire ELSE Append(wire, answer)
    /\ Silent
    /\ UNCHANGED <<clientVars, callVars, link, persistent, subscribed>>

\* A cloud-to-device message, a command or a writable property arrives.
HubPublishes(f) ==
    /\ link = "up" /\ f \in subscribed
    /\ Len(wire) < MaxWire
    /\ wire' = Append(wire, [type |-> "PUBLISH", feature |-> f])
    /\ Silent
    /\ UNCHANGED <<clientVars, callVars, link, persistent, subscribed, owed>>

\* The hub keeps the subscriptions of a persistent session only.
SessionAfterLoss == IF persistent THEN subscribed ELSE {}

\* The connection breaks.  What was already received can still be read.
LinkBreaks ==
    /\ link = "up"
    /\ link' = "broken"
    /\ owed' = {}
    /\ \E n \in 0 .. Len(wire) : wire' = SubSeq(wire, 1, n)
    /\ subscribed' = SessionAfterLoss
    /\ Silent
    /\ UNCHANGED <<clientVars, callVars, persistent>>
-------------------------------------------------------------------------------
(***************************************************************************)
(* The client is initialised and has not connected yet.                    *)
(***************************************************************************)
NoContexts == [f \in Feature |-> NoContext]

Init ==
    /\ ctx = NoContexts
    /\ requestId = 0
    /\ packetId = 1
    /\ pc = "app"
    /\ waiting = NoFeature
    /\ left = 0
    /\ event = NoEvent
    /\ result = "None"
    /\ acked = FALSE
    /\ link = "closed"
    /\ persistent \in BOOLEAN       \* left by an earlier connection
    /\ subscribed = {}
    /\ owed = {}
    /\ wire = << >>

Idle == pc = "app"
MayCall == pc \in {"app", "callback"}   \* the operations that do not block

\* AzureIoTHubClient_Init once more: the whole client is erased, with the
\* coreMQTT context inside it, and the old connection is given up.  (A client
\* whose Init failed cannot be used: the application has to call it again.)
AzureIoTHubClient_Init ==
    /\ Idle
    /\ ctx' = NoContexts
    /\ requestId' = 0
    /\ packetId' = 1
    /\ result' = "Success"
    /\ link' = "closed"
    /\ subscribed' = IF link = "up" THEN SessionAfterLoss ELSE subscribed
    /\ owed' = {} /\ wire' = << >>
    /\ UNCHANGED <<pc, waiting, left, event, acked, persistent>>

\* The application has opened a new connection and CONNECTs.  The receive
\* contexts are left as they are, whatever becomes of the session.
AzureIoTHubClient_Connect ==
    /\ Idle /\ link # "up"
    /\ \/ \E clean \in CleanSessions :
            /\ link' = "up"
            /\ persistent' = ~clean
            /\ subscribed' = IF clean THEN {} ELSE subscribed
            /\ result' = "Success"
       \/ /\ link' = "closed"
          /\ result' = "Failed"
          /\ UNCHANGED <<persistent, subscribed>>
    /\ owed' = {} /\ wire' = << >>
    /\ UNCHANGED <<clientVars, pc, waiting, left, event, acked>>

\* Neither does Disconnect touch the receive contexts.
AzureIoTHubClient_Disconnect ==
    /\ Idle /\ link # "closed"
    /\ \/ /\ link' = "closed"
          /\ subscribed' = IF link = "up" THEN SessionAfterLoss ELSE subscribed
          /\ owed' = {} /\ wire' = << >>
          /\ result' = "Success"
       \/ /\ result' = "Failed"
          /\ UNCHANGED <<link, subscribed, owed, wire>>
    /\ UNCHANGED <<clientVars, pc, waiting, left, event, acked, persistent>>
-------------------------------------------------------------------------------
(***************************************************************************)
(* Subscribing: the packet is sent, then the call blocks in                *)
(* prvWaitForSubAck, a loop of ProcessLoop calls of WaitInterval each.     *)
(***************************************************************************)

\* Mutant: the time spent is not subtracted.
SliceKept(time) == time

\* Mutant: the last, short interval is subtracted in full.
SliceUnderflows(time) == time - WaitInterval

\* What is left of the timeout when a ProcessLoop call has been started.
Slice(time) == IF time > WaitInterval THEN time - WaitInterval ELSE 0

Subscribe(f) ==
    /\ Idle /\ f \in Used /\ PacketIdAvailable
    /\ TakePacketId
    /\ \/ /\ result' = "SubscribeFailed"
          /\ UNCHANGED <<ctx, pc, waiting, left, event, acked, hubVars>>
       \/ /\ CanSend /\ HubHasRoom
          /\ ctx' = [ctx EXCEPT ![f] = [state |-> "SUB", pid |-> packetId]]
          /\ Owes({[type |-> "SUBACK", id |-> packetId]})
          /\ subscribed' = IF link = "up" THEN subscribed \cup {f} ELSE subscribed
          /\ pc' = "mqtt"
          /\ waiting' = f
          /\ \E time \in Timeouts : left' = Slice(time)
          /\ acked' = FALSE
          /\ Silent
          /\ UNCHANGED <<event, link, persistent, wire>>
    /\ UNCHANGED requestId

AzureIoTHubClient_SubscribeCloudToDeviceMessage == Subscribe(C2D)
AzureIoTHubClient_SubscribeCommand              == Subscribe(COMMANDS)
AzureIoTHubClient_SubscribeProperties           == Subscribe(PROPERTIES)

\* ProcessLoop has run for its time and the wait goes on with the next one.
WaitGoesOn ==
    /\ pc = "mqtt" /\ waiting # NoFeature
    /\ left # 0 /\ ctx[waiting].state # "SUBACK"
    /\ left' = Slice(left)
    /\ Silent
    /\ UNCHANGED <<clientVars, pc, waiting, event, acked, hubVars>>

\* Mutant: the state is not looked at again when the last interval is over.
SubscribedInTimeHasty(f) == ctx[f].state = "SUBACK" /\ left # 0

\* The test after the loop: a SUBACK read in the last interval still counts.
SubscribedInTime(f) == ctx[f].state = "SUBACK"

\* Mutant: a context whose Subscribe failed is kept.
ContextAfterFailureKept(f) == ctx[f]

\* memset of the context when Subscribe fails.
ContextAfterFailure(f) == NoContext

EndWait(failure) ==
    /\ pc = "mqtt" /\ waiting # NoFeature
    /\ IF SubscribedInTime(waiting)
         THEN /\ result' = "Success"
              /\ UNCHANGED ctx
         ELSE /\ result' = failure
              /\ ctx' = [ctx EXCEPT ![waiting] = ContextAfterFailure(waiting)]
    /\ pc' = "app" /\ waiting' = NoFeature /\ left' = 0 /\ acked' = FALSE
    /\ UNCHANGED <<requestId, packetId, event, hubVars>>

\* The last interval is over, or the SUBACK was seen at the end of one.
WaitEnds ==
    /\ pc = "mqtt" /\ waiting # NoFeature
    /\ left = 0 \/ ctx[waiting].state = "SUBACK"
    /\ EndWait("SubackWaitTimeout")

\* ProcessLoop failed, at any time of the wait.
WaitBreaks == EndWait("Failed")

\* The context is erased as soon as UNSUBSCRIBE is sent; the client does not
\* wait for UNSUBACK.
Unsubscribe(f) ==
    /\ MayCall /\ f \in Used /\ PacketIdAvailable
    /\ TakePacketId
    /\ \/ /\ result' = "UnsubscribeFailed"
          /\ UNCHANGED <<ctx, subscribed>>
       \/ /\ CanSend
          /\ ctx' = [ctx EXCEPT ![f] = NoContext]
          /\ subscribed' = IF link = "up" THEN subscribed \ {f} ELSE subscribed
          /\ result' = "Success"
    /\ UNCHANGED <<requestId, pc, waiting, left, event, acked,
                   link, persistent, owed, wire>>

AzureIoTHubClient_UnsubscribeCloudToDeviceMessage == Unsubscribe(C2D)
AzureIoTHubClient_UnsubscribeCommand              == Unsubscribe(COMMANDS)
AzureIoTHubClient_UnsubscribeProperties           == Unsubscribe(PROPERTIES)
-------------------------------------------------------------------------------
(***************************************************************************)
(* Sending.                                                                *)
(***************************************************************************)

\* The topic may not fit the working buffer; no packet identifier is taken then.
Telemetry(qos) ==
    /\ MayCall
    /\ \/ /\ result' = "OutOfMemory"
          /\ UNCHANGED <<packetId, owed>>
       \/ /\ IF qos = 1 THEN PacketIdAvailable /\ TakePacketId ELSE UNCHANGED packetId
          /\ \/ /\ result' = "PublishFailed"
                /\ UNCHANGED owed
             \/ /\ CanSend /\ HubHasRoom
                /\ Owes(IF qos = 1 THEN {[type |-> "PUBACK", id |-> packetId]} ELSE {})
                /\ result' = "Success"
    /\ UNCHANGED <<ctx, requestId, pc, waiting, left, event, acked,
                   link, persistent, subscribed, wire>>

AzureIoTHubClient_SendTelemetry == \E qos \in Qualities : Telemetry(qos)

\* The answer to a command goes out with QoS 0 on a topic with the command's
\* request id, from the callback or later, and whether or not commands are
\* still subscribed.
AzureIoTHubClient_SendCommandResponse ==
    /\ MayCall
    /\ \/ result' \in {"OutOfMemory", "PublishFailed"}
       \/ CanSend /\ result' = "Success"
    /\ UNCHANGED <<clientVars, callVars, hubVars>>

PropertiesUsable == ctx[PROPERTIES].state = "SUBACK"

\* The identifier is spent whether or not the topic fits the working buffer and
\* the request can be published.
PropertyRequest(kind) ==
    /\ MayCall
    /\ IF ~PropertiesUsable
         THEN /\ result' = "TopicNotSubscribed"
              /\ UNCHANGED <<requestId, owed>>
         ELSE /\ requestId' = NextRequestId(requestId, kind = "Reported")
              /\ \/ /\ result' \in {"OutOfMemory", "PublishFailed"}
                    /\ UNCHANGED owed
                 \/ /\ CanSend /\ HubHasRoom
                    /\ Owes({[type |-> "RESPONSE", id |-> requestId', kind |-> kind]})
                    /\ result' = "Success"
    /\ UNCHANGED <<ctx, packetId, pc, waiting, left, event, acked,
                   link, persistent, subscribed, wire>>

AzureIoTHubClient_SendPropertiesReported  == PropertyRequest("Reported")
AzureIoTHubClient_RequestPropertiesAsync  == PropertyRequest("Requested")
-------------------------------------------------------------------------------
(***************************************************************************)
(* Receiving: AzureIoTMQTT_ProcessLoop reads packets in order and hands    *)
(* each to prvEventCallback.                                               *)
(***************************************************************************)
AzureIoTHubClient_ProcessLoop ==
    /\ Idle
    /\ pc' = "mqtt"
    /\ Silent
    /\ UNCHANGED <<clientVars, waiting, left, event, acked, hubVars>>

ProcessLoopReturns ==
    /\ pc = "mqtt" /\ waiting = NoFeature
    /\ pc' = "app"
    /\ result' \in {"Success", "Failed"}
    /\ UNCHANGED <<clientVars, waiting, left, event, acked, hubVars>>

Arrives(type) ==
    /\ pc = "mqtt"
    /\ wire # << >> /\ Head(wire).type = type
    /\ wire' = Tail(wire)

\* Mutant: every context is marked, not the first that has the identifier.
MatchesAny(f, id) == ctx[f].state # "NONE"

\* Mutant: the search ends one context too early.
MatchesButLast(f, id) == f # PROPERTIES /\ ctx[f].pid = id

\* The first context, in index order, that was subscribed with this identifier.
Matches(f, id) ==
    /\ ctx[f].pid = id
    /\ \A g \in Feature : g < f => ctx[g].pid # id

\* The SUBACK's return code is not read: the hub would have disconnected.
ReceiveSuback ==
    /\ Arrives("SUBACK")
    /\ LET id == Head(wire).id IN
         /\ ctx' = [f \in Feature |->
                      IF Matches(f, id) THEN [ctx[f] EXCEPT !.state = "SUBACK"]
                                        ELSE ctx[f]]
         /\ acked' = (acked \/ /\ waiting # NoFeature
                               /\ ctx[waiting].pid = id)
    /\ Silent
    /\ UNCHANGED <<requestId, packetId, pc, waiting, left, event,
                   link, persistent, subscribed, owed>>

CallBack(feature, id, type, asked) ==
    /\ pc' = "callback"
    /\ event' = [feature |-> feature, id |-> id, type |-> type, asked |-> asked]

\* Telemetry sent with QoS 1 was received.
ReceivePuback ==
    /\ Arrives("PUBACK")
    /\ CallBack(NoFeature, 0, "Telemetry", "None")
    /\ Silent
    /\ UNCHANGED <<clientVars, waiting, left, acked,
                   link, persistent, subscribed, owed>>

\* Mutant: a message is handed over whether or not its context is in use.
ListensAlways(f) == TRUE

\* Mutant: a message that comes while its feature is subscribed again is lost.
ListensWhenAcked(f) == ctx[f].state = "SUBACK"

\* The process function of a context is there from SUBSCRIBE to UNSUBSCRIBE.
Listens(f) == ctx[f].state # "NONE"

\* Topics are disjoint, so at most one process function accepts the message;
\* a message without a receive context is dropped.
ReceivePublish ==
    /\ Arrives("PUBLISH")
    /\ LET f == Head(wire).feature IN
         IF Listens(f) THEN CallBack(f, 0, "Message", "None")
                       ELSE UNCHANGED <<pc, event>>
    /\ Silent
    /\ UNCHANGED <<clientVars, waiting, left, acked,
                   link, persistent, subscribed, owed>>

\* The kind of an answer is read off its request identifier.
ResponseType(id) == IF IsOdd(id) THEN "Reported" ELSE "Requested"

ReceiveResponse ==
    /\ Arrives("RESPONSE")
    /\ LET answer == Head(wire) IN
         IF Listens(PROPERTIES)
         THEN CallBack(PROPERTIES, answer.id, ResponseType(answer.id), answer.kind)
         ELSE UNCHANGED <<pc, event>>
    /\ Silent
    /\ UNCHANGED <<clientVars, waiting, left, acked,
                   link, persistent, subscribed, owed>>

CallbackReturns ==
    /\ pc = "callback"
    /\ pc' = "mqtt"
    /\ event' = NoEvent
    /\ Silent
    /\ UNCHANGED <<clientVars, waiting, left, acked, hubVars>>
-------------------------------------------------------------------------------
Calls ==
    \/ AzureIoTHubClient_Init
    \/ AzureIoTHubClient_Connect
    \/ AzureIoTHubClient_Disconnect
    \/ AzureIoTHubClient_SubscribeCloudToDeviceMessage
    \/ AzureIoTHubClient_SubscribeCommand
    \/ AzureIoTHubClient_SubscribeProperties
    \/ AzureIoTHubClient_UnsubscribeCloudToDeviceMessage
    \/ AzureIoTHubClient_UnsubscribeCommand
    \/ AzureIoTHubClient_UnsubscribeProperties
    \/ AzureIoTHubClient_SendTelemetry
    \/ AzureIoTHubClient_SendCommandResponse
    \/ AzureIoTHubClient_SendPropertiesReported
    \/ AzureIoTHubClient_RequestPropertiesAsync
    \/ AzureIoTHubClient_ProcessLoop

Receive ==
    \/ ReceiveSuback \/ ReceivePuback \/ ReceivePublish \/ ReceiveResponse

LoopIsOver == ProcessLoopReturns \/ WaitGoesOn \/ WaitEnds

Hub ==
    \/ \E answer \in owed : HubAnswers(answer)
    \/ \E f \in Feature : HubPublishes(f)
    \/ LinkBreaks

Next == Calls \/ Receive \/ CallbackReturns \/ LoopIsOver \/ WaitBreaks \/ Hub

Spec == Init /\ [][Next]_vars

(***************************************************************************)
(* Fairness.  A callback returns.  ProcessLoop returns when its time is    *)
(* over; callbacks run inside it, so its return is only enabled again and  *)
(* again and the fairness is strong.  That it fails is never relied on.     *)
(***************************************************************************)
FairSpec == Spec /\ WF_vars(CallbackReturns) /\ SF_vars(LoopIsOver)

Answer(kind) ==
    [type : {"RESPONSE"}, kind : {kind},
     id : {n \in RequestId : IsOdd(n) = (kind = "Reported")}]

(***************************************************************************)
(* For answers to arrive, moreover: the application calls ProcessLoop      *)
(* again and again, as the client requires ("Receive any incoming MQTT     *)
(* messages"), ProcessLoop reads what has arrived, and the hub answers     *)
(* every request it gets.                                                  *)
(***************************************************************************)
ServedSpec ==
    /\ FairSpec
    /\ SF_vars(AzureIoTHubClient_ProcessLoop) /\ SF_vars(Receive)
    /\ \A answer \in Answer("Reported") \cup Answer("Requested") :
         SF_vars(HubAnswers(answer))
-------------------------------------------------------------------------------
TypeOK ==
    /\ ctx \in [Feature -> Context]
    /\ requestId \in RequestCounter
    /\ packetId \in PacketId
    /\ pc \in {"app", "mqtt", "callback"}
    /\ waiting \in Feature \cup {NoFeature}
    /\ left \in Nat
    /\ event \in Event
    /\ result \in Result
    /\ acked \in BOOLEAN
    /\ link \in {"closed", "up", "broken"}
    /\ persistent \in BOOLEAN
    /\ subscribed \in SUBSET Feature
    /\ owed \in SUBSET (Suback \cup Puback \cup Response)
    /\ wire \in Seq(Packet)

(***************************************************************************)
(* A context waits for its SUBACK only while the Subscribe call that made  *)
(* it runs: every way out of the call, with callbacks that may have        *)
(* unsubscribed in between, ends with the context subscribed or erased.    *)
(***************************************************************************)
NoAbandonedSubscribe ==
    \A f \in Feature : ctx[f].state = "SUB" => waiting = f /\ pc # "app"

(***************************************************************************)
(* A Subscribe whose SUBACK was read during the wait does not fail, in     *)
(* whichever interval the SUBACK came, unless a callback unsubscribed.     *)
(***************************************************************************)
AckedSubscribeSucceeds ==
    [][ /\ acked /\ waiting # NoFeature /\ waiting' = NoFeature
        /\ ctx[waiting].state # "NONE"
        => result' = "Success" ]_vars

(***************************************************************************)
(* eAzureIoTErrorSubackWaitTimeout says what it means, "There was timeout  *)
(* while waiting for SUBACK.": the SUBACK was not read during the wait,    *)
(* or a callback unsubscribed the feature.                                 *)
(***************************************************************************)
TimeoutMeansNoSuback ==
    [][ result' = "SubackWaitTimeout" => ~acked \/ ctx[waiting].state = "NONE" ]_vars

(***************************************************************************)
(* A context the client holds for subscribed is subscribed at the hub, but *)
(* for the end of a session.  The contexts outlive the connection; nothing *)
(* but a session that the hub does not keep, or a clean session that the   *)
(* next connection starts, parts the two, and no Subscribe brings them out *)
(* of step again: lost connections, persistent sessions, late SUBACKs and  *)
(* Subscribes lost on a broken connection do not.  This is so as long as   *)
(* no packet identifier is handed out twice (NoReuse).  A SUBACK for a     *)
(* Subscribe that timed out would else mark the context of one that never  *)
(* reached the hub, and was given the same identifier.                     *)
(***************************************************************************)
SubscribedInSession ==
    [][ \A f \in Feature :
          ctx'[f].state = "SUBACK" /\ f \notin subscribed' =>
            \/ ctx[f].state = "SUBACK" /\ f \notin subscribed
            \/ ~persistent' /\ (link # "up" \/ link' # "up") ]_vars

(***************************************************************************)
(* The type of the message the properties callback is handed is the kind   *)
(* of the request that was answered, for answers in any order, after       *)
(* requests that could not be published and after the counter wrapped.     *)
(***************************************************************************)
AnswerHasTypeOfRequest ==
    event.asked # "None" => event.type = event.asked

(***************************************************************************)
(* Every request of the property document that was published while the     *)
(* connection was up is answered in a call of the properties callback      *)
(* ("The response to the request will be returned via the                  *)
(* AzureIoTHubClientPropertiesCallback_t"), unless the connection is lost  *)
(* or the application gives the subscription up.                           *)
(***************************************************************************)
RequestedPropertiesArrive ==
    \A answer \in Answer("Requested") :
        answer \in owed ~> \/ event.id = answer.id /\ event.type = "Requested"
                           \/ link # "up"
                           \/ ctx[PROPERTIES].state = "NONE"

\* Every Subscribe call returns, even while messages keep arriving.
SubscribeReturns == waiting # NoFeature ~> pc = "app"
===============================================================================
