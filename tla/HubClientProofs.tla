---------------------------- MODULE HubClientProofs ----------------------------
(***************************************************************************)
(* Theorems about the hub client, for all values of its constants: the     *)
(* invariants, and that it implements the subscription contract.           *)
(***************************************************************************)
EXTENDS HubClientContract, HubClientInvariants, RequestIdTheorems

USE DEF Feature, C2D, COMMANDS, PROPERTIES, NoFeature, NoContext

(***************************************************************************)
(* Type correctness.                                                       *)
(***************************************************************************)
LEMMA ConstantTypes ==
    /\ WaitInterval \in Nat /\ Timeouts \subseteq Nat
    /\ MaxPacketId \in Nat /\ MaxPacketId >= 1
    /\ CleanSessions \subseteq BOOLEAN
    /\ Used \subseteq Feature
  BY PacketIdAssumption, TimeoutAssumption, SessionAssumption, UseAssumption

\* What is left of a timeout is never negative.
LEMMA SliceType == ASSUME NEW time \in Nat PROVE Slice(time) \in Nat
  BY ConstantTypes DEF Slice

\* The next packet identifier is one, after the wrap too.
LEMMA PacketIdType ==
    ASSUME TypeOK, TakePacketId
    PROVE  packetId \in PacketId /\ packetId' \in PacketId
  BY ConstantTypes DEF TypeOK, TakePacketId, PacketId

\* The values of an erased client have the types of their variables.
LEMMA NothingTypes ==
    /\ NoContexts \in [Feature -> Context]
    /\ NoContext \in Context
    /\ NoEvent \in Event
    /\ 0 \in RequestCounter
    /\ 1 \in PacketId
<1>1. 0 \in 0 .. MaxPacketId /\ 1 \in PacketId /\ 0 \in RequestCounter
  BY ConstantTypes, IdModulusAssumption DEF RequestCounter, PacketId
<1> QED
  BY <1>1 DEF NoContexts, Context, NoEvent, Event

\* A client that was just initialised is well typed.
LEMMA InitTypeOK == Init => TypeOK
  BY NothingTypes DEF Init, TypeOK, Result

\* No call, packet, callback or failure breaks the types.
LEMMA StepTypeOK == TypeOK /\ [Next]_vars => TypeOK'
<1> SUFFICES ASSUME TypeOK, [Next]_vars PROVE TypeOK'
  OBVIOUS
<1> USE DEF clientVars, callVars, hubVars, Silent, Result
<1>1. CASE UNCHANGED vars
  BY <1>1 DEF TypeOK, vars
<1>2. CASE AzureIoTHubClient_Init
  BY <1>2, NothingTypes DEF AzureIoTHubClient_Init, TypeOK, SessionAfterLoss
<1>3. CASE AzureIoTHubClient_Connect
  <2>1. result' \in Result
    BY <1>3 DEF AzureIoTHubClient_Connect
  <2>2. /\ link' \in {"closed", "up"}
        /\ persistent' \in BOOLEAN
        /\ subscribed' \in SUBSET Feature
    BY <1>3, ConstantTypes DEF AzureIoTHubClient_Connect, TypeOK
  <2>3. /\ UNCHANGED <<clientVars, callVars>>
        /\ owed' = {} /\ wire' = << >>
    BY <1>3 DEF AzureIoTHubClient_Connect
  <2> QED
    BY <2>1, <2>2, <2>3 DEF TypeOK
<1>4. CASE AzureIoTHubClient_Disconnect
  <2>1. SessionAfterLoss \in SUBSET Feature
    BY DEF TypeOK, SessionAfterLoss
  <2>2. CASE UNCHANGED <<link, subscribed, owed, wire>>
    BY <1>4, <2>2 DEF AzureIoTHubClient_Disconnect, TypeOK
  <2>3. CASE link' = "closed" /\ owed' = {} /\ wire' = << >>
    <3>1. subscribed' \in SUBSET Feature
      BY <1>4, <2>1 DEF AzureIoTHubClient_Disconnect, TypeOK
    <3>2. result' \in Result
      BY <1>4 DEF AzureIoTHubClient_Disconnect
    <3> QED
      BY <1>4, <2>3, <3>1, <3>2 DEF AzureIoTHubClient_Disconnect, TypeOK
  <2> QED
    BY <1>4, <2>2, <2>3 DEF AzureIoTHubClient_Disconnect
<1>5. ASSUME NEW f \in Feature, Subscribe(f) PROVE TypeOK'
  <2>1. packetId \in PacketId /\ packetId' \in PacketId
    BY <1>5, PacketIdType DEF Subscribe
  <2>2. left' \in Nat
    BY <1>5, ConstantTypes, SliceType DEF Subscribe, TypeOK
  <2>3. ctx' \in [Feature -> Context]
    BY <1>5, <2>1 DEF Subscribe, TypeOK, Context, PacketId
  <2>4. owed' \in SUBSET (Suback \cup Puback \cup Response)
    BY <1>5, <2>1 DEF Subscribe, TypeOK, Owes, Suback
  <2> QED
    BY <1>5, <2>1, <2>2, <2>3, <2>4 DEF Subscribe, TypeOK
<1>6. ASSUME NEW f \in Feature, Unsubscribe(f) PROVE TypeOK'
  <2>1. packetId' \in PacketId
    BY <1>6, PacketIdType DEF Unsubscribe
  <2>2. ctx' \in [Feature -> Context]
    BY <1>6, NothingTypes DEF Unsubscribe, TypeOK
  <2>3. subscribed' \in SUBSET Feature
    BY <1>6 DEF Unsubscribe, TypeOK
  <2> QED
    BY <1>6, <2>1, <2>2, <2>3 DEF Unsubscribe, TypeOK
<1>7. CASE WaitGoesOn
  BY <1>7, SliceType DEF WaitGoesOn, TypeOK
<1>8. ASSUME NEW failure \in {"SubackWaitTimeout", "Failed"}, EndWait(failure)
      PROVE  TypeOK'
  <2>1. ctx' \in [Feature -> Context]
    BY <1>8, NothingTypes DEF EndWait, ContextAfterFailure, TypeOK
  <2>2. result' \in Result
    BY <1>8 DEF EndWait
  <2> QED
    BY <1>8, <2>1, <2>2 DEF EndWait, TypeOK
<1>9. ASSUME NEW qos \in Qualities, Telemetry(qos) PROVE TypeOK'
  <2>1. packetId \in PacketId /\ packetId' \in PacketId
    BY <1>9, PacketIdType DEF Telemetry, TypeOK
  <2> QED
    BY <1>9, <2>1 DEF Telemetry, TypeOK, Owes, Puback
<1>9a. CASE AzureIoTHubClient_SendCommandResponse
  BY <1>9a DEF AzureIoTHubClient_SendCommandResponse, TypeOK
<1>10. ASSUME NEW kind \in RequestKind, PropertyRequest(kind) PROVE TypeOK'
  <2>1. CASE PropertiesUsable
    <3>1. requestId' \in RequestId
      BY <1>10, <2>1, NextRequestIdAdvances DEF PropertyRequest, TypeOK
    <3>2. requestId' \in RequestCounter
      BY <3>1, IdModulusAssumption DEF RequestId, RequestCounter
    <3>3. owed' \in SUBSET (Suback \cup Puback \cup Response)
      BY <1>10, <2>1, <3>1 DEF PropertyRequest, TypeOK, Owes, Response
    <3> QED
      BY <1>10, <2>1, <3>2, <3>3 DEF PropertyRequest, TypeOK
  <2>2. CASE ~PropertiesUsable
    BY <1>10, <2>2 DEF PropertyRequest, TypeOK
  <2> QED
    BY <2>1, <2>2
<1>11. CASE AzureIoTHubClient_ProcessLoop
  BY <1>11 DEF AzureIoTHubClient_ProcessLoop, TypeOK
<1>12. CASE ProcessLoopReturns
  BY <1>12 DEF ProcessLoopReturns, TypeOK
<1>13. ASSUME NEW type, Arrives(type)
       PROVE  Head(wire) \in Packet /\ Head(wire).type = type /\ wire' \in Seq(Packet)
  BY <1>13 DEF Arrives, TypeOK
<1>14. CASE ReceiveSuback
  BY <1>13, <1>14 DEF ReceiveSuback, TypeOK, Context
<1>15. CASE ReceivePuback
  BY <1>13, <1>15, NothingTypes DEF ReceivePuback, CallBack, TypeOK, Event
<1>16. CASE ReceivePublish
  <2>1. Head(wire).feature \in Feature
    BY <1>13, <1>16 DEF ReceivePublish, Packet, Suback, Puback, Response, Publish
  <2> QED
    BY <1>13, <1>16, <2>1, NothingTypes DEF ReceivePublish, CallBack, TypeOK, Event
<1>17. CASE ReceiveResponse
  <2>1. Head(wire) \in Response
    BY <1>13, <1>17 DEF ReceiveResponse, Packet, Suback, Puback, Response, Publish
  <2>2. Head(wire).id \in RequestCounter /\ Head(wire).kind \in RequestKind
    BY <2>1, IdModulusAssumption DEF Response, RequestId, RequestCounter
  <2>3. event' \in Event /\ pc' \in {"app", "mqtt", "callback"}
    BY <1>17, <2>2 DEF ReceiveResponse, CallBack, ResponseType, TypeOK, Event, RequestKind
  <2> QED
    BY <1>13, <1>17, <2>3 DEF ReceiveResponse, TypeOK
<1>18. CASE CallbackReturns
  BY <1>18, NothingTypes DEF CallbackReturns, TypeOK
<1>19. ASSUME NEW answer \in owed, HubAnswers(answer) PROVE TypeOK'
  BY <1>19 DEF HubAnswers, TypeOK, Packet
<1>20. ASSUME NEW f \in Feature, HubPublishes(f) PROVE TypeOK'
  BY <1>20 DEF HubPublishes, TypeOK, Packet, Publish
<1>21. CASE LinkBreaks
  BY <1>21 DEF LinkBreaks, TypeOK, SessionAfterLoss
<1> QED
  BY <1>1, <1>2, <1>3, <1>4, <1>5, <1>6, <1>7, <1>8, <1>9, <1>10, <1>11, <1>12, <1>14,
     <1>15, <1>16, <1>17, <1>18, <1>19, <1>20, <1>21, <1>9a
     DEF Next, Calls, Receive, LoopIsOver, Hub, RequestKind, WaitEnds, WaitBreaks,
         AzureIoTHubClient_SubscribeCloudToDeviceMessage,
         AzureIoTHubClient_SubscribeCommand, AzureIoTHubClient_SubscribeProperties,
         AzureIoTHubClient_UnsubscribeCloudToDeviceMessage,
         AzureIoTHubClient_UnsubscribeCommand, AzureIoTHubClient_UnsubscribeProperties,
         AzureIoTHubClient_SendTelemetry, AzureIoTHubClient_SendPropertiesReported,
         AzureIoTHubClient_RequestPropertiesAsync

\* Every variable has its type in every reachable state: identifiers are never
\* zero where one is needed, a timeout never underflows, the hub owes and sends
\* only packets the client knows.
THEOREM TypeCorrect == Spec => []TypeOK
  BY InitTypeOK, StepTypeOK, PTL DEF Spec
-------------------------------------------------------------------------------
(***************************************************************************)
(* How what is under way changes in a step.                                *)
(***************************************************************************)
LEMMA ReadingShrinks ==
    ASSUME TypeOK, wire # << >>, wire' = Tail(wire), owed' = owed
    PROVE  Head(wire) \in UnderWay /\ UnderWay' \subseteq UnderWay
  BY DEF TypeOK, UnderWay, Range

\* Sending adds what is sent to what is under way, at most.
LEMMA SendingGrows ==
    ASSUME NEW sent, owed' \subseteq owed \cup sent, wire' = wire
    PROVE  UnderWay' \subseteq UnderWay \cup sent
  BY DEF UnderWay, Range

\* What is under way after a step was so before, or is a message or a PUBACK,
\* or the answer to a request that was given an identifier of its kind, or the
\* SUBACK of the subscription made in this step.
LEMMA NewUnderWay ==
    ASSUME TypeOK, [Next]_vars, NEW m \in UnderWay', m \notin UnderWay
    PROVE  \/ m.type \in {"PUBLISH", "PUBACK"}
           \/ m.type = "RESPONSE" /\ IsOdd(m.id) = (m.kind = "Reported")
           \/ /\ m.type = "SUBACK" /\ m.id = packetId
              /\ \E f \in Feature : Subscribe(f) /\ f \in subscribed' /\ ctx'[f].pid = packetId
<1> USE DEF clientVars, callVars, hubVars
<1>1. ASSUME UNCHANGED <<owed, wire>> PROVE FALSE
  BY <1>1 DEF UnderWay, Range
<1>2. ASSUME owed' = {}, wire' = << >> PROVE FALSE
  BY <1>2 DEF UnderWay, Range
<1>3. ASSUME NEW f \in Feature, Subscribe(f)
      PROVE  /\ m.type = "SUBACK" /\ m.id = packetId
             /\ f \in subscribed' /\ ctx'[f].pid = packetId
  <2>1. CASE UNCHANGED <<owed, wire>>
    BY <1>1, <2>1
  <2>2. CASE ctx' = [ctx EXCEPT ![f] = [state |-> "SUB", pid |-> packetId]]
             /\ Owes({[type |-> "SUBACK", id |-> packetId]})
             /\ subscribed' = (IF link = "up" THEN subscribed \cup {f} ELSE subscribed)
             /\ wire' = wire
    <3>1. link = "up" /\ m \in {[type |-> "SUBACK", id |-> packetId]}
      BY <1>1, <2>2, SendingGrows DEF Owes
    <3> QED
      BY <2>2, <3>1 DEF TypeOK
  <2> QED
    BY <1>3, <2>1, <2>2 DEF Subscribe
<1>4. ASSUME NEW qos, Telemetry(qos) PROVE m.type = "PUBACK"
  <2> DEFINE sent == {[type |-> "PUBACK", id |-> packetId]}
  <2>1. owed' \subseteq owed \cup sent /\ wire' = wire
    BY <1>4 DEF Telemetry, Owes
  <2>2. m \in sent
    BY <2>1, SendingGrows
  <2> QED
    BY <2>2
<1>5. ASSUME NEW kind \in RequestKind, PropertyRequest(kind)
      PROVE  m.type = "RESPONSE" /\ IsOdd(m.id) = (m.kind = "Reported")
  <2>1. CASE owed' = owed
    BY <1>1, <1>5, <2>1 DEF PropertyRequest
  <2>2. CASE Owes({[type |-> "RESPONSE", id |-> requestId', kind |-> kind]})
             /\ requestId' = NextRequestId(requestId, kind = "Reported")
    <3> DEFINE sent == {[type |-> "RESPONSE", id |-> requestId', kind |-> kind]}
    <3>1. owed' \subseteq owed \cup sent /\ wire' = wire
      BY <1>5, <2>2 DEF PropertyRequest, Owes
    <3>2. m \in sent
      BY <3>1, SendingGrows
    <3>3. IsOdd(requestId') = (kind = "Reported")
      BY <2>2, NextRequestIdParity DEF TypeOK
    <3> QED
      BY <3>2, <3>3
  <2> QED
    BY <1>5, <2>1, <2>2 DEF PropertyRequest
<1>6. ASSUME NEW type, Arrives(type), owed' = owed PROVE FALSE
  BY <1>6, ReadingShrinks DEF Arrives
<1>7. ASSUME NEW answer \in owed, HubAnswers(answer) PROVE FALSE
  <2>1. owed' \subseteq owed /\ wire' \in {wire, Append(wire, answer)}
    BY <1>7 DEF HubAnswers
  <2>2. Range(wire') \subseteq Range(wire) \cup {answer}
    <3>1. CASE wire' = wire
      BY <3>1
    <3>2. CASE wire' = Append(wire, answer)
      BY <3>2 DEF Range, TypeOK
    <3> QED
      BY <2>1, <3>1, <3>2
  <2> QED
    BY <2>1, <2>2 DEF UnderWay
<1>8. ASSUME NEW f \in Feature, HubPublishes(f) PROVE m.type = "PUBLISH"
  BY <1>8 DEF HubPublishes, UnderWay, Range, TypeOK
<1>9. ASSUME LinkBreaks PROVE FALSE
  BY <1>9 DEF LinkBreaks, UnderWay, Range, TypeOK
<1> QED
  BY <1>1, <1>2, <1>3, <1>4, <1>5, <1>6, <1>7, <1>8, <1>9
     DEF Next, Calls, Receive, LoopIsOver, Hub, RequestKind, WaitEnds, WaitBreaks, vars,
         EndWait, AzureIoTHubClient_Init, AzureIoTHubClient_Connect,
         AzureIoTHubClient_Disconnect, Unsubscribe,
         AzureIoTHubClient_SubscribeCloudToDeviceMessage,
         AzureIoTHubClient_SubscribeCommand, AzureIoTHubClient_SubscribeProperties,
         AzureIoTHubClient_UnsubscribeCloudToDeviceMessage,
         AzureIoTHubClient_UnsubscribeCommand, AzureIoTHubClient_UnsubscribeProperties,
         AzureIoTHubClient_SendTelemetry, AzureIoTHubClient_SendCommandResponse,
         AzureIoTHubClient_SendPropertiesReported,
         AzureIoTHubClient_RequestPropertiesAsync, AzureIoTHubClient_ProcessLoop,
         ProcessLoopReturns, WaitGoesOn, ReceiveSuback, ReceivePuback, ReceivePublish,
         ReceiveResponse, CallbackReturns
-------------------------------------------------------------------------------
(***************************************************************************)
(* The steps by what they change, for the proofs that follow.              *)
(***************************************************************************)
LEMMA StepCases ==
    ASSUME [Next]_vars
    PROVE  \/ /\ UNCHANGED <<pc, waiting, acked, left, event>>
              /\ \/ UNCHANGED <<ctx, packetId>>
                 \/ AzureIoTHubClient_Init
                 \/ \E f \in Feature : Unsubscribe(f)
                 \/ \E qos \in Qualities : Telemetry(qos)
           \/ \E f \in Feature : Subscribe(f)
           \/ WaitGoesOn
           \/ \E failure : EndWait(failure)
           \/ AzureIoTHubClient_ProcessLoop \/ ProcessLoopReturns \/ CallbackReturns
           \/ Receive
  BY DEF clientVars, callVars, hubVars, Next, Calls, LoopIsOver, Hub, WaitEnds,
         WaitBreaks, vars, AzureIoTHubClient_Init, AzureIoTHubClient_Connect,
         AzureIoTHubClient_Disconnect, Unsubscribe, Telemetry, PropertyRequest,
         HubAnswers, HubPublishes, LinkBreaks,
         AzureIoTHubClient_SubscribeCloudToDeviceMessage,
         AzureIoTHubClient_SubscribeCommand, AzureIoTHubClient_SubscribeProperties,
         AzureIoTHubClient_UnsubscribeCloudToDeviceMessage,
         AzureIoTHubClient_UnsubscribeCommand, AzureIoTHubClient_UnsubscribeProperties,
         AzureIoTHubClient_SendTelemetry, AzureIoTHubClient_SendCommandResponse,
         AzureIoTHubClient_SendPropertiesReported,
         AzureIoTHubClient_RequestPropertiesAsync

(***************************************************************************)
(* The invariant that needs no assumption.                                 *)
(***************************************************************************)
\* An initial state satisfies the invariant.
LEMMA InitInv == Init => Inv
  BY InitTypeOK
     DEF Inv, Init, NoContexts, CallShape, NoAbandonedSubscribe, AnswersMarked, UnderWay,
         Range, AnswerHasTypeOfRequest, NoEvent

\* No wait, and no SUBACK read during one, outlives the call it belongs to.
LEMMA StepCallShape == Inv /\ [Next]_vars => CallShape'
<1> SUFFICES ASSUME Inv, [Next]_vars PROVE CallShape'
  OBVIOUS
<1> USE DEF clientVars, callVars, hubVars, Inv, CallShape, Idle
<1>1. CASE UNCHANGED <<pc, waiting, acked>>
  BY <1>1
<1>2. ASSUME NEW f \in Feature, Subscribe(f) PROVE CallShape'
  BY <1>2 DEF Subscribe
<1>3. ASSUME NEW failure, EndWait(failure) PROVE CallShape'
  BY <1>3 DEF EndWait
<1>4. CASE AzureIoTHubClient_ProcessLoop \/ ProcessLoopReturns \/ CallbackReturns
  BY <1>4 DEF AzureIoTHubClient_ProcessLoop, ProcessLoopReturns, CallbackReturns
<1>5. CASE ReceiveSuback
  <2>1. pc' # "app" /\ waiting' = waiting /\ (acked' => acked \/ waiting # NoFeature)
    BY <1>5 DEF ReceiveSuback, Arrives
  <2> QED
    BY <2>1
<1>6. CASE ReceivePuback \/ ReceivePublish \/ ReceiveResponse
  BY <1>6 DEF ReceivePuback, ReceivePublish, ReceiveResponse, Arrives, CallBack
<1> QED
  BY <1>1, <1>2, <1>3, <1>4, <1>5, <1>6, StepCases DEF WaitGoesOn, Receive

(***************************************************************************)
(* A context in state SUB belongs to the call that runs: the call erases   *)
(* it when it fails, and no other step makes one.                          *)
(***************************************************************************)
LEMMA StepNoAbandonedSubscribe == Inv /\ [Next]_vars => NoAbandonedSubscribe'
<1> SUFFICES ASSUME Inv, [Next]_vars, NEW f \in Feature, ctx'[f].state = "SUB"
             PROVE  waiting' = f /\ pc' # "app"
  BY DEF NoAbandonedSubscribe
<1> USE DEF clientVars, callVars, hubVars, Inv, NoAbandonedSubscribe, CallShape, Idle
<1>0. ctx \in [Feature -> Context] /\ ctx' \in [Feature -> Context]
  BY StepTypeOK DEF TypeOK
<1>1. CASE UNCHANGED <<ctx, pc, waiting>>
  BY <1>1
<1>2. ASSUME NEW g \in Feature, Subscribe(g) PROVE waiting' = f /\ pc' # "app"
  <2>1. \A h \in Feature : ctx[h].state # "SUB"
    BY <1>2 DEF Subscribe
  <2> QED
    BY <1>0, <1>2, <2>1 DEF Subscribe
<1>3. ASSUME NEW failure, EndWait(failure) PROVE FALSE
  BY <1>0, <1>3 DEF EndWait, SubscribedInTime, ContextAfterFailure
<1>4. CASE AzureIoTHubClient_ProcessLoop \/ ProcessLoopReturns \/ CallbackReturns
  BY <1>4 DEF AzureIoTHubClient_ProcessLoop, ProcessLoopReturns, CallbackReturns
<1>5. CASE ReceiveSuback
  BY <1>0, <1>5 DEF ReceiveSuback, Arrives
<1>6. CASE ReceivePuback \/ ReceivePublish \/ ReceiveResponse
  BY <1>6 DEF ReceivePuback, ReceivePublish, ReceiveResponse, Arrives, CallBack
<1>7. CASE AzureIoTHubClient_Init
  BY <1>7 DEF AzureIoTHubClient_Init, NoContexts
<1>8. ASSUME NEW g \in Feature, Unsubscribe(g) PROVE waiting' = f /\ pc' # "app"
  BY <1>0, <1>8 DEF Unsubscribe
<1> QED
  BY <1>1, <1>2, <1>3, <1>4, <1>5, <1>6, <1>7, <1>8, StepCases
     DEF WaitGoesOn, Telemetry, Receive

(***************************************************************************)
(* Answers carry their kind: by NewUnderWay those on the way do, and only  *)
(* ReceiveResponse hands one over.                                         *)
(***************************************************************************)
LEMMA StepAnswersMarked == Inv /\ [Next]_vars => AnswersMarked'
<1> SUFFICES ASSUME Inv, [Next]_vars PROVE AnswersMarked'
  OBVIOUS
<1> USE DEF clientVars, callVars, hubVars, Inv, AnswerHasTypeOfRequest
<1>1. \A m \in UnderWay' : m.type = "RESPONSE" => IsOdd(m.id) = (m.kind = "Reported")
  BY NewUnderWay DEF AnswersMarked
<1>2. CASE event' \in {event, NoEvent}
  BY <1>1, <1>2 DEF AnswersMarked, NoEvent
<1>3. CASE ReceivePuback \/ ReceivePublish
  BY <1>1, <1>3 DEF AnswersMarked, ReceivePuback, ReceivePublish, CallBack
<1>4. CASE ReceiveResponse
  <2>1. Head(wire) \in UnderWay /\ Head(wire).type = "RESPONSE"
    BY <1>4, ReadingShrinks DEF ReceiveResponse, Arrives
  <2>2. Head(wire).kind \in RequestKind
    BY <2>1 DEF UnderWay, Range, TypeOK, Packet, Suback, Puback, Response, Publish
  <2>3. ResponseType(Head(wire).id) = Head(wire).kind
    BY <2>1, <2>2 DEF AnswersMarked, ResponseType, RequestKind
  <2>4. AnswerHasTypeOfRequest'
    BY <1>4, <2>3 DEF ReceiveResponse, CallBack, AnswersMarked
  <2> QED
    BY <1>1, <2>4 DEF AnswersMarked
<1> QED
  BY <1>2, <1>3, <1>4, StepCases
     DEF Receive, Subscribe, WaitGoesOn, EndWait, AzureIoTHubClient_ProcessLoop,
         ProcessLoopReturns, CallbackReturns, ReceiveSuback

\* The invariant that needs no assumption always holds.
LEMMA Invariance == Spec => []Inv
<1>1. Inv /\ [Next]_vars => Inv'
  BY StepTypeOK, StepCallShape, StepNoAbandonedSubscribe, StepAnswersMarked DEF Inv
<1> QED
  BY <1>1, InitInv, PTL DEF Spec

(***************************************************************************)
(* No receive context is left waiting for a SUBACK after its Subscribe     *)
(* call, for any identifiers, timeouts and sessions.                       *)
(***************************************************************************)
THEOREM NoSubscribeAbandoned == Spec => []NoAbandonedSubscribe
<1>1. Inv => NoAbandonedSubscribe
  BY DEF Inv
<1> QED
  BY <1>1, Invariance, PTL

(***************************************************************************)
(* Every answer handed to the properties callback has the type of the      *)
(* request it answers, for every width of the request counter.             *)
(***************************************************************************)
THEOREM AnswersHaveTypeOfRequest == Spec => []AnswerHasTypeOfRequest
<1>1. Inv => AnswerHasTypeOfRequest
  BY DEF Inv, AnswersMarked
<1> QED
  BY <1>1, Invariance, PTL
-------------------------------------------------------------------------------
(***************************************************************************)
(* The invariant for packet identifiers that are used once.                *)
(***************************************************************************)
\* An initial state satisfies it.
LEMMA InitFreshInv == Init => FreshInv
<1> SUFFICES ASSUME Init PROVE FreshInv
  OBVIOUS
<1>1. UnderWay = {} /\ acked = FALSE /\ link = "closed"
      /\ packetId = 1 /\ \A f \in Feature : ctx[f] = NoContext
  BY DEF Init, UnderWay, Range, NoContexts
<1>2. ContextsFresh /\ SubacksFresh /\ AckedIsMarked /\ SubackMeansSubscribed
  BY <1>1 DEF ContextsFresh, SubacksFresh, AckedIsMarked, SubackMeansSubscribed
<1> QED
  BY <1>2, InitInv DEF FreshInv

\* Identifiers are handed out in increasing order.
LEMMA NextPacketId ==
    ASSUME TypeOK, NoReuse, PacketIdAvailable, TakePacketId
    PROVE  packetId' = packetId + 1 /\ packetId \in Nat
  BY ConstantTypes, PacketIdAssumption
     DEF TypeOK, NoReuse, PacketIdAvailable, TakePacketId, PacketId

\* No step hands out a smaller identifier, but for initialising the client.
LEMMA PacketIdGrows ==
    ASSUME TypeOK, NoReuse, [Next]_vars
    PROVE  \/ packetId \in Nat /\ packetId' \in Nat /\ packetId' >= packetId
           \/ AzureIoTHubClient_Init
<1>1. packetId \in Nat
  BY DEF TypeOK, PacketId
<1>2. CASE packetId' = packetId
  BY <1>1, <1>2
<1>3. CASE PacketIdAvailable /\ TakePacketId
  BY <1>1, <1>3, NextPacketId
<1> QED
  BY <1>2, <1>3, StepCases
     DEF Unsubscribe, Telemetry, Subscribe, WaitGoesOn, EndWait, CallbackReturns,
         AzureIoTHubClient_ProcessLoop, ProcessLoopReturns, Receive, ReceiveSuback,
         ReceivePuback, ReceivePublish, ReceiveResponse, clientVars

\* No context holds an identifier that is still to be handed out, and no two
\* contexts hold the same.
LEMMA StepContextsFresh ==
    FreshInv /\ NoReuse /\ [Next]_vars => ContextsFresh'
<1> SUFFICES ASSUME FreshInv, NoReuse, [Next]_vars PROVE ContextsFresh'
  OBVIOUS
<1> USE DEF clientVars, FreshInv, Inv, ContextsFresh
<1>0. /\ ctx \in [Feature -> Context] /\ packetId \in Nat /\ packetId >= 1
      /\ \A f \in Feature : ctx[f].pid \in Nat
  BY ConstantTypes DEF TypeOK, Context, PacketId
<1>1. CASE UNCHANGED <<ctx, packetId>>
  BY <1>1
<1>2. CASE AzureIoTHubClient_Init
  BY <1>2 DEF AzureIoTHubClient_Init, NoContexts
<1>3. ASSUME NEW f \in Feature, Unsubscribe(f) PROVE ContextsFresh'
  <2>1. packetId' = packetId + 1
    BY <1>3, NextPacketId DEF Unsubscribe
  <2>2. ctx' \in {ctx, [ctx EXCEPT ![f] = NoContext]}
    BY <1>3 DEF Unsubscribe
  <2> QED
    BY <1>0, <2>1, <2>2
<1>4. ASSUME NEW qos \in Qualities, Telemetry(qos) PROVE ContextsFresh'
  BY <1>0, <1>4, PacketIdGrows, NextPacketId DEF Telemetry
<1>5. ASSUME NEW f \in Feature, Subscribe(f) PROVE ContextsFresh'
  <2>1. packetId' = packetId + 1
    BY <1>5, NextPacketId DEF Subscribe
  <2>2. ctx' \in {ctx, [ctx EXCEPT ![f] = [state |-> "SUB", pid |-> packetId]]}
    BY <1>5 DEF Subscribe
  <2> QED
    BY <1>0, <2>1, <2>2
<1>6. ASSUME NEW failure, EndWait(failure) PROVE ContextsFresh'
  <2>1. /\ ctx' \in {ctx, [ctx EXCEPT ![waiting] = NoContext]}
        /\ packetId' = packetId /\ waiting \in Feature
    BY <1>6 DEF EndWait, ContextAfterFailure, TypeOK
  <2> QED
    BY <1>0, <2>1
<1>7. CASE ReceiveSuback
  <2>1. packetId' = packetId /\ \A f \in Feature : ctx'[f].pid = ctx[f].pid
    BY <1>0, <1>7 DEF ReceiveSuback, Context
  <2>2. Head(wire).id \in PacketId
    BY <1>7, ReadingShrinks
       DEF ReceiveSuback, Arrives, UnderWay, Range, TypeOK, Packet, Suback, Puback,
           Response, Publish
  <2>3. \A f \in Feature : ctx[f].pid = 0 => ctx'[f] = ctx[f]
    BY <1>7, <2>2, ConstantTypes DEF ReceiveSuback, Matches, PacketId
  <2> QED
    BY <1>0, <2>1, <2>3
<1> QED
  BY <1>1, <1>2, <1>3, <1>4, <1>5, <1>6, <1>7, StepCases
     DEF WaitGoesOn, AzureIoTHubClient_ProcessLoop, ProcessLoopReturns, CallbackReturns,
         Receive, ReceivePuback, ReceivePublish, ReceiveResponse

\* No SUBACK under way has an identifier that is still to be handed out.
LEMMA StepSubacksFresh ==
    FreshInv /\ NoReuse /\ [Next]_vars => SubacksFresh'
<1> SUFFICES ASSUME FreshInv, NoReuse, [Next]_vars,
                    NEW m \in UnderWay', m.type = "SUBACK"
             PROVE  m.id < packetId'
  BY DEF SubacksFresh
<1> USE DEF FreshInv, Inv
<1>1. CASE m \in UnderWay
  <2>1. m.id < packetId /\ m.id \in Nat
    BY <1>1 DEF SubacksFresh, UnderWay, Range, TypeOK, Packet, Suback, Puback, Response,
                Publish, PacketId
  <2>2. CASE AzureIoTHubClient_Init
    BY <2>2 DEF AzureIoTHubClient_Init, UnderWay, Range
  <2> QED
    BY <2>1, <2>2, PacketIdGrows
<1>2. CASE m \notin UnderWay
  <2>1. m.id = packetId /\ \E f \in Feature : Subscribe(f)
    BY <1>2, NewUnderWay
  <2> QED
    BY <2>1, NextPacketId DEF Subscribe
<1> QED
  BY <1>1, <1>2

(***************************************************************************)
(* The SUBACK of the running call marks its context: no other context has  *)
(* the identifier.                                                         *)
(***************************************************************************)
LEMMA StepAckedIsMarked == FreshInv /\ [Next]_vars => AckedIsMarked'
<1> SUFFICES ASSUME FreshInv, [Next]_vars, acked' PROVE ctx'[waiting'].state # "SUB"
  BY DEF AckedIsMarked
<1> USE DEF clientVars, FreshInv, Inv, AckedIsMarked, CallShape
<1>0. /\ ctx \in [Feature -> Context]
      /\ waiting # NoFeature => waiting \in Feature
      /\ acked => waiting \in Feature /\ ctx[waiting].state # "SUB"
  BY DEF TypeOK
<1>1. CASE UNCHANGED <<ctx, waiting, acked>>
  BY <1>1
<1>2. CASE AzureIoTHubClient_Init
  BY <1>2 DEF AzureIoTHubClient_Init, Idle
<1>3. ASSUME NEW f \in Feature, Unsubscribe(f) PROVE ctx'[waiting'].state # "SUB"
  <2>1. /\ waiting' = waiting /\ waiting \in Feature
        /\ ctx[waiting].state # "SUB"
        /\ ctx' \in {ctx, [ctx EXCEPT ![f] = NoContext]}
    BY <1>0, <1>3 DEF Unsubscribe
  <2>2. ctx'[waiting].state # "SUB"
    BY <1>0, <2>1
  <2> QED
    BY <2>1, <2>2
<1>4. ASSUME NEW f \in Feature, Subscribe(f) PROVE ctx'[waiting'].state # "SUB"
  BY <1>4 DEF Subscribe
<1>5. ASSUME NEW failure, EndWait(failure) PROVE FALSE
  BY <1>5 DEF EndWait
<1>6. CASE ReceiveSuback
  <2> DEFINE id == Head(wire).id
  <2>1. waiting \in Feature /\ waiting' = waiting /\ (acked \/ ctx[waiting].pid = id)
    BY <1>0, <1>6 DEF ReceiveSuback
  <2>2. ctx'[waiting] = IF Matches(waiting, id) THEN [ctx[waiting] EXCEPT !.state = "SUBACK"]
                                                ELSE ctx[waiting]
    BY <1>6, <2>1 DEF ReceiveSuback
  <2>3. id \in PacketId /\ id # 0
    BY <1>6, ReadingShrinks
       DEF ReceiveSuback, Arrives, UnderWay, Range, TypeOK, Packet, Suback, Puback,
           Response, Publish, PacketId
  <2>4. CASE ctx[waiting].pid = id
    <3>1. Matches(waiting, id)
      BY <2>1, <2>3, <2>4 DEF Matches, ContextsFresh
    <3> QED
      BY <1>0, <2>1, <2>2, <3>1 DEF Context
  <2>5. CASE acked
    BY <1>0, <2>1, <2>2, <2>5 DEF Context
  <2> QED
    BY <2>1, <2>4, <2>5
<1> QED
  BY <1>1, <1>2, <1>3, <1>4, <1>5, <1>6, StepCases
     DEF WaitGoesOn, AzureIoTHubClient_ProcessLoop, ProcessLoopReturns, CallbackReturns,
         Receive, ReceivePuback, ReceivePublish, ReceiveResponse, Telemetry

(***************************************************************************)
(* The steps by what they change of the subscriptions.                     *)
(***************************************************************************)
LEMMA SubscriptionCases ==
    ASSUME [Next]_vars
    PROVE  \/ UNCHANGED <<ctx, link, persistent, subscribed>>
           \/ AzureIoTHubClient_Init
           \/ AzureIoTHubClient_Connect \/ AzureIoTHubClient_Disconnect \/ LinkBreaks
           \/ \E f \in Feature : Subscribe(f)
           \/ \E f \in Feature : Unsubscribe(f)
           \/ \E failure : EndWait(failure)
           \/ ReceiveSuback
  BY DEF clientVars, callVars, hubVars, Next, Calls, LoopIsOver, Hub, WaitEnds,
         WaitBreaks, vars, Telemetry, PropertyRequest, HubAnswers, HubPublishes,
         AzureIoTHubClient_SubscribeCloudToDeviceMessage,
         AzureIoTHubClient_SubscribeCommand, AzureIoTHubClient_SubscribeProperties,
         AzureIoTHubClient_UnsubscribeCloudToDeviceMessage,
         AzureIoTHubClient_UnsubscribeCommand, AzureIoTHubClient_UnsubscribeProperties,
         AzureIoTHubClient_SendTelemetry, AzureIoTHubClient_SendCommandResponse,
         AzureIoTHubClient_SendPropertiesReported,
         AzureIoTHubClient_RequestPropertiesAsync, AzureIoTHubClient_ProcessLoop,
         ProcessLoopReturns, WaitGoesOn, CallbackReturns, Receive, ReceivePuback,
         ReceivePublish, ReceiveResponse

\* Only the end of a session takes subscriptions from the hub but for an
\* Unsubscribe.
LEMMA SubscriptionsLost ==
    ASSUME AzureIoTHubClient_Connect \/ AzureIoTHubClient_Disconnect \/ LinkBreaks
    PROVE  /\ ctx' = ctx
           /\ \/ subscribed' = subscribed
              \/ ~persistent' /\ (link # "up" \/ link' # "up")
<1>1. CASE AzureIoTHubClient_Connect
  <2>1. ctx' = ctx /\ link # "up"
    BY <1>1 DEF AzureIoTHubClient_Connect, clientVars
  <2>2. CASE subscribed' = subscribed
    BY <2>1, <2>2
  <2>3. CASE subscribed' # subscribed
    <3>1. PICK clean \in CleanSessions :
            persistent' = ~clean /\ subscribed' = IF clean THEN {} ELSE subscribed
      BY <1>1, <2>3 DEF AzureIoTHubClient_Connect
    <3>2. clean /\ persistent' = FALSE
      BY <2>3, <3>1
    <3> QED
      BY <2>1, <3>2
  <2> QED
    BY <2>2, <2>3
<1>2. CASE AzureIoTHubClient_Disconnect \/ LinkBreaks
  BY <1>2 DEF SessionAfterLoss, AzureIoTHubClient_Disconnect, LinkBreaks, clientVars
<1> QED
  BY <1>1, <1>2

(***************************************************************************)
(* A SUBACK on its way for a context of a session that is not over means   *)
(* that the hub has the subscription.                                      *)
(***************************************************************************)
LEMMA StepSubackMeansSubscribed ==
    FreshInv /\ NoReuse /\ [Next]_vars => SubackMeansSubscribed'
<1> SUFFICES ASSUME FreshInv, NoReuse, [Next]_vars,
                    link' = "up" \/ persistent',
                    NEW f \in Feature, NEW m \in UnderWay',
                    m.type = "SUBACK", m.id = ctx'[f].pid
             PROVE  f \in subscribed'
  BY DEF SubackMeansSubscribed
<1> USE DEF FreshInv, Inv
<1>0. /\ ctx \in [Feature -> Context] /\ subscribed \subseteq Feature
      /\ packetId \in Nat /\ \A g \in Feature : ctx[g].pid \in Nat
      /\ m.id \in Nat /\ m.id # 0
  <2>1. TypeOK /\ TypeOK'
    BY StepTypeOK
  <2>2. m \in Suback
    BY <2>1 DEF TypeOK, UnderWay, Range, Packet, Suback, Puback, Response, Publish
  <2> QED
    BY <2>1, <2>2, ConstantTypes DEF TypeOK, Suback, PacketId, Context
<1>1. CASE m \notin UnderWay
  <2>1. PICK g \in Feature : Subscribe(g) /\ g \in subscribed' /\ m.id = packetId
    BY <1>1, NewUnderWay
  <2>2. CASE f # g
    <3>1. ctx'[f] = ctx[f]
      BY <1>0, <2>1, <2>2 DEF Subscribe
    <3>2. ctx[f].pid < packetId
      BY DEF ContextsFresh
    <3>3. ctx[f].pid = packetId
      BY <2>1, <3>1
    <3> QED
      BY <1>0, <3>2, <3>3
  <2> QED
    BY <2>1, <2>2
<1>2. CASE m \in UnderWay
  <2>0. /\ m.id < packetId
        /\ link = "up" \/ persistent => (m.id = ctx[f].pid => f \in subscribed)
    BY <1>2 DEF SubacksFresh, SubackMeansSubscribed
  <2>1. CASE UNCHANGED <<link, persistent>>
             /\ ctx'[f].pid = ctx[f].pid /\ subscribed' = subscribed
    BY <2>0, <2>1
  <2>2. CASE AzureIoTHubClient_Init
    BY <1>0, <2>2 DEF AzureIoTHubClient_Init, NoContexts
  <2>3. CASE AzureIoTHubClient_Connect
    BY <2>3 DEF AzureIoTHubClient_Connect, UnderWay, Range
  <2>4. CASE AzureIoTHubClient_Disconnect
    <3>1. UNCHANGED <<link, persistent, ctx, subscribed>>
      BY <2>4 DEF AzureIoTHubClient_Disconnect, UnderWay, Range, clientVars
    <3> QED
      BY <2>1, <3>1
  <2>5. CASE LinkBreaks
    <3>1. link = "up" /\ UNCHANGED <<persistent, ctx, subscribed>>
      BY <2>5 DEF LinkBreaks, SessionAfterLoss, clientVars
    <3> QED
      BY <2>0, <3>1
  <2>6. ASSUME NEW g \in Feature, Subscribe(g) PROVE f \in subscribed'
    <3>1. \/ UNCHANGED <<link, persistent, ctx, subscribed>>
          \/ /\ ctx' = [ctx EXCEPT ![g] = [state |-> "SUB", pid |-> packetId]]
             /\ subscribed \subseteq subscribed'
             /\ UNCHANGED <<link, persistent>>
      BY <2>6 DEF Subscribe, hubVars
    <3> QED
      BY <1>0, <2>0, <3>1
  <2>7. ASSUME NEW g \in Feature, Unsubscribe(g) PROVE f \in subscribed'
    <3>1. \/ UNCHANGED <<link, persistent, ctx, subscribed>>
          \/ /\ ctx' = [ctx EXCEPT ![g] = NoContext]
             /\ subscribed \ {g} \subseteq subscribed'
             /\ UNCHANGED <<link, persistent>>
      BY <2>7 DEF Unsubscribe
    <3> QED
      BY <1>0, <2>0, <3>1
  <2>8. ASSUME NEW failure, EndWait(failure) PROVE f \in subscribed'
    <3>1. /\ UNCHANGED <<link, persistent, subscribed>>
          /\ ctx' \in {ctx, [ctx EXCEPT ![waiting] = NoContext]}
      BY <2>8 DEF EndWait, ContextAfterFailure, hubVars
    <3> QED
      BY <1>0, <2>0, <3>1
  <2>9. CASE ReceiveSuback
    <3>1. /\ UNCHANGED <<link, persistent, subscribed>>
          /\ ctx'[f].pid = ctx[f].pid
      BY <1>0, <2>9 DEF ReceiveSuback, Context
    <3> QED
      BY <2>1, <3>1
  <2> QED
    BY <2>1, <2>2, <2>3, <2>4, <2>5, <2>6, <2>7, <2>8, <2>9, SubscriptionCases
<1> QED
  BY <1>1, <1>2

(***************************************************************************)
(* A step leaves a context marked without a subscription at the hub only   *)
(* if it found it so, or at the end of a session.                          *)
(***************************************************************************)
LEMMA StepSubscribed ==
    ASSUME FreshInv, [Next]_vars,
           NEW f \in Feature, ctx'[f].state = "SUBACK", f \notin subscribed'
    PROVE  \/ ctx[f].state = "SUBACK" /\ f \notin subscribed
           \/ ~persistent' /\ (link # "up" \/ link' # "up")
<1> USE DEF FreshInv, Inv
<1>0. ctx \in [Feature -> Context] /\ subscribed \subseteq Feature
  BY DEF TypeOK
<1>1. CASE UNCHANGED <<ctx, subscribed>>
  BY <1>1
<1>2. CASE AzureIoTHubClient_Init
  BY <1>2 DEF AzureIoTHubClient_Init, NoContexts
<1>3. CASE AzureIoTHubClient_Connect \/ AzureIoTHubClient_Disconnect \/ LinkBreaks
  BY <1>3, SubscriptionsLost
<1>4. CASE \E g \in Feature : Subscribe(g)
  <2>1. PICK g \in Feature : Subscribe(g)
    BY <1>4
  <2>2. \/ UNCHANGED <<ctx, subscribed>>
        \/ /\ ctx' = [ctx EXCEPT ![g] = [state |-> "SUB", pid |-> packetId]]
           /\ subscribed \subseteq subscribed'
    BY <2>1 DEF Subscribe, hubVars
  <2> QED
    BY <1>0, <2>2
<1>5. CASE \E g \in Feature : Unsubscribe(g)
  <2>1. PICK g \in Feature : Unsubscribe(g)
    BY <1>5
  <2>2. \/ UNCHANGED <<ctx, subscribed>>
        \/ /\ ctx' = [ctx EXCEPT ![g] = NoContext]
           /\ subscribed \ {g} \subseteq subscribed'
    BY <2>1 DEF Unsubscribe
  <2> QED
    BY <1>0, <2>2 DEF NoContext
<1>6. ASSUME NEW failure, EndWait(failure)
      PROVE  ctx[f].state = "SUBACK" /\ f \notin subscribed
  <2>1. subscribed' = subscribed /\ ctx' \in {ctx, [ctx EXCEPT ![waiting] = NoContext]}
    BY <1>6 DEF EndWait, ContextAfterFailure, hubVars
  <2> QED
    BY <1>0, <2>1 DEF NoContext
<1>7. CASE ReceiveSuback
  <2>1. UNCHANGED <<subscribed, persistent>>
    BY <1>7 DEF ReceiveSuback
  <2>2. CASE Matches(f, Head(wire).id)
    <3>1. Head(wire) \in UnderWay /\ Head(wire).type = "SUBACK"
      BY <1>7, ReadingShrinks DEF ReceiveSuback, Arrives
    <3> QED
      BY <2>1, <2>2, <3>1 DEF Matches, SubackMeansSubscribed
  <2>3. CASE ~Matches(f, Head(wire).id)
    BY <1>7, <2>1, <2>3 DEF ReceiveSuback
  <2> QED
    BY <2>2, <2>3
<1> QED
  BY <1>1, <1>2, <1>3, <1>4, <1>5, <1>6, <1>7, SubscriptionCases

(***************************************************************************)
(* While no packet identifier is used twice, the client, what is under way *)
(* and the hub agree, whatever sessions the device connects with: a        *)
(* context's identifier is its own and older than the next one, and a      *)
(* SUBACK under way in a session that is not over is one of a subscription *)
(* the hub has.                                                            *)
(***************************************************************************)
THEOREM FreshInvariance == NoReuse /\ Spec => []FreshInv
<1>1. FreshInv /\ NoReuse /\ [Next]_vars => FreshInv'
  BY StepTypeOK, StepCallShape, StepNoAbandonedSubscribe, StepAnswersMarked,
     StepContextsFresh, StepSubacksFresh, StepAckedIsMarked, StepSubackMeansSubscribed
     DEF FreshInv, Inv
<1>2. NoReuse => []NoReuse
  <2>1. NoReuse => NoReuse'
    BY DEF NoReuse
  <2> QED
    BY <2>1, PTL
<1> QED
  BY <1>1, <1>2, InitFreshInv, PTL DEF Spec

(***************************************************************************)
(* While no packet identifier is used twice, only the end of a session     *)
(* takes from a feature the client holds for subscribed its subscription   *)
(* at the hub.                                                             *)
(***************************************************************************)
THEOREM SubscriptionsEndWithSession == NoReuse /\ Spec => SubscribedInSession
<1>1. FreshInv /\ [Next]_vars =>
        \A f \in Feature :
          ctx'[f].state = "SUBACK" /\ f \notin subscribed' =>
            \/ ctx[f].state = "SUBACK" /\ f \notin subscribed
            \/ ~persistent' /\ (link # "up" \/ link' # "up")
  BY StepSubscribed
<1> QED
  BY <1>1, FreshInvariance, PTL DEF Spec, SubscribedInSession

(***************************************************************************)
(* Under the same assumption a Subscribe call that read its SUBACK reports *)
(* success: the context is marked, unless it was erased, and the test      *)
(* after the wait looks at the mark.                                       *)
(***************************************************************************)
THEOREM AckedSubscribesSucceed == NoReuse /\ Spec => AckedSubscribeSucceeds
<1>1. FreshInv /\ [Next]_vars =>
        ( /\ acked /\ waiting # NoFeature /\ waiting' = NoFeature
          /\ ctx[waiting].state # "NONE"
          => result' = "Success" )
  <2> SUFFICES ASSUME FreshInv, [Next]_vars, acked, waiting # NoFeature,
                      waiting' = NoFeature, ctx[waiting].state # "NONE"
               PROVE  result' = "Success"
    OBVIOUS
  <2>1. ctx[waiting].state = "SUBACK"
    <3>1. ctx \in [Feature -> Context] /\ waiting \in Feature
      BY DEF FreshInv, Inv, TypeOK
    <3> QED
      BY <3>1 DEF FreshInv, AckedIsMarked, Context
  <2>2. PICK failure : EndWait(failure)
    BY StepCases
       DEF Subscribe, WaitGoesOn, AzureIoTHubClient_ProcessLoop, ProcessLoopReturns,
           CallbackReturns, Receive, ReceiveSuback, ReceivePuback, ReceivePublish,
           ReceiveResponse, FreshInv, Inv, CallShape, Idle
  <2> QED
    BY <2>1, <2>2 DEF EndWait, SubscribedInTime
<1> QED
  BY <1>1, FreshInvariance, PTL DEF Spec, AckedSubscribeSucceeds
-------------------------------------------------------------------------------
HIDE DEF Feature, C2D, COMMANDS, PROPERTIES, NoFeature, NoContext

(***************************************************************************)
(* What the mapping needs besides Inv: an event is there exactly while a   *)
(* callback runs, the contract hears of a success between two calls, and a *)
(* context that is not in use has no identifier a SUBACK could match.      *)
(***************************************************************************)
MappingInv ==
    /\ pc # "callback" => event = NoEvent
    /\ granted \in BOOLEAN /\ (granted => pc = "app")
    /\ \A f \in Feature : ctx[f].state = "NONE" => ctx[f].pid = 0

Open(c) == [f \in Feature |-> Openness[c[f].state]]

abstract == <<Open(ctx), waiting, event.feature, granted>>

\* A context that is not in use, and the feature that is none.
LEMMA Nothing ==
    /\ NoContext \in Context /\ NoContext.state = "NONE" /\ NoContext.pid = 0
    /\ NoFeature \notin Feature /\ PROPERTIES \in Feature
  BY NothingTypes DEF NoContext, NoFeature, Feature, C2D, COMMANDS, PROPERTIES

\* The states of a context, as the contract sees them.
LEMMA OpenIs ==
    ASSUME NEW c \in [Feature -> Context], NEW f \in Feature
    PROVE  /\ Open(c)[f] \in {"closed", "opening", "open"}
           /\ Open(c)[f] = "closed"  <=> c[f].state = "NONE"
           /\ Open(c)[f] = "opening" <=> c[f].state = "SUB"
           /\ Open(c)[f] = "open"    <=> c[f].state = "SUBACK"
  BY DEF Open, Openness, Context

\* A context that is replaced is the only one the contract sees change.
LEMMA OpenExcept ==
    ASSUME NEW c \in [Feature -> Context], NEW f \in Feature, NEW new \in Context
    PROVE  /\ new.state = "NONE" => Open([c EXCEPT ![f] = new]) = [Open(c) EXCEPT ![f] = "closed"]
           /\ new.state = "SUB" => Open([c EXCEPT ![f] = new]) = [Open(c) EXCEPT ![f] = "opening"]
<1> DEFINE d == [c EXCEPT ![f] = new]
<1>1. d[f] = new /\ \A g \in Feature : g # f => d[g] = c[g]
  OBVIOUS
<1> HIDE DEF d
<1>2. Open(d)[f] = Openness[new.state] /\ \A g \in Feature : g # f => Open(d)[g] = Open(c)[g]
  BY <1>1 DEF Open
<1>3. Open(d) = [Open(c) EXCEPT ![f] = Openness[new.state]]
  BY <1>2 DEF Open
<1>4. Openness["NONE"] = "closed" /\ Openness["SUB"] = "opening"
  BY DEF Openness
<1> QED BY <1>3, <1>4 DEF d

\* The SUBACK at the head of the wire marks the context of the call that runs,
\* or none that was not marked before.
LEMMA SubackOpens ==
    ASSUME Inv, MappingInv, ReceiveSuback
    PROVE  \/ Open(ctx') = Open(ctx)
           \/ /\ waiting \in Feature /\ ctx[waiting].state = "SUB"
              /\ Open(ctx') = [Open(ctx) EXCEPT ![waiting] = "open"]
<1> DEFINE id == Head(wire).id
<1>1. /\ ctx \in [Feature -> Context] /\ wire \in Seq(Packet) /\ wire # << >>
      /\ Head(wire).type = "SUBACK" /\ waiting \in Feature \cup {NoFeature}
  BY DEF Inv, TypeOK, ReceiveSuback, Arrives
<1>2. id # 0
  <2>1. Head(wire) \in Packet
    BY <1>1
  <2> QED BY <1>1, <2>1 DEF Packet, Suback, Puback, Response, Publish, PacketId
<1>3. ctx' = [f \in Feature |->
                IF Matches(f, id) THEN [ctx[f] EXCEPT !.state = "SUBACK"] ELSE ctx[f]]
  BY DEF ReceiveSuback
<1> HIDE DEF id
<1>4. \A f \in Feature : ctx'[f].state = IF Matches(f, id) THEN "SUBACK" ELSE ctx[f].state
  BY <1>1, <1>3 DEF Context
<1>5. \A f \in Feature : Matches(f, id) => ctx[f].state # "NONE"
  BY <1>2 DEF Matches, MappingInv
<1>6. \A f \in Feature : Matches(f, id) /\ ctx[f].state # "SUBACK" =>
        waiting = f /\ ctx[f].state = "SUB"
  BY <1>1, <1>5 DEF Inv, NoAbandonedSubscribe, Context
<1>7. CASE \E f \in Feature : Matches(f, id) /\ ctx[f].state # "SUBACK"
  <2>1. /\ waiting \in Feature /\ ctx[waiting].state = "SUB" /\ Matches(waiting, id)
        /\ \A f \in Feature \ {waiting} : ctx'[f].state = ctx[f].state
    BY <1>4, <1>6, <1>7
  <2>2. Openness["SUBACK"] = "open"
    BY DEF Openness
  <2>3. /\ Open(ctx')[waiting] = "open"
        /\ \A f \in Feature \ {waiting} : Open(ctx')[f] = Open(ctx)[f]
    BY <1>4, <2>1, <2>2 DEF Open
  <2> QED BY <2>1, <2>3 DEF Open
<1>8. CASE ~ \E f \in Feature : Matches(f, id) /\ ctx[f].state # "SUBACK"
  BY <1>4, <1>8 DEF Open
<1> QED BY <1>7, <1>8
-------------------------------------------------------------------------------
LEMMA MappingInvInit == ContractInit => MappingInv
  BY Nothing DEF ContractInit, Init, NoContexts, MappingInv

LEMMA MappingInvNext == Inv /\ MappingInv /\ [ContractNext]_<<vars, granted>> => MappingInv'
<1> SUFFICES ASSUME Inv, MappingInv, [ContractNext]_<<vars, granted>> PROVE MappingInv'
  OBVIOUS
<1> USE DEF clientVars, callVars, hubVars
<1>1. CASE UNCHANGED <<vars, granted>>
  BY <1>1 DEF vars, MappingInv
<1>2. CASE ContractNext
  <2>1. /\ [Next]_vars /\ ctx \in [Feature -> Context]
        /\ granted' = (waiting # NoFeature /\ waiting' = NoFeature /\ result' = "Success")
    BY <1>2 DEF ContractNext, Inv, TypeOK
  <2>2. granted' \in BOOLEAN
    BY <2>1
  <2>3. granted' => pc' = "app"
    <3>1. CASE UNCHANGED waiting
      BY <2>1, <3>1
    <3>2. CASE \E f \in Feature : Subscribe(f)
      <4>1. waiting' = waiting \/ waiting' \in Feature
        BY <3>2 DEF Subscribe
      <4> QED BY <2>1, <4>1, Nothing
    <3>3. CASE \E failure : EndWait(failure)
      BY <3>3 DEF EndWait
    <3> QED
      BY <2>1, <3>1, <3>2, <3>3, StepCases
         DEF AzureIoTHubClient_ProcessLoop, WaitGoesOn, ProcessLoopReturns, CallbackReturns,
             Receive, ReceiveSuback, ReceivePuback, ReceivePublish, ReceiveResponse
  <2>4. pc' # "callback" => event' = NoEvent
    <3>1. CASE UNCHANGED <<pc, event>>
      BY <3>1 DEF MappingInv
    <3>2. CASE Receive
      BY <3>2 DEF Receive, ReceiveSuback, ReceivePuback, ReceivePublish, ReceiveResponse,
           Arrives, CallBack, MappingInv
    <3>3. CASE \/ \E f \in Feature : Subscribe(f)
               \/ \E failure : EndWait(failure)
               \/ AzureIoTHubClient_ProcessLoop \/ ProcessLoopReturns \/ WaitGoesOn
      BY <3>3 DEF Subscribe, EndWait, AzureIoTHubClient_ProcessLoop, ProcessLoopReturns,
           WaitGoesOn, Idle, MappingInv
    <3>4. CASE CallbackReturns
      BY <3>4 DEF CallbackReturns
    <3> QED BY <2>1, <3>1, <3>2, <3>3, <3>4, StepCases
  <2>5. \A f \in Feature : ctx'[f].state = "NONE" => ctx'[f].pid = 0
    <3>1. CASE UNCHANGED ctx
      BY <3>1 DEF MappingInv
    <3>2. CASE AzureIoTHubClient_Init
      BY <3>2, Nothing DEF AzureIoTHubClient_Init, NoContexts
    <3>3. ASSUME NEW g \in Feature, Unsubscribe(g) \/ Subscribe(g)
          PROVE  \A f \in Feature : ctx'[f].state = "NONE" => ctx'[f].pid = 0
      BY <2>1, <3>3, Nothing DEF Unsubscribe, Subscribe, MappingInv
    <3>4. ASSUME NEW failure, EndWait(failure)
          PROVE  \A f \in Feature : ctx'[f].state = "NONE" => ctx'[f].pid = 0
      BY <2>1, <3>4, Nothing DEF EndWait, ContextAfterFailure, MappingInv
    <3>5. CASE ReceiveSuback
      BY <2>1, <3>5 DEF ReceiveSuback, MappingInv, Context
    <3> QED
      BY <2>1, <3>1, <3>2, <3>3, <3>4, <3>5, StepCases
         DEF Telemetry, WaitGoesOn, AzureIoTHubClient_ProcessLoop, ProcessLoopReturns,
             CallbackReturns, Receive, ReceivePuback, ReceivePublish, ReceiveResponse
  <2> QED BY <2>2, <2>3, <2>4, <2>5 DEF MappingInv
<1> QED BY <1>1, <1>2

\* The first states map to the contract's.
LEMMA ContractInitial == ContractInit => Contract!Init
<1> SUFFICES ASSUME ContractInit PROVE Contract!Init
  OBVIOUS
<1>1. [f \in Feature |-> Openness[ctx[f].state]] = Contract!Closed
  BY Nothing DEF ContractInit, Init, NoContexts, Openness, Contract!Closed
<1> QED BY <1>1 DEF ContractInit, Init, NoEvent, Contract!Init

\* Every step maps to one of the contract's, or to none.
LEMMA ContractStep ==
    Inv /\ MappingInv /\ [ContractNext]_<<vars, granted>> =>
      Contract!Next \/ UNCHANGED abstract
<1> SUFFICES ASSUME Inv, MappingInv, ContractNext
             PROVE  Contract!Next \/ UNCHANGED abstract
  BY DEF vars, clientVars, callVars, abstract
<1> USE DEF clientVars, callVars, hubVars
<1>1. /\ [Next]_vars /\ ctx \in [Feature -> Context] /\ ctx' \in [Feature -> Context]
      /\ granted' = (waiting # NoFeature /\ waiting' = NoFeature /\ result' = "Success")
      /\ pc = "app" => waiting = NoFeature
      /\ pc # "callback" => event = NoEvent
      /\ granted => pc = "app"
      /\ granted \in BOOLEAN /\ waiting \in Feature \cup {NoFeature}
  BY StepTypeOK DEF ContractNext, Inv, TypeOK, CallShape, MappingInv
<1>2. NoEvent.feature = NoFeature
  BY DEF NoEvent
\* A step in which nothing the contract looks at changes, but for a success.
<1>3. ASSUME Open(ctx') = Open(ctx), waiting' = waiting, event'.feature = event.feature
      PROVE  Contract!Next \/ UNCHANGED abstract
  <2>1. ~granted'
    BY <1>1, <1>3
  <2>2. CASE granted
    BY <1>1, <1>2, <1>3, <2>1, <2>2 DEF Contract!Next, Contract!Handled, Open
  <2>3. CASE ~granted
    BY <1>1, <1>3, <2>1, <2>3 DEF abstract
  <2> QED BY <2>2, <2>3
<1>4. CASE UNCHANGED <<ctx, waiting, event>>
  BY <1>3, <1>4
<1>5. CASE AzureIoTHubClient_Init
  <2>1. /\ pc = "app" /\ waiting = NoFeature /\ event = NoEvent
        /\ UNCHANGED <<waiting, event>> /\ ~granted' /\ ctx' = NoContexts
    BY <1>1, <1>5 DEF AzureIoTHubClient_Init, Idle
  <2>2. [f \in Feature |-> Openness[ctx'[f].state]] = Contract!Closed
    BY <2>1, Nothing DEF NoContexts, Openness, Contract!Closed
  <2> QED BY <1>1, <1>2, <2>1, <2>2 DEF Contract!Next, Contract!Reset
<1>6. ASSUME NEW f \in Feature, Unsubscribe(f)
      PROVE  Contract!Next \/ UNCHANGED abstract
  <2>1. UNCHANGED <<waiting, event>> /\ ~granted'
    BY <1>1, <1>6 DEF Unsubscribe
  <2>2. CASE ctx' = [ctx EXCEPT ![f] = NoContext]
    <3>1. Open(ctx') = [Open(ctx) EXCEPT ![f] = "closed"]
      BY <1>1, <2>2, Nothing, OpenExcept
    <3>2. Contract!Close(f)
      BY <2>1, <3>1 DEF Open, Contract!Close
    <3> QED BY <3>2 DEF Contract!Next
  <2> QED BY <1>4, <1>6, <2>1, <2>2 DEF Unsubscribe
<1>7. ASSUME NEW f \in Feature, Subscribe(f)
      PROVE  Contract!Next \/ UNCHANGED abstract
  <2>1. /\ pc = "app" /\ waiting = NoFeature /\ event = NoEvent
        /\ event' = event /\ ~granted'
    BY <1>1, <1>7 DEF Subscribe, Idle
  <2>2. CASE waiting' = f /\ ctx' = [ctx EXCEPT ![f] = [state |-> "SUB", pid |-> packetId]]
    <3>1. [state |-> "SUB", pid |-> packetId] \in Context
      BY <1>7, PacketIdType DEF Inv, Subscribe, Context, PacketId
    <3>2. Open(ctx') = [Open(ctx) EXCEPT ![f] = "opening"]
      BY <1>1, <2>2, <3>1, OpenExcept
    <3>3. Contract!Begin(f)
      BY <1>2, <2>1, <2>2, <3>2 DEF Open, Contract!Begin
    <3> QED BY <3>3 DEF Contract!Next
  <2> QED BY <1>4, <1>7, <2>1, <2>2 DEF Subscribe
<1>8. ASSUME NEW failure \in {"SubackWaitTimeout", "Failed"}, EndWait(failure)
      PROVE  Contract!Next \/ UNCHANGED abstract
  <2>1. /\ pc = "mqtt" /\ waiting \in Feature /\ waiting' = NoFeature /\ event = NoEvent
        /\ event' = event
    BY <1>1, <1>8 DEF EndWait
  <2> PICK f \in Feature : waiting = f
    BY <2>1
  <2>2. CASE ctx[waiting].state = "SUBACK"
    <3>1. ctx' = ctx /\ granted' = TRUE
      BY <1>1, <1>8, <2>1, <2>2 DEF EndWait, SubscribedInTime
    <3>2. Open(ctx)[waiting] = "open"
      BY <1>1, <2>1, <2>2, OpenIs
    <3>3. Contract!End(f)
      BY <1>2, <2>1, <3>1, <3>2 DEF Open, Contract!End
    <3> QED BY <3>3 DEF Contract!Next
  <2>3. CASE ctx[waiting].state # "SUBACK"
    <3>1. ctx' = [ctx EXCEPT ![waiting] = NoContext] /\ granted' = FALSE
      BY <1>1, <1>8, <2>1, <2>3 DEF EndWait, SubscribedInTime, ContextAfterFailure
    <3>2. Open(ctx)[waiting] # "open"
      BY <1>1, <2>1, <2>3, OpenIs
    <3>3. Open(ctx') = [Open(ctx) EXCEPT ![waiting] = "closed"]
      BY <1>1, <2>1, <3>1, Nothing, OpenExcept
    <3>4. Contract!End(f)
      BY <1>2, <2>1, <3>1, <3>2, <3>3 DEF Open, Contract!End
    <3> QED BY <3>4 DEF Contract!Next
  <2> QED BY <2>2, <2>3
<1>9. CASE ReceiveSuback
  <2>1. pc = "mqtt" /\ event = NoEvent /\ UNCHANGED <<waiting, event>> /\ ~granted'
    BY <1>1, <1>9 DEF ReceiveSuback, Arrives
  <2>2. CASE Open(ctx') = Open(ctx)
    BY <1>3, <2>1, <2>2
  <2>3. CASE /\ waiting \in Feature /\ ctx[waiting].state = "SUB"
             /\ Open(ctx') = [Open(ctx) EXCEPT ![waiting] = "open"]
    <3> PICK f \in Feature : waiting = f
      BY <2>3
    <3>1. Open(ctx)[waiting] = "opening"
      BY <1>1, <2>3, OpenIs
    <3>2. Contract!Open(f)
      BY <1>2, <2>1, <2>3, <3>1 DEF Open, Contract!Open
    <3> QED BY <3>2 DEF Contract!Next
  <2> QED BY <1>9, <2>2, <2>3, SubackOpens
<1>10. CASE ReceivePuback \/ ReceivePublish \/ ReceiveResponse
  <2>1. /\ pc = "mqtt" /\ event = NoEvent /\ UNCHANGED <<waiting, ctx>> /\ ~granted'
    BY <1>1, <1>10 DEF ReceivePuback, ReceivePublish, ReceiveResponse, Arrives
  <2>2. \/ event' = event \/ event'.feature = NoFeature
        \/ \E f \in Feature : event'.feature = f /\ ctx[f].state # "NONE"
    <3>1. CASE ReceivePuback
      BY <3>1 DEF ReceivePuback, CallBack
    <3>2. CASE ReceiveResponse
      BY <3>2, Nothing DEF ReceiveResponse, CallBack, Listens
    <3>3. CASE ReceivePublish
      <4>1. wire \in Seq(Packet) /\ wire # << >> /\ Head(wire).type = "PUBLISH"
        BY <3>3 DEF Inv, TypeOK, ReceivePublish, Arrives
      <4>2. Head(wire) \in Packet
        BY <4>1
      <4>3. Head(wire).feature \in Feature
        BY <4>1, <4>2 DEF Packet, Suback, Puback, Response, Publish
      <4> QED BY <3>3, <4>3 DEF ReceivePublish, CallBack, Listens
    <3> QED BY <1>10, <3>1, <3>2, <3>3
  <2>3. CASE event' = event \/ event'.feature = NoFeature
    BY <1>2, <1>3, <2>1, <2>3
  <2>4. ASSUME NEW f \in Feature, event'.feature = f, ctx[f].state # "NONE"
        PROVE  Contract!Next
    <3>1. Open(ctx)[f] # "closed"
      BY <1>1, <2>4, OpenIs
    <3> QED BY <1>2, <2>1, <2>4, <3>1 DEF Open, Contract!Next, Contract!Handle
  <2> QED BY <2>2, <2>3, <2>4
<1>11. CASE CallbackReturns
  <2>1. event' = NoEvent /\ UNCHANGED <<ctx, waiting>> /\ ~granted'
    BY <1>1, <1>11 DEF CallbackReturns
  <2> QED BY <1>2, <2>1 DEF Contract!Next, Contract!Handled
<1>12. CASE WaitEnds \/ WaitBreaks
  BY <1>8, <1>12 DEF WaitEnds, WaitBreaks
<1>13. CASE WaitGoesOn \/ AzureIoTHubClient_ProcessLoop \/ ProcessLoopReturns \/ Hub
  BY <1>4, <1>13 DEF WaitGoesOn, AzureIoTHubClient_ProcessLoop, ProcessLoopReturns, Hub,
       HubAnswers, HubPublishes, LinkBreaks
<1>14. CASE Calls
  <2>1. \/ UNCHANGED <<ctx, waiting, event>> \/ AzureIoTHubClient_Init
        \/ \E f \in Feature : Unsubscribe(f) \/ Subscribe(f)
    BY <1>14 DEF Calls, AzureIoTHubClient_Connect, AzureIoTHubClient_Disconnect,
         AzureIoTHubClient_SubscribeCloudToDeviceMessage,
         AzureIoTHubClient_SubscribeCommand, AzureIoTHubClient_SubscribeProperties,
         AzureIoTHubClient_UnsubscribeCloudToDeviceMessage,
         AzureIoTHubClient_UnsubscribeCommand, AzureIoTHubClient_UnsubscribeProperties,
         AzureIoTHubClient_SendTelemetry, Telemetry, AzureIoTHubClient_SendCommandResponse,
         AzureIoTHubClient_SendPropertiesReported, PropertyRequest,
         AzureIoTHubClient_RequestPropertiesAsync, AzureIoTHubClient_ProcessLoop,
         Feature, C2D, COMMANDS, PROPERTIES
  <2> QED BY <1>4, <1>5, <1>6, <1>7, <2>1
<1> QED
  BY <1>9, <1>10, <1>11, <1>12, <1>13, <1>14
     DEF ContractNext, Next, Receive, LoopIsOver

(***************************************************************************)
(* The client implements the contract for any identifiers, timeouts and    *)
(* sessions: a Subscribe call ends with the feature open or closed and     *)
(* says which (prvWaitForSubAck), and prvEventCallback calls back for no   *)
(* closed feature.                                                         *)
(***************************************************************************)
THEOREM ContractImplemented == ContractSpec => ImplementsContract
<1>1. Inv /\ MappingInv /\ [ContractNext]_<<vars, granted>>
        => [Contract!Next]_(Contract!vars)
  BY ContractStep DEF abstract, Open, Contract!vars
<1>2. ContractSpec => Spec
  <2>1. ContractInit => Init
    BY DEF ContractInit
  <2>2. [ContractNext]_<<vars, granted>> => [Next]_vars
    BY DEF ContractNext
  <2> QED BY <2>1, <2>2, PTL DEF ContractSpec, Spec
<1>3. ContractSpec => []MappingInv
  BY <1>2, MappingInvInit, MappingInvNext, Invariance, PTL DEF ContractSpec
<1> QED
  BY <1>1, <1>2, <1>3, ContractInitial, Invariance, PTL
     DEF ContractSpec, ImplementsContract, Contract!Spec
================================================================================
