------------------------ MODULE ProvisioningClientProofs ------------------------
(***************************************************************************)
(* Proofs about ProvisioningClient: that every variable has its type, that *)
(* the device has one request with the service at a time and a SUBACK is   *)
(* only taken when awaited, what the service hears and when, and that the  *)
(* verdict is right and final, and that the client implements              *)
(* RegistrationContract.  Together they need one invariant; it says of     *)
(* each state of the workflow what may be under way then.                  *)
(***************************************************************************)
EXTENDS ProvisioningClientContract, FiniteSetTheorems, TLAPS

(***************************************************************************)
(* Packets on the wire.                                                    *)
(***************************************************************************)
IsSuback(p) == p.type = "SUBACK"
IsAnswer(p) == p.type = "PUBLISH" /\ p.body # "unknown"

NoSuback(w) == \A k \in 1 .. Len(w) : ~IsSuback(w[k])
NoAnswer(w) == \A k \in 1 .. Len(w) : ~IsAnswer(w[k])
OneSuback(w) == \A j, k \in 1 .. Len(w) : IsSuback(w[j]) /\ IsSuback(w[k]) => j = k
OneAnswer(w) == \A j, k \in 1 .. Len(w) : IsAnswer(w[j]) /\ IsAnswer(w[k]) => j = k

\* Reading the first packet leaves the others; if the only one of its sort was
\* read there is none.
LEMMA Reading ==
    ASSUME NEW w \in Seq(Packet), w # << >>
    PROVE  /\ Head(w) \in Packet /\ Tail(w) \in Seq(Packet)
           /\ NoSuback(w) => NoSuback(Tail(w)) /\ ~IsSuback(Head(w))
           /\ NoAnswer(w) => NoAnswer(Tail(w)) /\ ~IsAnswer(Head(w))
           /\ OneSuback(w) => OneSuback(Tail(w)) /\ (IsSuback(Head(w)) => NoSuback(Tail(w)))
           /\ OneAnswer(w) => OneAnswer(Tail(w)) /\ (IsAnswer(Head(w)) => NoAnswer(Tail(w)))
<1>1. /\ Head(w) \in Packet /\ Tail(w) \in Seq(Packet)
      /\ Head(w) = w[1] /\ 1 \in 1 .. Len(w)
      /\ \A k \in 1 .. Len(Tail(w)) :
           k + 1 \in 1 .. Len(w) /\ k + 1 # 1 /\ Tail(w)[k] = w[k + 1]
      /\ Len(Tail(w)) \in Nat
  OBVIOUS
<1>2. \A j, k \in 1 .. Len(Tail(w)) : j + 1 = k + 1 => j = k
  BY <1>1
<1> HIDE DEF Packet
<1>3. NoSuback(w) => NoSuback(Tail(w)) /\ ~IsSuback(Head(w))
  BY <1>1 DEF NoSuback
<1>4. NoAnswer(w) => NoAnswer(Tail(w)) /\ ~IsAnswer(Head(w))
  BY <1>1 DEF NoAnswer
<1>5. OneSuback(w) => OneSuback(Tail(w)) /\ (IsSuback(Head(w)) => NoSuback(Tail(w)))
  BY <1>1, <1>2 DEF OneSuback, NoSuback
<1>6. OneAnswer(w) => OneAnswer(Tail(w)) /\ (IsAnswer(Head(w)) => NoAnswer(Tail(w)))
  BY <1>1, <1>2 DEF OneAnswer, NoAnswer
<1> QED BY <1>1, <1>3, <1>4, <1>5, <1>6

\* A packet sent goes to the end.
LEMMA Sending ==
    ASSUME NEW w \in Seq(Packet), NEW p \in Packet
    PROVE  /\ Append(w, p) \in Seq(Packet)
           /\ NoSuback(w) => OneSuback(Append(w, p))
           /\ NoAnswer(w) => OneAnswer(Append(w, p))
           /\ ~IsSuback(p) => /\ NoSuback(w) => NoSuback(Append(w, p))
                              /\ OneSuback(w) => OneSuback(Append(w, p))
           /\ ~IsAnswer(p) => /\ NoAnswer(w) => NoAnswer(Append(w, p))
                              /\ OneAnswer(w) => OneAnswer(Append(w, p))
<1>1. /\ Append(w, p) \in Seq(Packet)
      /\ Len(Append(w, p)) = Len(w) + 1 /\ Len(w) \in Nat
      /\ Append(w, p)[Len(w) + 1] = p
      /\ \A k \in 1 .. Len(w) : Append(w, p)[k] = w[k]
  OBVIOUS
<1>2. \A k \in 1 .. Len(w) + 1 : k \in 1 .. Len(w) \/ k = Len(w) + 1
  BY <1>1
<1>3. /\ NoSuback(w) => OneSuback(Append(w, p))
      /\ ~IsSuback(p) => /\ NoSuback(w) => NoSuback(Append(w, p))
                         /\ OneSuback(w) => OneSuback(Append(w, p))
  BY <1>1, <1>2 DEF NoSuback, OneSuback
<1>4. /\ NoAnswer(w) => OneAnswer(Append(w, p))
      /\ ~IsAnswer(p) => /\ NoAnswer(w) => NoAnswer(Append(w, p))
                         /\ OneAnswer(w) => OneAnswer(Append(w, p))
  BY <1>1, <1>2 DEF NoAnswer, OneAnswer
<1> QED BY <1>1, <1>3, <1>4

(***************************************************************************)
(* The invariant.                                                          *)
(***************************************************************************)
BeforeRequests == {"INIT", "CONNECT", "SUBSCRIBE", "SUBSCRIBING"}

\* Nothing was taken for an answer that is none.
AnswerTaken == state = "RESPONSE" /\ response.body # "unknown"

AnswersInv ==
    /\ unanswered \in {0, 1}
    /\ OneAnswer(wire)
    /\ unanswered = 1 => NoAnswer(wire)
    /\ state \in BeforeRequests \cup {"REQUEST", "WAITING"} \/ AnswerTaken =>
         unanswered = 0 /\ NoAnswer(wire)

\* A SUBACK is under way while it is awaited; one that is not read before the
\* workflow ends is not read at all.
SubackInv ==
    /\ OneSuback(wire)
    /\ subackOwed => NoSuback(wire)
    /\ state \notin {"SUBSCRIBING", "COMPLETE"} \/ (state = "COMPLETE" /\ pc = "mqtt") =>
         ~subackOwed /\ NoSuback(wire)

BufferInv ==
    /\ state \in BeforeRequests => response.body = "empty"
    /\ state \in {"REQUEST", "REQUESTING"} => response.body \in {"empty", "assigning"}
    /\ state = "WAITING" => response.body = "assigning"
    /\ state = "COMPLETE" /\ lastResult = "Success" => response.body = "assigned"

RequestsInv ==
    /\ state = "INIT" => pc = "app" /\ requests = {}
    /\ \A r \in requests : r.payload = payload
    /\ QueriesNameOperation

VerdictInv ==
    verdict \notin {"None", "Pending"} =>
      pc = "app" /\ state = "COMPLETE" /\ verdict = lastResult

TimeInv ==
    /\ state \in BeforeRequests \cup {"REQUEST"} => notBefore <= now
    /\ state = "RESPONSE" /\ response.body = "assigning" =>
         notBefore <= now + Interval(response.retry)
    /\ state = "WAITING" => notBefore <= retryTime

Inv == TypeOK /\ AnswersInv /\ SubackInv /\ BufferInv /\ RequestsInv /\ VerdictInv /\ TimeInv

(***************************************************************************)
(* The table of prvProvClientUpdateState.                                  *)
(***************************************************************************)
LEMMA Updates ==
    ASSUME NEW r, state \in WorkflowState \ {"INIT"}, UpdateState(r)
    PROVE  /\ lastResult' = r
           /\ state' \in WorkflowState \ {"INIT"}
           /\ state = "COMPLETE" => state' = "COMPLETE"
           /\ state = "RESPONSE" => state' = IF r = "Pending" THEN "WAITING" ELSE "COMPLETE"
           /\ state \notin {"COMPLETE", "RESPONSE"} /\ r # "Success" => state' = "COMPLETE"
           /\ r = "Success" =>
                /\ state = "CONNECT"     => state' = "SUBSCRIBE"
                /\ state = "SUBSCRIBE"   => state' = "SUBSCRIBING"
                /\ state = "SUBSCRIBING" => state' = "REQUEST"
                /\ state = "REQUEST"     => state' = "REQUESTING"
                /\ state = "REQUESTING"  => state' = "RESPONSE"
                /\ state = "WAITING"     => state' = "REQUEST"
  BY DEF UpdateState, NextState, Successor, WorkflowState

LEMMA TimeTypes ==
    /\ \A time \in Nat : Slice(time) \in Nat
    /\ \A retry \in RetryAfter \cup {0} : retry \in Nat /\ Interval(retry) \in Nat
  BY TimeAssumption DEF Slice, Interval

\* What the end of a round's action leaves.
LEMMA Afterwards ==
    ASSUME TypeOK, VerdictInv, pc # "app", lastResult' \in Result, AfterAction
    PROVE  /\ pc' = IF state' = "COMPLETE" THEN "app" ELSE "mqtt"
           /\ left' \in Nat /\ verdict' \in Result \cup {"None"}
           /\ VerdictInv'
  BY DEF TypeOK, VerdictInv, AfterAction, Return

LEMMA InitInv == Init => Inv
<1> SUFFICES ASSUME Init PROVE Inv
  OBVIOUS
<1>1. TypeOK
  <2>1. NoResponse \in Publication
    BY DEF NoResponse, Publication, Body, FinalBody
  <2>2. wire \in Seq(Packet) /\ requests \subseteq Request
    <3> HIDE DEF Packet, Request
    <3> QED BY DEF Init
  <2> QED BY <2>1, <2>2 DEF Init, TypeOK, WorkflowState, Result
<1>2. AnswersInv /\ SubackInv
  BY DEF Init, AnswersInv, SubackInv, AnswerTaken, OneAnswer, NoAnswer, OneSuback, NoSuback
<1>3. BufferInv /\ RequestsInv /\ VerdictInv /\ TimeInv
  BY DEF Init, BufferInv, RequestsInv, VerdictInv, TimeInv, QueriesNameOperation, NoResponse,
         BeforeRequests
<1> QED BY <1>1, <1>2, <1>3 DEF Inv
-------------------------------------------------------------------------------
(***************************************************************************)
(* The application's calls.                                                *)
(***************************************************************************)
LEMMA CallInv == Inv /\ Call => Inv'
<1> USE DEF Inv, clientVars, callVars, serviceVars
<1>1. ASSUME Inv, AzureIoTProvisioningClient_Register PROVE Inv'
  <2> USE <1>1 DEF AzureIoTProvisioningClient_Register, Entered
  <2>1. \A time \in Timeouts : Slice(time) \in Nat
    BY TimeAssumption, TimeTypes
  <2>2. TypeOK'
    BY <2>1 DEF TypeOK, Return, WorkflowState
  <2>3. AnswersInv' /\ SubackInv'
    BY DEF AnswersInv, SubackInv, AnswerTaken, BeforeRequests, Return
  <2>4. BufferInv' /\ TimeInv'
    BY DEF BufferInv, TimeInv, BeforeRequests
  <2>5. RequestsInv' /\ VerdictInv'
    BY DEF RequestsInv, QueriesNameOperation, VerdictInv, Return
  <2> QED BY <2>2, <2>3, <2>4, <2>5
<1>2. ASSUME Inv, AzureIoTProvisioningClient_SetRegistrationPayload PROVE Inv'
  <2> USE <1>2 DEF AzureIoTProvisioningClient_SetRegistrationPayload, PayloadSettable
  <2>1. TypeOK'
    BY DEF TypeOK
  <2>2. AnswersInv' /\ SubackInv' /\ BufferInv' /\ TimeInv'
    BY DEF AnswersInv, SubackInv, AnswerTaken, BufferInv, TimeInv
  <2>3. RequestsInv' /\ VerdictInv'
    BY DEF RequestsInv, QueriesNameOperation, VerdictInv
  <2> QED BY <2>1, <2>2, <2>3
<1>3. ASSUME Inv, AzureIoTProvisioningClient_SetSymmetricKey PROVE Inv'
  <2> USE <1>3 DEF AzureIoTProvisioningClient_SetSymmetricKey
  <2>1. TypeOK'
    BY DEF TypeOK
  <2>2. AnswersInv' /\ SubackInv' /\ BufferInv' /\ TimeInv'
    BY DEF AnswersInv, SubackInv, AnswerTaken, BufferInv, TimeInv
  <2>3. RequestsInv' /\ VerdictInv'
    BY DEF RequestsInv, QueriesNameOperation, VerdictInv
  <2> QED BY <2>1, <2>2, <2>3
<1> QED BY <1>1, <1>2, <1>3 DEF Call

(***************************************************************************)
(* The actions of a round.                                                 *)
(***************************************************************************)
LEMMA ConnectInv == Inv /\ prvProvClientConnect => Inv'
<1> SUFFICES ASSUME Inv, prvProvClientConnect PROVE Inv'
  OBVIOUS
<1> USE DEF Inv, serviceVars
<1>1. /\ state = "CONNECT" /\ pc # "app" /\ AfterAction
      /\ UNCHANGED <<response, retryTime, payload, key, serviceVars, now, notBefore, wire>>
  BY DEF prvProvClientConnect, Triggered
<1>2. /\ lastResult' \in Result
      /\ \/ state' = "SUBSCRIBE"
         \/ state' = "COMPLETE" /\ lastResult' # "Success"
  <2>1. PICK r \in {"Success", "OutOfMemory", "TokenGenerationFailed", "ServerError"} :
          UpdateState(r)
    BY DEF prvProvClientConnect
  <2> QED BY <1>1, <2>1, Updates DEF WorkflowState, Result, Failure
<1>3. /\ pc' = IF state' = "COMPLETE" THEN "app" ELSE "mqtt"
      /\ left' \in Nat /\ verdict' \in Result \cup {"None"} /\ VerdictInv'
  BY <1>1, <1>2, Afterwards
<1>4. TypeOK'
  BY <1>1, <1>2, <1>3 DEF TypeOK, WorkflowState
<1>5. AnswersInv' /\ SubackInv'
  BY <1>1, <1>2, <1>3 DEF AnswersInv, SubackInv, AnswerTaken, BeforeRequests
<1>6. BufferInv' /\ TimeInv' /\ RequestsInv'
  BY <1>1, <1>2, <1>3 DEF BufferInv, TimeInv, RequestsInv, QueriesNameOperation, BeforeRequests
<1> QED BY <1>3, <1>4, <1>5, <1>6

LEMMA SubscribeInv == Inv /\ prvProvClientSubscribe => Inv'
<1> SUFFICES ASSUME Inv, prvProvClientSubscribe PROVE Inv'
  OBVIOUS
<1> USE DEF Inv
<1>1. /\ state = "SUBSCRIBE" /\ pc # "app" /\ AfterAction
      /\ UNCHANGED <<response, retryTime, payload, key, unanswered, requests, polls, strangers,
                     now, notBefore, wire>>
  BY DEF prvProvClientSubscribe, Triggered
<1>2. /\ lastResult' \in Result /\ subackOwed' \in BOOLEAN
      /\ \/ state' = "SUBSCRIBING"
         \/ state' = "COMPLETE" /\ lastResult' # "Success" /\ ~subackOwed'
  <2>1. PICK r \in {"Success", "SubscribeFailed"} :
          UpdateState(r) /\ subackOwed' = (r = "Success")
    BY DEF prvProvClientSubscribe
  <2> QED BY <1>1, <2>1, Updates DEF WorkflowState, Result, Failure
<1>3. /\ pc' = IF state' = "COMPLETE" THEN "app" ELSE "mqtt"
      /\ left' \in Nat /\ verdict' \in Result \cup {"None"} /\ VerdictInv'
  BY <1>1, <1>2, Afterwards
<1>4. TypeOK'
  BY <1>1, <1>2, <1>3 DEF TypeOK, WorkflowState
<1>5. AnswersInv' /\ SubackInv'
  BY <1>1, <1>2, <1>3 DEF AnswersInv, SubackInv, AnswerTaken, BeforeRequests
<1>6. BufferInv' /\ TimeInv' /\ RequestsInv'
  BY <1>1, <1>2, <1>3 DEF BufferInv, TimeInv, RequestsInv, QueriesNameOperation, BeforeRequests
<1> QED BY <1>3, <1>4, <1>5, <1>6

LEMMA RequestInv == Inv /\ prvProvClientRequest => Inv'
<1> SUFFICES ASSUME Inv, prvProvClientRequest PROVE Inv'
  OBVIOUS
<1> USE DEF Inv
<1>1. /\ state = "REQUEST" /\ pc # "app" /\ AfterAction
      /\ UNCHANGED <<response, retryTime, payload, key, subackOwed, polls, strangers,
                     now, notBefore, wire>>
  BY DEF prvProvClientRequest, Triggered
<1>2. PICK r \in {"Success", "Failed", "PublishFailed"} :
         /\ UpdateState(r)
         /\ IF r = "Success"
              THEN /\ unanswered' = unanswered + 1
                   /\ requests' = requests \cup
                        {[kind    |-> IF FirstRequest THEN "register" ELSE "query",
                          named   |-> response.body = "assigning",
                          payload |-> payload]}
              ELSE UNCHANGED <<unanswered, requests>>
  BY DEF prvProvClientRequest
<1>3. /\ lastResult' \in Result
      /\ IF r = "Success" THEN state' = "REQUESTING"
                          ELSE state' = "COMPLETE" /\ lastResult' # "Success"
  BY <1>1, <1>2, Updates DEF WorkflowState, Result, Failure
<1>4. /\ pc' = IF state' = "COMPLETE" THEN "app" ELSE "mqtt"
      /\ left' \in Nat /\ verdict' \in Result \cup {"None"} /\ VerdictInv'
  BY <1>1, <1>3, Afterwards
<1>5. unanswered = 0 /\ NoAnswer(wire) /\ response.body \in {"empty", "assigning"}
  BY <1>1 DEF AnswersInv, BufferInv
<1>6. RequestsInv' /\ requests' \subseteq Request
  <2>1. CASE r # "Success"
    BY <1>1, <1>2, <1>3, <2>1 DEF RequestsInv, QueriesNameOperation, TypeOK
  <2>2. CASE r = "Success"
    <3> DEFINE sent == [kind    |-> IF FirstRequest THEN "register" ELSE "query",
                        named   |-> response.body = "assigning",
                        payload |-> payload]
    <3>1. requests' = requests \cup {sent}
      BY <1>2, <2>2
    <3>2. /\ sent \in Request /\ sent.payload = payload
          /\ sent.kind = "query" <=> sent.named
      BY <1>5 DEF Request, FirstRequest, TypeOK
    <3> HIDE DEF sent
    <3> QED BY <1>1, <1>3, <2>2, <3>1, <3>2 DEF RequestsInv, QueriesNameOperation, TypeOK
  <2> QED BY <2>1, <2>2
<1>7. TypeOK'
  BY <1>1, <1>2, <1>3, <1>4, <1>6 DEF TypeOK, WorkflowState
<1>8. AnswersInv' /\ SubackInv'
  BY <1>1, <1>2, <1>3, <1>4, <1>5 DEF AnswersInv, SubackInv, AnswerTaken, BeforeRequests
<1>9. BufferInv' /\ TimeInv'
  BY <1>1, <1>3, <1>5 DEF BufferInv, TimeInv, BeforeRequests
<1> QED BY <1>4, <1>6, <1>7, <1>8, <1>9

LEMMA ParseInv == Inv /\ prvProvClientParseResponse => Inv'
<1> SUFFICES ASSUME Inv, prvProvClientParseResponse PROVE Inv'
  OBVIOUS
<1> USE DEF Inv, serviceVars
<1>1. /\ state = "RESPONSE" /\ pc # "app" /\ AfterAction
      /\ UNCHANGED <<response, payload, key, serviceVars, now, notBefore, wire>>
      /\ retryTime' = IF response.body = "assigning"
                        THEN now + Interval(response.retry) ELSE retryTime
  BY DEF prvProvClientParseResponse, Triggered
<1>2. /\ lastResult' \in Result
      /\ \/ state' = "RESPONSE" /\ response.body = "unknown"
         \/ state' = "WAITING" /\ response.body = "assigning"
         \/ state' = "COMPLETE" /\ (lastResult' = "Success" => response.body = "assigned")
  <2>1. CASE response.body = "unknown"
    BY <1>1, <2>1 DEF prvProvClientParseResponse, TypeOK
  <2>2. CASE response.body # "unknown"
    <3>1. UpdateState(ParsedResult(response.body))
      BY <2>2 DEF prvProvClientParseResponse
    <3>2. /\ ParsedResult(response.body) \in Result
          /\ ParsedResult(response.body) = "Pending" => response.body = "assigning"
          /\ ParsedResult(response.body) = "Success" => response.body = "assigned"
      BY DEF ParsedResult, Result, Failure
    <3> QED BY <1>1, <3>1, <3>2, Updates DEF WorkflowState
  <2> QED BY <2>1, <2>2
<1>3. /\ pc' = IF state' = "COMPLETE" THEN "app" ELSE "mqtt"
      /\ left' \in Nat /\ verdict' \in Result \cup {"None"} /\ VerdictInv'
  BY <1>1, <1>2, Afterwards
<1>4. /\ now \in Nat /\ Interval(response.retry) \in Nat
  BY TimeTypes DEF TypeOK, Publication
<1>5. TypeOK'
  BY <1>1, <1>2, <1>3, <1>4 DEF TypeOK, WorkflowState
<1>6. AnswersInv' /\ SubackInv'
  BY <1>1, <1>2, <1>3 DEF AnswersInv, SubackInv, AnswerTaken, BeforeRequests
<1>7. BufferInv' /\ RequestsInv'
  BY <1>1, <1>2 DEF BufferInv, RequestsInv, QueriesNameOperation, BeforeRequests
<1>8. TimeInv'
  BY <1>1, <1>2 DEF TimeInv, BeforeRequests
<1> QED BY <1>3, <1>5, <1>6, <1>7, <1>8

LEMMA CheckTimeoutInv == Inv /\ prvProvClientCheckTimeout => Inv'
<1> SUFFICES ASSUME Inv, prvProvClientCheckTimeout PROVE Inv'
  OBVIOUS
<1> USE DEF Inv, serviceVars
<1>1. /\ state = "WAITING" /\ pc # "app" /\ AfterAction
      /\ UNCHANGED <<response, payload, key, serviceVars, now, notBefore, wire>>
  BY DEF prvProvClientCheckTimeout, Triggered
<1>2. /\ lastResult' \in Result /\ retryTime' \in Nat
      /\ \/ state' = "REQUEST" /\ now > retryTime
         \/ state' = "WAITING" /\ retryTime' = retryTime
  <2>1. CASE MayPoll
    BY <1>1, <2>1, Updates DEF prvProvClientCheckTimeout, MayPoll, WorkflowState, Result
  <2>2. CASE ~MayPoll
    BY <1>1, <2>2 DEF prvProvClientCheckTimeout, TypeOK
  <2> QED BY <2>1, <2>2
<1>3. /\ pc' = IF state' = "COMPLETE" THEN "app" ELSE "mqtt"
      /\ left' \in Nat /\ verdict' \in Result \cup {"None"} /\ VerdictInv'
  BY <1>1, <1>2, Afterwards
<1>4. TypeOK'
  BY <1>1, <1>2, <1>3 DEF TypeOK, WorkflowState
<1>5. AnswersInv' /\ SubackInv'
  BY <1>1, <1>2, <1>3 DEF AnswersInv, SubackInv, AnswerTaken, BeforeRequests
<1>6. BufferInv' /\ RequestsInv'
  BY <1>1, <1>2 DEF BufferInv, RequestsInv, QueriesNameOperation, BeforeRequests
<1>7. TimeInv'
  BY <1>1, <1>2 DEF TimeInv, BeforeRequests, TypeOK
<1> QED BY <1>3, <1>4, <1>5, <1>6, <1>7

LEMMA NoActionInv == Inv /\ NoAction => Inv'
<1> SUFFICES ASSUME Inv, NoAction PROVE Inv'
  OBVIOUS
<1> USE DEF Inv, clientVars, serviceVars
<1>1. /\ state \in {"SUBSCRIBING", "REQUESTING"} /\ pc # "app" /\ pc' = "mqtt"
      /\ UNCHANGED <<clientVars, left, verdict, serviceVars, now, notBefore, wire>>
  BY DEF NoAction, Triggered
<1>2. TypeOK' /\ BufferInv' /\ TimeInv'
  BY <1>1 DEF TypeOK, BufferInv, TimeInv
<1>3. AnswersInv' /\ SubackInv'
  BY <1>1 DEF AnswersInv, SubackInv, AnswerTaken
<1>4. RequestsInv' /\ VerdictInv'
  BY <1>1 DEF RequestsInv, QueriesNameOperation, VerdictInv
<1> QED BY <1>2, <1>3, <1>4

(***************************************************************************)
(* Inside ProcessLoop.                                                     *)
(***************************************************************************)

\* A SUBACK is under way in SUBSCRIBING only, as the workflow has not ended.
LEMMA SubAckRead ==
    ASSUME Inv, prvProvClientMQTTProcessSubAck
    PROVE  /\ state = "SUBSCRIBING" /\ pc = "mqtt"
           /\ state' = "REQUEST" /\ lastResult' = "Success"
           /\ UNCHANGED <<response, retryTime, payload, key, callVars, serviceVars, now, notBefore>>
           /\ wire' = Tail(wire) /\ wire \in Seq(Packet) /\ wire # << >> /\ IsSuback(Head(wire))
<1> USE DEF Inv
<1>1. /\ pc = "mqtt" /\ wire # << >> /\ IsSuback(Head(wire)) /\ wire' = Tail(wire)
      /\ UpdateState("Success")
      /\ UNCHANGED <<response, retryTime, payload, key, callVars, serviceVars, now, notBefore>>
  BY DEF prvProvClientMQTTProcessSubAck, Arrives, IsSuback
<1>2. wire \in Seq(Packet)
  BY DEF TypeOK
<1>3. ~NoSuback(wire)
  BY <1>1, <1>2, Reading
<1>4. state = "SUBSCRIBING"
  BY <1>1, <1>3 DEF SubackInv
<1>5. state' = "REQUEST" /\ lastResult' = "Success"
  BY <1>1, <1>4, Updates DEF WorkflowState
<1> QED BY <1>1, <1>2, <1>4, <1>5

LEMMA SubAckInv == Inv /\ prvProvClientMQTTProcessSubAck => Inv'
<1> SUFFICES ASSUME Inv, prvProvClientMQTTProcessSubAck PROVE Inv'
  OBVIOUS
<1> USE DEF Inv, callVars, serviceVars
<1>1. /\ state = "SUBSCRIBING" /\ pc = "mqtt"
      /\ state' = "REQUEST" /\ lastResult' = "Success"
      /\ UNCHANGED <<response, retryTime, payload, key, callVars, serviceVars, now, notBefore>>
      /\ wire' = Tail(wire) /\ wire \in Seq(Packet) /\ wire # << >> /\ IsSuback(Head(wire))
  BY SubAckRead
<1>2. /\ wire' \in Seq(Packet) /\ NoSuback(wire')
      /\ OneSuback(wire') /\ OneAnswer(wire') /\ NoAnswer(wire')
  BY <1>1, Reading DEF SubackInv, AnswersInv, BeforeRequests
<1>3. ~subackOwed
  BY <1>1, Reading DEF SubackInv
<1>4. TypeOK'
  BY <1>1, <1>2 DEF TypeOK, WorkflowState, Result
<1>5. AnswersInv' /\ SubackInv'
  BY <1>1, <1>2, <1>3 DEF AnswersInv, SubackInv, AnswerTaken, BeforeRequests
<1>6. BufferInv' /\ TimeInv' /\ RequestsInv' /\ VerdictInv'
  BY <1>1 DEF BufferInv, TimeInv, RequestsInv, VerdictInv, QueriesNameOperation, BeforeRequests
<1> QED BY <1>4, <1>5, <1>6

LEMMA ResponseInv == Inv /\ prvProvClientMQTTProcessResponse => Inv'
<1> SUFFICES ASSUME Inv, prvProvClientMQTTProcessResponse PROVE Inv'
  OBVIOUS
<1> USE DEF Inv, callVars, serviceVars
<1> DEFINE answer == Head(wire)
<1>1. /\ pc = "mqtt" /\ wire # << >> /\ answer.type = "PUBLISH" /\ wire' = Tail(wire)
      /\ UNCHANGED <<retryTime, payload, key, callVars, serviceVars, now>>
  BY DEF prvProvClientMQTTProcessResponse, Arrives
<1>2. /\ wire \in Seq(Packet) /\ wire' \in Seq(Packet) /\ answer \in Packet
      /\ NoSuback(wire) => NoSuback(wire')
      /\ NoAnswer(wire) => NoAnswer(wire') /\ ~IsAnswer(answer)
      /\ OneSuback(wire') /\ OneAnswer(wire')
      /\ IsAnswer(answer) => NoAnswer(wire')
  BY <1>1, Reading DEF TypeOK, SubackInv, AnswersInv
<1>3. answer \in Publication
  BY <1>1, <1>2 DEF Packet
<1> HIDE DEF answer
<1>4. CASE UNCHANGED <<state, lastResult, response, notBefore>>
  <2>1. TypeOK' /\ BufferInv' /\ TimeInv'
    BY <1>1, <1>2, <1>4 DEF TypeOK, BufferInv, TimeInv
  <2>2. AnswersInv' /\ SubackInv'
    BY <1>1, <1>2, <1>4 DEF AnswersInv, SubackInv, AnswerTaken
  <2>3. RequestsInv' /\ VerdictInv'
    BY <1>1, <1>4 DEF RequestsInv, QueriesNameOperation, VerdictInv
  <2> QED BY <2>1, <2>2, <2>3
<1>5. CASE /\ state = "REQUESTING" /\ UpdateState("OutOfMemory")
           /\ UNCHANGED <<response, notBefore>>
  <2>1. state' = "COMPLETE" /\ lastResult' = "OutOfMemory"
    BY <1>5, Updates DEF WorkflowState
  <2>2. TypeOK' /\ BufferInv' /\ TimeInv'
    BY <1>1, <1>2, <1>5, <2>1
       DEF TypeOK, BufferInv, TimeInv, WorkflowState, Result, Failure, BeforeRequests
  <2>3. AnswersInv' /\ SubackInv'
    BY <1>1, <1>2, <1>5, <2>1 DEF AnswersInv, SubackInv, AnswerTaken, BeforeRequests
  <2>4. RequestsInv' /\ VerdictInv'
    BY <1>1, <1>5, <2>1 DEF RequestsInv, QueriesNameOperation, VerdictInv
  <2> QED BY <2>2, <2>3, <2>4
<1>6. CASE /\ state = "REQUESTING" /\ response' = answer /\ UpdateState("Success")
           /\ notBefore' = IF answer.body # "assigning" THEN notBefore
                           ELSE now + Interval(answer.retry)
  <2>1. state' = "RESPONSE" /\ lastResult' = "Success"
    BY <1>6, Updates DEF WorkflowState
  <2>2. now \in Nat /\ Interval(answer.retry) \in Nat /\ notBefore' \in Nat
    <3>1. now \in Nat /\ notBefore \in Nat
      BY DEF TypeOK
    <3>2. Interval(answer.retry) \in Nat
      BY <1>3, TimeTypes DEF Publication
    <3> QED BY <1>6, <3>1, <3>2
  <2>3. TypeOK' /\ TimeInv'
    BY <1>1, <1>2, <1>3, <1>6, <2>1, <2>2
       DEF TypeOK, TimeInv, WorkflowState, Result, BeforeRequests
  <2>4. BufferInv'
    BY <1>6, <2>1 DEF BufferInv, BeforeRequests
  <2>5. AnswerTaken' => IsAnswer(answer)
    BY <1>1, <1>6 DEF AnswerTaken, IsAnswer
  <2>6. AnswersInv' /\ SubackInv'
    BY <1>1, <1>2, <1>6, <2>1, <2>5 DEF AnswersInv, SubackInv, BeforeRequests
  <2>7. RequestsInv' /\ VerdictInv'
    BY <1>1, <1>6, <2>1 DEF RequestsInv, QueriesNameOperation, VerdictInv
  <2> QED BY <2>3, <2>4, <2>6, <2>7
<1> QED BY <1>4, <1>5, <1>6 DEF prvProvClientMQTTProcessResponse, Accepts, Interval, answer

LEMMA ProcessLoopInv == Inv /\ (ProcessLoopSucceeds \/ ProcessLoopFails) => Inv'
<1> USE DEF Inv, clientVars, serviceVars
<1>1. ASSUME Inv, ProcessLoopSucceeds PROVE Inv'
  <2> USE <1>1 DEF ProcessLoopSucceeds
  <2>1. Slice(left) \in Nat
    BY TimeTypes DEF TypeOK
  <2>2. TypeOK'
    BY <2>1 DEF TypeOK, Return, Result
  <2>3. AnswersInv' /\ SubackInv' /\ BufferInv' /\ TimeInv'
    BY DEF AnswersInv, SubackInv, AnswerTaken, BufferInv, TimeInv, Return
  <2>4. RequestsInv' /\ VerdictInv'
    BY DEF RequestsInv, QueriesNameOperation, VerdictInv, Return
  <2> QED BY <2>2, <2>3, <2>4
<1>2. ASSUME Inv, ProcessLoopFails PROVE Inv'
  <2>1. /\ pc = "mqtt" /\ UpdateState("Failed")
        /\ Return(IF state' = "COMPLETE" THEN lastResult' ELSE "Pending")
        /\ UNCHANGED <<response, retryTime, payload, key, serviceVars, now, notBefore, wire>>
    BY <1>2 DEF ProcessLoopFails
  <2>2. state \in WorkflowState \ {"INIT"}
    BY <1>2, <2>1 DEF TypeOK, RequestsInv
  <2>3. state' = "COMPLETE" /\ lastResult' = "Failed"
    BY <2>1, <2>2, Updates DEF WorkflowState
  <2>4. TypeOK'
    BY <1>2, <2>1, <2>3 DEF TypeOK, Return, WorkflowState, Result, Failure
  <2>5. AnswersInv' /\ SubackInv'
    BY <1>2, <2>1, <2>3 DEF AnswersInv, SubackInv, AnswerTaken, BeforeRequests, Return
  <2>6. BufferInv' /\ TimeInv' /\ RequestsInv' /\ VerdictInv'
    BY <1>2, <2>1, <2>3 DEF BufferInv, TimeInv, RequestsInv, QueriesNameOperation, VerdictInv,
                            BeforeRequests, Return
  <2> QED BY <2>4, <2>5, <2>6
<1> QED BY <1>1, <1>2

(***************************************************************************)
(* The service and the clock.                                              *)
(***************************************************************************)
LEMMA ServiceInv == Inv /\ (Service \/ Tick) => Inv'
<1> USE DEF Inv, clientVars, callVars, serviceVars
<1>1. ASSUME Inv, ServiceAcknowledges PROVE Inv'
  <2> DEFINE p == [type |-> "SUBACK"]
  <2>1. /\ subackOwed /\ ~subackOwed' /\ wire' = Append(wire, p)
        /\ UNCHANGED <<clientVars, callVars, unanswered, requests, polls, strangers,
                       now, notBefore>>
    BY <1>1 DEF ServiceAcknowledges
  <2>2. p \in Packet /\ ~IsAnswer(p) /\ wire \in Seq(Packet)
    BY <1>1 DEF Packet, IsAnswer, TypeOK
  <2> HIDE DEF p
  <2>3. /\ wire' \in Seq(Packet) /\ OneSuback(wire')
        /\ OneAnswer(wire) => OneAnswer(wire')
        /\ NoAnswer(wire) => NoAnswer(wire')
    BY <1>1, <2>1, <2>2, Sending DEF SubackInv
  <2>4. TypeOK' /\ BufferInv' /\ TimeInv'
    BY <1>1, <2>1, <2>3 DEF TypeOK, BufferInv, TimeInv, ServiceAcknowledges
  <2>5. AnswersInv' /\ SubackInv'
    BY <1>1, <2>1, <2>3 DEF AnswersInv, SubackInv, AnswerTaken
  <2>6. RequestsInv' /\ VerdictInv'
    BY <1>1, <2>1 DEF RequestsInv, QueriesNameOperation, VerdictInv
  <2> QED BY <2>4, <2>5, <2>6
<1>2. ASSUME Inv, ServiceAnswers PROVE Inv'
  <2>1. /\ unanswered > 0 /\ unanswered' = unanswered - 1
        /\ UNCHANGED <<clientVars, callVars, subackOwed, requests, strangers, now, notBefore>>
    BY <1>2 DEF ServiceAnswers
  <2>2. polls' \in Nat
    BY <1>2 DEF ServiceAnswers, TypeOK
  <2>3. PICK body \in FinalBody \cup {"assigning"}, retry \in RetryAfter \cup {0} :
          Publishes(body, retry)
    BY <1>2 DEF ServiceAnswers
  <2> DEFINE p == [type |-> "PUBLISH", body |-> body, retry |-> retry]
  <2>4. p \in Packet /\ ~IsSuback(p) /\ wire \in Seq(Packet) /\ wire' = Append(wire, p)
    BY <1>2, <2>3 DEF Packet, Publication, Body, IsSuback, TypeOK, Publishes
  <2> HIDE DEF p
  <2>5. unanswered = 1 /\ NoAnswer(wire) /\ unanswered' = 0
    BY <1>2, <2>1 DEF AnswersInv
  <2>6. /\ wire' \in Seq(Packet) /\ OneAnswer(wire')
        /\ OneSuback(wire) => OneSuback(wire')
        /\ NoSuback(wire) => NoSuback(wire')
    BY <2>4, <2>5, Sending
  <2>7. TypeOK' /\ BufferInv' /\ TimeInv'
    BY <1>2, <2>1, <2>2, <2>5, <2>6 DEF TypeOK, BufferInv, TimeInv
  <2>8. AnswersInv' /\ SubackInv'
    BY <1>2, <2>1, <2>5, <2>6 DEF AnswersInv, SubackInv, AnswerTaken
  <2>9. RequestsInv' /\ VerdictInv'
    BY <1>2, <2>1 DEF RequestsInv, QueriesNameOperation, VerdictInv
  <2> QED BY <2>7, <2>8, <2>9
<1>3. ASSUME Inv, StrangerPublishes PROVE Inv'
  <2> DEFINE p == [type |-> "PUBLISH", body |-> "unknown", retry |-> 0]
  <2>1. /\ wire' = Append(wire, p) /\ strangers' \in Nat
        /\ UNCHANGED <<clientVars, callVars, subackOwed, unanswered, requests, polls,
                       now, notBefore>>
    BY <1>3 DEF StrangerPublishes, Publishes, TypeOK
  <2>2. p \in Packet /\ ~IsSuback(p) /\ ~IsAnswer(p) /\ wire \in Seq(Packet)
    BY <1>3 DEF Packet, Publication, Body, IsSuback, IsAnswer, TypeOK
  <2> HIDE DEF p
  <2>3. /\ wire' \in Seq(Packet)
        /\ OneSuback(wire) => OneSuback(wire')
        /\ NoSuback(wire) => NoSuback(wire')
        /\ OneAnswer(wire) => OneAnswer(wire')
        /\ NoAnswer(wire) => NoAnswer(wire')
    BY <2>1, <2>2, Sending
  <2>4. TypeOK' /\ BufferInv' /\ TimeInv'
    BY <1>3, <2>1, <2>3 DEF TypeOK, BufferInv, TimeInv
  <2>5. AnswersInv' /\ SubackInv'
    BY <1>3, <2>1, <2>3 DEF AnswersInv, SubackInv, AnswerTaken
  <2>6. RequestsInv' /\ VerdictInv'
    BY <1>3, <2>1 DEF RequestsInv, QueriesNameOperation, VerdictInv
  <2> QED BY <2>4, <2>5, <2>6
<1>4. ASSUME Inv, Tick PROVE Inv'
  <2> USE <1>4 DEF Tick
  <2>1. TypeOK' /\ BufferInv'
    BY DEF TypeOK, BufferInv
  <2>2. TimeInv'
    <3>1. now \in Nat /\ notBefore \in Nat /\ Interval(response.retry) \in Nat
      BY TimeTypes DEF TypeOK, Publication
    <3> HIDE DEF Interval
    <3> QED BY <3>1 DEF TimeInv, BeforeRequests, Interval
  <2>3. AnswersInv' /\ SubackInv'
    BY DEF AnswersInv, SubackInv, AnswerTaken
  <2>4. RequestsInv' /\ VerdictInv'
    BY DEF RequestsInv, QueriesNameOperation, VerdictInv
  <2> QED BY <2>1, <2>2, <2>3, <2>4
<1> QED BY <1>1, <1>2, <1>3, <1>4 DEF Service
-------------------------------------------------------------------------------
LEMMA NextInv == Inv /\ [Next]_vars => Inv'
<1>1. Inv /\ UNCHANGED vars => Inv'
  BY DEF vars, clientVars, callVars, serviceVars, Inv, TypeOK, AnswersInv, AnswerTaken,
         SubackInv, BufferInv, RequestsInv, QueriesNameOperation, VerdictInv, TimeInv
<1> QED
  BY <1>1, CallInv, ConnectInv, SubscribeInv, RequestInv, ParseInv, CheckTimeoutInv,
     NoActionInv, SubAckInv, ResponseInv, ProcessLoopInv, ServiceInv
     DEF Next, prvProvClientTriggerAction, Receive

(***************************************************************************)
(* The invariant holds in every registration, whatever the service answers *)
(* and whatever fails: prvProvClientRunWorkflow keeps what is under way in *)
(* step with ulWorkflowState.                                              *)
(***************************************************************************)
THEOREM Invariance == Spec => []Inv
  BY InitInv, NextInv, PTL DEF Spec

(***************************************************************************)
(* Every variable has its type, for any timeouts, intervals and bounds.    *)
(***************************************************************************)
THEOREM TypeCorrect == Spec => []TypeOK
<1>1. Inv => TypeOK
  BY DEF Inv
<1> QED BY <1>1, Invariance, PTL

(***************************************************************************)
(* The service is never asked while it has still to answer, nor twice,     *)
(* however often prvProvClientRunWorkflow is entered.                      *)
(***************************************************************************)
THEOREM OneRequest == Spec => []OneRequestAtATime
<1>1. Inv => OneRequestAtATime
  BY DEF Inv, AnswersInv, OneRequestAtATime
<1> QED BY <1>1, Invariance, PTL

(***************************************************************************)
(* prvProvClientMQTTProcessSubAck does not look at the state, and need     *)
(* not: a SUBACK is under way only while the workflow waits for it, or     *)
(* when it has ended and no packet is read any more.                       *)
(***************************************************************************)
THEOREM SubackAwaited == Spec => []SubackOnlyWhenAwaited
<1>1. Inv => SubackOnlyWhenAwaited
  BY DEF Inv, SubackInv, SubackOnlyWhenAwaited, NoSuback, IsSuback
<1> QED BY <1>1, Invariance, PTL

(***************************************************************************)
(* The operation id of every query, read out of ucProvisioningLastResponse *)
(* when it is made, is that of the last answer.                            *)
(***************************************************************************)
THEOREM QueriesAlwaysName == Spec => []QueriesNameOperation
<1>1. Inv => QueriesNameOperation
  BY DEF Inv, RequestsInv
<1> QED BY <1>1, Invariance, PTL

(***************************************************************************)
(* The registration payload is fixed when the first request is made.       *)
(***************************************************************************)
THEOREM PayloadAlwaysSame == Spec => []SamePayloadInAllRequests
<1>1. Inv => SamePayloadInAllRequests
  BY DEF Inv, RequestsInv, SamePayloadInAllRequests
<1> QED BY <1>1, Invariance, PTL

(***************************************************************************)
(* AzureIoTProvisioningClient_Register and _GetDeviceAndHub report success *)
(* only with the answer in the buffer that assigns the device.             *)
(***************************************************************************)
THEOREM SuccessAlwaysAssigned == Spec => []SuccessMeansAssigned
<1>1. Inv => SuccessMeansAssigned
  BY DEF Inv, BufferInv, VerdictInv, SuccessMeansAssigned, GetDeviceAndHub
<1> QED BY <1>1, Invariance, PTL

\* With a verdict the workflow is complete, and what the application may call
\* then reports the result that was reported before.
LEMMA VerdictStays ==
    Inv /\ [Next]_vars => (verdict \notin {"None", "Pending"} => verdict' = verdict)
<1> SUFFICES ASSUME Inv, [Next]_vars, verdict \notin {"None", "Pending"}
             PROVE  verdict' = verdict
  OBVIOUS
<1>1. pc = "app" /\ state = "COMPLETE" /\ verdict = lastResult
  BY DEF Inv, VerdictInv
<1>2. CASE Call
  BY <1>1, <1>2 DEF Call, AzureIoTProvisioningClient_Register, Entered, Return, callVars,
                    AzureIoTProvisioningClient_SetRegistrationPayload,
                    AzureIoTProvisioningClient_SetSymmetricKey
<1>3. ~prvProvClientTriggerAction
  BY <1>1 DEF prvProvClientTriggerAction, Triggered, prvProvClientConnect,
              prvProvClientSubscribe, prvProvClientRequest, prvProvClientParseResponse,
              prvProvClientCheckTimeout, NoAction
<1>4. ~Receive /\ ~ProcessLoopSucceeds /\ ~ProcessLoopFails
  BY <1>1 DEF Receive, prvProvClientMQTTProcessSubAck, prvProvClientMQTTProcessResponse,
              Arrives, ProcessLoopSucceeds, ProcessLoopFails
<1>5. CASE Service \/ Tick \/ UNCHANGED vars
  BY <1>5 DEF Service, ServiceAcknowledges, ServiceAnswers, StrangerPublishes, Tick, vars,
              callVars
<1> QED BY <1>2, <1>3, <1>4, <1>5 DEF Next

(***************************************************************************)
(* A verdict that AzureIoTProvisioningClient_Register has reported is      *)
(* reported by every later call.                                           *)
(***************************************************************************)
THEOREM VerdictAlwaysFinal == Spec => VerdictIsFinal
<1>1. Inv /\ [Next]_vars => [verdict \notin {"None", "Pending"} => verdict' = verdict]_vars
  BY VerdictStays
<1> QED BY <1>1, Invariance, PTL DEF Spec, VerdictIsFinal

\* Only prvProvClientRequest asks the service, in a state that is not reached
\* before the wait is over.
LEMMA AskedInTime == Inv /\ [Next]_vars => (unanswered' > unanswered => now >= notBefore)
<1> SUFFICES ASSUME Inv, [Next]_vars, unanswered' > unanswered
             PROVE  now >= notBefore
  OBVIOUS
<1>1. unanswered \in Nat /\ now \in Nat /\ notBefore \in Nat
  BY DEF Inv, TypeOK
<1>2. prvProvClientRequest
  <2>1. CASE Call \/ ProcessLoopSucceeds \/ ProcessLoopFails \/ Tick \/ UNCHANGED vars
    BY <1>1, <2>1 DEF Call, AzureIoTProvisioningClient_Register, ProcessLoopSucceeds,
         AzureIoTProvisioningClient_SetRegistrationPayload, ProcessLoopFails, Tick, vars,
         AzureIoTProvisioningClient_SetSymmetricKey, serviceVars
  <2>2. CASE prvProvClientTriggerAction
    BY <1>1, <2>2 DEF prvProvClientTriggerAction, prvProvClientConnect, serviceVars,
         prvProvClientSubscribe, prvProvClientParseResponse, prvProvClientCheckTimeout, NoAction
  <2>3. CASE Receive
    BY <1>1, <2>3 DEF Receive, prvProvClientMQTTProcessSubAck,
         prvProvClientMQTTProcessResponse, serviceVars
  <2>4. CASE Service
    BY <1>1, <2>4 DEF Service, ServiceAcknowledges, ServiceAnswers, StrangerPublishes
  <2> QED BY <2>1, <2>2, <2>3, <2>4 DEF Next
<1>3. state = "REQUEST"
  BY <1>2 DEF prvProvClientRequest, Triggered
<1> QED BY <1>1, <1>3 DEF Inv, TimeInv

(***************************************************************************)
(* The device never asks again before the time its service named is over,  *)
(* for any intervals and any way the clock and the Register calls fall.    *)
(***************************************************************************)
THEOREM RetryAfterAlwaysHonoured == Spec => RetryAfterHonoured
<1>1. Inv /\ [Next]_vars => [unanswered' > unanswered => now >= notBefore]_vars
  BY AskedInTime
<1> QED BY <1>1, Invariance, PTL DEF Spec, RetryAfterHonoured
-------------------------------------------------------------------------------
(***************************************************************************)
(* The refinement of RegistrationContract.  It needs besides Inv that in   *)
(* REQUESTING an answer is to come, so that what is taken for one uses it  *)
(* up, and that a workflow which ends inside ProcessLoop ends in failure.  *)
(***************************************************************************)
RefinementInv ==
    /\ state = "REQUESTING" => unanswered = 1 \/ ~NoAnswer(wire)
    /\ state = "COMPLETE" /\ pc = "mqtt" => lastResult # "Success"

\* With one answer under way at most, Outstanding needs no counting.
LEMMA OutstandingIs ==
    TypeOK /\ OneAnswer(wire) =>
      Outstanding = unanswered + (IF NoAnswer(wire) THEN 0 ELSE 1)
<1> SUFFICES ASSUME TypeOK, OneAnswer(wire)
             PROVE  Outstanding = unanswered + (IF NoAnswer(wire) THEN 0 ELSE 1)
  OBVIOUS
<1>1. AnswersUnderWay = {k \in 1 .. Len(wire) : IsAnswer(wire[k])}
  BY DEF AnswersUnderWay, IsAnswer
<1>2. CASE NoAnswer(wire)
  <2>1. AnswersUnderWay = {}
    BY <1>1, <1>2 DEF NoAnswer
  <2> QED BY <1>2, <2>1, FS_EmptySet DEF Outstanding
<1>3. CASE ~NoAnswer(wire)
  <2>1. PICK k \in 1 .. Len(wire) : IsAnswer(wire[k])
    BY <1>3 DEF NoAnswer
  <2>2. AnswersUnderWay = {k}
    BY <1>1, <2>1 DEF OneAnswer
  <2>3. Cardinality({k}) = 1
    BY FS_Singleton
  <2> QED BY <1>3, <2>2, <2>3 DEF Outstanding
<1> QED BY <1>2, <1>3

\* What reading and sending do to the answers under way.
LEMMA AnswersMove ==
    ASSUME NEW w \in Seq(Packet)
    PROVE  /\ w # << >> /\ ~IsAnswer(Head(w)) => (NoAnswer(w) <=> NoAnswer(Tail(w)))
           /\ \A p \in Packet :
                /\ IsAnswer(p) => ~NoAnswer(Append(w, p))
                /\ ~IsAnswer(p) => (NoAnswer(w) <=> NoAnswer(Append(w, p)))
<1>1. ASSUME w # << >>, ~IsAnswer(Head(w)), ~NoAnswer(w) PROVE ~NoAnswer(Tail(w))
  <2>1. PICK k \in 1 .. Len(w) : IsAnswer(w[k])
    BY <1>1 DEF NoAnswer
  <2>2. k # 1
    BY <1>1, <2>1
  <2>3. k - 1 \in 1 .. Len(Tail(w)) /\ Tail(w)[k - 1] = w[k]
    <3> HIDE DEF Packet
    <3> QED BY <1>1, <2>2
  <2> QED BY <2>1, <2>3 DEF NoAnswer
<1>2. ASSUME NEW p \in Packet
      PROVE  /\ IsAnswer(p) => ~NoAnswer(Append(w, p))
             /\ ~NoAnswer(w) => ~NoAnswer(Append(w, p))
  <2>1. /\ Len(w) \in Nat
        /\ Len(w) + 1 \in 1 .. Len(Append(w, p)) /\ Append(w, p)[Len(w) + 1] = p
        /\ \A k \in 1 .. Len(w) : k \in 1 .. Len(Append(w, p)) /\ Append(w, p)[k] = w[k]
    <3> HIDE DEF Packet
    <3> QED OBVIOUS
  <2> QED BY <2>1 DEF NoAnswer
<1> QED BY <1>1, <1>2, Reading, Sending

\* The mapping.
outcomeOf == IF state = "COMPLETE" THEN lastResult ELSE "None"
abstract == <<Outstanding, response.body, outcomeOf, verdict>>

LEMMA OutstandingStays ==
    ASSUME Inv, Inv', UNCHANGED unanswered, NoAnswer(wire) <=> NoAnswer(wire')
    PROVE  Outstanding' = Outstanding
<1>1. Outstanding = unanswered + (IF NoAnswer(wire) THEN 0 ELSE 1)
  BY OutstandingIs DEF Inv, AnswersInv
<1>2. Outstanding' = unanswered' + (IF NoAnswer(wire') THEN 0 ELSE 1)
  <2>1. (TypeOK /\ OneAnswer(wire) =>
           Outstanding = unanswered + (IF NoAnswer(wire) THEN 0 ELSE 1))'
    BY OutstandingIs, PTL
  <2> QED BY <2>1 DEF Inv, AnswersInv
<1> QED BY <1>1, <1>2

LEMMA RefinementInvInit == Init => RefinementInv
  BY DEF Init, RefinementInv

LEMMA RefinementInvNext == Inv /\ RefinementInv /\ [Next]_vars => RefinementInv'
<1> SUFFICES ASSUME Inv, RefinementInv, [Next]_vars PROVE RefinementInv'
  OBVIOUS
<1> USE DEF clientVars, callVars, serviceVars
<1>1. wire \in Seq(Packet) /\ unanswered \in {0, 1} /\ state \in WorkflowState
  BY DEF Inv, TypeOK, AnswersInv
<1>2. CASE Call
  BY <1>2 DEF Call, AzureIoTProvisioningClient_Register, Entered, Return, RefinementInv,
              AzureIoTProvisioningClient_SetRegistrationPayload,
              AzureIoTProvisioningClient_SetSymmetricKey
<1>3. CASE prvProvClientTriggerAction
  <2>1. pc' # "mqtt" \/ state' # "COMPLETE"
    BY <1>3 DEF prvProvClientTriggerAction, prvProvClientConnect, prvProvClientSubscribe,
         prvProvClientRequest, prvProvClientParseResponse, prvProvClientCheckTimeout,
         NoAction, Triggered, AfterAction, Return
  <2>2. CASE prvProvClientRequest
    <3>1. PICK r : /\ UpdateState(r)
                   /\ r = "Success" => unanswered' = unanswered + 1
      BY <2>2 DEF prvProvClientRequest
    <3>2. state = "REQUEST" /\ unanswered = 0
      BY <2>2 DEF prvProvClientRequest, Triggered, Inv, AnswersInv
    <3>3. state' = "REQUESTING" => unanswered' = 1
      BY <3>1, <3>2, Updates DEF WorkflowState
    <3> QED BY <2>1, <3>3 DEF RefinementInv
  <2>3. CASE prvProvClientConnect \/ prvProvClientSubscribe
    <3>1. PICK r : UpdateState(r)
      BY <2>3 DEF prvProvClientConnect, prvProvClientSubscribe
    <3>2. state \in {"CONNECT", "SUBSCRIBE"}
      BY <2>3 DEF prvProvClientConnect, prvProvClientSubscribe, Triggered
    <3>3. state' # "REQUESTING"
      BY <3>1, <3>2, Updates DEF WorkflowState
    <3> QED BY <2>1, <3>3 DEF RefinementInv
  <2>4. CASE prvProvClientParseResponse \/ prvProvClientCheckTimeout
    <3>1. (\E r : UpdateState(r)) \/ state' = state
      BY <2>4 DEF prvProvClientParseResponse, prvProvClientCheckTimeout
    <3>2. state \in {"RESPONSE", "WAITING"}
      BY <2>4 DEF prvProvClientParseResponse, prvProvClientCheckTimeout, Triggered
    <3>3. state' # "REQUESTING"
      BY <3>1, <3>2, Updates DEF WorkflowState
    <3> QED BY <2>1, <3>3 DEF RefinementInv
  <2>5. CASE NoAction
    BY <2>1, <2>5 DEF NoAction, RefinementInv
  <2> QED BY <1>3, <2>2, <2>3, <2>4, <2>5 DEF prvProvClientTriggerAction
<1>4. CASE prvProvClientMQTTProcessSubAck
  BY <1>4, SubAckRead DEF RefinementInv
<1>5. CASE prvProvClientMQTTProcessResponse
  <2> DEFINE answer == Head(wire)
  <2>1. /\ pc = "mqtt" /\ wire # << >> /\ wire' = Tail(wire)
        /\ UNCHANGED <<callVars, serviceVars>>
    BY <1>5 DEF prvProvClientMQTTProcessResponse, Arrives
  <2>2. CASE ~Accepts /\ UNCHANGED <<state, lastResult>>
    BY <2>1, <2>2 DEF Accepts, RefinementInv
  <2>3. CASE Accepts /\ UpdateState("OutOfMemory")
    BY <2>3, Updates DEF Accepts, RefinementInv, WorkflowState
  <2>4. CASE Accepts /\ UpdateState("Success")
    BY <2>4, Updates DEF Accepts, RefinementInv, WorkflowState
  <2> QED BY <1>5, <2>2, <2>3, <2>4 DEF prvProvClientMQTTProcessResponse
<1>6. CASE ProcessLoopSucceeds
  BY <1>6 DEF ProcessLoopSucceeds, Return, RefinementInv
<1>7. CASE ProcessLoopFails
  <2>1. pc' = "app" /\ UpdateState("Failed") /\ state # "INIT"
    BY <1>7 DEF ProcessLoopFails, Return, Inv, RequestsInv
  <2>2. state' = "COMPLETE"
    BY <1>1, <2>1, Updates DEF WorkflowState
  <2> QED BY <2>1, <2>2 DEF RefinementInv
<1>8. CASE ServiceAcknowledges \/ StrangerPublishes
  <2>1. PICK p \in Packet : wire' = Append(wire, p)
    BY <1>8 DEF ServiceAcknowledges, StrangerPublishes, Publishes, Packet, Publication, Body
  <2>2. UNCHANGED <<state, lastResult, pc, unanswered>>
    BY <1>8 DEF ServiceAcknowledges, StrangerPublishes
  <2>3. ~NoAnswer(wire) => ~NoAnswer(wire')
    BY <1>1, <2>1, AnswersMove
  <2> QED BY <2>2, <2>3 DEF RefinementInv
<1>9. CASE ServiceAnswers
  <2>1. PICK p \in Packet : IsAnswer(p) /\ wire' = Append(wire, p)
    BY <1>9 DEF ServiceAnswers, Publishes, Packet, Publication, Body, FinalBody, IsAnswer
  <2>2. UNCHANGED <<state, lastResult, pc>>
    BY <1>9 DEF ServiceAnswers
  <2>3. ~NoAnswer(wire')
    BY <1>1, <2>1, AnswersMove
  <2> QED BY <2>2, <2>3 DEF RefinementInv
<1>10. CASE Tick \/ UNCHANGED vars
  BY <1>10 DEF Tick, vars, RefinementInv
<1> QED BY <1>2, <1>3, <1>4, <1>5, <1>6, <1>7, <1>8, <1>9, <1>10 DEF Next, Receive, Service

\* The first states map to the contract's.
LEMMA ContractInit == Init => Contract!Init
<1> SUFFICES ASSUME Init PROVE Contract!Init
  OBVIOUS
<1>1. TypeOK /\ OneAnswer(wire)
  BY InitInv DEF Inv, AnswersInv
<1>2. Outstanding = 0
  BY <1>1, OutstandingIs DEF Init, NoAnswer
<1> QED BY <1>2 DEF Init, NoResponse, Contract!Init

\* Every step maps to one of the contract's, or to none.
LEMMA ContractNext ==
    Inv /\ Inv' /\ RefinementInv /\ [Next]_vars => Contract!Next \/ UNCHANGED abstract
<1> SUFFICES ASSUME Inv, Inv', RefinementInv, [Next]_vars
             PROVE  Contract!Next \/ UNCHANGED abstract
  OBVIOUS
<1> USE DEF clientVars, callVars, serviceVars
<1> HIDE DEF Outstanding
<1> DEFINE Owed(u, w) == u + (IF NoAnswer(w) THEN 0 ELSE 1)
<1>1. /\ Outstanding = Owed(unanswered, wire) /\ Outstanding' = Owed(unanswered', wire')
      /\ unanswered \in {0, 1} /\ wire \in Seq(Packet) /\ state \in WorkflowState
      /\ unanswered = 1 => NoAnswer(wire)
      /\ lastResult \in Result /\ lastResult' \in Result /\ response' \in Publication
  <2>1. (TypeOK /\ OneAnswer(wire) =>
           Outstanding = unanswered + (IF NoAnswer(wire) THEN 0 ELSE 1))'
    BY OutstandingIs, PTL
  <2>2. TypeOK /\ OneAnswer(wire) /\ TypeOK' /\ OneAnswer(wire)'
    BY DEF Inv, AnswersInv
  <2>3. Outstanding = Owed(unanswered, wire) /\ Outstanding' = Owed(unanswered', wire')
    BY <2>1, <2>2, OutstandingIs
  <2> QED BY <2>3 DEF Inv, TypeOK, AnswersInv
<1>2. Outstanding \in {0, 1}
  BY <1>1
<1>3. pc # "app" => verdict \in {"None", "Pending"}
  BY DEF Inv, VerdictInv
<1>4. CASE Call
  <2>1. UNCHANGED <<unanswered, wire, response, lastResult>>
    BY <1>4 DEF Call, AzureIoTProvisioningClient_Register,
         AzureIoTProvisioningClient_SetRegistrationPayload,
         AzureIoTProvisioningClient_SetSymmetricKey
  <2>2. Outstanding' = Outstanding
    BY <1>1, <2>1
  <2>3. \/ UNCHANGED <<outcomeOf, verdict>>
        \/ state = "COMPLETE" /\ state' = "COMPLETE" /\ verdict' = lastResult
    BY <1>4, <2>1 DEF Call, AzureIoTProvisioningClient_Register, Entered, Return, outcomeOf,
         AzureIoTProvisioningClient_SetRegistrationPayload,
         AzureIoTProvisioningClient_SetSymmetricKey
  <2>4. lastResult # "None"
    BY <1>1 DEF Result, Failure
  <2> QED BY <2>1, <2>2, <2>3, <2>4 DEF abstract, Contract!Next, Contract!Tell
<1>5. ASSUME pc # "app", state' = "COMPLETE", outcomeOf # "Success",
             lastResult' \in Failure, verdict' \in {verdict, lastResult'},
             response' = response, Outstanding' \in {Outstanding, 0}
      PROVE  Contract!Next
  <2>1. Contract!End(lastResult')
    BY <1>3, <1>5 DEF Contract!End, outcomeOf
  <2> QED BY <1>5, <2>1 DEF Contract!Next
<1>6. CASE prvProvClientTriggerAction
  <2>1. /\ pc # "app" /\ outcomeOf = "None" /\ UNCHANGED <<wire, response>>
        /\ IF state' = "COMPLETE" THEN verdict' = lastResult' ELSE verdict' = verdict
    BY <1>6 DEF prvProvClientTriggerAction, prvProvClientConnect, prvProvClientSubscribe,
         prvProvClientRequest, prvProvClientParseResponse, prvProvClientCheckTimeout,
         NoAction, Triggered, AfterAction, Return, outcomeOf
  <2>2. CASE prvProvClientConnect \/ prvProvClientSubscribe
    <3>1. Outstanding' = Outstanding
      BY <1>1, <2>1, <2>2 DEF prvProvClientConnect, prvProvClientSubscribe
    <3>2. PICK r \in {"Success"} \cup Failure : UpdateState(r)
      BY <2>2 DEF prvProvClientConnect, prvProvClientSubscribe, Failure
    <3>3. state \in {"CONNECT", "SUBSCRIBE"}
      BY <2>2 DEF prvProvClientConnect, prvProvClientSubscribe, Triggered
    <3>4. state' # "COMPLETE" \/ (state' = "COMPLETE" /\ lastResult' \in Failure)
      BY <3>2, <3>3, Updates DEF WorkflowState
    <3>5. CASE state' # "COMPLETE"
      BY <2>1, <3>1, <3>5 DEF abstract, outcomeOf
    <3> QED BY <1>5, <2>1, <3>1, <3>4, <3>5
  <2>3. CASE prvProvClientRequest
    <3>1. PICK r \in {"Success"} \cup Failure :
            /\ UpdateState(r)
            /\ IF r = "Success" THEN unanswered' = unanswered + 1
                                ELSE unanswered' = unanswered
      BY <2>3 DEF prvProvClientRequest, Failure
    <3>2. /\ state = "REQUEST" /\ unanswered = 0 /\ NoAnswer(wire)
          /\ response.body \in {"empty", "assigning"}
      BY <2>3 DEF prvProvClientRequest, Triggered, Inv, AnswersInv, BufferInv
    <3>3. CASE r = "Success"
      <4>1. state' = "REQUESTING"
        BY <3>1, <3>2, <3>3, Updates DEF WorkflowState
      <4>2. Outstanding = 0 /\ Outstanding' = 1
        BY <1>1, <2>1, <3>1, <3>2, <3>3
      <4> QED BY <2>1, <3>2, <4>1, <4>2 DEF Contract!Next, Contract!Ask, outcomeOf
    <3>4. CASE r # "Success"
      <4>1. state' = "COMPLETE" /\ lastResult' \in Failure
        BY <3>1, <3>2, <3>4, Updates DEF WorkflowState
      <4>2. Outstanding' = Outstanding
        BY <1>1, <2>1, <3>1, <3>4
      <4> QED BY <1>5, <2>1, <4>1, <4>2
    <3> QED BY <3>3, <3>4
  <2>4. CASE prvProvClientParseResponse
    <3>1. state = "RESPONSE" /\ unanswered' = unanswered
      BY <2>4 DEF prvProvClientParseResponse, Triggered
    <3>2. Outstanding' = Outstanding
      BY <1>1, <2>1, <3>1
    <3>3. CASE UNCHANGED state
      BY <2>1, <3>1, <3>2, <3>3 DEF abstract, outcomeOf
    <3>4. CASE UpdateState(ParsedResult(response.body))
      <4>1. \/ state' = "WAITING"
            \/ state' = "COMPLETE" /\ lastResult' = ParsedResult(response.body)
                                   /\ lastResult' # "Pending"
        BY <3>1, <3>4, Updates DEF WorkflowState
      <4>2. CASE state' = "WAITING"
        BY <2>1, <3>2, <4>2 DEF abstract, outcomeOf
      <4>3. CASE state' = "COMPLETE" /\ lastResult' = "Success"
        <5>1. response.body = "assigned"
          BY <4>1, <4>3 DEF ParsedResult
        <5>2. Contract!End("Success")
          BY <1>3, <2>1, <3>2, <4>3, <5>1 DEF Contract!End, outcomeOf
        <5> QED BY <5>2 DEF Contract!Next
      <4>4. CASE state' = "COMPLETE" /\ lastResult' # "Success"
        <5>1. lastResult' \in Failure
          BY <1>1, <4>1, <4>4 DEF Result
        <5> QED BY <1>5, <2>1, <3>2, <4>4, <5>1
      <4> QED BY <4>1, <4>2, <4>3, <4>4
    <3> QED BY <2>4, <3>3, <3>4 DEF prvProvClientParseResponse
  <2>5. CASE prvProvClientCheckTimeout \/ NoAction
    <3>1. unanswered' = unanswered /\ state \in {"WAITING", "SUBSCRIBING", "REQUESTING"}
      BY <2>5 DEF prvProvClientCheckTimeout, NoAction, Triggered
    <3>2. Outstanding' = Outstanding
      BY <1>1, <2>1, <3>1
    <3>3. state' # "COMPLETE"
      BY <2>5, <3>1, Updates
         DEF prvProvClientCheckTimeout, NoAction, Triggered, WorkflowState
    <3> QED BY <2>1, <3>2, <3>3 DEF abstract, outcomeOf
  <2> QED BY <1>6, <2>2, <2>3, <2>4, <2>5 DEF prvProvClientTriggerAction
<1>7. CASE prvProvClientMQTTProcessSubAck
  <2>1. /\ state' = "REQUEST" /\ state = "SUBSCRIBING"
        /\ UNCHANGED <<response, verdict, unanswered>>
        /\ wire' = Tail(wire) /\ wire # << >> /\ IsSuback(Head(wire))
    BY <1>7, SubAckRead
  <2>2. NoAnswer(wire) <=> NoAnswer(wire')
    BY <1>1, <2>1, AnswersMove DEF IsSuback, IsAnswer
  <2>3. Outstanding' = Outstanding
    BY <1>1, <2>1, <2>2
  <2> QED BY <2>1, <2>3 DEF abstract, outcomeOf
<1>8. CASE prvProvClientMQTTProcessResponse
  <2> DEFINE answer == Head(wire)
  <2>1. /\ pc = "mqtt" /\ wire # << >> /\ wire' = Tail(wire) /\ answer.type = "PUBLISH"
        /\ UNCHANGED <<verdict, unanswered>>
    BY <1>8 DEF prvProvClientMQTTProcessResponse, Arrives
  <2>2. /\ IsAnswer(answer) <=> answer.body # "unknown"
        /\ ~IsAnswer(answer) => (NoAnswer(wire) <=> NoAnswer(wire'))
        /\ IsAnswer(answer) => ~NoAnswer(wire) /\ NoAnswer(wire')
    <3>1. OneAnswer(wire)
      BY DEF Inv, AnswersInv
    <3> QED BY <1>1, <2>1, <3>1, AnswersMove, Reading DEF IsAnswer
  <2>3. /\ ~IsAnswer(answer) => Outstanding' = Outstanding
        /\ IsAnswer(answer) => unanswered = 0 /\ Outstanding = 1 /\ Outstanding' = 0
    BY <1>1, <2>1, <2>2
  <2> HIDE DEF answer
  <2>4. CASE ~Accepts /\ UNCHANGED <<state, lastResult, response>>
    BY <2>1, <2>3, <2>4 DEF abstract, outcomeOf, Contract!Next, Contract!Drop
  <2>5. CASE Accepts /\ UpdateState("OutOfMemory") /\ response' = response
    <3>1. state' = "COMPLETE" /\ lastResult' \in Failure /\ outcomeOf = "None"
      BY <2>5, Updates DEF Accepts, WorkflowState, Failure, outcomeOf
    <3> QED BY <1>5, <2>1, <2>3, <2>5, <3>1
  <2>6. CASE Accepts /\ UpdateState("Success") /\ response' = answer
    <3>1. state' = "RESPONSE" /\ state = "REQUESTING"
      BY <2>6, Updates DEF Accepts, WorkflowState
    <3>2. answer.body \in Body
      BY <1>1, <2>6 DEF Publication
    <3>3. Outstanding = 1
      BY <1>1, <3>1 DEF RefinementInv
    <3>4. Contract!Hear(answer.body)
      BY <2>1, <2>3, <2>6, <3>1, <3>3 DEF Contract!Hear, outcomeOf
    <3> QED BY <3>2, <3>4 DEF Contract!Next
  <2> QED BY <1>8, <2>4, <2>5, <2>6 DEF prvProvClientMQTTProcessResponse, answer
<1>9. CASE ProcessLoopSucceeds
  <2>1. /\ UNCHANGED <<unanswered, wire, response, state, lastResult>>
        /\ verdict' \in {verdict, IF state = "COMPLETE" THEN lastResult ELSE "Pending"}
    BY <1>9 DEF ProcessLoopSucceeds, Return
  <2>2. Outstanding' = Outstanding /\ lastResult # "None"
    BY <1>1, <2>1 DEF Result, Failure
  <2> QED BY <2>1, <2>2 DEF abstract, outcomeOf, Contract!Next, Contract!Tell
<1>10. CASE ProcessLoopFails
  <2>1. /\ pc = "mqtt" /\ UpdateState("Failed") /\ UNCHANGED <<unanswered, wire, response>>
        /\ verdict' = IF state' = "COMPLETE" THEN lastResult' ELSE "Pending"
    BY <1>10 DEF ProcessLoopFails, Return
  <2>2. state # "INIT" /\ outcomeOf # "Success"
    BY <2>1 DEF Inv, RequestsInv, RefinementInv, outcomeOf
  <2>3. state' = "COMPLETE" /\ lastResult' = "Failed"
    BY <1>1, <2>1, <2>2, Updates DEF WorkflowState
  <2>4. Outstanding' = Outstanding
    BY <1>1, <2>1
  <2> QED BY <1>5, <2>1, <2>2, <2>3, <2>4 DEF Failure
<1>11. CASE ServiceAcknowledges \/ StrangerPublishes
  <2>1. PICK p \in Packet : ~IsAnswer(p) /\ wire' = Append(wire, p)
    BY <1>11
       DEF ServiceAcknowledges, StrangerPublishes, Publishes, Packet, Publication, Body, IsAnswer
  <2>2. UNCHANGED <<state, lastResult, response, verdict, unanswered>>
    BY <1>11 DEF ServiceAcknowledges, StrangerPublishes
  <2>3. NoAnswer(wire) <=> NoAnswer(wire')
    BY <1>1, <2>1, AnswersMove
  <2>4. Outstanding' = Outstanding
    BY <1>1, <2>2, <2>3
  <2> QED BY <2>2, <2>4 DEF abstract, outcomeOf
<1>12. CASE ServiceAnswers
  <2>1. PICK p \in Packet : IsAnswer(p) /\ wire' = Append(wire, p)
    BY <1>12 DEF ServiceAnswers, Publishes, Packet, Publication, Body, FinalBody, IsAnswer
  <2>2. /\ UNCHANGED <<state, lastResult, response, verdict>>
        /\ unanswered > 0 /\ unanswered' = unanswered - 1
    BY <1>12 DEF ServiceAnswers
  <2>3. ~NoAnswer(wire')
    BY <1>1, <2>1, AnswersMove
  <2>4. Outstanding' = Outstanding
    BY <1>1, <2>2, <2>3
  <2> QED BY <2>2, <2>4 DEF abstract, outcomeOf
<1>13. CASE Tick \/ UNCHANGED vars
  <2>1. UNCHANGED <<state, lastResult, response, verdict, unanswered, wire>>
    BY <1>13 DEF Tick, vars
  <2>2. Outstanding' = Outstanding
    BY <1>1, <2>1
  <2> QED BY <2>1, <2>2 DEF abstract, outcomeOf
<1> QED
  BY <1>4, <1>6, <1>7, <1>8, <1>9, <1>10, <1>11, <1>12, <1>13 DEF Next, Receive, Service

(***************************************************************************)
(* The provisioning client implements the registration contract, whatever  *)
(* arrives, fails or times out while AzureIoTProvisioningClient_Register   *)
(* is called.                                                              *)
(***************************************************************************)
THEOREM ContractImplemented == Spec => ImplementsContract
<1>1. Inv /\ Inv' /\ RefinementInv /\ [Next]_vars => [Contract!Next]_(Contract!vars)
  BY ContractNext DEF abstract, Contract!vars, outcomeOf
<1>2. Spec => []RefinementInv
  BY RefinementInvInit, RefinementInvNext, Invariance, PTL DEF Spec
<1> QED
  BY <1>1, <1>2, ContractInit, Invariance, PTL DEF Spec, ImplementsContract, Contract!Spec
=================================================================================
