--------------------------- MODULE ProvisioningClient ---------------------------
(***************************************************************************)
(* The Device Provisioning client                                          *)
(* (source/azure_iot_provisioning_client.c): the workflow that             *)
(* AzureIoTProvisioningClient_Register drives, its state changed both by   *)
(* the actions the call triggers and by the packets that arrive while it   *)
(* is inside AzureIoTMQTT_ProcessLoop, and the single buffer that the last *)
(* answer is kept in and that the parsed answer points into.               *)
(*                                                                         *)
(* coreMQTT and the provisioning service are external: a SUBSCRIBE is      *)
(* acknowledged once, a request is answered once, and publications on      *)
(* other topics may arrive between them.                                   *)
(***************************************************************************)
EXTENDS Naturals, Sequences

CONSTANTS
    LoopTime,           \* azureiotprovisioningPROCESS_LOOP_TIMEOUT_MS
    Timeouts,           \* the timeouts the application passes to Register
    PollingInterval,    \* azureiotconfigPROVISIONING_POLLING_INTERVAL_S
    RetryAfter,         \* the retry-after values of answers; 0 for none
    MaxPolls,           \* bound: "assigning" answers
    MaxStrangers        \* bound: publications on other topics

ASSUME TimeAssumption ==
    /\ LoopTime \in Nat \ {0}
    /\ Timeouts \subseteq Nat
    /\ PollingInterval \in Nat \ {0}
    /\ RetryAfter \subseteq Nat
ASSUME BoundAssumption == MaxPolls \in Nat /\ MaxStrangers \in Nat

WorkflowState ==
    {"INIT", "CONNECT", "SUBSCRIBE", "SUBSCRIBING", "REQUEST", "REQUESTING",
     "RESPONSE", "WAITING", "COMPLETE"}

Failure ==
    {"Failed", "OutOfMemory", "ServerError", "TokenGenerationFailed",
     "SubscribeFailed", "PublishFailed", "InvalidResponse"}
Result == {"Success", "Pending"} \cup Failure

(***************************************************************************)
(* Publications.  body is what the parser of the SDK core makes of one:    *)
(* "unknown" when the topic is not an answer's (AZ_ERROR_IOT_TOPIC_NO_     *)
(* MATCH), "malformed" when it cannot be parsed; "oversize" ones exceed    *)
(* the response buffer and "empty" ones have no payload.                   *)
(***************************************************************************)
FinalBody == {"assigned", "failed", "disabled", "malformed", "empty", "oversize"}
Body == FinalBody \cup {"assigning", "unknown"}
Publication == [type : {"PUBLISH"}, body : Body, retry : RetryAfter \cup {0}]

\* ucProvisioningLastResponse before anything was received (lengths zero).
NoResponse == [type |-> "PUBLISH", body |-> "empty", retry |-> 0]

Packet == [type : {"SUBACK"}] \cup Publication

\* A request at the service: what it asks, and whether an "assigning" answer
\* was in the response buffer, where its operation id is read from.
Request == [kind : {"register", "query"}, named : BOOLEAN, payload : BOOLEAN]

VARIABLES
    state,          \* ulWorkflowState
    lastResult,     \* ulLastOperationResult
    response,       \* ucProvisioningLastResponse and its two lengths
    retryTime,      \* ullRetryAfter
    payload,        \* a registration payload was set
    key,            \* a symmetric key was set, with pxTokenRefresh
    pc,             \* "app", or in Register: "trigger", or inside "mqtt"
    left,           \* ulTimeoutMilliseconds still to spend
    verdict,        \* what Register returned last, "None" before
    now,            \* xGetTimeFunction, in seconds
    subackOwed,     \* the service has to acknowledge the subscription
    unanswered,     \* requests the service has not answered
    requests,       \* history: the requests the service received
    notBefore,      \* history: the time the last answer asks to wait for
    polls,          \* "assigning" answers sent so far
    strangers,      \* publications on other topics so far
    wire            \* packets under way to the client, in order

clientVars  == <<state, lastResult, response, retryTime, payload, key>>
callVars    == <<pc, left, verdict>>
serviceVars == <<subackOwed, unanswered, requests, polls, strangers>>
vars == <<clientVars, callVars, serviceVars, now, notBefore, wire>>
-------------------------------------------------------------------------------
Init ==
    /\ state = "INIT" /\ lastResult = "Success"
    /\ response = NoResponse
    /\ retryTime = 0
    /\ payload = FALSE /\ key = FALSE
    /\ pc = "app" /\ left = 0 /\ verdict = "None"
    /\ now = 0 /\ notBefore = 0
    /\ subackOwed = FALSE
    /\ unanswered = 0 /\ requests = {}
    /\ polls = 0 /\ strangers = 0
    /\ wire = << >>

\* The state each one goes to when its operation succeeded.
Successor ==
    [CONNECT    |-> "SUBSCRIBE",  SUBSCRIBE |-> "SUBSCRIBING",
     SUBSCRIBING |-> "REQUEST",   REQUEST   |-> "REQUESTING",
     REQUESTING |-> "RESPONSE",   WAITING   |-> "REQUEST"]

\* A complete workflow stays complete; INIT is left by Register alone.
NextState(s, r) ==
    IF s = "RESPONSE" THEN IF r = "Pending" THEN "WAITING" ELSE "COMPLETE"
    ELSE IF s \in DOMAIN Successor /\ r = "Success" THEN Successor[s] ELSE "COMPLETE"

\* prvProvClientUpdateState: the result is kept in every state.
UpdateState(r) == state' = NextState(state, r) /\ lastResult' = r

\* Mutant: the time spent is not subtracted.
SliceKept(time) == time

\* Mutant: the last, short round is subtracted in full.
SliceUnderflows(time) == time - LoopTime

\* What is left of the timeout when a round of the workflow has begun.
Slice(time) == IF time > LoopTime THEN time - LoopTime ELSE 0

\* Register returns.
Return(r) == pc' = "app" /\ left' = 0 /\ verdict' = r

\* A round goes on inside ProcessLoop unless its action ended the workflow.
AfterAction ==
    IF state' = "COMPLETE" THEN Return(lastResult')
                           ELSE pc' = "mqtt" /\ UNCHANGED <<left, verdict>>
-------------------------------------------------------------------------------
(***************************************************************************)
(* The application's calls.                                                *)
(***************************************************************************)

\* Mutant: Register starts a completed workflow again.
EnteredAgain(s) == IF s \in {"INIT", "COMPLETE"} THEN "CONNECT" ELSE s

\* Mutant: a Register call that finds a request unanswered sends it again.
EnteredResends(s) == CASE s = "INIT" -> "CONNECT"
                       [] s = "REQUESTING" -> "REQUEST"
                       [] OTHER -> s

Entered(s) == IF s = "INIT" THEN "CONNECT" ELSE s

\* Register enters RunWorkflow; a complete workflow only reports its result.
AzureIoTProvisioningClient_Register ==
    /\ pc = "app"
    /\ state' = Entered(state)
    /\ IF state' = "COMPLETE"
         THEN Return(lastResult)
         ELSE /\ pc' = "trigger"
              /\ \E time \in Timeouts : left' = Slice(time)
              /\ UNCHANGED verdict
    /\ UNCHANGED <<lastResult, response, retryTime, payload, key, serviceVars,
                   now, notBefore, wire>>

\* Mutant: the payload can be replaced after the first request.
PayloadSettableAlways == state # "COMPLETE"

PayloadSettable == state = "INIT"

\* A call in any other state is refused and changes nothing.
AzureIoTProvisioningClient_SetRegistrationPayload ==
    /\ pc = "app" /\ PayloadSettable
    /\ payload' = TRUE
    /\ UNCHANGED <<state, lastResult, response, retryTime, key, callVars, serviceVars,
                   now, notBefore, wire>>

\* At any time; only the connection that is still to be made looks at it.
AzureIoTProvisioningClient_SetSymmetricKey ==
    /\ pc = "app"
    /\ key' = TRUE
    /\ UNCHANGED <<state, lastResult, response, retryTime, payload, callVars, serviceVars,
                   now, notBefore, wire>>

\* What GetDeviceAndHub returns, given buffers that are large enough; it
\* changes nothing.
GetDeviceAndHub == IF state # "COMPLETE" THEN "Failed" ELSE lastResult
-------------------------------------------------------------------------------
(***************************************************************************)
(* prvProvClientTriggerAction: one action per workflow state.              *)
(***************************************************************************)
Triggered(s) == pc = "trigger" /\ state = s

\* The user name, the token if there is a key, and the connection may fail.
prvProvClientConnect ==
    /\ Triggered("CONNECT")
    /\ \E r \in {"Success", "OutOfMemory", "TokenGenerationFailed", "ServerError"} :
         (r = "TokenGenerationFailed" => key) /\ UpdateState(r)
    /\ AfterAction
    /\ UNCHANGED <<response, retryTime, payload, key, serviceVars, now, notBefore, wire>>

prvProvClientSubscribe ==
    /\ Triggered("SUBSCRIBE")
    /\ \E r \in {"Success", "SubscribeFailed"} :
         UpdateState(r) /\ subackOwed' = (r = "Success")
    /\ AfterAction
    /\ UNCHANGED <<response, retryTime, payload, key, unanswered, requests, polls,
                   strangers, now, notBefore, wire>>

\* No payload received yet: the request registers, later ones query.
FirstRequest == response.body = "empty"

\* The operation id of a query is read out of the response buffer, where the
\* parsed answer points.
prvProvClientRequest ==
    /\ Triggered("REQUEST")
    /\ \E r \in {"Success", "Failed", "PublishFailed"} :
         /\ UpdateState(r)
         /\ IF r = "Success"
              THEN /\ unanswered' = unanswered + 1
                   /\ requests' = requests \cup
                        {[kind    |-> IF FirstRequest THEN "register" ELSE "query",
                          named   |-> response.body = "assigning",
                          payload |-> payload]}
              ELSE UNCHANGED <<unanswered, requests>>
    /\ AfterAction
    /\ UNCHANGED <<response, retryTime, payload, key, subackOwed, polls, strangers,
                   now, notBefore, wire>>

\* Mutant: an answer without retry-after is polled for at once.
IntervalAsGiven(retry) == retry

\* Without retry-after the configured interval is waited for.
Interval(retry) == IF retry = 0 THEN PollingInterval ELSE retry

\* The result of a parsed answer, for UpdateState; "failed" and "disabled" are
\* the service's errors.
ParsedResult(body) ==
    CASE body = "empty" -> "InvalidResponse"
      [] body = "malformed" -> "Failed"
      [] body = "assigned" -> "Success"
      [] body = "assigning" -> "Pending"
      [] OTHER -> "ServerError"

\* An unknown topic leaves the state, and the buffer, as they are.
prvProvClientParseResponse ==
    /\ Triggered("RESPONSE")
    /\ IF response.body = "unknown"
         THEN UNCHANGED <<state, lastResult>>
         ELSE UpdateState(ParsedResult(response.body))
    /\ retryTime' = IF response.body = "assigning"
                      THEN now + Interval(response.retry) ELSE retryTime
    /\ AfterAction
    /\ UNCHANGED <<response, payload, key, serviceVars, now, notBefore, wire>>

\* Mutant: the second at which the wait ends can be missed.
MayPollOnTheSecond == now = retryTime

MayPoll == now > retryTime

prvProvClientCheckTimeout ==
    /\ Triggered("WAITING")
    /\ IF MayPoll THEN UpdateState("Success") /\ retryTime' = 0
                  ELSE UNCHANGED <<state, lastResult, retryTime>>
    /\ AfterAction
    /\ UNCHANGED <<response, payload, key, serviceVars, now, notBefore, wire>>

\* SUBSCRIBING and REQUESTING wait for a packet.
NoAction ==
    /\ \E s \in {"SUBSCRIBING", "REQUESTING"} : Triggered(s)
    /\ pc' = "mqtt"
    /\ UNCHANGED <<clientVars, left, verdict, serviceVars, now, notBefore, wire>>

prvProvClientTriggerAction ==
    \/ prvProvClientConnect \/ prvProvClientSubscribe \/ prvProvClientRequest
    \/ prvProvClientParseResponse \/ prvProvClientCheckTimeout \/ NoAction
-------------------------------------------------------------------------------
(***************************************************************************)
(* Inside AzureIoTMQTT_ProcessLoop: packets reach                          *)
(* prvProvClientEventCallback, then the call returns.                      *)
(***************************************************************************)
Arrives(type) ==
    /\ pc = "mqtt"
    /\ wire # << >> /\ Head(wire).type = type
    /\ wire' = Tail(wire)

\* The state is not looked at: any SUBACK counts as the success awaited.
prvProvClientMQTTProcessSubAck ==
    /\ Arrives("SUBACK")
    /\ UpdateState("Success")
    /\ UNCHANGED <<response, retryTime, payload, key, callVars, serviceVars, now, notBefore>>

\* Mutant: a publication is taken whatever the client waits for.
AcceptsAlways == TRUE

Accepts == state = "REQUESTING"

prvProvClientMQTTProcessResponse ==
    /\ Arrives("PUBLISH")
    /\ LET answer == Head(wire) IN
         IF ~Accepts THEN UNCHANGED <<state, lastResult, response, notBefore>>
         ELSE IF answer.body = "oversize"
         THEN UpdateState("OutOfMemory") /\ UNCHANGED <<response, notBefore>>
         ELSE /\ response' = answer
              /\ UpdateState("Success")
              /\ notBefore' = IF answer.body # "assigning" THEN notBefore
                              ELSE now + (IF answer.retry = 0 THEN PollingInterval
                                                              ELSE answer.retry)
    /\ UNCHANGED <<retryTime, payload, key, callVars, serviceVars, now>>

\* ProcessLoop ran for its time; the workflow ends, is left or goes on.
ProcessLoopSucceeds ==
    /\ pc = "mqtt"
    /\ IF state = "COMPLETE" THEN Return(lastResult)
       ELSE IF left = 0 THEN Return("Pending")
       ELSE pc' = "trigger" /\ left' = Slice(left) /\ UNCHANGED verdict
    /\ UNCHANGED <<clientVars, serviceVars, now, notBefore, wire>>

\* A failure of ProcessLoop ends the workflow, whatever arrived before it.
ProcessLoopFails ==
    /\ pc = "mqtt"
    /\ UpdateState("Failed")
    /\ Return(IF state' = "COMPLETE" THEN lastResult' ELSE "Pending")
    /\ UNCHANGED <<response, retryTime, payload, key, serviceVars, now, notBefore, wire>>
-------------------------------------------------------------------------------
(***************************************************************************)
(* The provisioning service and the passing of time.                       *)
(***************************************************************************)
ServiceAcknowledges ==
    /\ subackOwed
    /\ subackOwed' = FALSE
    /\ wire' = Append(wire, [type |-> "SUBACK"])
    /\ UNCHANGED <<clientVars, callVars, unanswered, requests, polls, strangers,
                   now, notBefore>>

Publishes(body, retry) ==
    wire' = Append(wire, [type |-> "PUBLISH", body |-> body, retry |-> retry])

ServiceAnswers ==
    /\ unanswered > 0
    /\ unanswered' = unanswered - 1
    /\ \/ /\ polls < MaxPolls
          /\ polls' = polls + 1
          /\ \E retry \in RetryAfter : Publishes("assigning", retry)
       \/ /\ \E body \in FinalBody : Publishes(body, 0)
          /\ UNCHANGED polls
    /\ UNCHANGED <<clientVars, callVars, subackOwed, requests, strangers,
                   now, notBefore>>

\* A publication on some other topic of the connection.
StrangerPublishes ==
    /\ strangers < MaxStrangers
    /\ state \notin {"INIT", "CONNECT"}
    /\ strangers' = strangers + 1
    /\ Publishes("unknown", 0)
    /\ UNCHANGED <<clientVars, callVars, subackOwed, unanswered, requests, polls,
                   now, notBefore>>

\* The clock moves while somebody looks at it: before an answer is parsed, by
\* at most one interval, and while waiting, until the wait is over.
Tick ==
    /\ \/ state = "WAITING" /\ now <= retryTime
       \/ state = "RESPONSE" /\ now < notBefore
    /\ now' = now + 1
    /\ UNCHANGED <<clientVars, callVars, serviceVars, notBefore, wire>>

Call ==
    \/ AzureIoTProvisioningClient_Register
    \/ AzureIoTProvisioningClient_SetRegistrationPayload
    \/ AzureIoTProvisioningClient_SetSymmetricKey

Receive == prvProvClientMQTTProcessSubAck \/ prvProvClientMQTTProcessResponse

Service == ServiceAcknowledges \/ ServiceAnswers \/ StrangerPublishes

Next ==
    \/ Call \/ prvProvClientTriggerAction
    \/ Receive \/ ProcessLoopSucceeds \/ ProcessLoopFails
    \/ Service \/ Tick

Spec == Init /\ [][Next]_vars

(***************************************************************************)
(* Fairness.  ProcessLoop returns when its time is over: while packets are *)
(* read its return stays enabled.  That it fails is never relied on.       *)
(***************************************************************************)
FairSpec == Spec /\ WF_vars(prvProvClientTriggerAction) /\ WF_vars(ProcessLoopSucceeds)

(***************************************************************************)
(* The application calls Register until it has a verdict ("the function    *)
(* will simply poll to see if the registration has succeeded or failed"),  *)
(* ProcessLoop reads what has arrived, the service acknowledges and        *)
(* answers, and time passes.                                               *)
(***************************************************************************)
ServedSpec ==
    /\ FairSpec
    /\ WF_vars(AzureIoTProvisioningClient_Register)
    /\ SF_vars(Receive)
    /\ WF_vars(ServiceAcknowledges) /\ WF_vars(ServiceAnswers)
    /\ WF_vars(Tick)
-------------------------------------------------------------------------------
TypeOK ==
    /\ state \in WorkflowState
    /\ lastResult \in Result
    /\ response \in Publication
    /\ retryTime \in Nat
    /\ payload \in BOOLEAN /\ key \in BOOLEAN
    /\ pc \in {"app", "trigger", "mqtt"}
    /\ left \in Nat
    /\ verdict \in Result \cup {"None"}
    /\ now \in Nat /\ notBefore \in Nat
    /\ subackOwed \in BOOLEAN
    /\ unanswered \in Nat
    /\ requests \subseteq Request
    /\ polls \in Nat /\ strangers \in Nat
    /\ wire \in Seq(Packet)

(***************************************************************************)
(* The device registers once and has at most one request with the service  *)
(* at a time, whatever publications arrive in between.                     *)
(***************************************************************************)
OneRequestAtATime == unanswered <= 1

(***************************************************************************)
(* Once Register has reported how the registration ended, every later call *)
(* reports the same: nothing that was still under way changes the verdict. *)
(***************************************************************************)
VerdictIsFinal ==
    [][ verdict \notin {"None", "Pending"} => verdict' = verdict ]_vars

(***************************************************************************)
(* Register, and GetDeviceAndHub after it, report success only when the    *)
(* service assigned the device, and the buffer that GetDeviceAndHub copies *)
(* the hub and the device out of still holds that answer then.             *)
(***************************************************************************)
SuccessMeansAssigned ==
    verdict = "Success" \/ GetDeviceAndHub = "Success" => response.body = "assigned"

(***************************************************************************)
(* Every query names the operation the service is busy with: the operation *)
(* id, which points into the response buffer, was not overwritten between  *)
(* the answer that brought it and the query.                               *)
(***************************************************************************)
QueriesNameOperation ==
    \A r \in requests : r.kind = "query" <=> r.named

(***************************************************************************)
(* The service hears the same registration payload in all requests.        *)
(***************************************************************************)
SamePayloadInAllRequests == \A r, s \in requests : r.payload = s.payload

(***************************************************************************)
(* The service is not asked again before the time its last answer named,   *)
(* or the polling interval when it named none, is over.                    *)
(***************************************************************************)
RetryAfterHonoured == [][ unanswered' > unanswered => now >= notBefore ]_vars

(***************************************************************************)
(* A SUBACK is only ever taken while the client waits for it.  The handler *)
(* does not look, so this rests on the workflow subscribing only once.     *)
(***************************************************************************)
SubackOnlyWhenAwaited ==
    /\ subackOwed => state \in {"SUBSCRIBING", "COMPLETE"}
    /\ (\E k \in 1 .. Len(wire) : wire[k].type = "SUBACK")
         => state \in {"SUBSCRIBING", "COMPLETE"} /\ ~subackOwed

\* Every call of Register returns, however long the packets keep coming.
RegisterReturns == pc # "app" ~> pc = "app"

(***************************************************************************)
(* A registration that was begun comes to an end: it is reported as        *)
(* succeeded or failed.                                                    *)
(***************************************************************************)
RegistrationEnds == state = "CONNECT" ~> verdict \notin {"None", "Pending"}
===============================================================================
