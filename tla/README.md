# Azure IoT middleware for FreeRTOS: TLA+ models and proofs

The middleware (`source/`) lets a device provision itself, connect to an IoT Hub,
exchange telemetry, cloud-to-device messages, commands and properties with it, and take
updates from it. It sits on the Azure SDK for Embedded C (topics and payloads) and on
coreMQTT and coreHTTP (packets), all of them submodules. This directory models the parts
of it that keep state and wait for somebody else, checks the models with TLC and proves
the main properties of both clients, of the token and of the update path with TLAPS.

Paths below are relative to the repository; `HubClient` and the like are modules here.

## 1. The system

"No background threads are created by the Azure IoT middleware for FreeRTOS. Messages are
sent and received synchronously" (`README.md`). All concurrency therefore comes from three
places: packets and answers travel while the device does something else; a blocking call
hands packets to callbacks, from which the application calls the library again; and
connections break. There is no persistent state: a restart is a new `..._Init`.

| Part | State it keeps | Operations | Talks to |
|---|---|---|---|
| IoT Hub client (`azure_iot_hub_client.c`) | three receive contexts (state, packet id of SUBSCRIBE, process function, callback), the property request counter, the coreMQTT context, a working buffer | Init, SetSymmetricKey, Connect, Disconnect, Subscribe / Unsubscribe of three features, SendTelemetry, SendCommandResponse, SendPropertiesReported, RequestPropertiesAsync, ProcessLoop | coreMQTT by calls; coreMQTT by `prvEventCallback`; the application by callbacks |
| Property request identifiers (`prvGetPropertiesRequestId`) | one `uint32_t` | next identifier of a kind | the hub client |
| Device Provisioning client (`azure_iot_provisioning_client.c`) | workflow state, last result, time to poll again, the buffer of the last answer and spans into it, registration payload | Init, SetSymmetricKey, SetRegistrationPayload, Register, GetDeviceAndHub, GetExtendedCode | as the hub client |
| Device Update client (`azure_iot_adu_client.c`) | options; the request structure, the application's, filled again by every message | Init, ParseRequest, SendResponse, SendAgentState, IsADUComponent | the hub client's reported properties |
| JWS check (`ports/mbedTLS`) | the caller's scratch buffer, not cleared between calls | ManifestAuthenticate | mbedTLS |
| HTTP port (`ports/coreHTTP`) | request and response headers between requests | Init, Request, RequestSizeInit, RequestSize, Deinit | coreHTTP |
| MQTT port (`ports/coreMQTT`) | none | one forwarded call each | coreMQTT |
| Properties helpers, JSON, message properties | spans and positions of the SDK core's objects | one or two forwarded calls each | the SDK core |
| Error translation, HMAC (`azure_iot.c`) | none | table, three calls in a row | the platform |

What makes each of them correct, and hard:

* **Hub client.** A Subscribe sends a packet and blocks in `prvWaitForSubAck`, in slices
  of the timeout, while `AzureIoTMQTT_ProcessLoop` runs callbacks that may unsubscribe
  what is waited for. SUBACKs are matched by packet identifier, may come when nobody waits
  any more, and identifiers are used again. Contexts survive the connection, the hub's
  subscriptions may not. A subscription has to be either there or closed when the call is
  over, the client's opinion has to be the hub's, and answers have to reach the callback
  with the type of what was asked.
* **Request identifiers.** The kind of an answer is the parity of its identifier, so the
  parity has to be right across the wrap of the counter and after failures, and identifiers
  of requests under way must differ.
* **Provisioning client.** A workflow moved both by the call and by packets, across
  `Register` calls that time out and come back; one buffer holds the answer that the next
  request and the final result point into. The device must register once, poll when it was
  asked to and not earlier, name the right operation, reach a verdict and stay with it.
* **Device Update, JWS, HTTP.** Sequential, but a chain: a message becomes a structure that
  earlier messages have filled, its manifest is authenticated through some ten sections over
  one buffer that is used twice, a file is fetched with a handle that keeps its headers, and
  what boots has to be what the update service signed. Results of steps are ignored in two places.
* **Token.** String to sign, key, hash, signature and the token itself share one buffer, whose
  limits are checked in two functions.
* **Properties, JSON.** Application and iteration move one reader in turns; documents are
  written by calls of which each may run out of room half-way.

`PROJECT.json` lists every part with its status and every hazard with its line.

## 2. Modules

| Module | What it is |
|---|---|
| `RequestIds` | the counter as an operator on `0 .. IdModulus-1`, for any even width |
| `RequestIdSequence` | the identifiers handed out over time, a window of them remembered |
| `HubClient` | the hub client with coreMQTT, the network and the hub around it (extends `RequestIds`) |
| `SubscriptionContract` | what the client promises about subscriptions, in four variables |
| `HubClientInvariants` | the invariants that the proofs about `HubClient` rest on; the run `HubClient` checks one of them |
| `HubClientContract` | the refinement mapping from `HubClient` to that contract |
| `ProvisioningClient` | the provisioning client with the service and the clock around it |
| `RegistrationContract` | what that client promises about a registration, in four variables |
| `ProvisioningClientContract` | the refinement mapping from `ProvisioningClient` to that contract |
| `ScratchBuffer` | bytes of a buffer as pieces of the values written to it |
| `JsonReader`, `JsonWriter` | documents as sequences of tokens; the reader's position, the search that all callers write as a loop, the writer's room; the builder of property acknowledgements |
| `PropertiesReader` | the version and the iteration over properties and components |
| `SasToken` | the regions of the password buffer while a token is made |
| `DeviceSession` | a device that connects with a token and acknowledges properties (extends the four above) |
| `MCDeviceSession` | its instance: lengths, rooms and messages |
| `Jws` | `AzureIoTJWS_ManifestAuthenticate`, one action per section, and what "genuine" means |
| `AduClient` | the Device Update client: the request structure and what is reported |
| `HttpPort` | the HTTP client, coreHTTP and the server around it |
| `DeviceUpdate` | an update from its message to the reboot (extends `Jws`, `AduClient`, `HttpPort`) |
| `JwsDocuments`, `MCDeviceUpdate` | its instance: signed documents and what they can differ in, manifests, files, messages |
| `DeviceSessionProofs` | proofs about `SasToken` and `DeviceSession` |
| `JsonReaderTheorems` | what the reader's search finds, in documents of any length |
| `JwsProofs` | proofs about `Jws`: its operators, and that each section keeps its invariant |
| `DeviceUpdateProofs` | proofs about `DeviceUpdate` |
| `RequestIdTheorems` | two lemmas about the counter that other proofs cite |
| `RequestIdSequenceProofs` | proofs about `RequestIdSequence` |
| `HubClientProofs` | proofs about `HubClient`, the refinement of `SubscriptionContract` among them |
| `ProvisioningClientProofs` | proofs about `ProvisioningClient`, the refinement of `RegistrationContract` among them |

The runs name these modules as they are (`HubClient` runs `HubClientInvariants`, and
`ProvisioningClient` the module of its contract); each `.cfg` gives the constants. Operators whose comment begins with "Mutant:" are plausible
mistakes in the operator that follows: no specification uses them; each is put in the place
of its neighbour to see that the properties notice.

### `HubClient`

State: `ctx` is `xReceiveContext`, reduced to `usState` and `usMqttSubPacketID` (the process
function and the callback are set and erased with the state, so they are present exactly
when the state is not NONE); `requestId` is `ulCurrentPropertyRequestID`; `pc`, `waiting` and `left`
are the stack of the one thread (`left` is `ulTimeoutMilliseconds` of `prvWaitForSubAck`);
`event` is what the running callback was handed and `result` what the call that ends in a
step returned. `packetId` is coreMQTT's. `link`, `persistent`, `subscribed`, `owed` and
`wire` are the connection, the session and the answers on their way. `acked` and the field
`kind` of answers are history.

Each API operation is one action of the name it has in the code, each packet one `Receive...`
action, and the wait is `WaitGoesOn`, `WaitEnds` (time is over or the SUBACK was there) and
`WaitBreaks` (ProcessLoop failed). The three Subscribe operations differ in topics and callback
only and share `Subscribe(f)`, as do Unsubscribe and the two property requests. Operations
that do not block can be called in callbacks (`MayCall`). Sending on a broken connection
either fails or is lost; every send may fail. The hub answers in any order, and the
connection breaks at any time, keeping any prefix of what was under way.

Abstracted: topics and payloads (a message is the feature it belongs to; the topics of
the three features are disjoint), user name and token, the working buffer (a topic that
does not fit is the result OutOfMemory), NULL arguments, packets that make no difference
(UNSUBACK, PINGRESP). `AzureIoTHubClient_Connect` from a connection that is still up is not
made: the application connects again when the old connection is gone.

### `SubscriptionContract`

One feature is subscribed at a time; the call's success is whether the feature is open
at its end, a failed call leaves it closed, an open feature is closed only by a step that does nothing else (of whom, the contract leaves open), by
a Subscribe of its own or an Init, and callbacks start for features that are not closed. `HubClientContract`
maps NONE, SUB and SUBACK to closed, opening and open and adds one history variable, the
success of the call that just ended.

### `ProvisioningClient`

State: `state`, `lastResult`, `retryTime`, `payload` and `key` are the fields of
`AzureIoTProvisioningClient_t`; `response` is `ucProvisioningLastResponse` and its
lengths, and at the same time what `xRegisterResponse` points into; `pc` and `left` are
the stack of `prvProvClientRunWorkflow`; `verdict` is what Register returned last. The
service's side is `subackOwed`, `unanswered`, `wire`; `requests` and `notBefore` are history.

A round of the workflow is the action that `prvProvClientTriggerAction` picks, then packets
inside ProcessLoop, then `ProcessLoopSucceeds` or `ProcessLoopFails`. A publication is what the SDK core's
parser makes of it: assigned, failed, disabled, assigning (with a retry-after), malformed, empty, oversize, or on
an unknown topic. `UpdateState` is the table of `prvProvClientUpdateState`, result included.

Time moves only while it makes a difference: between the arrival of an "assigning" answer and its parsing, and in
WAITING until the wait is over. This keeps `now` finite without a bound on it.

### `RegistrationContract`

The device asks when nothing is outstanding, for the first time with nothing heard and again after "assigning"; it ends in
success only if it heard "assigned"; the application is told "Pending" until the end and one outcome from then on. `ProvisioningClientContract`
maps requests unanswered and answers under way to the number outstanding, the response buffer to what was heard, and the last result of a complete
workflow to the outcome. A failure may still become another failure, since ProcessLoop can fail after an answer was too large.

### `Jws`

State: `scratch` is `pucScratchBuffer`, a set of pieces "bytes [lo, hi) hold what was written from base on";
it outlives the call. `call` is where the function is and the part of `prvJWSValidationContext_t` that later
sections read. Each action is a section between two error checks of `AzureIoTJWS_ManifestAuthenticate`; the regions have the
sizes of `azure_iot_jws.h` and the addresses the function computes. A span (key parts, `sjwk`) is an address
and a token, and shows its text only while the bytes under it are those of its document (`Intact`). The ignored result
of `prvBase64DecodeJWK` and the reader left uninitialised for an empty header are in the model: what is found then is any root key.

Base64 text is the value it decodes to, with a length and whether it decodes. Signatures name the key that made
them and what was signed. `Genuine` says of the documents alone that a root key vouches for the signing key and
that one for the manifest's hash; signatures that exist are those some document shows.

### `AduClient`, `HttpPort`, `DeviceUpdate`

`request` is `AzureIoTADUUpdateRequest_t`, with its counts and arrays of fixed size; `payload` is the message as it reads now, which changes
when the manifest in it is unescaped in place (`Unescaped`); `reported` what the service heard last. `handle` is `AzureIoTHTTP_t`: the request and the range headers added to it;
`outData` and `outLength` are the two outputs of a request. `AzureIoTHTTP_Request` succeeds for status 200 and 206 and sets the outputs for 206 only.

`DeviceUpdate` puts them together the way `docs/how_to_use_adu_client.md` tells an application to: parse, authenticate, accept or
reject, report, ask for the size, fetch, write to flash, verify, enable and reboot, or report the failure. Application, flash and server are
external. `task` is where the application is; it parses once or more often, initialises the handle again between ranges or not,
asks for chunks or the whole file. The server answers any range the headers hold, the whole file or an error; the transport may fail.

### `SasToken`, `JsonWriter`, `PropertiesReader`, `DeviceSession`

`SasToken` computes where each part of a token is written and with which result a call ends, checks in the order of the code. Both clients make
tokens this way. The writer appends tokens while there is room, refuses calls that JSON does not allow and keeps what fitted of a
call that fails; names and values want `Slack` more room than brackets, so that a bracket can still fit where a name does not.
`PropertiesReader` has the middleware's calls around the SDK core's iteration; the core is a submodule, so that its part is
modelled from what the header promises and the unit tests expect.

`DeviceSession` is one session: key, connection, then messages one after another. `reader`, `component` and `scan` are the arguments of
`GetNextComponentProperty`, `writer` and `open` the document being written, `phase` where the application is in the loop that
`azure_iot_hub_client_properties.h` gives. `read` collects what it came to; `sent` and `published` are what left the device.

## 3. Runs

| Run | Question | Bounds, and why they do |
|---|---|---|
| `RequestIdSequence` | do identifiers tell their kind and differ? | 16 identifiers, window of 7, the longest that can hold; the counter wraps many times |
| `HubClient` | is no context left half open, does a read SUBACK count, is the type of an answer right, does anything but the end of a session part contexts and hub, is the invariant of the proofs true? | two features so that one SUBACK can be mistaken for another's; 3 identifiers, so late SUBACKs of up to two earlier attempts; clean and persistent sessions in any order; timeouts of no interval and of two; 4 request identifiers, so that the counter wraps, and two answers under way |
| `HubClientContract` | does the client implement the contract? | two identifiers used again and again |
| `HubClientLive` | does Subscribe return, do requested properties arrive? | properties only; section 4 |
| `ProvisioningClient` | nine properties of the registration; does the client implement the contract? | two polls, two strange publications, timeouts of no, one and three rounds |
| `ProvisioningClientLive` | does the registration end? | one poll, no strange publication |
| `DeviceUpdate` | is what is authenticated, reported and booted what the update service signed? | section "Bounds" below |
| `DeviceSession` | is a token that is sent whole, is every property read and acknowledged? | tokens with lengths on both sides of each limit of 256 bytes; nine messages with and without components, metadata, nested objects that have the names of properties; thirteen sizes of buffer, from too small for one token to enough for all |

Bounds of `DeviceUpdate`: two messages, since what a message leaves behind can mislead the next. A message carries one of
the documents issued for two manifests or one that differs from it in one place (a part that is too long, does not decode, is missing or
out of order, twice there, another key, another hash), or is forged for a manifest nobody signed; or it is unreadable, a cancellation, without manifest, or names another
file than the manifest does. The second manifest has three files where a file has room for two hashes and the structure for four files. A message that was unescaped in place can be
parsed again: it is no message any more, or, for the manifest that cannot be parsed, a request without one. Files have 2, 3, 5 and 12 bytes where the largest `int32_t` is 4, so that a size can become negative or
wrap to a small one; chunks have 2 bytes, the buffer 3, and two range headers fit, so that a third does not. Documents that differ in two places were
left out for time; `Fail` ends the call at the first difference that is noticed.

All hub runs bound packet identifiers (`PacketIdBound`), packets on the wire (`MaxWire`) and
answers owed (`MaxOwed`); the last also stands in the guard of the calls that would add one.
With `PacketIdBound < MaxPacketId` (`NoReuse`; the run `HubClient`) no identifier is used twice before the client is initialised
again, which is what a real client sees for 65535 packets. Provisioning runs bound the "assigning"
answers (`MaxPolls`) and the publications on other topics (`MaxStrangers`).

`DeviceUpdate`, `AduHashes` and `HttpWholeImage` switch deadlock checking off: when the last message is done with, the
application has nothing to do. No other run does.

What the properties say:

* `NoAbandonedSubscribe`: a context awaits its SUBACK only while its call runs.
* `AckedSubscribeSucceeds`: a SUBACK read during the wait, in whichever slice and even if
  ProcessLoop fails afterwards, makes the call succeed, unless a callback unsubscribed.
* `SubscribedInSession`: what the client holds for subscribed is subscribed at the hub, but for what the end of a session, or the start of a
  clean one, takes away; that the client does not notice that is the hazard, and nothing else may part the two. It needs identifiers that are used once: with reuse, a
  Subscribe of C2D messages with identifier 1 can time out with its SUBACK still on the wire; when the identifiers have wrapped, the connection breaks, keeping
  what was received, and a Subscribe of properties, again with 1, is lost on it: the old SUBACK then marks a context the hub knows nothing of.
* `AnswerHasTypeOfRequest`, `RequestedPropertiesArrive`: answers reach the callback and are labelled right.
* `OneRequestAtATime`, `QueriesNameOperation`, `RetryAfterHonoured`, `SamePayloadInAllRequests`: what the
  service hears. `VerdictIsFinal`, `SuccessMeansAssigned`: what the application hears.
  `SubackOnlyWhenAwaited`: why the unguarded SUBACK handler is safe.
* `AuthenticatedIsGenuine`, `GenuineAuthenticates`: the check accepts nothing else and refuses nothing that is
  well-formed, whatever the buffer held before. `FitsScratch`: it writes no more than the size callers are told (reads beyond a signature are
  the business of the other two).
* `ManifestIsOfThisRequest`: text and parsed manifest in the structure belong together. `OnlyAuthenticReported`,
  `InstalledIsAuthentic`: the same for verdict, report and image, across messages. The image is compared before it boots, so that
  `InstalledIsAuthentic` says nothing about the HTTP port; `HttpWholeImage` does. Sizes beyond an `int32_t` are in the model, and in no property: `AzureIoTHTTP_RequestSize` returns another size then.
* `SentTokenIsWhole`: no part of a token is overwritten before it was used. `ReadsWhatIsThere`: the header's loop finds every
  property once, in its component. `PublishedAcknowledges`: a document that is sent is complete and acknowledges exactly those the device knows.

## 4. Fairness

`FairSpec` (hub): a callback returns (weak fairness), and ProcessLoop returns when its time is
over. The return is disabled while a callback runs, hence strong fairness. A failure of
ProcessLoop or a break of the connection is never relied on. `ServedSpec` adds what its one
liveness property needs from others: the application keeps calling ProcessLoop, as the
header demands of it; ProcessLoop reads what has arrived; the hub answers each request.

`FairSpec` (provisioning): the code acts when it is its turn and ProcessLoop returns. `ServedSpec`: the application
calls Register until there is a verdict, what has arrived is read, the service acknowledges and answers, and the clock moves.

The termination properties (`SubscribeReturns`, `RegisterReturns`) use `FairSpec` only.

## 5. Where code and text disagree

| Run | Shows |
|---|---|
| `HubClientWrap` | `prvMQTTProcessSuback` takes the first context with the packet identifier, also one that was acknowledged long ago. After 65535 identifiers a new subscription can lose its SUBACK to it and times out although the SUBACK was read. The run has two identifiers. |
| `ProvisioningClientStranger` | A publication on an unknown topic read in REQUESTING is meant to be ignored "Maintaining the same state", but the state is RESPONSE by then: the workflow parses the same buffer for ever. It takes a publication outside the client's own subscription, which a well-behaved broker does not send. |
| `AduHashes` | `prvCastUpdateRequest` copies hashes up to the number of files. A file with two hashes in a manifest of one file has its second hash counted and not copied. `ManifestIsOfThisRequest` therefore speaks of the first hash. |
| `HttpWholeImage` | `AzureIoTHTTP_Request` calls status 200 a success and leaves the outputs as they were. The application then writes what an earlier request gave, or through a pointer that was never set. `InstalledIsAuthentic` holds nevertheless, since the image is verified afterwards. |

## 6. Proofs

TLAPS checks every step of the eight modules that hold theorems; the assumptions are the named ASSUMEs of
the specifications (widths, types of the constants, what the service signs), which TLC evaluates on each run.

`RequestIdSequenceProofs`, for every even modulus of at least 4 and every window below half of it: the identifiers are
non-zero (`TypeCorrect`), their parity is the kind (`ParityAlwaysTellsKind`) and those in the window
differ (`WindowAlwaysDistinct`). Parity follows from the last step alone. Distinctness does not: the invariant
says that what was handed out n requests ago is at least n and at most 2n+1 behind around the modulus
(`Spaced`), the one extra for the skipped zero, so with a window of less than half the range the distance cannot reach the modulus.

`HubClientProofs`, for any features, timeouts, widths and bounds:

* `TypeCorrect`, `NoSubscribeAbandoned` and `AnswersHaveTypeOfRequest` need no assumption about identifiers or sessions.
  The invariant `Inv` adds that a wait ends with its call and that every answer under way has an
  identifier of its kind, which the lemma on `NextRequestId` gives when the request is made.
* `SubscriptionsEndWithSession` and `AckedSubscribesSucceed` assume `NoReuse`: no identifier is handed
  out twice. Sessions may be clean or persistent. The run `HubClientWrap` and the scenario in section 3 show that `NoReuse` cannot be dropped. The invariant `FreshInv` says that identifiers in contexts
  and in SUBACKs are below the next one and different (so a SUBACK marks the context it belongs to, or none),
  and that a SUBACK under way for a context means a subscription at the hub, unless it is left of a session that is over.

`FreshInvariance` is that invariant as a theorem; the run `HubClient` has TLC check it on a small instance.

`ContractImplemented`, in the same module: the client implements `SubscriptionContract` (`ContractImplemented`), with no assumption about identifiers or sessions. `MappingInv` adds
to `Inv` that a context not in use has no identifier. A SUBACK, whichever it is, then marks the context of the running call or changes nothing:
that `prvMQTTProcessSuback` can mark the wrong context costs a subscription its success, and never opens a feature nobody is subscribing.

`ProvisioningClientProofs`, for any timeouts, intervals and bounds: all eight safety properties of the run and the refinement of `RegistrationContract`.
None is inductive alone. `Inv` says for each workflow state what may be under way: no answer before the first request, in REQUEST and in WAITING
(`AnswersInv`), a SUBACK in SUBSCRIBING only, or unread at the end (`SubackInv`); what the buffer can hold then (`BufferInv`); and how the clock, the
time asked for and `retryTime` stand (`TimeInv`). So the handlers, which look at little, cannot move the workflow when they should not.
An unknown publication taken for the answer is the one exception, which `AnswerTaken` names: the answer may still be under way in RESPONSE, and nothing is asked there.
The refinement needs also that in REQUESTING an answer is to come (`RefinementInv`).

`DeviceSessionProofs`, for any size of the password buffer and all lengths: a token that is made is made from whole parts
(`TokenOfSuccessIsWhole`), as the checks of both functions together keep the regions apart; and one that is sent was made
(`SentTokenAlwaysWhole`).

And for messages of any length: the loop of the header reads every property of the service's, each in its component, and nothing else
(`AlwaysReadsWhatIsThere`). `PacketsAssumption` says what a message is: the object with the properties is whole and so is each component
(`HoldsProperties`: members one behind the other, metadata with plain values), and its properties are those of its text (`PropertiesOf`). What is inside values is not
restricted: objects and arrays of any depth, with the names of properties, components and metadata in them. The proof says of the iteration of the core, which looks at one
token and the one before it, that it stands only on members and ends of these objects and behind the names it passes over (`Structural`),
so that it stops at properties only and passes over none (`StopFromIs`), and that the component it tells from the tokens it has passed is the one that the place it stops at
lies in (`ComponentFollows`). The invariant (`ReadInv`) then says of each point of the application's loop that reader, component and what has been read agree on one place in the message.

What it publishes (`PublishedAlwaysAcknowledges`), for buffers of any size too: a document that can be read to its end and acknowledges the properties
that the device knows, no others, each in its component, with its value and the version. The message is assumed to name its version as `$version` among
the members of the section, or nowhere there and behind it (`HasVersion`): the search for it goes on behind the section, and would take a later name for it
(`VersionFound`). The known properties have plain values, as the application copies one token. The proof follows the document as it grows token by token
(`Grown`): what is said in it stays said (`Says`), and where it can be gone on with (`Rest`) is either behind the properties or inside a component,
which the last name at the top level tells. Each function of `azure_iot_hub_client_properties.c` gets a lemma about what it adds: an acknowledgement, a
component or an end, or a failure. The invariant (`WriteInv`) says that at each point of the loop the document holds the acknowledgements of
what has been read by then; a call for which there is no room may leave half of one, and then nothing is published.

`JsonReaderTheorems`, for objects of any length and depth (`IsObject`: members one behind the other, what is inside a value matters only
where it ends): the loop that every caller of the reader writes finds the value of the first member of the name that it looks for, and fails
only when there is none (`FindFromName`), although the comparison would also take a string value for the name. Started one token
earlier, as `prvFindSJWKValue` does, it passes over the first member (`FindFromBegin`). The search is a recursive function of the position,
and what is proved about it needs induction: a lemma that takes a set of naturals (not an operator) and follows from their being well
ordered, `Induction`, applied to the set of lengths for which the fact holds.

`JwsProofs` has what the sections of `AzureIoTJWS_ManifestAuthenticate` do, one lemma per section. Its invariant (`JwsInv`) says what the call
has found out by each section and what the buffer holds by then: a region holds the decoded part, the key parts are
members of the signed object (`KeyPartsFound`), the root key has signed it; and what it holds of signatures was made by somebody, in this call or an earlier one.
It has to say this of a key that was signed only: of any other the call finds nothing out until `VerifyJWK` ends it.

The converse needs another invariant (`Finding`), of calls for a genuine and well-formed document only: such a call has not failed, and
every text that a later section reads is in its region from the first byte to the last. Only the searches that come out on a single
member (`FoundThere`) and the loop that gets all three parts when the object has them, in whatever order (`KeyPartsThere`), make it one that each
section keeps; that no section writes where a later one reads is arithmetic on the addresses (`HeldKept`, `HeldHashed`). That the hash is calculated
behind both signatures, and far enough behind for a key of 384 bytes, is what decides in `VerifyJWK` and `VerifyJWS`.

`DeviceUpdateProofs`, for any documents, messages, files and bounds:

* `AlwaysFitsScratch`: decoding never writes past the region it is given (`DecodedFits`), and all regions lie within the buffer (`RegionsFit`).
  The invariant is that the pieces are well-formed and within; nothing is assumed of documents.
* `AuthenticatedAlwaysGenuine`: the check accepts a genuine manifest only. No step of it relies on a result that the code ignores:
  a JWK that did not decode, or whose header is empty so that any root key may be taken for its signer, or a signature
  that earlier calls left in the buffer, fails in `VerifyJWK` unless a root key has signed this very text.
* `GenuineAlwaysAuthenticates`: and it refuses no genuine manifest whose document is well-formed, whatever earlier calls left in the buffer.
  `WellFormed` says what the code needs: every part fits its region, no signature is shorter than its key, each member that is looked for comes once,
  and the signed key is not the first member of the header, the one its search passes over. `RootKeyLengthAssumption`: a root key has a length.
* `ManifestAlwaysOfThisRequest`, for manifests whose hashes are not written beyond the structure: a manifest may have more files than a file has room for hashes, and
  the loop of line 182 then writes into the entries behind; each is set later itself, so that only entries not in use are lost. `OverrunAssumption` says that
  the writes end within the structure. Nothing in the code ensures it, and of other manifests nothing is proved, here and in the two theorems that follow. The invariant adds the shape of the structure and that the payload is a message. Parsing is the only
  step that touches either.
* `OnlyAuthenticAlwaysReported` and `InstalledAlwaysAuthentic`: what the check promises reaches the
  report and the image. The call is about the manifest and signature of the structure until it returns, and neither changes until the
  work on the message is over. That the hash in the manifest is the one that was verified needs `ManifestIsOfThisRequest`.

What those about the authentication take on trust stands in three assumptions of `Jws`. `DocumentsAssumption`: a header and a payload are texts of some
length that is not zero (with an empty one the code would use a reader it did not initialise), of which any may be no JSON at all. `RootKeysAssumption`: a root
key signs a JWK only if it is a key document, two JSON objects that decode into the room the device has and whose `n`, `e` and `alg` are strings.
`SigningKeysAssumption`: a key that a root key vouches for signs only documents whose header and payload are objects, with a string for the hash.
Of whatever else comes, signed by other keys or by none, nothing is assumed. The assumptions are needed: the comparison takes a string for a
name outside objects, so that a signed array, or a signed key that is cut off, could be read as something its signer did not say.

Every invariant and every action property of the passing runs is the statement of one of these theorems. Model-checked only: the liveness
properties, as fairness is out of the prover's reach.

## 7. Not modelled

* The MQTT port, message properties and the translation of result codes: forwarded calls and a table, without state of their own.
* coreMQTT, coreHTTP, mbedTLS, the SDK core, flash and transport: not in this repository; what the middleware needs of them stands in the
  models as nondeterministic or exact external steps, marked so in the map.
* How long the request id of a command stays in the network buffer: it depends on coreMQTT's use of that buffer. The sending of the response is modelled.
* `GetExtendedCode`, which only reads, and an `..._Init` of a provisioning client that is in use: it is a new registration over a new connection.
* Bytes: escaping in JSON, Base64 and number formats. Unescaping a manifest in place is modelled by its effect, another message (`Unescaped`).
* Invalid arguments (NULL, zero lengths, buffers too small for Init): the code refuses them before it changes anything. The return code inside a SUBACK is
  not read by the code and not modelled. An `..._Init` that fails leaves a client that cannot be used.
* A write beyond the request structure: with so many more files in a manifest than a file has room for hashes that the loop of line 182 leaves
  the entries not in use and the version and date behind them, the outcome is undefined. `OverrunAssumption` excludes such manifests; writes within the structure are modelled.
* A clock that is set back while the provisioning client waits: time only moves forward in `ProvisioningClient`.

## 8. Plan

Next, in this order:

1. A composition of provisioning, connection and subscription: the hub and device of a registration are those of the connection.
2. `DeviceUpdate` over the subscription contract, with reports that fail for want of a connection, and a restart between
   enabling an image and reporting it.
3. The refinements and invariants of these compositions as theorems, from those of their parts.
