---------------------------- MODULE DeviceUpdateProofs ----------------------------
(***************************************************************************)
(* What holds of an update for every set of documents, keys and files.     *)
(***************************************************************************)
EXTENDS DeviceUpdate, JwsProofs

(***************************************************************************)
(* The scratch buffer.  That nothing is written beyond it needs no         *)
(* assumption about the documents, and no other invariant.                 *)
(***************************************************************************)
ScratchInv == IsBuffer(scratch, SCRATCH_BUFFER_SIZE)

LEMMA JwsStepFits == ScratchInv /\ JwsStep => ScratchInv'
<1> SUFFICES ASSUME ScratchInv, JwsStep
             PROVE  ScratchInv'
  OBVIOUS
<1> USE DEF ScratchInv
<1>1. CASE DecodeHeader
  BY <1>1, DecodingFits DEF DecodeHeader
<1>2. CASE FindSJWK
  BY <1>2 DEF FindSJWK
<1>3. CASE DecodeJWK
  <2> DEFINE jwk       == TextOf(call.cx.jwk)
             header    == Decoded(scratch, jwk.header, JWKHeaderAt, JWK_HEADER_SIZE)
             content   == Decoded(header, jwk.payload, JWKPayloadAt, JWK_PAYLOAD_SIZE)
             signature == Decoded(content, jwk.signature, JWKSignatureAt, SIGNATURE_SIZE)
  <2>1. scratch' \in {header, content, signature}
    BY <1>3 DEF DecodeJWK
  <2>2. IsBuffer(header, SCRATCH_BUFFER_SIZE)
    BY DecodingFits
  <2>3. IsBuffer(content, SCRATCH_BUFFER_SIZE)
    <3> HIDE DEF header
    <3> QED BY <2>2, DecodingFits
  <2>4. IsBuffer(signature, SCRATCH_BUFFER_SIZE)
    <3> HIDE DEF content
    <3> QED BY <2>3, DecodingFits
  <2> HIDE DEF header, content, signature
  <2> QED BY <2>1, <2>2, <2>3, <2>4
<1>4. CASE ValidateRootKey
  BY <1>4 DEF ValidateRootKey
<1>5. CASE FindKeyParts
  BY <1>5 DEF FindKeyParts
<1>6. CASE VerifyJWK
  BY <1>6, HashingFits DEF VerifyJWK
<1>7. CASE DecodeJWS
  <2> DEFINE content   == Decoded(scratch, call.doc.payload, JWSPayloadAt, JWS_PAYLOAD_SIZE)
             signature == Decoded(content, call.doc.signature, JWSSignatureAt, SIGNATURE_SIZE)
  <2>1. scratch' \in {content, signature}
    BY <1>7 DEF DecodeJWS
  <2>2. IsBuffer(content, SCRATCH_BUFFER_SIZE)
    BY DecodingFits
  <2>3. IsBuffer(signature, SCRATCH_BUFFER_SIZE)
    <3> HIDE DEF content
    <3> QED BY <2>2, DecodingFits
  <2> HIDE DEF content, signature
  <2> QED BY <2>1, <2>2, <2>3
<1>8. CASE DecodeSigningKey
  <2> DEFINE nIn == Decoded(scratch, TextOf(call.cx.n), KeyNAt, RSA3072_SIZE)
             eIn == Decoded(nIn, TextOf(call.cx.e), KeyEAt, SIGNING_KEY_E_SIZE)
  <2>1. scratch' \in {nIn, eIn}
    BY <1>8 DEF DecodeSigningKey
  <2>2. IsBuffer(nIn, SCRATCH_BUFFER_SIZE)
    BY DecodingFits
  <2>3. IsBuffer(eIn, SCRATCH_BUFFER_SIZE)
    <3> HIDE DEF nIn
    <3> QED BY <2>2, DecodingFits
  <2> HIDE DEF nIn, eIn
  <2> QED BY <2>1, <2>2, <2>3
<1>9. CASE VerifyJWS
  <2> DEFINE hashed == WithHash(scratch, <<call.doc.header.value, call.doc.payload.value>>)
  <2>1. scratch' \in {hashed, scratch}
    BY <1>9 DEF VerifyJWS
  <2>2. IsBuffer(hashed, SCRATCH_BUFFER_SIZE)
    BY HashingFits
  <2> HIDE DEF hashed
  <2> QED BY <2>1, <2>2
<1>10. CASE VerifySHA
  <2> DEFINE withSHA == Write(scratch, ManifestSHAAt, ManifestSHAAt + SHA256_SIZE,
                              SHA256(call.manifest))
  <2>1. \E text : scratch' \in {withSHA, Decoded(withSHA, text, ParsedSHAAt, SHA256_SIZE)}
    BY <1>10 DEF VerifySHA
  <2>2. IsBuffer(withSHA, SCRATCH_BUFFER_SIZE)
    BY HashingFits
  <2> HIDE DEF withSHA
  <2> QED BY <2>1, <2>2, DecodingFits
<1> QED BY <1>1, <1>2, <1>3, <1>4, <1>5, <1>6, <1>7, <1>8, <1>9, <1>10 DEF JwsStep

\* Whatever documents come, in whatever order, nothing is written beyond the
\* size that azure_iot_jws.h tells callers to provide.
THEOREM AlwaysFitsScratch == Spec => []FitsScratch
<1>1. Init => ScratchInv
  BY DEF Init, JwsInit, ScratchInv, IsBuffer
<1>2. ScratchInv /\ [Next]_vars => ScratchInv'
  <2> SUFFICES ASSUME ScratchInv, [Next]_vars
               PROVE  ScratchInv'
    OBVIOUS
  <2>1. CASE Authenticating
    BY <2>1, JwsStepFits DEF Authenticating
  <2>2. CASE UNCHANGED scratch
    BY <2>2 DEF ScratchInv
  <2>3. Authenticating \/ UNCHANGED scratch
    BY DEF Next, vars, jwsVars, ReceiveMessage, Parse, Discard, Authenticate,
           ManifestAuthenticate, AuthenticationReturns, Return, Respond, ReportInProgress,
           InitialiseSizeRequest, AskSize, InitialiseRequest, Ask, WriteBlock, VerifyImage,
           Boot, ReportFailure
  <2> QED BY <2>1, <2>2, <2>3
<1>3. ScratchInv => FitsScratch
  BY DEF ScratchInv, IsBuffer, IsPiece, FitsScratch, Within
<1> QED BY <1>1, <1>2, <1>3, PTL DEF Spec

(***************************************************************************)
(* The structure of the request.                                           *)
(***************************************************************************)
\* An array of files with room for MaxFiles, each with room for MaxHashes; files
\* that have room; and an array that has those files and their first hashes.
HasRoom(slots) ==
    /\ DOMAIN slots = 1 .. MaxFiles
    /\ \A i \in 1 .. MaxFiles : DOMAIN slots[i].pxHashes = 1 .. MaxHashes

Fit(files) ==
    /\ Len(files) \in 0 .. MaxFiles
    /\ \A i \in 1 .. Len(files) : Len(files[i].hashes) \in Nat

Has(slots, files) ==
    \A i \in 1 .. Len(files) :
      /\ slots[i].name = files[i].name /\ slots[i].size = files[i].size
      /\ Len(files[i].hashes) > 0 => slots[i].pxHashes[1] = files[i].hashes[1]

\* The fields of AzureIoTADUUpdateRequest_t, and its arrays of fixed size.
IsRequest(r) ==
    /\ r = [action |-> r.action, id |-> r.id, manifest |-> r.manifest, signature |-> r.signature,
            ulFileUrlCount |-> r.ulFileUrlCount, pxFileUrls |-> r.pxFileUrls,
            updateId |-> r.updateId, ulStepsCount |-> r.ulStepsCount, pxSteps |-> r.pxSteps,
            ulFilesCount |-> r.ulFilesCount, pxFiles |-> r.pxFiles]
    /\ DOMAIN r.pxSteps = 1 .. MaxFiles
    /\ HasRoom(r.pxFiles)

\* What prvCastUpdateRequest sets with a manifest, and without one.
LEMMA CastWithManifest ==
    ASSUME NEW r, IsRequest(r), NEW base, NEW m, m # NULL
    PROVE  CastUpdateRequest(r, base, m) =
             [action |-> base.action, id |-> base.id,
              manifest |-> base.manifest, signature |-> base.signature,
              ulFileUrlCount |-> Len(base.urls), pxFileUrls |-> Filled(r.pxFileUrls, base.urls),
              updateId |-> m.updateId,
              ulStepsCount |-> Len(m.steps), pxSteps |-> Filled(r.pxSteps, m.steps),
              ulFilesCount |-> Len(m.files), pxFiles |-> CastFiles(r.pxFiles, m.files)]
  BY DEF CastUpdateRequest, CastManifest, IsRequest

LEMMA CastWithoutManifest ==
    ASSUME NEW r, IsRequest(r), NEW base
    PROVE  CastUpdateRequest(r, base, NULL) =
             [action |-> base.action, id |-> base.id,
              manifest |-> base.manifest, signature |-> base.signature,
              ulFileUrlCount |-> Len(base.urls), pxFileUrls |-> Filled(r.pxFileUrls, base.urls),
              updateId |-> r.updateId,
              ulStepsCount |-> r.ulStepsCount, pxSteps |-> r.pxSteps,
              ulFilesCount |-> r.ulFilesCount, pxFiles |-> r.pxFiles]
  BY DEF CastUpdateRequest, CastManifest, IsRequest

\* The files of the structure are those of the manifest, their first hashes too.
LEMMA FilesCast ==
    ASSUME NEW slots, HasRoom(slots), NEW files, Fit(files)
    PROVE  HasRoom(CastFiles(slots, files)) /\ Has(CastFiles(slots, files), files)
<1> DEFINE cast == CastFiles(slots, files)
<1> USE AduAssumption
<1>1. /\ DOMAIN cast = 1 .. MaxFiles
      /\ \A i \in 1 .. MaxFiles :
           \/ i <= Len(files) /\ cast[i] = CastFile(slots[i], files[i], Len(files))
           \/ i > Len(files) /\ cast[i] \in {slots[i], LostFile}
  BY DEF CastFiles, HasRoom, Fit
<1> HIDE DEF cast
<1> USE DEF HasRoom, Fit
<1>2. ASSUME NEW i \in 1 .. Len(files)
      PROVE  /\ i \in 1 .. MaxFiles /\ 1 \in 1 .. MaxHashes /\ 1 <= Len(files)
             /\ cast[i] = CastFile(slots[i], files[i], Len(files))
  BY <1>1
<1>3. ASSUME NEW i \in 1 .. MaxFiles
      PROVE  DOMAIN cast[i].pxHashes = 1 .. MaxHashes
  BY <1>1, <1>3 DEF CastFile, CastHashes, LostFile
<1>4. ASSUME NEW i \in 1 .. Len(files)
      PROVE  /\ cast[i].name = files[i].name /\ cast[i].size = files[i].size
             /\ cast[i].pxHashes = CastHashes(slots[i].pxHashes, files[i].hashes, Len(files))
  <2>1. cast[i] = CastFile(slots[i], files[i], Len(files))
    BY <1>2
  <2>2. cast[i] = [name |-> files[i].name, size |-> files[i].size,
                   ulHashesCount |-> Len(files[i].hashes),
                   pxHashes |-> CastHashes(slots[i].pxHashes, files[i].hashes, Len(files))]
    BY <2>1 DEF CastFile
  <2> QED BY <2>2
<1>5. ASSUME NEW i \in 1 .. Len(files), Len(files[i].hashes) > 0
      PROVE  cast[i].pxHashes[1] = files[i].hashes[1]
  <2>1. /\ DOMAIN slots[i].pxHashes = 1 .. MaxHashes /\ 1 \in 1 .. MaxHashes
        /\ ~(1 > Len(files)) /\ 1 <= Len(files) /\ 1 <= Len(files[i].hashes)
    BY <1>2, <1>5
  <2> QED BY <1>4, <2>1 DEF CastHashes
<1>6. HasRoom(cast)
  BY <1>1, <1>3
<1>7. Has(cast, files)
  BY <1>4, <1>5 DEF Has
<1> QED BY <1>6, <1>7 DEF cast

LEMMA StepsCast ==
    ASSUME NEW slots, DOMAIN slots = 1 .. MaxFiles, NEW steps, Len(steps) \in 0 .. MaxFiles
    PROVE  /\ DOMAIN Filled(slots, steps) = 1 .. MaxFiles
           /\ \A i \in 1 .. Len(steps) : Filled(slots, steps)[i] = steps[i]
  BY AduAssumption DEF Filled

PayloadInv == payload # NULL => payload \in Messages

RequestInv == IsRequest(request) /\ ManifestIsOfThisRequest /\ PayloadInv

LEMMA ParseKeepsRequest ==
    ASSUME RequestInv, ParseRequest
    PROVE  RequestInv'
<1> DEFINE base == payload
           text == base.manifest
           m    == IF text = NULL THEN NULL ELSE ManifestContent[text]
<1>1. PayloadInv'
  BY UnescapedAssumption DEF RequestInv, PayloadInv, ParseRequest
<1>2. CASE request' = request
  BY <1>1, <1>2 DEF RequestInv, ManifestIsOfThisRequest
<1>3. CASE request' # request
  <2>1. /\ base \in Messages /\ base.wellFormed
        /\ request' = CastUpdateRequest(request, base, m)
        /\ text # NULL => m # NULL
    BY <1>3 DEF ParseRequest, CastWhenNotParsed, RequestInv, PayloadInv
  <2>2. CASE m = NULL
    <3>1. text = NULL /\ request' = CastUpdateRequest(request, base, NULL)
      BY <2>1, <2>2
    <3> HIDE DEF base, text, m
    <3>2. request'.manifest = text
      BY <3>1, CastWithoutManifest DEF RequestInv, text
    <3>3. IsRequest(request')
      BY <3>1, CastWithoutManifest DEF RequestInv, IsRequest
    <3> QED BY <1>1, <3>1, <3>2, <3>3 DEF RequestInv, ManifestIsOfThisRequest, IsRequest
  <2>3. CASE m # NULL
    <3>1. /\ m = ManifestContent[text] /\ text \in DOMAIN ManifestContent
      BY <2>1, <2>3, UpdateAssumption
    <3>2. Len(m.steps) \in 0 .. MaxFiles /\ Fit(m.files)
      BY <2>3, <3>1, AduAssumption DEF Fit
    <3>3. base.manifest = text
      OBVIOUS
    <3> HIDE DEF base, text, m
    <3>4. /\ request'.manifest = text
          /\ request'.updateId = m.updateId
          /\ request'.ulStepsCount = Len(m.steps)
          /\ request'.pxSteps = Filled(request.pxSteps, m.steps)
          /\ request'.ulFilesCount = Len(m.files)
          /\ request'.pxFiles = CastFiles(request.pxFiles, m.files)
          /\ request' = [action |-> request'.action, id |-> request'.id,
                manifest |-> request'.manifest, signature |-> request'.signature,
                ulFileUrlCount |-> request'.ulFileUrlCount, pxFileUrls |-> request'.pxFileUrls,
                updateId |-> request'.updateId, ulStepsCount |-> request'.ulStepsCount,
                pxSteps |-> request'.pxSteps, ulFilesCount |-> request'.ulFilesCount,
                pxFiles |-> request'.pxFiles]
      BY <2>1, <2>3, <3>3, CastWithManifest DEF RequestInv
    <3>5. IsRequest(request)
      BY DEF RequestInv
    <3>6. DOMAIN request.pxSteps = 1 .. MaxFiles /\ HasRoom(request.pxFiles)
      BY <3>5 DEF IsRequest
    <3>7. HasRoom(request'.pxFiles) /\ Has(request'.pxFiles, m.files)
      BY <3>2, <3>4, <3>6, FilesCast
    <3>8. /\ DOMAIN request'.pxSteps = 1 .. MaxFiles
          /\ \A i \in 1 .. Len(m.steps) : request'.pxSteps[i] = m.steps[i]
      BY <3>2, <3>4, <3>6, StepsCast
    <3>9. IsRequest(request)'
      BY <3>4, <3>7, <3>8 DEF IsRequest
    <3>10. ManifestIsOfThisRequest'
      BY <2>3, <3>1, <3>4, <3>7, <3>8 DEF ManifestIsOfThisRequest, Has
    <3> QED BY <1>1, <3>9, <3>10 DEF RequestInv
  <2> QED BY <2>2, <2>3
<1> QED BY <1>2, <1>3

LEMMA InitRequest == Init => RequestInv
<1> SUFFICES ASSUME Init
             PROVE  RequestInv
  OBVIOUS
<1>1. request = NoRequest /\ payload = NULL
  BY DEF Init, AduInit
<1>2. HasRoom(request.pxFiles)
  BY <1>1 DEF NoRequest, NoFile, HasRoom
<1>3. IsRequest(request)
  BY <1>1, <1>2 DEF NoRequest, IsRequest
<1>4. ManifestIsOfThisRequest
  BY <1>1 DEF NoRequest, ManifestIsOfThisRequest
<1>5. PayloadInv
  BY <1>1 DEF PayloadInv
<1> QED BY <1>3, <1>4, <1>5 DEF RequestInv

LEMMA NextRequest == RequestInv /\ [Next]_vars => RequestInv'
<1> SUFFICES ASSUME RequestInv, [Next]_vars
             PROVE  RequestInv'
  OBVIOUS
<1>1. CASE ReceiveMessage
  <2>1. UNCHANGED request
        /\ \E m \in Messages : payload' = m
    BY <1>1 DEF ReceiveMessage, Receive
  <2> QED BY <2>1 DEF RequestInv, PayloadInv, ManifestIsOfThisRequest
<1>2. CASE Parse
  BY <1>2, ParseKeepsRequest DEF Parse
<1>3. CASE UNCHANGED <<request, payload>>
  BY <1>3 DEF RequestInv, PayloadInv, ManifestIsOfThisRequest
<1>4. ReceiveMessage \/ Parse \/ UNCHANGED <<request, payload>>
  BY DEF Next, vars, aduVars, Discard, Authenticate, Authenticating, AuthenticationReturns,
         Respond, SendResponse, SendAgentState, Report, ReportInProgress, InitialiseSizeRequest,
         AskSize, InitialiseRequest, Ask, WriteBlock, VerifyImage, Boot, ReportFailure
<1> QED BY <1>1, <1>2, <1>3, <1>4

(***************************************************************************)
(* The text of the manifest, which is authenticated, and the parsed        *)
(* manifest, which is acted on, are of the same request: however many      *)
(* requests, with and without manifests, that can be parsed or not, filled *)
(* the structure.  Manifests may have more files than a file has room for  *)
(* hashes, although prvCastUpdateRequest then writes beyond pxHashes: each *)
(* file is set after the hashes of those before it.  This is said only of  *)
(* manifests whose hashes end within the structure (OverrunAssumption of   *)
(* AduClient, which nothing in the code ensures): of a write beyond it     *)
(* neither model nor theorem says anything.                                *)
(***************************************************************************)
THEOREM ManifestAlwaysOfThisRequest == Spec => []ManifestIsOfThisRequest
<1>1. RequestInv => ManifestIsOfThisRequest
  BY DEF RequestInv
<1> QED BY InitRequest, NextRequest, <1>1, PTL DEF Spec

(***************************************************************************)
(* The verdict.                                                            *)
(***************************************************************************)
Accepting == {"Accepted", "InProgress", "Sizing", "Downloading", "Answered", "Verified"}

\* While the call runs it is about the request in the structure, and what it
\* answered stays true of that request until the next is parsed.
VerdictInv ==
    /\ task = "Authenticating" =>
         call.manifest = request.manifest /\ call.doc = request.signature
    /\ task \in {"Authentic"} \cup Accepting => Genuine(request.manifest, request.signature)

LEMMA InitVerdict == Init => VerdictInv
  BY DEF Init, JwsInit, Idle, VerdictInv, Accepting

LEMMA NextVerdict == JwsInv /\ VerdictInv /\ [Next]_vars => VerdictInv'
<1> SUFFICES ASSUME JwsInv, VerdictInv, [Next]_vars
             PROVE  VerdictInv'
  OBVIOUS
<1>0. IsCall(call) /\ AuthenticatedIsGenuine
  BY JwsInvSays DEF JwsInv, CallInv
<1> USE DEF VerdictInv, Accepting
<1>1. CASE ReceiveMessage
  BY <1>1 DEF ReceiveMessage, jwsVars
<1>2. CASE Parse
  BY <1>2 DEF Parse, Advance, jwsVars
<1>3. CASE Authenticate
  <2>1. /\ call' = [at |-> call'.at, manifest |-> request.manifest, doc |-> request.signature,
                    cx |-> call'.cx]
        /\ task' = "Authenticating" /\ UNCHANGED request
    BY <1>3 DEF Authenticate, ManifestAuthenticate, Advance, aduVars
  <2> QED BY <2>1
<1>4. CASE Authenticating
  <2>1. UNCHANGED <<task, request>>
    BY <1>4 DEF Authenticating, aduVars, appVars
  <2> QED BY <1>0, <1>4, <2>1, JwsStepKeepsCall DEF Authenticating
<1>5. CASE AuthenticationReturns
  <2>1. /\ task = "Authenticating" /\ UNCHANGED request /\ call' = Idle
        /\ task' = IF call.at = "Authenticated" THEN "Authentic" ELSE "Refused"
    BY <1>5 DEF AuthenticationReturns, Advance, Return, aduVars
  <2>2. call.at = "Authenticated" => Genuine(request.manifest, request.signature)
    BY <1>0, <2>1 DEF AuthenticatedIsGenuine
  <2> QED BY <2>1, <2>2 DEF Idle
<1>6. CASE UNCHANGED vars
  BY <1>6 DEF vars, jwsVars, aduVars, appVars
<1>7. CASE \/ Discard \/ Respond \/ ReportInProgress \/ InitialiseSizeRequest \/ AskSize
           \/ InitialiseRequest \/ Ask \/ WriteBlock \/ VerifyImage \/ Boot \/ ReportFailure
  <2>1. UNCHANGED <<call, request>>
    BY <1>7 DEF Discard, Respond, ReportInProgress, InitialiseSizeRequest, AskSize,
                InitialiseRequest, Ask, WriteBlock, VerifyImage, Boot, ReportFailure,
                SendResponse, SendAgentState, Report, jwsVars, aduVars
  <2>2. \/ task' \notin {"Authenticating", "Authentic"} \cup Accepting
        \/ task' # "Authenticating" /\ task \in {"Authentic"} \cup Accepting
    BY <1>7 DEF Discard, Respond, ReportInProgress, InitialiseSizeRequest, AskSize,
                InitialiseRequest, Ask, WriteBlock, VerifyImage, Boot, ReportFailure, Advance
  <2> QED BY <2>1, <2>2
<1> QED BY <1>1, <1>2, <1>3, <1>4, <1>5, <1>6, <1>7 DEF Next

(***************************************************************************)
(* The image.                                                              *)
(***************************************************************************)
\* A request with a manifest came in a message that a device can be sent.
SentRequest ==
    request.manifest # NULL =>
      /\ request.manifest \in DOMAIN ManifestContent
      /\ Len(ManifestContent[request.manifest].files) > 0
      /\ Len(ManifestContent[request.manifest].files[1].hashes) > 0
      /\ request.action = "ApplyDownload" => request.signature \in Documents

ImageInv ==
    /\ SentRequest
    /\ task \in {"Authenticating", "Authentic"} \cup Accepting =>
         request.manifest # NULL /\ request.action = "ApplyDownload"
    /\ task = "Verified" => IsImage(request.pxFiles[1].pxHashes[1])
    /\ InstalledIsAuthentic

LEMMA ParseKeepsSent ==
    ASSUME RequestInv, SentRequest, ParseRequest
    PROVE  SentRequest'
<1> DEFINE base == payload
           m    == IF base.manifest = NULL THEN NULL ELSE ManifestContent[base.manifest]
<1>1. CASE request' = request
  BY <1>1 DEF SentRequest
<1>2. CASE request' # request
  <2>1. /\ base \in Messages /\ base.wellFormed
        /\ request' = CastUpdateRequest(request, base, m)
        /\ base.manifest # NULL => m # NULL
    BY <1>2 DEF ParseRequest, CastWhenNotParsed, RequestInv, PayloadInv
  <2>2. base.manifest # NULL =>
          /\ base.manifest \in DOMAIN ManifestContent
          /\ Len(ManifestContent[base.manifest].files) > 0
          /\ Len(ManifestContent[base.manifest].files[1].hashes) > 0
          /\ base.action = "ApplyDownload" => base.signature \in Documents
    BY <2>1, UpdateAssumption
  <2> HIDE DEF base, m
  <2>3. IsRequest(request)
    BY DEF RequestInv
  <2>4. /\ request'.manifest = base.manifest
        /\ request'.action = base.action
        /\ request'.signature = base.signature
    <3>1. CASE m = NULL
      BY <2>1, <2>3, <3>1, CastWithoutManifest
    <3>2. CASE m # NULL
      BY <2>1, <2>3, <3>2, CastWithManifest
    <3> QED BY <3>1, <3>2
  <2> QED BY <2>2, <2>4 DEF SentRequest
<1> QED BY <1>1, <1>2

LEMMA InitImage == Init => ImageInv
  BY DEF Init, AduInit, NoRequest, ImageInv, SentRequest, Accepting, InstalledIsAuthentic

LEMMA NextImage ==
    RequestInv /\ VerdictInv /\ ImageInv /\ [Next]_vars => ImageInv'
<1> SUFFICES ASSUME RequestInv, VerdictInv, ImageInv, [Next]_vars
             PROVE  ImageInv'
  OBVIOUS
<1> USE DEF ImageInv, Accepting
<1>1. CASE ReceiveMessage
  BY <1>1 DEF ReceiveMessage, Receive, SentRequest, InstalledIsAuthentic
<1>2. CASE Parse
  <2>1. /\ ParseRequest /\ UNCHANGED installed
        /\ task' \in {"Parsed", "Unusable"}
    BY <1>2 DEF Parse, Advance
  <2>2. InstalledIsAuthentic'
    BY <2>1 DEF InstalledIsAuthentic
  <2> QED BY <2>1, <2>2, ParseKeepsSent
<1>3. CASE VerifyImage
  <2>1. /\ task = "Downloading"
        /\ UNCHANGED <<request, imageSize, flash, installed>>
        /\ task' = IF IsImage(request.pxFiles[1].pxHashes[1]) THEN "Verified" ELSE "Failed"
    BY <1>3 DEF VerifyImage, Advance, aduVars
  <2>2. SentRequest' /\ InstalledIsAuthentic'
    BY <2>1 DEF SentRequest, InstalledIsAuthentic
  <2>3. task' = "Verified" => IsImage(request.pxFiles[1].pxHashes[1])'
    BY <2>1 DEF IsImage
  <2> QED BY <2>1, <2>2, <2>3
<1>4. CASE Boot
  <2> DEFINE content == ManifestContent[request.manifest]
             file    == content.files[1].hashes[1]
  <2>1. /\ task = "Verified" /\ task' = "Idle" /\ UNCHANGED request
        /\ installed' = [manifest |-> request.manifest, image |-> flash]
    BY <1>4 DEF Boot, SendAgentState, Report
  <2>2. /\ request.manifest # NULL
        /\ Len(content.files) > 0 /\ Len(content.files[1].hashes) > 0
        /\ request.signature \in Documents
    BY <2>1 DEF SentRequest
  <2>3. Genuine(request.manifest, request.signature)
    BY <2>1 DEF VerdictInv
  <2>4. /\ content # NULL /\ content.files[1].hashes[1] = request.pxFiles[1].pxHashes[1]
    <3>1. /\ content # NULL
          /\ request.ulFilesCount = Len(content.files)
          /\ \A i \in 1 .. request.ulFilesCount :
               Len(content.files[i].hashes) > 0 =>
                 request.pxFiles[i].pxHashes[1] = content.files[i].hashes[1]
      BY <2>2 DEF RequestInv, ManifestIsOfThisRequest
    <3>2. 1 \in 1 .. request.ulFilesCount
      BY <2>1, <2>2, <3>1, AduAssumption DEF SentRequest
    <3> QED BY <2>2, <3>1, <3>2
  <2>5. \A a \in 0 .. SizeOf[file] - 1 : flash[a] = <<file, a>>
    BY <2>1, <2>4 DEF IsImage
  <2> HIDE DEF content
  <2>6. InstalledIsAuthentic'
    BY <2>1, <2>2, <2>3, <2>5 DEF InstalledIsAuthentic, content
  <2> QED BY <2>1, <2>6 DEF SentRequest
<1>5. CASE UNCHANGED vars
  BY <1>5 DEF vars, aduVars, appVars, SentRequest, IsImage, InstalledIsAuthentic
<1>6. CASE \/ Discard \/ Authenticate \/ Authenticating \/ AuthenticationReturns
           \/ Respond \/ ReportInProgress \/ InitialiseSizeRequest \/ AskSize
           \/ InitialiseRequest \/ Ask \/ WriteBlock \/ ReportFailure
  <2>1. UNCHANGED <<request, installed>>
    BY <1>6 DEF Discard, Authenticate, Authenticating, AuthenticationReturns, Respond,
                ReportInProgress, InitialiseSizeRequest, AskSize, InitialiseRequest, Ask,
                WriteBlock, ReportFailure, SendResponse, SendAgentState, Report, Advance,
                aduVars, appVars
  <2>2. /\ task' \in {"Authenticating", "Authentic"} \cup Accepting =>
             task \in {"Authenticating", "Authentic"} \cup Accepting
               \/ (request.manifest # NULL /\ request.action = "ApplyDownload")
        /\ task' # "Verified" \/ (task = "Verified" /\ UNCHANGED <<imageSize, flash>>)
    BY <1>6 DEF Discard, Authenticate, Authenticating, AuthenticationReturns, Respond,
                ReportInProgress, InitialiseSizeRequest, AskSize, InitialiseRequest, Ask,
                WriteBlock, ReportFailure, Advance, appVars
  <2>3. SentRequest' /\ InstalledIsAuthentic'
    BY <2>1 DEF SentRequest, InstalledIsAuthentic
  <2>4. task' = "Verified" => IsImage(request.pxFiles[1].pxHashes[1])'
    BY <2>1, <2>2 DEF IsImage
  <2> QED BY <2>1, <2>2, <2>3, <2>4
<1> QED BY <1>1, <1>2, <1>3, <1>4, <1>5, <1>6 DEF Next

(***************************************************************************)
(* The authentication: a call is about a request that was sent.            *)
(***************************************************************************)
LEMMA InitJws == Init => JwsInv
<1>1. Init => JwsInit
  BY DEF Init
<1>2. JwsInit => JwsInv
  BY JwsInitially DEF JwsInv
<1> QED BY <1>1, <1>2

LEMMA NextJws == ImageInv /\ JwsInv /\ [Next]_vars => JwsInv'
<1> SUFFICES ASSUME ImageInv, CallInv(scratch, call), [Next]_vars
             PROVE  CallInv(scratch', call')
  BY DEF JwsInv
<1>1. CASE Authenticate
  <2>1. request.signature \in Documents /\ ManifestAuthenticate(request.manifest, request.signature)
    BY <1>1 DEF Authenticate, ImageInv, SentRequest
  <2> QED BY <2>1, StepManifestAuthenticate
<1>2. CASE Authenticating
  BY <1>2, JwsStepKeeps DEF Authenticating
<1>3. CASE AuthenticationReturns
  BY <1>3, StepReturn DEF AuthenticationReturns
<1>4. CASE UNCHANGED jwsVars
  BY <1>4 DEF jwsVars
<1>5. Authenticate \/ Authenticating \/ AuthenticationReturns \/ UNCHANGED jwsVars
  BY DEF Next, vars, ReceiveMessage, Parse, Discard, Respond, ReportInProgress,
         InitialiseSizeRequest, AskSize, InitialiseRequest, Ask, WriteBlock, VerifyImage,
         Boot, ReportFailure
<1> QED BY <1>1, <1>2, <1>3, <1>4, <1>5

(***************************************************************************)
(* The four invariants hold together: what the structure says, what the    *)
(* call has found out about it, what was decided and what is installed.    *)
(***************************************************************************)
UpdateInv == RequestInv /\ JwsInv /\ VerdictInv /\ ImageInv

LEMMA UpdateInvariance == Spec => []UpdateInv
<1>1. Init => UpdateInv
  BY InitRequest, InitJws, InitVerdict, InitImage DEF UpdateInv
<1>2. UpdateInv /\ [Next]_vars => UpdateInv'
  BY NextRequest, NextJws, NextVerdict, NextImage DEF UpdateInv
<1> QED BY <1>1, <1>2, PTL DEF Spec

\* Success is answered only for a manifest that the update service has signed:
\* a root key the device has vouches for the key, the key for the hash.  It
\* holds whatever documents come, in whatever order their members, although
\* the result of decoding the key is ignored, no length of a signature is
\* looked at, and the buffer keeps what earlier calls left in it.
THEOREM AuthenticatedAlwaysGenuine == Spec => []AuthenticatedIsGenuine
<1>1. UpdateInv => AuthenticatedIsGenuine
  BY JwsInvSays DEF UpdateInv
<1> QED BY UpdateInvariance, <1>1, PTL

\* A deployment is reported only for the manifest that was authenticated, in
\* the message that is being worked on.
THEOREM OnlyAuthenticAlwaysReported == Spec => []OnlyAuthenticReported
<1>1. UpdateInv => OnlyAuthenticReported
  BY DEF UpdateInv, VerdictInv, OnlyAuthenticReported, Accepting
<1> QED BY UpdateInvariance, <1>1, PTL

\* What boots is the image that a manifest the update service signed names,
\* whole, whatever the sizes of files and chunks and whatever the server
\* answered.  As all that is said of a request, it is said of manifests whose
\* hashes are not written beyond the structure (OverrunAssumption).
THEOREM InstalledAlwaysAuthentic == Spec => []InstalledIsAuthentic
<1>1. UpdateInv => InstalledIsAuthentic
  BY DEF UpdateInv, ImageInv
<1> QED BY UpdateInvariance, <1>1, PTL

(***************************************************************************)
(* The converse.  What a call finds in the buffer is what it has written,  *)
(* whatever documents earlier calls have left there.                       *)
(***************************************************************************)
LEMMA NextFinding ==
    JwsInv /\ FindingInv(scratch, call) /\ [Next]_vars => FindingInv(scratch, call)'
<1> SUFFICES ASSUME CallInv(scratch, call), FindingInv(scratch, call), [Next]_vars
             PROVE  FindingInv(scratch', call')
  BY DEF JwsInv
<1>1. CASE Authenticate
  <2>1. ManifestAuthenticate(request.manifest, request.signature)
    BY <1>1 DEF Authenticate
  <2> QED BY <2>1, FindingManifestAuthenticate DEF FindingInv
<1>2. CASE Authenticating
  BY <1>2, FindingKept DEF Authenticating
<1>3. CASE AuthenticationReturns
  <2>1. call' = Idle
    BY <1>3 DEF AuthenticationReturns, Return
  <2> QED BY <2>1, NothingInIdle
<1>4. CASE UNCHANGED jwsVars
  BY <1>4 DEF jwsVars
<1>5. Authenticate \/ Authenticating \/ AuthenticationReturns \/ UNCHANGED jwsVars
  BY DEF Next, vars, ReceiveMessage, Parse, Discard, Respond, ReportInProgress,
         InitialiseSizeRequest, AskSize, InitialiseRequest, Ask, WriteBlock, VerifyImage,
         Boot, ReportFailure
<1> QED BY <1>1, <1>2, <1>3, <1>4, <1>5

\* A manifest that the update service has signed, with a document that is well
\* formed, is not refused: no section overwrites what a later one reads, the
\* searches find what is there, and what earlier calls left in the buffer does
\* not come between, whatever the documents and the order of their members.
THEOREM GenuineAlwaysAuthenticates == Spec => []GenuineAuthenticates
<1>1. Init => FindingInv(scratch, call)
  BY NothingInIdle DEF Init, JwsInit
<1>2. UpdateInv => JwsInv
  BY DEF UpdateInv
<1>3. FindingInv(scratch, call) => GenuineAuthenticates
  BY FindingSays
<1> QED BY UpdateInvariance, <1>1, <1>2, <1>3, NextFinding, PTL DEF Spec
=================================================================================
