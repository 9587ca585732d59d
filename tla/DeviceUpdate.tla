------------------------------ MODULE DeviceUpdate ------------------------------
(***************************************************************************)
(* An update from the message that asks for it to the image that boots:    *)
(* the Device Update client, the authentication of the manifest and the    *)
(* HTTP client, in the order the documentation of the client gives         *)
(* (docs/how_to_use_adu_client.md).  The application and the flash         *)
(* platform are not part of the middleware: their steps are what that      *)
(* document and the end-to-end test describe.                              *)
(*                                                                         *)
(* The application works on one message at a time, on a copy of it, and    *)
(* uses one AzureIoTADUUpdateRequest_t and one scratch buffer for all.     *)
(***************************************************************************)
EXTENDS Jws, AduClient, HttpPort

CONSTANTS
    Messages,           \* the requests the service may send
    MaxMessages,        \* bound: how many it sends
    ChunkLengths,       \* bytes the application asks for at a time; 0: the image
    Nothing             \* what an erased byte of flash holds

\* What a device can be asked to install: a file, by a manifest that says so.
ASSUME UpdateAssumption ==
    \A m \in Messages : m.wellFormed /\ m.manifest # NULL =>
      /\ m.manifest \in DOMAIN ManifestContent
      /\ m.action = "ApplyDownload" => m.signature \in Documents
      /\ ManifestContent[m.manifest] # NULL =>
           /\ Len(ManifestContent[m.manifest].files) > 0
           /\ Len(ManifestContent[m.manifest].files[1].hashes) > 0

\* A manifest is full of quotation marks.  Once it is unescaped, the first ends
\* its string: behind one that could be parsed nothing follows that JSON allows.
ASSUME UnescapedAssumption ==
    /\ Unescaped \in [Messages -> Messages]
    /\ \A m \in Messages :
         m.wellFormed /\ m.manifest # NULL /\ ManifestContent[m.manifest] # NULL =>
           ~Unescaped[m].wellFormed

VARIABLES
    task,               \* where the application is
    received,           \* messages received so far
    offset,             \* bytes written of the image being downloaded
    imageSize,          \* its size, as the server told it
    flash,              \* the flash bank: a byte of a file or Nothing at each address
    installed           \* what boots: the manifest accepted and the image

appVars == <<task, received, offset, imageSize, flash, installed>>

vars == <<jwsVars, aduVars, httpVars, appVars>>

FlashSize == CHOOSE n \in {SizeOf[f] : f \in Files} : \A f \in Files : SizeOf[f] <= n
Erased    == [a \in 0 .. FlashSize - 1 |-> Nothing]

Init ==
    /\ JwsInit /\ AduInit /\ HttpInit
    /\ task = "Idle" /\ received = 0
    /\ offset = 0 /\ imageSize = 0
    /\ flash = Erased
    /\ installed = Nothing

Advance(to) == task' = to /\ UNCHANGED <<received, offset, imageSize, flash, installed>>

(***************************************************************************)
(* From the message to the decision.                                       *)
(***************************************************************************)
ReceiveMessage ==
    /\ task = "Idle" /\ received < MaxMessages
    /\ \E m \in Messages : Receive(m)
    /\ task' = "Received" /\ received' = received + 1
    /\ UNCHANGED <<jwsVars, httpVars, offset, imageSize, flash, installed>>

\* The handler parses the component; it may do so again, also after a failure.
Parse ==
    /\ task \in {"Received", "Parsed", "Unusable"}
    /\ ParseRequest
    /\ Advance(IF aduResult' = "Success" THEN "Parsed" ELSE "Unusable")
    /\ UNCHANGED <<jwsVars, httpVars>>

Discard ==
    /\ \/ task = "Unusable"
       \/ task = "Parsed" /\ (request.action = "Cancel" \/ request.manifest = NULL)
    /\ Advance("Idle")
    /\ UNCHANGED <<jwsVars, aduVars, httpVars>>

Authenticate ==
    /\ task = "Parsed" /\ request.action = "ApplyDownload" /\ request.manifest # NULL
    /\ ManifestAuthenticate(request.manifest, request.signature)
    /\ Advance("Authenticating")
    /\ UNCHANGED <<aduVars, httpVars>>

Authenticating ==
    /\ JwsStep
    /\ UNCHANGED <<aduVars, httpVars, appVars>>

AuthenticationReturns ==
    /\ task = "Authenticating"
    /\ Advance(IF call.at = "Authenticated" THEN "Authentic" ELSE "Refused")
    /\ Return
    /\ UNCHANGED <<aduVars, httpVars>>

\* An update may be rejected by a device that is busy.
Respond ==
    /\ \/ /\ task \in {"Authentic", "Refused"}
          /\ SendResponse("Reject") /\ Advance("Idle")
       \/ /\ task = "Authentic"
          /\ SendResponse("Accept")
          /\ Advance(IF aduResult' = "Success" THEN "Accepted" ELSE "Idle")
    /\ UNCHANGED <<jwsVars, httpVars>>

ReportInProgress ==
    /\ task = "Accepted"
    /\ SendAgentState("DeploymentInProgress", request, NULL)
    /\ Advance("InProgress")
    /\ UNCHANGED <<jwsVars, httpVars>>

(***************************************************************************)
(* The download.  Handle and offset start afresh with an image; what the   *)
(* outputs of a request point to stays until a request sets them.          *)
(***************************************************************************)
Url == request.pxFileUrls[1]

InitialiseSizeRequest ==
    /\ task = "InProgress"
    /\ Initialise("HEAD", Url)
    /\ task' = "Sizing" /\ offset' = 0 /\ imageSize' = 0 /\ flash' = Erased
    /\ UNCHANGED <<jwsVars, aduVars, received, installed>>

AskSize ==
    /\ task = "Sizing"
    /\ RequestSize
    /\ imageSize' = httpResult'
    /\ task' = IF httpResult' > 0 THEN "Downloading" ELSE "Failed"
    /\ UNCHANGED <<jwsVars, aduVars, received, offset, flash, installed>>

\* Before the first request, and before others or not: nothing says that the
\* headers of a request stay.
InitialiseRequest ==
    /\ task = "Downloading" /\ offset < imageSize
    /\ handle.method = "HEAD" \/ handle.ranges # << >>
    /\ Initialise("GET", Url)
    /\ Advance("Downloading")
    /\ UNCHANGED <<jwsVars, aduVars>>

Ranges ==
    {<<offset, offset + n - 1>> : n \in ChunkLengths \ {0}}
      \cup {r \in {<<0, EndOfFile>>} : 0 \in ChunkLengths /\ offset = 0}

Ask ==
    /\ task = "Downloading" /\ offset < imageSize /\ handle.method = "GET"
    /\ \E r \in Ranges : Request(r[1], r[2])
    /\ Advance(IF httpResult' = Success THEN "Answered" ELSE "Failed")
    /\ UNCHANGED <<jwsVars, aduVars>>

\* AzureIoTPlatform_WriteBlock: what the outputs point to, at the offset.
FlashAfter(data, length) ==
    [a \in DOMAIN flash |->
       IF offset <= a /\ a < offset + length THEN <<data.file, data.from + a - offset>>
                                             ELSE flash[a]]

WriteBlock ==
    /\ task = "Answered"
    /\ flash' = FlashAfter(outData, outLength)
    /\ offset' = offset + outLength
    /\ task' = "Downloading"
    /\ UNCHANGED <<jwsVars, aduVars, httpVars, received, imageSize, installed>>

IsImage(file) ==
    /\ imageSize = SizeOf[file]
    /\ \A a \in 0 .. imageSize - 1 : flash[a] = <<file, a>>

\* AzureIoTPlatform_VerifyImage, against the hash of the first file.
VerifyImage ==
    /\ task = "Downloading" /\ offset >= imageSize
    /\ Advance(IF IsImage(request.pxFiles[1].pxHashes[1]) THEN "Verified" ELSE "Failed")
    /\ Deinit
    /\ UNCHANGED <<jwsVars, aduVars>>

\* AzureIoTPlatform_EnableImage and the reset; the agent reports that it is idle.
Boot ==
    /\ task = "Verified"
    /\ SendAgentState("Idle", NULL, NULL)
    /\ installed' = [manifest |-> request.manifest, image |-> flash]
    /\ task' = "Idle"
    /\ UNCHANGED <<jwsVars, httpVars, received, offset, imageSize, flash>>

\* A failed update is reported twice: the failure with its results, then idle.
ReportFailure ==
    /\ \/ /\ task = "Failed"
          /\ SendAgentState("Failed", request,
                            [code |-> "failure", steps |-> <<"failure">>, stepsCount |-> 1])
          /\ Advance("AfterFailure")
       \/ /\ task = "AfterFailure"
          /\ SendAgentState("Idle", NULL, NULL)
          /\ Advance("Idle")
    /\ UNCHANGED <<jwsVars, httpVars>>

Next ==
    \/ ReceiveMessage    \/ Parse             \/ Discard
    \/ Authenticate      \/ Authenticating    \/ AuthenticationReturns
    \/ Respond           \/ ReportInProgress
    \/ InitialiseSizeRequest \/ AskSize       \/ InitialiseRequest
    \/ Ask               \/ WriteBlock        \/ VerifyImage
    \/ Boot              \/ ReportFailure

Spec == Init /\ [][Next]_vars

(***************************************************************************)
(* Properties.                                                             *)
(***************************************************************************)
\* What boots is the image whose hash stands in a manifest the update service
\* signed, whole and in order, whatever the server answered, whatever address
\* it was fetched from and whatever earlier requests left in the structure.
InstalledIsAuthentic ==
    installed # Nothing =>
      LET file == ManifestContent[installed.manifest].files[1].hashes[1]
      IN  /\ \E d \in Documents : Genuine(installed.manifest, d)
          /\ \A a \in 0 .. SizeOf[file] - 1 : installed.image[a] = <<file, a>>

\* The device reports a deployment only for a manifest that was authenticated
\* in this message: neither a manifest nor a verdict is left from another.
OnlyAuthenticReported ==
    task \in {"Accepted", "InProgress", "Sizing", "Downloading", "Verified"} =>
      Genuine(request.manifest, request.signature)

\* A request that succeeds tells where the payload is, and how long
\* (azure_iot_http.h on ppucOutData and pulOutDataLength).
SuccessHasData ==
    task = "Answered" =>
      /\ outData # NoBody
      /\ outData.file = handle.file /\ outData.from = offset
================================================================================
