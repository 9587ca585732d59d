------------------------------- MODULE AduClient -------------------------------
(***************************************************************************)
(* The Device Update client (azure_iot_adu_client.c): it turns the update  *)
(* request found in a message of writable properties into the structure    *)
(* the application works with, and reports the device's decision and state *)
(* through the hub client.                                                 *)
(*                                                                         *)
(* The structure has arrays of fixed size with counts, belongs to the      *)
(* application and is filled again by every request; its strings point     *)
(* into the message.  A string is its value here.  Writes beyond an array  *)
(* are modelled as far as they end within the structure.                   *)
(***************************************************************************)
EXTENDS Naturals, Sequences

CONSTANTS
    NULL,               \* a null pointer, and an empty string
    Indeterminate,      \* what a slot of an array holds that nothing has set
    MaxFiles,           \* _az_IOT_ADU_CLIENT_MAX_TOTAL_FILE_COUNT and the like
    MaxHashes,          \* _az_IOT_ADU_CLIENT_MAX_FILE_HASH_COUNT
    DeviceProperties,   \* AzureIoTADUClientDeviceProperties_t of the device
    ManifestContent,    \* ManifestContent[m]: what the text m says; NULL: no manifest
    Unescaped           \* Unescaped[message]: how the message reads when the
                        \* manifest in it was unescaped where it is

\* The parser of the core refuses more steps and files than have room.
ASSUME AduAssumption ==
    /\ MaxFiles \in Nat /\ MaxHashes \in Nat \ {0}
    /\ \A m \in DOMAIN ManifestContent :
         LET manifest == ManifestContent[m]
         IN  manifest # NULL =>
               /\ Len(manifest.steps) \in 0 .. MaxFiles
               /\ Len(manifest.files) \in 0 .. MaxFiles
               /\ \A i \in 1 .. Len(manifest.files) : Len(manifest.files[i].hashes) \in Nat

\* The hashes that the loop of prvCastUpdateRequest writes beyond the last file.
Overrun(filesCount) == IF filesCount > MaxHashes THEN filesCount - MaxHashes ELSE 0

\* They end within the structure: an entry of pxFiles that is not in use takes
\* its hashes and one more, and so do the version and the date behind pxFiles.
\* Nothing in the code ensures it, and nothing is said of other manifests.
ASSUME OverrunAssumption ==
    \A m \in DOMAIN ManifestContent :
      ManifestContent[m] # NULL =>
        LET filesCount == Len(ManifestContent[m].files)
        IN  Overrun(filesCount) <= (MaxFiles - filesCount) * (MaxHashes + 1) + 1

VARIABLES
    payload,            \* the message being worked on, as it reads now
    request,            \* AzureIoTADUUpdateRequest_t
    reported,           \* what was reported last about this message
    aduResult           \* what the last call returned

aduVars == <<payload, request, reported, aduResult>>

NoFile == [name |-> NULL, size |-> 0, ulHashesCount |-> 0,
           pxHashes |-> [i \in 1 .. MaxHashes |-> NULL]]

NoRequest ==
    [action |-> NULL, id |-> NULL,
     manifest |-> NULL, signature |-> NULL,
     ulFileUrlCount |-> 0, pxFileUrls |-> [i \in 1 .. MaxFiles |-> NULL],
     updateId |-> NULL,
     ulStepsCount |-> 0, pxSteps |-> [i \in 1 .. MaxFiles |-> NULL],
     ulFilesCount |-> 0, pxFiles |-> [i \in 1 .. MaxFiles |-> NoFile]]

AduInit ==
    /\ payload = NULL
    /\ request = NoRequest
    /\ reported = NULL
    /\ aduResult = "Success"

\* A message of writable properties with the component of the ADU service.
Receive(message) ==
    /\ payload' = message
    /\ reported' = NULL /\ aduResult' = "Success"
    /\ UNCHANGED request

(***************************************************************************)
(* prvCastUpdateRequest.                                                   *)
(***************************************************************************)
\* The first slots are set, the others keep what an earlier request left.
Filled(slots, values) ==
    [i \in DOMAIN slots |-> IF i <= Len(values) THEN values[i] ELSE slots[i]]

\* The loop over the hashes of a file runs to the number of files.  What it
\* writes beyond pxHashes lies in the entries that follow.
CastHashes(slots, hashes, filesCount) ==
    [j \in DOMAIN slots |-> CASE j > filesCount  -> slots[j]
                              [] j <= filesCount /\ j <= Len(hashes) -> hashes[j]
                              [] OTHER           -> Indeterminate]

CastFile(old, file, filesCount) ==
    [name |-> file.name, size |-> file.size, ulHashesCount |-> Len(file.hashes),
     pxHashes |-> CastHashes(old.pxHashes, file.hashes, filesCount)]

\* An entry of pxFiles that the loop for an earlier one has written to.
LostFile == [name |-> Indeterminate, size |-> Indeterminate, ulHashesCount |-> Indeterminate,
             pxHashes |-> [i \in 1 .. MaxHashes |-> Indeterminate]]

\* Each file of the manifest is set after the loops for those before it, so that
\* only entries behind the last can be lost.
CastFiles(slots, files) ==
    [i \in DOMAIN slots |-> CASE i <= Len(files) -> CastFile(slots[i], files[i], Len(files))
                              [] i > Len(files) /\ Overrun(Len(files)) > 0 -> LostFile
                              [] OTHER -> slots[i]]

\* Mutant: a manifest the structure already has is not replaced.
CastManifestOnce(old, manifest) ==
    IF manifest = NULL \/ old.updateId # NULL THEN old
    ELSE [old EXCEPT !.updateId     = manifest.updateId,
                     !.ulStepsCount = Len(manifest.steps),
                     !.pxSteps      = Filled(@, manifest.steps),
                     !.ulFilesCount = Len(manifest.files),
                     !.pxFiles      = CastFiles(@, manifest.files)]

\* Without a manifest what is known of the manifest before stays.
CastManifest(old, manifest) ==
    IF manifest = NULL THEN old
    ELSE [old EXCEPT !.updateId     = manifest.updateId,
                     !.ulStepsCount = Len(manifest.steps),
                     !.pxSteps      = Filled(@, manifest.steps),
                     !.ulFilesCount = Len(manifest.files),
                     !.pxFiles      = CastFiles(@, manifest.files)]

CastUpdateRequest(old, base, manifest) ==
    CastManifest([old EXCEPT !.action         = base.action,
                             !.id             = base.id,
                             !.manifest       = base.manifest,
                             !.signature      = base.signature,
                             !.ulFileUrlCount = Len(base.urls),
                             !.pxFileUrls     = Filled(@, base.urls)], manifest)

(***************************************************************************)
(* AzureIoTADUClient_ParseRequest.  The manifest is a JSON document in a   *)
(* string of the message; it is unescaped where it is, so that the next    *)
(* call reads another message.  A manifest that cannot be parsed leaves    *)
(* the structure as it was.                                                *)
(***************************************************************************)
\* Mutant: the structure is filled before the manifest is parsed.
CastWhenParsedEarly(old, base) == CastUpdateRequest(old, base, NULL)

CastWhenNotParsed(old, base) == old

ParseRequest ==
    LET base     == payload
        text     == base.manifest
        manifest == IF text = NULL THEN NULL ELSE ManifestContent[text]
    IN  /\ payload # NULL
        /\ \/ /\ ~base.wellFormed
              /\ aduResult' = "UnexpectedChar"
              /\ UNCHANGED <<payload, request>>
           \/ /\ base.wellFormed /\ text # NULL /\ manifest = NULL
              /\ payload' = Unescaped[base]
              /\ aduResult' = "UnexpectedChar"
              /\ request' = CastWhenNotParsed(request, base)
           \/ /\ base.wellFormed /\ (text = NULL \/ manifest # NULL)
              /\ payload' = IF text = NULL THEN base ELSE Unescaped[base]
              /\ aduResult' = "Success"
              /\ request' = CastUpdateRequest(request, base, manifest)
        /\ UNCHANGED reported

(***************************************************************************)
(* Reports.  The JSON text is built in the caller's buffer, which may be   *)
(* too small, and published; whatever makes the hub client fail is told as *)
(* a failure to publish.                                                   *)
(***************************************************************************)
Report(report) ==
    /\ \/ aduResult' = "Success" /\ reported' = report
       \/ aduResult' \in {"OutOfMemory", "PublishFailed"} /\ UNCHANGED reported
    /\ UNCHANGED <<payload, request>>

SendResponse(decision) ==
    Report([what |-> "Response", decision |-> decision])

\* prvFillBaseAduDeviceProperties: custom properties are two arrays and a count.
BaseDeviceProperties(p) ==
    [manufacturer |-> p.manufacturer, model |-> p.model, updateId |-> p.updateId,
     custom |-> IF p.custom = NULL THEN NULL
                ELSE [i \in 1 .. p.custom.count |-> <<p.custom.names[i], p.custom.values[i]>>]]

\* prvFillBaseAduWorkflow.
BaseWorkflow(r) ==
    IF r = NULL THEN NULL ELSE [action |-> r.action, id |-> r.id]

\* prvFillBaseAduInstallResults: empty details of a step are no details.
BaseInstallResults(results) ==
    IF results = NULL THEN NULL
    ELSE [code |-> results.code, steps |-> SubSeq(results.steps, 1, results.stepsCount)]

SendAgentState(state, r, results) ==
    Report([what |-> "State", state |-> state, device |-> BaseDeviceProperties(DeviceProperties),
            workflow |-> BaseWorkflow(r), results |-> BaseInstallResults(results)])

(***************************************************************************)
(* Properties.                                                             *)
(***************************************************************************)
\* The application reads the text of the manifest, which it authenticates, and
\* the parsed manifest, which it acts on, from one structure that many requests
\* fill: they must be of the same manifest (prvCastUpdateRequest).
ManifestIsOfThisRequest ==
    request.manifest # NULL =>
      LET manifest == ManifestContent[request.manifest]
      IN  /\ manifest # NULL
          /\ request.updateId = manifest.updateId
          /\ request.ulStepsCount = Len(manifest.steps)
          /\ \A i \in 1 .. request.ulStepsCount : request.pxSteps[i] = manifest.steps[i]
          /\ request.ulFilesCount = Len(manifest.files)
          /\ \A i \in 1 .. request.ulFilesCount :
               /\ request.pxFiles[i].name = manifest.files[i].name
               /\ request.pxFiles[i].size = manifest.files[i].size
               /\ Len(manifest.files[i].hashes) > 0 =>
                    request.pxFiles[i].pxHashes[1] = manifest.files[i].hashes[1]

\* The hashes each file is to be validated against are those of the manifest
\* (docs/how_to_use_adu_client.md on pxFiles[].pxHashes[]): the structure has
\* as many hashes of a file as ulHashesCount says.
HashesAreAsParsed ==
    request.manifest # NULL =>
      \A i \in 1 .. request.ulFilesCount, j \in 1 .. MaxHashes :
        j <= request.pxFiles[i].ulHashesCount =>
          request.pxFiles[i].pxHashes[j] = ManifestContent[request.manifest].files[i].hashes[j]
================================================================================
