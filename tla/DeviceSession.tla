------------------------------ MODULE DeviceSession ------------------------------
(***************************************************************************)
(* A device authenticates and answers the properties it is sent: the token *)
(* of AzureIoTHubClient_Connect, the reader and writer of JSON, and the    *)
(* calls of azure_iot_hub_client_properties.h.                             *)
(*                                                                         *)
(* The application is not part of the middleware.  Its loop over the       *)
(* properties is the one that header gives; it acknowledges each property  *)
(* it knows as it comes to it, in one document, and gives the document up  *)
(* when a call fails.  Packets and callbacks are HubClient's concern: here *)
(* a message is in the buffer until the application is done with it.       *)
(***************************************************************************)
EXTENDS SasToken, JsonWriter, PropertiesReader

CONSTANTS
    TokenLengths,       \* lengths of the parts of a token
    Packets,            \* messages with properties: [type, doc, version, properties]
    Known,              \* <<component, name>> of the properties the device has
    Rooms,              \* room of the buffers the application writes into
    NoPassword          \* no token was sent

ASSUME SessionAssumption ==
    /\ TokenLengths \subseteq Lengths
    /\ \A k \in Known : k = <<k[1], k[2]>>

IsKnownProperty(p) == <<p.component, p.name>> \in Known

\* A message that is sent to a device holds its properties in one whole object,
\* with its version or without any; those that the device knows are no objects
\* and no arrays.
ASSUME PacketsAssumption ==
    \A m \in Packets :
      m.doc # << >> =>
        /\ Len(m.doc) \in Nat
        /\ \A begin \in SectionBegins(m.doc, m.type, FromService) :
             /\ HoldsProperties(m.doc, begin) /\ HasVersion(m.doc, begin, m.version)
             /\ m.properties[FromService] = PropertiesOf(m.doc, begin)
        /\ \A p \in m.properties[FromService] :
             IsKnownProperty(p) => p.value.kind \notin {"BeginObject", "BeginArray"}

VARIABLES
    phase,              \* where the application is
    keySet,             \* whether a symmetric key has been set
    sent,               \* the token in the last CONNECT packet
    packet,             \* the message in the network buffer
    reader, component,  \* shared with GetNextComponentProperty
    version,            \* what GetPropertiesVersion told
    scan,               \* the type of property the reader is moved for
    writer,             \* the document being written
    open,               \* the component begun in it
    read,               \* the properties come to in this message
    published           \* the document sent in answer to it

readingVars == <<reader, component, scan, read>>
writingVars == <<writer, open>>
vars == <<phase, keySet, sent, packet, version, readingVars, writingVars, published>>

NoPacket == [type |-> Writable, doc |-> << >>, version |-> 0,
             properties |-> [s \in {FromDevice, FromService} |-> {}]]

Init ==
    /\ phase = "Disconnected" /\ keySet = FALSE /\ sent = NoPassword
    /\ packet = NoPacket /\ version = 0
    /\ reader = Reader(<< >>) /\ component = "" /\ scan = FromService /\ read = {}
    /\ writer = WriterInit(0) /\ open = "" /\ published = << >>

Goto(to) == phase' = to

(***************************************************************************)
(* The connection.                                                         *)
(***************************************************************************)
SetSymmetricKey ==
    /\ phase = "Disconnected" /\ ~keySet
    /\ keySet' = TRUE
    /\ UNCHANGED <<phase, sent, packet, version, readingVars, writingVars, published>>

\* Without a key, or with a token that is whole, the packet is sent; the broker
\* takes it or not.
Connect ==
    /\ phase = "Disconnected"
    /\ \/ ~keySet /\ sent' = NoPassword /\ phase' \in {"Disconnected", "Connected"}
       \/ /\ keySet
          /\ \E l \in TokenLengths :
               IF Result(l) = "Success"
               THEN sent' = l /\ phase' \in {"Disconnected", "Connected"}
               ELSE sent' = NoPassword /\ UNCHANGED phase
    /\ UNCHANGED <<keySet, packet, version, readingVars, writingVars, published>>

(***************************************************************************)
(* A message and its version.  The version moves the reader, which then    *)
(* has to be initialised again.                                            *)
(***************************************************************************)
Receive ==
    /\ phase = "Connected"
    /\ packet' \in Packets
    /\ LET init == ReaderInit(reader, packet'.doc)
       IN  reader' = init.reader
           /\ Goto(IF init.result = "Success" THEN "Received" ELSE "Connected")
    /\ scan' = IF packet'.type = Requested THEN FromDevice ELSE FromService
    /\ component' = "" /\ read' = {} /\ published' = << >> /\ sent' = NoPassword
    /\ version' = 0 /\ writer' = WriterInit(0) /\ open' = ""
    /\ UNCHANGED keySet

ReadVersion ==
    /\ phase = "Received"
    /\ LET answer == GetPropertiesVersion(reader, packet.type)
       IN  IF answer.result = "Success"
           THEN /\ version' = CurrentToken(answer.reader).value.number
                /\ reader' = ReaderInit(answer.reader, packet.doc).reader
                /\ Goto("Versioned")
           ELSE Goto("Connected") /\ UNCHANGED <<version, reader>>
    /\ UNCHANGED <<keySet, sent, packet, component, scan, read, writingVars, published>>

(***************************************************************************)
(* Every call that writes may fail; then the application gives up.         *)
(***************************************************************************)
Written(outcome, next) ==
    /\ writer' = outcome.writer
    /\ Goto(IF outcome.result = "Success" THEN next ELSE "Connected")
    /\ UNCHANGED <<keySet, sent, packet, version>>

BeginDocument ==
    /\ phase = "Versioned"
    /\ \E room \in Rooms : Written(AppendBeginObject(WriterInit(room)), "Begun")
    /\ UNCHANGED <<open, readingVars, published>>

\* A property of the device's own goes with the acknowledgements: a number, in
\* one call, or a list.
AppendOwn ==
    /\ phase = "Begun"
    /\ Written(AppendPropertyWithValue(writer, "own", Number(1)), "Scanning")
    /\ UNCHANGED <<open, readingVars, published>>

AppendOwnList ==
    /\ \/ phase = "Begun"     /\ Written(AppendPropertyName(writer, "own"), "ListNamed")
       \/ phase = "ListNamed" /\ Written(AppendBeginArray(writer), "InList")
       \/ phase = "InList"    /\ Written(AppendValue(writer, Number(1)), "ListFull")
       \/ phase = "ListFull"  /\ Written(AppendEndArray(writer), "Scanning")
    /\ UNCHANGED <<open, readingVars, published>>

(***************************************************************************)
(* The loop over the properties.  What the device reported before it is    *)
(* sent back in the answer to a request, and is read first; for the other  *)
(* type of property the reader is initialised again and the name cleared.  *)
(***************************************************************************)
NextComponentProperty ==
    /\ phase = "Scanning"
    /\ LET next == GetNextComponentProperty(reader, packet.type, scan, component)
       IN  IF next.result = "EndOfProperties" /\ scan = FromDevice
           THEN /\ reader' = Reader(packet.doc) /\ component' = ""
                /\ scan' = FromService /\ read' = {}
                /\ Goto("Scanning")
           ELSE /\ reader' = next.reader /\ component' = next.component
                /\ UNCHANGED <<scan, read>>
                /\ Goto(CASE next.result = "Success"         -> "AtName"
                          [] next.result = "EndOfProperties" -> "Closing"
                          [] next.result = "Failed"          -> "Connected")
    /\ UNCHANGED <<keySet, sent, packet, version, writingVars, published>>

IsKnown == \E k \in Known : k[1] = component /\ TokenIsTextEqual(reader, k[2])

ToValue ==
    /\ phase = "AtName"
    /\ LET value == Moved(reader)
       IN  /\ reader' = value
           /\ read' = read \cup {[component |-> component, name |-> CurrentToken(reader).text,
                                  value |-> CurrentToken(value)]}
    /\ Goto(IF scan = FromService /\ IsKnown THEN "Acknowledge" ELSE "PastValue")
    /\ UNCHANGED <<keySet, sent, packet, version, component, scan, writingVars, published>>

\* A property that is an object is passed over whole.
PastValue ==
    /\ phase = "PastValue"
    /\ reader' = Moved(SkipChildren(reader))
    /\ Goto("Scanning")
    /\ UNCHANGED <<keySet, sent, packet, version, component, scan, read, writingVars, published>>

(***************************************************************************)
(* The acknowledgement of the property the reader is on the value of.      *)
(***************************************************************************)
AcknowledgedName == reader.doc[reader.at - 1].text

EndComponent ==
    /\ phase \in {"Acknowledge", "Closing"}
    /\ open # "" /\ (phase = "Acknowledge" => open # component)
    /\ Written(BuilderEndComponent(writer), phase)
    /\ open' = ""
    /\ UNCHANGED <<readingVars, published>>

BeginComponent ==
    /\ phase = "Acknowledge" /\ open = "" /\ component # ""
    /\ Written(BuilderBeginComponent(writer, component), "Acknowledge")
    /\ open' = component
    /\ UNCHANGED <<readingVars, published>>

AckCode == 200

BeginResponseStatus ==
    /\ phase = "Acknowledge" /\ open = component
    /\ \E description \in {"", "done"} :
         Written(BuilderBeginResponseStatus(writer, AcknowledgedName, AckCode, version, description),
                "AppendValue")
    /\ UNCHANGED <<open, readingVars, published>>

AppendTheValue ==
    /\ phase = "AppendValue"
    /\ Written(AppendValue(writer, CurrentToken(reader)), "EndResponse")
    /\ UNCHANGED <<open, readingVars, published>>

EndResponseStatus ==
    /\ phase = "EndResponse"
    /\ Written(BuilderEndResponseStatus(writer), "PastValue")
    /\ UNCHANGED <<open, readingVars, published>>

EndDocument ==
    /\ phase = "Closing" /\ open = ""
    /\ Written(AppendEndObject(writer), "Written")
    /\ UNCHANGED <<open, readingVars, published>>

\* AzureIoTHubClient_SendPropertiesReported, of GetBytesUsed bytes.
SendPropertiesReported ==
    /\ phase = "Written"
    /\ published' = SubSeq(writer.doc, 1, GetBytesUsed(writer))
    /\ Goto("Connected")
    /\ UNCHANGED <<keySet, sent, packet, version, readingVars, writingVars>>

Next ==
    \/ SetSymmetricKey \/ Connect
    \/ Receive         \/ ReadVersion    \/ BeginDocument
    \/ AppendOwn       \/ AppendOwnList
    \/ NextComponentProperty             \/ ToValue       \/ PastValue
    \/ EndComponent    \/ BeginComponent
    \/ BeginResponseStatus               \/ AppendTheValue
    \/ EndResponseStatus                 \/ EndDocument
    \/ SendPropertiesReported

Spec == Init /\ [][Next]_vars

(***************************************************************************)
(* Properties.                                                             *)
(***************************************************************************)
\* Whatever the lengths of identity and key, a CONNECT packet that carries a
\* token carries one whose string, key, hash and signature were whole when
\* they were used, though all of them and the token share one buffer
\* (prvIoTHubClientGetToken, AzureIoT_Base64HMACCalculate).
SentTokenIsWhole == sent # NoPassword => TokenIsWhole(sent)

\* The loop of the header comes to every property of the message of the type
\* asked for, each in its component, and to nothing that stands inside the
\* value of another (AzureIoTHubClientProperties_GetNextComponentProperty).
ReadsWhatIsThere ==
    phase \in {"Closing", "Written"} => read = packet.properties[FromService]

\* What the acknowledgements in a document are.
EnclosingComponent(doc, i) ==
    IF Nesting(doc, 1, i) = 1 THEN ""
    ELSE LET names == {j \in 1 .. i : doc[j].kind = "PropertyName" /\ Nesting(doc, 1, j) = 1}
         IN  doc[CHOOSE j \in names : \A k \in names : k <= j].text

AcknowledgementAt(doc, i) ==
    LET value == CHOOSE j \in {i + 6, i + 8} : doc[j] = Name("value")
    IN  [component |-> EnclosingComponent(doc, i), name |-> doc[i].text,
         code |-> doc[i + 3].value.number, version |-> doc[i + 5].value.number,
         value |-> doc[value + 1]]

Acknowledgements(doc) ==
    {AcknowledgementAt(doc, i) :
       i \in {j \in 1 .. Len(doc) - 2 : doc[j + 1] = BeginObject /\ doc[j + 2] = Name("ac")}}

\* A document that is published can be read to its end and acknowledges the
\* properties of the message that the device knows, and no others, each in its
\* component, with its value, and with the version of the message: however
\* many calls wrote it, and whichever of them found no room
\* (azure_iot_hub_client_properties.c, azure_iot_json_writer.c).
PublishedAcknowledges ==
    published # << >> =>
      /\ Complete(published)
      /\ Acknowledgements(published) =
           {[component |-> p.component, name |-> p.name, code |-> AckCode,
             version |-> packet.version, value |-> p.value] :
              p \in {q \in packet.properties[FromService] : IsKnownProperty(q)}}
=================================================================================
