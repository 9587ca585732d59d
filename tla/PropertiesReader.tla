---------------------------- MODULE PropertiesReader ----------------------------
(***************************************************************************)
(* Reading the properties of a message                                     *)
(* (AzureIoTHubClientProperties_GetPropertiesVersion and                   *)
(* _GetNextComponentProperty).  The reader is the caller's: both sides     *)
(* move it, the iteration between properties and the caller from the name  *)
(* of one past its value.  The iteration itself is the SDK core's, told    *)
(* from what the header promises and the unit tests expect of it.          *)
(***************************************************************************)
EXTENDS JsonReader

CONSTANT Components     \* the names registered with AzureIoTHubClient_Init

\* Types of message and of property.
Requested == "eAzureIoTHubPropertiesRequestedMessage"
Writable  == "eAzureIoTHubPropertiesWritablePropertyMessage"
FromDevice  == "eAzureIoTHubClientReportedFromDevice"
FromService == "eAzureIoTHubClientPropertyWritable"

Answer(result, r) == [result |-> result, reader |-> r]

\* The answer to a request has both kinds of property, each in a section.
Section(propertyType) == IF propertyType = FromDevice THEN "reported" ELSE "desired"

\* Where the object with the properties begins: there is one, or the message
\* has no such section.
SectionBegins(doc, messageType, propertyType) ==
    IF messageType = Writable THEN {1}
    ELSE {i \in 2 .. Len(doc) : /\ doc[i] = BeginObject
                                /\ doc[i - 1] = Name(Section(propertyType))
                                /\ Nesting(doc, 1, i - 1) = 1}

(***************************************************************************)
(* GetPropertiesVersion leaves the reader on the number.                   *)
(***************************************************************************)
VersionIn(r, found) ==
    IF found.result = "Success" /\ TokenType(found.reader) = "Number"
    THEN Answer("Success", found.reader) ELSE Answer("Failed", r)

GetPropertiesVersion(r, messageType) ==
    LET begins == SectionBegins(r.doc, messageType, FromService)
    IN  IF r.at # 0 \/ begins = {} THEN Answer("Failed", r)
        ELSE VersionIn(r, Find([r EXCEPT !.at = 1 + CHOOSE i \in begins : TRUE], "$version"))

(***************************************************************************)
(* The core's part of GetNextComponentProperty.  From where the reader     *)
(* stands it leaves the component that ends there, passes over metadata    *)
(* and enters a component that begins there, until it stands on the name   *)
(* of a property or the end of the properties.                             *)
(***************************************************************************)
IsMetadata(doc, i) == doc[i].kind = "PropertyName" /\ doc[i].text \in {"$version", "__t"}

\* A component begins directly in the object with the properties.
IsComponentName(doc, begin, i) ==
    /\ doc[i].kind = "PropertyName" /\ doc[i].text \in Components
    /\ Nesting(doc, begin, i) = 1
    /\ doc[i + 1].kind = "BeginObject"

PassedOver(doc, begin, i) ==
    \/ doc[i].kind = "EndObject"
    \/ \E name \in {i, i - 1} : IsMetadata(doc, name) \/ IsComponentName(doc, begin, name)

StopFrom(doc, begin, last, from) ==
    CHOOSE i \in from .. last :
      /\ i = last \/ ~PassedOver(doc, begin, i)
      /\ \A j \in from .. i - 1 : PassedOver(doc, begin, j)

\* The component after the tokens from .. stop - 1: changed by the last of
\* them that ends or begins one.
ComponentAfter(doc, begin, from, stop, component) ==
    LET changes == {i \in from .. stop - 1 :
                      doc[i].kind = "EndObject" \/ IsComponentName(doc, begin, i)}
        change  == CHOOSE i \in changes : \A j \in changes : j <= i
    IN  IF changes = {} THEN component
        ELSE IF doc[change].kind = "EndObject" THEN "" ELSE doc[change].text

StopIn(r, begin, last, from, stop, component) ==
    [result    |-> CASE stop = last                       -> "EndOfProperties"
                     [] r.doc[stop].kind = "PropertyName" -> "Success"
                     [] OTHER                             -> "Failed",
     reader    |-> [r EXCEPT !.at = stop],
     component |-> ComponentAfter(r.doc, begin, from, stop, component)]

NextProperty(r, begin, component) ==
    LET last == EndOf(r.doc, begin)
        from == IF r.at = 0 THEN begin + 1 ELSE r.at
    IN  StopIn(r, begin, last, from, StopFrom(r.doc, begin, last, from), component)

\* The name of the component is the caller's too, and goes into the next call.
\* It is written only when a property was found: at the end of the properties
\* the caller keeps the name of the component that ended last.
WrittenBack(next, component) ==
    IF next.result = "Success" THEN next ELSE [next EXCEPT !.component = component]

GetNextComponentProperty(r, messageType, propertyType, component) ==
    LET begins == SectionBegins(r.doc, messageType, propertyType)
    IN  IF begins = {} THEN [result |-> "Failed", reader |-> r, component |-> component]
        ELSE WrittenBack(NextProperty(r, CHOOSE i \in begins : TRUE, component), component)

(***************************************************************************)
(* The properties of a message, said of its text: of the object that holds *)
(* them, each member but the metadata and the components is a property,    *)
(* and of each component each member but the metadata.                     *)
(***************************************************************************)
MembersOf(doc, begin) ==
    {i \in begin .. EndOf(doc, begin) : doc[i].kind = "PropertyName" /\ Nesting(doc, begin, i) = 1}

\* Where the value of a member ends.
ValueEnd(doc, i) ==
    IF doc[i + 1].kind \in {"BeginObject", "BeginArray"} THEN EndOf(doc, i + 1) ELSE i + 1

\* The object that begins at a token is whole: its members stand one behind the
\* other, each a name and a value, and behind the last one it ends.
IsWhole(doc, begin) ==
    LET members == MembersOf(doc, begin)
        behind  == members \cup {EndOf(doc, begin)}
    IN  /\ begin \in 1 .. Len(doc) /\ begin + 1 \in behind
        /\ doc[begin].kind = "BeginObject" /\ doc[EndOf(doc, begin)].kind = "EndObject"
        /\ \A i \in members :
             /\ doc[i + 1].kind \notin {"PropertyName", "EndObject", "EndArray"}
             /\ (i + 1 .. ValueEnd(doc, i)) \cap members = {} /\ ValueEnd(doc, i) + 1 \in behind
             /\ IsMetadata(doc, i) => doc[i + 1].kind \notin {"BeginObject", "BeginArray"}

ComponentNames(doc, begin) == {i \in MembersOf(doc, begin) : IsComponentName(doc, begin, i)}

HoldsProperties(doc, begin) ==
    IsWhole(doc, begin) /\ \A i \in ComponentNames(doc, begin) : IsWhole(doc, i + 1)

\* What a message without a version says of one it says nowhere.
VersionNames(doc, begin) == {i \in MembersOf(doc, begin) : doc[i].text = "$version"}

HasVersion(doc, begin, n) ==
    /\ \A i \in VersionNames(doc, begin) : doc[i + 1] = Number(n)
    /\ VersionNames(doc, begin) = {} =>
         \A i \in EndOf(doc, begin) + 1 .. Len(doc) : doc[i].text # "$version"

Properties(doc, begin, members, within) ==
    {[component |-> within, name |-> doc[i].text, value |-> doc[i + 1]] :
       i \in {j \in members : ~IsMetadata(doc, j) /\ ~IsComponentName(doc, begin, j)}}

PropertiesOf(doc, begin) ==
    Properties(doc, begin, MembersOf(doc, begin), "")
      \cup UNION {Properties(doc, begin, MembersOf(doc, i + 1), doc[i].text) :
                    i \in ComponentNames(doc, begin)}
=================================================================================
