------------------------------- MODULE JsonWriter -------------------------------
(***************************************************************************)
(* The JSON writer (azure_iot_json_writer.c over az_json_writer of the SDK *)
(* core) and the builder of reported properties                            *)
(* (azure_iot_hub_client_properties.c).  A document in the making is the   *)
(* sequence of its tokens; every call appends some of them, or none, and   *)
(* what it has appended stays when a later part of it fails.               *)
(*                                                                         *)
(* Room is counted in tokens.  A token whose text varies in length needs   *)
(* slack beyond its own room, as the header says, so that a bracket may    *)
(* still fit where a name or a value does not.                             *)
(***************************************************************************)
EXTENDS JsonReader

CONSTANT Slack          \* tokens of room kept free beyond a name or a value

ASSUME SlackAssumption == Slack \in Nat

Begins == {"BeginObject", "BeginArray"}
Ends   == {"EndObject", "EndArray"}

\* AzureIoTJSONWriter_Init, for a buffer of that room.  `nested' is what is
\* open, the innermost last.
WriterInit(room) == [doc |-> << >>, nested |-> << >>, room |-> room]

Outcome(result, writer) == [result |-> result, writer |-> writer]

(***************************************************************************)
(* Where a token may stand.  The core refuses any other with a state error.*)
(***************************************************************************)
LastKind(doc) == IF doc = << >> THEN "None" ELSE doc[Len(doc)].kind

Innermost(w) == IF w.nested = << >> THEN "None" ELSE w.nested[Len(w.nested)]

NameMayFollow(w) == Innermost(w) = "BeginObject" /\ LastKind(w.doc) # "PropertyName"

ValueMayFollow(w) ==
    w.doc = << >> \/ LastKind(w.doc) = "PropertyName" \/ Innermost(w) = "BeginArray"

EndMayFollow(w, end) ==
    /\ LastKind(w.doc) # "PropertyName"
    /\ \/ end = "EndObject" /\ Innermost(w) = "BeginObject"
       \/ end = "EndArray" /\ Innermost(w) = "BeginArray"

MayFollow(w, token) ==
    CASE token.kind = "PropertyName" -> NameMayFollow(w)
      [] token.kind \in Ends         -> EndMayFollow(w, token.kind)
      [] OTHER                       -> ValueMayFollow(w)

NestedAfter(nested, kind) ==
    CASE kind \in Begins -> Append(nested, kind)
      [] kind \in Ends   -> SubSeq(nested, 1, Len(nested) - 1)
      [] OTHER           -> nested

Needed(token) == IF token.kind \in Begins \cup Ends THEN 1 ELSE 1 + Slack

\* One call of the core.
Append1(w, token) ==
    IF ~MayFollow(w, token) THEN Outcome("JSONInvalidState", w)
    ELSE IF w.room < Needed(token) THEN Outcome("OutOfMemory", w)
    ELSE Outcome("Success", [doc    |-> Append(w.doc, token),
                             nested |-> NestedAfter(w.nested, token.kind),
                             room   |-> w.room - 1])

\* Calls in a row, up to the first that fails.  What has been appended stays.
AppendAll(w, tokens) ==
    LET after[n \in 0 .. Len(tokens)] ==
          IF n = 0 THEN Outcome("Success", w)
          ELSE LET before == after[n - 1]
               IN  IF before.result # "Success" THEN before
                   ELSE Append1(before.writer, tokens[n])
    IN  after[Len(tokens)]

(***************************************************************************)
(* The calls of the writer.                                                *)
(***************************************************************************)
AppendPropertyName(w, name) == Append1(w, Name(name))
AppendValue(w, value)       == Append1(w, value)        \* String, Int32, Double, Bool, Null
AppendBeginObject(w)        == Append1(w, BeginObject)
AppendEndObject(w)          == Append1(w, EndObject)
AppendBeginArray(w)         == Append1(w, BeginArray)
AppendEndArray(w)           == Append1(w, EndArray)

\* AppendPropertyWith...Value: a name that was appended stays without value.
AppendPropertyWithValue(w, name, value) == AppendAll(w, <<Name(name), value>>)

GetBytesUsed(w) == Len(w.doc)

(***************************************************************************)
(* The builder.                                                            *)
(***************************************************************************)
BuilderBeginComponent(w, name) ==
    AppendAll(w, <<Name(name), BeginObject, Name("__t"), String("c")>>)

BuilderEndComponent(w) == AppendEndObject(w)

\* Mutant: code and version change places on the way to the core.
ResponseWithCodeAsVersion(w, name, code, version, description) ==
    AppendAll(w, <<Name(name), BeginObject, Name("ac"), Number(version),
                   Name("av"), Number(code), Name("value")>>)

\* The value itself is for the caller to append.
BuilderBeginResponseStatus(w, name, code, version, description) ==
    AppendAll(w, <<Name(name), BeginObject, Name("ac"), Number(code),
                   Name("av"), Number(version)>>
                 \o (IF description = "" THEN << >> ELSE <<Name("ad"), String(description)>>)
                 \o <<Name("value")>>)

BuilderEndResponseStatus(w) == AppendEndObject(w)

\* A document that can be read to its end.
Complete(doc) ==
    /\ doc # << >> /\ Nesting(doc, 1, Len(doc)) = 0
    /\ \A i \in 1 .. Len(doc) : doc[i].kind = "PropertyName" =>
         i < Len(doc) /\ doc[i + 1].kind \notin {"PropertyName"} \cup Ends
=================================================================================
