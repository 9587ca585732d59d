------------------------------- MODULE JsonReader -------------------------------
(***************************************************************************)
(* The JSON reader (azure_iot_json_reader.c over az_json_reader of the SDK *)
(* core).  A document is the sequence of its tokens; a reader is the       *)
(* document and the position of its current token, 0 before the first.    *)
(* There is no going back: a reader that has moved can only be initialised *)
(* again.                                                                  *)
(***************************************************************************)
EXTENDS Naturals, Sequences, FiniteSets

CONSTANT NoValue        \* the value of a token that is only punctuation

Token(kind, text, value) == [kind |-> kind, text |-> text, value |-> value]

BeginObject    == Token("BeginObject", "", NoValue)
EndObject      == Token("EndObject", "", NoValue)
BeginArray     == Token("BeginArray", "", NoValue)
EndArray       == Token("EndArray", "", NoValue)
Name(text)     == Token("PropertyName", text, NoValue)
String(text)   == Token("String", text, NoValue)
Number(n)      == Token("Number", "", [number |-> n])
NoToken        == Token("None", "", NoValue)      \* of a reader that has not moved
Opaque(value)  == Token("String", "", value)      \* a string that stands for a value

Reader(doc) == [doc |-> doc, at |-> 0]

CurrentToken(r) == IF r.at = 0 THEN NoToken ELSE r.doc[r.at]

\* A refused initialisation leaves the reader as it was.
ReaderInit(r, doc) ==
    IF doc = << >> THEN [result |-> "InvalidArgument", reader |-> r]
                   ELSE [result |-> "Success", reader |-> Reader(doc)]

NextToken(r) ==
    IF r.at < Len(r.doc) THEN [result |-> "Success", reader |-> [r EXCEPT !.at = @ + 1]]
                         ELSE [result |-> "JSONReaderDone", reader |-> r]

Moved(r) == NextToken(r).reader

\* How many more objects and arrays are begun than ended in doc[from .. to].
Nesting(doc, from, to) ==
    Cardinality({i \in from .. to : doc[i].kind \in {"BeginObject", "BeginArray"}})
      - Cardinality({i \in from .. to : doc[i].kind \in {"EndObject", "EndArray"}})

\* Where the object or array that begins at a token ends: the last token of the
\* document when it has no end.
EndOf(doc, begin) ==
    LET ends == {i \in begin .. Len(doc) : Nesting(doc, begin, i) = 0}
    IN  IF ends = {} THEN Len(doc) ELSE CHOOSE i \in ends : \A j \in ends : i <= j

\* Mutant: an object or array is not skipped, only its beginning is.
SkipBeginning(r) == IF CurrentToken(r).kind = "PropertyName" THEN Moved(r) ELSE r

\* From a name the reader moves to the value; from the beginning of an object
\* or array it moves to the end of it; from any other value it does not move.
SkipChildren(r) ==
    LET v == IF CurrentToken(r).kind = "PropertyName" THEN Moved(r) ELSE r
    IN  IF CurrentToken(v).kind \in {"BeginObject", "BeginArray"}
        THEN [v EXCEPT !.at = EndOf(v.doc, v.at)] ELSE v

\* A value that happens to be a string with the text of a name passes for it.
TokenIsTextEqual(r, text) ==
    /\ CurrentToken(r).kind \in {"PropertyName", "String"}
    /\ CurrentToken(r).text = text

TokenType(r) == CurrentToken(r).kind

AtEnd(r) == r.at = Len(r.doc)

(***************************************************************************)
(* The search that every caller of the reader writes as a loop: from where *)
(* the reader stands, compare the token, else move to its value, skip it   *)
(* and move on.  The answer is the position of the token found, or 0 when  *)
(* a call of the loop fails first.                                         *)
(***************************************************************************)
SearchFrom(doc, text) ==
    LET search[at \in 0 .. Len(doc)] ==
          LET r     == [doc |-> doc, at |-> at]
              value == SkipChildren(Moved(r))
          IN  IF TokenIsTextEqual(r, text) THEN at
              ELSE IF AtEnd(r) \/ AtEnd(value) THEN 0
              ELSE search[value.at + 1]
    IN  search

\* The reader on the value of the name found: the loop's last NextToken.
Find(r, text) ==
    LET at == SearchFrom(r.doc, text)[r.at]
    IN  IF at = 0 \/ at = Len(r.doc)
        THEN [result |-> "Failed", reader |-> r]
        ELSE [result |-> "Success", reader |-> [r EXCEPT !.at = at + 1]]

(***************************************************************************)
(* The text of an object, as far as the core can read it: its members, one *)
(* behind the other, each a name and a value.  What stands inside a value  *)
(* matters only where it ends.                                             *)
(***************************************************************************)
Members(doc) ==
    {i \in 1 .. Len(doc) : doc[i].kind = "PropertyName" /\ Nesting(doc, 1, i) = 1}

\* Only the value of a token without text is more than its text.
IsToken(t) ==
    /\ t.kind = "PropertyName" => t = Name(t.text)
    /\ t.kind = "String" /\ t.text # "" => t = String(t.text)

MemberOrEnd(doc, at) == at < Len(doc) => at \in Members(doc)

IsObject(doc) ==
    /\ Len(doc) \in Nat
    /\ \A i \in 1 .. Len(doc) : IsToken(doc[i])
    /\ Len(doc) > 0 => doc[1] = BeginObject
    /\ MemberOrEnd(doc, 2)
    /\ \A i \in Members(doc) : i < Len(doc) =>
         LET last == SkipChildren([doc |-> doc, at |-> i + 1]).at
         IN  /\ doc[i + 1].kind \notin {"PropertyName", "EndObject", "EndArray"}
             /\ (i + 1 .. last) \cap Members(doc) = {}
             /\ MemberOrEnd(doc, last + 1)

\* The tokens that are the values of the members of that name.
Valued(name, doc) ==
    {doc[i + 1] : i \in {j \in Members(doc) : j < Len(doc) /\ doc[j] = Name(name)}}
=================================================================================
