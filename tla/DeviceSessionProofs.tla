--------------------------- MODULE DeviceSessionProofs ---------------------------
(***************************************************************************)
(* The token sent is whole, for every size of the password buffer and all  *)
(* lengths of what shares it; the application's loop reads the properties  *)
(* of a message, all of them and nothing else; and a document it publishes *)
(* acknowledges those it knows, each in its component, with the version.   *)
(***************************************************************************)
EXTENDS DeviceSession, JsonReaderTheorems, FiniteSetTheorems

(***************************************************************************)
(* The buffer.                                                             *)
(***************************************************************************)
Contents == {Garbage, ToSign, Key, Hash, Signature}
Pieces   == [base : Int, lo : Int, hi : Int, what : Contents]

\* The buffer stays a set of pieces.
LEMMA WriteType ==
    ASSUME NEW buffer \in SUBSET Pieces, NEW lo \in Int, NEW hi \in Int, NEW what \in Contents
    PROVE  Write(buffer, lo, hi, what) \in SUBSET Pieces
<1>1. Piece(lo, lo, hi, what) \in Pieces
  BY DEF Piece, Pieces
<1>2. ASSUME NEW p \in buffer
      PROVE  Remains(p, lo, hi) \subseteq Pieces
  BY <1>2 DEF Remains, Pieces
<1> QED BY <1>1, <1>2 DEF Write

\* What has just been written is there.
LEMMA WrittenIsHeld ==
    ASSUME NEW buffer \in SUBSET Pieces, NEW lo \in Int, NEW hi \in Int, NEW what \in Contents
    PROVE  Holds(Write(buffer, lo, hi, what), lo, hi, what)
<1> DEFINE p == Piece(lo, lo, hi, what)
<1>1. p \in Write(buffer, lo, hi, what)
  BY DEF Write
<1>2. p.base = lo /\ p.what = what /\ p.lo <= lo /\ hi <= p.hi
  BY DEF Piece
<1> QED BY <1>1, <1>2 DEF Holds

\* A write that does not touch a region leaves what the region holds.
LEMMA DisjointWriteKeeps ==
    ASSUME NEW buffer \in SUBSET Pieces, NEW lo \in Int, NEW hi \in Int, NEW what \in Contents,
           NEW a \in Int, NEW b \in Int, NEW other \in Contents,
           lo < hi, a <= b, hi <= a \/ b <= lo,
           Holds(buffer, lo, hi, what)
    PROVE  Holds(Write(buffer, a, b, other), lo, hi, what)
<1>1. PICK p \in buffer : p.base = lo /\ p.what = what /\ p.lo <= lo /\ hi <= p.hi
  BY DEF Holds
<1>2. p \in Pieces
  OBVIOUS
<1>3. CASE hi <= a
  <2> DEFINE q == [p EXCEPT !.hi = IF p.hi < a THEN p.hi ELSE a]
  <2>1. /\ q.base = lo /\ q.what = what /\ q.lo = p.lo
        /\ q.hi = IF p.hi < a THEN p.hi ELSE a
    BY <1>1, <1>2 DEF Pieces
  <2>2. q.lo < q.hi /\ q.lo <= lo /\ hi <= q.hi
    BY <1>1, <1>2, <1>3, <2>1 DEF Pieces
  <2>3. q \in Remains(p, a, b)
    BY <2>2 DEF Remains
  <2>4. q \in Write(buffer, a, b, other)
    BY <2>3 DEF Write
  <2> QED BY <2>1, <2>2, <2>4 DEF Holds
<1>4. CASE b <= lo
  <2> DEFINE q == [p EXCEPT !.lo = IF p.lo > b THEN p.lo ELSE b]
  <2>1. /\ q.base = lo /\ q.what = what /\ q.hi = p.hi
        /\ q.lo = IF p.lo > b THEN p.lo ELSE b
    BY <1>1, <1>2 DEF Pieces
  <2>2. q.lo < q.hi /\ q.lo <= lo /\ hi <= q.hi
    BY <1>1, <1>2, <1>4, <2>1 DEF Pieces
  <2>3. q \in Remains(p, a, b)
    BY <2>2 DEF Remains
  <2>4. q \in Write(buffer, a, b, other)
    BY <2>3 DEF Write
  <2> QED BY <2>1, <2>2, <2>4 DEF Holds
<1> QED BY <1>3, <1>4

(***************************************************************************)
(* The token.                                                              *)
(***************************************************************************)
\* What the checks of prvIoTHubClientGetToken and AzureIoT_Base64HMACCalculate
\* establish before the parts are written: they lie one behind the other.
LEMMA SuccessMeansRoom ==
    ASSUME NEW l \in Lengths, Result(l) = "Success"
    PROVE  /\ l.used \in Nat /\ l.key \in Nat /\ l.signature \in Nat /\ l.password \in Nat
           /\ 0 < l.used /\ 0 < l.key /\ 0 < l.signature
           /\ l.used + l.key + HashBufferSize <= HMACAt(l)
           /\ l.password <= HMACAt(l)
           /\ l.signature <= HMACBufferLength
  BY TokenAssumption
  DEF Lengths, Result, BufferLeft, HMACAt, HashBufferSize, HMACBufferLength

\* A token that is made is made from the string and the key that were written,
\* from the hash of them and from the whole signature.
THEOREM TokenOfSuccessIsWhole ==
    ASSUME NEW l \in Lengths, Result(l) = "Success"
    PROVE  TokenIsWhole(l)
<1> USE TokenAssumption
<1> DEFINE u == l.used  k == l.used + l.key  h == l.used + l.key + HashBufferSize
           m == HMACAt(l)  s == HMACAt(l) + l.signature
<1>1. /\ u \in Int /\ k \in Int /\ h \in Int /\ m \in Int /\ s \in Int
      /\ l.password \in Int /\ 0 <= l.password /\ l.password <= m
      /\ 0 < u /\ u < k /\ k < h /\ h <= m /\ m < s
  BY SuccessMeansRoom DEF HMACAt, HashBufferSize, HMACBufferLength
<1> HIDE DEF u, k, h, m, s
<1>2. {ToSign, Key, Hash, Signature, Garbage} \subseteq Contents
  BY DEF Contents
<1>3. /\ AfterToSign(l) \in SUBSET Pieces
      /\ Holds(AfterToSign(l), 0, u, ToSign)
  <2>1. AfterToSign(l) = Write({}, 0, u, ToSign)
    BY DEF AfterToSign, u
  <2> QED BY <1>1, <1>2, <2>1, WriteType, WrittenIsHeld
<1>4. /\ AfterKey(l) \in SUBSET Pieces
      /\ Holds(AfterKey(l), 0, u, ToSign)
      /\ Holds(AfterKey(l), u, k, Key)
  <2>1. AfterKey(l) = Write(AfterToSign(l), u, k, Key)
    BY DEF AfterKey, u, k
  <2> QED BY <1>1, <1>2, <1>3, <2>1, WriteType, WrittenIsHeld, DisjointWriteKeeps
<1>5. /\ AfterHash(l) \in SUBSET Pieces
      /\ Holds(AfterHash(l), 0, u, ToSign)
      /\ Holds(AfterHash(l), u, k, Key)
      /\ Holds(AfterHash(l), k, h, Hash)
  <2>1. AfterHash(l) = Write(AfterKey(l), k, h, Hash)
    BY DEF AfterHash, k, h
  <2> QED BY <1>1, <1>2, <1>4, <2>1, WriteType, WrittenIsHeld, DisjointWriteKeeps
<1>6. /\ AfterHMAC(l) \in SUBSET Pieces
      /\ Holds(AfterHMAC(l), k, h, Hash)
      /\ Holds(AfterHMAC(l), m, s, Signature)
  <2>1. AfterHMAC(l) = Write(AfterHash(l), m, s, Signature)
    BY DEF AfterHMAC, m, s
  <2> QED BY <1>1, <1>2, <1>5, <2>1, WriteType, WrittenIsHeld, DisjointWriteKeeps
<1>7. Holds(AfterPassword(l), m, s, Signature)
  <2>1. AfterPassword(l) = Write(AfterHMAC(l), 0, l.password, Garbage)
    BY DEF AfterPassword
  <2> QED BY <1>1, <1>2, <1>6, <2>1, DisjointWriteKeeps
<1> QED BY <1>5, <1>6, <1>7 DEF TokenIsWhole, u, k, h, m, s

(***************************************************************************)
(* The text of a message.                                                  *)
(***************************************************************************)
\* Where the members of an object stand, and what follows them.
Behind(doc, o) == MembersOf(doc, o) \cup {EndOf(doc, o)}

LEMMA ValueEndAt ==
    ASSUME NEW doc, NEW at \in Nat, at # 0, doc[at].kind # "PropertyName"
    PROVE  SkipChildren(At(doc, at)) =
             At(doc, IF doc[at].kind \in {"BeginObject", "BeginArray"} THEN EndOf(doc, at) ELSE at)
<1>1. CurrentToken(At(doc, at)) = doc[at]
  BY DEF CurrentToken, At
<1>2. [At(doc, at) EXCEPT !.at = EndOf(doc, at)] = At(doc, EndOf(doc, at))
  BY DEF At
<1>3. At(doc, at).doc = doc /\ At(doc, at).at = at
  BY DEF At
<1> QED BY <1>1, <1>2, <1>3 DEF SkipChildren

\* A token that neither begins nor ends anything leaves the nesting.
LEMMA NestingKept ==
    ASSUME NEW doc, NEW o \in Nat, NEW i \in Nat, o <= i, doc[i].kind = "PropertyName"
    PROVE  Nesting(doc, o, i - 1) = Nesting(doc, o, i)
<1>1. {j \in o .. i - 1 : doc[j].kind \in {"BeginObject", "BeginArray"}}
        = {j \in o .. i : doc[j].kind \in {"BeginObject", "BeginArray"}}
  OBVIOUS
<1>2. {j \in o .. i - 1 : doc[j].kind \in {"EndObject", "EndArray"}}
        = {j \in o .. i : doc[j].kind \in {"EndObject", "EndArray"}}
  OBVIOUS
<1> QED BY <1>1, <1>2 DEF Nesting

\* The members of an object that is whole stand between its beginning and its
\* end.
LEMMA ObjectBounds ==
    ASSUME NEW doc, Len(doc) \in Nat, NEW o, IsWhole(doc, o)
    PROVE  /\ o \in Nat /\ o # 0 /\ EndOf(doc, o) \in Nat
           /\ o < EndOf(doc, o) /\ EndOf(doc, o) <= Len(doc)
           /\ o + 1 \in Behind(doc, o)
           /\ doc[o].kind = "BeginObject" /\ doc[EndOf(doc, o)].kind = "EndObject"
           /\ \A i \in MembersOf(doc, o) :
                i \in Nat /\ o < i /\ i < EndOf(doc, o) /\ doc[i].kind = "PropertyName"
           /\ \A i \in Behind(doc, o) : i \in Nat /\ o < i /\ i <= EndOf(doc, o)
<1>1. o \in 1 .. Len(doc)
  BY DEF IsWhole
<1>2. EndOf(doc, o) \in o .. Len(doc)
  BY <1>1, EndIsBeyond
<1>3. /\ doc[o].kind = "BeginObject" /\ doc[EndOf(doc, o)].kind = "EndObject"
      /\ o + 1 \in Behind(doc, o)
  BY DEF IsWhole, Behind
<1>4. ASSUME NEW i \in MembersOf(doc, o)
      PROVE  i \in o .. EndOf(doc, o) /\ doc[i].kind = "PropertyName"
  BY DEF MembersOf
<1>5. ASSUME NEW i \in MembersOf(doc, o)
      PROVE  i \in Nat /\ o < i /\ i < EndOf(doc, o)
  BY <1>1, <1>2, <1>3, <1>4
<1>6. o < EndOf(doc, o)
  BY <1>1, <1>2, <1>3, <1>4 DEF Behind
<1> QED BY <1>1, <1>2, <1>3, <1>4, <1>5, <1>6 DEF Behind

\* The value of a member, and what stands behind it.
LEMMA MemberValue ==
    ASSUME NEW doc, Len(doc) \in Nat, NEW o, IsWhole(doc, o), NEW i \in MembersOf(doc, o)
    PROVE  /\ doc[i + 1].kind \notin {"PropertyName", "EndObject", "EndArray"}
           /\ ValueEnd(doc, i) \in Nat /\ i < ValueEnd(doc, i)
           /\ ValueEnd(doc, i) < EndOf(doc, o)
           /\ ValueEnd(doc, i) + 1 \in Behind(doc, o)
           /\ \A j \in MembersOf(doc, o) : ~(i < j /\ j <= ValueEnd(doc, i))
           /\ SkipChildren(At(doc, i + 1)) = At(doc, ValueEnd(doc, i))
           /\ doc[i + 1].kind = "BeginObject" => ValueEnd(doc, i) = EndOf(doc, i + 1)
           /\ IsMetadata(doc, i) => ValueEnd(doc, i) = i + 1
<1> DEFINE e == ValueEnd(doc, i)
<1>1. /\ doc[i + 1].kind \notin {"PropertyName", "EndObject", "EndArray"}
      /\ (i + 1 .. e) \cap MembersOf(doc, o) = {} /\ e + 1 \in Behind(doc, o)
      /\ IsMetadata(doc, i) => doc[i + 1].kind \notin {"BeginObject", "BeginArray"}
  BY DEF IsWhole, Behind
<1>2. i \in Nat /\ o < i /\ i < EndOf(doc, o) /\ EndOf(doc, o) <= Len(doc) /\ EndOf(doc, o) \in Nat
  BY ObjectBounds
<1>3. /\ i + 1 \in Nat /\ i + 1 # 0 /\ i + 1 \in 0 .. Len(doc)
  BY <1>2
<1>4. SkipChildren(At(doc, i + 1)) =
        At(doc, IF doc[i + 1].kind \in {"BeginObject", "BeginArray"}
                THEN EndOf(doc, i + 1) ELSE i + 1)
  BY <1>1, <1>3, ValueEndAt
<1>5. e = IF doc[i + 1].kind \in {"BeginObject", "BeginArray"} THEN EndOf(doc, i + 1) ELSE i + 1
  BY DEF ValueEnd
<1>6. EndOf(doc, i + 1) \in i + 1 .. Len(doc)
  BY <1>3, EndIsBeyond
<1>7. e \in Nat /\ i < e
  BY <1>2, <1>5, <1>6
<1> HIDE DEF e
<1>8. e < EndOf(doc, o)
  BY <1>1, <1>2, <1>7, ObjectBounds
<1>9. ASSUME NEW j \in MembersOf(doc, o), i < j, j <= e
      PROVE  FALSE
  <2>1. j \in Nat
    BY ObjectBounds
  <2>2. j \in i + 1 .. e
    BY <1>2, <1>7, <1>9, <2>1
  <2> QED BY <1>1, <2>2
<1> QED BY <1>1, <1>4, <1>5, <1>7, <1>8, <1>9 DEF e

\* Of two members, the value of one ends before the other begins.
LEMMA ValuesApart ==
    ASSUME NEW doc, Len(doc) \in Nat, NEW o, IsWhole(doc, o),
           NEW i \in MembersOf(doc, o), NEW j \in MembersOf(doc, o), i # j
    PROVE  ValueEnd(doc, i) < j \/ ValueEnd(doc, j) < i
<1>1. /\ i \in Nat /\ j \in Nat /\ ValueEnd(doc, i) \in Nat /\ ValueEnd(doc, j) \in Nat
      /\ ~(i < j /\ j <= ValueEnd(doc, i)) /\ ~(j < i /\ i <= ValueEnd(doc, j))
  BY ObjectBounds, MemberValue
<1> QED BY <1>1

\* What stands before a member is no name: a name would have the member for its
\* value.
LEMMA NoNameBefore ==
    ASSUME NEW doc, Len(doc) \in Nat, NEW o, IsWhole(doc, o), NEW i \in MembersOf(doc, o)
    PROVE  doc[i - 1].kind # "PropertyName"
<1> SUFFICES ASSUME doc[i - 1].kind = "PropertyName"
             PROVE  FALSE
  OBVIOUS
<1>1. /\ o \in Nat /\ i \in Nat /\ o < i /\ i < EndOf(doc, o) /\ EndOf(doc, o) \in Nat
      /\ doc[i].kind = "PropertyName"
  BY ObjectBounds
<1>2. Nesting(doc, o, i) = 1
  BY DEF MembersOf
<1>3. Nesting(doc, o, i - 1) = 1
  BY <1>1, <1>2, NestingKept
<1>4. i - 1 \in MembersOf(doc, o)
  BY <1>1, <1>3 DEF MembersOf
<1>5. doc[(i - 1) + 1].kind # "PropertyName"
  BY <1>4, MemberValue
<1>6. (i - 1) + 1 = i
  BY <1>1
<1> QED BY <1>1, <1>5, <1>6

(***************************************************************************)
(* The objects that properties stand in are the one that holds them all    *)
(* and the components.                                                     *)
(***************************************************************************)
Objects(doc, b) == {b} \cup {i + 1 : i \in ComponentNames(doc, b)}

\* The names of the properties, in whichever of them.
IsPassedName(doc, b, i) == IsMetadata(doc, i) \/ IsComponentName(doc, b, i)

PropertyNames(doc, b) ==
    UNION {{j \in MembersOf(doc, o) : ~IsPassedName(doc, b, j)} : o \in Objects(doc, b)}

\* The component that a token stands in: no other than one.
Inside(doc, b, j) == {i \in ComponentNames(doc, b) : i < j /\ j <= EndOf(doc, i + 1)}

TextOf(doc, names) == IF names = {} THEN "" ELSE doc[CHOOSE i \in names : TRUE].text

ComponentAt(doc, b, j) == TextOf(doc, Inside(doc, b, j))

\* Each of the objects is whole, and the components lie in the one that holds
\* them all.
LEMMA ObjectsWhole ==
    ASSUME NEW doc, Len(doc) \in Nat, NEW b, HoldsProperties(doc, b)
    PROVE  /\ \A o \in Objects(doc, b) : IsWhole(doc, o)
           /\ \A i \in ComponentNames(doc, b) :
                /\ i \in MembersOf(doc, b) /\ i \in Nat /\ b < i
                /\ doc[i].kind = "PropertyName" /\ doc[i + 1].kind = "BeginObject"
                /\ ValueEnd(doc, i) = EndOf(doc, i + 1) /\ EndOf(doc, i + 1) \in Nat
                /\ i + 1 < EndOf(doc, i + 1) /\ EndOf(doc, i + 1) < EndOf(doc, b)
           /\ \A o \in Objects(doc, b) :
                o \in Nat /\ b <= o /\ EndOf(doc, o) \in Nat /\ EndOf(doc, o) <= EndOf(doc, b)
<1>1. /\ IsWhole(doc, b)
      /\ \A i \in ComponentNames(doc, b) : IsWhole(doc, i + 1)
  BY DEF HoldsProperties
<1>2. ASSUME NEW i \in ComponentNames(doc, b)
      PROVE  /\ i \in MembersOf(doc, b) /\ i \in Nat /\ b < i
             /\ doc[i].kind = "PropertyName" /\ doc[i + 1].kind = "BeginObject"
             /\ ValueEnd(doc, i) = EndOf(doc, i + 1) /\ EndOf(doc, i + 1) \in Nat
             /\ i + 1 < EndOf(doc, i + 1) /\ EndOf(doc, i + 1) < EndOf(doc, b)
  <2>1. i \in MembersOf(doc, b) /\ doc[i + 1].kind = "BeginObject"
    BY DEF ComponentNames, IsComponentName
  <2>2. ValueEnd(doc, i) = EndOf(doc, i + 1) /\ ValueEnd(doc, i) < EndOf(doc, b)
    BY <1>1, <2>1, MemberValue
  <2>3. i \in Nat /\ b < i /\ doc[i].kind = "PropertyName"
    BY <1>1, <2>1, ObjectBounds
  <2>4. EndOf(doc, i + 1) \in Nat /\ i + 1 < EndOf(doc, i + 1)
    BY <1>1, ObjectBounds
  <2> QED BY <2>1, <2>2, <2>3, <2>4
<1>3. b \in Nat /\ EndOf(doc, b) \in Nat
  BY <1>1, ObjectBounds
<1> QED BY <1>1, <1>2, <1>3 DEF Objects

\* A component is a member like any other: what a name begins stands behind it.
LEMMA PassedNameIs ==
    ASSUME NEW doc, Len(doc) \in Nat, NEW b, HoldsProperties(doc, b),
           NEW o \in Objects(doc, b), NEW i \in MembersOf(doc, o), IsComponentName(doc, b, i)
    PROVE  i \in ComponentNames(doc, b)
<1>1. /\ o \in Nat /\ b <= o /\ EndOf(doc, o) <= EndOf(doc, b) /\ IsWhole(doc, o) /\ IsWhole(doc, b)
      /\ EndOf(doc, o) \in Nat /\ EndOf(doc, b) \in Nat /\ b \in Nat
  BY ObjectsWhole DEF Objects
<1>2. i \in Nat /\ o < i /\ i < EndOf(doc, o)
  BY <1>1, ObjectBounds
<1>3. i \in b .. EndOf(doc, b)
  BY <1>1, <1>2
<1> QED BY <1>3 DEF ComponentNames, MembersOf, IsComponentName

\* What follows the members of the object with the properties is in no
\* component, what follows those of a component in that component.
LEMMA InsideRoot ==
    ASSUME NEW doc, Len(doc) \in Nat, NEW b, HoldsProperties(doc, b), NEW at \in Behind(doc, b)
    PROVE  Inside(doc, b, at) = {}
<1> SUFFICES ASSUME NEW i \in ComponentNames(doc, b), i < at, at <= EndOf(doc, i + 1)
             PROVE  FALSE
  BY DEF Inside
<1>1. IsWhole(doc, b) /\ at \in Nat
  BY ObjectBounds, ObjectsWhole DEF Objects
<1>2. /\ i \in MembersOf(doc, b) /\ i \in Nat /\ ValueEnd(doc, i) = EndOf(doc, i + 1)
      /\ EndOf(doc, i + 1) \in Nat /\ EndOf(doc, i + 1) < EndOf(doc, b) /\ EndOf(doc, b) \in Nat
  BY ObjectsWhole DEF Objects
<1>3. at \notin MembersOf(doc, b)
  BY <1>1, <1>2, MemberValue
<1>4. at # EndOf(doc, b)
  BY <1>1, <1>2
<1> QED BY <1>3, <1>4 DEF Behind

LEMMA InsideComponent ==
    ASSUME NEW doc, Len(doc) \in Nat, NEW b, HoldsProperties(doc, b),
           NEW i \in ComponentNames(doc, b), NEW at \in Nat, i < at, at <= EndOf(doc, i + 1)
    PROVE  Inside(doc, b, at) = {i}
<1> SUFFICES ASSUME NEW j \in ComponentNames(doc, b), j < at, at <= EndOf(doc, j + 1), i # j
             PROVE  FALSE
  BY DEF Inside
<1>1. /\ IsWhole(doc, b)
      /\ i \in MembersOf(doc, b) /\ i \in Nat /\ ValueEnd(doc, i) = EndOf(doc, i + 1)
      /\ j \in MembersOf(doc, b) /\ j \in Nat /\ ValueEnd(doc, j) = EndOf(doc, j + 1)
      /\ EndOf(doc, i + 1) \in Nat /\ EndOf(doc, j + 1) \in Nat
  BY ObjectsWhole DEF Objects
<1>2. ValueEnd(doc, i) < j \/ ValueEnd(doc, j) < i
  BY <1>1, ValuesApart
<1> QED BY <1>1, <1>2

\* So a component begins or ends wherever the component changes.
LEMMA ComponentBetween ==
    ASSUME NEW doc, Len(doc) \in Nat, NEW b, HoldsProperties(doc, b),
           NEW from \in Nat, NEW to \in Nat, from <= to,
           \A j \in Nat : from <= j /\ j < to =>
             doc[j].kind # "EndObject" /\ ~IsComponentName(doc, b, j)
    PROVE  Inside(doc, b, to) = Inside(doc, b, from)
<1> SUFFICES ASSUME NEW i \in ComponentNames(doc, b)
             PROVE  i < to /\ to <= EndOf(doc, i + 1) <=> i < from /\ from <= EndOf(doc, i + 1)
  BY DEF Inside
<1>1. /\ i \in Nat /\ EndOf(doc, i + 1) \in Nat /\ i + 1 < EndOf(doc, i + 1)
      /\ IsWhole(doc, i + 1) /\ IsComponentName(doc, b, i)
  BY ObjectsWhole DEF Objects, ComponentNames
<1>2. doc[EndOf(doc, i + 1)].kind = "EndObject"
  BY <1>1, ObjectBounds
<1>3. ~(from <= i /\ i < to) /\ ~(from <= EndOf(doc, i + 1) /\ EndOf(doc, i + 1) < to)
  BY <1>1, <1>2
<1> QED BY <1>1, <1>3

(***************************************************************************)
(* The iteration.  It stands only on what it can tell apart: on a member   *)
(* or the end of one of the objects, or on what a name that is passed over *)
(* has behind it.                                                          *)
(***************************************************************************)
Boundary(doc, b, at) == \E o \in Objects(doc, b) : at \in Behind(doc, o)

Structural(doc, b, at) ==
    \/ Boundary(doc, b, at)
    \/ \E o \in Objects(doc, b) : \E i \in MembersOf(doc, o) :
         IsPassedName(doc, b, i) /\ at = i + 1

\* Of the names it stands on, it passes over those that are no property's.
LEMMA NamePassed ==
    ASSUME NEW doc, Len(doc) \in Nat, NEW b, HoldsProperties(doc, b),
           NEW o \in Objects(doc, b), NEW i \in MembersOf(doc, o)
    PROVE  PassedOver(doc, b, i) <=> IsPassedName(doc, b, i)
<1>1. IsWhole(doc, o)
  BY ObjectsWhole
<1>2. doc[i].kind = "PropertyName" /\ doc[i - 1].kind # "PropertyName"
  BY <1>1, ObjectBounds, NoNameBefore
<1>3. ~IsMetadata(doc, i - 1) /\ ~IsComponentName(doc, b, i - 1)
  BY <1>2 DEF IsMetadata, IsComponentName
<1>4. doc[i].kind # "EndObject"
  BY <1>2
<1> QED BY <1>3, <1>4 DEF PassedOver, IsPassedName

LEMMA StructuralBounds ==
    ASSUME NEW doc, Len(doc) \in Nat, NEW b, HoldsProperties(doc, b),
           NEW at, Structural(doc, b, at)
    PROVE  at \in Nat /\ b < at /\ at <= EndOf(doc, b)
<1>1. b \in Nat /\ EndOf(doc, b) \in Nat
  BY ObjectsWhole DEF Objects
<1>2. ASSUME NEW o \in Objects(doc, b), at \in Behind(doc, o)
      PROVE  at \in Nat /\ b < at /\ at <= EndOf(doc, b)
  <2>1. /\ o \in Nat /\ b <= o /\ EndOf(doc, o) \in Nat /\ EndOf(doc, o) <= EndOf(doc, b)
        /\ IsWhole(doc, o)
    BY ObjectsWhole
  <2>2. at \in Nat /\ o < at /\ at <= EndOf(doc, o)
    BY <1>2, <2>1, ObjectBounds
  <2> QED BY <1>1, <2>1, <2>2
<1>3. ASSUME NEW o \in Objects(doc, b), NEW i \in MembersOf(doc, o), at = i + 1
      PROVE  at \in Nat /\ b < at /\ at <= EndOf(doc, b)
  <2>1. /\ o \in Nat /\ b <= o /\ EndOf(doc, o) \in Nat /\ EndOf(doc, o) <= EndOf(doc, b)
        /\ IsWhole(doc, o)
    BY ObjectsWhole
  <2>2. i \in Nat /\ o < i /\ i < EndOf(doc, o)
    BY <2>1, ObjectBounds
  <2> QED BY <1>1, <1>3, <2>1, <2>2
<1> QED BY <1>2, <1>3 DEF Structural, Boundary

LEMMA StructuralStep ==
    ASSUME NEW doc, Len(doc) \in Nat, NEW b, HoldsProperties(doc, b),
           NEW at, Structural(doc, b, at), PassedOver(doc, b, at), at # EndOf(doc, b)
    PROVE  Structural(doc, b, at + 1)
<1>1. ASSUME NEW o \in Objects(doc, b), at \in MembersOf(doc, o)
      PROVE  Structural(doc, b, at + 1)
  BY <1>1, NamePassed DEF Structural
<1>2. ASSUME NEW o \in Objects(doc, b), at = EndOf(doc, o)
      PROVE  Structural(doc, b, at + 1)
  <2>1. PICK i \in ComponentNames(doc, b) : o = i + 1
    BY <1>2 DEF Objects
  <2>2. i \in MembersOf(doc, b) /\ at = ValueEnd(doc, i) /\ b \in Objects(doc, b)
    BY <1>2, <2>1, ObjectsWhole DEF Objects
  <2>3. at + 1 \in Behind(doc, b)
    BY <2>2, ObjectsWhole, MemberValue
  <2> QED BY <2>2, <2>3 DEF Structural, Boundary
<1>3. ASSUME NEW o \in Objects(doc, b), NEW i \in MembersOf(doc, o), IsMetadata(doc, i), at = i + 1
      PROVE  Structural(doc, b, at + 1)
  <2>1. at + 1 \in Behind(doc, o)
    BY <1>3, ObjectsWhole, MemberValue
  <2> QED BY <2>1 DEF Structural, Boundary
<1>4. ASSUME NEW o \in Objects(doc, b), NEW i \in MembersOf(doc, o),
             IsComponentName(doc, b, i), at = i + 1
      PROVE  Structural(doc, b, at + 1)
  <2>1. at \in Objects(doc, b)
    BY <1>4, PassedNameIs DEF Objects
  <2>2. at + 1 \in Behind(doc, at)
    BY <2>1, ObjectsWhole, ObjectBounds
  <2> QED BY <2>1, <2>2 DEF Structural, Boundary
<1> QED BY <1>1, <1>2, <1>3, <1>4 DEF Structural, Boundary, Behind, IsPassedName

\* What it stops on before the end is the name of a property.
LEMMA StopIsProperty ==
    ASSUME NEW doc, Len(doc) \in Nat, NEW b, HoldsProperties(doc, b),
           NEW at, Structural(doc, b, at), ~PassedOver(doc, b, at), at # EndOf(doc, b)
    PROVE  at \in PropertyNames(doc, b)
<1>1. ASSUME NEW o \in Objects(doc, b), at \in MembersOf(doc, o)
      PROVE  at \in PropertyNames(doc, b)
  BY <1>1, NamePassed DEF PropertyNames
<1>2. ASSUME NEW o \in Objects(doc, b), at = EndOf(doc, o)
      PROVE  FALSE
  BY <1>2, ObjectsWhole, ObjectBounds DEF PassedOver
<1>3. ASSUME NEW o \in Objects(doc, b), NEW i \in MembersOf(doc, o), IsPassedName(doc, b, i),
             at = i + 1
      PROVE  FALSE
  <2>1. i = at - 1
    BY <1>3, ObjectsWhole, ObjectBounds
  <2> QED BY <1>3, <2>1 DEF PassedOver, IsPassedName
<1> QED BY <1>1, <1>2, <1>3 DEF Structural, Boundary, Behind

\* Where it stops: there is one such place, and it passes over no property.
LEMMA StopFromIs ==
    ASSUME NEW doc, Len(doc) \in Nat, NEW b, HoldsProperties(doc, b),
           NEW from, Structural(doc, b, from)
    PROVE  LET stop == StopFrom(doc, b, EndOf(doc, b), from)
           IN  /\ stop \in Nat /\ from <= stop /\ stop <= EndOf(doc, b)
               /\ stop = EndOf(doc, b) \/ stop \in PropertyNames(doc, b)
               /\ \A j \in Nat : from <= j /\ j < stop =>
                    PassedOver(doc, b, j) /\ Structural(doc, b, j)
<1> DEFINE last == EndOf(doc, b)
           T == {i \in from .. last : i = last \/ ~PassedOver(doc, b, i)}
           stop == StopFrom(doc, b, last, from)
           Passed(i) == \A j \in from .. i - 1 : PassedOver(doc, b, j)
<1>1. from \in Nat /\ last \in Nat /\ from <= last
  BY StructuralBounds, ObjectsWhole DEF Objects
<1> HIDE DEF last
<1>2. PICK x \in T : \A y \in T : x <= y
  <2>1. T \in SUBSET Nat /\ last \in T
    BY <1>1
  <2> HIDE DEF T
  <2> QED BY <2>1, Least
<1>3. x \in from .. last /\ (x = last \/ ~PassedOver(doc, b, x)) /\ Passed(x)
  <2>1. ASSUME NEW j \in from .. x - 1
        PROVE  PassedOver(doc, b, j)
    BY <1>1, <1>2
  <2> QED BY <1>2, <2>1
<1>4. stop = CHOOSE i \in from .. last : (i = last \/ ~PassedOver(doc, b, i)) /\ Passed(i)
  BY DEF StopFrom
<1> HIDE DEF stop, Passed
<1>5. stop \in from .. last /\ (stop = last \/ ~PassedOver(doc, b, stop)) /\ Passed(stop)
  BY <1>3, <1>4
<1>6. ASSUME NEW j \in Nat, from <= j, j <= stop
      PROVE  Structural(doc, b, j)
  <2> DEFINE U == {i \in Nat : from <= i /\ i <= stop /\ ~Structural(doc, b, i)}
  <2> SUFFICES ASSUME j \in U
               PROVE  FALSE
    BY <1>6
  <2>1. PICK y \in U : \A z \in U : y <= z
    <3>1. U \in SUBSET Nat
      OBVIOUS
    <3> HIDE DEF U
    <3> QED BY <3>1, Least
  <2>2. y # from /\ y - 1 \in Nat /\ y - 1 \notin U
    BY <1>1, <2>1
  <2>3. y - 1 \in from .. stop - 1 /\ y - 1 # last /\ Structural(doc, b, y - 1)
    BY <1>1, <1>5, <2>1, <2>2
  <2>4. PassedOver(doc, b, y - 1)
    BY <1>5, <2>3 DEF Passed
  <2>5. Structural(doc, b, (y - 1) + 1)
    BY <2>3, <2>4, StructuralStep DEF last
  <2> QED BY <2>1, <2>5
<1>7. stop \in Nat /\ from <= stop /\ stop <= last
  BY <1>1, <1>5
<1>8. stop = last \/ stop \in PropertyNames(doc, b)
  BY <1>5, <1>6, <1>7, StopIsProperty DEF last
<1>9. ASSUME NEW j \in Nat, from <= j, j < stop
      PROVE  PassedOver(doc, b, j) /\ Structural(doc, b, j)
  <2>1. j \in from .. stop - 1
    BY <1>1, <1>7, <1>9
  <2> QED BY <1>1, <1>5, <1>6, <1>7, <1>9, <2>1 DEF Passed
<1> QED BY <1>7, <1>8, <1>9 DEF stop, last

(***************************************************************************)
(* The component.                                                          *)
(***************************************************************************)
LEMMA SameComponent ==
    ASSUME NEW doc, NEW b, NEW i, NEW j, Inside(doc, b, i) = Inside(doc, b, j)
    PROVE  ComponentAt(doc, b, i) = ComponentAt(doc, b, j)
  BY DEF ComponentAt

LEMMA NoComponent ==
    ASSUME NEW doc, NEW b, NEW j, Inside(doc, b, j) = {}
    PROVE  ComponentAt(doc, b, j) = ""
  BY Zenon DEF ComponentAt, TextOf

LEMMA OneComponent ==
    ASSUME NEW doc, NEW i
    PROVE  TextOf(doc, {i}) = doc[i].text
<1>1. {i} # {} /\ (CHOOSE x \in {i} : TRUE) = i
  OBVIOUS
<1> QED BY <1>1, Zenon DEF TextOf

\* The tokens that change the component, and what ComponentAfter makes of the
\* last of them.
Changes(doc, b, from, stop) ==
    {i \in from .. stop - 1 : doc[i].kind = "EndObject" \/ IsComponentName(doc, b, i)}

Changed(doc, i) == IF doc[i].kind = "EndObject" THEN "" ELSE doc[i].text

LEMMA UnchangedAfter ==
    ASSUME NEW doc, NEW b, NEW from, NEW stop, NEW entered, Changes(doc, b, from, stop) = {}
    PROVE  ComponentAfter(doc, b, from, stop, entered) = entered
  BY Zenon DEF ComponentAfter, Changes

LEMMA ChangedAfter ==
    ASSUME NEW doc, NEW b, NEW from, NEW stop, NEW entered,
           NEW change \in Changes(doc, b, from, stop),
           \A j \in Changes(doc, b, from, stop) : change = j \/ ~(change <= j),
           \A j \in Changes(doc, b, from, stop) : j <= change
    PROVE  ComponentAfter(doc, b, from, stop, entered) = Changed(doc, change)
<1> DEFINE C == Changes(doc, b, from, stop)
           last == CHOOSE i \in C : \A j \in C : j <= i
<1>1. last \in C /\ \A j \in C : j <= last
  BY Zenon
<1>2. last = change
  BY <1>1, Zenon
<1>3. ComponentAfter(doc, b, from, stop, entered) =
        IF C = {} THEN entered
        ELSE Changed(doc, last)
  BY Zenon DEF ComponentAfter, Changes, Changed
<1>4. C # {}
  BY Zenon
<1> HIDE DEF C, last
<1> QED BY <1>2, <1>3, <1>4, Zenon

\* A set of naturals below a bound that is not empty has a greatest element.
LEMMA Greatest ==
    ASSUME NEW n \in Nat, NEW T \in SUBSET (0 .. n), T # {}
    PROVE  \E x \in T : \A y \in T : y <= x
<1> DEFINE U == {n - y : y \in T}
<1>1. PICK z \in U : \A u \in U : z <= u
  <2>1. \A y \in T : y \in 0 .. n /\ n - y \in Nat
    OBVIOUS
  <2>2. U \in SUBSET Nat /\ U # {}
    BY <2>1
  <2> HIDE DEF U
  <2> QED BY <2>2, Least
<1>2. PICK x \in T : z = n - x
  BY <1>1
<1>3. ASSUME NEW y \in T
      PROVE  y <= x
  <2>1. n - y \in U
    OBVIOUS
  <2>2. n - x <= n - y
    BY <1>1, <1>2, <2>1
  <2> QED BY <2>2
<1> QED BY <1>3

\* The component of where it stops is the one that ComponentAfter tells from the
\* component of where it began.
LEMMA ComponentFollows ==
    ASSUME NEW doc, Len(doc) \in Nat, NEW b, HoldsProperties(doc, b),
           NEW from, Structural(doc, b, from),
           NEW stop \in Nat, from <= stop, stop <= EndOf(doc, b),
           \A j \in Nat : from <= j /\ j < stop => Structural(doc, b, j)
    PROVE  ComponentAfter(doc, b, from, stop, ComponentAt(doc, b, from)) = ComponentAt(doc, b, stop)
<1> DEFINE C == Changes(doc, b, from, stop)
<1>1. from \in Nat /\ EndOf(doc, b) \in Nat
  BY StructuralBounds, ObjectsWhole DEF Objects
<1>2. \A j \in Nat : from <= j /\ j < stop /\ j \notin C =>
        doc[j].kind # "EndObject" /\ ~IsComponentName(doc, b, j)
  BY <1>1 DEF Changes
<1>3. CASE C = {}
  <2>1. Inside(doc, b, stop) = Inside(doc, b, from)
    BY <1>1, <1>2, <1>3, ComponentBetween
  <2> QED BY <1>3, <2>1, SameComponent, UnchangedAfter
<1>4. CASE C # {}
  <2>1. C \in SUBSET (0 .. stop)
    BY <1>1 DEF Changes
  <2>2. PICK c \in C : \A j \in C : j <= c
    <3> HIDE DEF C
    <3> QED BY <1>4, <2>1, Greatest
  <2>3. c \in Nat /\ from <= c /\ c < stop /\ \A j \in C : c = j \/ ~(c <= j)
    BY <1>1, <2>1, <2>2 DEF Changes
  <2>4. ComponentAfter(doc, b, from, stop, ComponentAt(doc, b, from)) = Changed(doc, c)
    BY <2>2, <2>3, ChangedAfter
  <2>5. Inside(doc, b, stop) = Inside(doc, b, c + 1)
    <3>1. \A j \in Nat : c + 1 <= j /\ j < stop => j \notin C
      BY <2>2, <2>3
    <3> HIDE DEF C
    <3>2. c + 1 \in Nat /\ c + 1 <= stop
      BY <2>3
    <3>3. \A j \in Nat : c + 1 <= j /\ j < stop =>
            doc[j].kind # "EndObject" /\ ~IsComponentName(doc, b, j)
      BY <1>1, <1>2, <2>3, <3>1
    <3> QED BY <3>2, <3>3, ComponentBetween
  <2>6. CASE doc[c].kind = "EndObject"
    <3>1. Structural(doc, b, c) /\ c # EndOf(doc, b)
      BY <1>1, <2>3
    <3>2. ASSUME NEW o \in Objects(doc, b), c \in Behind(doc, o)
          PROVE  c + 1 \in Behind(doc, b)
      <4>1. c = EndOf(doc, o)
        BY <2>6, <3>2, ObjectsWhole, ObjectBounds DEF Behind
      <4>2. PICK i \in ComponentNames(doc, b) : o = i + 1
        BY <3>1, <4>1 DEF Objects
      <4>3. i \in MembersOf(doc, b) /\ c = ValueEnd(doc, i) /\ b \in Objects(doc, b)
        BY <4>1, <4>2, ObjectsWhole DEF Objects
      <4> QED BY <4>3, ObjectsWhole, MemberValue
    <3>3. ASSUME NEW o \in Objects(doc, b), NEW i \in MembersOf(doc, o), c = i + 1
          PROVE  FALSE
      BY <2>6, <3>3, ObjectsWhole, MemberValue
    <3>4. c + 1 \in Behind(doc, b)
      BY <3>1, <3>2, <3>3 DEF Structural, Boundary
    <3>5. Inside(doc, b, stop) = {}
      BY <2>5, <3>4, InsideRoot
    <3>6. ComponentAt(doc, b, stop) = ""
      BY <3>5, NoComponent
    <3> QED BY <2>4, <2>6, <3>6, Zenon DEF Changed
  <2>7. CASE doc[c].kind # "EndObject"
    <3>1. IsComponentName(doc, b, c) /\ Structural(doc, b, c)
      BY <1>1, <2>3, <2>7 DEF Changes
    <3>2. c \in b .. EndOf(doc, b)
      BY <1>1, <2>3, <3>1, StructuralBounds, ObjectsWhole DEF Objects
    <3>3. c \in ComponentNames(doc, b)
      BY <3>1, <3>2 DEF ComponentNames, MembersOf, IsComponentName
    <3>4. c + 1 \in Nat /\ c < c + 1 /\ c + 1 <= EndOf(doc, c + 1)
      BY <2>3, <3>3, ObjectsWhole
    <3>5. Inside(doc, b, stop) = {c}
      BY <2>5, <3>3, <3>4, InsideComponent
    <3>6. ComponentAt(doc, b, stop) = doc[c].text
      BY <3>5, OneComponent DEF ComponentAt
    <3> QED BY <2>4, <2>7, <3>6, Zenon DEF Changed
  <2> QED BY <2>6, <2>7, Zenon
<1> QED BY <1>3, <1>4, Zenon

(***************************************************************************)
(* The properties.                                                         *)
(***************************************************************************)
PropertyAt(doc, b, i) ==
    [component |-> ComponentAt(doc, b, i), name |-> doc[i].text, value |-> doc[i + 1]]

ReadBefore(doc, b, at) == {PropertyAt(doc, b, i) : i \in {j \in PropertyNames(doc, b) : j < at}}

\* A property is a member of one of the objects, and a member of no other
\* stands in its value.
LEMMA PropertyValue ==
    ASSUME NEW doc, Len(doc) \in Nat, NEW b, HoldsProperties(doc, b),
           NEW p \in PropertyNames(doc, b)
    PROVE  /\ p \in Nat /\ b < p /\ p < EndOf(doc, b) /\ doc[p].kind = "PropertyName"
           /\ Boundary(doc, b, p) /\ ~PassedOver(doc, b, p)
           /\ ValueEnd(doc, p) \in Nat /\ p < ValueEnd(doc, p)
           /\ ValueEnd(doc, p) < EndOf(doc, b)
           /\ Boundary(doc, b, ValueEnd(doc, p) + 1)
           /\ SkipChildren(At(doc, p + 1)) = At(doc, ValueEnd(doc, p))
           /\ Inside(doc, b, ValueEnd(doc, p) + 1) = Inside(doc, b, p)
           /\ \A k \in PropertyNames(doc, b) : ~(p < k /\ k <= ValueEnd(doc, p))
<1> DEFINE e == ValueEnd(doc, p)
<1>1. PICK o \in Objects(doc, b) : p \in MembersOf(doc, o) /\ ~IsPassedName(doc, b, p)
  BY DEF PropertyNames
<1>2. /\ IsWhole(doc, o) /\ IsWhole(doc, b) /\ b \in Objects(doc, b)
      /\ o \in Nat /\ b <= o /\ EndOf(doc, o) \in Nat /\ EndOf(doc, o) <= EndOf(doc, b)
      /\ b \in Nat /\ EndOf(doc, b) \in Nat
  BY ObjectsWhole DEF Objects
<1>3. p \in Nat /\ o < p /\ p < EndOf(doc, o) /\ doc[p].kind = "PropertyName"
  BY <1>1, <1>2, ObjectBounds
<1>4. Boundary(doc, b, p) /\ ~PassedOver(doc, b, p)
  BY <1>1, NamePassed DEF Boundary, Behind
<1>5. /\ e \in Nat /\ p < e /\ e < EndOf(doc, o) /\ e + 1 \in Behind(doc, o)
      /\ SkipChildren(At(doc, p + 1)) = At(doc, e)
      /\ \A j \in MembersOf(doc, o) : ~(p < j /\ j <= e)
  BY <1>1, <1>2, MemberValue
<1> HIDE DEF e
<1>6. Inside(doc, b, e + 1) = Inside(doc, b, p)
  <2>1. CASE o = b
    <3>1. p \in Behind(doc, b) /\ e + 1 \in Behind(doc, b)
      BY <1>1, <1>5, <2>1 DEF Behind
    <3> QED BY <3>1, InsideRoot
  <2>2. CASE o # b
    <3>1. PICK i \in ComponentNames(doc, b) : o = i + 1
      BY <2>2 DEF Objects
    <3>2. i \in Nat /\ i < p /\ p <= EndOf(doc, i + 1) /\ i < e + 1 /\ e + 1 <= EndOf(doc, i + 1)
      BY <1>2, <1>3, <1>5, <3>1, ObjectsWhole
    <3>3. Inside(doc, b, p) = {i} /\ Inside(doc, b, e + 1) = {i}
      BY <1>3, <1>5, <3>2, InsideComponent
    <3> QED BY <3>3
  <2> QED BY <2>1, <2>2
<1>7. ASSUME NEW k \in PropertyNames(doc, b), p < k, k <= e
      PROVE  FALSE
  <2>1. PICK q \in Objects(doc, b) : k \in MembersOf(doc, q)
    BY DEF PropertyNames
  <2>2. q # o
    BY <1>5, <1>7, <2>1
  <2>3. IsWhole(doc, q) /\ q \in Nat /\ EndOf(doc, q) \in Nat
    BY <2>1, ObjectsWhole
  <2>4. k \in Nat /\ q < k /\ k < EndOf(doc, q)
    BY <2>1, <2>3, ObjectBounds
  <2>5. CASE q = b
    <3>1. k \in Behind(doc, b)
      BY <2>1, <2>5 DEF Behind
    <3>2. PICK i \in ComponentNames(doc, b) : o = i + 1
      BY <2>2, <2>5 DEF Objects
    <3>3. i \in Nat /\ i < k /\ k <= EndOf(doc, i + 1)
      BY <1>2, <1>3, <1>5, <1>7, <2>4, <3>2, ObjectsWhole
    <3>4. i \in Inside(doc, b, k)
      BY <3>3 DEF Inside
    <3> QED BY <3>1, <3>4, InsideRoot
  <2>6. CASE q # b
    <3>1. PICK i \in ComponentNames(doc, b) : q = i + 1
      BY <2>6 DEF Objects
    <3>2. /\ i \in Nat /\ i \in MembersOf(doc, b) /\ ValueEnd(doc, i) = EndOf(doc, i + 1)
          /\ IsComponentName(doc, b, i)
      BY ObjectsWhole DEF ComponentNames
    <3>3. CASE o = b
      <4>1. i # p
        BY <1>1, <3>2 DEF IsPassedName
      <4>2. ValueEnd(doc, i) < p \/ ValueEnd(doc, p) < i
        BY <1>1, <1>2, <3>2, <3>3, <4>1, ValuesApart
      <4> QED BY <1>3, <1>5, <1>7, <2>3, <2>4, <3>1, <3>2, <4>2 DEF e
    <3>4. CASE o # b
      <4>1. PICK j \in ComponentNames(doc, b) : o = j + 1
        BY <3>4 DEF Objects
      <4>2. j \in Nat /\ j < k /\ k <= EndOf(doc, j + 1) /\ j # i
        BY <1>2, <1>3, <1>5, <1>7, <2>2, <2>4, <3>1, <4>1, ObjectsWhole
      <4>3. i < k /\ k <= EndOf(doc, i + 1)
        BY <2>3, <2>4, <3>1, <3>2
      <4>4. Inside(doc, b, k) = {i} /\ Inside(doc, b, k) = {j}
        BY <2>4, <4>2, <4>3, InsideComponent
      <4> QED BY <4>2, <4>4
    <3> QED BY <3>3, <3>4
  <2> QED BY <2>5, <2>6
<1>8. Boundary(doc, b, e + 1)
  BY <1>5 DEF Boundary
<1>9. b < p /\ p < EndOf(doc, b) /\ e < EndOf(doc, b)
  BY <1>2, <1>3, <1>5
<1> QED BY <1>3, <1>4, <1>5, <1>6, <1>7, <1>8, <1>9 DEF e

\* Where no property stands, there is none to read.
LEMMA NoneRead ==
    ASSUME NEW doc, Len(doc) \in Nat, NEW b, HoldsProperties(doc, b),
           NEW from \in Nat, NEW to \in Nat, from <= to,
           \A j \in PropertyNames(doc, b) : ~(from <= j /\ j < to)
    PROVE  ReadBefore(doc, b, to) = ReadBefore(doc, b, from)
<1>1. \A j \in PropertyNames(doc, b) : j \in Nat
  BY PropertyValue
<1>2. {j \in PropertyNames(doc, b) : j < to} = {j \in PropertyNames(doc, b) : j < from}
  BY <1>1
<1> QED BY <1>2 DEF ReadBefore

LEMMA OneRead ==
    ASSUME NEW doc, Len(doc) \in Nat, NEW b, HoldsProperties(doc, b),
           NEW p \in PropertyNames(doc, b)
    PROVE  ReadBefore(doc, b, p + 1) = ReadBefore(doc, b, p) \cup {PropertyAt(doc, b, p)}
<1>1. \A j \in PropertyNames(doc, b) : j \in Nat
  BY PropertyValue
<1>2. {j \in PropertyNames(doc, b) : j < p + 1} = {j \in PropertyNames(doc, b) : j < p} \cup {p}
  BY <1>1
<1> QED BY <1>2 DEF ReadBefore

LEMMA NoneBefore ==
    ASSUME NEW doc, Len(doc) \in Nat, NEW b, HoldsProperties(doc, b), NEW at \in Nat, at <= b + 1
    PROVE  ReadBefore(doc, b, at) = {}
<1>1. b \in Nat /\ \A j \in PropertyNames(doc, b) : j \in Nat /\ b < j
  BY PropertyValue, ObjectsWhole DEF Objects
<1>2. {j \in PropertyNames(doc, b) : j < at} = {}
  BY <1>1
<1> QED BY <1>2 DEF ReadBefore

\* At the end of the object that holds them, they are the properties of the
\* message.
LEMMA AllBefore ==
    ASSUME NEW doc, Len(doc) \in Nat, NEW b, HoldsProperties(doc, b)
    PROVE  ReadBefore(doc, b, EndOf(doc, b)) = PropertiesOf(doc, b)
<1> DEFINE In(o) == {PropertyAt(doc, b, i) : i \in {j \in MembersOf(doc, o) : ~IsPassedName(doc, b, j)}}
           none == ""
<1>1. ASSUME NEW o \in Objects(doc, b), NEW within,
             \A i \in MembersOf(doc, o) : ComponentAt(doc, b, i) = within
      PROVE  In(o) = Properties(doc, b, MembersOf(doc, o), within)
  <2>1. Properties(doc, b, MembersOf(doc, o), within) =
          {[component |-> within, name |-> doc[i].text, value |-> doc[i + 1]] :
             i \in {j \in MembersOf(doc, o) : ~IsPassedName(doc, b, j)}}
    BY DEF Properties, IsPassedName
  <2> QED BY <1>1, <2>1 DEF PropertyAt
<1>2. ASSUME NEW i \in MembersOf(doc, b)
      PROVE  ComponentAt(doc, b, i) = none
  BY InsideRoot, NoComponent, Zenon DEF Behind
<1>3. PropertiesOf(doc, b) =
        Properties(doc, b, MembersOf(doc, b), none)
          \cup UNION {Properties(doc, b, MembersOf(doc, i + 1), doc[i].text) :
                        i \in ComponentNames(doc, b)}
  BY Zenon DEF PropertiesOf
<1> HIDE DEF none
<1>4. In(b) = Properties(doc, b, MembersOf(doc, b), none)
  <2>1. b \in Objects(doc, b)
    BY DEF Objects
  <2> HIDE DEF In
  <2> QED BY <1>1, <1>2, <2>1
<1>5. ASSUME NEW i \in ComponentNames(doc, b)
      PROVE  In(i + 1) = Properties(doc, b, MembersOf(doc, i + 1), doc[i].text)
  <2>1. i + 1 \in Objects(doc, b)
    BY DEF Objects
  <2>2. ASSUME NEW j \in MembersOf(doc, i + 1)
        PROVE  ComponentAt(doc, b, j) = doc[i].text
    <3>1. IsWhole(doc, i + 1) /\ i \in Nat /\ EndOf(doc, i + 1) \in Nat
      BY <2>1, ObjectsWhole
    <3>2. j \in Nat /\ i + 1 < j /\ j < EndOf(doc, i + 1)
      BY <3>1, ObjectBounds
    <3>3. Inside(doc, b, j) = {i}
      BY <3>1, <3>2, InsideComponent
    <3> QED BY <3>3, OneComponent DEF ComponentAt
  <2> HIDE DEF In
  <2> QED BY <1>1, <2>1, <2>2
<1>6. {j \in PropertyNames(doc, b) : j < EndOf(doc, b)} = PropertyNames(doc, b)
  BY PropertyValue
<1>7. ReadBefore(doc, b, EndOf(doc, b)) = UNION {In(o) : o \in Objects(doc, b)}
  BY <1>6 DEF ReadBefore, PropertyNames
<1>8. UNION {In(o) : o \in Objects(doc, b)}
        = In(b) \cup UNION {In(i + 1) : i \in ComponentNames(doc, b)}
  <2> HIDE DEF In
  <2> QED BY DEF Objects
<1>9. {In(i + 1) : i \in ComponentNames(doc, b)}
        = {Properties(doc, b, MembersOf(doc, i + 1), doc[i].text) : i \in ComponentNames(doc, b)}
  <2> HIDE DEF In
  <2> QED BY <1>5
<1> HIDE DEF In
<1> QED BY <1>3, <1>4, <1>7, <1>8, <1>9

(***************************************************************************)
(* The loop over the properties: the reader, the component and what has    *)
(* been read between two calls, on the name of a property and on its       *)
(* value.  `doc' is the message, `b' where the object with the properties  *)
(* begins.                                                                 *)
(***************************************************************************)
Fresh(doc, r, within, got) == r = Reader(doc) /\ within = "" /\ got = {}

Between(doc, b, r, within, got) ==
    \E at \in Nat :
      /\ Boundary(doc, b, at) /\ r = At(doc, at)
      /\ within = ComponentAt(doc, b, at) /\ got = ReadBefore(doc, b, at)

OnName(doc, b, r, within, got) ==
    \E p \in PropertyNames(doc, b) :
      /\ r = At(doc, p)
      /\ within = ComponentAt(doc, b, p) /\ got = ReadBefore(doc, b, p)

OnValue(doc, b, r, within, got) ==
    \E p \in PropertyNames(doc, b) :
      /\ r = At(doc, p + 1)
      /\ within = ComponentAt(doc, b, p) /\ got = ReadBefore(doc, b, p + 1)

\* The next property, from a token that the iteration can stand on.
LEMMA NextFrom ==
    ASSUME NEW doc, Len(doc) \in Nat, NEW b, HoldsProperties(doc, b),
           NEW from \in Nat, Boundary(doc, b, from), NEW r, r.doc = doc,
           \A at : [r EXCEPT !.at = at] = At(doc, at), NEW within, NEW got,
           within = ComponentAt(doc, b, from), got = ReadBefore(doc, b, from)
    PROVE  LET last == EndOf(doc, b)
               next == StopIn(r, b, last, from, StopFrom(doc, b, last, from), within)
           IN  \/ next.result = "EndOfProperties" /\ got = PropertiesOf(doc, b)
               \/ next.result = "Success" /\ OnName(doc, b, next.reader, next.component, got)
<1> DEFINE last == EndOf(doc, b)
           stop == StopFrom(doc, b, last, from)
           next == StopIn(r, b, last, from, stop, within)
<1>1. Structural(doc, b, from) /\ last \in Nat
  BY ObjectsWhole DEF Structural, Objects
<1>2. /\ stop \in Nat /\ from <= stop /\ stop <= last
      /\ stop = last \/ stop \in PropertyNames(doc, b)
      /\ \A j \in Nat : from <= j /\ j < stop => PassedOver(doc, b, j) /\ Structural(doc, b, j)
  BY <1>1, StopFromIs
<1> HIDE DEF stop
<1>3. got = ReadBefore(doc, b, stop)
  BY <1>2, PropertyValue, NoneRead
<1>4. next.reader = At(doc, stop) /\ next.component = ComponentAt(doc, b, stop)
  <2>1. ComponentAfter(doc, b, from, stop, within) = ComponentAt(doc, b, stop)
    BY <1>1, <1>2, ComponentFollows
  <2> QED BY <2>1 DEF StopIn
<1>5. next.result = CASE stop = last                       -> "EndOfProperties"
                      [] doc[stop].kind = "PropertyName" -> "Success"
                      [] OTHER                           -> "Failed"
  BY DEF StopIn
<1> HIDE DEF next
<1>6. CASE stop = last
  <2>1. doc[stop].kind # "PropertyName"
    BY <1>6, ObjectsWhole, ObjectBounds DEF Objects
  <2>2. next.result = "EndOfProperties"
    BY <1>5, <1>6, <2>1
  <2> QED BY <1>3, <1>6, <2>2, AllBefore DEF next, stop
<1>7. CASE stop # last
  <2>1. stop \in PropertyNames(doc, b) /\ doc[stop].kind = "PropertyName"
    BY <1>2, <1>7, PropertyValue
  <2>2. next.result = "Success"
    BY <1>5, <1>7, <2>1
  <2>3. OnName(doc, b, next.reader, next.component, got)
    BY <1>3, <1>4, <2>1 DEF OnName
  <2> QED BY <2>2, <2>3 DEF next, stop
<1> QED BY <1>6, <1>7

LEMMA NextOfFresh ==
    ASSUME NEW doc, Len(doc) \in Nat, NEW b, HoldsProperties(doc, b), NEW r, NEW within, NEW got,
           Fresh(doc, r, within, got)
    PROVE  LET next == NextProperty(r, b, within)
           IN  \/ next.result = "EndOfProperties" /\ got = PropertiesOf(doc, b)
               \/ next.result = "Success" /\ OnName(doc, b, next.reader, next.component, got)
<1>1. r = [doc |-> doc, at |-> 0] /\ got = {}
  BY Zenon DEF Fresh, Reader
<1>2. b \in Nat /\ b + 1 \in Behind(doc, b) /\ b \in Objects(doc, b)
  BY ObjectsWhole, ObjectBounds DEF Objects
<1>3. Boundary(doc, b, b + 1) /\ ReadBefore(doc, b, b + 1) = {} /\ Inside(doc, b, b + 1) = {}
  BY <1>2, InsideRoot, NoneBefore DEF Boundary
<1>4. within = ComponentAt(doc, b, b + 1)
  BY <1>3, NoComponent, Zenon DEF Fresh
<1>5. /\ r.doc = doc /\ r.at = 0 /\ \A at : [r EXCEPT !.at = at] = At(doc, at)
  BY <1>1 DEF At
<1>6. NextProperty(r, b, within) =
        StopIn(r, b, EndOf(doc, b), b + 1, StopFrom(doc, b, EndOf(doc, b), b + 1), within)
  BY <1>5 DEF NextProperty
<1>7. b + 1 \in Nat /\ got = ReadBefore(doc, b, b + 1)
  BY <1>1, <1>2, <1>3
<1> DEFINE from == b + 1
<1> HIDE DEF from
<1>8. LET last == EndOf(doc, b)
          next == StopIn(r, b, last, from, StopFrom(doc, b, last, from), within)
      IN  \/ next.result = "EndOfProperties" /\ got = PropertiesOf(doc, b)
          \/ next.result = "Success" /\ OnName(doc, b, next.reader, next.component, got)
  <2>1. /\ from \in Nat /\ Boundary(doc, b, from)
        /\ within = ComponentAt(doc, b, from) /\ got = ReadBefore(doc, b, from)
    BY <1>3, <1>4, <1>7 DEF from
  <2> QED BY <2>1, <1>5, NextFrom
<1> QED BY <1>6, <1>8 DEF from

LEMMA NextOfBetween ==
    ASSUME NEW doc, Len(doc) \in Nat, NEW b, HoldsProperties(doc, b), NEW r, NEW within, NEW got,
           Between(doc, b, r, within, got)
    PROVE  LET next == NextProperty(r, b, within)
           IN  \/ next.result = "EndOfProperties" /\ got = PropertiesOf(doc, b)
               \/ next.result = "Success" /\ OnName(doc, b, next.reader, next.component, got)
<1>1. PICK at \in Nat : /\ Boundary(doc, b, at) /\ r = At(doc, at)
                        /\ within = ComponentAt(doc, b, at) /\ got = ReadBefore(doc, b, at)
  BY DEF Between
<1>2. Structural(doc, b, at) /\ b \in Nat
  BY <1>1, ObjectsWhole DEF Structural, Objects
<1>3. at # 0
  BY <1>2, StructuralBounds
<1>4. /\ r.doc = doc /\ r.at = at /\ \A a : [r EXCEPT !.at = a] = At(doc, a)
  BY <1>1 DEF At
<1>5. NextProperty(r, b, within) =
        StopIn(r, b, EndOf(doc, b), at, StopFrom(doc, b, EndOf(doc, b), at), within)
  BY <1>3, <1>4 DEF NextProperty
<1> QED BY <1>1, <1>4, <1>5, NextFrom

\* To the value of a property, and past it.
LEMMA ValueOfName ==
    ASSUME NEW doc, Len(doc) \in Nat, NEW b, HoldsProperties(doc, b), NEW r, NEW within, NEW got,
           OnName(doc, b, r, within, got)
    PROVE  OnValue(doc, b, Moved(r), within,
                   got \cup {[component |-> within, name |-> CurrentToken(r).text,
                              value |-> CurrentToken(Moved(r))]})
<1>1. PICK p \in PropertyNames(doc, b) :
        /\ r = At(doc, p) /\ within = ComponentAt(doc, b, p) /\ got = ReadBefore(doc, b, p)
  BY DEF OnName
<1>2. p \in Nat /\ b < p /\ p < EndOf(doc, b) /\ b \in Nat
  BY PropertyValue, ObjectsWhole DEF Objects
<1>3. EndOf(doc, b) \in Nat /\ EndOf(doc, b) <= Len(doc)
  BY ObjectsWhole, ObjectBounds DEF Objects
<1>4. Moved(r) = At(doc, p + 1)
  BY <1>1, <1>2, <1>3, MovedAt
<1>5. CurrentToken(r) = doc[p] /\ CurrentToken(Moved(r)) = doc[p + 1]
  BY <1>1, <1>2, <1>4 DEF CurrentToken, At
<1>6. PropertyAt(doc, b, p) = [component |-> within, name |-> CurrentToken(r).text,
                               value |-> CurrentToken(Moved(r))]
  BY <1>1, <1>5 DEF PropertyAt
<1>7. ReadBefore(doc, b, p + 1) = got \cup {PropertyAt(doc, b, p)}
  BY <1>1, OneRead
<1> QED BY <1>1, <1>4, <1>6, <1>7 DEF OnValue

LEMMA PastValueOf ==
    ASSUME NEW doc, Len(doc) \in Nat, NEW b, HoldsProperties(doc, b), NEW r, NEW within, NEW got,
           OnValue(doc, b, r, within, got)
    PROVE  Between(doc, b, Moved(SkipChildren(r)), within, got)
<1>1. PICK p \in PropertyNames(doc, b) :
        /\ r = At(doc, p + 1) /\ within = ComponentAt(doc, b, p) /\ got = ReadBefore(doc, b, p + 1)
  BY DEF OnValue
<1> DEFINE e == ValueEnd(doc, p)
<1>2. /\ p \in Nat /\ e \in Nat /\ p < e /\ e < EndOf(doc, b)
      /\ Boundary(doc, b, e + 1) /\ SkipChildren(r) = At(doc, e)
      /\ Inside(doc, b, e + 1) = Inside(doc, b, p)
      /\ \A k \in PropertyNames(doc, b) : ~(p < k /\ k <= e)
  BY <1>1, PropertyValue
<1> HIDE DEF e
<1>3. EndOf(doc, b) \in Nat /\ EndOf(doc, b) <= Len(doc)
  BY ObjectsWhole, ObjectBounds DEF Objects
<1>4. Moved(SkipChildren(r)) = At(doc, e + 1)
  BY <1>2, <1>3, MovedAt
<1>5. within = ComponentAt(doc, b, e + 1)
  BY <1>1, <1>2, SameComponent
<1>6. \A k \in PropertyNames(doc, b) : ~(p + 1 <= k /\ k < e + 1)
  BY <1>2, PropertyValue
<1>7. got = ReadBefore(doc, b, e + 1)
  BY <1>1, <1>2, <1>6, NoneRead
<1> QED BY <1>2, <1>4, <1>5, <1>7 DEF Between

(***************************************************************************)
(* The session.                                                            *)
(***************************************************************************)
\* A CONNECT packet carries a token only when its making succeeded.
SentWasMade == sent # NoPassword => sent \in TokenLengths /\ Result(sent) = "Success"

LEMMA InitMade == Init => SentWasMade
  BY DEF Init, SentWasMade

LEMMA NextMade == SentWasMade /\ [Next]_vars => SentWasMade'
<1> SUFFICES ASSUME SentWasMade, [Next]_vars
             PROVE  SentWasMade'
  OBVIOUS
<1>1. CASE UNCHANGED vars
  BY <1>1 DEF vars, SentWasMade
<1>2. CASE SetSymmetricKey
  BY <1>2 DEF SetSymmetricKey, SentWasMade
<1>3. CASE Connect
  <2>1. CASE sent' = NoPassword
    BY <2>1 DEF SentWasMade
  <2>2. CASE sent' # NoPassword
    <3>1. PICK l \in TokenLengths : Result(l) = "Success" /\ sent' = l
      BY <1>3, <2>2 DEF Connect
    <3> QED BY <3>1 DEF SentWasMade
  <2> QED BY <2>1, <2>2
<1>4. CASE Receive
  BY <1>4 DEF Receive, SentWasMade
<1>5. CASE /\ ~UNCHANGED vars /\ ~SetSymmetricKey /\ ~Connect /\ ~Receive
  <2>1. UNCHANGED sent
    BY <1>5 DEF Next, ReadVersion, BeginDocument, AppendOwn, AppendOwnList,
                NextComponentProperty, ToValue, PastValue, EndComponent, BeginComponent,
                BeginResponseStatus, AppendTheValue, EndResponseStatus, EndDocument,
                SendPropertiesReported, Written
  <2> QED BY <2>1 DEF SentWasMade
<1> QED BY <1>1, <1>2, <1>3, <1>4, <1>5

\* Every token that is sent is whole.
THEOREM SentTokenAlwaysWhole == Spec => []SentTokenIsWhole
<1>1. SentWasMade => SentTokenIsWhole
  BY TokenOfSuccessIsWhole, SessionAssumption DEF SentWasMade, SentTokenIsWhole
<1> QED BY InitMade, NextMade, <1>1, PTL DEF Spec

(***************************************************************************)
(* What has been read.                                                     *)
(***************************************************************************)
BeginOf(m) == CHOOSE i \in SectionBegins(m.doc, m.type, FromService) : TRUE

BeforeLoop == {"Received", "Versioned", "Begun", "ListNamed", "InList", "ListFull"}
OfProperty == {"Acknowledge", "AppendValue", "EndResponse", "PastValue"}
PastLoop   == {"Closing", "Written"}

\* There is a message; and once its version has been read, it has the section
\* that the properties are in.
HasMessage ==
    /\ phase \notin {"Disconnected", "Connected"} => packet \in Packets /\ packet.doc # << >>
    /\ phase \notin {"Disconnected", "Connected", "Received"} =>
         SectionBegins(packet.doc, packet.type, FromService) # {}

\* The inductive invariant: wherever the application is, the reader, the
\* component and what has been read say the same of where it is in the message.
ReadInv ==
    LET doc == packet.doc  b == BeginOf(packet)
    IN  /\ HasMessage
        /\ phase \in BeforeLoop => Fresh(doc, reader, component, read)
        /\ phase \in PastLoop => scan = FromService
        /\ scan \in {FromDevice, FromService}
        /\ scan = FromService =>
             /\ phase = "Scanning" => \/ Fresh(doc, reader, component, read)
                                      \/ Between(doc, b, reader, component, read)
             /\ phase = "AtName" => OnName(doc, b, reader, component, read)
             /\ phase \in OfProperty => OnValue(doc, b, reader, component, read)
             /\ phase \in PastLoop => read = PropertiesOf(doc, b)

\* The message is one that the assumption is about.
LEMMA MessageIsWhole ==
    ASSUME NEW m \in Packets, m.doc # << >>,
           SectionBegins(m.doc, m.type, FromService) # {}
    PROVE  /\ Len(m.doc) \in Nat /\ HoldsProperties(m.doc, BeginOf(m))
           /\ m.properties[FromService] = PropertiesOf(m.doc, BeginOf(m))
<1>1. BeginOf(m) \in SectionBegins(m.doc, m.type, FromService)
  BY DEF BeginOf
<1> QED BY <1>1, PacketsAssumption

\* A call of GetNextComponentProperty for the properties the service wrote.
LEMMA NextCall ==
    ASSUME NEW m \in Packets, m.doc # << >>,
           SectionBegins(m.doc, m.type, FromService) # {},
           NEW r, NEW within, NEW got,
           \/ Fresh(m.doc, r, within, got)
           \/ Between(m.doc, BeginOf(m), r, within, got)
    PROVE  LET next == GetNextComponentProperty(r, m.type, FromService, within)
           IN  \/ next.result = "EndOfProperties" /\ got = m.properties[FromService]
               \/ /\ next.result = "Success"
                  /\ OnName(m.doc, BeginOf(m), next.reader, next.component, got)
<1> DEFINE b == BeginOf(m)
           first == NextProperty(r, b, within)
           next == GetNextComponentProperty(r, m.type, FromService, within)
<1>1. Len(m.doc) \in Nat /\ HoldsProperties(m.doc, b) /\ m.properties[FromService] = PropertiesOf(m.doc, b)
  BY MessageIsWhole
<1>2. r.doc = m.doc
  <2>1. ASSUME Fresh(m.doc, r, within, got)
        PROVE  r.doc = m.doc
    BY <2>1, Zenon DEF Fresh, Reader
  <2>2. ASSUME Between(m.doc, b, r, within, got)
        PROVE  r.doc = m.doc
    BY <2>2 DEF Between, At
  <2> QED BY <2>1, <2>2
<1>3. next = WrittenBack(first, within)
  BY <1>2 DEF GetNextComponentProperty, BeginOf
<1> HIDE DEF b
<1>4. \/ first.result = "EndOfProperties" /\ got = PropertiesOf(m.doc, b)
      \/ first.result = "Success" /\ OnName(m.doc, b, first.reader, first.component, got)
  BY <1>1, NextOfFresh, NextOfBetween DEF b
<1> HIDE DEF next
<1>5. ASSUME first.result = "Success"
      PROVE  next = first
  BY <1>3, <1>5 DEF WrittenBack
<1>6. ASSUME first.result = "EndOfProperties"
      PROVE  next.result = "EndOfProperties"
  BY <1>3, <1>6 DEF WrittenBack, NextProperty, StopIn
<1> HIDE DEF first
<1> QED BY <1>1, <1>4, <1>5, <1>6 DEF b, next

LEMMA InitReads == Init => ReadInv
  BY DEF Init, ReadInv, HasMessage, BeforeLoop, OfProperty, PastLoop

\* Most calls leave the reader: the application goes on, or gives up.
Onward ==
    \/ phase' \in {"Disconnected", "Connected"}
    \/ phase' = phase
    \/ phase \in BeforeLoop \ {"Received"} /\ phase' \in (BeforeLoop \ {"Received"}) \cup {"Scanning"}
    \/ phase \in OfProperty /\ phase' \in OfProperty
    \/ phase \in PastLoop /\ phase' \in PastLoop

LEMMA OnwardReads == ReadInv /\ Onward /\ UNCHANGED <<packet, readingVars>> => ReadInv'
<1> SUFFICES ASSUME ReadInv, Onward, UNCHANGED <<packet, readingVars>>
             PROVE  ReadInv'
  OBVIOUS
<1>1. UNCHANGED <<packet, reader, component, scan, read>>
  BY DEF readingVars
<1>2. HasMessage'
  BY <1>1 DEF ReadInv, HasMessage, Onward, BeforeLoop, OfProperty, PastLoop
<1>3. phase' \in BeforeLoop => phase \in BeforeLoop
  BY DEF Onward, BeforeLoop, OfProperty, PastLoop
<1>4. phase' = "Scanning" => phase = "Scanning" \/ phase \in BeforeLoop
  BY DEF Onward, BeforeLoop, OfProperty, PastLoop
<1>5. phase' = "AtName" => phase = "AtName"
  BY DEF Onward, BeforeLoop, OfProperty, PastLoop
<1>6. phase' \in OfProperty => phase \in OfProperty
  BY DEF Onward, BeforeLoop, OfProperty, PastLoop
<1>7. phase' \in PastLoop => phase \in PastLoop
  BY DEF Onward, BeforeLoop, OfProperty, PastLoop
<1> QED BY <1>1, <1>2, <1>3, <1>4, <1>5, <1>6, <1>7 DEF ReadInv

\* A message comes, and its version is read.
LEMMA ReceiveReads == ReadInv /\ Receive => ReadInv'
<1> SUFFICES ASSUME Receive
             PROVE  ReadInv'
  OBVIOUS
<1>1. scan' \in {FromDevice, FromService} /\ packet' \in Packets
  BY DEF Receive
<1>2. ASSUME packet'.doc = << >>
      PROVE  phase' = "Connected"
  BY <1>2 DEF Receive, ReaderInit, Goto
<1>3. ASSUME packet'.doc # << >>
      PROVE  phase' = "Received" /\ reader' = Reader(packet'.doc)
  BY <1>3 DEF Receive, ReaderInit, Goto
<1>4. reader' = Reader(packet'.doc) => Fresh(packet'.doc, reader', component', read')
  BY Zenon DEF Receive, Fresh
<1> QED BY <1>1, <1>2, <1>3, <1>4 DEF ReadInv, HasMessage, BeforeLoop, OfProperty, PastLoop

LEMMA ReadVersionReads == ReadInv /\ ReadVersion => ReadInv'
<1> SUFFICES ASSUME ReadInv, ReadVersion
             PROVE  ReadInv'
  OBVIOUS
<1>1. /\ phase = "Received" /\ packet \in Packets /\ packet.doc # << >>
      /\ Fresh(packet.doc, reader, component, read) /\ scan \in {FromDevice, FromService}
  BY DEF ReadInv, ReadVersion, HasMessage, BeforeLoop
<1>2. UNCHANGED <<packet, component, scan, read>>
  BY DEF ReadVersion
<1>3. reader.doc = packet.doc
  BY <1>1, Zenon DEF Fresh, Reader
<1>4. CASE GetPropertiesVersion(reader, packet.type).result = "Success"
  <2>1. SectionBegins(packet.doc, packet.type, FromService) # {}
    BY <1>3, <1>4 DEF GetPropertiesVersion, Answer
  <2>2. phase' = "Versioned" /\ reader' = Reader(packet.doc)
    BY <1>1, <1>4 DEF ReadVersion, ReaderInit, Goto
  <2>3. reader' = reader
    BY <1>1, <2>2, Zenon DEF Fresh
  <2> QED BY <1>1, <1>2, <2>1, <2>2, <2>3 DEF ReadInv, HasMessage, BeforeLoop, OfProperty, PastLoop
<1>5. CASE GetPropertiesVersion(reader, packet.type).result # "Success"
  <2>1. phase' = "Connected"
    BY <1>5 DEF ReadVersion, Goto
  <2> QED BY <1>1, <1>2, <2>1 DEF ReadInv, HasMessage, BeforeLoop, OfProperty, PastLoop
<1> QED BY <1>4, <1>5

\* The loop.
LEMMA ResultOfNext ==
    ASSUME NEW r, NEW type, NEW s, NEW within
    PROVE  GetNextComponentProperty(r, type, s, within).result
             \in {"Success", "EndOfProperties", "Failed"}
<1> DEFINE begins == SectionBegins(r.doc, type, s)
           next == NextProperty(r, CHOOSE i \in begins : TRUE, within)
<1>1. next.result \in {"Success", "EndOfProperties", "Failed"}
  BY DEF NextProperty, StopIn
<1>2. WrittenBack(next, within).result = next.result
  <2>1. next = [result |-> next.result, reader |-> next.reader, component |-> next.component]
    BY DEF NextProperty, StopIn
  <2> HIDE DEF next
  <2> QED BY <2>1 DEF WrittenBack
<1> HIDE DEF next
<1> QED BY <1>1, <1>2 DEF GetNextComponentProperty, next

NextOf == GetNextComponentProperty(reader, packet.type, scan, component)

LEMMA NextCases ==
    ASSUME NextComponentProperty
    PROVE  /\ phase = "Scanning" /\ packet' = packet
           /\ \/ /\ NextOf.result = "EndOfProperties" /\ scan = FromDevice
                 /\ Fresh(packet.doc, reader', component', read')
                 /\ scan' = FromService /\ phase' = "Scanning"
              \/ /\ ~(NextOf.result = "EndOfProperties" /\ scan = FromDevice)
                 /\ reader' = NextOf.reader /\ component' = NextOf.component
                 /\ scan' = scan /\ read' = read
                 /\ NextOf.result = "Success" => phase' = "AtName"
                 /\ NextOf.result = "EndOfProperties" => phase' = "Closing"
                 /\ NextOf.result = "Failed" => phase' = "Connected"
<1>1. phase = "Scanning" /\ packet' = packet
  BY Zenon DEF NextComponentProperty
<1>2. CASE NextOf.result = "EndOfProperties" /\ scan = FromDevice
  BY <1>1, <1>2, Zenon DEF NextComponentProperty, NextOf, Fresh, Goto
<1>3. CASE ~(NextOf.result = "EndOfProperties" /\ scan = FromDevice)
  <2>1. /\ reader' = NextOf.reader /\ component' = NextOf.component
        /\ scan' = scan /\ read' = read
        /\ phase' = CASE NextOf.result = "Success"         -> "AtName"
                      [] NextOf.result = "EndOfProperties" -> "Closing"
                      [] NextOf.result = "Failed"          -> "Connected"
    BY <1>3, Zenon DEF NextComponentProperty, NextOf, Goto
  <2>2. /\ NextOf.result = "Success" => phase' = "AtName"
        /\ NextOf.result = "EndOfProperties" => phase' = "Closing"
        /\ NextOf.result = "Failed" => phase' = "Connected"
    BY <2>1, Zenon
  <2> QED BY <1>1, <1>3, <2>1, <2>2, Zenon
<1> QED BY <1>2, <1>3, Zenon

LEMMA NextReads == ReadInv /\ NextComponentProperty => ReadInv'
<1> SUFFICES ASSUME ReadInv, NextComponentProperty
             PROVE  ReadInv'
  OBVIOUS
<1> DEFINE doc == packet.doc  b == BeginOf(packet)
<1>1. /\ phase = "Scanning" /\ packet' = packet
      /\ packet \in Packets /\ doc # << >>
      /\ SectionBegins(doc, packet.type, FromService) # {}
      /\ scan \in {FromDevice, FromService} /\ FromDevice # FromService
  BY NextCases DEF ReadInv, HasMessage, FromDevice, FromService
<1>2. HasMessage'
  BY <1>1 DEF HasMessage
<1>3. CASE NextOf.result = "EndOfProperties" /\ scan = FromDevice
  <2>1. Fresh(doc, reader', component', read') /\ scan' = FromService /\ phase' = "Scanning"
    BY <1>3, NextCases
  <2> QED BY <1>1, <1>2, <2>1 DEF ReadInv, BeforeLoop, OfProperty, PastLoop
<1>4. CASE ~(NextOf.result = "EndOfProperties" /\ scan = FromDevice)
  <2>1. /\ reader' = NextOf.reader /\ component' = NextOf.component
        /\ scan' = scan /\ read' = read
        /\ NextOf.result = "Success" => phase' = "AtName"
        /\ NextOf.result = "EndOfProperties" => phase' = "Closing"
        /\ NextOf.result = "Failed" => phase' = "Connected"
    BY <1>4, NextCases
  <2>2. NextOf.result \in {"Success", "EndOfProperties", "Failed"}
    BY ResultOfNext DEF NextOf
  <2>3. ASSUME scan = FromDevice
        PROVE  ReadInv'
    BY <1>1, <1>2, <1>4, <2>1, <2>2, <2>3 DEF ReadInv, BeforeLoop, OfProperty, PastLoop
  <2>4. ASSUME scan = FromService
        PROVE  ReadInv'
    <3>1. Fresh(doc, reader, component, read) \/ Between(doc, b, reader, component, read)
      BY <1>1, <2>4 DEF ReadInv
    <3>2. \/ NextOf.result = "EndOfProperties" /\ read = packet.properties[FromService]
          \/ /\ NextOf.result = "Success"
             /\ OnName(doc, b, NextOf.reader, NextOf.component, read)
      BY <1>1, <2>4, <3>1, NextCall DEF NextOf
    <3>3. packet.properties[FromService] = PropertiesOf(doc, b)
      BY <1>1, MessageIsWhole
    <3> QED BY <1>1, <1>2, <2>1, <2>4, <3>2, <3>3 DEF ReadInv, BeforeLoop, OfProperty, PastLoop
  <2> QED BY <1>1, <2>3, <2>4
<1> QED BY <1>3, <1>4

LEMMA ToValueReads == ReadInv /\ ToValue => ReadInv'
<1> SUFFICES ASSUME ReadInv, ToValue
             PROVE  ReadInv'
  OBVIOUS
<1> DEFINE doc == packet.doc  b == BeginOf(packet)
<1>1. /\ phase = "AtName" /\ UNCHANGED <<packet, component, scan>>
      /\ packet \in Packets /\ doc # << >>
      /\ SectionBegins(doc, packet.type, FromService) # {}
      /\ scan \in {FromDevice, FromService}
  BY DEF ToValue, ReadInv, HasMessage
<1>2. /\ reader' = Moved(reader)
      /\ read' = read \cup {[component |-> component, name |-> CurrentToken(reader).text,
                             value |-> CurrentToken(Moved(reader))]}
      /\ phase' \in {"Acknowledge", "PastValue"}
  BY DEF ToValue, Goto
<1>3. HasMessage'
  BY <1>1 DEF HasMessage
<1>4. ASSUME scan = FromService
      PROVE  OnValue(doc, b, reader', component', read')
  <2>1. OnName(doc, b, reader, component, read)
    BY <1>1, <1>4 DEF ReadInv
  <2>2. Len(doc) \in Nat /\ HoldsProperties(doc, b)
    BY <1>1, MessageIsWhole
  <2> QED BY <1>1, <1>2, <2>1, <2>2, ValueOfName
<1> QED BY <1>1, <1>2, <1>3, <1>4 DEF ReadInv, BeforeLoop, OfProperty, PastLoop

LEMMA PastValueReads == ReadInv /\ PastValue => ReadInv'
<1> SUFFICES ASSUME ReadInv, PastValue
             PROVE  ReadInv'
  OBVIOUS
<1> DEFINE doc == packet.doc  b == BeginOf(packet)
<1>1. /\ phase = "PastValue" /\ UNCHANGED <<packet, component, scan, read>>
      /\ packet \in Packets /\ doc # << >>
      /\ SectionBegins(doc, packet.type, FromService) # {}
      /\ scan \in {FromDevice, FromService}
      /\ reader' = Moved(SkipChildren(reader)) /\ phase' = "Scanning"
  BY DEF PastValue, ReadInv, HasMessage, Goto
<1>2. HasMessage'
  BY <1>1 DEF HasMessage
<1>3. ASSUME scan = FromService
      PROVE  Between(doc, b, reader', component', read')
  <2>1. OnValue(doc, b, reader, component, read)
    BY <1>1, <1>3 DEF ReadInv, OfProperty
  <2>2. Len(doc) \in Nat /\ HoldsProperties(doc, b)
    BY <1>1, MessageIsWhole
  <2> QED BY <1>1, <2>1, <2>2, PastValueOf
<1> QED BY <1>1, <1>2, <1>3 DEF ReadInv, BeforeLoop, OfProperty, PastLoop

\* The calls that write.
LEMMA WritingOnward ==
    ASSUME \/ BeginDocument   \/ AppendOwn           \/ AppendOwnList
           \/ EndComponent    \/ BeginComponent      \/ BeginResponseStatus
           \/ AppendTheValue  \/ EndResponseStatus   \/ EndDocument
           \/ SendPropertiesReported
    PROVE  Onward /\ UNCHANGED <<packet, readingVars>>
<1>1. ASSUME NEW outcome, NEW next, Written(outcome, next)
      PROVE  packet' = packet /\ phase' \in {next, "Connected"}
  BY <1>1 DEF Written, Goto
<1>2. CASE BeginDocument \/ AppendOwn \/ AppendOwnList
  BY <1>1, <1>2 DEF BeginDocument, AppendOwn, AppendOwnList, Onward, BeforeLoop
<1>3. CASE EndComponent
  BY <1>1, <1>3, Zenon DEF EndComponent, Onward
<1>4. CASE BeginComponent
  BY <1>1, <1>4, Zenon DEF BeginComponent, Onward
<1>5. CASE BeginResponseStatus \/ AppendTheValue \/ EndResponseStatus
  BY <1>1, <1>5 DEF BeginResponseStatus, AppendTheValue, EndResponseStatus, Onward, OfProperty
<1>6. CASE EndDocument
  BY <1>1, <1>6, Zenon DEF EndDocument, Onward, PastLoop
<1>7. CASE SendPropertiesReported
  BY <1>7 DEF SendPropertiesReported, Onward, Goto
<1> QED BY <1>2, <1>3, <1>4, <1>5, <1>6, <1>7

LEMMA NextStepReads == ReadInv /\ [Next]_vars => ReadInv'
<1> SUFFICES ASSUME ReadInv, [Next]_vars
             PROVE  ReadInv'
  OBVIOUS
<1>1. CASE UNCHANGED vars
  BY <1>1, OnwardReads DEF vars, Onward
<1>2. CASE SetSymmetricKey
  BY <1>2, OnwardReads DEF SetSymmetricKey, Onward
<1>3. CASE Connect
  <2>1. Onward /\ UNCHANGED <<packet, readingVars>>
    BY <1>3 DEF Connect, Onward
  <2> QED BY <2>1, OnwardReads
<1>4. CASE Receive
  BY <1>4, ReceiveReads
<1>5. CASE ReadVersion
  BY <1>5, ReadVersionReads
<1>6. CASE NextComponentProperty
  BY <1>6, NextReads
<1>7. CASE ToValue
  BY <1>7, ToValueReads
<1>8. CASE PastValue
  BY <1>8, PastValueReads
<1>9. CASE \/ BeginDocument   \/ AppendOwn           \/ AppendOwnList
           \/ EndComponent    \/ BeginComponent      \/ BeginResponseStatus
           \/ AppendTheValue  \/ EndResponseStatus   \/ EndDocument
           \/ SendPropertiesReported
  BY <1>9, WritingOnward, OnwardReads
<1> QED BY <1>1, <1>2, <1>3, <1>4, <1>5, <1>6, <1>7, <1>8, <1>9 DEF Next

\* In a message of whatever length, with whatever components and whatever stands
\* inside its values, the loop of the header comes to every property of the
\* service's, each in its component, and to nothing else
\* (AzureIoTHubClientProperties_GetNextComponentProperty, AzureIoTJSONReader_SkipChildren).
THEOREM AlwaysReadsWhatIsThere == Spec => []ReadsWhatIsThere
<1>1. ReadInv => ReadsWhatIsThere
  <2> SUFFICES ASSUME ReadInv, phase \in PastLoop
               PROVE  read = packet.properties[FromService]
    BY DEF ReadsWhatIsThere, PastLoop
  <2>1. /\ packet \in Packets /\ packet.doc # << >>
        /\ SectionBegins(packet.doc, packet.type, FromService) # {}
        /\ read = PropertiesOf(packet.doc, BeginOf(packet))
    BY DEF ReadInv, HasMessage, PastLoop
  <2> QED BY <2>1, MessageIsWhole
<1> QED BY InitReads, NextStepReads, <1>1, PTL DEF Spec

(***************************************************************************)
(* What is written.  A document is a sequence of tokens, and grows.        *)
(***************************************************************************)
IsText(doc) == \E S : doc \in Seq(S)

LEMMA AppendText ==
    ASSUME NEW doc, IsText(doc), NEW token
    PROVE  /\ IsText(Append(doc, token)) /\ Len(doc) \in Nat
           /\ Len(Append(doc, token)) = Len(doc) + 1
           /\ \A i \in 1 .. Len(doc) : Append(doc, token)[i] = doc[i]
           /\ Append(doc, token)[Len(doc) + 1] = token
<1>1. PICK S : doc \in Seq(S)
  BY DEF IsText
<1> DEFINE T == S \cup {token}
<1>2. doc \in Seq(T) /\ token \in T
  BY <1>1
<1> HIDE DEF T
<1>3. Append(doc, token) \in Seq(T)
  BY <1>2
<1> QED BY <1>2, <1>3 DEF IsText

\* How the nesting follows the tokens.
Weight(token) == IF token.kind \in Begins THEN 1 ELSE IF token.kind \in Ends THEN -1 ELSE 0

Kinds(doc, kinds, n) == {i \in 1 .. n : doc[i].kind \in kinds}

LEMMA KindsNext ==
    ASSUME NEW doc, NEW kinds, NEW n \in Nat
    PROVE  /\ IsFiniteSet(Kinds(doc, kinds, n)) /\ Cardinality(Kinds(doc, kinds, n)) \in Nat
           /\ Cardinality(Kinds(doc, kinds, n + 1)) =
                Cardinality(Kinds(doc, kinds, n)) + (IF doc[n + 1].kind \in kinds THEN 1 ELSE 0)
<1>1. IsFiniteSet(1 .. n)
  BY FS_Interval
<1>2. Kinds(doc, kinds, n) \in SUBSET (1 .. n)
  BY DEF Kinds
<1>3. IsFiniteSet(Kinds(doc, kinds, n))
  BY <1>1, <1>2, FS_Subset
<1>4. Kinds(doc, kinds, n + 1) = IF doc[n + 1].kind \in kinds
                                 THEN Kinds(doc, kinds, n) \cup {n + 1} ELSE Kinds(doc, kinds, n)
  BY DEF Kinds
<1>5. n + 1 \notin Kinds(doc, kinds, n)
  BY <1>2
<1>6. Cardinality(Kinds(doc, kinds, n) \cup {n + 1}) = Cardinality(Kinds(doc, kinds, n)) + 1
  BY <1>3, <1>5, FS_AddElement
<1>7. Cardinality(Kinds(doc, kinds, n)) \in Nat
  BY <1>3, FS_CardinalityType
<1> QED BY <1>3, <1>4, <1>6, <1>7

LEMMA NestingNext ==
    ASSUME NEW doc, NEW n \in Nat
    PROVE  /\ Nesting(doc, 1, n) \in Int /\ Nesting(doc, 1, 0) = 0
           /\ Nesting(doc, 1, n + 1) = Nesting(doc, 1, n) + Weight(doc[n + 1])
<1>1. \A k : Nesting(doc, 1, k) = Cardinality(Kinds(doc, Begins, k)) - Cardinality(Kinds(doc, Ends, k))
  BY DEF Nesting, Kinds, Begins, Ends
<1>2. Begins \cap Ends = {}
  BY DEF Begins, Ends
<1>3. Kinds(doc, Begins, 0) = {} /\ Kinds(doc, Ends, 0) = {} /\ Cardinality({}) = 0
  BY FS_EmptySet DEF Kinds
<1>4. /\ Cardinality(Kinds(doc, Begins, n)) \in Nat /\ Cardinality(Kinds(doc, Ends, n)) \in Nat
      /\ Cardinality(Kinds(doc, Begins, n + 1)) =
           Cardinality(Kinds(doc, Begins, n)) + (IF doc[n + 1].kind \in Begins THEN 1 ELSE 0)
      /\ Cardinality(Kinds(doc, Ends, n + 1)) =
           Cardinality(Kinds(doc, Ends, n)) + (IF doc[n + 1].kind \in Ends THEN 1 ELSE 0)
  BY KindsNext
<1>5. /\ Nesting(doc, 1, 0) = 0
      /\ Nesting(doc, 1, n) = Cardinality(Kinds(doc, Begins, n)) - Cardinality(Kinds(doc, Ends, n))
      /\ Nesting(doc, 1, n + 1) =
           Cardinality(Kinds(doc, Begins, n + 1)) - Cardinality(Kinds(doc, Ends, n + 1))
  BY <1>1, <1>3
<1>6. ~(doc[n + 1].kind \in Begins /\ doc[n + 1].kind \in Ends)
  BY <1>2
<1> QED BY <1>4, <1>5, <1>6 DEF Weight

LEMMA NestingSame ==
    ASSUME NEW doc, NEW other, NEW n \in Nat, \A i \in 1 .. n : doc[i] = other[i]
    PROVE  Nesting(doc, 1, n) = Nesting(other, 1, n)
<1>1. \A kinds : {i \in 1 .. n : doc[i].kind \in kinds} = {i \in 1 .. n : other[i].kind \in kinds}
  OBVIOUS
<1> QED BY <1>1 DEF Nesting

\* No name without its value, but for a name at the end.
Follows(doc) ==
    \A i \in 1 .. Len(doc) :
      doc[i].kind = "PropertyName" /\ i < Len(doc) =>
        doc[i + 1].kind \notin {"PropertyName"} \cup Ends

\* A document with n of the tokens behind it.
Grown(doc, tokens, n, after) ==
    /\ IsText(after) /\ Follows(after) /\ Len(after) = Len(doc) + n
    /\ \A i \in 1 .. Len(doc) : after[i] = doc[i]
    /\ \A i \in 1 .. n : after[Len(doc) + i] = tokens[i]

\* A call of the core, and calls in a row, that succeed.
LEMMA Append1Grows ==
    ASSUME NEW w, NEW token, IsText(w.doc), Follows(w.doc),
           Append1(w, token).result = "Success"
    PROVE  /\ Append1(w, token).writer.doc = Append(w.doc, token)
           /\ IsText(Append(w.doc, token)) /\ Follows(Append(w.doc, token))
<1>1. MayFollow(w, token) /\ Append1(w, token).writer.doc = Append(w.doc, token)
  BY DEF Append1, Outcome
<1> DEFINE n == Len(w.doc)  e == Append(w.doc, token)
<1>2. /\ IsText(e) /\ n \in Nat /\ Len(e) = n + 1
      /\ \A i \in 1 .. n : e[i] = w.doc[i]
      /\ e[n + 1] = token
  BY AppendText
<1>3. n # 0 /\ w.doc[n].kind = "PropertyName" => token.kind \notin {"PropertyName"} \cup Ends
  <2> SUFFICES ASSUME n # 0, w.doc[n].kind = "PropertyName",
                      token.kind \in {"PropertyName"} \cup Ends
               PROVE  FALSE
    OBVIOUS
  <2>1. w.doc # << >>
    OBVIOUS
  <2>2. LastKind(w.doc) = "PropertyName"
    BY <2>1 DEF LastKind
  <2>3. ~NameMayFollow(w) /\ \A end : ~EndMayFollow(w, end)
    BY <2>2 DEF NameMayFollow, EndMayFollow
  <2> QED BY <1>1, <2>3 DEF MayFollow
<1> HIDE DEF e
<1>4. ASSUME NEW i \in 1 .. n + 1, e[i].kind = "PropertyName", i < n + 1
      PROVE  e[i + 1].kind \notin {"PropertyName"} \cup Ends
  <2>1. CASE i = n
    BY <1>2, <1>3, <1>4, <2>1
  <2>2. CASE i # n
    <3>1. i \in 1 .. n /\ i < n /\ i + 1 \in 1 .. n
      BY <1>2, <1>4, <2>2
    <3> QED BY <1>2, <1>4, <3>1 DEF Follows
  <2> QED BY <2>1, <2>2
<1>5. Follows(e)
  BY <1>2, <1>4 DEF Follows
<1> QED BY <1>1, <1>2, <1>5 DEF e

\* The function of AppendAll.
AppendStep(f, w, tokens, k) ==
    IF k = 0 THEN Outcome("Success", w)
    ELSE IF f[k - 1].result # "Success" THEN f[k - 1]
    ELSE Append1(f[k - 1].writer, tokens[k])

LEMMA AppendsExist ==
    ASSUME NEW w, NEW tokens
    PROVE  \A n \in Nat : \E f : f = [k \in 0 .. n |-> AppendStep(f, w, tokens, k)]
<1> DEFINE Appends(f, n) == f = [k \in 0 .. n |-> AppendStep(f, w, tokens, k)]
           S == {n \in Nat : \E f : Appends(f, n)}
<1>1. 0 \in S
  <2> DEFINE f == [k \in 0 .. 0 |-> Outcome("Success", w)]
  <2>1. \A k \in 0 .. 0 : AppendStep(f, w, tokens, k) = Outcome("Success", w)
    <3> HIDE DEF f
    <3> QED BY DEF AppendStep
  <2>2. Appends(f, 0)
    <3>1. [k \in 0 .. 0 |-> AppendStep(f, w, tokens, k)] = [k \in 0 .. 0 |-> Outcome("Success", w)]
      <4> HIDE DEF f
      <4> QED BY <2>1
    <3> QED BY <3>1
  <2> QED BY <2>2
<1>2. ASSUME NEW n \in Nat, n \in S
      PROVE  n + 1 \in S
  <2>1. PICK f : Appends(f, n)
    BY <1>2
  <2> DEFINE g == [k \in 0 .. n + 1 |-> IF k = n + 1 THEN AppendStep(f, w, tokens, n + 1) ELSE f[k]]
  <2>2. \A k \in 0 .. n : g[k] = f[k]
    OBVIOUS
  <2>3. ASSUME NEW k \in 0 .. n + 1
        PROVE  AppendStep(g, w, tokens, k) = AppendStep(f, w, tokens, k)
    <3>1. k # 0 => g[k - 1] = f[k - 1]
      <4>1. k # 0 => k - 1 \in 0 .. n
        OBVIOUS
      <4> HIDE DEF g
      <4> QED BY <2>2, <4>1
    <3> HIDE DEF g
    <3> QED BY <3>1 DEF AppendStep
  <2>4. ASSUME NEW k \in 0 .. n + 1
        PROVE  (IF k = n + 1 THEN AppendStep(f, w, tokens, n + 1) ELSE f[k])
                 = AppendStep(g, w, tokens, k)
    <3>1. k # n + 1 => k \in 0 .. n
      OBVIOUS
    <3>2. k # n + 1 => f[k] = AppendStep(f, w, tokens, k)
      BY <2>1, <3>1
    <3> HIDE DEF g
    <3> QED BY <2>3, <3>2
  <2>5. Appends(g, n + 1)
    <3>1. [k \in 0 .. n + 1 |-> IF k = n + 1 THEN AppendStep(f, w, tokens, n + 1) ELSE f[k]]
            = [k \in 0 .. n + 1 |-> AppendStep(g, w, tokens, k)]
      <4> HIDE DEF g
      <4> QED BY <2>4
    <3> QED BY <3>1
  <2> HIDE DEF g
  <2> QED BY <2>5
<1>3. \A n \in Nat : n \in S
  <2> HIDE DEF S
  <2> QED BY <1>1, <1>2, Induction
<1> QED BY <1>3

LEMMA AppendAllIs ==
    ASSUME NEW w, NEW tokens, Len(tokens) \in Nat
    PROVE  \E f : /\ f = [k \in 0 .. Len(tokens) |-> AppendStep(f, w, tokens, k)]
                  /\ AppendAll(w, tokens) = f[Len(tokens)]
<1> DEFINE Body(f, n) == IF n = 0 THEN Outcome("Success", w)
                         ELSE LET before == f[n - 1]
                              IN  IF before.result # "Success" THEN before
                                  ELSE Append1(before.writer, tokens[n])
           Is(f) == f = [k \in 0 .. Len(tokens) |-> Body(f, k)]
<1>1. AppendAll(w, tokens) = (CHOOSE f : Is(f))[Len(tokens)]
  BY DEF AppendAll
<1>2. \A f, k : Body(f, k) = AppendStep(f, w, tokens, k)
  BY DEF AppendStep
<1> HIDE DEF Body
<1>3. \A f : Is(f) <=> f = [k \in 0 .. Len(tokens) |-> AppendStep(f, w, tokens, k)]
  BY <1>2
<1> HIDE DEF Is
<1>4. \E f : Is(f)
  BY <1>3, AppendsExist
<1>5. Is(CHOOSE f : Is(f))
  BY <1>4
<1> QED BY <1>1, <1>3, <1>5

LEMMA GrownNext ==
    ASSUME NEW doc, IsText(doc), NEW tokens, NEW k \in Nat, NEW before,
           Grown(doc, tokens, k, before), Follows(Append(before, tokens[k + 1]))
    PROVE  Grown(doc, tokens, k + 1, Append(before, tokens[k + 1]))
<1> DEFINE after == Append(before, tokens[k + 1])
<1>1. /\ Len(doc) \in Nat /\ Len(before) = Len(doc) + k
      /\ \A i \in 1 .. Len(doc) : before[i] = doc[i]
      /\ \A i \in 1 .. k : before[Len(doc) + i] = tokens[i]
  BY AppendText DEF Grown
<1>2. /\ IsText(after) /\ Len(after) = Len(before) + 1
      /\ \A i \in 1 .. Len(before) : after[i] = before[i]
      /\ after[Len(before) + 1] = tokens[k + 1]
  BY AppendText DEF Grown
<1> HIDE DEF after
<1>3. Len(after) = Len(doc) + (k + 1)
  BY <1>1, <1>2
<1>4. \A i \in 1 .. Len(doc) : after[i] = doc[i]
  BY <1>1, <1>2
<1>5. ASSUME NEW i \in 1 .. k + 1
      PROVE  after[Len(doc) + i] = tokens[i]
  <2>1. CASE i = k + 1
    <3>1. Len(doc) + i = Len(before) + 1
      BY <1>1, <2>1
    <3> QED BY <1>2, <2>1, <3>1
  <2>2. CASE i # k + 1
    <3>1. i \in 1 .. k /\ Len(doc) + i \in 1 .. Len(before)
      BY <1>1, <2>2
    <3> QED BY <1>1, <1>2, <3>1
  <2> QED BY <2>1, <2>2
<1>6. Follows(after)
  BY DEF after
<1> QED BY <1>2, <1>3, <1>4, <1>5, <1>6 DEF Grown, after

\* The document after calls that all succeed.
LEMMA AppendAllGrows ==
    ASSUME NEW w, IsText(w.doc), Follows(w.doc), NEW tokens, Len(tokens) \in Nat,
           AppendAll(w, tokens).result = "Success"
    PROVE  Grown(w.doc, tokens, Len(tokens), AppendAll(w, tokens).writer.doc)
<1>1. PICK f : /\ f = [k \in 0 .. Len(tokens) |-> AppendStep(f, w, tokens, k)]
               /\ AppendAll(w, tokens) = f[Len(tokens)]
  BY AppendAllIs
<1>2. ASSUME NEW k \in 0 .. Len(tokens)
      PROVE  f[k] = AppendStep(f, w, tokens, k)
  BY <1>1
<1> DEFINE G(k) == f[k].result = "Success" => Grown(w.doc, tokens, k, f[k].writer.doc)
           S == {k \in Nat : k <= Len(tokens) => G(k)}
<1>3. 0 \in S
  <2>1. f[0] = Outcome("Success", w)
    BY <1>2 DEF AppendStep
  <2>2. f[0].writer.doc = w.doc /\ Len(w.doc) \in Nat
    BY <2>1, AppendText DEF Outcome
  <2>3. Grown(w.doc, tokens, 0, w.doc)
    BY <2>2 DEF Grown
  <2> QED BY <2>2, <2>3
<1>4. ASSUME NEW k \in Nat, k \in S
      PROVE  k + 1 \in S
  <2> SUFFICES ASSUME k + 1 <= Len(tokens), f[k + 1].result = "Success"
               PROVE  Grown(w.doc, tokens, k + 1, f[k + 1].writer.doc)
    OBVIOUS
  <2> DEFINE before == f[k].writer
  <2>1. f[k + 1] = IF f[k].result # "Success" THEN f[k] ELSE Append1(before, tokens[k + 1])
    <3>1. k + 1 \in 0 .. Len(tokens) /\ k + 1 # 0 /\ (k + 1) - 1 = k
      OBVIOUS
    <3>2. f[k + 1] = AppendStep(f, w, tokens, k + 1)
      BY <1>2, <3>1
    <3> QED BY <3>1, <3>2 DEF AppendStep
  <2>2. f[k].result = "Success" /\ f[k + 1] = Append1(before, tokens[k + 1])
    BY <2>1
  <2>3. Grown(w.doc, tokens, k, before.doc)
    BY <1>4, <2>2
  <2> HIDE DEF before
  <2>4. /\ Append1(before, tokens[k + 1]).writer.doc = Append(before.doc, tokens[k + 1])
        /\ Follows(Append(before.doc, tokens[k + 1]))
    BY <2>2, <2>3, Append1Grows DEF Grown
  <2> QED BY <2>2, <2>3, <2>4, GrownNext
<1>5. Len(tokens) \in S
  <2> HIDE DEF S
  <2> QED BY <1>3, <1>4, Induction
<1> QED BY <1>1, <1>5

LEMMA TokenFacts ==
    /\ BeginObject.kind = "BeginObject" /\ EndObject.kind = "EndObject"
    /\ BeginArray.kind = "BeginArray" /\ EndArray.kind = "EndArray"
    /\ \A t : Name(t).kind = "PropertyName" /\ Name(t).text = t /\ String(t).kind = "String"
    /\ \A n : Number(n).kind = "Number" /\ Number(n).value.number = n
  BY Zenon DEF BeginObject, EndObject, BeginArray, EndArray, Name, String, Number, Token

LEMMA WeightFacts ==
    /\ Weight(BeginObject) = 1 /\ Weight(EndObject) = -1
    /\ Weight(BeginArray) = 1 /\ Weight(EndArray) = -1
    /\ \A t : Weight(Name(t)) = 0 /\ Weight(String(t)) = 0
    /\ \A n : Weight(Number(n)) = 0
  BY TokenFacts DEF Weight, Begins, Ends

(***************************************************************************)
(* What a document acknowledges.                                           *)
(***************************************************************************)
Root(within) == within = ""

AckNames(doc) == {j \in 1 .. Len(doc) - 2 : doc[j + 1] = BeginObject /\ doc[j + 2] = Name("ac")}

TopNames(doc, n) == {j \in 1 .. n : doc[j].kind = "PropertyName" /\ Nesting(doc, 1, j) = 1}

LastTop(doc, n, within) ==
    \E j \in TopNames(doc, n) : doc[j].text = within /\ \A k \in TopNames(doc, n) : k <= j

Encloses(doc, i, within) ==
    \/ Nesting(doc, 1, i) = 1 /\ Root(within)
    \/ Nesting(doc, 1, i) # 1 /\ LastTop(doc, i, within)

IsAck(doc, i, ack) ==
    /\ i + 8 <= Len(doc) /\ Encloses(doc, i, ack.component) /\ doc[i].text = ack.name
    /\ doc[i + 3] = Number(ack.code) /\ doc[i + 5] = Number(ack.version)
    /\ \E v \in {i + 6, i + 8} :
         /\ doc[v] = Name("value") /\ v + 1 <= Len(doc) /\ doc[v + 1] = ack.value
         /\ \A u \in {i + 6, i + 8} : doc[u] = Name("value") => u = v

Says(doc, acks) ==
    /\ \A i \in AckNames(doc) : \E ack \in acks : IsAck(doc, i, ack)
    /\ \A ack \in acks : \E i \in AckNames(doc) : IsAck(doc, i, ack)

\* A document with more behind it.
LEMMA PrefixKept ==
    ASSUME NEW doc, NEW after, Len(doc) \in Nat, Len(after) \in Nat, Len(doc) <= Len(after),
           \A i \in 1 .. Len(doc) : after[i] = doc[i]
    PROVE  /\ \A n \in 0 .. Len(doc) : /\ Nesting(after, 1, n) = Nesting(doc, 1, n)
                                       /\ TopNames(after, n) = TopNames(doc, n)
           /\ AckNames(doc) \subseteq AckNames(after)
           /\ \A i \in 1 .. Len(doc) : \A ack : IsAck(doc, i, ack) => IsAck(after, i, ack)
<1>1. ASSUME NEW n \in 0 .. Len(doc)
      PROVE  Nesting(after, 1, n) = Nesting(doc, 1, n)
  <2>1. n \in Nat /\ \A i \in 1 .. n : after[i] = doc[i]
    OBVIOUS
  <2> QED BY <2>1, NestingSame
<1>2. ASSUME NEW n \in 0 .. Len(doc)
      PROVE  TopNames(after, n) = TopNames(doc, n)
  <2>1. \A j \in 1 .. n : after[j] = doc[j] /\ Nesting(after, 1, j) = Nesting(doc, 1, j)
    BY <1>1
  <2> QED BY <2>1 DEF TopNames
<1>3. AckNames(doc) \subseteq AckNames(after)
  BY DEF AckNames
<1>4. ASSUME NEW i \in 1 .. Len(doc), NEW ack, IsAck(doc, i, ack)
      PROVE  IsAck(after, i, ack)
  <2>1. Encloses(after, i, ack.component)
    <3>1. i \in 0 .. Len(doc) /\ TopNames(doc, i) \subseteq 1 .. Len(doc)
      BY DEF TopNames
    <3>2. /\ Nesting(after, 1, i) = Nesting(doc, 1, i) /\ TopNames(after, i) = TopNames(doc, i)
          /\ \A j \in TopNames(doc, i) : after[j] = doc[j]
      BY <1>1, <1>2, <3>1
    <3>3. Encloses(doc, i, ack.component)
      BY <1>4 DEF IsAck
    <3> QED BY <3>2, <3>3 DEF Encloses, LastTop
  <2>2. i + 8 <= Len(doc)
    BY <1>4 DEF IsAck
  <2>3. \A k \in {0, 3, 5, 6, 8} : i + k \in 1 .. Len(doc)
    BY <2>2
  <2>4. \A k \in {0, 3, 5, 6, 8} : after[i + k] = doc[i + k]
    BY <2>3
  <2>5. i + 8 <= Len(after) /\ i + 0 = i
    BY <2>2
  <2>6. /\ after[i] = doc[i] /\ after[i + 3] = doc[i + 3] /\ after[i + 5] = doc[i + 5]
        /\ \A u \in {i + 6, i + 8} : after[u] = doc[u]
    BY <2>4, <2>5
  <2>7. PICK v \in {i + 6, i + 8} :
          /\ doc[v] = Name("value") /\ v + 1 <= Len(doc) /\ doc[v + 1] = ack.value
          /\ \A u \in {i + 6, i + 8} : doc[u] = Name("value") => u = v
    BY <1>4 DEF IsAck
  <2>8. after[v + 1] = ack.value /\ v + 1 <= Len(after)
    <3>1. v + 1 \in 1 .. Len(doc)
      BY <2>7
    <3> QED BY <2>7, <3>1
  <2>9. \E x \in {i + 6, i + 8} :
          /\ after[x] = Name("value") /\ x + 1 <= Len(after) /\ after[x + 1] = ack.value
          /\ \A u \in {i + 6, i + 8} : after[u] = Name("value") => u = x
    BY <2>6, <2>7, <2>8
  <2>10. /\ after[i].text = ack.name
         /\ after[i + 3] = Number(ack.code) /\ after[i + 5] = Number(ack.version)
    BY <1>4, <2>6 DEF IsAck
  <2> QED BY ONLY <2>1, <2>5, <2>9, <2>10 DEF IsAck
<1> QED BY <1>1, <1>2, <1>3, <1>4

\* An acknowledgement is what AcknowledgementAt reads.
LEMMA EnclosedIs ==
    ASSUME NEW doc, NEW i \in Nat, NEW within, Encloses(doc, i, within)
    PROVE  EnclosingComponent(doc, i) = within
<1>1. CASE Nesting(doc, 1, i) = 1
  <2>1. Root(within)
    BY <1>1 DEF Encloses
  <2> QED BY <1>1, <2>1, Zenon DEF EnclosingComponent, Root
<1>2. CASE Nesting(doc, 1, i) # 1
  <2> DEFINE N == TopNames(doc, i)
             last == CHOOSE j \in N : \A k \in N : k <= j
  <2>1. PICK j \in N : doc[j].text = within /\ \A k \in N : k <= j
    BY <1>2 DEF Encloses, LastTop
  <2>2. N \in SUBSET Nat
    BY DEF TopNames
  <2>3. last \in N /\ \A k \in N : k <= last
    <3> HIDE DEF N
    <3> QED BY <2>1
  <2>4. last = j
    <3> HIDE DEF N, last
    <3>1. last <= j /\ j <= last /\ last \in Nat /\ j \in Nat
      BY <2>1, <2>2, <2>3
    <3> QED BY <3>1
  <2>5. EnclosingComponent(doc, i) = doc[last].text
    BY <1>2, Zenon DEF EnclosingComponent, TopNames
  <2> HIDE DEF last
  <2> QED BY <2>1, <2>4, <2>5
<1> QED BY <1>1, <1>2

LEMMA AckIs ==
    ASSUME NEW doc, NEW i \in Nat, NEW ack, IsAck(doc, i, ack),
           ack = [component |-> ack.component, name |-> ack.name, code |-> ack.code,
                  version |-> ack.version, value |-> ack.value]
    PROVE  AcknowledgementAt(doc, i) = ack
<1> DEFINE value == CHOOSE j \in {i + 6, i + 8} : doc[j] = Name("value")
<1>1. PICK v \in {i + 6, i + 8} :
        /\ doc[v] = Name("value") /\ doc[v + 1] = ack.value
        /\ \A u \in {i + 6, i + 8} : doc[u] = Name("value") => u = v
  BY DEF IsAck
<1>2. value = v
  <2>1. value \in {i + 6, i + 8} /\ doc[value] = Name("value")
    BY <1>1
  <2> HIDE DEF value
  <2> QED BY <1>1, <2>1
<1>3. AcknowledgementAt(doc, i) =
        [component |-> EnclosingComponent(doc, i), name |-> doc[i].text,
         code |-> doc[i + 3].value.number, version |-> doc[i + 5].value.number,
         value |-> doc[value + 1]]
  BY DEF AcknowledgementAt
<1> HIDE DEF value
<1>4. EnclosingComponent(doc, i) = ack.component /\ doc[i].text = ack.name
  BY EnclosedIs DEF IsAck
<1>5. doc[i + 3].value.number = ack.code /\ doc[i + 5].value.number = ack.version
  BY TokenFacts DEF IsAck
<1> QED BY <1>1, <1>2, <1>3, <1>4, <1>5

(***************************************************************************)
(* A document that a call of the builder can go on with.                   *)
(***************************************************************************)
Rest(doc, within) ==
    /\ IsText(doc) /\ Follows(doc) /\ Len(doc) > 0
    /\ doc[Len(doc)].kind \notin {"PropertyName", "BeginObject"}
    /\ Root(within)  => Nesting(doc, 1, Len(doc)) = 1
    /\ ~Root(within) => Nesting(doc, 1, Len(doc)) = 2 /\ LastTop(doc, Len(doc), within)

LEMMA TextLength == ASSUME NEW doc, IsText(doc) PROVE Len(doc) \in Nat
  BY AppendText

\* The nesting k tokens behind the first n.
NestingBehind(doc, n, k) == Nesting(doc, 1, n + k)

LEMMA NestingGrown ==
    ASSUME NEW doc, IsText(doc), NEW tokens, NEW n \in Nat, NEW after, Grown(doc, tokens, n, after)
    PROVE  /\ NestingBehind(after, Len(doc), 0) = Nesting(doc, 1, Len(doc))
           /\ \A k \in 0 .. n : NestingBehind(after, Len(doc), k) \in Int
           /\ \A k \in 1 .. n :
                NestingBehind(after, Len(doc), k) =
                  NestingBehind(after, Len(doc), k - 1) + Weight(tokens[k])
<1>1. Len(doc) \in Nat
  BY TextLength
<1>2. NestingBehind(after, Len(doc), 0) = Nesting(doc, 1, Len(doc))
  <2>1. Len(doc) + 0 = Len(doc)
    BY <1>1
  <2> QED BY <1>1, <2>1, NestingSame DEF Grown, NestingBehind
<1>3. ASSUME NEW k \in 0 .. n
      PROVE  NestingBehind(after, Len(doc), k) \in Int
  BY <1>1, NestingNext DEF NestingBehind
<1>4. ASSUME NEW k \in 1 .. n
      PROVE  NestingBehind(after, Len(doc), k) =
               NestingBehind(after, Len(doc), k - 1) + Weight(tokens[k])
  <2>1. Len(doc) + (k - 1) \in Nat /\ (Len(doc) + (k - 1)) + 1 = Len(doc) + k
    BY <1>1
  <2>2. after[Len(doc) + k] = tokens[k]
    BY DEF Grown
  <2> QED BY <2>1, <2>2, NestingNext DEF NestingBehind
<1> QED BY <1>2, <1>3, <1>4

\* Where a document that has grown acknowledges more.
LEMMA AckNamesGrown ==
    ASSUME NEW doc, IsText(doc), NEW tokens, NEW n \in Nat, NEW after, Grown(doc, tokens, n, after),
           Len(doc) > 0 => doc[Len(doc)].kind # "BeginObject",
           NEW j \in AckNames(after), j \notin AckNames(doc)
    PROVE  /\ j - Len(doc) \in 0 .. n - 2
           /\ tokens[(j - Len(doc)) + 1] = BeginObject /\ tokens[(j - Len(doc)) + 2] = Name("ac")
<1>1. Len(doc) \in Nat /\ Len(after) = Len(doc) + n
  BY TextLength DEF Grown
<1>2. j \in 1 .. Len(doc) + n - 2 /\ after[j + 1] = BeginObject /\ after[j + 2] = Name("ac")
  BY <1>1 DEF AckNames
<1>3. \A i \in 1 .. Len(doc) : after[i] = doc[i]
  BY DEF Grown
<1>4. ~(j + 2 <= Len(doc))
  <2> SUFFICES ASSUME j + 2 <= Len(doc)
               PROVE  FALSE
    OBVIOUS
  <2>1. j \in 1 .. Len(doc) - 2 /\ j + 1 \in 1 .. Len(doc) /\ j + 2 \in 1 .. Len(doc)
    BY <1>1, <1>2
  <2>2. doc[j + 1] = BeginObject /\ doc[j + 2] = Name("ac")
    BY <1>2, <1>3, <2>1
  <2> QED BY <2>1, <2>2 DEF AckNames
<1>5. j + 1 # Len(doc)
  <2> SUFFICES ASSUME j + 1 = Len(doc)
               PROVE  FALSE
    OBVIOUS
  <2>1. after[j + 1] = doc[Len(doc)] /\ Len(doc) > 0
    BY <1>1, <1>2, <1>3
  <2> QED BY <1>2, <2>1, TokenFacts
<1> DEFINE k == j - Len(doc)
<1>6. k \in 0 .. n - 2 /\ j = Len(doc) + k /\ k + 1 \in 1 .. n /\ k + 2 \in 1 .. n
  BY <1>1, <1>2, <1>4, <1>5
<1> HIDE DEF k
<1>7. after[Len(doc) + (k + 1)] = tokens[k + 1] /\ after[Len(doc) + (k + 2)] = tokens[k + 2]
  BY <1>6 DEF Grown
<1>8. j + 1 = Len(doc) + (k + 1) /\ j + 2 = Len(doc) + (k + 2)
  BY <1>1, <1>6
<1>9. tokens[k + 1] = BeginObject /\ tokens[k + 2] = Name("ac")
  BY <1>2, <1>7, <1>8
<1> QED BY <1>6, <1>9 DEF k

LEMMA GrownKeeps ==
    ASSUME NEW doc, IsText(doc), NEW tokens, NEW n \in Nat, NEW after, Grown(doc, tokens, n, after)
    PROVE  /\ \A m \in 0 .. Len(doc) : /\ Nesting(after, 1, m) = Nesting(doc, 1, m)
                                       /\ TopNames(after, m) = TopNames(doc, m)
           /\ AckNames(doc) \subseteq AckNames(after)
           /\ \A i \in 1 .. Len(doc) : \A ack : IsAck(doc, i, ack) => IsAck(after, i, ack)
<1>1. /\ Len(doc) \in Nat /\ Len(after) \in Nat /\ Len(doc) <= Len(after)
      /\ \A i \in 1 .. Len(doc) : after[i] = doc[i]
  BY TextLength DEF Grown
<1> QED BY <1>1, PrefixKept

\* Tokens that acknowledge nothing.
LEMMA SaysTheSame ==
    ASSUME NEW doc, IsText(doc), NEW tokens, NEW n \in Nat, NEW after, Grown(doc, tokens, n, after),
           Len(doc) > 0 => doc[Len(doc)].kind # "BeginObject",
           \A k \in 0 .. n - 2 : tokens[k + 1] = BeginObject => tokens[k + 2] # Name("ac"),
           NEW acks, Says(doc, acks)
    PROVE  Says(after, acks)
<1>1. AckNames(after) \subseteq AckNames(doc)
  <2> SUFFICES ASSUME NEW j \in AckNames(after), j \notin AckNames(doc)
               PROVE  FALSE
    OBVIOUS
  <2>1. /\ j - Len(doc) \in 0 .. n - 2
        /\ tokens[(j - Len(doc)) + 1] = BeginObject /\ tokens[(j - Len(doc)) + 2] = Name("ac")
    BY AckNamesGrown
  <2> QED BY <2>1
<1>2. AckNames(doc) \subseteq 1 .. Len(doc)
  BY TextLength DEF AckNames
<1>3. /\ AckNames(doc) \subseteq AckNames(after)
      /\ \A i \in 1 .. Len(doc) : \A ack : IsAck(doc, i, ack) => IsAck(after, i, ack)
  BY ONLY GrownKeeps, IsText(doc), n \in Nat, Grown(doc, tokens, n, after)
<1> QED BY <1>1, <1>2, <1>3 DEF Says

\* The names at the top that a document which has grown does not have more of.
LEMMA TopNamesGrown ==
    ASSUME NEW doc, IsText(doc), NEW tokens, NEW n \in Nat, NEW after, Grown(doc, tokens, n, after),
           NEW m \in 0 .. n, \A k \in 1 .. m : NestingBehind(after, Len(doc), k) # 1
    PROVE  TopNames(after, Len(doc) + m) = TopNames(doc, Len(doc))
<1>1. Len(doc) \in Nat
  BY TextLength
<1>2. TopNames(after, Len(doc)) = TopNames(doc, Len(doc))
  <2>1. \A i \in 0 .. Len(doc) : TopNames(after, i) = TopNames(doc, i)
    BY ONLY GrownKeeps, IsText(doc), n \in Nat, Grown(doc, tokens, n, after)
  <2> QED BY <1>1, <2>1
<1>3. ASSUME NEW j \in TopNames(after, Len(doc) + m)
      PROVE  j \in TopNames(after, Len(doc))
  <2>1. j \in 1 .. Len(doc) + m /\ Nesting(after, 1, j) = 1 /\ after[j].kind = "PropertyName"
    BY DEF TopNames
  <2>2. CASE j <= Len(doc)
    BY <1>1, <2>1, <2>2 DEF TopNames
  <2>3. CASE ~(j <= Len(doc))
    <3>1. j - Len(doc) \in 1 .. m /\ Len(doc) + (j - Len(doc)) = j
      BY <1>1, <2>1, <2>3
    <3>2. NestingBehind(after, Len(doc), j - Len(doc)) # 1
      BY <3>1
    <3> QED BY <2>1, <3>1, <3>2 DEF NestingBehind
  <2> QED BY <2>2, <2>3
<1>4. TopNames(after, Len(doc)) \subseteq TopNames(after, Len(doc) + m)
  BY <1>1 DEF TopNames
<1> QED BY <1>2, <1>3, <1>4

LEMMA LastTopGrown ==
    ASSUME NEW doc, IsText(doc), NEW tokens, NEW n \in Nat, NEW after, Grown(doc, tokens, n, after),
           NEW m \in 0 .. n, \A k \in 1 .. m : NestingBehind(after, Len(doc), k) # 1,
           NEW within, LastTop(doc, Len(doc), within)
    PROVE  LastTop(after, Len(doc) + m, within)
<1>1. TopNames(after, Len(doc) + m) = TopNames(doc, Len(doc))
  BY TopNamesGrown
<1>2. \A j \in TopNames(doc, Len(doc)) : after[j] = doc[j]
  BY DEF TopNames, Grown
<1>3. PICK j \in TopNames(doc, Len(doc)) :
        doc[j].text = within /\ \A k \in TopNames(doc, Len(doc)) : k <= j
  BY DEF LastTop
<1> QED BY <1>1, <1>2, <1>3 DEF LastTop

(***************************************************************************)
(* The tokens of an acknowledgement, n of them.                            *)
(***************************************************************************)
IsResponse(T, n, ack) ==
    /\ n \in {9, 11}
    /\ T[1] = Name(ack.name) /\ T[2] = BeginObject
    /\ T[3] = Name("ac") /\ T[4] = Number(ack.code)
    /\ T[5] = Name("av") /\ T[6] = Number(ack.version)
    /\ n = 11 => T[7] = Name("ad") /\ T[8].kind = "String"
    /\ T[n - 2] = Name("value") /\ T[n - 1] = ack.value /\ T[n] = EndObject

IsPlain(value) == value.kind \notin {"PropertyName"} \cup Begins \cup Ends

\* Only the second of them begins an object.
LEMMA ResponseWeights ==
    ASSUME NEW T, NEW n \in Nat, NEW ack, IsResponse(T, n, ack), IsPlain(ack.value)
    PROVE  /\ Weight(T[1]) = 0 /\ Weight(T[2]) = 1 /\ Weight(T[n]) = -1
           /\ \A k \in 3 .. n - 1 : Weight(T[k]) = 0
           /\ \A k \in 1 .. n - 1 : T[k] = BeginObject => k = 2
<1>1. n \in {9, 11}
  BY DEF IsResponse
<1>2. Weight(ack.value) = 0 /\ ack.value # BeginObject
  BY TokenFacts DEF IsPlain, Weight, Begins, Ends
<1>3. Weight(T[1]) = 0 /\ Weight(T[2]) = 1 /\ Weight(T[n]) = -1
  BY WeightFacts DEF IsResponse
<1>4. Weight(T[3]) = 0 /\ Weight(T[4]) = 0 /\ Weight(T[5]) = 0 /\ Weight(T[6]) = 0
  BY WeightFacts DEF IsResponse
<1>5. n = 11 => Weight(T[7]) = 0 /\ Weight(T[8]) = 0
  BY WeightFacts DEF IsResponse, Weight, Begins, Ends
<1>6. Weight(T[n - 2]) = 0 /\ Weight(T[n - 1]) = 0
  BY <1>2, WeightFacts DEF IsResponse
<1>7. ASSUME NEW k \in 3 .. n - 1
      PROVE  Weight(T[k]) = 0
  <2>1. CASE n = 9
    <3>1. k \in {3, 4, 5, 6, n - 2, n - 1}
      BY <2>1
    <3> QED BY <1>4, <1>6, <3>1
  <2>2. CASE n = 11
    <3>1. k \in {3, 4, 5, 6, 7, 8, n - 2, n - 1}
      BY <2>2
    <3> QED BY <1>4, <1>5, <1>6, <2>2, <3>1
  <2> QED BY <1>1, <2>1, <2>2
<1>8. ASSUME NEW k \in 1 .. n - 1, T[k] = BeginObject
      PROVE  k = 2
  <2>1. Weight(T[k]) = 1
    BY <1>8, WeightFacts
  <2>2. k = 1 \/ k = 2 \/ k \in 3 .. n - 1
    BY <1>1
  <2> QED BY <1>3, <1>7, <2>1, <2>2
<1> QED BY <1>3, <1>7, <1>8

\* Its names are one level deeper than its beginning.
LEMMA ResponseNesting ==
    ASSUME NEW doc, IsText(doc), NEW T, NEW n \in Nat, NEW ack, IsResponse(T, n, ack),
           IsPlain(ack.value), NEW after, Grown(doc, T, n, after)
    PROVE  /\ NestingBehind(after, Len(doc), 1) = Nesting(doc, 1, Len(doc))
           /\ \A k \in 2 .. n - 1 :
                NestingBehind(after, Len(doc), k) = Nesting(doc, 1, Len(doc)) + 1
           /\ NestingBehind(after, Len(doc), n) = Nesting(doc, 1, Len(doc))
<1> DEFINE N(k) == NestingBehind(after, Len(doc), k)
           M == Nesting(doc, 1, Len(doc))
<1>1. n \in {9, 11}
  BY DEF IsResponse
<1>2. /\ N(0) = M
      /\ \A k \in 0 .. n : N(k) \in Int
      /\ \A k \in 1 .. n : N(k) = N(k - 1) + Weight(T[k])
  BY NestingGrown
<1>3. /\ Weight(T[1]) = 0 /\ Weight(T[2]) = 1 /\ Weight(T[n]) = -1
      /\ \A k \in 3 .. n - 1 : Weight(T[k]) = 0
  BY ResponseWeights
<1> HIDE DEF N, M
<1>4. N(1) = M /\ M \in Int
  <2>1. 1 \in 1 .. n /\ 1 - 1 = 0 /\ 0 \in 0 .. n
    BY <1>1
  <2> QED BY <1>2, <1>3, <2>1
<1>5. N(2) = M + 1
  <2>1. 2 \in 1 .. n /\ 2 - 1 = 1
    BY <1>1
  <2>2. N(2) = N(1) + Weight(T[2])
    BY <1>2, <2>1
  <2> QED BY <1>3, <1>4, <2>2
<1> DEFINE S == {k \in Nat : k \in 2 .. n - 1 => N(k) = M + 1}
<1>6. \A k \in Nat : k \in S
  <2>1. 0 \in S
    OBVIOUS
  <2>2. ASSUME NEW k \in Nat, k \in S
        PROVE  k + 1 \in S
    <3> SUFFICES ASSUME k + 1 \in 2 .. n - 1
                 PROVE  N(k + 1) = M + 1
      OBVIOUS
    <3>1. CASE k + 1 = 2
      BY <1>5, <3>1
    <3>2. CASE k + 1 # 2
      <4>1. k \in 2 .. n - 1 /\ k + 1 \in 1 .. n /\ k + 1 \in 3 .. n - 1 /\ (k + 1) - 1 = k
        BY <3>2
      <4>2. N(k) = M + 1
        BY <2>2, <4>1
      <4>3. N(k + 1) = N(k) + Weight(T[k + 1]) /\ Weight(T[k + 1]) = 0
        BY <1>2, <1>3, <4>1
      <4> QED BY <1>4, <4>2, <4>3
    <3> QED BY <3>1, <3>2
  <2> HIDE DEF S
  <2> QED BY <2>1, <2>2, Induction
<1>7. \A k \in 2 .. n - 1 : N(k) = M + 1
  BY <1>6
<1>8. N(n) = M
  <2>1. n \in 1 .. n /\ n - 1 \in 2 .. n - 1
    BY <1>1
  <2>2. N(n) = N(n - 1) + Weight(T[n]) /\ N(n - 1) = M + 1
    BY <1>2, <1>7, <2>1
  <2> QED BY <1>3, <1>4, <2>2
<1> QED BY <1>4, <1>7, <1>8 DEF N, M

\* It acknowledges what it was written for, in the component it stands in.
LEMMA ResponseIsAck ==
    ASSUME NEW doc, NEW within, Rest(doc, within), NEW ack, ack.component = within,
           NEW T, NEW n \in Nat, IsResponse(T, n, ack), IsPlain(ack.value),
           NEW after, Grown(doc, T, n, after)
    PROVE  IsAck(after, Len(doc) + 1, ack)
<1> DEFINE b == Len(doc)
<1>1. n \in Nat /\ n \in {9, 11} /\ b \in Nat /\ Len(after) = b + n
  BY TextLength DEF IsResponse, Rest, Grown
<1>2. \A k \in 1 .. n : after[b + k] = T[k]
  BY DEF Grown
<1> HIDE DEF b
<1>3. Encloses(after, b + 1, within)
  <2>1. Nesting(after, 1, b + 1) = Nesting(doc, 1, b)
    BY ResponseNesting DEF Rest, b, NestingBehind
  <2>2. CASE Root(within)
    BY <2>1, <2>2 DEF Rest, Encloses, b
  <2>3. CASE ~Root(within)
    <3>1. Nesting(after, 1, b + 1) = 2 /\ LastTop(doc, b, within)
      BY <2>1, <2>3 DEF Rest, b
    <3>2. 1 \in 0 .. n /\ \A k \in 1 .. 1 : NestingBehind(after, b, k) # 1
      BY <1>1, <3>1 DEF NestingBehind
    <3>3. IsText(doc)
      BY DEF Rest
    <3>4. LastTop(after, b + 1, within)
      BY ONLY <1>1, <3>1, <3>2, <3>3, Grown(doc, T, n, after), LastTopGrown DEF b
    <3> QED BY <3>1, <3>4 DEF Encloses
  <2> QED BY <2>2, <2>3
<1>4. /\ after[b + 1] = T[1] /\ after[b + 4] = T[4] /\ after[b + 6] = T[6]
      /\ after[b + 7] = T[7] /\ after[b + 8] = T[8] /\ after[b + 9] = T[9]
      /\ n = 11 => after[b + 10] = T[10]
  BY <1>1, <1>2
<1>5. /\ (b + 1) + 3 = b + 4 /\ (b + 1) + 5 = b + 6
      /\ (b + 1) + 6 = b + 7 /\ (b + 1) + 8 = b + 9 /\ (b + 1) + 8 <= Len(after)
      /\ (b + 7) + 1 = b + 8 /\ (b + 9) + 1 = b + 10
  BY <1>1
<1>6. /\ after[b + 1].text = ack.name
      /\ after[b + 4] = Number(ack.code) /\ after[b + 6] = Number(ack.version)
  BY <1>4, TokenFacts DEF IsResponse
<1>7. ASSUME n = 9
      PROVE  \E v \in {b + 7, b + 9} :
               /\ after[v] = Name("value") /\ v + 1 <= Len(after) /\ after[v + 1] = ack.value
               /\ \A u \in {b + 7, b + 9} : after[u] = Name("value") => u = v
  <2>1. after[b + 7] = Name("value") /\ after[b + 8] = ack.value
    BY <1>4, <1>7 DEF IsResponse
  <2>2. after[b + 9] # Name("value")
    BY <1>4, <1>7, TokenFacts DEF IsResponse
  <2> QED BY <1>1, <1>5, <1>7, <2>1, <2>2
<1>8. ASSUME n = 11
      PROVE  \E v \in {b + 7, b + 9} :
               /\ after[v] = Name("value") /\ v + 1 <= Len(after) /\ after[v + 1] = ack.value
               /\ \A u \in {b + 7, b + 9} : after[u] = Name("value") => u = v
  <2>1. after[b + 9] = Name("value") /\ after[b + 10] = ack.value
    BY <1>4, <1>8 DEF IsResponse
  <2>2. after[b + 7] # Name("value")
    <3>1. after[b + 7] = Name("ad")
      BY <1>4, <1>8 DEF IsResponse
    <3>2. after[b + 7].text = "ad"
      BY <3>1, TokenFacts
    <3> QED BY <3>2, TokenFacts
  <2> QED BY <1>1, <1>5, <1>8, <2>1, <2>2
<1>9. \E v \in {(b + 1) + 6, (b + 1) + 8} :
        /\ after[v] = Name("value") /\ v + 1 <= Len(after) /\ after[v + 1] = ack.value
        /\ \A u \in {(b + 1) + 6, (b + 1) + 8} : after[u] = Name("value") => u = v
  BY <1>1, <1>5, <1>7, <1>8
<1>10. Encloses(after, b + 1, ack.component) /\ after[(b + 1) + 3] = Number(ack.code)
       /\ after[(b + 1) + 5] = Number(ack.version)
  BY <1>3, <1>5, <1>6
<1>11. IsAck(after, b + 1, ack)
  BY ONLY <1>5, <1>6, <1>9, <1>10 DEF IsAck
<1> QED BY <1>11 DEF b

\* It says that, and what the document said before it.
LEMMA ResponseSays ==
    ASSUME NEW doc, NEW within, Rest(doc, within), NEW acks, Says(doc, acks),
           NEW ack, ack.component = within,
           NEW T, NEW n \in Nat, IsResponse(T, n, ack), IsPlain(ack.value),
           NEW after, Grown(doc, T, n, after)
    PROVE  Says(after, acks \cup {ack})
<1>1. /\ n \in Nat /\ n \in {9, 11} /\ Len(doc) \in Nat /\ Len(after) = Len(doc) + n
      /\ IsText(doc) /\ (Len(doc) > 0 => doc[Len(doc)].kind # "BeginObject")
  BY TextLength DEF IsResponse, Rest, Grown
<1>2. AckNames(after) \subseteq AckNames(doc) \cup {Len(doc) + 1}
  <2> SUFFICES ASSUME NEW j \in AckNames(after), j \notin AckNames(doc)
               PROVE  j = Len(doc) + 1
    OBVIOUS
  <2> DEFINE k == j - Len(doc)
  <2>1. k \in 0 .. n - 2 /\ T[k + 1] = BeginObject /\ T[k + 2] = Name("ac")
    BY ONLY <1>1, AckNamesGrown, Grown(doc, T, n, after), j \in AckNames(after), j \notin AckNames(doc)
  <2>2. \A m \in 1 .. n - 1 : T[m] = BeginObject => m = 2
    BY ResponseWeights
  <2>3. k + 1 \in 1 .. n - 1
    BY <1>1, <2>1
  <2>4. k = 1
    BY <2>1, <2>2, <2>3
  <2>5. j \in Int
    BY <1>1 DEF AckNames
  <2> QED BY <1>1, <2>4, <2>5
<1>3. Len(doc) + 1 \in AckNames(after)
  <2>1. /\ 2 \in 1 .. n /\ 3 \in 1 .. n /\ Len(doc) + 1 \in 1 .. Len(after) - 2
        /\ (Len(doc) + 1) + 1 = Len(doc) + 2 /\ (Len(doc) + 1) + 2 = Len(doc) + 3
    BY <1>1
  <2>2. after[Len(doc) + 2] = T[2] /\ after[Len(doc) + 3] = T[3]
    BY <2>1 DEF Grown
  <2> QED BY <2>1, <2>2 DEF AckNames, IsResponse
<1>4. IsAck(after, Len(doc) + 1, ack)
  BY ResponseIsAck
<1>5. /\ AckNames(doc) \subseteq AckNames(after)
      /\ \A i \in 1 .. Len(doc) : \A a : IsAck(doc, i, a) => IsAck(after, i, a)
  BY ONLY <1>1, GrownKeeps, Grown(doc, T, n, after)
<1>6. AckNames(doc) \subseteq 1 .. Len(doc)
  BY <1>1 DEF AckNames
<1>7. ASSUME NEW i \in AckNames(after)
      PROVE  \E a \in acks \cup {ack} : IsAck(after, i, a)
  <2>1. CASE i \in AckNames(doc)
    <3>1. \E a \in acks : IsAck(doc, i, a)
      BY <2>1 DEF Says
    <3> QED BY <1>5, <1>6, <2>1, <3>1
  <2>2. CASE i = Len(doc) + 1
    BY <1>4, <2>2
  <2> QED BY <1>2, <2>1, <2>2
<1>8. ASSUME NEW a \in acks \cup {ack}
      PROVE  \E i \in AckNames(after) : IsAck(after, i, a)
  <2>1. CASE a \in acks
    <3>1. \E i \in AckNames(doc) : IsAck(doc, i, a)
      BY <2>1 DEF Says
    <3> QED BY <1>5, <1>6, <3>1
  <2>2. CASE a = ack
    BY <1>3, <1>4, <2>2
  <2> QED BY <2>1, <2>2
<1> QED BY <1>7, <1>8 DEF Says

\* And the document can be gone on with behind it.
LEMMA ResponseRests ==
    ASSUME NEW doc, NEW within, Rest(doc, within), NEW ack,
           NEW T, NEW n \in Nat, IsResponse(T, n, ack), IsPlain(ack.value),
           NEW after, Grown(doc, T, n, after)
    PROVE  Rest(after, within)
<1>1. /\ n \in Nat /\ n \in {9, 11} /\ Len(doc) \in Nat /\ Len(after) = Len(doc) + n
      /\ IsText(doc) /\ IsText(after) /\ Follows(after)
  BY TextLength DEF IsResponse, Rest, Grown
<1>2. after[Len(after)] = EndObject
  <2>1. n \in 1 .. n
    BY <1>1
  <2> QED BY <1>1, <2>1 DEF Grown, IsResponse
<1>3. after[Len(after)].kind \notin {"PropertyName", "BeginObject"}
  BY <1>2, TokenFacts
<1>4. /\ NestingBehind(after, Len(doc), 1) = Nesting(doc, 1, Len(doc))
      /\ \A k \in 2 .. n - 1 :
           NestingBehind(after, Len(doc), k) = Nesting(doc, 1, Len(doc)) + 1
      /\ NestingBehind(after, Len(doc), n) = Nesting(doc, 1, Len(doc))
  BY <1>1, ResponseNesting
<1>5. ASSUME ~Root(within)
      PROVE  LastTop(after, Len(after), within)
  <2>1. Nesting(doc, 1, Len(doc)) = 2 /\ LastTop(doc, Len(doc), within)
    BY <1>5 DEF Rest
  <2>2. ASSUME NEW k \in 1 .. n
        PROVE  NestingBehind(after, Len(doc), k) # 1
    <3>1. k = 1 \/ k \in 2 .. n - 1 \/ k = n
      BY <1>1
    <3> QED BY <1>4, <2>1, <3>1
  <2>3. n \in 0 .. n
    BY <1>1
  <2>4. LastTop(after, Len(doc) + n, within)
    BY ONLY <1>1, <2>1, <2>2, <2>3, Grown(doc, T, n, after), LastTopGrown
  <2> QED BY <1>1, <2>4
<1>6. /\ Root(within)  => Nesting(after, 1, Len(after)) = 1
      /\ ~Root(within) => Nesting(after, 1, Len(after)) = 2
  BY <1>1, <1>4 DEF Rest, NestingBehind
<1> QED BY <1>1, <1>3, <1>5, <1>6 DEF Rest

\* A component begins behind its name, and ends.
IsComponentBegin(T, name) ==
    T[1] = Name(name) /\ T[2] = BeginObject /\ T[3] = Name("__t") /\ T[4] = String("c")

LEMMA ComponentRests ==
    ASSUME NEW doc, NEW top, Root(top), Rest(doc, top), NEW acks, Says(doc, acks),
           NEW within, ~Root(within), NEW T, IsComponentBegin(T, within),
           NEW after, Grown(doc, T, 4, after)
    PROVE  Rest(after, within) /\ Says(after, acks)
<1> DEFINE N(k) == NestingBehind(after, Len(doc), k)
<1>1. /\ Len(doc) \in Nat /\ Len(doc) > 0 /\ Len(after) = Len(doc) + 4
      /\ IsText(doc) /\ IsText(after) /\ Follows(after)
      /\ doc[Len(doc)].kind # "BeginObject" /\ 4 \in Nat
  BY TextLength DEF Rest, Grown
<1>2. /\ after[Len(doc) + 1] = T[1] /\ after[Len(doc) + 4] = T[4]
      /\ \A i \in 1 .. Len(doc) : after[i] = doc[i]
  BY DEF Grown
<1>3. /\ N(0) = 1
      /\ \A k \in 1 .. 4 : N(k) = N(k - 1) + Weight(T[k])
  <2>1. /\ N(0) = Nesting(doc, 1, Len(doc))
        /\ \A k \in 1 .. 4 : N(k) = N(k - 1) + Weight(T[k])
    BY ONLY <1>1, NestingGrown, Grown(doc, T, 4, after)
  <2> QED BY <2>1 DEF Rest
<1> HIDE DEF N
<1>4. Weight(T[1]) = 0 /\ Weight(T[2]) = 1 /\ Weight(T[3]) = 0 /\ Weight(T[4]) = 0
  BY WeightFacts DEF IsComponentBegin
<1>5. N(1) = 1 /\ N(2) = 2 /\ N(3) = 2 /\ N(4) = 2
  <2>1. /\ N(1) = N(1 - 1) + Weight(T[1]) /\ N(2) = N(2 - 1) + Weight(T[2])
        /\ N(3) = N(3 - 1) + Weight(T[3]) /\ N(4) = N(4 - 1) + Weight(T[4])
    BY <1>3
  <2>2. 1 - 1 = 0 /\ 2 - 1 = 1 /\ 3 - 1 = 2 /\ 4 - 1 = 3
    OBVIOUS
  <2> QED BY <1>3, <1>4, <2>1, <2>2
<1>6. LastTop(after, Len(after), within)
  <2> DEFINE b == Len(doc)
  <2>1. /\ after[b + 1].kind = "PropertyName" /\ after[b + 1].text = within
        /\ Nesting(after, 1, b + 1) = 1 /\ b + 1 \in 1 .. Len(after)
    BY <1>1, <1>2, <1>5, TokenFacts DEF N, NestingBehind, IsComponentBegin
  <2>2. b + 1 \in TopNames(after, Len(after))
    BY <2>1 DEF TopNames
  <2>3. ASSUME NEW j \in TopNames(after, Len(after))
        PROVE  j <= b + 1
    <3> SUFFICES ASSUME ~(j <= b + 1)
                 PROVE  FALSE
      BY <1>1 DEF TopNames
    <3>1. j \in 1 .. b + 4 /\ Nesting(after, 1, j) = 1
      BY <1>1 DEF TopNames
    <3>2. j = b + 2 \/ j = b + 3 \/ j = b + 4
      BY <1>1, <3>1
    <3>3. /\ Nesting(after, 1, b + 2) = 2 /\ Nesting(after, 1, b + 3) = 2
          /\ Nesting(after, 1, b + 4) = 2
      BY <1>5 DEF N, NestingBehind
    <3> QED BY <3>1, <3>2, <3>3
  <2> QED BY <2>1, <2>2, <2>3 DEF LastTop
<1>7. Nesting(after, 1, Len(after)) = 2
  BY <1>1, <1>5 DEF N, NestingBehind
<1>8. after[Len(after)].kind \notin {"PropertyName", "BeginObject"}
  BY <1>1, <1>2, TokenFacts DEF IsComponentBegin
<1>9. Rest(after, within)
  BY <1>1, <1>6, <1>7, <1>8 DEF Rest
<1>10. Says(after, acks)
  <2>1. ASSUME NEW k \in 0 .. 4 - 2, T[k + 1] = BeginObject
        PROVE  T[k + 2] # Name("ac")
    <3>1. k = 0 \/ k = 1 \/ k = 2
      OBVIOUS
    <3>2. T[1] # BeginObject /\ T[3] # BeginObject
      BY TokenFacts DEF IsComponentBegin
    <3>3. T[3] # Name("ac")
      BY TokenFacts DEF IsComponentBegin
    <3> QED BY <2>1, <3>1, <3>2, <3>3
  <2> QED BY <1>1, <2>1, SaysTheSame
<1> QED BY <1>9, <1>10

LEMMA EndSaysTheSame ==
    ASSUME NEW doc, NEW within, Rest(doc, within), NEW acks, Says(doc, acks),
           NEW T, T[1] = EndObject, NEW after, Grown(doc, T, 1, after)
    PROVE  /\ Says(after, acks) /\ Len(after) = Len(doc) + 1 /\ Len(doc) \in Nat /\ IsText(after)
           /\ after[Len(after)] = EndObject
           /\ Nesting(after, 1, Len(after)) = Nesting(doc, 1, Len(doc)) - 1
<1>1. /\ Len(doc) \in Nat /\ Len(doc) > 0 /\ Len(after) = Len(doc) + 1
      /\ IsText(doc) /\ IsText(after)
      /\ doc[Len(doc)].kind # "BeginObject" /\ 1 \in Nat
  BY TextLength DEF Rest, Grown
<1>2. after[Len(after)] = EndObject
  BY <1>1 DEF Grown
<1>3. Says(after, acks)
  <2>1. \A k \in 0 .. 1 - 2 : T[k + 1] = BeginObject => T[k + 2] # Name("ac")
    OBVIOUS
  <2> QED BY <1>1, <2>1, SaysTheSame
<1>4. Nesting(after, 1, Len(after)) = Nesting(doc, 1, Len(doc)) - 1
  <2>1. /\ Nesting(after, 1, Len(doc) + 1) = Nesting(after, 1, Len(doc)) + Weight(after[Len(doc) + 1])
        /\ Nesting(after, 1, Len(doc)) \in Int
    BY <1>1, NestingNext
  <2>2. \A i \in 1 .. Len(doc) : after[i] = doc[i]
    BY DEF Grown
  <2>3. Nesting(after, 1, Len(doc)) = Nesting(doc, 1, Len(doc))
    BY <1>1, <2>2, NestingSame
  <2> QED BY <1>1, <1>2, <2>1, <2>3, WeightFacts
<1> QED BY <1>1, <1>2, <1>3, <1>4

LEMMA ComponentEnds ==
    ASSUME NEW doc, NEW within, ~Root(within), Rest(doc, within), NEW acks, Says(doc, acks),
           NEW T, T[1] = EndObject, NEW after, Grown(doc, T, 1, after),
           NEW top, Root(top)
    PROVE  Rest(after, top) /\ Says(after, acks)
<1>1. /\ Says(after, acks) /\ Len(after) = Len(doc) + 1 /\ Len(doc) \in Nat /\ IsText(after)
      /\ after[Len(after)] = EndObject
      /\ Nesting(after, 1, Len(after)) = Nesting(doc, 1, Len(doc)) - 1
  BY EndSaysTheSame
<1>2. Nesting(after, 1, Len(after)) = 1
  BY <1>1 DEF Rest
<1>3. after[Len(after)].kind \notin {"PropertyName", "BeginObject"} /\ Len(after) > 0
  BY <1>1, TokenFacts
<1>4. Follows(after)
  BY DEF Grown
<1> QED BY <1>1, <1>2, <1>3, <1>4 DEF Rest

LEMMA DocumentEnds ==
    ASSUME NEW doc, NEW top, Root(top), Rest(doc, top), NEW acks, Says(doc, acks),
           NEW T, T[1] = EndObject, NEW after, Grown(doc, T, 1, after)
    PROVE  Complete(after) /\ Says(after, acks) /\ IsText(after)
<1>1. /\ Says(after, acks) /\ Len(after) = Len(doc) + 1 /\ Len(doc) \in Nat /\ IsText(after)
      /\ after[Len(after)] = EndObject
      /\ Nesting(after, 1, Len(after)) = Nesting(doc, 1, Len(doc)) - 1
  BY EndSaysTheSame
<1>2. Nesting(after, 1, Len(after)) = 0
  BY <1>1 DEF Rest
<1>3. after # << >>
  BY <1>1
<1>4. ASSUME NEW i \in 1 .. Len(after), after[i].kind = "PropertyName"
      PROVE  i < Len(after) /\ after[i + 1].kind \notin {"PropertyName"} \cup Ends
  <2>1. i # Len(after)
    BY <1>1, <1>4, TokenFacts
  <2>2. i < Len(after)
    BY <1>1, <2>1
  <2> QED BY <1>4, <2>2 DEF Grown, Follows
<1> QED BY <1>1, <1>2, <1>3, <1>4 DEF Complete

\* What a document says, as Acknowledgements reads it.
Ack(p, v) == [component |-> p.component, name |-> p.name, code |-> AckCode,
              version |-> v, value |-> p.value]

Acks(properties, v) == {Ack(p, v) : p \in {q \in properties : IsKnownProperty(q)}}

LEMMA SaysIs ==
    ASSUME NEW doc, Len(doc) \in Nat, NEW properties, NEW v, Says(doc, Acks(properties, v))
    PROVE  Acknowledgements(doc) = Acks(properties, v)
<1> DEFINE acks == Acks(properties, v)
<1>1. \A i \in AckNames(doc) : i \in Nat
  BY DEF AckNames
<1>2. ASSUME NEW i \in AckNames(doc), NEW ack \in acks, IsAck(doc, i, ack)
      PROVE  AcknowledgementAt(doc, i) = ack
  <2>1. i \in Nat
    BY <1>1
  <2>2. ack = [component |-> ack.component, name |-> ack.name, code |-> ack.code,
               version |-> ack.version, value |-> ack.value]
    BY DEF Acks, Ack
  <2> HIDE DEF acks
  <2> QED BY ONLY <1>2, <2>1, <2>2, AckIs
<1>3. Acknowledgements(doc) = {AcknowledgementAt(doc, i) : i \in AckNames(doc)}
  BY DEF Acknowledgements, AckNames
<1>4. /\ \A i \in AckNames(doc) : \E ack \in acks : IsAck(doc, i, ack)
      /\ \A ack \in acks : \E i \in AckNames(doc) : IsAck(doc, i, ack)
  BY DEF Says
<1> HIDE DEF acks
<1>5. Acknowledgements(doc) = acks
  BY <1>2, <1>3, <1>4
<1> QED BY <1>5 DEF acks

LEMMA WholeSubSeq ==
    ASSUME NEW doc, IsText(doc)
    PROVE  SubSeq(doc, 1, Len(doc)) = doc
<1>1. PICK S : doc \in Seq(S)
  BY DEF IsText
<1> QED BY <1>1

\* The device's own property, alone in the document.
Alone(doc, top) == Rest(doc, top) /\ Says(doc, {})

OwnNumber == <<BeginObject, Name("own"), Number(1)>>
OwnList   == <<BeginObject, Name("own"), BeginArray, Number(1), EndArray>>

LEMMA NothingWritten == IsText(<< >>) /\ Follows(<< >>) /\ Len(<< >>) = 0
<1>1. << >> \in Seq({})
  OBVIOUS
<1> QED BY <1>1 DEF IsText, Follows

LEMMA OwnNumberRests ==
    ASSUME NEW doc, Grown(<< >>, OwnNumber, 3, doc), NEW top, Root(top)
    PROVE  Alone(doc, top)
<1>1. /\ IsText(doc) /\ Follows(doc) /\ Len(doc) = 3
      /\ doc[1] = BeginObject /\ doc[2] = Name("own") /\ doc[3] = Number(1)
  BY NothingWritten DEF Grown, OwnNumber
<1>2. Nesting(doc, 1, 3) = 1
  <2>1. /\ Nesting(doc, 1, 0) = 0
        /\ Nesting(doc, 1, 0 + 1) = Nesting(doc, 1, 0) + Weight(doc[0 + 1])
        /\ Nesting(doc, 1, 1 + 1) = Nesting(doc, 1, 1) + Weight(doc[1 + 1])
        /\ Nesting(doc, 1, 2 + 1) = Nesting(doc, 1, 2) + Weight(doc[2 + 1])
    BY NestingNext
  <2> QED BY <1>1, <2>1, WeightFacts
<1>3. ASSUME NEW i \in 2 .. 3
      PROVE  doc[i] # BeginObject
  <2>1. i = 2 \/ i = 3
    OBVIOUS
  <2> QED BY <1>1, <2>1, TokenFacts
<1>4. doc[3].kind \notin {"PropertyName", "BeginObject"}
  BY <1>1, TokenFacts
<1>5. AckNames(doc) = {}
  BY <1>1, <1>3 DEF AckNames
<1> QED BY <1>1, <1>2, <1>4, <1>5 DEF Alone, Rest, Says

LEMMA OwnListRests ==
    ASSUME NEW doc, Grown(<< >>, OwnList, 5, doc), NEW top, Root(top)
    PROVE  Alone(doc, top)
<1>1. /\ IsText(doc) /\ Follows(doc) /\ Len(doc) = 5
      /\ doc[1] = BeginObject /\ doc[2] = Name("own") /\ doc[3] = BeginArray
      /\ doc[4] = Number(1) /\ doc[5] = EndArray
  BY NothingWritten DEF Grown, OwnList
<1>2. Nesting(doc, 1, 5) = 1
  <2>1. /\ Nesting(doc, 1, 0) = 0
        /\ Nesting(doc, 1, 0 + 1) = Nesting(doc, 1, 0) + Weight(doc[0 + 1])
        /\ Nesting(doc, 1, 1 + 1) = Nesting(doc, 1, 1) + Weight(doc[1 + 1])
        /\ Nesting(doc, 1, 2 + 1) = Nesting(doc, 1, 2) + Weight(doc[2 + 1])
        /\ Nesting(doc, 1, 3 + 1) = Nesting(doc, 1, 3) + Weight(doc[3 + 1])
        /\ Nesting(doc, 1, 4 + 1) = Nesting(doc, 1, 4) + Weight(doc[4 + 1])
    BY NestingNext
  <2> QED BY <1>1, <2>1, WeightFacts
<1>3. ASSUME NEW i \in 2 .. 5
      PROVE  doc[i] # BeginObject
  <2>1. i = 2 \/ i = 3 \/ i = 4 \/ i = 5
    OBVIOUS
  <2> QED BY <1>1, <2>1, TokenFacts
<1>4. doc[5].kind \notin {"PropertyName", "BeginObject"}
  BY <1>1, TokenFacts
<1>5. AckNames(doc) = {}
  BY <1>1, <1>3 DEF AckNames
<1> QED BY <1>1, <1>2, <1>4, <1>5 DEF Alone, Rest, Says

(***************************************************************************)
(* The version.  The search for it passes from member to member; it ends   *)
(* on the member of that name, or behind the object.                       *)
(***************************************************************************)
LEMMA VersionSearch ==
    ASSUME NEW doc, Len(doc) \in Nat, NEW b, IsWhole(doc, b)
    PROVE  LET s == SearchFrom(doc, "$version")
           IN  \A at \in Behind(doc, b) :
                 \/ s[at] = 0 \/ s[at] \in VersionNames(doc, b)
                 \/ /\ s[at] \in EndOf(doc, b) .. Len(doc)
                    /\ TokenIsTextEqual(At(doc, s[at]), "$version")
                    /\ \A i \in VersionNames(doc, b) : ~(at <= i)
<1> DEFINE s == SearchFrom(doc, "$version")
           e == EndOf(doc, b)
           G(at) == \/ s[at] = 0 \/ s[at] \in VersionNames(doc, b)
                    \/ /\ s[at] \in e .. Len(doc) /\ TokenIsTextEqual(At(doc, s[at]), "$version")
                       /\ \A i \in VersionNames(doc, b) : ~(at <= i)
           S == {n \in Nat : \A at \in Behind(doc, b) : e - at <= n => G(at)}
<1>1. /\ b \in Nat /\ e \in Nat /\ e <= Len(doc)
      /\ \A i \in MembersOf(doc, b) : i \in Nat /\ i < e /\ doc[i].kind = "PropertyName"
      /\ \A i \in Behind(doc, b) : i \in Nat /\ i <= e
  BY ObjectBounds
<1>2. ASSUME NEW at \in 0 .. Len(doc)
      PROVE  /\ s[at] = Search(s, doc, "$version", at)
             /\ s[at] # 0 => s[at] \in at .. Len(doc) /\ TokenIsTextEqual(At(doc, s[at]), "$version")
  BY SearchStep, SearchIsText
<1> HIDE DEF s
<1>3. G(e)
  <2>1. e \in 0 .. Len(doc)
    BY <1>1
  <2>2. \A i \in VersionNames(doc, b) : ~(e <= i)
    BY <1>1 DEF VersionNames
  <2> HIDE DEF e
  <2> QED BY <1>2, <2>1, <2>2
<1>4. ASSUME NEW i \in MembersOf(doc, b)
      PROVE  \/ s[i] \in VersionNames(doc, b)
             \/ /\ i \notin VersionNames(doc, b) /\ ValueEnd(doc, i) + 1 \in Behind(doc, b)
                /\ s[i] = s[ValueEnd(doc, i) + 1] /\ i < ValueEnd(doc, i)
                /\ ValueEnd(doc, i) \in Nat
                /\ \A j \in MembersOf(doc, b) : ~(i < j /\ j <= ValueEnd(doc, i))
  <2>1. /\ ValueEnd(doc, i) \in Nat /\ i < ValueEnd(doc, i) /\ ValueEnd(doc, i) < e
        /\ ValueEnd(doc, i) + 1 \in Behind(doc, b)
        /\ \A j \in MembersOf(doc, b) : ~(i < j /\ j <= ValueEnd(doc, i))
        /\ SkipChildren(At(doc, i + 1)) = At(doc, ValueEnd(doc, i))
    BY MemberValue
  <2>2. i \in Nat /\ i < e /\ i \in 0 .. Len(doc) /\ i # 0 /\ doc[i].kind = "PropertyName"
    BY <1>1, ObjectBounds
  <2>3. Last(doc, i) = ValueEnd(doc, i) /\ i # Len(doc) /\ ValueEnd(doc, i) # Len(doc)
    <3>1. Moved(At(doc, i)) = At(doc, i + 1)
      BY <1>1, <2>2, MovedAt
    <3> QED BY <1>1, <2>1, <2>2, <3>1 DEF Last, At
  <2>4. TokenIsTextEqual(At(doc, i), "$version") <=> doc[i].text = "$version"
    BY <2>2 DEF TokenIsTextEqual, CurrentToken, At
  <2>5. s[i] = IF doc[i].text = "$version" THEN i ELSE s[ValueEnd(doc, i) + 1]
    BY <1>2, <2>2, <2>3, <2>4 DEF Search
  <2> QED BY <2>1, <2>5 DEF VersionNames
<1>5. 0 \in S
  <2> SUFFICES ASSUME NEW at \in Behind(doc, b), e - at <= 0
               PROVE  G(at)
    OBVIOUS
  <2>1. at = e
    BY <1>1
  <2> HIDE DEF G
  <2> QED BY <1>3, <2>1
<1>6. ASSUME NEW n \in Nat, n \in S
      PROVE  n + 1 \in S
  <2> SUFFICES ASSUME NEW at \in Behind(doc, b), e - at <= n + 1
               PROVE  G(at)
    OBVIOUS
  <2>1. CASE at = e
    <3> HIDE DEF G
    <3> QED BY <1>3, <2>1
  <2>2. CASE s[at] \in VersionNames(doc, b)
    BY <2>2
  <2>3. CASE at # e /\ s[at] \notin VersionNames(doc, b)
    <3> DEFINE next == ValueEnd(doc, at) + 1
    <3>1. at \in MembersOf(doc, b)
      BY <2>3 DEF Behind
    <3>2. /\ at \notin VersionNames(doc, b) /\ next \in Behind(doc, b)
          /\ s[at] = s[next] /\ at < next - 1 /\ next \in Nat
          /\ \A j \in MembersOf(doc, b) : ~(at < j /\ j < next)
      BY <1>1, <1>4, <2>3, <3>1
    <3> HIDE DEF next
    <3>3. e - next <= n
      BY <1>1, <3>1, <3>2
    <3>4. G(next)
      <4> HIDE DEF G
      <4> QED BY <1>6, <3>2, <3>3
    <3>5. \A i \in VersionNames(doc, b) : at <= i => next <= i
      BY <1>1, <3>1, <3>2 DEF VersionNames
    <3> QED BY <3>2, <3>4, <3>5
  <2> QED BY <2>1, <2>2, <2>3
<1>7. ASSUME NEW at \in Behind(doc, b)
      PROVE  G(at)
  <2>1. e - at \in Nat
    BY <1>1
  <2>2. e - at \in S
    <3> HIDE DEF S
    <3> QED BY <1>5, <1>6, <2>1, Induction
  <2> HIDE DEF G
  <2> QED BY <2>1, <2>2
<1> QED BY <1>7 DEF s

\* The number that is found is the version of the message.
LEMMA VersionFound ==
    ASSUME NEW doc, Len(doc) \in Nat, NEW b, IsWhole(doc, b), NEW n, HasVersion(doc, b, n),
           Find(At(doc, b + 1), "$version").result = "Success"
    PROVE  CurrentToken(Find(At(doc, b + 1), "$version").reader).value.number = n
<1> DEFINE s == SearchFrom(doc, "$version")[b + 1]
           e == EndOf(doc, b)
<1>1. /\ b \in Nat /\ e \in Nat /\ e <= Len(doc) /\ b + 1 \in Behind(doc, b)
      /\ doc[e].kind = "EndObject"
      /\ \A i \in MembersOf(doc, b) : i \in Nat /\ b < i
  BY ObjectBounds
<1>2. Find(At(doc, b + 1), "$version") =
        IF s = 0 \/ s = Len(doc) THEN [result |-> "Failed", reader |-> At(doc, b + 1)]
        ELSE [result |-> "Success", reader |-> At(doc, s + 1)]
  BY DEF Find, At
<1>3. \/ s = 0 \/ s \in VersionNames(doc, b)
      \/ /\ s \in e .. Len(doc) /\ TokenIsTextEqual(At(doc, s), "$version")
         /\ \A i \in VersionNames(doc, b) : ~(b + 1 <= i)
  BY <1>1, VersionSearch
<1> HIDE DEF s, e
<1>4. s # 0
  BY <1>2
<1>5. s \in VersionNames(doc, b)
  <2> SUFFICES ASSUME s \notin VersionNames(doc, b)
               PROVE  FALSE
    OBVIOUS
  <2>1. /\ s \in e .. Len(doc) /\ TokenIsTextEqual(At(doc, s), "$version")
        /\ \A i \in VersionNames(doc, b) : ~(b + 1 <= i)
    BY <1>3, <1>4
  <2>2. VersionNames(doc, b) = {}
    BY <1>1, <2>1 DEF VersionNames
  <2>3. doc[s].kind \in {"PropertyName", "String"} /\ doc[s].text = "$version"
    BY <1>4, <2>1 DEF TokenIsTextEqual, CurrentToken, At
  <2>4. s # e
    BY <1>1, <2>3
  <2>5. s \in e + 1 .. Len(doc)
    BY <1>1, <2>1, <2>4
  <2> QED BY <2>2, <2>3, <2>5 DEF HasVersion, e
<1>6. doc[s + 1] = Number(n) /\ s \in Nat
  BY <1>1, <1>5 DEF HasVersion, VersionNames
<1>7. Find(At(doc, b + 1), "$version").reader = At(doc, s + 1)
  BY <1>2
<1>8. CurrentToken(At(doc, s + 1)) = doc[s + 1]
  BY <1>6 DEF CurrentToken, At
<1> QED BY <1>6, <1>7, <1>8, TokenFacts

(***************************************************************************)
(* What the calls of the builder do to a document.                         *)
(***************************************************************************)
LEMMA GrownSame ==
    ASSUME NEW doc, NEW tokens, NEW others, NEW n \in Nat, NEW after, Grown(doc, tokens, n, after),
           \A i \in 1 .. n : others[i] = tokens[i]
    PROVE  Grown(doc, others, n, after)
BY DEF Grown

LEMMA NotGrown ==
    ASSUME NEW doc, NEW tokens, IsText(doc), Follows(doc)
    PROVE  Grown(doc, tokens, 0, doc)
BY TextLength DEF Grown

LEMMA Append1Adds ==
    ASSUME NEW w, NEW token, NEW doc, IsText(doc), NEW tokens, NEW n \in Nat,
           Grown(doc, tokens, n, w.doc), tokens[n + 1] = token,
           Append1(w, token).result = "Success"
    PROVE  Grown(doc, tokens, n + 1, Append1(w, token).writer.doc)
<1>1. IsText(w.doc) /\ Follows(w.doc)
  BY DEF Grown
<1>2. /\ Append1(w, token).writer.doc = Append(w.doc, token)
      /\ Follows(Append(w.doc, token))
  BY <1>1, Append1Grows
<1> QED BY <1>2, GrownNext

\* One token behind a document.
LEMMA Append1Behind ==
    ASSUME NEW w, NEW token, IsText(w.doc), Follows(w.doc), Append1(w, token).result = "Success"
    PROVE  Grown(w.doc, <<token>>, 1, Append1(w, token).writer.doc)
<1>1. Grown(w.doc, <<token>>, 0, w.doc) /\ 0 \in Nat /\ <<token>>[0 + 1] = token /\ 0 + 1 = 1
  BY NotGrown
<1> QED BY <1>1, Append1Adds

Short(name, code, v) ==
    <<Name(name), BeginObject, Name("ac"), Number(code), Name("av"), Number(v)>>
      \o << >> \o <<Name("value")>>

Long(name, code, v, description) ==
    <<Name(name), BeginObject, Name("ac"), Number(code), Name("av"), Number(v)>>
      \o <<Name("ad"), String(description)>> \o <<Name("value")>>

LEMMA ShortIs ==
    ASSUME NEW name, NEW code, NEW v
    PROVE  LET T == Short(name, code, v)
           IN  /\ Len(T) = 7
               /\ T[1] = Name(name) /\ T[2] = BeginObject /\ T[3] = Name("ac")
               /\ T[4] = Number(code) /\ T[5] = Name("av") /\ T[6] = Number(v)
               /\ T[7] = Name("value")
BY DEF Short

LEMMA LongIs ==
    ASSUME NEW name, NEW code, NEW v, NEW description
    PROVE  LET T == Long(name, code, v, description)
           IN  /\ Len(T) = 9
               /\ T[1] = Name(name) /\ T[2] = BeginObject /\ T[3] = Name("ac")
               /\ T[4] = Number(code) /\ T[5] = Name("av") /\ T[6] = Number(v)
               /\ T[7] = Name("ad") /\ T[8] = String(description) /\ T[9] = Name("value")
BY DEF Long

LEMMA ResponseCalls ==
    ASSUME NEW w, NEW name, NEW code, NEW v, NEW description
    PROVE  \/ BuilderBeginResponseStatus(w, name, code, v, description)
                = AppendAll(w, Short(name, code, v))
           \/ BuilderBeginResponseStatus(w, name, code, v, description)
                = AppendAll(w, Long(name, code, v, description))
<1>1. CASE description = ""
  BY <1>1, Zenon DEF BuilderBeginResponseStatus, Short
<1>2. CASE description # ""
  BY <1>2, Zenon DEF BuilderBeginResponseStatus, Long
<1> QED BY <1>1, <1>2, Zenon

\* An acknowledgement has been begun, and its value is next.
LEMMA ResponseBegins ==
    ASSUME NEW w, IsText(w.doc), Follows(w.doc), NEW ack, NEW description,
           BuilderBeginResponseStatus(w, ack.name, ack.code, ack.version, description).result
             = "Success"
    PROVE  \E T : \E n \in Nat :
             /\ IsResponse(T, n, ack)
             /\ Grown(w.doc, T, n - 2, BuilderBeginResponseStatus(w, ack.name, ack.code,
                                         ack.version, description).writer.doc)
<1> DEFINE made == BuilderBeginResponseStatus(w, ack.name, ack.code, ack.version, description)
           short == Short(ack.name, ack.code, ack.version)
           long == Long(ack.name, ack.code, ack.version, description)
<1>1. ASSUME made = AppendAll(w, short)
      PROVE  \E T : \E n \in Nat : IsResponse(T, n, ack) /\ Grown(w.doc, T, n - 2, made.writer.doc)
  <2> DEFINE T == <<Name(ack.name), BeginObject, Name("ac"), Number(ack.code), Name("av"),
                    Number(ack.version), Name("value"), ack.value, EndObject>>
  <2>1. /\ Len(short) = 7
        /\ short[1] = Name(ack.name) /\ short[2] = BeginObject /\ short[3] = Name("ac")
        /\ short[4] = Number(ack.code) /\ short[5] = Name("av")
        /\ short[6] = Number(ack.version) /\ short[7] = Name("value")
    BY ShortIs
  <2>2. made.result = "Success"
    OBVIOUS
  <2> HIDE DEF short, made
  <2>3. Grown(w.doc, short, Len(short), AppendAll(w, short).writer.doc)
    <3>1. Len(short) \in Nat /\ AppendAll(w, short).result = "Success"
      BY <1>1, <2>1, <2>2
    <3> QED BY <3>1, AppendAllGrows
  <2>4. Grown(w.doc, short, 7, made.writer.doc)
    BY ONLY <1>1, <2>1, <2>3
  <2>5. /\ T[1] = Name(ack.name) /\ T[2] = BeginObject /\ T[3] = Name("ac")
        /\ T[4] = Number(ack.code) /\ T[5] = Name("av") /\ T[6] = Number(ack.version)
        /\ T[7] = Name("value") /\ T[8] = ack.value /\ T[9] = EndObject
    OBVIOUS
  <2> HIDE DEF T
  <2>6. ASSUME NEW i \in 1 .. 7
        PROVE  T[i] = short[i]
    <3>1. i = 1 \/ i = 2 \/ i = 3 \/ i = 4 \/ i = 5 \/ i = 6 \/ i = 7
      OBVIOUS
    <3> QED BY <2>1, <2>5, <3>1
  <2>7. Grown(w.doc, T, 7, made.writer.doc)
    BY <2>4, <2>6, GrownSame
  <2>8. IsResponse(T, 9, ack)
    BY <2>5 DEF IsResponse
  <2>9. 9 \in Nat /\ 9 - 2 = 7
    OBVIOUS
  <2> QED BY <2>7, <2>8, <2>9
<1>2. ASSUME made = AppendAll(w, long)
      PROVE  \E T : \E n \in Nat : IsResponse(T, n, ack) /\ Grown(w.doc, T, n - 2, made.writer.doc)
  <2> DEFINE T == <<Name(ack.name), BeginObject, Name("ac"), Number(ack.code), Name("av"),
                    Number(ack.version), Name("ad"), String(description), Name("value"),
                    ack.value, EndObject>>
  <2>1. /\ Len(long) = 9
        /\ long[1] = Name(ack.name) /\ long[2] = BeginObject /\ long[3] = Name("ac")
        /\ long[4] = Number(ack.code) /\ long[5] = Name("av") /\ long[6] = Number(ack.version)
        /\ long[7] = Name("ad") /\ long[8] = String(description) /\ long[9] = Name("value")
    BY LongIs
  <2>2. made.result = "Success"
    OBVIOUS
  <2> HIDE DEF long, made
  <2>3. Grown(w.doc, long, Len(long), AppendAll(w, long).writer.doc)
    <3>1. Len(long) \in Nat /\ AppendAll(w, long).result = "Success"
      BY <1>2, <2>1, <2>2
    <3> QED BY <3>1, AppendAllGrows
  <2>4. Grown(w.doc, long, 9, made.writer.doc)
    BY ONLY <1>2, <2>1, <2>3
  <2>5. /\ T[1] = Name(ack.name) /\ T[2] = BeginObject /\ T[3] = Name("ac")
        /\ T[4] = Number(ack.code) /\ T[5] = Name("av") /\ T[6] = Number(ack.version)
        /\ T[7] = Name("ad") /\ T[8] = String(description) /\ T[9] = Name("value")
        /\ T[10] = ack.value /\ T[11] = EndObject
    OBVIOUS
  <2> HIDE DEF T
  <2>6. ASSUME NEW i \in 1 .. 9
        PROVE  T[i] = long[i]
    <3>1. i = 1 \/ i = 2 \/ i = 3 \/ i = 4 \/ i = 5 \/ i = 6 \/ i = 7 \/ i = 8 \/ i = 9
      OBVIOUS
    <3> QED BY <2>1, <2>5, <3>1
  <2>7. Grown(w.doc, T, 9, made.writer.doc)
    BY <2>4, <2>6, GrownSame
  <2>8. IsResponse(T, 11, ack)
    BY <2>5, TokenFacts DEF IsResponse
  <2>9. 11 \in Nat /\ 11 - 2 = 9
    OBVIOUS
  <2> QED BY <2>7, <2>8, <2>9
<1>3. made = AppendAll(w, short) \/ made = AppendAll(w, long)
  BY ResponseCalls
<1> QED BY <1>1, <1>2, <1>3

\* A component has been begun.
LEMMA ComponentBegins ==
    ASSUME NEW w, IsText(w.doc), Follows(w.doc), NEW name,
           BuilderBeginComponent(w, name).result = "Success"
    PROVE  \E T : IsComponentBegin(T, name) /\ Grown(w.doc, T, 4, BuilderBeginComponent(w, name).writer.doc)
<1> DEFINE T == <<Name(name), BeginObject, Name("__t"), String("c")>>
<1>1. Len(T) = 4 /\ IsComponentBegin(T, name)
  BY DEF IsComponentBegin
<1>2. BuilderBeginComponent(w, name) = AppendAll(w, T)
  BY DEF BuilderBeginComponent
<1> HIDE DEF T
<1>3. Grown(w.doc, T, Len(T), AppendAll(w, T).writer.doc)
  <2>1. Len(T) \in Nat /\ AppendAll(w, T).result = "Success"
    BY <1>1, <1>2
  <2> QED BY <2>1, AppendAllGrows
<1>4. Grown(w.doc, T, 4, BuilderBeginComponent(w, name).writer.doc)
  BY ONLY <1>1, <1>2, <1>3
<1> QED BY <1>1, <1>4

(***************************************************************************)
(* The document in the making.  `all' are the acknowledgements of what has *)
(* been read so far, `ack' the one being made.                             *)
(***************************************************************************)
PropertyOf(r, within) ==
    [component |-> within, name |-> r.doc[r.at - 1].text, value |-> CurrentToken(r)]

\* Between two acknowledgements.
Resting(doc, within, s, v, got) ==
    /\ Rest(doc, within)
    /\ s = FromService => Says(doc, Acks(got, v))
    /\ s # FromService => Root(within) /\ Says(doc, {})

\* Before the call that begins one.
Adding(doc, within, ack, all) ==
    \E acks : all = acks \cup {ack} /\ Rest(doc, within) /\ Says(doc, acks)

\* In one that has `left' tokens to come.
Responding(doc, within, ack, all, left) ==
    /\ ack.component = within
    /\ \E d, T : \E n \in Nat : /\ Adding(d, within, ack, all)
                                /\ IsResponse(T, n, ack) /\ Grown(d, T, n - left, doc)

Idle       == {"Disconnected", "Connected"}
AtRest     == {"Scanning", "AtName", "PastValue", "Closing"}
Responses  == {"Acknowledge", "AppendValue", "EndResponse"}

\* The document of what has been read.
DocumentInv(ph, doc, within, s, v, r, c, got) ==
    LET ack == Ack(PropertyOf(r, c), v)
        all == Acks(got, v)
    IN  /\ ph \in BeforeLoop => Root(within)
        /\ ph = "Begun" => Grown(<< >>, OwnList, 1, doc)
        /\ ph = "ListNamed" => Grown(<< >>, OwnList, 2, doc)
        /\ ph = "InList" => Grown(<< >>, OwnList, 3, doc)
        /\ ph = "ListFull" => Grown(<< >>, OwnList, 4, doc)
        /\ ph \in AtRest => Resting(doc, within, s, v, got)
        /\ ph \in Responses => s = FromService /\ IsPlain(ack.value)
        /\ ph = "Acknowledge" => Adding(doc, within, ack, all)
        /\ ph = "AppendValue" => Responding(doc, within, ack, all, 2)
        /\ ph = "EndResponse" => Responding(doc, within, ack, all, 1)
        /\ ph = "Written" => Complete(doc) /\ IsText(doc) /\ Says(doc, all)

PublishedInv ==
    published # << >> =>
      /\ phase = "Connected" /\ Complete(published)
      /\ Acknowledgements(published) = Acks(packet.properties[FromService], packet.version)

\* The inductive invariant: wherever the application is, the document holds the
\* acknowledgements of what has been read, and a call that fails sends none.
WriteInv ==
    /\ phase \notin Idle \cup {"Received"} => version = packet.version
    /\ DocumentInv(phase, writer.doc, open, scan, version, reader, component, read)
    /\ PublishedInv

LEMMA InitWrites == Init => WriteInv
<1> SUFFICES ASSUME Init
             PROVE  WriteInv
  OBVIOUS
<1>1. phase = "Disconnected" /\ published = << >>
  BY Zenon DEF Init
<1> QED BY <1>1 DEF WriteInv, DocumentInv, PublishedInv, Idle, AtRest, Responses, BeforeLoop

\* The application gives up, or waits.
LEMMA IdleWrites ==
    ASSUME PublishedInv', phase' \in Idle
    PROVE  WriteInv'
BY DEF WriteInv, DocumentInv, Idle, AtRest, Responses, BeforeLoop

LEMMA NonePublished ==
    ASSUME PublishedInv, phase # "Connected", published' = published
    PROVE  published = << >> /\ PublishedInv'
BY DEF PublishedInv

\* A call that writes.
LEMMA WrittenCases ==
    ASSUME WriteInv, phase \notin Idle \cup {"Received"},
           NEW outcome, NEW next, Written(outcome, next), published' = published,
           outcome.result = "Success" =>
             /\ next \notin Idle \cup {"Received"}
             /\ DocumentInv(next, outcome.writer.doc, open', scan', version, reader', component', read')
    PROVE  WriteInv'
<1>1. PublishedInv'
  BY NonePublished DEF WriteInv, Idle
<1>2. version' = version /\ packet' = packet /\ writer' = outcome.writer
  BY DEF Written
<1>3. CASE outcome.result = "Success"
  <2>1. phase' = next
    BY <1>3 DEF Written, Goto
  <2> QED BY <1>1, <1>2, <1>3, <2>1 DEF WriteInv
<1>4. CASE outcome.result # "Success"
  <2>1. phase' \in Idle
    BY <1>4 DEF Written, Goto, Idle
  <2> QED BY <1>1, <2>1, IdleWrites
<1> QED BY <1>3, <1>4

\* The message and its version.
LEMMA ReceiveWrites == Receive => WriteInv'
<1> SUFFICES ASSUME Receive
             PROVE  WriteInv'
  OBVIOUS
<1>1. published' = << >> /\ open' = "" /\ phase' \in {"Received", "Connected"}
  BY Zenon DEF Receive, Goto
<1>2. Root(open')
  BY <1>1, Zenon DEF Root
<1>3. published' = << >> /\ phase' \in {"Received", "Connected"}
  BY <1>1, Zenon
<1> QED BY ONLY <1>2, <1>3 DEF WriteInv, DocumentInv, PublishedInv, Idle, AtRest, Responses

LEMMA ReadVersionWrites == ReadInv /\ WriteInv /\ ReadVersion => WriteInv'
<1> SUFFICES ASSUME ReadInv, WriteInv, ReadVersion
             PROVE  WriteInv'
  OBVIOUS
<1> DEFINE doc == packet.doc  b == BeginOf(packet)
           answer == GetPropertiesVersion(reader, packet.type)
<1>1. /\ phase = "Received" /\ packet \in Packets /\ doc # << >>
      /\ Fresh(doc, reader, component, read)
  BY DEF ReadInv, ReadVersion, HasMessage, BeforeLoop
<1>2. UNCHANGED <<packet, component, scan, read, writer, open, published>>
  BY DEF ReadVersion, writingVars
<1>3. reader = At(doc, 0)
  BY <1>1, Zenon DEF Fresh, Reader, At
<1>4. PublishedInv'
  BY <1>1, <1>2, NonePublished DEF WriteInv
<1>5. ASSUME answer.result = "Success"
      PROVE  WriteInv'
  <2>1. phase' = "Versioned" /\ version' = CurrentToken(answer.reader).value.number
    BY <1>5 DEF ReadVersion, Goto
  <2> DEFINE begins == SectionBegins(doc, packet.type, FromService)
             found == Find(At(doc, b + 1), "$version")
  <2>2. begins # {}
    BY <1>3, <1>5 DEF GetPropertiesVersion, Answer, At
  <2>3. b \in begins /\ Len(doc) \in Nat /\ HoldsProperties(doc, b)
        /\ HasVersion(doc, b, packet.version)
    <3>1. b \in begins
      BY <2>2 DEF BeginOf
    <3> QED BY <1>1, <3>1, PacketsAssumption
  <2>4. answer = VersionIn(reader, found)
    <3>1. [reader EXCEPT !.at = 1 + b] = At(doc, 1 + b) /\ reader.doc = doc /\ reader.at = 0
      BY <1>3 DEF At
    <3>2. 1 + b = b + 1
      BY <2>3, ObjectBounds DEF HoldsProperties
    <3> QED BY <2>2, <3>1, <3>2 DEF GetPropertiesVersion, BeginOf
  <2> HIDE DEF answer, found, begins, b
  <2>5. found.result = "Success" /\ answer.reader = found.reader
    BY <1>5, <2>4 DEF VersionIn, Answer
  <2>6. CurrentToken(found.reader).value.number = packet.version
    BY <2>3, <2>5, VersionFound DEF found, HoldsProperties
  <2>7. version' = packet.version
    BY <2>1, <2>5, <2>6
  <2>8. Root(open')
    BY <1>1, <1>2 DEF WriteInv, DocumentInv, BeforeLoop
  <2> QED BY <1>2, <1>4, <2>1, <2>7, <2>8 DEF WriteInv, DocumentInv, AtRest, Responses
<1>6. ASSUME answer.result # "Success"
      PROVE  WriteInv'
  <2>1. phase' \in Idle
    BY <1>6 DEF ReadVersion, Goto, Idle
  <2> QED BY <1>4, <2>1, IdleWrites
<1> QED BY <1>5, <1>6

\* The device's own property.
LEMMA NoAcks == ASSUME NEW v PROVE Acks({}, v) = {}
BY DEF Acks

LEMMA AloneRests ==
    ASSUME NEW doc, NEW within, Root(within), Alone(doc, within), NEW s, NEW v
    PROVE  Resting(doc, within, s, v, {})
BY NoAcks DEF Alone, Resting

LEMMA OwnNumberGrows ==
    ASSUME NEW w, Grown(<< >>, OwnList, 1, w.doc),
           AppendPropertyWithValue(w, "own", Number(1)).result = "Success"
    PROVE  Grown(<< >>, OwnNumber, 3, AppendPropertyWithValue(w, "own", Number(1)).writer.doc)
<1> DEFINE T == <<Name("own"), Number(1)>>
           after == AppendPropertyWithValue(w, "own", Number(1)).writer.doc
<1>1. AppendPropertyWithValue(w, "own", Number(1)) = AppendAll(w, T)
  BY DEF AppendPropertyWithValue
<1>2. IsText(w.doc) /\ Follows(w.doc) /\ Len(w.doc) = 1 /\ w.doc[1] = BeginObject
  BY NothingWritten DEF Grown, OwnList
<1>3. Len(T) = 2 /\ T[1] = Name("own") /\ T[2] = Number(1)
  OBVIOUS
<1> HIDE DEF T
<1>4. Grown(w.doc, T, Len(T), AppendAll(w, T).writer.doc)
  <2>1. Len(T) \in Nat /\ AppendAll(w, T).result = "Success"
    BY <1>1, <1>3
  <2> QED BY <1>2, <2>1, AppendAllGrows
<1>5. Grown(w.doc, T, 2, after)
  BY <1>1, <1>3, <1>4
<1> HIDE DEF after
<1>6. /\ IsText(after) /\ Follows(after) /\ Len(after) = 3
      /\ after[1] = BeginObject /\ after[2] = Name("own") /\ after[3] = Number(1)
  <2>1. /\ IsText(after) /\ Follows(after) /\ Len(after) = 1 + 2 /\ after[1] = w.doc[1]
        /\ after[1 + 1] = T[1] /\ after[1 + 2] = T[2]
    BY <1>2, <1>5 DEF Grown
  <2> QED BY <1>2, <1>3, <2>1
<1>7. OwnNumber[1] = BeginObject /\ OwnNumber[2] = Name("own") /\ OwnNumber[3] = Number(1)
  BY DEF OwnNumber
<1>8. Len(<< >>) = 0
  OBVIOUS
<1>9. ASSUME NEW i \in 1 .. 3
      PROVE  after[0 + i] = OwnNumber[i]
  <2>1. i = 1 \/ i = 2 \/ i = 3
    OBVIOUS
  <2> QED BY <1>6, <1>7, <2>1
<1>10. Grown(<< >>, OwnNumber, 3, after)
  BY <1>6, <1>8, <1>9 DEF Grown
<1> QED BY <1>10 DEF after

\* The list, call by call.
LEMMA OwnListGrows ==
    ASSUME NEW w, NEW n \in 0 .. 4, Grown(<< >>, OwnList, n, w.doc), NEW token,
           token = OwnList[n + 1], Append1(w, token).result = "Success"
    PROVE  Grown(<< >>, OwnList, n + 1, Append1(w, token).writer.doc)
BY NothingWritten, Append1Adds

LEMMA OwnListTokens ==
    /\ OwnList[1] = BeginObject /\ OwnList[2] = Name("own") /\ OwnList[3] = BeginArray
    /\ OwnList[4] = Number(1) /\ OwnList[5] = EndArray
BY DEF OwnList

LEMMA BeginDocumentWrites == ReadInv /\ WriteInv /\ BeginDocument => WriteInv'
<1> SUFFICES ASSUME ReadInv, WriteInv, BeginDocument
             PROVE  WriteInv'
  OBVIOUS
<1>1. /\ phase = "Versioned"
      /\ UNCHANGED <<open, reader, component, scan, read, published>>
  BY DEF BeginDocument, readingVars
<1>2. PICK room \in Rooms : Written(AppendBeginObject(WriterInit(room)), "Begun")
  BY DEF BeginDocument
<1> DEFINE outcome == AppendBeginObject(WriterInit(room))
<1>3. Root(open')
  BY <1>1 DEF WriteInv, DocumentInv, BeforeLoop
<1>4. ASSUME outcome.result = "Success"
      PROVE  Grown(<< >>, OwnList, 1, outcome.writer.doc)
  <2>1. WriterInit(room).doc = << >> /\ 0 + 1 = 1 /\ 0 \in 0 .. 4
    BY DEF WriterInit
  <2>2. Grown(<< >>, OwnList, 0, WriterInit(room).doc)
    BY <2>1, NothingWritten, NotGrown
  <2>3. BeginObject = OwnList[0 + 1] /\ Append1(WriterInit(room), BeginObject).result = "Success"
    BY <1>4, <2>1, OwnListTokens DEF AppendBeginObject
  <2>4. Grown(<< >>, OwnList, 0 + 1, Append1(WriterInit(room), BeginObject).writer.doc)
    BY <2>1, <2>2, <2>3, OwnListGrows
  <2> QED BY <2>1, <2>4 DEF AppendBeginObject
<1> HIDE DEF outcome
<1>5. outcome.result = "Success" =>
        DocumentInv("Begun", outcome.writer.doc, open', scan', version, reader', component', read')
  BY <1>3, <1>4 DEF DocumentInv, AtRest, Responses
<1>6. Written(outcome, "Begun") /\ version' = version /\ phase \notin Idle \cup {"Received"}
  BY <1>1, <1>2 DEF Written, Idle, outcome
<1> QED BY <1>1, <1>5, <1>6, WrittenCases DEF Idle

LEMMA AppendOwnWrites == ReadInv /\ WriteInv /\ AppendOwn => WriteInv'
<1> SUFFICES ASSUME ReadInv, WriteInv, AppendOwn
             PROVE  WriteInv'
  OBVIOUS
<1> DEFINE outcome == AppendPropertyWithValue(writer, "own", Number(1))
<1>1. /\ phase = "Begun" /\ Written(outcome, "Scanning")
      /\ UNCHANGED <<open, reader, component, scan, read, published>>
  BY DEF AppendOwn, readingVars
<1>2. Root(open) /\ Grown(<< >>, OwnList, 1, writer.doc)
  BY <1>1 DEF WriteInv, DocumentInv, BeforeLoop
<1>3. read = {}
  <2>1. Fresh(packet.doc, reader, component, read)
    BY <1>1 DEF ReadInv, BeforeLoop
  <2> QED BY <2>1, Zenon DEF Fresh
<1>4. ASSUME outcome.result = "Success"
      PROVE  Resting(outcome.writer.doc, open, scan, version, {})
  BY <1>2, <1>4, OwnNumberGrows, OwnNumberRests, AloneRests
<1> HIDE DEF outcome
<1>5. outcome.result = "Success" =>
        DocumentInv("Scanning", outcome.writer.doc, open', scan', version, reader', component', read')
  BY <1>1, <1>3, <1>4 DEF DocumentInv, AtRest, Responses, BeforeLoop
<1>6. version' = version /\ phase \notin Idle \cup {"Received"}
  BY <1>1 DEF Written, Idle
<1> QED BY <1>1, <1>5, <1>6, WrittenCases DEF Idle

LEMMA AppendOwnListWrites == ReadInv /\ WriteInv /\ AppendOwnList => WriteInv'
<1> SUFFICES ASSUME ReadInv, WriteInv, AppendOwnList
             PROVE  WriteInv'
  OBVIOUS
<1>1. UNCHANGED <<open, reader, component, scan, read, published>>
  BY DEF AppendOwnList, readingVars
<1>2. phase \in {"Begun", "ListNamed", "InList", "ListFull"}
  BY DEF AppendOwnList
<1>3. /\ phase \notin Idle \cup {"Received"} /\ Root(open')
      /\ Fresh(packet.doc, reader, component, read)
  BY <1>1, <1>2 DEF WriteInv, ReadInv, DocumentInv, BeforeLoop, Idle
<1>4. read = {}
  BY <1>3, Zenon DEF Fresh
<1>5. CASE phase = "Begun"
  <2>1. Written(Append1(writer, Name("own")), "ListNamed") /\ version' = version
    BY <1>5 DEF AppendOwnList, AppendPropertyName, Written
  <2>2. Grown(<< >>, OwnList, 1, writer.doc) /\ Name("own") = OwnList[1 + 1]
    BY <1>5, OwnListTokens DEF WriteInv, DocumentInv
  <2> DEFINE outcome == Append1(writer, Name("own"))
  <2>3. outcome.result = "Success" => Grown(<< >>, OwnList, 1 + 1, outcome.writer.doc)
    BY <2>2, OwnListGrows
  <2> HIDE DEF outcome
  <2>4. outcome.result = "Success" =>
          DocumentInv("ListNamed", outcome.writer.doc, open', scan', version, reader', component', read')
    BY <1>3, <2>3 DEF DocumentInv, AtRest, Responses
  <2> QED BY <1>1, <1>3, <2>1, <2>4, WrittenCases DEF Idle, outcome
<1>6. CASE phase = "ListNamed"
  <2>1. Written(Append1(writer, BeginArray), "InList") /\ version' = version
    BY <1>6 DEF AppendOwnList, AppendBeginArray, Written
  <2>2. Grown(<< >>, OwnList, 2, writer.doc) /\ BeginArray = OwnList[2 + 1]
    BY <1>6, OwnListTokens DEF WriteInv, DocumentInv
  <2> DEFINE outcome == Append1(writer, BeginArray)
  <2>3. outcome.result = "Success" => Grown(<< >>, OwnList, 2 + 1, outcome.writer.doc)
    BY <2>2, OwnListGrows
  <2> HIDE DEF outcome
  <2>4. outcome.result = "Success" =>
          DocumentInv("InList", outcome.writer.doc, open', scan', version, reader', component', read')
    BY <1>3, <2>3 DEF DocumentInv, AtRest, Responses
  <2> QED BY <1>1, <1>3, <2>1, <2>4, WrittenCases DEF Idle, outcome
<1>7. CASE phase = "InList"
  <2>1. Written(Append1(writer, Number(1)), "ListFull") /\ version' = version
    BY <1>7 DEF AppendOwnList, AppendValue, Written
  <2>2. Grown(<< >>, OwnList, 3, writer.doc) /\ Number(1) = OwnList[3 + 1]
    BY <1>7, OwnListTokens DEF WriteInv, DocumentInv
  <2> DEFINE outcome == Append1(writer, Number(1))
  <2>3. outcome.result = "Success" => Grown(<< >>, OwnList, 3 + 1, outcome.writer.doc)
    BY <2>2, OwnListGrows
  <2> HIDE DEF outcome
  <2>4. outcome.result = "Success" =>
          DocumentInv("ListFull", outcome.writer.doc, open', scan', version, reader', component', read')
    BY <1>3, <2>3 DEF DocumentInv, AtRest, Responses
  <2> QED BY <1>1, <1>3, <2>1, <2>4, WrittenCases DEF Idle, outcome
<1>8. CASE phase = "ListFull"
  <2>1. Written(Append1(writer, EndArray), "Scanning") /\ version' = version
    BY <1>8 DEF AppendOwnList, AppendEndArray, Written
  <2>2. Grown(<< >>, OwnList, 4, writer.doc) /\ EndArray = OwnList[4 + 1]
    BY <1>8, OwnListTokens DEF WriteInv, DocumentInv
  <2> DEFINE outcome == Append1(writer, EndArray)
  <2>3. outcome.result = "Success" => Grown(<< >>, OwnList, 4 + 1, outcome.writer.doc)
    BY <2>2, OwnListGrows
  <2> HIDE DEF outcome
  <2>4. outcome.result = "Success" => Resting(outcome.writer.doc, open, scan, version, {})
    BY <1>1, <1>3, <2>3, OwnListRests, AloneRests
  <2>5. outcome.result = "Success" =>
          DocumentInv("Scanning", outcome.writer.doc, open', scan', version, reader', component', read')
    BY <1>1, <1>4, <2>4 DEF DocumentInv, AtRest, Responses, BeforeLoop
  <2> QED BY <1>1, <1>3, <2>1, <2>5, WrittenCases DEF Idle, outcome
<1> QED BY <1>2, <1>5, <1>6, <1>7, <1>8

\* The loop over the properties.
LEMMA NextWrites == ReadInv /\ WriteInv /\ NextComponentProperty => WriteInv'
<1> SUFFICES ASSUME ReadInv, WriteInv, NextComponentProperty
             PROVE  WriteInv'
  OBVIOUS
<1>1. phase = "Scanning" /\ UNCHANGED <<packet, version, writer, open, published>>
  BY Zenon DEF NextComponentProperty, writingVars
<1>2. PublishedInv' /\ version' = packet'.version
  BY <1>1, NonePublished DEF WriteInv, Idle
<1>3. Resting(writer.doc, open, scan, version, read) /\ scan \in {FromDevice, FromService}
  BY <1>1 DEF WriteInv, ReadInv, DocumentInv, AtRest
<1>4. CASE NextOf.result = "EndOfProperties" /\ scan = FromDevice
  <2>1. Fresh(packet.doc, reader', component', read') /\ scan' = FromService /\ phase' = "Scanning"
    BY <1>4, NextCases
  <2>2. read' = {}
    BY <2>1, Zenon DEF Fresh
  <2>3. Resting(writer.doc, open, FromService, version, {})
    BY <1>3, <1>4, NoAcks DEF Resting, FromDevice, FromService
  <2> QED BY <1>1, <1>2, <2>1, <2>2, <2>3
        DEF WriteInv, DocumentInv, AtRest, Responses, BeforeLoop
<1>5. CASE ~(NextOf.result = "EndOfProperties" /\ scan = FromDevice)
  <2>1. /\ scan' = scan /\ read' = read
        /\ phase' \in {"AtName", "Closing", "Connected"}
    <3>1. NextOf.result \in {"Success", "EndOfProperties", "Failed"}
      BY ResultOfNext DEF NextOf
    <3> QED BY <1>5, <3>1, NextCases
  <2>2. CASE phase' = "Connected"
    BY <1>2, <2>2, IdleWrites DEF Idle
  <2>3. CASE phase' \in {"AtName", "Closing"}
    BY <1>1, <1>2, <1>3, <2>1, <2>3 DEF WriteInv, DocumentInv, AtRest, Responses, BeforeLoop
  <2> QED BY <2>1, <2>2, <2>3
<1> QED BY <1>4, <1>5

\* Of the properties it comes to, the application acknowledges those it knows.
LEMMA KnownIs ==
    ASSUME CurrentToken(reader).kind = "PropertyName",
           NEW value
    PROVE  IsKnown <=> IsKnownProperty([component |-> component,
                                        name |-> CurrentToken(reader).text, value |-> value])
<1> DEFINE key == <<component, CurrentToken(reader).text>>
<1>1. IsKnownProperty([component |-> component, name |-> CurrentToken(reader).text,
                       value |-> value]) <=> key \in Known
  BY DEF IsKnownProperty
<1>2. ASSUME IsKnown
      PROVE  key \in Known
  <2>1. PICK k \in Known : k[1] = component /\ TokenIsTextEqual(reader, k[2])
    BY <1>2 DEF IsKnown
  <2>2. k = <<k[1], k[2]>>
    BY SessionAssumption
  <2>3. k[2] = CurrentToken(reader).text
    BY <2>1 DEF TokenIsTextEqual
  <2> QED BY <2>1, <2>2, <2>3
<1>3. ASSUME key \in Known
      PROVE  IsKnown
  <2>1. key[1] = component /\ key[2] = CurrentToken(reader).text
    OBVIOUS
  <2>2. TokenIsTextEqual(reader, key[2])
    BY <2>1 DEF TokenIsTextEqual
  <2> HIDE DEF key
  <2> QED BY <1>3, <2>1, <2>2 DEF IsKnown
<1> QED BY <1>1, <1>2, <1>3

LEMMA OneMoreAck ==
    ASSUME NEW got, NEW v, NEW p
    PROVE  /\ IsKnownProperty(p)  => Acks(got \cup {p}, v) = Acks(got, v) \cup {Ack(p, v)}
           /\ ~IsKnownProperty(p) => Acks(got \cup {p}, v) = Acks(got, v)
BY DEF Acks

\* The value of a property that the device knows.
LEMMA KnownIsPlain ==
    ASSUME NEW m \in Packets, m.doc # << >>,
           SectionBegins(m.doc, m.type, FromService) # {},
           NEW r, NEW within, NEW got, OnName(m.doc, BeginOf(m), r, within, got)
    PROVE  LET p == [component |-> within, name |-> CurrentToken(r).text,
                     value |-> CurrentToken(Moved(r))]
           IN  /\ CurrentToken(r).kind = "PropertyName"
               /\ PropertyOf(Moved(r), within) = p
               /\ IsKnownProperty(p) => IsPlain(p.value)
<1> DEFINE doc == m.doc  b == BeginOf(m)
           p == [component |-> within, name |-> CurrentToken(r).text,
                 value |-> CurrentToken(Moved(r))]
<1>1. /\ Len(doc) \in Nat /\ HoldsProperties(doc, b)
      /\ m.properties[FromService] = PropertiesOf(doc, b)
  BY MessageIsWhole
<1>2. PICK i \in PropertyNames(doc, b) : r = At(doc, i) /\ within = ComponentAt(doc, b, i)
  BY DEF OnName
<1>3. i \in Nat /\ i < EndOf(doc, b) /\ doc[i].kind = "PropertyName" /\ i # 0
  <2>1. /\ i \in Nat /\ b < i /\ i < EndOf(doc, b) /\ doc[i].kind = "PropertyName"
    BY <1>1, PropertyValue
  <2>2. b \in Nat
    BY <1>1, ObjectBounds DEF HoldsProperties
  <2> QED BY <2>1, <2>2
<1>4. EndOf(doc, b) \in Nat /\ EndOf(doc, b) <= Len(doc)
  BY <1>1, ObjectBounds DEF HoldsProperties
<1>5. Moved(r) = At(doc, i + 1)
  BY <1>1, <1>2, <1>3, <1>4, MovedAt
<1>6. CurrentToken(r) = doc[i] /\ CurrentToken(Moved(r)) = doc[i + 1]
  BY <1>2, <1>3, <1>5 DEF CurrentToken, At
<1>7. PropertyOf(Moved(r), within) = p
  <2>1. Moved(r).doc[Moved(r).at - 1] = doc[i]
    BY <1>3, <1>5 DEF At
  <2> QED BY <1>6, <2>1 DEF PropertyOf
<1>8. p = PropertyAt(doc, b, i)
  BY <1>2, <1>6 DEF PropertyAt
<1>9. p \in m.properties[FromService]
  <2>1. PropertyAt(doc, b, i) \in ReadBefore(doc, b, EndOf(doc, b))
    BY <1>3 DEF ReadBefore
  <2> QED BY <1>1, <1>8, <2>1, AllBefore
<1>10. doc[i + 1].kind \notin {"PropertyName", "EndObject", "EndArray"}
  <2>1. PICK o \in Objects(doc, b) : i \in MembersOf(doc, o)
    BY DEF PropertyNames
  <2>2. IsWhole(doc, o)
    BY <1>1, ObjectsWhole
  <2> QED BY <1>1, <2>1, <2>2, MemberValue
<1>11. p.value = doc[i + 1]
  BY <1>6
<1> HIDE DEF p, b
<1>12. IsKnownProperty(p) => p.value.kind \notin {"BeginObject", "BeginArray"}
  BY <1>9, PacketsAssumption
<1>13. IsKnownProperty(p) => IsPlain(p.value)
  BY <1>10, <1>11, <1>12 DEF IsPlain, Begins, Ends
<1> QED BY <1>3, <1>6, <1>7, <1>13 DEF p

LEMMA ToValueWrites == ReadInv /\ WriteInv /\ ToValue => WriteInv'
<1> SUFFICES ASSUME ReadInv, WriteInv, ToValue
             PROVE  WriteInv'
  OBVIOUS
<1> DEFINE p == [component |-> component, name |-> CurrentToken(reader).text,
                 value |-> CurrentToken(Moved(reader))]
<1>1. /\ phase = "AtName"
      /\ UNCHANGED <<packet, version, component, scan, writer, open, published>>
  BY DEF ToValue, writingVars
<1>2. reader' = Moved(reader) /\ read' = read \cup {p}
  BY DEF ToValue
<1>3. PublishedInv' /\ version' = packet'.version
  BY <1>1, NonePublished DEF WriteInv, Idle
<1>4. Resting(writer.doc, open, scan, version, read)
  BY <1>1 DEF WriteInv, DocumentInv, AtRest
<1>5. ASSUME scan = FromService
      PROVE  /\ IsKnown <=> IsKnownProperty(p)
             /\ PropertyOf(Moved(reader), component) = p
             /\ IsKnownProperty(p) => IsPlain(p.value)
  <2>1. /\ packet \in Packets /\ packet.doc # << >>
        /\ SectionBegins(packet.doc, packet.type, FromService) # {}
        /\ OnName(packet.doc, BeginOf(packet), reader, component, read)
    BY <1>1, <1>5 DEF ReadInv, HasMessage
  <2>2. /\ CurrentToken(reader).kind = "PropertyName"
        /\ PropertyOf(Moved(reader), component) = p
        /\ IsKnownProperty(p) => IsPlain(p.value)
    BY <2>1, KnownIsPlain
  <2> QED BY <2>2, KnownIs
<1>6. CASE scan = FromService /\ IsKnown
  <2>1. phase' = "Acknowledge"
    BY <1>6 DEF ToValue, Goto
  <2>2. IsKnownProperty(p) /\ PropertyOf(reader', component') = p /\ IsPlain(p.value)
    BY <1>1, <1>2, <1>5, <1>6
  <2> HIDE DEF p
  <2>3. Acks(read', version') = Acks(read, version) \cup {Ack(p, version)}
    <3>1. Acks(read \cup {p}, version) = Acks(read, version) \cup {Ack(p, version)}
      BY <2>2, OneMoreAck
    <3>2. read' = read \cup {p} /\ version' = version
      BY <1>1, <1>2
    <3> QED BY ONLY <3>1, <3>2, Zenon
  <2>4. Adding(writer.doc, open, Ack(p, version), Acks(read', version'))
    <3>1. Rest(writer.doc, open) /\ Says(writer.doc, Acks(read, version))
      BY <1>4, <1>6 DEF Resting
    <3> QED BY ONLY <2>3, <3>1 DEF Adding
  <2>5. Ack(p, version).value = p.value
    BY DEF Ack
  <2> QED BY <1>1, <1>3, <1>6, <2>1, <2>2, <2>4, <2>5
        DEF WriteInv, DocumentInv, AtRest, Responses, BeforeLoop
<1>7. CASE ~(scan = FromService /\ IsKnown)
  <2>1. phase' = "PastValue"
    BY <1>7 DEF ToValue, Goto
  <2>2. scan = FromService => ~IsKnownProperty(p)
    BY <1>5, <1>7
  <2> HIDE DEF p
  <2>3. Resting(writer.doc, open, scan, version, read')
    BY <1>2, <1>4, <2>2, OneMoreAck DEF Resting
  <2> QED BY <1>1, <1>3, <2>1, <2>3 DEF WriteInv, DocumentInv, AtRest, Responses, BeforeLoop
<1> QED BY <1>6, <1>7

LEMMA PastValueWrites == ReadInv /\ WriteInv /\ PastValue => WriteInv'
<1> SUFFICES ASSUME ReadInv, WriteInv, PastValue
             PROVE  WriteInv'
  OBVIOUS
<1>1. /\ phase = "PastValue" /\ phase' = "Scanning"
      /\ UNCHANGED <<packet, version, component, scan, read, writer, open, published>>
  BY DEF PastValue, writingVars, Goto
<1>2. PublishedInv' /\ version' = packet'.version
  BY <1>1, NonePublished DEF WriteInv, Idle
<1>3. Resting(writer.doc, open, scan, version, read)
  BY <1>1 DEF WriteInv, DocumentInv, AtRest
<1> QED BY <1>1, <1>2, <1>3 DEF WriteInv, DocumentInv, AtRest, Responses, BeforeLoop

\* The calls of the builder.
LEMMA Answering ==
    ASSUME ReadInv, WriteInv, phase \in Responses \cup {"Closing"}
    PROVE  /\ phase \notin Idle \cup {"Received"} /\ scan = FromService
           /\ phase \in Responses => IsPlain(Ack(PropertyOf(reader, component), version).value)
           /\ phase = "Acknowledge" =>
                Adding(writer.doc, open, Ack(PropertyOf(reader, component), version),
                       Acks(read, version))
           /\ phase = "Closing" =>
                Rest(writer.doc, open) /\ Says(writer.doc, Acks(read, version))
BY DEF ReadInv, WriteInv, DocumentInv, Responses, Idle, AtRest, Resting, PastLoop

LEMMA EndComponentWrites == ReadInv /\ WriteInv /\ EndComponent => WriteInv'
<1> SUFFICES ASSUME ReadInv, WriteInv, EndComponent
             PROVE  WriteInv'
  OBVIOUS
<1> DEFINE outcome == Append1(writer, EndObject)
           ack == Ack(PropertyOf(reader, component), version)
           all == Acks(read, version)
<1>1. phase \in {"Acknowledge", "Closing"} /\ ~Root(open) /\ Root(open')
  BY Zenon DEF EndComponent, Root
<1>2. /\ Written(outcome, phase)
      /\ UNCHANGED <<reader, component, scan, read, published>>
  BY Zenon DEF EndComponent, BuilderEndComponent, AppendEndObject, readingVars
<1>3. phase \notin Idle \cup {"Received"} /\ scan = FromService /\ version' = version
  BY <1>1, <1>2, Answering DEF Responses, Written
<1> DEFINE T == <<EndObject>>
<1>4. ASSUME NEW acks, Rest(writer.doc, open), Says(writer.doc, acks), outcome.result = "Success"
      PROVE  Rest(outcome.writer.doc, open') /\ Says(outcome.writer.doc, acks)
  <2>1. T[1] = EndObject
    OBVIOUS
  <2>2. Grown(writer.doc, T, 1, outcome.writer.doc)
    BY <1>4, Append1Behind DEF Rest
  <2> HIDE DEF T, outcome
  <2> QED BY <1>1, <1>4, <2>1, <2>2, ComponentEnds
<1> HIDE DEF outcome, ack, all
<1>5. ASSUME phase = "Acknowledge", outcome.result = "Success"
      PROVE  DocumentInv(phase, outcome.writer.doc, open', scan', version, reader', component', read')
  <2>1. PICK acks : all = acks \cup {ack} /\ Rest(writer.doc, open) /\ Says(writer.doc, acks)
    BY <1>5, Answering DEF Adding, Responses, ack, all
  <2>2. Adding(outcome.writer.doc, open', ack, all)
    BY <1>4, <1>5, <2>1 DEF Adding
  <2>3. IsPlain(ack.value)
    BY <1>5, Answering DEF Responses, ack
  <2> QED BY <1>2, <1>3, <1>5, <2>2, <2>3
        DEF DocumentInv, AtRest, Responses, BeforeLoop, ack, all
<1>6. ASSUME phase = "Closing", outcome.result = "Success"
      PROVE  DocumentInv(phase, outcome.writer.doc, open', scan', version, reader', component', read')
  <2>1. Rest(outcome.writer.doc, open') /\ Says(outcome.writer.doc, all)
    BY <1>4, <1>6, Answering DEF all
  <2> QED BY <1>2, <1>3, <1>6, <2>1 DEF DocumentInv, AtRest, Responses, BeforeLoop, Resting, all
<1> QED BY <1>1, <1>2, <1>3, <1>5, <1>6, WrittenCases

LEMMA BeginComponentWrites == ReadInv /\ WriteInv /\ BeginComponent => WriteInv'
<1> SUFFICES ASSUME ReadInv, WriteInv, BeginComponent
             PROVE  WriteInv'
  OBVIOUS
<1> DEFINE outcome == BuilderBeginComponent(writer, component)
           ack == Ack(PropertyOf(reader, component), version)
           all == Acks(read, version)
<1>1. /\ phase = "Acknowledge" /\ Root(open) /\ ~Root(component) /\ open' = component
      /\ Written(outcome, "Acknowledge")
      /\ UNCHANGED <<reader, component, scan, read, published>>
  BY Zenon DEF BeginComponent, Root, readingVars
<1>2. /\ phase \notin Idle \cup {"Received"} /\ scan = FromService /\ version' = version
      /\ IsPlain(ack.value) /\ Adding(writer.doc, open, ack, all)
  BY <1>1, Answering DEF Responses, Written
<1>3. PICK acks : all = acks \cup {ack} /\ Rest(writer.doc, open) /\ Says(writer.doc, acks)
  BY <1>2 DEF Adding
<1>4. ASSUME outcome.result = "Success"
      PROVE  Adding(outcome.writer.doc, component, ack, all)
  <2>1. PICK T : IsComponentBegin(T, component) /\ Grown(writer.doc, T, 4, outcome.writer.doc)
    BY <1>3, <1>4, ComponentBegins DEF Rest
  <2> HIDE DEF outcome, ack, all
  <2>2. Rest(outcome.writer.doc, component) /\ Says(outcome.writer.doc, acks)
    BY ONLY <1>1, <1>3, <2>1, ComponentRests
  <2> QED BY <1>3, <2>2 DEF Adding
<1> HIDE DEF outcome
<1>5. outcome.result = "Success" =>
        DocumentInv("Acknowledge", outcome.writer.doc, open', scan', version, reader', component', read')
  BY <1>1, <1>2, <1>4 DEF DocumentInv, AtRest, Responses, BeforeLoop
<1> QED BY <1>1, <1>2, <1>5, WrittenCases DEF Idle

LEMMA BeginResponseWrites == ReadInv /\ WriteInv /\ BeginResponseStatus => WriteInv'
<1> SUFFICES ASSUME ReadInv, WriteInv, BeginResponseStatus
             PROVE  WriteInv'
  OBVIOUS
<1> DEFINE ack == Ack(PropertyOf(reader, component), version)
           all == Acks(read, version)
<1>1. /\ phase = "Acknowledge" /\ open = component
      /\ UNCHANGED <<open, reader, component, scan, read, published>>
  BY Zenon DEF BeginResponseStatus, readingVars
<1>2. \E description :
        Written(BuilderBeginResponseStatus(writer, AcknowledgedName, AckCode, version, description),
                "AppendValue")
  BY Zenon DEF BeginResponseStatus
<1>3. PICK description :
        Written(BuilderBeginResponseStatus(writer, AcknowledgedName, AckCode, version, description),
                "AppendValue")
  BY <1>2
<1>4. /\ phase \notin Idle \cup {"Received"} /\ scan = FromService /\ version' = version
      /\ IsPlain(ack.value) /\ Adding(writer.doc, open, ack, all)
  BY <1>1, <1>3, Answering DEF Responses, Written
<1>5. /\ ack.name = AcknowledgedName /\ ack.code = AckCode /\ ack.version = version
      /\ ack.component = open
  BY <1>1 DEF Ack, PropertyOf, AcknowledgedName
<1> DEFINE outcome == BuilderBeginResponseStatus(writer, ack.name, ack.code, ack.version, description)
<1>6. Written(outcome, "AppendValue")
  BY ONLY <1>3, <1>5
<1>7. IsText(writer.doc) /\ Follows(writer.doc)
  BY <1>4 DEF Adding, Rest
<1> HIDE DEF ack, all
<1>8. ASSUME outcome.result = "Success"
      PROVE  Responding(outcome.writer.doc, open, ack, all, 2)
  <2>1. \E T : \E n \in Nat : /\ IsResponse(T, n, ack)
                              /\ Grown(writer.doc, T, n - 2, outcome.writer.doc)
    BY ONLY <1>7, <1>8, ResponseBegins
  <2> HIDE DEF outcome
  <2> QED BY <1>4, <1>5, <2>1 DEF Responding
<1> HIDE DEF outcome
<1>9. outcome.result = "Success" =>
        DocumentInv("AppendValue", outcome.writer.doc, open', scan', version, reader', component', read')
  BY <1>1, <1>4, <1>8 DEF DocumentInv, AtRest, Responses, BeforeLoop, ack, all
<1> QED BY <1>1, <1>4, <1>6, <1>9, WrittenCases DEF Idle

LEMMA AppendTheValueWrites == ReadInv /\ WriteInv /\ AppendTheValue => WriteInv'
<1> SUFFICES ASSUME ReadInv, WriteInv, AppendTheValue
             PROVE  WriteInv'
  OBVIOUS
<1> DEFINE ack == Ack(PropertyOf(reader, component), version)
           all == Acks(read, version)
           outcome == Append1(writer, CurrentToken(reader))
<1>1. /\ phase = "AppendValue" /\ Written(outcome, "EndResponse")
      /\ UNCHANGED <<open, reader, component, scan, read, published>>
  BY DEF AppendTheValue, AppendValue, readingVars
<1>2. /\ phase \notin Idle \cup {"Received"} /\ scan = FromService /\ version' = version
      /\ IsPlain(ack.value) /\ Responding(writer.doc, open, ack, all, 2)
  BY <1>1, Answering DEF Responses, Written, WriteInv, DocumentInv
<1>3. ack.value = CurrentToken(reader)
  BY DEF Ack, PropertyOf
<1> HIDE DEF ack, all
<1>4. ASSUME outcome.result = "Success"
      PROVE  Responding(outcome.writer.doc, open, ack, all, 1)
  <2>1. PICK d, T : \E n \in Nat : /\ Adding(d, open, ack, all)
                                   /\ IsResponse(T, n, ack) /\ Grown(d, T, n - 2, writer.doc)
    BY <1>2 DEF Responding
  <2>2. PICK n \in Nat : /\ Adding(d, open, ack, all)
                         /\ IsResponse(T, n, ack) /\ Grown(d, T, n - 2, writer.doc)
    BY <2>1
  <2>3. n - 2 \in Nat /\ (n - 2) + 1 = n - 1 /\ T[n - 1] = CurrentToken(reader) /\ IsText(d)
    BY <1>3, <2>2 DEF IsResponse, Adding, Rest
  <2>4. Grown(d, T, (n - 2) + 1, outcome.writer.doc)
    BY <1>4, <2>2, <2>3, Append1Adds
  <2> HIDE DEF outcome
  <2>5. Grown(d, T, n - 1, outcome.writer.doc)
    BY ONLY <2>3, <2>4
  <2>6. ack.component = open
    BY <1>2 DEF Responding
  <2> QED BY <2>2, <2>5, <2>6 DEF Responding
<1> HIDE DEF outcome
<1>5. outcome.result = "Success" =>
        DocumentInv("EndResponse", outcome.writer.doc, open', scan', version, reader', component', read')
  BY <1>1, <1>2, <1>4 DEF DocumentInv, AtRest, Responses, BeforeLoop, ack, all
<1> QED BY <1>1, <1>2, <1>5, WrittenCases DEF Idle

LEMMA EndResponseWrites == ReadInv /\ WriteInv /\ EndResponseStatus => WriteInv'
<1> SUFFICES ASSUME ReadInv, WriteInv, EndResponseStatus
             PROVE  WriteInv'
  OBVIOUS
<1> DEFINE ack == Ack(PropertyOf(reader, component), version)
           all == Acks(read, version)
           outcome == Append1(writer, EndObject)
<1>1. /\ phase = "EndResponse" /\ Written(outcome, "PastValue")
      /\ UNCHANGED <<open, reader, component, scan, read, published>>
  BY DEF EndResponseStatus, BuilderEndResponseStatus, AppendEndObject, readingVars
<1>2. /\ phase \notin Idle \cup {"Received"} /\ scan = FromService /\ version' = version
      /\ IsPlain(ack.value) /\ Responding(writer.doc, open, ack, all, 1)
  BY <1>1, Answering DEF Responses, Written, WriteInv, DocumentInv
<1> HIDE DEF ack, all
<1>3. ASSUME outcome.result = "Success"
      PROVE  Rest(outcome.writer.doc, open) /\ Says(outcome.writer.doc, all)
  <2>1. PICK d, T : \E n \in Nat : /\ Adding(d, open, ack, all)
                                   /\ IsResponse(T, n, ack) /\ Grown(d, T, n - 1, writer.doc)
    BY <1>2 DEF Responding
  <2>2. PICK n \in Nat : /\ Adding(d, open, ack, all)
                         /\ IsResponse(T, n, ack) /\ Grown(d, T, n - 1, writer.doc)
    BY <2>1
  <2>3. n - 1 \in Nat /\ (n - 1) + 1 = n /\ T[n] = EndObject /\ IsText(d)
    BY <2>2 DEF IsResponse, Adding, Rest
  <2>4. Grown(d, T, (n - 1) + 1, outcome.writer.doc)
    BY <1>3, <2>2, <2>3, Append1Adds
  <2> HIDE DEF outcome
  <2>5. Grown(d, T, n, outcome.writer.doc)
    BY ONLY <2>3, <2>4
  <2>6. PICK acks : all = acks \cup {ack} /\ Rest(d, open) /\ Says(d, acks)
    BY <2>2 DEF Adding
  <2>7. ack.component = open
    BY <1>2 DEF Responding
  <2>8. Says(outcome.writer.doc, acks \cup {ack})
    BY ONLY n \in Nat, <1>2, <2>2, <2>5, <2>6, <2>7, ResponseSays
  <2>9. Rest(outcome.writer.doc, open)
    BY ONLY n \in Nat, <1>2, <2>2, <2>5, <2>6, ResponseRests
  <2> QED BY <2>6, <2>8, <2>9
<1> HIDE DEF outcome
<1>4. outcome.result = "Success" =>
        DocumentInv("PastValue", outcome.writer.doc, open', scan', version, reader', component', read')
  BY <1>1, <1>2, <1>3 DEF DocumentInv, AtRest, Responses, BeforeLoop, Resting, all
<1> QED BY <1>1, <1>2, <1>4, WrittenCases DEF Idle

LEMMA EndDocumentWrites == ReadInv /\ WriteInv /\ EndDocument => WriteInv'
<1> SUFFICES ASSUME ReadInv, WriteInv, EndDocument
             PROVE  WriteInv'
  OBVIOUS
<1> DEFINE all == Acks(read, version)
           outcome == Append1(writer, EndObject)
<1>1. /\ phase = "Closing" /\ Root(open) /\ Written(outcome, "Written")
      /\ UNCHANGED <<open, reader, component, scan, read, published>>
  BY Zenon DEF EndDocument, Root, AppendEndObject, readingVars
<1>2. /\ phase \notin Idle \cup {"Received"} /\ version' = version
      /\ Rest(writer.doc, open) /\ Says(writer.doc, all)
  BY <1>1, Answering DEF Responses, Written
<1> HIDE DEF all
<1>3. ASSUME outcome.result = "Success"
      PROVE  Complete(outcome.writer.doc) /\ Says(outcome.writer.doc, all) /\ IsText(outcome.writer.doc)
  <2> DEFINE T == <<EndObject>>
  <2>1. Grown(writer.doc, T, 1, outcome.writer.doc) /\ T[1] = EndObject
    BY <1>2, <1>3, Append1Behind DEF Rest
  <2> HIDE DEF outcome, T
  <2> QED BY ONLY <1>1, <1>2, <2>1, DocumentEnds
<1> HIDE DEF outcome
<1>4. outcome.result = "Success" =>
        DocumentInv("Written", outcome.writer.doc, open', scan', version, reader', component', read')
  BY <1>1, <1>2, <1>3 DEF DocumentInv, AtRest, Responses, BeforeLoop, all
<1> QED BY <1>1, <1>2, <1>4, WrittenCases DEF Idle

LEMMA SendWrites == ReadInv /\ WriteInv /\ SendPropertiesReported => WriteInv'
<1> SUFFICES ASSUME ReadInv, WriteInv, SendPropertiesReported
             PROVE  WriteInv'
  OBVIOUS
<1>1. /\ phase = "Written" /\ phase' = "Connected" /\ packet' = packet
      /\ published' = SubSeq(writer.doc, 1, Len(writer.doc))
  BY DEF SendPropertiesReported, Goto, GetBytesUsed
<1>2. /\ Complete(writer.doc) /\ IsText(writer.doc) /\ Says(writer.doc, Acks(read, version))
      /\ version = packet.version
  BY <1>1 DEF WriteInv, DocumentInv, Idle
<1>3. published' = writer.doc
  BY <1>1, <1>2, WholeSubSeq
<1>4. read = packet.properties[FromService]
  <2>1. /\ packet \in Packets /\ packet.doc # << >>
        /\ SectionBegins(packet.doc, packet.type, FromService) # {}
        /\ read = PropertiesOf(packet.doc, BeginOf(packet))
    BY <1>1 DEF ReadInv, HasMessage, PastLoop
  <2> QED BY <2>1, MessageIsWhole
<1>5. Acknowledgements(writer.doc) = Acks(packet.properties[FromService], packet.version)
  BY <1>2, <1>4, SaysIs, TextLength
<1>6. PublishedInv'
  BY <1>1, <1>2, <1>3, <1>5 DEF PublishedInv
<1> QED BY <1>1, <1>6, IdleWrites DEF Idle

LEMMA NextStepWrites == ReadInv /\ WriteInv /\ [Next]_vars => WriteInv'
<1> SUFFICES ASSUME ReadInv, WriteInv, [Next]_vars
             PROVE  WriteInv'
  OBVIOUS
<1>1. CASE UNCHANGED vars
  BY <1>1 DEF vars, readingVars, writingVars, WriteInv, DocumentInv, PublishedInv
<1>2. CASE SetSymmetricKey \/ Connect
  <2>1. /\ phase = "Disconnected" /\ phase' \in Idle /\ published' = published
    BY <1>2 DEF SetSymmetricKey, Connect, Idle
  <2> QED BY <2>1, NonePublished, IdleWrites DEF WriteInv
<1>3. CASE Receive
  BY <1>3, ReceiveWrites
<1>4. CASE ReadVersion
  BY <1>4, ReadVersionWrites
<1>5. CASE BeginDocument
  BY <1>5, BeginDocumentWrites
<1>6. CASE AppendOwn
  BY <1>6, AppendOwnWrites
<1>7. CASE AppendOwnList
  BY <1>7, AppendOwnListWrites
<1>8. CASE NextComponentProperty
  BY <1>8, NextWrites
<1>9. CASE ToValue
  BY <1>9, ToValueWrites
<1>10. CASE PastValue
  BY <1>10, PastValueWrites
<1>11. CASE EndComponent
  BY <1>11, EndComponentWrites
<1>12. CASE BeginComponent
  BY <1>12, BeginComponentWrites
<1>13. CASE BeginResponseStatus
  BY <1>13, BeginResponseWrites
<1>14. CASE AppendTheValue
  BY <1>14, AppendTheValueWrites
<1>15. CASE EndResponseStatus
  BY <1>15, EndResponseWrites
<1>16. CASE EndDocument
  BY <1>16, EndDocumentWrites
<1>17. CASE SendPropertiesReported
  BY <1>17, SendWrites
<1> QED BY <1>1, <1>2, <1>3, <1>4, <1>5, <1>6, <1>7, <1>8, <1>9, <1>10, <1>11, <1>12,
           <1>13, <1>14, <1>15, <1>16, <1>17 DEF Next

\* For every message and every buffer, however many calls wrote the document and
\* whichever of them found no room: one that is published can be read to its end,
\* and acknowledges the properties of the message that the device knows, and no
\* others, each in its component, with its value and the version of the message
\* (azure_iot_hub_client_properties.c, azure_iot_json_writer.c).
THEOREM PublishedAlwaysAcknowledges == Spec => []PublishedAcknowledges
<1>1. WriteInv => PublishedAcknowledges
  BY DEF WriteInv, PublishedInv, PublishedAcknowledges, Acks, Ack
<1> QED BY InitReads, NextStepReads, InitWrites, NextStepWrites, <1>1, PTL DEF Spec
=================================================================================
