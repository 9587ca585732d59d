-------------------------- MODULE JsonReaderTheorems --------------------------
(***************************************************************************)
(* What the search of the JSON reader finds, for every document.  The      *)
(* search is a recursive function; that there is such a function, and what *)
(* it computes, is proved by induction.  Induction itself comes from the   *)
(* well-foundedness of < on the naturals, as a statement about sets of     *)
(* naturals: no theorem used here takes an operator.                       *)
(***************************************************************************)
EXTENDS JsonReader, Integers, WellFoundedInduction, TLAPS

LEMMA NatWellFounded == IsWellFoundedOn({ss \in Nat \X Nat : ss[1] < ss[2]}, Nat)
  BY NatLessThanWellFounded DEF OpToRel

\* A set of naturals that is not empty has a least element.
LEMMA Least ==
    ASSUME NEW T \in SUBSET Nat, T # {}
    PROVE  \E x \in T : \A y \in T : x <= y
<1> DEFINE R == {ss \in Nat \X Nat : ss[1] < ss[2]}
<1>1. \E x \in T : \A y \in T : ~(<<y, x>> \in R)
  <2> HIDE DEF R
  <2> QED BY NatWellFounded, WFMin DEF R
<1>2. ASSUME NEW x \in T, NEW y \in T, ~(<<y, x>> \in R)
      PROVE  x <= y
  <2>1. x \in Nat /\ y \in Nat
    OBVIOUS
  <2>2. y < x => <<y, x>> \in R
    BY <2>1
  <2> HIDE DEF R
  <2> QED BY <1>2, <2>1, <2>2
<1> HIDE DEF R
<1> QED BY <1>1, <1>2

\* A set that has 0 and the successor of every natural it has, has them all.
LEMMA Induction ==
    ASSUME NEW S, 0 \in S, \A n \in Nat : n \in S => n + 1 \in S
    PROVE  \A n \in Nat : n \in S
<1> SUFFICES ASSUME NEW n \in Nat, n \notin S
             PROVE  FALSE
  OBVIOUS
<1> DEFINE T == {m \in Nat : m \notin S}
<1>1. T \in SUBSET Nat /\ n \in T
  OBVIOUS
<1>2. PICK x \in T : \A y \in T : x <= y
  <2> HIDE DEF T
  <2> QED BY <1>1, Least
<1>3. x \in Nat /\ x # 0 /\ x - 1 \in Nat
  OBVIOUS
<1>4. x - 1 \in S
  BY <1>2, <1>3
<1> QED BY <1>3, <1>4

(***************************************************************************)
(* The steps of the reader.                                                *)
(***************************************************************************)
At(doc, at) == [doc |-> doc, at |-> at]

\* It moves by one token, or not at all at the end.
LEMMA MovedAt ==
    ASSUME NEW doc, NEW at
    PROVE  Moved(At(doc, at)) = At(doc, IF at < Len(doc) THEN at + 1 ELSE at)
  BY DEF Moved, NextToken, At

LEMMA EndIsBeyond ==
    ASSUME NEW doc, Len(doc) \in Nat, NEW begin \in 0 .. Len(doc)
    PROVE  EndOf(doc, begin) \in begin .. Len(doc)
<1> DEFINE ends == {i \in begin .. Len(doc) : Nesting(doc, begin, i) = 0}
<1>1. ends \in SUBSET Nat /\ ends \subseteq begin .. Len(doc)
  OBVIOUS
<1>2. EndOf(doc, begin) =
        IF ends = {} THEN Len(doc) ELSE CHOOSE i \in ends : \A j \in ends : i <= j
  BY DEF EndOf
<1> HIDE DEF ends
<1>3. CASE ends = {}
  BY <1>2, <1>3
<1>4. CASE ends # {}
  <2>1. \E i \in ends : \A j \in ends : i <= j
    BY <1>1, <1>4, Least
  <2>2. (CHOOSE i \in ends : \A j \in ends : i <= j) \in ends
    BY <2>1
  <2> QED BY <1>1, <1>2, <1>4, <2>2
<1> QED BY <1>3, <1>4

\* Whatever it passes over, it does not move back, nor beyond the document.
LEMMA SkipMovesOn ==
    ASSUME NEW doc, Len(doc) \in Nat, NEW at \in 0 .. Len(doc)
    PROVE  \E to \in at .. Len(doc) : SkipChildren(At(doc, at)) = At(doc, to)
<1> DEFINE r == At(doc, at)
           v == IF CurrentToken(r).kind = "PropertyName" THEN Moved(r) ELSE r
<1>1. \E a \in at .. Len(doc) : v = At(doc, a)
  <2>1. /\ r = At(doc, at) /\ at \in at .. Len(doc)
        /\ at < Len(doc) => at + 1 \in at .. Len(doc)
    OBVIOUS
  <2>2. Moved(r) = At(doc, IF at < Len(doc) THEN at + 1 ELSE at)
    BY MovedAt
  <2> HIDE DEF r
  <2> QED BY <2>1, <2>2
<1>2. PICK a \in at .. Len(doc) : v = At(doc, a)
  BY <1>1
<1>3. SkipChildren(r) = IF CurrentToken(v).kind \in {"BeginObject", "BeginArray"}
                        THEN [v EXCEPT !.at = EndOf(v.doc, v.at)] ELSE v
  BY DEF SkipChildren
<1> HIDE DEF v, r
<1>4. v.doc = doc /\ v.at = a /\ \A b : [v EXCEPT !.at = b] = At(doc, b)
  BY <1>2 DEF At
<1>5. EndOf(doc, a) \in at .. Len(doc)
  BY EndIsBeyond
<1> QED BY <1>2, <1>3, <1>4, <1>5 DEF r

(***************************************************************************)
(* The search.                                                             *)
(***************************************************************************)
\* The last token of the member, or of the value, at a token; what the search
\* does there, when `f' is the search from the tokens behind.
Last(doc, at) == SkipChildren(Moved(At(doc, at))).at

Search(f, doc, text, at) ==
    IF TokenIsTextEqual(At(doc, at), text) THEN at
    ELSE IF at = Len(doc) \/ Last(doc, at) = Len(doc) THEN 0
    ELSE f[Last(doc, at) + 1]

LEMMA LastIsBeyond ==
    ASSUME NEW doc, Len(doc) \in Nat, NEW at \in 0 .. Len(doc)
    PROVE  /\ Last(doc, at) \in at .. Len(doc)
           /\ SkipChildren(Moved(At(doc, at))) = At(doc, Last(doc, at))
           /\ at < Len(doc) => Last(doc, at) \in at + 1 .. Len(doc)
<1> DEFINE a == IF at < Len(doc) THEN at + 1 ELSE at
<1>1. Moved(At(doc, at)) = At(doc, a) /\ a \in at .. Len(doc)
  BY MovedAt
<1>2. at < Len(doc) => a = at + 1
  OBVIOUS
<1> HIDE DEF a
<1>3. PICK to \in a .. Len(doc) : SkipChildren(At(doc, a)) = At(doc, to)
  BY <1>1, SkipMovesOn
<1> QED BY <1>1, <1>2, <1>3 DEF Last, At

LEMMA SearchIsChosen ==
    ASSUME NEW doc, Len(doc) \in Nat, NEW text
    PROVE  SearchFrom(doc, text) =
             CHOOSE f : f = [at \in 0 .. Len(doc) |-> Search(f, doc, text, at)]
<1> DEFINE B(f, at) == LET r     == [doc |-> doc, at |-> at]
                           value == SkipChildren(Moved(r))
                       IN  IF TokenIsTextEqual(r, text) THEN at
                           ELSE IF AtEnd(r) \/ AtEnd(value) THEN 0
                           ELSE f[value.at + 1]
<1>1. SearchFrom(doc, text) = CHOOSE f : f = [at \in 0 .. Len(doc) |-> B(f, at)]
  BY DEF SearchFrom
<1>2. ASSUME NEW f, NEW at \in 0 .. Len(doc)
      PROVE  B(f, at) = Search(f, doc, text, at)
  <2>1. SkipChildren(Moved(At(doc, at))) = At(doc, Last(doc, at))
    BY LastIsBeyond
  <2> QED BY <2>1 DEF Search, At, AtEnd
<1> HIDE DEF B
<1>3. ASSUME NEW f
      PROVE  [at \in 0 .. Len(doc) |-> B(f, at)]
               = [at \in 0 .. Len(doc) |-> Search(f, doc, text, at)]
  BY <1>2
<1> QED BY <1>1, <1>3

\* There is a search from the last n tokens and from 0.
Searches(f, doc, text, n) ==
    f = [at \in Len(doc) - n .. Len(doc) |-> Search(f, doc, text, at)]

LEMMA SearchExists ==
    ASSUME NEW doc, Len(doc) \in Nat, NEW text
    PROVE  \E f : f = [at \in 0 .. Len(doc) |-> Search(f, doc, text, at)]
<1> DEFINE S == {n \in Nat : n <= Len(doc) => \E f : Searches(f, doc, text, n)}
<1>1. 0 \in S
  <2> DEFINE f == [at \in Len(doc) .. Len(doc) |-> Search(<< >>, doc, text, at)]
  <2>1. \A at \in Len(doc) .. Len(doc) : Search(<< >>, doc, text, at) = Search(f, doc, text, at)
    <3> HIDE DEF f
    <3> QED BY DEF Search
  <2>2. Searches(f, doc, text, 0)
    BY <2>1 DEF Searches
  <2> QED BY <2>2
<1>2. ASSUME NEW n \in Nat, n \in S
      PROVE  n + 1 \in S
  <2> SUFFICES ASSUME n + 1 <= Len(doc)
               PROVE  \E g : Searches(g, doc, text, n + 1)
    OBVIOUS
  <2>1. PICK f : Searches(f, doc, text, n)
    BY <1>2
  <2> DEFINE k == Len(doc) - (n + 1)
             g == [at \in k .. Len(doc) |-> IF at = k THEN Search(f, doc, text, k) ELSE f[at]]
  <2>2. k \in 0 .. Len(doc) /\ Len(doc) - n = k + 1 /\ k < Len(doc)
    OBVIOUS
  <2>3. ASSUME NEW at \in k .. Len(doc)
        PROVE  Search(g, doc, text, at) = Search(f, doc, text, at)
    <3>1. at < Len(doc) => Last(doc, at) \in at + 1 .. Len(doc)
      BY <2>2, LastIsBeyond
    <3>2. CASE at = Len(doc) \/ Last(doc, at) = Len(doc)
      BY <3>2 DEF Search
    <3>3. CASE at # Len(doc) /\ Last(doc, at) # Len(doc)
      <4>1. Last(doc, at) + 1 \in k .. Len(doc) /\ Last(doc, at) + 1 # k
        <5> DEFINE l == Last(doc, at)
        <5> HIDE DEF k, l
        <5> QED BY <2>2, <3>1, <3>3 DEF l
      <4>2. g[Last(doc, at) + 1] = f[Last(doc, at) + 1]
        BY <4>1
      <4> HIDE DEF g
      <4> QED BY <4>2 DEF Search
    <3> QED BY <3>2, <3>3
  <2>4. ASSUME NEW at \in k .. Len(doc)
        PROVE  g[at] = Search(f, doc, text, at)
    <3>1. CASE at = k
      BY <3>1
    <3>2. CASE at # k
      <4>1. at \in Len(doc) - n .. Len(doc)
        <5> HIDE DEF k
        <5> QED BY <2>2, <3>2
      <4> HIDE DEF k
      <4> QED BY <2>1, <3>2, <4>1 DEF Searches
    <3> QED BY <3>1, <3>2
  <2>5. g = [at \in k .. Len(doc) |-> Search(g, doc, text, at)]
    <3>1. g = [at \in k .. Len(doc) |-> g[at]]
      OBVIOUS
    <3>2. \A at \in k .. Len(doc) : g[at] = Search(g, doc, text, at)
      <4> HIDE DEF g
      <4> QED BY <2>3, <2>4
    <3> HIDE DEF g
    <3> QED BY <3>1, <3>2
  <2> HIDE DEF g
  <2> QED BY <2>5 DEF Searches
<1>3. Len(doc) \in S
  <2> HIDE DEF S
  <2> QED BY <1>1, <1>2, Induction
<1>4. PICK f : Searches(f, doc, text, Len(doc))
  BY <1>3
<1>5. Len(doc) - Len(doc) = 0
  OBVIOUS
<1> QED BY <1>4, <1>5 DEF Searches

\* What the search is at a token, in terms of the tokens behind.
LEMMA SearchStep ==
    ASSUME NEW doc, Len(doc) \in Nat, NEW text, NEW at \in 0 .. Len(doc)
    PROVE  SearchFrom(doc, text)[at] = Search(SearchFrom(doc, text), doc, text, at)
<1> DEFINE s == SearchFrom(doc, text)
<1>1. s = [a \in 0 .. Len(doc) |-> Search(s, doc, text, a)]
  <2>1. s = CHOOSE f : f = [a \in 0 .. Len(doc) |-> Search(f, doc, text, a)]
    BY SearchIsChosen
  <2> HIDE DEF s
  <2> QED BY <2>1, SearchExists
<1> HIDE DEF s
<1> QED BY <1>1 DEF s

\* Of any text it finds a token with the text it is told, not before the one it
\* starts at, or none.
LEMMA SearchIsText ==
    ASSUME NEW doc, Len(doc) \in Nat, NEW text, NEW at \in 0 .. Len(doc),
           SearchFrom(doc, text)[at] # 0
    PROVE  /\ SearchFrom(doc, text)[at] \in at .. Len(doc)
           /\ TokenIsTextEqual(At(doc, SearchFrom(doc, text)[at]), text)
<1> DEFINE s == SearchFrom(doc, text)
           Is(a, i) == i = 0 \/ (i \in a .. Len(doc) /\ TokenIsTextEqual(At(doc, i), text))
           S == {n \in Nat : \A a \in 0 .. Len(doc) : Len(doc) - a <= n => Is(a, s[a])}
<1>1. ASSUME NEW a \in 0 .. Len(doc)
      PROVE  /\ s[a] = Search(s, doc, text, a)
             /\ a # Len(doc) => Last(doc, a) \in a + 1 .. Len(doc)
  BY SearchStep, LastIsBeyond
<1> HIDE DEF s
<1>2. 0 \in S
  <2>1. Is(Len(doc), s[Len(doc)])
    BY <1>1 DEF Search
  <2> HIDE DEF Is
  <2> QED BY <2>1
<1>3. ASSUME NEW n \in Nat, n \in S
      PROVE  n + 1 \in S
  <2> SUFFICES ASSUME NEW a \in 0 .. Len(doc), Len(doc) - a <= n + 1
               PROVE  Is(a, s[a])
    OBVIOUS
  <2> DEFINE l == Last(doc, a)
  <2>1. CASE TokenIsTextEqual(At(doc, a), text) \/ a = Len(doc) \/ l = Len(doc)
    BY <1>1, <2>1 DEF Search
  <2>2. CASE ~(TokenIsTextEqual(At(doc, a), text) \/ a = Len(doc) \/ l = Len(doc))
    <3>1. s[a] = s[l + 1] /\ l \in a + 1 .. Len(doc) /\ l # Len(doc)
      BY <1>1, <2>2 DEF Search
    <3> HIDE DEF l, Is
    <3>2. l + 1 \in 0 .. Len(doc) /\ Len(doc) - (l + 1) <= n
      BY <3>1
    <3>3. Is(l + 1, s[l + 1])
      BY <1>3, <3>2
    <3>4. a <= l + 1
      BY <3>1
    <3> QED BY <3>1, <3>3, <3>4 DEF Is
  <2> QED BY <2>1, <2>2
<1>4. Len(doc) - at \in Nat
  OBVIOUS
<1>5. Len(doc) - at \in S
  <2> HIDE DEF S
  <2> QED BY <1>2, <1>3, <1>4, Induction
<1>6. Is(at, s[at])
  <2> HIDE DEF Is
  <2> QED BY <1>4, <1>5
<1> QED BY <1>6 DEF s

LEMMA FoundIsText ==
    ASSUME NEW doc, Len(doc) \in Nat, NEW text, NEW at \in 0 .. Len(doc),
           Find(At(doc, at), text).result = "Success"
    PROVE  \E i \in 1 .. Len(doc) :
             /\ i + 1 \in 1 .. Len(doc) /\ TokenIsTextEqual(At(doc, i), text)
             /\ Find(At(doc, at), text).reader = At(doc, i + 1)
<1> DEFINE s == SearchFrom(doc, text)[at]
<1>1. Find(At(doc, at), text) =
        IF s = 0 \/ s = Len(doc) THEN [result |-> "Failed", reader |-> At(doc, at)]
        ELSE [result |-> "Success", reader |-> At(doc, s + 1)]
  BY DEF Find, At
<1>2. s # 0 => s \in at .. Len(doc) /\ TokenIsTextEqual(At(doc, s), text)
  BY SearchIsText
<1> HIDE DEF s
<1>3. s # 0 /\ s # Len(doc)
  BY <1>1
<1>4. s \in 1 .. Len(doc) /\ s + 1 \in 1 .. Len(doc)
  BY <1>2, <1>3
<1> QED BY <1>1, <1>2, <1>3, <1>4

(***************************************************************************)
(* The search of an object.  From a member it goes to the next, and no     *)
(* member is passed over unseen.                                           *)
(***************************************************************************)
LEMMA MemberIsName ==
    ASSUME NEW doc, IsObject(doc), NEW i \in Members(doc)
    PROVE  /\ i \in 1 .. Len(doc) /\ doc[i] = Name(doc[i].text)
           /\ doc[i].kind = "PropertyName"
  BY DEF IsObject, IsToken, Members

LEMMA NextMember ==
    ASSUME NEW doc, IsObject(doc), NEW i \in Members(doc), i < Len(doc)
    PROVE  /\ Last(doc, i) \in i + 1 .. Len(doc)
           /\ (i + 1 .. Last(doc, i)) \cap Members(doc) = {}
           /\ MemberOrEnd(doc, Last(doc, i) + 1)
           /\ Last(doc, i) = SkipChildren(At(doc, i + 1)).at
           /\ doc[i + 1].kind \notin {"PropertyName", "EndObject", "EndArray"}
<1>1. Len(doc) \in Nat /\ i \in 1 .. Len(doc)
  BY DEF IsObject, Members
<1>2. Last(doc, i) = SkipChildren(At(doc, i + 1)).at
  BY MovedAt DEF Last
<1>3. Last(doc, i) \in i + 1 .. Len(doc)
  BY <1>1, LastIsBeyond
<1> QED BY <1>2, <1>3 DEF IsObject, At

\* No member from a to b - 1 has that name.
NoneNamed(doc, text, a, b) ==
    \A i \in Members(doc) : a <= i /\ i < b => doc[i] # Name(text)

FoundFrom(doc, text, at, found) ==
    \/ found \in {0, Len(doc)} /\ NoneNamed(doc, text, at, Len(doc))
    \/ /\ found \in Members(doc) /\ at <= found /\ found < Len(doc)
       /\ doc[found] = Name(text) /\ NoneNamed(doc, text, at, found)

LEMMA SearchFinds ==
    ASSUME NEW doc, IsObject(doc), NEW text,
           NEW at \in 1 .. Len(doc), MemberOrEnd(doc, at)
    PROVE  FoundFrom(doc, text, at, SearchFrom(doc, text)[at])
<1> DEFINE s == SearchFrom(doc, text)
           S == {n \in Nat : \A a \in 1 .. Len(doc) :
                   Len(doc) - a <= n /\ MemberOrEnd(doc, a) => FoundFrom(doc, text, a, s[a])}
<1>1. Len(doc) \in Nat
  BY DEF IsObject
<1>2. ASSUME NEW a \in 1 .. Len(doc)
      PROVE  s[a] = Search(s, doc, text, a)
  BY <1>1, SearchStep
<1> HIDE DEF s
<1>3. FoundFrom(doc, text, Len(doc), s[Len(doc)])
  <2>1. CASE Len(doc) = 0
    BY <2>1
  <2>2. CASE Len(doc) # 0
    <3>1. s[Len(doc)] \in {0, Len(doc)}
      BY <1>1, <1>2, <2>2 DEF Search
    <3>2. NoneNamed(doc, text, Len(doc), Len(doc))
      BY <1>1, MemberIsName DEF NoneNamed
    <3> QED BY <3>1, <3>2 DEF FoundFrom
  <2> QED BY <2>1, <2>2
<1>4. 0 \in S
  BY <1>1, <1>3
<1>5. ASSUME NEW n \in Nat, n \in S
      PROVE  n + 1 \in S
  <2> SUFFICES ASSUME NEW a \in 1 .. Len(doc), Len(doc) - a <= n + 1, MemberOrEnd(doc, a)
               PROVE  FoundFrom(doc, text, a, s[a])
    OBVIOUS
  <2>1. CASE a = Len(doc)
    BY <1>3, <2>1
  <2>2. CASE a # Len(doc)
    <3> DEFINE l == Last(doc, a)
    <3>1. a \in Members(doc) /\ a < Len(doc)
      BY <1>1, <2>2 DEF MemberOrEnd
    <3>2. /\ l \in a + 1 .. Len(doc) /\ (a + 1 .. l) \cap Members(doc) = {}
          /\ MemberOrEnd(doc, l + 1)
      BY <3>1, NextMember
    <3>3. TokenIsTextEqual(At(doc, a), text) <=> doc[a] = Name(text)
      BY <3>1, MemberIsName DEF TokenIsTextEqual, CurrentToken, At, Name, Token
    <3>4. s[a] = IF doc[a] = Name(text) THEN a ELSE IF l = Len(doc) THEN 0 ELSE s[l + 1]
      BY <1>2, <2>2, <3>3 DEF Search
    <3> HIDE DEF l
    <3>5. CASE doc[a] = Name(text)
      <4>1. s[a] = a /\ a \in Members(doc) /\ a <= a /\ a < Len(doc) /\ doc[a] = Name(text)
        BY <1>1, <3>1, <3>4, <3>5
      <4>2. NoneNamed(doc, text, a, a)
        BY <1>1, MemberIsName DEF NoneNamed
      <4> QED BY <4>1, <4>2 DEF FoundFrom
    <3>6. CASE doc[a] # Name(text)
      <4>1. ASSUME NEW b \in l + 1 .. Len(doc) + 1, NoneNamed(doc, text, l + 1, b)
            PROVE  NoneNamed(doc, text, a, b)
        BY <1>1, <3>2, <3>6, <4>1, MemberIsName DEF NoneNamed
      <4>2. CASE l = Len(doc)
        <5>1. NoneNamed(doc, text, l + 1, l + 1)
          BY <1>1, <3>2, MemberIsName DEF NoneNamed
        <5>2. NoneNamed(doc, text, a, l + 1)
          BY <1>1, <3>2, <4>1, <4>2, <5>1
        <5> QED BY <1>1, <3>4, <3>6, <4>2, <5>2, MemberIsName DEF FoundFrom, NoneNamed
      <4>3. CASE l # Len(doc)
        <5>1. l + 1 \in 1 .. Len(doc) /\ Len(doc) - (l + 1) <= n
          BY <1>1, <3>2, <4>3
        <5>2. FoundFrom(doc, text, l + 1, s[l + 1]) /\ s[a] = s[l + 1]
          BY <1>5, <3>2, <3>4, <3>6, <4>3, <5>1
        <5>3. Len(doc) \in l + 1 .. Len(doc) + 1
          BY <1>1, <5>1, <3>2
        <5>4. CASE s[a] \in {0, Len(doc)} /\ NoneNamed(doc, text, l + 1, Len(doc))
          BY <4>1, <5>3, <5>4 DEF FoundFrom
        <5>5. CASE /\ s[a] \in Members(doc) /\ l + 1 <= s[a] /\ s[a] < Len(doc)
                   /\ doc[s[a]] = Name(text) /\ NoneNamed(doc, text, l + 1, s[a])
          <6>1. s[a] \in l + 1 .. Len(doc) + 1 /\ a <= s[a]
            BY <1>1, <3>2, <5>5, MemberIsName
          <6> QED BY <4>1, <5>5, <6>1 DEF FoundFrom
        <5> QED BY <5>2, <5>4, <5>5 DEF FoundFrom
      <4> QED BY <4>2, <4>3
    <3> QED BY <3>5, <3>6
  <2> QED BY <2>1, <2>2
<1>6. \A n \in Nat : n \in S
  <2> HIDE DEF S
  <2> QED BY <1>4, <1>5, Induction
<1>7. Len(doc) - at \in Nat
  BY <1>1
<1>8. Len(doc) - at \in S
  <2> HIDE DEF S
  <2> QED BY <1>6, <1>7
<1> QED BY <1>7, <1>8 DEF s

(***************************************************************************)
(* The searches of the callers: from the first name of an object, and from *)
(* its beginning, which passes over the first member.                      *)
(***************************************************************************)
Finds(doc, text, from, found) ==
    \/ found.result = "Failed" /\ NoneNamed(doc, text, from, Len(doc))
    \/ /\ found.result = "Success"
       /\ \E i \in Members(doc) :
            /\ from <= i /\ i < Len(doc) /\ doc[i] = Name(text)
            /\ NoneNamed(doc, text, from, i)
            /\ found.reader = At(doc, i + 1)

LEMMA FoundIsFind ==
    ASSUME NEW doc, IsObject(doc), NEW text, NEW at, NEW from,
           FoundFrom(doc, text, from, SearchFrom(doc, text)[at])
    PROVE  Finds(doc, text, from, Find(At(doc, at), text))
<1> DEFINE s == SearchFrom(doc, text)[at]
<1>1. Find(At(doc, at), text) =
        IF s = 0 \/ s = Len(doc) THEN [result |-> "Failed", reader |-> At(doc, at)]
        ELSE [result |-> "Success", reader |-> At(doc, s + 1)]
  BY DEF Find, At
<1> HIDE DEF s
<1>2. Len(doc) \in Nat
  BY DEF IsObject
<1>3. FoundFrom(doc, text, from, s)
  BY DEF s
<1>4. CASE s = 0 \/ s = Len(doc)
  <2>1. ~(s \in Members(doc) /\ s < Len(doc))
    BY <1>2, <1>4, MemberIsName
  <2> QED BY <1>1, <1>3, <1>4, <2>1 DEF FoundFrom, Finds
<1>5. CASE ~(s = 0 \/ s = Len(doc))
  BY <1>1, <1>3, <1>5 DEF FoundFrom, Finds
<1> QED BY <1>4, <1>5

\* A document of one token or none: the reader is at its end at once.
LEMMA ShortReader ==
    ASSUME NEW doc, Len(doc) = 0 \/ Len(doc) = 1
    PROVE  Moved(Reader(doc)) = At(doc, Len(doc)) /\ Moved(Moved(Reader(doc))) = At(doc, Len(doc))
<1>1. Reader(doc) = At(doc, 0)
  BY DEF Reader, At
<1>2. Moved(At(doc, 0)) = At(doc, Len(doc))
  <2>1. (IF 0 < Len(doc) THEN 0 + 1 ELSE 0) = Len(doc)
    OBVIOUS
  <2> QED BY <2>1, MovedAt
<1>3. Moved(At(doc, Len(doc))) = At(doc, Len(doc))
  <2>1. (IF Len(doc) < Len(doc) THEN Len(doc) + 1 ELSE Len(doc)) = Len(doc)
    OBVIOUS
  <2> QED BY <2>1, MovedAt
<1> QED BY <1>1, <1>2, <1>3

\* It is short, or it has the first name, or its beginning, and more.
LEMMA ObjectLengths ==
    ASSUME NEW doc, IsObject(doc)
    PROVE  /\ Len(doc) \in Nat
           /\ Len(doc) = 0 \/ Len(doc) = 1 \/ Len(doc) = 2 \/ Len(doc) > 2
<1>1. Len(doc) \in Nat
  BY DEF IsObject
<1>2. \A n \in Nat : n = 0 \/ n = 1 \/ n = 2 \/ n > 2
  OBVIOUS
<1> QED BY <1>1, <1>2

\* The reader on the first name, or at the end.
LEMMA FirstNameAt ==
    ASSUME NEW doc, IsObject(doc)
    PROVE  Moved(Moved(Reader(doc))) = At(doc, IF Len(doc) > 1 THEN 2 ELSE Len(doc))
<1>1. ASSUME Len(doc) > 1
      PROVE  Moved(Moved(Reader(doc))) = At(doc, 2)
  <2>1. 0 < Len(doc) /\ 1 < Len(doc)
    BY <1>1, ObjectLengths
  <2>2. Reader(doc) = At(doc, 0)
    BY DEF Reader, At
  <2>3. Moved(At(doc, 0)) = At(doc, 1) /\ Moved(At(doc, 1)) = At(doc, 2)
    BY <2>1, MovedAt
  <2> QED BY <2>2, <2>3
<1>2. Len(doc) > 1 \/ (~(Len(doc) > 1) /\ (Len(doc) = 0 \/ Len(doc) = 1))
  BY ObjectLengths
<1> QED BY <1>1, <1>2, ShortReader

\* In a short one there is nothing to find.
LEMMA ShortFinds ==
    ASSUME NEW doc, IsObject(doc), NEW text, NEW from,
           Len(doc) = 0 \/ Len(doc) = 1
    PROVE  Finds(doc, text, from, Find(At(doc, Len(doc)), text))
<1>1. Len(doc) \in Nat
  BY DEF IsObject
<1>2. SearchFrom(doc, text)[Len(doc)] \in {0, Len(doc)}
  BY <1>1, SearchStep DEF Search
<1>3. NoneNamed(doc, text, from, Len(doc))
  <2>1. ASSUME NEW i \in Members(doc)
        PROVE  ~(i < Len(doc))
    <3>1. i \in 1 .. Len(doc)
      BY MemberIsName
    <3> QED BY <3>1
  <2> QED BY <2>1 DEF NoneNamed
<1> QED BY <1>2, <1>3, FoundIsFind DEF FoundFrom

(***************************************************************************)
(* The loops of prvFindRootKeyValue and prvFindManifestSHA, which start at *)
(* the first name of an object: in an object of whatever length and depth  *)
(* they find the value of the first member of that name, and fail only     *)
(* when there is none that has a value.  A string with the text of the     *)
(* name, which the comparison would take for it, is never come to.         *)
(***************************************************************************)
THEOREM FindFromName ==
    ASSUME NEW doc, IsObject(doc), NEW text
    PROVE  Finds(doc, text, 2, Find(Moved(Moved(Reader(doc))), text))
<1>1. Len(doc) \in Nat
  BY DEF IsObject
<1>2. Reader(doc) = At(doc, 0)
  BY DEF Reader, At
<1>3. ASSUME Len(doc) > 1
      PROVE  Finds(doc, text, 2, Find(Moved(Moved(Reader(doc))), text))
  <2>1. Moved(Moved(Reader(doc))) = At(doc, 2)
    BY <1>3, FirstNameAt
  <2>2. MemberOrEnd(doc, 2) /\ 2 \in 1 .. Len(doc)
    BY <1>1, <1>3 DEF IsObject
  <2> QED BY <2>1, <2>2, SearchFinds, FoundIsFind
<1>4. ASSUME Len(doc) = 0 \/ Len(doc) = 1
      PROVE  Finds(doc, text, 2, Find(Moved(Moved(Reader(doc))), text))
  BY <1>4, ShortReader, ShortFinds
<1>5. Len(doc) > 1 \/ Len(doc) = 0 \/ Len(doc) = 1
  BY ObjectLengths
<1> QED BY ONLY <1>3, <1>4, <1>5

(***************************************************************************)
(* The loop of prvFindSJWKValue makes one step less before it starts, and  *)
(* stands on the beginning of the object: it then finds the first member   *)
(* of that name behind the first member, which it never compares.          *)
(***************************************************************************)
THEOREM FindFromBegin ==
    ASSUME NEW doc, IsObject(doc), NEW text
    PROVE  Finds(doc, text, 3, Find(Moved(Reader(doc)), text))
<1> DEFINE s == SearchFrom(doc, text)
           G == Finds(doc, text, 3, Find(Moved(Reader(doc)), text))
<1>1. Len(doc) \in Nat
  BY DEF IsObject
<1>2. Reader(doc) = At(doc, 0)
  BY DEF Reader, At
<1>3. ASSUME Len(doc) = 0 \/ Len(doc) = 1
      PROVE  G
  BY <1>3, ShortReader, ShortFinds
<1>4. ASSUME Len(doc) > 1
      PROVE  G
  <2> DEFINE l == Last(doc, 1)
  <2>1. Moved(Reader(doc)) = At(doc, 1)
    BY <1>1, <1>2, <1>4, MovedAt
  <2>2. l = SkipChildren(At(doc, 2)).at /\ l \in 2 .. Len(doc)
    BY <1>1, <1>4, MovedAt, LastIsBeyond DEF Last
  <2>3. s[1] = IF l = Len(doc) THEN 0 ELSE s[l + 1]
    <3>1. doc[1] = BeginObject
      BY <1>1, <1>4 DEF IsObject
    <3>2. CurrentToken(At(doc, 1)) = BeginObject
      BY <3>1 DEF CurrentToken, At
    <3>3. BeginObject.kind \notin {"PropertyName", "String"}
      BY DEF BeginObject, Token
    <3>4. ~TokenIsTextEqual(At(doc, 1), text)
      BY <3>2, <3>3 DEF TokenIsTextEqual
    <3> QED BY <1>1, <1>4, <3>4, SearchStep DEF Search
  <2>4. ASSUME Len(doc) = 2
        PROVE  G
    <3>1. s[1] = 0
      BY <2>2, <2>3, <2>4
    <3>2. NoneNamed(doc, text, 3, Len(doc))
      BY <2>4, MemberIsName DEF NoneNamed
    <3> QED BY <2>1, <3>1, <3>2, FoundIsFind DEF FoundFrom
  <2>5. ASSUME Len(doc) > 2
        PROVE  G
    <3>1. 2 \in Members(doc) /\ 2 < Len(doc)
      BY <1>1, <2>5 DEF IsObject, MemberOrEnd
    <3>2. l = Last(doc, 2)
      <4>1. doc[2].kind = "PropertyName" /\ doc[3].kind # "PropertyName"
        BY <3>1, MemberIsName, NextMember
      <4>2. SkipChildren(At(doc, 2)) = SkipChildren(At(doc, 3))
        BY <1>1, <2>5, <4>1, MovedAt DEF SkipChildren, CurrentToken, At
      <4> QED BY <2>2, <3>1, <4>2, NextMember
    <3>3. /\ l \in 3 .. Len(doc) /\ (3 .. l) \cap Members(doc) = {} /\ MemberOrEnd(doc, l + 1)
      BY <3>1, <3>2, NextMember
    <3> HIDE DEF l
    <3>4. ASSUME NEW b, NoneNamed(doc, text, l + 1, b)
          PROVE  NoneNamed(doc, text, 3, b)
      BY <1>1, <3>3, <3>4, MemberIsName DEF NoneNamed
    <3>5. CASE l = Len(doc)
      <4>1. NoneNamed(doc, text, l + 1, Len(doc))
        BY <1>1, <3>5, MemberIsName DEF NoneNamed
      <4> QED BY <2>1, <2>3, <3>4, <3>5, <4>1, FoundIsFind DEF FoundFrom
    <3>6. CASE l # Len(doc)
      <4>1. l + 1 \in 1 .. Len(doc)
        BY <1>1, <3>3, <3>6
      <4>2. FoundFrom(doc, text, l + 1, s[l + 1])
        BY <3>3, <4>1, SearchFinds
      <4>3. s[l + 1] \in Members(doc) => s[l + 1] \in 1 .. Len(doc)
        BY MemberIsName
      <4> HIDE DEF s
      <4>4. FoundFrom(doc, text, 3, s[l + 1])
        BY <1>1, <3>3, <3>4, <4>2, <4>3 DEF FoundFrom
      <4>5. FoundFrom(doc, text, 3, s[1])
        BY <2>3, <3>6, <4>4
      <4> QED BY <2>1, <4>5, FoundIsFind DEF s
    <3> QED BY <3>5, <3>6
  <2>6. Len(doc) = 2 \/ Len(doc) > 2
    BY <1>4, ObjectLengths
  <2> QED BY ONLY <2>4, <2>5, <2>6
<1>5. Len(doc) > 1 \/ Len(doc) = 0 \/ Len(doc) = 1
  BY ObjectLengths
<1> QED BY ONLY <1>3, <1>4, <1>5
===============================================================================
