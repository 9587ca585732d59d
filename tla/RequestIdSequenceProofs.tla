------------------------ MODULE RequestIdSequenceProofs ------------------------
(***************************************************************************)
(* The identifiers of the property requests, for every even modulus and    *)
(* every window shorter than half of it.                                   *)
(*                                                                         *)
(* That the remembered identifiers differ is not inductive.  What is: each *)
(* is ahead of the ones before it by at least the number of requests       *)
(* issued since and by at most twice that number, two more if the counter  *)
(* wrapped in between (Spaced), and the newest is the counter (LastIsNow). *)
(***************************************************************************)
EXTENDS RequestIdSequence, RequestIdTheorems

\* Identifier b was issued n requests after a.
Ahead(a, b, n) ==
    \/ a + n <= b /\ b <= a + 2 * n
    \/ a + n <= b + IdModulus /\ b + IdModulus <= a + 2 * n + 2

LastIsNow == issued # << >> => issued[Len(issued)][1] = current

Spaced ==
    \A j, k \in 1 .. Len(issued) :
        j < k => Ahead(issued[j][1], issued[k][1], k - j)

Inv == TypeOK /\ ParityTellsKind /\ LastIsNow /\ Spaced

\* The window spans less than half of the range of identifiers.
LEMMA WindowIsShort ==
    /\ IdModulus \in Nat /\ IdModulus >= 4
    /\ Window \in Nat /\ Window >= 1 /\ 2 * Window + 2 <= IdModulus
  BY IdModulusAssumption, WindowAssumption

(***************************************************************************)
(* One more request: what was n requests ahead of a is followed by what is *)
(* n + 1 ahead.  The counter cannot wrap twice within the window.          *)
(***************************************************************************)
LEMMA AheadGrows ==
    ASSUME NEW a \in RequestId, NEW b \in RequestId, NEW odd \in BOOLEAN,
           NEW n \in Nat, n + 2 <= Window, Ahead(a, b, n)
    PROVE  Ahead(a, NextRequestId(b, odd), n + 1)
<1> DEFINE next == NextRequestId(b, odd)
<1>1. /\ a \in Nat /\ a < IdModulus
      /\ b \in Nat /\ b < IdModulus /\ b \in RequestCounter
  BY WindowIsShort DEF RequestId, RequestCounter
<1>2. /\ next \in Nat
      /\ \/ b + 1 <= next /\ next <= b + 2
         \/ /\ next <= 2
            /\ b + 1 <= next + IdModulus
            /\ next + IdModulus <= b + 4
  BY <1>1, NextRequestIdAdvances, WindowIsShort DEF RequestId
<1> HIDE DEF next
<1>3. Ahead(a, next, n + 1)
  BY <1>1, <1>2, WindowIsShort DEF Ahead
<1> QED
  BY <1>3 DEF next

(***************************************************************************)
(* An initial state satisfies the invariant.                               *)
(***************************************************************************)
LEMMA InitInv == Init => Inv
  BY WindowIsShort
     DEF Init, Inv, TypeOK, ParityTellsKind, LastIsNow, Spaced, RequestCounter

(***************************************************************************)
(* What the window holds after a step: the entries it had, without the     *)
(* oldest when it was full, and the new one at its end.                    *)
(***************************************************************************)
LEMMA RememberShifts ==
    ASSUME TypeOK, NEW entry \in RequestId \X BOOLEAN
    PROVE  LET shift == IF Len(issued) < Window THEN 0 ELSE 1
               len   == Len(Remember(entry))
           IN  /\ Remember(entry) \in Seq(RequestId \X BOOLEAN)
               /\ len = Len(issued) + 1 - shift /\ len <= Window
               /\ Remember(entry)[len] = entry
               /\ \A k \in 1 .. len - 1 :
                    /\ k + shift \in 1 .. Len(issued)
                    /\ Remember(entry)[k] = issued[k + shift]
<1>1. issued \in Seq(RequestId \X BOOLEAN) /\ Len(issued) <= Window /\ Len(issued) \in Nat
  BY DEF TypeOK
<1>2. CASE Len(issued) < Window
  BY <1>1, <1>2, WindowIsShort DEF Remember
<1>3. CASE ~(Len(issued) < Window)
  <2>1. Len(issued) = Window /\ issued # << >>
    BY <1>1, <1>3, WindowIsShort
  <2>2. /\ Tail(issued) \in Seq(RequestId \X BOOLEAN)
        /\ Len(Tail(issued)) = Window - 1
        /\ \A k \in 1 .. Window - 1 : Tail(issued)[k] = issued[k + 1]
    BY <1>1, <2>1, WindowIsShort
  <2>3. Remember(entry) = Append(Tail(issued), entry)
    BY <1>3 DEF Remember
  <2> QED
    BY <1>1, <1>3, <2>1, <2>2, <2>3, WindowIsShort
<1> QED
  BY <1>2, <1>3

(***************************************************************************)
(* A step keeps the invariant.                                             *)
(***************************************************************************)
LEMMA StepInv == Inv /\ [Next]_vars => Inv'
<1> SUFFICES ASSUME Inv, [Next]_vars PROVE Inv'
  OBVIOUS
<1>1. CASE UNCHANGED vars
  BY <1>1 DEF vars, Inv, TypeOK, ParityTellsKind, LastIsNow, Spaced
<1>2. ASSUME NEW odd \in BOOLEAN, Issue(odd) PROVE Inv'
  <2> DEFINE entry == <<current', odd>>
             shift == IF Len(issued) < Window THEN 0 ELSE 1
             len   == Len(issued')
  <2>1. /\ current \in RequestCounter /\ current' = NextRequestId(current, odd)
        /\ current' \in RequestId /\ IsOdd(current') = odd
    BY <1>2, NextRequestIdAdvances, NextRequestIdParity DEF Issue, Inv, TypeOK
  <2>2. entry \in RequestId \X BOOLEAN /\ entry[1] = current' /\ entry[2] = odd
    BY <2>1
  <2>3. /\ issued' \in Seq(RequestId \X BOOLEAN)
        /\ len = Len(issued) + 1 - shift /\ len <= Window
        /\ issued'[len] = entry
        /\ \A k \in 1 .. len - 1 :
             k + shift \in 1 .. Len(issued) /\ issued'[k] = issued[k + shift]
    BY <1>2, <2>2, RememberShifts DEF Issue, Inv
  <2>4. len \in Nat /\ len >= 1 /\ Len(issued) \in Nat /\ Len(issued) <= Window
        /\ shift \in {0, 1}
    BY <2>3, WindowIsShort DEF Inv, TypeOK
  <2> HIDE DEF entry, shift, len
  <2>5. TypeOK'
    BY <2>1, <2>3, WindowIsShort DEF TypeOK, RequestId, RequestCounter, len
  <2>6. ParityTellsKind'
    <3> SUFFICES ASSUME NEW k \in 1 .. len PROVE IsOdd(issued'[k][1]) = issued'[k][2]
      BY DEF ParityTellsKind, len
    <3>1. CASE k = len
      BY <3>1, <2>1, <2>2, <2>3
    <3>2. CASE k # len
      <4>1. k \in 1 .. len - 1
        BY <3>2, <2>4
      <4> QED
        BY <4>1, <2>3 DEF Inv, ParityTellsKind
    <3> QED
      BY <3>1, <3>2
  <2>7. LastIsNow'
    BY <2>2, <2>3 DEF LastIsNow, len
  <2>8. Spaced'
    <3> SUFFICES ASSUME NEW j \in 1 .. len, NEW k \in 1 .. len, j < k
                 PROVE  Ahead(issued'[j][1], issued'[k][1], k - j)
      BY DEF Spaced, Ahead, len
    <3>1. j \in 1 .. len - 1 /\ j + shift \in 1 .. Len(issued)
          /\ issued'[j] = issued[j + shift] /\ issued # << >>
      BY <2>3, <2>4
    <3>2. CASE k # len
      <4>1. /\ k + shift \in 1 .. Len(issued) /\ issued'[k] = issued[k + shift]
            /\ j + shift < k + shift /\ (k + shift) - (j + shift) = k - j
        BY <3>2, <2>3, <2>4
      <4> QED
        BY <3>1, <4>1 DEF Inv, Spaced
    <3>3. CASE k = len
      <4> DEFINE m == j + shift
                 last == Len(issued)
                 n == last - m
      <4>1. /\ m \in 1 .. last /\ last \in 1 .. last /\ n \in Nat
            /\ n = 0 => m = last
            /\ n > 0 => m < last /\ last - m = n
            /\ n + 1 = k - j /\ n + 2 <= Window
        BY <2>3, <2>4, <3>1, <3>3, WindowIsShort
      <4>2. /\ issued[m] \in RequestId \X BOOLEAN
            /\ issued[m][1] \in RequestId /\ issued[m][1] \in Nat
            /\ issued'[j] = issued[m]
            /\ issued[last][1] = current /\ current \in RequestId
            /\ issued'[k][1] = NextRequestId(current, odd)
        <5>1. issued[last] \in RequestId \X BOOLEAN /\ issued[m] \in RequestId \X BOOLEAN
          BY <4>1 DEF Inv, TypeOK
        <5>2. issued[last][1] = current
          BY <3>1 DEF Inv, LastIsNow
        <5>3. issued'[k] = entry
          BY <2>3, <3>3
        <5> QED
          BY <2>1, <2>2, <3>1, <5>1, <5>2, <5>3 DEF RequestId
      <4> HIDE DEF m, last, n
      <4>3. CASE n = 0
        <5>1. issued[m][1] = current
          BY <4>1, <4>2, <4>3
        <5>2. Ahead(current, NextRequestId(current, odd), 1)
          BY <2>1, NextRequestIdAdvances, WindowIsShort DEF Ahead, RequestId, RequestCounter
        <5>3. k - j = 1
          BY <4>1, <4>3
        <5> QED
          BY <4>2, <5>1, <5>2, <5>3
      <4>4. CASE n > 0
        <5>1. Ahead(issued[m][1], issued[last][1], last - m)
          BY <4>1, <4>4 DEF Inv, Spaced, last
        <5>2. Ahead(issued[m][1], current, n)
          BY <4>1, <4>2, <4>4, <5>1
        <5>3. Ahead(issued[m][1], NextRequestId(current, odd), n + 1)
          BY <4>1, <4>2, <5>2, AheadGrows
        <5> QED
          BY <4>1, <4>2, <5>3
      <4> QED
        BY <4>1, <4>3, <4>4
    <3> QED
      BY <3>2, <3>3
  <2> QED
    BY <2>5, <2>6, <2>7, <2>8 DEF Inv
<1> QED
  BY <1>1, <1>2 DEF Next

\* The invariant always holds.
LEMMA Invariance == Spec => []Inv
  BY InitInv, StepInv, PTL DEF Spec

(***************************************************************************)
(* Every identifier handed out is a non-zero uint32_t.                     *)
(***************************************************************************)
THEOREM TypeCorrect == Spec => []TypeOK
<1>1. Inv => TypeOK
  BY DEF Inv
<1> QED
  BY <1>1, Invariance, PTL

(***************************************************************************)
(* The parity of an identifier is the kind of its request, for ever.       *)
(***************************************************************************)
THEOREM ParityAlwaysTellsKind == Spec => []ParityTellsKind
<1>1. Inv => ParityTellsKind
  BY DEF Inv
<1> QED
  BY <1>1, Invariance, PTL

(***************************************************************************)
(* Fewer than half the range of consecutive requests never share an        *)
(* identifier, across the wrap of the counter too.                         *)
(***************************************************************************)
THEOREM WindowAlwaysDistinct == Spec => []WindowDistinct
<1>1. Inv => WindowDistinct
  <2> SUFFICES ASSUME Inv, NEW j \in 1 .. Len(issued), NEW k \in 1 .. Len(issued),
                      j < k
               PROVE  issued[j][1] # issued[k][1]
    BY DEF WindowDistinct
  <2>1. Ahead(issued[j][1], issued[k][1], k - j)
    BY DEF Inv, Spaced
  <2>2. /\ issued[j][1] \in Nat /\ issued[k][1] \in Nat
        /\ k - j \in Nat /\ k - j >= 1 /\ k - j + 1 <= Window
    BY WindowIsShort DEF Inv, TypeOK, RequestId
  <2> QED
    BY <2>1, <2>2, WindowIsShort DEF Ahead
<1> QED
  BY <1>1, Invariance, PTL
===============================================================================
