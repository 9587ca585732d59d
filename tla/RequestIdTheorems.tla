--------------------------- MODULE RequestIdTheorems ---------------------------
(***************************************************************************)
(* What prvGetPropertiesRequestId returns, for every even modulus.         *)
(***************************************************************************)
EXTENDS RequestIds, TLAPS

(***************************************************************************)
(* The next identifier is one to four ahead of the current one, counted    *)
(* around the modulus: at most two ahead unless the counter wraps.         *)
(***************************************************************************)
LEMMA NextRequestIdAdvances ==
    ASSUME NEW current \in RequestCounter, NEW odd \in BOOLEAN
    PROVE  LET next == NextRequestId(current, odd) IN
             /\ next \in RequestId
             /\ \/ current + 1 <= next /\ next <= current + 2
                \/ /\ next <= 2
                   /\ current + 1 <= next + IdModulus
                   /\ next + IdModulus <= current + 4
<1>1. /\ IdModulus \in Nat /\ IdModulus >= 4
      /\ current \in Nat /\ current < IdModulus
  BY IdModulusAssumption DEF RequestCounter
<1>2. Stride(current, odd) \in {1, 2}
  BY DEF Stride
<1> QED
  BY <1>1, <1>2 DEF NextRequestId, SkipZero, Wrapped, RequestId

(***************************************************************************)
(* An identifier handed out for a reported-properties update is odd and    *)
(* one for a document request even, also when the counter wraps: "Currently *)
(* we are using odd for PropertiesReported property and even for           *)
(* PropertiesGet."                                                         *)
(***************************************************************************)
LEMMA NextRequestIdParity ==
    ASSUME NEW current \in RequestCounter, NEW odd \in BOOLEAN
    PROVE  IsOdd(NextRequestId(current, odd)) = odd
<1>1. /\ IdModulus \in Nat /\ IdModulus >= 4 /\ IdModulus % 2 = 0
      /\ current \in Nat /\ current < IdModulus
  BY IdModulusAssumption DEF RequestCounter
<1> DEFINE sum == current + Stride(current, odd)
<1>2. sum \in Nat /\ IsOdd(sum) = odd
  BY <1>1 DEF Stride, IsOdd
<1>3. Wrapped(sum) \in Nat /\ IsOdd(Wrapped(sum)) = odd
  BY <1>1, <1>2 DEF Wrapped, IsOdd, Stride
<1>4. IsOdd(SkipZero(Wrapped(sum))) = odd
  BY <1>3 DEF SkipZero, IsOdd
<1> QED
  BY <1>4 DEF NextRequestId
===============================================================================
