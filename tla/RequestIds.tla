------------------------------ MODULE RequestIds ------------------------------
(***************************************************************************)
(* The request identifiers of the hub client's property messages           *)
(* (prvGetPropertiesRequestId).  The client keeps one counter for the two  *)
(* kinds of request and tells the kind of an answer from the parity of the *)
(* identifier it carries: odd for a reported-properties update, even for a *)
(* request of the property document.                                       *)
(***************************************************************************)
EXTENDS Naturals

CONSTANT IdModulus      \* 2^32: the counter is a uint32_t

ASSUME IdModulusAssumption ==
    IdModulus \in Nat /\ IdModulus >= 4 /\ IdModulus % 2 = 0

RequestCounter == 0 .. IdModulus - 1     \* 0 only before the first request
RequestId      == 1 .. IdModulus - 1

IsOdd(id) == id % 2 = 1

\* Mutant: a counter that already has the wanted parity is not moved.
StrideToParity(current, odd) == IF IsOdd(current) = odd THEN 0 ELSE 1

\* The counter moves by two when it already has the wanted parity, else by one.
Stride(current, odd) == IF IsOdd(current) = odd THEN 2 ELSE 1

\* Addition on uint32_t.
Wrapped(n) == IF n < IdModulus THEN n ELSE n - IdModulus

\* Mutant: after a wrap the counter restarts at one, whatever the parity wanted.
SkipZeroToOne(n) == IF n = 0 THEN 1 ELSE n

\* Mutant: the wrap is not noticed.
ZeroKept(n) == n

\* Identifier zero is never used; the first even identifier replaces it.
SkipZero(n) == IF n = 0 THEN 2 ELSE n

NextRequestId(current, odd) == SkipZero(Wrapped(current + Stride(current, odd)))
===============================================================================
