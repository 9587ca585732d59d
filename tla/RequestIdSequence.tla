--------------------------- MODULE RequestIdSequence ---------------------------
(***************************************************************************)
(* The sequence of identifiers the client hands out when reported-property *)
(* updates and document requests are issued in any order, with the last    *)
(* Window of them remembered.                                              *)
(***************************************************************************)
EXTENDS RequestIds, Sequences

CONSTANT Window         \* how many of the latest identifiers are remembered

ASSUME WindowAssumption == Window \in 1 .. IdModulus \div 2 - 1

VARIABLES current,      \* ulCurrentPropertyRequestID
          issued        \* the latest identifiers, oldest first: <<id, odd>>

vars == <<current, issued>>

Remember(entry) ==
    IF Len(issued) < Window THEN Append(issued, entry)
                            ELSE Append(Tail(issued), entry)

Init == current = 0 /\ issued = << >>

Issue(odd) ==
    /\ current' = NextRequestId(current, odd)
    /\ issued'  = Remember(<<current', odd>>)

Next == \E odd \in BOOLEAN : Issue(odd)

Spec == Init /\ [][Next]_vars

\* Every identifier handed out is a non-zero uint32_t.
TypeOK ==
    /\ current \in RequestCounter
    /\ issued \in Seq(RequestId \X BOOLEAN)
    /\ Len(issued) <= Window

(***************************************************************************)
(* An identifier carries the kind of its request in its parity, across the *)
(* wrap of the counter too: prvAzureIoTHubClientPropertiesProcess tells    *)
(* the kind of an answer from nothing else.                                *)
(***************************************************************************)
ParityTellsKind ==
    \A k \in 1 .. Len(issued) : IsOdd(issued[k][1]) = issued[k][2]

(***************************************************************************)
(* Requests that can be outstanding together have different identifiers:   *)
(* any IdModulus/2 - 1 requests in a row do (two of a kind are never one   *)
(* identifier until half of the range has been used).                      *)
(***************************************************************************)
WindowDistinct ==
    \A j, k \in 1 .. Len(issued) : j # k => issued[j][1] # issued[k][1]
===============================================================================
