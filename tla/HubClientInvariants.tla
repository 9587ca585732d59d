-------------------------- MODULE HubClientInvariants --------------------------
(***************************************************************************)
(* The inductive invariants the theorems about the hub client rest on.     *)
(***************************************************************************)
EXTENDS HubClient, Functions

(***************************************************************************)
(* The safety invariants.  What the hub still owes and what is on the wire *)
(* are treated alike.                                                      *)
(***************************************************************************)
UnderWay == owed \cup Range(wire)

\* One blocking call at a time.
CallShape ==
    /\ pc = "app" => waiting = NoFeature
    /\ acked => waiting # NoFeature

\* Every answer under way, and the one handed over, carries its kind.
AnswersMarked ==
    /\ \A m \in UnderWay :
         m.type = "RESPONSE" => IsOdd(m.id) = (m.kind = "Reported")
    /\ AnswerHasTypeOfRequest

Inv == TypeOK /\ CallShape /\ NoAbandonedSubscribe /\ AnswersMarked

(***************************************************************************)
(* The rest holds as long as no packet identifier is used twice.           *)
(***************************************************************************)
NoReuse == PacketIdBound < MaxPacketId

\* The next packet identifier is above every one in use, and no two contexts
\* hold the same one.
ContextsFresh ==
    /\ \A f \in Feature : ctx[f].pid < packetId
    /\ \A f, g \in Feature : f # g /\ ctx[f].pid = ctx[g].pid => ctx[f].pid = 0
    /\ \A f \in Feature : ctx[f].pid = 0 => ctx[f].state = "NONE"

SubacksFresh == \A m \in UnderWay : m.type = "SUBACK" => m.id < packetId

\* The context whose SUBACK was read is marked, unless it was erased.
AckedIsMarked == acked => ctx[waiting].state # "SUB"

\* A SUBACK under way for a context means that the hub has its subscription,
\* unless it is still to be read of a session that is over.
SubackMeansSubscribed ==
    link = "up" \/ persistent =>
      \A f \in Feature : \A m \in UnderWay :
        m.type = "SUBACK" /\ m.id = ctx[f].pid => f \in subscribed

\* The inductive invariant of the theorems about Subscribe calls and sessions:
\* an identifier belongs to one context only, and a SUBACK on its way to it and
\* the subscriptions the hub has agree.
FreshInv ==
    Inv /\ ContextsFresh /\ SubacksFresh /\ AckedIsMarked /\ SubackMeansSubscribed
================================================================================
