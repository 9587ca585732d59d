------------------------- MODULE RegistrationContract -------------------------
(***************************************************************************)
(* What the provisioning client promises, without a workflow, packets,     *)
(* timeouts or a clock:                                                    *)
(*                                                                         *)
(*  - it asks the service only when no earlier request is outstanding, for *)
(*    the first time with nothing heard, again when the last thing heard   *)
(*    was that the registration is under way, and never after the end;     *)
(*  - the registration ends in success only when "assigned" was heard; a   *)
(*    failure may still become another failure, but not a success;         *)
(*  - the application is told "Pending" until the end and the outcome from *)
(*    then on, and what it was told does not change any more.              *)
(***************************************************************************)
EXTENDS Naturals

CONSTANTS Answer,       \* what the client can hear
          Failure,      \* the ways in which a registration can fail
          Silence       \* heard before anything was

VARIABLES outstanding,  \* requests sent whose answers were not yet read
          heard,        \* the last answer that counted
          outcome,      \* how the registration ended, "None" before
          told          \* what the application was told, "None" before

vars == <<outstanding, heard, outcome, told>>

Init ==
    /\ outstanding = 0 /\ heard = Silence
    /\ outcome = "None" /\ told = "None"

Ask ==
    /\ outstanding = 0 /\ outcome = "None" /\ heard \in {Silence, "assigning"}
    /\ outstanding' = 1
    /\ UNCHANGED <<heard, outcome, told>>

\* What is read while an answer is outstanding counts, the answer or not; an
\* answer may also be dropped, and is after the end.
Hear(answer) ==
    /\ outstanding > 0 /\ outcome = "None"
    /\ heard' = answer
    /\ outstanding' \in {outstanding, outstanding - 1}
    /\ UNCHANGED <<outcome, told>>

Drop ==
    /\ outstanding > 0 /\ outstanding' = outstanding - 1
    /\ UNCHANGED <<heard, outcome, told>>

\* The application may be told in the same step.
End(result) ==
    /\ told \in {"None", "Pending"}
    /\ \/ result \in Failure /\ outcome # "Success"
       \/ result = "Success" /\ outcome = "None" /\ heard = "assigned"
    /\ outcome' = result
    /\ told' \in {told, result}
    /\ outstanding' \in {outstanding, 0}
    /\ UNCHANGED heard

Tell ==
    /\ told' = IF outcome = "None" THEN "Pending" ELSE outcome
    /\ UNCHANGED <<outstanding, heard, outcome>>

Next ==
    \/ Ask \/ Drop \/ Tell
    \/ \E answer \in Answer : Hear(answer)
    \/ \E result \in Failure \cup {"Success"} : End(result)

Spec == Init /\ [][Next]_vars
===============================================================================
