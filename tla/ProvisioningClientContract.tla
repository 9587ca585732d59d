----------------------- MODULE ProvisioningClientContract -----------------------
(***************************************************************************)
(* The provisioning client implements the registration contract.  A        *)
(* request is outstanding from its publication until its answer has been   *)
(* read off the wire; what was heard is what the response buffer holds;    *)
(* the outcome is the last result of a complete workflow.                  *)
(***************************************************************************)
EXTENDS ProvisioningClient, FiniteSets

\* Publications on other topics are no answers.
AnswersUnderWay ==
    {k \in 1 .. Len(wire) : wire[k].type = "PUBLISH" /\ wire[k].body # "unknown"}

Outstanding == unanswered + Cardinality(AnswersUnderWay)

Contract == INSTANCE RegistrationContract WITH
    Answer      <- Body,
    Failure     <- Failure,
    Silence     <- "empty",
    outstanding <- Outstanding,
    heard       <- response.body,
    outcome     <- IF state = "COMPLETE" THEN lastResult ELSE "None",
    told        <- verdict

\* Every step of the client is a step the contract allows: whatever is under
\* way, the device asks when it may, ends as it heard and says so once
\* (AzureIoTProvisioningClient_Register, prvProvClientRunWorkflow).
ImplementsContract == Contract!Spec
=================================================================================
