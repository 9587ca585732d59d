--------------------------- MODULE HubClientContract ---------------------------
(***************************************************************************)
(* The hub client implements the subscription contract.  A receive context *)
(* is the contract's state of its feature; the contract sees the end of a  *)
(* Subscribe call through the call's result.                               *)
(***************************************************************************)
EXTENDS HubClient

Openness == [NONE |-> "closed", SUB |-> "opening", SUBACK |-> "open"]

\* History: a Subscribe call ended in the last step and reported success.
VARIABLE granted

ContractInit == Init /\ granted = FALSE

ContractNext ==
    /\ Next
    /\ granted' = (waiting # NoFeature /\ waiting' = NoFeature /\ result' = "Success")

ContractSpec == ContractInit /\ [][ContractNext]_<<vars, granted>>

Contract == INSTANCE SubscriptionContract WITH
    Feature  <- Feature,
    None     <- NoFeature,
    open     <- [f \in Feature |-> Openness[ctx[f].state]],
    calling  <- waiting,
    handling <- event.feature,
    success  <- granted

\* Every step of the client is a step the contract allows.
ImplementsContract == Contract!Spec
===============================================================================
