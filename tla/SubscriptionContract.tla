------------------------- MODULE SubscriptionContract -------------------------
(***************************************************************************)
(* What the hub client promises an application about its subscriptions,    *)
(* without packets, identifiers, timeouts or a connection:                 *)
(*                                                                         *)
(*  - one Subscribe call runs at a time; while it runs the feature is      *)
(*    "opening" and may become "open";                                     *)
(*  - the call reports success exactly when the feature is open at its     *)
(*    end, and a call that reports failure leaves the feature closed;      *)
(*  - an open feature is closed only by a step that does nothing else      *)
(*    (Close), by subscribing it again or by initialising the client: no   *)
(*    Subscribe of another feature, callback or return closes it.  Who     *)
(*    takes a Close, and when, the contract leaves open;                   *)
(*  - the application is called back for a feature only if it is not       *)
(*    closed when the callback starts.                                     *)
(***************************************************************************)
CONSTANTS Feature,
          None          \* not a feature

VARIABLES open,         \* the state of each feature
          calling,      \* the feature whose Subscribe call runs, or None
          handling,     \* the feature whose callback runs, or None
          success       \* the Subscribe call that just ended succeeded

vars == <<open, calling, handling, success>>

Closed == [f \in Feature |-> "closed"]

Init == open = Closed /\ calling = None /\ handling = None /\ success = FALSE

Reset ==
    /\ calling = None /\ handling = None
    /\ open' = Closed /\ success' = FALSE
    /\ UNCHANGED <<calling, handling>>

Begin(f) ==
    /\ calling = None /\ handling = None
    /\ open' = [open EXCEPT ![f] = "opening"]
    /\ calling' = f /\ success' = FALSE
    /\ UNCHANGED handling

\* The feature being subscribed is the only one that can become open.
Open(f) ==
    /\ calling = f /\ open[f] = "opening" /\ handling = None
    /\ open' = [open EXCEPT ![f] = "open"] /\ success' = FALSE
    /\ UNCHANGED <<calling, handling>>

End(f) ==
    /\ calling = f /\ handling = None
    /\ success' = (open[f] = "open")
    /\ open' = IF success' THEN open ELSE [open EXCEPT ![f] = "closed"]
    /\ calling' = None
    /\ UNCHANGED handling

\* An unsubscription, by the application or in a callback.
Close(f) ==
    /\ open' = [open EXCEPT ![f] = "closed"] /\ success' = FALSE
    /\ UNCHANGED <<calling, handling>>

Handle(f) ==
    /\ open[f] # "closed" /\ handling = None
    /\ handling' = f /\ success' = FALSE
    /\ UNCHANGED <<open, calling>>

Handled == handling' = None /\ success' = FALSE /\ UNCHANGED <<open, calling>>

Next ==
    \/ \E f \in Feature :
         Begin(f) \/ Open(f) \/ End(f) \/ Close(f) \/ Handle(f)
    \/ Reset \/ Handled

Spec == Init /\ [][Next]_vars
===============================================================================
