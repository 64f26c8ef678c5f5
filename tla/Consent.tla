------------------------------ MODULE Consent ------------------------------
(***************************************************************************)
(* What the update notifications promise: "No data is transmitted unless   *)
(* the user explicitly allows it" (doc/about/update_notifications).  The   *)
(* user allows one process to send its request, or all of them for good;   *)
(* nothing else lets a process send one.  This is the abstract             *)
(* specification of VersionCheck and translates no code.                   *)
(***************************************************************************)
CONSTANT Process

VARIABLES
    standing,   \* the user has allowed all processes to send requests
    permitted,  \* the processes that may send one because they were told to
    sending     \* the processes whose request is under way

consent == <<standing, permitted, sending>>

Init == standing = FALSE /\ permitted = {} /\ sending = {}

Allow(p) ==
    /\ permitted' = permitted \cup {p}
    /\ UNCHANGED <<standing, sending>>

AllowAlways(p) ==
    /\ standing' = TRUE
    /\ permitted' = permitted \cup {p}
    /\ UNCHANGED sending

Send(p) ==
    /\ p \notin sending
    /\ standing \/ p \in permitted
    /\ sending' = sending \cup {p}
    /\ UNCHANGED <<standing, permitted>>

Answered(p) ==
    /\ sending' = sending \ {p}
    /\ UNCHANGED <<standing, permitted>>

End(p) ==
    /\ permitted' = permitted \ {p}
    /\ UNCHANGED <<standing, sending>>

Next == \E p \in Process : Allow(p) \/ AllowAlways(p) \/ Send(p) \/ Answered(p) \/ End(p)

Spec == Init /\ [][Next]_consent
=============================================================================
