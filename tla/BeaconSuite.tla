----------------------------- MODULE BeaconSuite -----------------------------
(***************************************************************************)
(* What the beacon one-shot lane promises, whatever runs, crashes or loses *)
(* power: the registered state machine of BEACON_HELDOUT_PROTOCOL.md, over *)
(* the state that a power loss cannot take back.                           *)
(*                                                                         *)
(* A suite is started once, the pulse is revealed to one run, the window   *)
(* it selects is evaluated once, and at most one terminal verdict is       *)
(* reached.  A run that dies leaves the suite where it was for ever.       *)
(***************************************************************************)
EXTENDS FiniteSets

CONSTANT Runs

VARIABLES
    state,      \* the durable state of the suite
    revealed,   \* the runs that have seen the pulse
    evaluated   \* the runs that have opened the model and the test split

vars == <<state, revealed, evaluated>>

States == {"PREREGISTERED", "ATTEMPT_STARTED", "BEACON_RESOLVED",
           "PASS", "FAIL_GATES", "FAIL_EXECUTION"}

Init ==
    /\ state = "PREREGISTERED"
    /\ revealed = {}
    /\ evaluated = {}

StartAttempt ==
    /\ state = "PREREGISTERED"
    /\ state' = "ATTEMPT_STARTED"
    /\ UNCHANGED <<revealed, evaluated>>

Reveal(r) ==
    /\ state = "ATTEMPT_STARTED"
    /\ revealed = {}
    /\ revealed' = {r}
    /\ UNCHANGED <<state, evaluated>>

Resolve ==
    /\ state = "ATTEMPT_STARTED"
    /\ revealed # {}
    /\ state' = "BEACON_RESOLVED"
    /\ UNCHANGED <<revealed, evaluated>>

Evaluate(r) ==
    /\ state = "BEACON_RESOLVED"
    /\ evaluated = {}
    /\ r \in revealed
    /\ evaluated' = {r}
    /\ UNCHANGED <<state, revealed>>

Conclude(verdict) ==
    /\ state = "BEACON_RESOLVED"
    /\ evaluated # {}
    /\ state' = verdict
    /\ UNCHANGED <<revealed, evaluated>>

FailExecution ==
    /\ state \in {"ATTEMPT_STARTED", "BEACON_RESOLVED"}
    /\ state' = "FAIL_EXECUTION"
    /\ UNCHANGED <<revealed, evaluated>>

Next ==
    \/ StartAttempt
    \/ \E r \in Runs : Reveal(r) \/ Evaluate(r)
    \/ Resolve
    \/ \E verdict \in {"PASS", "FAIL_GATES"} : Conclude(verdict)
    \/ FailExecution

Spec == Init /\ [][Next]_vars
=============================================================================
