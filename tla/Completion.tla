----------------------------- MODULE Completion -----------------------------
(***************************************************************************)
(* What a Completion Controller promises its caller (spec 4.3), per        *)
(* submission: it is idle until submitted, then watching, and it closes    *)
(* once, in one step that reports at most one outcome; the outcome never   *)
(* changes afterwards.  A close with no outcome is the error path that     *)
(* reports neither success nor failure.                                    *)
(***************************************************************************)
CONSTANT Tx

VARIABLES
    phase,     \* "idle", "watching" or "closed"
    outcome    \* "none", "success" or "failure"

cvars == <<phase, outcome>>

Phases == {"idle", "watching", "closed"}
Reports == {"none", "success", "failure"}

CInit ==
    /\ phase = [t \in Tx |-> "idle"]
    /\ outcome = [t \in Tx |-> "none"]

Watch(t) ==
    /\ phase[t] = "idle"
    /\ phase' = [phase EXCEPT ![t] = "watching"]
    /\ UNCHANGED outcome

Close(t) ==
    /\ phase[t] = "watching"
    /\ phase' = [phase EXCEPT ![t] = "closed"]
    /\ \E o \in Reports : outcome' = [outcome EXCEPT ![t] = o]

CNext == \E t \in Tx : Watch(t) \/ Close(t)

CSpec == CInit /\ [][CNext]_cvars
=============================================================================
