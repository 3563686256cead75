--------------------------- MODULE SessionLifecycle ---------------------------
(***************************************************************************)
(* What vperfetto.h promises of a session: it is started, traced, saved,   *)
(* and only then the next one can start ("Don't enable it twice", "Don't   *)
(* enable if we are saving").                                              *)
(***************************************************************************)
EXTENDS Naturals

VARIABLES
    phase,   \* of the current session
    session  \* its number

Init == phase = "idle" /\ session = 0

Start ==
    /\ phase = "idle"
    /\ phase' = "tracing"
    /\ session' = session + 1

\* The trace is saved at once, or in the background.
Stop ==
    /\ phase = "tracing"
    /\ phase' \in {"idle", "saving"}
    /\ UNCHANGED session

Saved ==
    /\ phase = "saving"
    /\ phase' = "idle"
    /\ UNCHANGED session

Next == Start \/ Stop \/ Saved

Spec == Init /\ [][Next]_<<phase, session>>
=============================================================================
