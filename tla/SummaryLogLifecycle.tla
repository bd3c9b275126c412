-------------------------- MODULE SummaryLogLifecycle --------------------------
(***************************************************************************)
(* What the service promises about a summary log, whoever calls it and     *)
(* however often: it is announced, one uploaded file is accepted or        *)
(* rejected, and an accepted file gets one verdict, about that very file.  *)
(* Source: domain/summary-logs/status.js (VALID_TRANSITIONS).              *)
(***************************************************************************)
CONSTANTS Logs, FileIds, NoFile

VARIABLES
    phase,     \* phase[l]: status of log l, "absent" before it is stored
    accepted,  \* accepted[l]: the file whose outcome was recorded
    judged     \* judged[l]: the file the verdict is about

lifecycle == <<phase, accepted, judged>>

Init ==
    /\ phase = [l \in Logs |-> "absent"]
    /\ accepted = [l \in Logs |-> NoFile]
    /\ judged = [l \in Logs |-> NoFile]

Undecided(l) == phase[l] \in {"absent", "preprocessing"}

\* The upload is known but not scanned yet.
Announce(l) ==
    /\ Undecided(l)
    /\ phase' = [phase EXCEPT ![l] = "preprocessing"]
    /\ UNCHANGED <<accepted, judged>>

\* The scan is over: the file is rejected, or accepted for validation.
Decide(l, file, outcome) ==
    /\ Undecided(l)
    /\ outcome \in {"rejected", "validating"}
    /\ phase' = [phase EXCEPT ![l] = outcome]
    /\ accepted' = [accepted EXCEPT ![l] = file]
    /\ UNCHANGED judged

\* The validator's verdict on the accepted file.
Conclude(l, verdict) ==
    /\ phase[l] = "validating"
    /\ verdict \in {"validated", "invalid"}
    /\ phase' = [phase EXCEPT ![l] = verdict]
    /\ judged' = [judged EXCEPT ![l] = accepted[l]]
    /\ UNCHANGED accepted

Next == \E l \in Logs :
    \/ Announce(l)
    \/ \E f \in FileIds, o \in {"rejected", "validating"} : Decide(l, f, o)
    \/ \E v \in {"validated", "invalid"} : Conclude(l, v)

Spec == Init /\ [][Next]_lifecycle
================================================================================
