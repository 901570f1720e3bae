---------------------------- MODULE ScanPromise ----------------------------
(***************************************************************************)
(* What a discovery scan promises to somebody who watches only when it is  *)
(* asked to stop, when the devices are written, when the identities in     *)
(* memory change, and how it ends: all of a scan or nothing of it.         *)
(***************************************************************************)
VARIABLES
    phase,     \* "idle", "probing", "doomed" once a cancel was accepted, "written"
    outcome,   \* how the last scan ended
    identities \* the identities in memory

vars == <<phase, outcome, identities>>

Init == phase = "idle" /\ outcome = "none"

Begin ==
    /\ phase = "idle" /\ phase' = "probing"
    /\ outcome' = "none"
    /\ UNCHANGED identities

(* "Cancel before persistence begins." *)
AcceptCancel ==
    /\ phase = "probing" /\ phase' = "doomed"
    /\ UNCHANGED <<outcome, identities>>

Write ==
    /\ phase = "probing" /\ phase' = "written"
    /\ UNCHANGED <<outcome, identities>>

(* "Do not mutate runtime identity when persistence fails." *)
Adopt ==
    /\ phase = "written"
    /\ UNCHANGED <<phase, outcome>>

(* A scan that was accepted to be cancelled ends so; one that has written  *)
(* does not claim to have left the previous state as it was.               *)
End ==
    /\ phase # "idle" /\ phase' = "idle"
    /\ outcome' \in CASE phase = "doomed"  -> {"cancelled"}
                      [] phase = "written" -> {"done", "error"}
                      [] OTHER             -> {"cancelled", "error"}
    /\ phase # "written" => UNCHANGED identities

Next == Begin \/ AcceptCancel \/ Write \/ Adopt \/ End

Spec == Init /\ [][Next]_vars
=============================================================================
