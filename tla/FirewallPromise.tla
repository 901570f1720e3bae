--------------------------- MODULE FirewallPromise ---------------------------
(***************************************************************************)
(* What the firewall engine promises to somebody who watches only the      *)
(* kernel's set of blocked addresses and how each enforcing sync ended.    *)
(***************************************************************************)
CONSTANT Address

VARIABLES
    installed,   \* blocked addresses in the kernel
    phase,       \* "idle", "busy", or how the last sync ended
    old, wanted  \* what the running sync found and what it is to install

vars == <<installed, phase, old, wanted>>

Init ==
    /\ installed \in SUBSET Address
    /\ phase = "idle" /\ old = {} /\ wanted = {}

Begin ==
    /\ phase = "idle" /\ phase' = "busy"
    /\ old' = installed /\ wanted' \in SUBSET Address
    /\ UNCHANGED installed

(* Every state in between is the old set, the wanted set, or both. *)
Write ==
    /\ phase = "busy"
    /\ installed' \in {old, wanted, old \cup wanted}
    /\ UNCHANGED <<phase, old, wanted>>

(* A sync says "installed" or "restored" only when that is so.  It may     *)
(* also end without a claim: a dry run, a crash, a recorded recovery       *)
(* error, an event store that failed.                                      *)
Finish ==
    /\ phase = "busy"
    /\ \/ phase' = "installed" /\ installed = wanted
       \/ phase' = "restored" /\ installed = old
       \/ phase' = "idle"
    /\ old' = {} /\ wanted' = {}
    /\ UNCHANGED installed

Rest ==
    /\ phase \in {"installed", "restored"} /\ phase' = "idle"
    /\ UNCHANGED <<installed, old, wanted>>

(* An explicit rollback clears the set. *)
Clear ==
    /\ phase = "idle" /\ installed' = {}
    /\ UNCHANGED <<phase, old, wanted>>

Next == Begin \/ Write \/ Finish \/ Rest \/ Clear

Spec == Init /\ [][Next]_vars
=============================================================================
