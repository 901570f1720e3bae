-------------------------- MODULE MCDeviceRegistry --------------------------
(* Small instances of DeviceRegistry: two cards, two addresses. *)
EXTENDS DeviceRegistry

CONSTANTS a, b

TwoMacs == {a, b}
OnePlace == {{}, {1}, {2}}
TwoPaths == {{}, {1}, {1, 2}}
SameRank == [p \in {1, 2} |-> 0]
Symmetric == Permutations({a, b})
=============================================================================
