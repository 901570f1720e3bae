--------------------------- MODULE MCPolicyStore ---------------------------
(* Small instances of PolicyStore: two devices, two names. *)
EXTENDS PolicyStore, TLC

CONSTANTS d1, d2, n1, n2

TwoDevices == {d1, d2}
TwoNames == {n1, n2}
Symmetric == Permutations(TwoDevices) \cup Permutations(TwoNames)
=============================================================================
