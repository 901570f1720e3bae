----------------------------- MODULE MCWorkspaces -----------------------------
EXTENDS Workspaces

CONSTANTS w1, w2

WindowOrder == <<"devices", "rules", "events">>
Listeners == <<"devices", "events">>
Bounds == [save |-> 1, scan |-> 1, click |-> 1, fault |-> 1]

Symmetry == Permutations({w1, w2})
=============================================================================
