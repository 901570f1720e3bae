-------------------------- MODULE MCFirewallEngine --------------------------
(* Small instances of FirewallEngine: two IPv4 and one IPv6 address.       *)
EXTENDS FirewallEngine

CONSTANTS phone, tablet, router, public, shouted

Deployed == [backend |-> "nftables", apply |-> TRUE, rollback |-> TRUE, topology |-> "inline"]
Gateway == [Deployed EXCEPT !.topology = "gateway"]
NoRollback == [Deployed EXCEPT !.rollback = FALSE]
DryRun == [Deployed EXCEPT !.apply = FALSE]
NoBackend == [Deployed EXCEPT !.backend = "none"]
Unverified == [Deployed EXCEPT !.topology = "unverified"]

AllConfigs == {Deployed, Gateway, NoRollback, DryRun, NoBackend, Unverified}
DeployedOnly == {Deployed}
GatewayOnly == {Gateway}

(* "shouted" is the IPv6 address "router" typed in capitals. *)
Identity == [s \in Spelling |-> s]
Lowered == [s \in Spelling |-> IF s = shouted THEN router ELSE s]
=============================================================================
