----------------------------- MODULE ScanReport -----------------------------
(***************************************************************************)
(* What the sources of a discovery scan answer and how one report is made  *)
(* of it: network/discovery.py.  A host is an address, the interface it    *)
(* was seen on, the MAC it claims, and whether the answer was fresh        *)
(* (presence_confirmed).  Names, vendors, ports and latencies enrich a     *)
(* host without changing any of these and are left out.                    *)
(***************************************************************************)
EXTENDS Naturals, Sequences, FiniteSets, FiniteSetsExt, SequencesExt

CONSTANTS Mac, Ip, Interface, NoMac, NoInterface

ASSUME ReportAssumption == NoMac \notin Mac /\ NoInterface \notin Interface

Host == [ip : Ip, interface : Interface \cup {NoInterface}, mac : Mac \cup {NoMac},
         confirmed : BOOLEAN]

(* What the inventory says of an address that is up.                       *)
UpHost == [ip : Ip, mac : Mac \cup {NoMac}]

(* _dedupe: the last host of an address and interface takes the place of   *)
(* the first.                                                              *)
Replacing(found, h) ==
    LET same == {i \in DOMAIN found : found[i].ip = h.ip /\ found[i].interface = h.interface}
    IN IF same = {} THEN Append(found, h) ELSE [found EXCEPT ![Min(same)] = h]

Dedupe(hosts) == FoldLeft(Replacing, << >>, hosts)

(* Seeded fault: one address is one host, whoever claims it. *)
SameAddress(item, h) == item.ip = h.ip

(* The same path: another MAC is another host, and an answer without an    *)
(* interface belongs to any path of its address and MAC.                   *)
SamePath(item, h) ==
    /\ item.ip = h.ip
    /\ item.mac = h.mac
    /\ item.interface = h.interface \/ NoInterface \in {item.interface, h.interface}

(* _merge_discovery: the first host of the same path learns what is new.   *)
Joined(item, h) ==
    [item EXCEPT !.interface = IF item.interface = NoInterface THEN h.interface ELSE item.interface,
                 !.confirmed = item.confirmed \/ h.confirmed]

Merging(result, h) ==
    LET same == {i \in DOMAIN result : SamePath(result[i], h)}
    IN IF same = {} THEN Append(result, h)
       ELSE [result EXCEPT ![Min(same)] = Joined(result[Min(same)], h)]

Merge(hosts) == FoldLeft(Merging, << >>, hosts)

(* _apply_deep_scan: the inventory confirms the last host of an address it *)
(* found up, under the MAC it names, if it names one, else under its own.  *)
Confirmed(item, up) ==
    [item EXCEPT !.mac = IF up.mac = NoMac THEN item.mac ELSE up.mac, !.confirmed = TRUE]

Inventoried(result, up) ==
    LET same == {i \in DOMAIN result : result[i].ip = up.ip}
    IN IF same = {}
       THEN Append(result, [ip |-> up.ip, interface |-> NoInterface, mac |-> up.mac,
                            confirmed |-> TRUE])
       ELSE [result EXCEPT ![Max(same)] = Confirmed(result[Max(same)], up)]

Overlay(hosts, found) == FoldLeft(Inventoried, hosts, found)

(* observations_from_hosts *)
Observed(hosts) == {hosts[i].mac : i \in {j \in DOMAIN hosts : hosts[j].confirmed}} \ {NoMac}

(* DiscoveryReport.complete speaks of the sources that a mode asks.        *)
Requested(mode) ==
    CASE mode = "passive" -> {"passive"}
      [] mode = "active"  -> {"active"}
      [] mode = "hybrid"  -> {"passive", "active"}
      [] OTHER            -> {"passive", "active", "deep"}
=============================================================================
