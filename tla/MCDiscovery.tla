---------------------------- MODULE MCDiscovery ----------------------------
(* Small instances of Discovery: two cards, two addresses, two interfaces. *)
EXTENDS Discovery

CONSTANTS a, b, eth, wlan

TwoMacs == {a, b}
AnyThenActive == <<AllModes, {"active"}>>
TwoInterfaces == {eth, wlan}
Seen(ip, interface, mac, confirmed) ==
    [ip |-> ip, interface |-> interface, mac |-> mac, confirmed |-> confirmed]
Replied(ip, mac) == Seen(ip, NoInterface, mac, TRUE)
Up(ip, mac) == [ip |-> ip, mac |-> mac]

(* Fresh, stale and nameless entries, one address on two interfaces, and an *)
(* entry that has gone stale between two listings of the table. *)
SomeNeighbours == {
    <<Seen(1, eth, a, TRUE), Seen(1, eth, a, FALSE)>>,
    <<Seen(1, eth, NoMac, FALSE), Seen(2, eth, b, TRUE)>>,
    <<Seen(1, eth, a, FALSE), Seen(1, wlan, b, TRUE)>> }

(* Two cards that answer for one address, and a reply without a valid MAC. *)
SomeReplies == {
    << >>,
    <<Replied(1, a)>>,
    <<Replied(1, b), Replied(2, a)>>,
    <<Replied(1, a), Replied(1, b)>>,
    <<Replied(1, a), Replied(1, NoMac)>> }

SomeInventories == {
    <<Up(1, b)>>,
    <<Up(2, a), Up(1, NoMac)>> }
=============================================================================
