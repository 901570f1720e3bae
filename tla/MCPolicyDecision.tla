-------------------------- MODULE MCPolicyDecision --------------------------
(* Small instances of PolicyDecision: weeks of two days of four minutes.   *)
EXTENDS PolicyDecision

(* "spring" skips a minute of its second day, "autumn" repeats one.        *)
Clocks == {"utc", "spring", "autumn"}
Turned(z, t) == \/ z = "spring" /\ t >= 5
                \/ z = "autumn" /\ t < 5
ClockShift == [z \in Clocks |-> [t \in Nat |-> IF Turned(z, t) THEN 1 ELSE 0]]

Rule(id, group, action, priority, windows, days, zone) ==
    [id |-> id, group |-> group, action |-> action, priority |-> priority,
     windows |-> windows, days |-> days, zone |-> zone]

(* Inside a day, over midnight, a whole day, several windows, not readable. *)
SomeRules == {
    Rule(1, FALSE, "block", 0, {<<1, 3>>}, {0, 1}, "utc"),
    Rule(2, FALSE, "allow", 5, {<<3, 1>>}, {1}, "spring"),
    Rule(3, FALSE, "allow", 0, {<<2, 2>>}, {0}, "utc"),
    Rule(4, FALSE, "block", 0, {<<0, 0>>}, {0, 1}, "autumn"),
    Rule(5, FALSE, "allow", 9, {}, {0, 1}, "utc"),
    Rule(6, FALSE, "block", 5, {<<3, 1>>}, {0}, "autumn"),
    Rule(1, TRUE, "allow", 0, {<<0, 2>>, <<3, 0>>}, {0, 1}, "autumn"),
    Rule(2, TRUE, "block", 9, {<<2, 3>>}, {0}, "spring"),
    Rule(3, TRUE, "allow", 9, {<<0, 2>>}, {0}, "utc") }
=============================================================================
