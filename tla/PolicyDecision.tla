--------------------------- MODULE PolicyDecision ---------------------------
(***************************************************************************)
(* What a device is allowed to do, and when that changes: weekly schedules *)
(* (manager/schedules.py), the precedence of profiles and rules and the    *)
(* search for the next change (manager/policy_engine.py), and the report   *)
(* of overlapping rules (manager/rule_manager.py).                         *)
(*                                                                         *)
(* One device, its profiles and its rules, while the clock moves from one  *)
(* minute to the next.  A week has Days days of Minutes minutes; a zone is *)
(* the shift of its wall clock against UTC at every instant, so that a     *)
(* wall time may be skipped or repeated.                                   *)
(***************************************************************************)
EXTENDS Integers, FiniteSetsExt

CONSTANTS
    Days, Minutes,   \* days of a week, minutes of a day (scaled down)
    Zone, Shift,     \* Shift[z][t]: local time minus UTC at instant t
    Rules,           \* rules a device or its reusable profile may have
    MaxRules,        \* how many of them apply to the device at once (a bound)
    MaxSteps,        \* 2048 in the code: rule changes followed in one search
    LastInstant      \* where the clock stops (a bound)

Week == Days * Minutes
Horizon == Week + Minutes       \* "eight days"

Mode == {"unrestricted", "controlled", "blocked"}
Day == 0 .. Days - 1
Minute == 0 .. Minutes - 1

(* windows: pairs of minutes, and none at all in a schedule, zone or list  *)
(* of weekdays that does not parse (a row edited by hand).                 *)
RuleRecord == [id : Nat, group : BOOLEAN, action : {"allow", "block"}, priority : Nat,
               windows : SUBSET (Minute \X Minute), days : SUBSET Day, zone : Zone]

ASSUME SizeAssumption ==
    /\ Days \in Nat \ {0} /\ Minutes \in Nat \ {0}
    /\ MaxRules \in Nat /\ MaxSteps \in Nat \ {0} /\ LastInstant \in Nat
ASSUME ShiftAssumption ==
    \A z \in Zone, t \in 0 .. LastInstant + 2 * Horizon : Shift[z][t] \in Int
ASSUME RuleAssumption ==
    /\ Rules \subseteq RuleRecord /\ IsFiniteSet(Rules)
    /\ \A r, q \in Rules : r.id = q.id /\ r.group = q.group => r = q

VARIABLES
    now,       \* the instant of the evaluation
    profiles,  \* modes of the device's own profiles and of its reusable one
    rules,     \* its own rules and those of its reusable profile
    enabled    \* those of them that are switched on

vars == <<now, profiles, rules, enabled>>

Never == -1
-----------------------------------------------------------------------------
(* manager/schedules.py *)
Valid(rule) == rule.windows # {}

(* Seeded fault: an overnight window belongs to both weekdays it touches. *)
EitherWeekday(rule, t) ==
    LET local == t + Shift[rule.zone][t]
        minute == local % Minutes
        day == (local \div Minutes) % Days
    IN \E w \in rule.windows :
          \/ w[1] = w[2] /\ day \in rule.days
          \/ w[1] < w[2] /\ day \in rule.days /\ w[1] <= minute /\ minute < w[2]
          \/ w[1] > w[2] /\ day \in rule.days /\ (minute >= w[1] \/ minute < w[2])

(* A window whose ends coincide is a whole day; an overnight window belongs *)
(* to the weekday it starts on.                                             *)
Active(rule, t) ==
    LET local == t + Shift[rule.zone][t]
        minute == local % Minutes
        day == (local \div Minutes) % Days
    IN \E w \in rule.windows :
          \/ w[1] = w[2] /\ day \in rule.days
          \/ w[1] < w[2] /\ day \in rule.days /\ w[1] <= minute /\ minute < w[2]
          \/ w[1] > w[2] /\ day \in rule.days /\ minute >= w[1]
          \/ w[1] > w[2] /\ (day - 1) % Days \in rule.days /\ minute < w[2]

(* Seeded fault: the weekdays are forgotten. *)
EveryWholeDay(rule) == \E w \in rule.windows : w[1] = w[2]

(* The shortcut for a rule that is always on. *)
AlwaysOn(rule) == rule.days = Day /\ \E w \in rule.windows : w[1] = w[2]

(* Seeded fault: the search begins at midnight. *)
NextChangeOfDay(rule, t) ==
    LET midnight == (t \div Minutes) * Minutes
        changes == {u \in midnight .. t + Horizon : Active(rule, u) # Active(rule, t)}
    IN IF rule \notin enabled \/ ~Valid(rule) \/ changes = {} THEN Never ELSE Min(changes)

(* The first minute of the next eight days at which the rule is no longer  *)
(* what it is at t.                                                        *)
NextChange(rule, t) ==
    LET changes == {u \in t + 1 .. t + Horizon : Active(rule, u) # Active(rule, t)}
    IN IF rule \notin enabled \/ ~Valid(rule) \/ AlwaysOn(rule) \/ changes = {}
       THEN Never ELSE Min(changes)

(* Seeded fault: one day less. *)
OverlapsWithinWeek(left, right, t) ==
    LET midnight == (t \div Minutes) * Minutes
    IN \E u \in midnight .. midnight + Week - 1 : Active(left, u) /\ Active(right, u)

(* Do both hold in some minute of eight days, from midnight UTC?           *)
Overlaps(left, right, t) ==
    LET midnight == (t \div Minutes) * Minutes
    IN \E u \in midnight .. midnight + Horizon - 1 : Active(left, u) /\ Active(right, u)
-----------------------------------------------------------------------------
(* decision(): a blocked profile, then any active block, then a controlled *)
(* profile, which only an active allow opens.                              *)
Enabled(t) == {r \in enabled : Valid(r) /\ Active(r, t)}

(* Priority first, then the device's own rules, then the older row. *)
Precedes(r, q) ==
    \/ r.priority > q.priority
    \/ r.priority = q.priority /\ ~r.group /\ q.group
    \/ r.priority = q.priority /\ r.group = q.group /\ r.id < q.id

First(S) == CHOOSE r \in S : \A q \in S \ {r} : Precedes(r, q)
Having(action, t) == {r \in Enabled(t) : r.action = action}

(* Seeded fault: a block lets through outside its hours. *)
AllowedOutsideBlocks(t) ==
    IF "blocked" \in profiles \/ Having("block", t) # {} THEN FALSE
    ELSE "controlled" \in profiles =>
            \E r \in enabled : Valid(r) /\ (r.action = "allow" <=> Active(r, t))

Allowed(t) ==
    IF "blocked" \in profiles \/ Having("block", t) # {} THEN FALSE
    ELSE "controlled" \in profiles => Having("allow", t) # {}

Reason(t) ==
    IF "blocked" \in profiles THEN <<"profile", "blocked">>
    ELSE IF Having("block", t) # {} THEN <<"rule", First(Having("block", t))>>
    ELSE IF Having("allow", t) # {} THEN <<"rule", First(Having("allow", t))>>
    ELSE IF "controlled" \in profiles THEN <<"profile", "controlled">>
    ELSE <<"default", "allow">>

(* RuleManager.conflicts(): enabled rules of one scope with opposite       *)
(* actions that overlap, or that cannot be read.                           *)
Reported(left, right) ==
    /\ {left, right} \subseteq enabled
    /\ left.group = right.group /\ left.action # right.action
    /\ Valid(left) /\ Valid(right) => Overlaps(left, right, now)
-----------------------------------------------------------------------------
(* _evaluate(): from one change of some rule to the next, until one of     *)
(* them changes the decision.                                              *)
Candidates(cursor) == {NextChange(r, cursor) : r \in rules} \ {Never}

(* Those within eight days of the evaluation. *)
Changes(cursor) == {t \in Candidates(cursor) : t <= now + Horizon}

Search[steps \in 0 .. MaxSteps] ==
    [cursor \in Nat |->
        IF steps = 0 \/ Changes(cursor) = {} THEN Never
        ELSE LET next == Min(Changes(cursor))
             IN IF Allowed(next) # Allowed(now) THEN next ELSE Search[steps - 1][next]]

NextTransition == IF "blocked" \in profiles THEN Never ELSE Search[MaxSteps][now]
-----------------------------------------------------------------------------
Init ==
    /\ now = 0
    /\ profiles \in SUBSET Mode
    /\ rules \in {S \in SUBSET Rules : Cardinality(S) \in 1 .. MaxRules}
    /\ enabled \in SUBSET rules

Tick ==
    /\ now < LastInstant
    /\ now' = now + 1
    /\ UNCHANGED <<profiles, rules, enabled>>

(* RuleManager.set_enabled *)
SetEnabled(rule) ==
    /\ enabled' = IF rule \in enabled THEN enabled \ {rule} ELSE enabled \cup {rule}
    /\ UNCHANGED <<now, profiles, rules>>

Next == Tick \/ \E rule \in rules : SetEnabled(rule)

Spec == Init /\ [][Next]_vars
-----------------------------------------------------------------------------
TypeOK ==
    /\ now \in 0 .. LastInstant
    /\ profiles \subseteq Mode
    /\ enabled \subseteq rules /\ rules \subseteq Rules
    /\ NextTransition \in {Never} \cup (now + 1 .. now + Horizon)
    /\ Reason(now) \in ({"profile"} \X profiles) \cup ({"rule"} \X Enabled(now))
                          \cup {<<"default", "allow">>}

(* "An overnight window belongs to its starting weekday": a rule is on     *)
(* exactly when one of its windows began on one of its weekdays, on the    *)
(* wall clock, and has not ended yet; a window without length is its day.  *)
StartsOnItsWeekday ==
    \A rule \in rules :
        LET local == now + Shift[rule.zone][now]
            Length(w) == IF w[1] < w[2] THEN w[2] - w[1] ELSE w[2] - w[1] + Minutes
            Start(w) == IF w[1] = w[2] THEN 0 ELSE w[1]
        IN Active(rule, now) <=>
               \E w \in rule.windows, start \in local - Minutes + 1 .. local :
                   /\ start % Minutes = Start(w)
                   /\ (start \div Minutes) % Days \in rule.days
                   /\ local < start + Length(w)

(* The minutes of the next eight days at which a rule begins or ends.      *)
ChangesAhead ==
    {t \in now + 1 .. now + Horizon : \E r \in enabled : Active(r, t) # Active(r, t - 1)}

(* The change that _evaluate announces is the first minute of the next     *)
(* eight days with another decision.  When it announces none there is      *)
(* none, unless rules begin or end in more minutes than it follows:        *)
(* following the changes of single rules misses nothing.                   *)
TransitionIsNext ==
    LET flips == {t \in now + 1 .. now + Horizon : Allowed(t) # Allowed(now)}
    IN IF NextTransition = Never
       THEN flips = {} \/ Cardinality(ChangesAhead) > MaxSteps
       ELSE NextTransition \in flips /\ \A t \in flips : NextTransition <= t

(* Two rules of one scope that will contradict each other at some minute   *)
(* of the coming week are reported today.                                  *)
ConflictsAreForeseen ==
    \A r, q \in rules : \A t \in now .. now + Week :
        r.group = q.group /\ r.action = "block" /\ q.action = "allow"
                          /\ {r, q} \subseteq Enabled(t)
            => Reported(r, q)

(* Switching a block on or an allow off never opens access at that moment, *)
(* whatever the other rules, their priorities and the profiles are.        *)
Of(action) == {r \in enabled : r.action = action}
StaysClosed ==
    now' = now /\ Of("block") \subseteq Of("block")'
               /\ Of("allow")' \subseteq Of("allow") /\ ~Allowed(now)
        => ~Allowed(now)'
BlocksOnlyClose == [][StaysClosed]_vars
=============================================================================
