------------------------ MODULE PolicyDecisionProofs ------------------------
(***************************************************************************)
(* Schedules, precedence and the search for the next change, for every     *)
(* length of day and week, every set of rules and every clock that shifts  *)
(* by whole minutes.                                                       *)
(*                                                                         *)
(* All but one of the results are facts about the functions of the code in *)
(* any state with a clock, profiles and rules of the right kind            *)
(* (Inductive); the search is a recursive function, and what it finds is   *)
(* proved by looking at the least number of steps with which it would go   *)
(* wrong.                                                                  *)
(***************************************************************************)
EXTENDS PolicyDecision, FiniteSetTheorems, WellFoundedInduction, TLAPS

Inductive ==
    /\ now \in 0 .. LastInstant
    /\ profiles \subseteq Mode
    /\ enabled \subseteq rules /\ rules \subseteq Rules

(* The instants whose shift is known. *)
Instant == 0 .. LastInstant + 2 * Horizon
-----------------------------------------------------------------------------
(* Every set of natural numbers has a least one.                           *)
LEMMA LeastNatural ==
    ASSUME NEW S \in SUBSET Nat, S # {}
    PROVE  \E n \in S : \A m \in S : n <= m
<1>1. PICK n \in S : \A m \in S : ~ (<<m, n>> \in OpToRel(<, Nat))
  BY WFMin, NatLessThanWellFounded
<1>2. \A m \in S : ~ (m < n)
  BY <1>1 DEF OpToRel
<1> QED
  BY <1>2

LEMMA MinIsLeast ==
    ASSUME NEW S \in SUBSET Nat, S # {}
    PROVE  Min(S) \in S /\ \A m \in S : Min(S) <= m
BY LeastNatural DEF Min

LEMMA Sizes ==
    /\ Days \in Nat \ {0} /\ Minutes \in Nat \ {0}
    /\ Week \in Nat \ {0} /\ Horizon \in Nat \ {0} /\ Horizon = Week + Minutes
    /\ LastInstant \in Nat /\ MaxSteps \in Nat
<1>1. \A a, b \in Nat \ {0} : a * b \in Nat \ {0}
  OBVIOUS
<1> QED
  BY <1>1, SizeAssumption DEF Week, Horizon

(* Division with remainder, and that there is only one way to divide.      *)
LEMMA Division ==
    ASSUME NEW a \in Int, NEW b \in Nat \ {0}
    PROVE  /\ a \div b \in Int /\ a % b \in 0 .. b - 1
           /\ a = b * (a \div b) + (a % b)
<1>1. a \div b \in Int
  OBVIOUS
<1>2. a % b \in 0 .. b - 1
  OBVIOUS
<1>3. a = b * (a \div b) + (a % b)
  OBVIOUS
<1> QED
  BY <1>1, <1>2, <1>3

LEMMA OneQuotient ==
    ASSUME NEW b \in Nat \ {0}, NEW q \in Int, NEW r \in 0 .. b - 1,
           NEW a \in Int, a = b * q + r
    PROVE  a \div b = q /\ a % b = r
<1> DEFINE p == a \div b
           s == a % b
<1>1. p \in Int /\ s \in 0 .. b - 1 /\ a = b * p + s
  BY Division
<1> HIDE DEF p, s
<1>2. b * (p - q) = r - s
  BY <1>1
<1>3. CASE p - q >= 1
  <2>1. b * (p - q) >= b
    BY <1>1, <1>3
  <2> QED
    BY <1>1, <1>2, <2>1
<1>4. CASE p - q <= -1
  <2>1. b * (p - q) <= -b
    BY <1>1, <1>4
  <2> QED
    BY <1>1, <1>2, <2>1
<1>5. CASE p = q
  BY <1>1, <1>5 DEF p, s
<1> QED
  BY <1>1, <1>3, <1>4, <1>5

(* The day before a day, counted modulo the week.                          *)
LEMMA DayBefore ==
    ASSUME NEW d \in Int
    PROVE  ((d % Days) - 1) % Days = (d - 1) % Days
<1> DEFINE q == d \div Days
           r == d % Days
           p == (d - 1) \div Days
           s == (d - 1) % Days
<1>1. Days \in Nat \ {0}
  BY Sizes
<1>2. q \in Int /\ r \in 0 .. Days - 1 /\ d = Days * q + r
  BY <1>1, Division
<1>3. p \in Int /\ s \in 0 .. Days - 1 /\ d - 1 = Days * p + s
  BY <1>1, Division
<1> HIDE DEF q, r, p, s
<1>4. r - 1 = Days * (p - q) + s
  BY <1>1, <1>2, <1>3
<1>5. r - 1 \in Int /\ p - q \in Int
  BY <1>2, <1>3
<1>6. (r - 1) % Days = s
  BY <1>1, <1>3, <1>4, <1>5, OneQuotient
<1> QED
  BY <1>6 DEF r, s
-----------------------------------------------------------------------------
(* The wall clock of a rule.                                               *)
Local(rule, t) == t + Shift[rule.zone][t]

LEMMA Clock ==
    ASSUME NEW rule \in Rules, NEW t \in Instant
    PROVE  /\ Local(rule, t) \in Int
           /\ rule.windows \subseteq Minute \X Minute /\ rule.days \subseteq Day
<1>1. rule.zone \in Zone /\ rule.windows \subseteq Minute \X Minute /\ rule.days \subseteq Day
  BY RuleAssumption DEF RuleRecord
<1>2. Shift[rule.zone][t] \in Int /\ t \in Int
  BY <1>1, ShiftAssumption, Sizes DEF Instant
<1> QED
  BY <1>1, <1>2 DEF Local

LEMMA AlwaysActive ==
    ASSUME NEW rule \in Rules, NEW t \in Instant, AlwaysOn(rule)
    PROVE  Active(rule, t)
<1> DEFINE day == (Local(rule, t) \div Minutes) % Days
<1>1. Local(rule, t) \div Minutes \in Int
  BY Clock, Sizes, Division
<1>2. day \in Day
  BY <1>1, Sizes, Division DEF Day
<1>3. PICK w \in rule.windows : w[1] = w[2]
  BY DEF AlwaysOn
<1>4. w[1] = w[2] /\ day \in rule.days
  BY <1>2, <1>3 DEF AlwaysOn
<1> QED
  BY <1>4 DEF Active, Local
-----------------------------------------------------------------------------
(* One window of a rule, in terms of the wall clock: on which day it is    *)
(* open, and when it began.                                                *)
Open(w, days, local) ==
    LET minute == local % Minutes
        day == (local \div Minutes) % Days
    IN \/ w[1] = w[2] /\ day \in days
       \/ w[1] < w[2] /\ day \in days /\ w[1] <= minute /\ minute < w[2]
       \/ w[1] > w[2] /\ day \in days /\ minute >= w[1]
       \/ w[1] > w[2] /\ (day - 1) % Days \in days /\ minute < w[2]

Length(w) == IF w[1] < w[2] THEN w[2] - w[1] ELSE w[2] - w[1] + Minutes
Start(w) == IF w[1] = w[2] THEN 0 ELSE w[1]

BeganAt(w, days, local, start) ==
    /\ start % Minutes = Start(w)
    /\ (start \div Minutes) % Days \in days
    /\ local < start + Length(w)

LEMMA OpenHasBegun ==
    ASSUME NEW w \in Minute \X Minute, NEW days \in SUBSET Day, NEW local \in Int,
           Open(w, days, local)
    PROVE  \E start \in local - Minutes + 1 .. local : BeganAt(w, days, local, start)
<1> DEFINE d == local \div Minutes
           m == local % Minutes
           from == w[1]
           to == w[2]
<1>1. Minutes \in Nat \ {0} /\ Days \in Nat \ {0}
  BY Sizes
<1>2. d \in Int /\ m \in 0 .. Minutes - 1 /\ local = Minutes * d + m
  BY <1>1, Division
<1>3. from \in 0 .. Minutes - 1 /\ to \in 0 .. Minutes - 1
  BY DEF Minute
<1>4. \/ from = to /\ d % Days \in days
      \/ from < to /\ d % Days \in days /\ from <= m /\ m < to
      \/ from > to /\ d % Days \in days /\ m >= from
      \/ from > to /\ ((d % Days) - 1) % Days \in days /\ m < to
  BY DEF Open
<1>5. ASSUME NEW e \in Int, NEW s \in 0 .. Minutes - 1, NEW x \in Int, x = Minutes * e + s
      PROVE  x \div Minutes = e /\ x % Minutes = s
  BY <1>1, <1>5, OneQuotient
<1>6. Start(w) = (IF from = to THEN 0 ELSE from)
      /\ Length(w) = (IF from < to THEN to - from ELSE to - from + Minutes)
  BY DEF Start, Length
<1> HIDE DEF d, m, from, to
<1>7. CASE from = to /\ d % Days \in days
  <2> DEFINE x == Minutes * d
  <2>1. x \in Int /\ x = Minutes * d + 0
    BY <1>1, <1>2
  <2>2. x \div Minutes = d /\ x % Minutes = 0
    <3>1. 0 \in 0 .. Minutes - 1
      BY <1>1
    <3> QED
      BY <1>2, <2>1, <3>1, <1>5
  <2>3. x \in local - Minutes + 1 .. local /\ local < x + Minutes
    BY <1>1, <1>2, <2>1
  <2> HIDE DEF x
  <2>4. BeganAt(w, days, local, x)
    BY <1>1, <1>3, <1>6, <1>7, <2>2, <2>3 DEF BeganAt
  <2> QED
    BY <2>3, <2>4
<1>8. CASE from < to /\ d % Days \in days /\ from <= m /\ m < to
  <2> DEFINE x == Minutes * d + from
  <2>1. x \in Int /\ x = Minutes * d + from
    BY <1>1, <1>2, <1>3
  <2>2. x \div Minutes = d /\ x % Minutes = from
    BY <1>3, <2>1, <1>2, <1>5
  <2>3. x \in local - Minutes + 1 .. local /\ local < x + (to - from)
    BY <1>1, <1>2, <1>3, <1>8, <2>1
  <2> HIDE DEF x
  <2>4. BeganAt(w, days, local, x)
    BY <1>3, <1>6, <1>8, <2>2, <2>3 DEF BeganAt
  <2> QED
    BY <2>3, <2>4
<1>9. CASE from > to /\ d % Days \in days /\ m >= from
  <2> DEFINE x == Minutes * d + from
  <2>1. x \in Int /\ x = Minutes * d + from
    BY <1>1, <1>2, <1>3
  <2>2. x \div Minutes = d /\ x % Minutes = from
    BY <1>3, <2>1, <1>2, <1>5
  <2>3. x \in local - Minutes + 1 .. local /\ local < x + (to - from + Minutes)
    BY <1>1, <1>2, <1>3, <1>9, <2>1
  <2> HIDE DEF x
  <2>4. BeganAt(w, days, local, x)
    BY <1>3, <1>6, <1>9, <2>2, <2>3 DEF BeganAt
  <2> QED
    BY <2>3, <2>4
<1>10. CASE from > to /\ ((d % Days) - 1) % Days \in days /\ m < to
  <2> DEFINE x == Minutes * (d - 1) + from
  <2>1. x \in Int /\ x = Minutes * (d - 1) + from /\ d - 1 \in Int
    BY <1>1, <1>2, <1>3
  <2>2. x \div Minutes = d - 1 /\ x % Minutes = from
    BY <1>3, <2>1, <1>5
  <2>3. x \in local - Minutes + 1 .. local /\ local < x + (to - from + Minutes)
    <3>1. Minutes * (d - 1) = Minutes * d - Minutes
      BY <1>1, <1>2
    <3> QED
      BY <1>1, <1>2, <1>3, <1>10, <2>1, <3>1
  <2>4. (d - 1) % Days \in days
    BY <1>2, <1>10, DayBefore
  <2> HIDE DEF x
  <2>5. BeganAt(w, days, local, x)
    BY <1>3, <1>6, <1>10, <2>2, <2>3, <2>4 DEF BeganAt
  <2> QED
    BY <2>3, <2>5
<1> QED
  BY <1>4, <1>7, <1>8, <1>9, <1>10

LEMMA BegunIsOpen ==
    ASSUME NEW w \in Minute \X Minute, NEW days \in SUBSET Day, NEW local \in Int,
           NEW start \in local - Minutes + 1 .. local, BeganAt(w, days, local, start)
    PROVE  Open(w, days, local)
<1> DEFINE d == local \div Minutes
           m == local % Minutes
           e == start \div Minutes
           s == start % Minutes
           from == w[1]
           to == w[2]
<1>1. Minutes \in Nat \ {0} /\ Days \in Nat \ {0} /\ start \in Int
  BY Sizes
<1>2. d \in Int /\ m \in 0 .. Minutes - 1 /\ local = Minutes * d + m
  BY <1>1, Division
<1>3. e \in Int /\ s \in 0 .. Minutes - 1 /\ start = Minutes * e + s
  BY <1>1, Division
<1>4. from \in 0 .. Minutes - 1 /\ to \in 0 .. Minutes - 1
  BY DEF Minute
<1>5. /\ s = (IF from = to THEN 0 ELSE from)
      /\ e % Days \in days
      /\ local < start + (IF from < to THEN to - from ELSE to - from + Minutes)
  BY DEF BeganAt, Start, Length
<1>6. \/ from = to /\ d % Days \in days
      \/ from < to /\ d % Days \in days /\ from <= m /\ m < to
      \/ from > to /\ d % Days \in days /\ m >= from
      \/ from > to /\ ((d % Days) - 1) % Days \in days /\ m < to
      => Open(w, days, local)
  BY DEF Open
<1> HIDE DEF d, m, e, s, from, to
<1>7. Minutes * (d - e) = (local - start) + s - m
  BY <1>1, <1>2, <1>3
<1>8. local - start \in 0 .. Minutes - 1
  BY <1>1
<1>9. d - e \in {0, 1}
  <2>1. d - e >= 2 => Minutes * (d - e) >= 2 * Minutes
    BY <1>1, <1>2, <1>3
  <2>2. d - e <= -1 => Minutes * (d - e) <= -Minutes
    BY <1>1, <1>2, <1>3
  <2> QED
    BY <1>1, <1>2, <1>3, <1>7, <1>8, <2>1, <2>2
<1>10. CASE d = e
  <2>1. m = s + (local - start)
    BY <1>1, <1>2, <1>3, <1>10
  <2> QED
    BY <1>1, <1>2, <1>4, <1>5, <1>6, <1>8, <1>10, <2>1
<1>11. CASE d = e + 1
  <2>1. Minutes * (d - e) = Minutes
    BY <1>1, <1>3, <1>11
  <2>2. m + Minutes = s + (local - start)
    BY <1>1, <1>2, <1>3, <1>7, <2>1
  <2>3. ((d % Days) - 1) % Days = e % Days
    <3>1. d - 1 = e
      BY <1>2, <1>3, <1>11
    <3> QED
      BY <1>2, <3>1, DayBefore
  <2> QED
    BY <1>1, <1>2, <1>4, <1>5, <1>6, <1>8, <2>2, <2>3
<1> QED
  BY <1>2, <1>3, <1>9, <1>10, <1>11

LEMMA ScheduleFollowsWallClock ==
    Inductive => StartsOnItsWeekday
<1> SUFFICES ASSUME Inductive, NEW rule \in rules
             PROVE  Active(rule, now) <=>
                        \E w \in rule.windows,
                           start \in Local(rule, now) - Minutes + 1 .. Local(rule, now) :
                              BeganAt(w, rule.days, Local(rule, now), start)
  BY DEF StartsOnItsWeekday, Local, BeganAt, Start, Length
<1>1. rule \in Rules /\ now \in Instant
  BY Sizes DEF Inductive, Instant
<1>2. /\ Local(rule, now) \in Int
      /\ rule.windows \subseteq Minute \X Minute /\ rule.days \subseteq Day
  BY <1>1, Clock
<1>3. Active(rule, now) <=> \E w \in rule.windows : Open(w, rule.days, Local(rule, now))
  BY DEF Active, Open, Local
<1> QED
  BY <1>2, <1>3, OpenHasBegun, BegunIsOpen
-----------------------------------------------------------------------------
(* The search for the next change.                                         *)

(* No rule changes before the change that next_change announces for it.    *)
LEMMA NoChangeBefore ==
    ASSUME NEW rule \in enabled, rule \in Rules, Valid(rule),
           NEW t \in 0 .. LastInstant + Horizon, NEW u \in t .. t + Horizon,
           NextChange(rule, t) = Never \/ u < NextChange(rule, t)
    PROVE  Active(rule, u) = Active(rule, t)
<1> DEFINE changes == {v \in t + 1 .. t + Horizon : Active(rule, v) # Active(rule, t)}
<1>1. t \in Instant /\ u \in Instant /\ t \in Nat /\ u \in Nat
  BY Sizes DEF Instant
<1>2. CASE AlwaysOn(rule)
  <2>1. Active(rule, u) /\ Active(rule, t)
    BY <1>1, <1>2, AlwaysActive
  <2> QED
    BY <2>1 DEF Active
<1>3. CASE u = t
  BY <1>3
<1>4. CASE ~AlwaysOn(rule) /\ u # t
  <2>1. u \in t + 1 .. t + Horizon
    BY <1>1, <1>4, Sizes
  <2>2. changes \in SUBSET Nat
    BY <1>1, Sizes
  <2>3. NextChange(rule, t) = IF changes = {} THEN Never ELSE Min(changes)
    BY <1>4 DEF NextChange
  <2>4. changes # {} => Min(changes) \in Nat /\ \A v \in changes : Min(changes) <= v
    BY <2>2, MinIsLeast
  <2>5. u \notin changes
    <3> HIDE DEF changes
    <3> QED
      BY <1>1, <2>3, <2>4 DEF Never
  <2> QED
    BY <2>1, <2>5
<1> QED
  BY <1>2, <1>3, <1>4

(* What it announces is a minute at which the rule changes.                *)
LEMMA ChangeIsReal ==
    ASSUME NEW rule \in Rules, NEW t \in 0 .. LastInstant + Horizon,
           NextChange(rule, t) # Never
    PROVE  /\ rule \in enabled
           /\ NextChange(rule, t) \in t + 1 .. t + Horizon
           /\ Active(rule, NextChange(rule, t)) # Active(rule, NextChange(rule, t) - 1)
<1> DEFINE changes == {v \in t + 1 .. t + Horizon : Active(rule, v) # Active(rule, t)}
           n == NextChange(rule, t)
<1>1. rule \in enabled /\ Valid(rule) /\ changes # {} /\ n = Min(changes)
  BY DEF NextChange
<1>2. t \in Nat /\ changes \in SUBSET Nat
  BY Sizes
<1>3. n \in changes
  BY <1>1, <1>2, MinIsLeast
<1>4. n \in t + 1 .. t + Horizon /\ Active(rule, n) # Active(rule, t)
  BY <1>3
<1>5. n - 1 \in t .. t + Horizon /\ n - 1 < n
  BY <1>2, <1>4, Sizes
<1>6. Active(rule, n - 1) = Active(rule, t)
  BY <1>1, <1>5, NoChangeBefore
<1> QED
  BY <1>1, <1>4, <1>6

LEMMA ChangesLieAhead ==
    ASSUME Inductive, NEW cursor \in now .. now + Horizon
    PROVE  /\ Changes(cursor) \subseteq cursor + 1 .. now + Horizon
           /\ Changes(cursor) \subseteq ChangesAhead
<1> SUFFICES ASSUME NEW c \in Changes(cursor)
             PROVE  c \in cursor + 1 .. now + Horizon /\ c \in ChangesAhead
  OBVIOUS
<1>1. now \in Nat /\ cursor \in 0 .. LastInstant + Horizon
  BY Sizes DEF Inductive
<1>2. PICK rule \in rules : c = NextChange(rule, cursor) /\ c # Never /\ c <= now + Horizon
  BY DEF Changes, Candidates
<1>3. rule \in Rules
  BY DEF Inductive
<1>4. /\ rule \in enabled /\ c \in cursor + 1 .. cursor + Horizon
      /\ Active(rule, c) # Active(rule, c - 1)
  BY <1>1, <1>2, <1>3, ChangeIsReal
<1>5. c \in cursor + 1 .. now + Horizon /\ c \in now + 1 .. now + Horizon
  BY <1>1, <1>2, <1>4, Sizes
<1> QED
  BY <1>4, <1>5 DEF ChangesAhead

(* Before the next candidate nothing changes for the device.               *)
LEMMA QuietBetween ==
    ASSUME Inductive, NEW cursor \in now .. now + Horizon,
           NEW u \in cursor .. now + Horizon, \A c \in Changes(cursor) : u < c
    PROVE  Allowed(u) = Allowed(cursor)
<1>1. now \in Nat /\ cursor \in 0 .. LastInstant + Horizon /\ u \in cursor .. cursor + Horizon
  BY Sizes DEF Inductive
<1>2. ASSUME NEW rule \in enabled, Valid(rule)
      PROVE  Active(rule, u) = Active(rule, cursor)
  <2>1. rule \in Rules /\ rule \in rules
    BY DEF Inductive
  <2>2. NextChange(rule, cursor) = Never \/ u < NextChange(rule, cursor)
    <3>1. SUFFICES ASSUME NextChange(rule, cursor) # Never
                   PROVE  u < NextChange(rule, cursor)
      OBVIOUS
    <3>2. NextChange(rule, cursor) \in cursor + 1 .. cursor + Horizon
      BY <1>1, <2>1, <3>1, ChangeIsReal
    <3>3. CASE NextChange(rule, cursor) <= now + Horizon
      <4>1. NextChange(rule, cursor) \in Changes(cursor)
        BY <2>1, <3>1, <3>3 DEF Changes, Candidates
      <4> QED
        BY <4>1
    <3>4. CASE NextChange(rule, cursor) > now + Horizon
      BY <1>1, <3>2, <3>4, Sizes
    <3> QED
      BY <1>1, <3>2, <3>3, <3>4, Sizes
  <2> QED
    BY <1>1, <1>2, <2>1, <2>2, NoChangeBefore
<1>3. Enabled(u) = Enabled(cursor)
  BY <1>2 DEF Enabled
<1> QED
  BY <1>3 DEF Allowed, Having
-----------------------------------------------------------------------------
(* The search is defined by recursion on its steps: the definition has a   *)
(* solution up to every number of steps, since it extends by one.          *)
Found(f, steps) ==
    [cursor \in Nat |->
        IF steps = 0 \/ Changes(cursor) = {} THEN Never
        ELSE LET next == Min(Changes(cursor))
             IN IF Allowed(next) # Allowed(now) THEN next ELSE f[steps - 1][next]]

LEMMA SearchUnfolds ==
    Search = [steps \in 0 .. MaxSteps |-> Found(Search, steps)]
<1> DEFINE Solved(n) == \E f : f = [steps \in 0 .. n |-> Found(f, steps)]
           unsolved == {n \in Nat : ~Solved(n)}
<1>1. ASSUME NEW f, NEW g, NEW steps \in Nat, steps # 0 => f[steps - 1] = g[steps - 1]
      PROVE  Found(f, steps) = Found(g, steps)
  BY <1>1 DEF Found
<1>2. Solved(0)
  <2> DEFINE f == [steps \in 0 .. 0 |-> Found(<< >>, steps)]
  <2>1. ASSUME NEW steps \in 0 .. 0
        PROVE  Found(<< >>, steps) = Found(f, steps)
    <3>1. steps = 0 /\ steps \in Nat
      OBVIOUS
    <3> HIDE DEF f
    <3> QED
      BY <1>1, <3>1
  <2>2. f = [steps \in 0 .. 0 |-> Found(f, steps)]
    BY <2>1
  <2> QED
    BY <2>2
<1>3. ASSUME NEW n \in Nat, Solved(n)
      PROVE  Solved(n + 1)
  <2>1. PICK f : f = [steps \in 0 .. n |-> Found(f, steps)]
    BY <1>3
  <2> DEFINE g == [steps \in 0 .. n + 1 |-> Found(f, steps)]
  <2>2. ASSUME NEW steps \in 0 .. n + 1
        PROVE  Found(f, steps) = Found(g, steps)
    <3>1. steps # 0 => f[steps - 1] = g[steps - 1]
      <4>1. SUFFICES ASSUME steps # 0 PROVE f[steps - 1] = g[steps - 1]
        OBVIOUS
      <4>2. steps - 1 \in 0 .. n /\ steps - 1 \in 0 .. n + 1
        BY <4>1
      <4>3. f[steps - 1] = Found(f, steps - 1)
        BY <2>1, <4>2
      <4>4. g[steps - 1] = Found(f, steps - 1)
        BY <4>2
      <4> QED
        BY <4>3, <4>4
    <3>2. steps \in Nat
      OBVIOUS
    <3> HIDE DEF g
    <3> QED
      BY <1>1, <3>1, <3>2
  <2>3. g = [steps \in 0 .. n + 1 |-> Found(g, steps)]
    BY <2>2
  <2> QED
    BY <2>3
<1>4. unsolved = {}
  <2>1. SUFFICES ASSUME unsolved # {} PROVE FALSE
    OBVIOUS
  <2>2. PICK n \in unsolved : \A m \in unsolved : n <= m
    <3>1. unsolved \in SUBSET Nat
      OBVIOUS
    <3> HIDE DEF unsolved
    <3> QED
      BY <2>1, <3>1, LeastNatural
  <2>3. n \in Nat /\ ~Solved(n)
    OBVIOUS
  <2>4. n # 0
    BY <1>2, <2>3
  <2>5. n - 1 \in Nat /\ n - 1 \notin unsolved
    BY <2>2, <2>3, <2>4
  <2>6. Solved(n - 1)
    BY <2>5
  <2> HIDE DEF Solved
  <2>7. Solved((n - 1) + 1)
    BY <1>3, <2>5, <2>6
  <2>8. (n - 1) + 1 = n
    BY <2>3
  <2> QED
    BY <2>3, <2>7, <2>8
<1>5. Solved(MaxSteps)
  BY <1>4, Sizes
<1>6. Search = CHOOSE f : f = [steps \in 0 .. MaxSteps |-> Found(f, steps)]
  BY DEF Search, Found
<1> QED
  BY <1>5, <1>6

(* The minutes until t at which a rule changes, seen from a cursor.        *)
Beyond(cursor) == {t \in ChangesAhead : t > cursor}
SameUntil(cursor) == \A u \in now .. cursor : Allowed(u) = Allowed(now)
Announces(found, steps, cursor) ==
    IF found = Never
    THEN SameUntil(now + Horizon) \/ Cardinality(Beyond(cursor)) > steps
    ELSE /\ found \in now + 1 .. now + Horizon
         /\ Allowed(found) # Allowed(now) /\ SameUntil(found - 1)

LEMMA BeyondIsFinite ==
    ASSUME Inductive, NEW cursor \in Nat
    PROVE  IsFiniteSet(Beyond(cursor)) /\ Cardinality(Beyond(cursor)) \in Nat
<1>1. now + 1 \in Int /\ now + Horizon \in Int
  BY Sizes DEF Inductive
<1>2. IsFiniteSet(now + 1 .. now + Horizon)
  BY <1>1, FS_Interval
<1>3. Beyond(cursor) \in SUBSET (now + 1 .. now + Horizon)
  BY DEF Beyond, ChangesAhead
<1>4. IsFiniteSet(Beyond(cursor))
  BY <1>2, <1>3, FS_Subset
<1> QED
  BY <1>4, FS_CardinalityType

(* Every step of the search leaves fewer changes beyond the cursor.        *)
LEMMA FewerBeyond ==
    ASSUME Inductive, NEW cursor \in Nat, NEW next \in ChangesAhead, next > cursor
    PROVE  Cardinality(Beyond(next)) < Cardinality(Beyond(cursor))
<1>1. next \in Nat
  BY Sizes DEF Inductive, ChangesAhead
<1>2. IsFiniteSet(Beyond(cursor)) /\ Cardinality(Beyond(cursor)) \in Nat
  BY BeyondIsFinite
<1>3. next \in Beyond(cursor)
  BY DEF Beyond
<1>4. /\ IsFiniteSet(Beyond(cursor) \ {next})
      /\ Cardinality(Beyond(cursor) \ {next}) = Cardinality(Beyond(cursor)) - 1
  BY <1>2, <1>3, FS_RemoveElement
<1>5. \A t \in ChangesAhead : t \in Nat
  BY Sizes DEF Inductive, ChangesAhead
<1>6. Beyond(next) \in SUBSET (Beyond(cursor) \ {next})
  <2> SUFFICES ASSUME NEW t \in Beyond(next)
               PROVE  t \in Beyond(cursor) /\ t # next
    OBVIOUS
  <2>1. t \in ChangesAhead /\ t > next /\ t \in Nat
    BY <1>5 DEF Beyond
  <2>2. t > cursor /\ t # next
    BY <1>1, <2>1
  <2> QED
    BY <2>1, <2>2 DEF Beyond
<1>7. Cardinality(Beyond(next)) <= Cardinality(Beyond(cursor) \ {next})
  BY <1>4, <1>6, FS_Subset
<1>8. Cardinality(Beyond(next)) \in Nat
  BY <1>1, BeyondIsFinite
<1> QED
  BY <1>2, <1>4, <1>7, <1>8

(* Without a change beyond the cursor the decision stays until the end.    *)
LEMMA NothingBeyond ==
    ASSUME Inductive, NEW cursor \in now .. now + Horizon, SameUntil(cursor),
           Changes(cursor) = {}
    PROVE  SameUntil(now + Horizon)
<1>1. now \in Nat /\ cursor \in Nat /\ Horizon \in Nat
  BY Sizes DEF Inductive
<1> SUFFICES ASSUME NEW u \in now .. now + Horizon
             PROVE  Allowed(u) = Allowed(now)
  BY DEF SameUntil
<1>2. CASE u <= cursor
  BY <1>1, <1>2 DEF SameUntil
<1>3. CASE u > cursor
  <2>1. u \in cursor .. now + Horizon /\ cursor \in now .. cursor
    BY <1>1, <1>3
  <2>2. Allowed(u) = Allowed(cursor)
    BY <2>1, QuietBetween
  <2> QED
    BY <2>1, <2>2 DEF SameUntil
<1> QED
  BY <1>1, <1>2, <1>3

LEMMA SearchStep ==
    ASSUME Inductive, NEW steps \in 0 .. MaxSteps,
           NEW cursor \in now .. now + Horizon, SameUntil(cursor),
           \A c \in now .. now + Horizon :
              steps # 0 /\ SameUntil(c) => Announces(Search[steps - 1][c], steps - 1, c)
    PROVE  Announces(Search[steps][cursor], steps, cursor)
<1> DEFINE next == Min(Changes(cursor))
           found == Search[steps][cursor]
<1>1. now \in Nat /\ cursor \in Nat /\ Horizon \in Nat
  BY Sizes DEF Inductive
<1>2. found = IF steps = 0 \/ Changes(cursor) = {} THEN Never
              ELSE IF Allowed(next) # Allowed(now) THEN next ELSE Search[steps - 1][next]
  <2>1. Search[steps] = Found(Search, steps)
    BY SearchUnfolds
  <2>2. Found(Search, steps)[cursor] =
            IF steps = 0 \/ Changes(cursor) = {} THEN Never
            ELSE IF Allowed(next) # Allowed(now) THEN next ELSE Search[steps - 1][next]
    BY <1>1 DEF Found
  <2> QED
    BY <2>1, <2>2
<1>3. Changes(cursor) \subseteq cursor + 1 .. now + Horizon
      /\ Changes(cursor) \subseteq ChangesAhead
  BY ChangesLieAhead
<1>4. IsFiniteSet(Beyond(cursor)) /\ Cardinality(Beyond(cursor)) \in Nat
  BY <1>1, BeyondIsFinite
<1> HIDE DEF found
<1>5. CASE Changes(cursor) = {}
  <2>1. SameUntil(now + Horizon)
    BY <1>5, NothingBeyond
  <2> QED
    BY <1>2, <1>5, <2>1 DEF Announces, found
<1>6. CASE Changes(cursor) # {} /\ steps = 0
  <2>1. PICK c \in Changes(cursor) : TRUE
    BY <1>6
  <2>2. c \in Beyond(cursor)
    BY <1>1, <1>3 DEF Beyond
  <2>3. Cardinality(Beyond(cursor)) # 0
    BY <1>4, <2>2, FS_EmptySet
  <2> QED
    BY <1>2, <1>4, <1>6, <2>3 DEF Announces, found
<1>7. CASE Changes(cursor) # {} /\ steps # 0
  <2>1. Changes(cursor) \in SUBSET Nat
    BY <1>1, <1>3
  <2>2. next \in Changes(cursor) /\ \A c \in Changes(cursor) : next <= c
    BY <1>7, <2>1, MinIsLeast
  <2> HIDE DEF next
  <2>3. next \in cursor + 1 .. now + Horizon /\ next \in ChangesAhead
    BY <1>3, <2>2
  <2>4. SameUntil(next - 1)
    <3> SUFFICES ASSUME NEW u \in now .. next - 1
                 PROVE  Allowed(u) = Allowed(now)
      BY DEF SameUntil
    <3>1. CASE u <= cursor
      BY <1>1, <3>1 DEF SameUntil
    <3>2. CASE u > cursor
      <4>1. u \in cursor .. now + Horizon /\ cursor \in now .. cursor /\ u \in Nat
        BY <1>1, <2>3, <3>2
      <4>2. ASSUME NEW c \in Changes(cursor) PROVE u < c
        <5>1. next <= c /\ c \in Nat /\ next \in Nat
          BY <2>1, <2>2
        <5> QED
          BY <1>1, <4>1, <5>1
      <4>3. Allowed(u) = Allowed(cursor)
        BY <4>1, <4>2, QuietBetween
      <4> QED
        BY <4>1, <4>3 DEF SameUntil
    <3> QED
      BY <1>1, <3>1, <3>2
  <2>5. CASE Allowed(next) # Allowed(now)
    <3>1. found = next
      BY <1>2, <1>7, <2>5
    <3>2. next \in now + 1 .. now + Horizon /\ next # Never
      BY <1>1, <2>3 DEF Never
    <3> QED
      BY <2>4, <2>5, <3>1, <3>2 DEF Announces, found
  <2>6. CASE Allowed(next) = Allowed(now)
    <3>1. found = Search[steps - 1][next]
      BY <1>2, <1>7, <2>6
    <3>2. next \in now .. now + Horizon
      BY <1>1, <2>3
    <3>3. SameUntil(next)
      <4>1. \A u \in now .. next : u \in now .. next - 1 \/ u = next
        BY <1>1, <2>3
      <4> QED
        BY <2>4, <2>6, <4>1 DEF SameUntil
    <3>4. Announces(found, steps - 1, next)
      BY <1>7, <3>1, <3>2, <3>3
    <3>5. Cardinality(Beyond(next)) < Cardinality(Beyond(cursor))
      BY <1>1, <2>3, FewerBeyond
    <3>6. Cardinality(Beyond(next)) \in Nat
      BY <1>1, <3>2, BeyondIsFinite
    <3>7. Cardinality(Beyond(next)) > steps - 1 => Cardinality(Beyond(cursor)) > steps
      BY <1>4, <3>5, <3>6
    <3> QED
      BY <3>4, <3>7 DEF Announces, found
  <2> QED
    BY <2>5, <2>6
<1> QED
  BY <1>5, <1>6, <1>7

LEMMA SearchFinds ==
    ASSUME Inductive, NEW steps \in 0 .. MaxSteps,
           NEW cursor \in now .. now + Horizon, SameUntil(cursor)
    PROVE  Announces(Search[steps][cursor], steps, cursor)
<1> DEFINE Right(n) == \A c \in now .. now + Horizon :
                          SameUntil(c) => Announces(Search[n][c], n, c)
           wrong == {n \in 0 .. MaxSteps : ~Right(n)}
<1>1. SUFFICES ASSUME wrong # {} PROVE FALSE
  OBVIOUS
<1>2. PICK n \in wrong : \A m \in wrong : n <= m
  <2>1. wrong \in SUBSET Nat
    OBVIOUS
  <2> HIDE DEF wrong
  <2> QED
    BY <1>1, <2>1, LeastNatural
<1>3. n \in 0 .. MaxSteps /\ ~Right(n)
  OBVIOUS
<1>4. n # 0 => Right(n - 1)
  <2>1. SUFFICES ASSUME n # 0 PROVE Right(n - 1)
    OBVIOUS
  <2>2. n - 1 \in 0 .. MaxSteps /\ ~ (n <= n - 1)
    BY <1>3, <2>1, Sizes
  <2>3. n - 1 \notin wrong
    <3> HIDE DEF wrong
    <3> QED
      BY <1>2, <2>2
  <2> QED
    BY <2>2, <2>3
<1>5. PICK c \in now .. now + Horizon : SameUntil(c) /\ ~Announces(Search[n][c], n, c)
  BY <1>3
<1> QED
  BY <1>3, <1>4, <1>5, SearchStep

(* A device with a blocked profile stays shut: the search is not made.     *)
LEMMA TransitionIsRight ==
    ASSUME Inductive
    PROVE  Announces(NextTransition, MaxSteps, now)
<1>1. now \in now .. now + Horizon /\ MaxSteps \in 0 .. MaxSteps /\ SameUntil(now)
  BY Sizes DEF Inductive, SameUntil
<1>2. CASE "blocked" \in profiles
  <2>1. SameUntil(now + Horizon)
    BY <1>2 DEF SameUntil, Allowed
  <2> QED
    BY <1>2, <2>1 DEF Announces, NextTransition
<1>3. CASE "blocked" \notin profiles
  BY <1>1, <1>3, SearchFinds DEF NextTransition
<1> QED
  BY <1>2, <1>3

LEMMA TransitionFollows ==
    Inductive => TransitionIsNext
<1> SUFFICES ASSUME Inductive PROVE TransitionIsNext
  OBVIOUS
<1> DEFINE flips == {t \in now + 1 .. now + Horizon : Allowed(t) # Allowed(now)}
<1>1. now \in Nat /\ Horizon \in Nat
  BY Sizes DEF Inductive
<1>2. Announces(NextTransition, MaxSteps, now)
  BY TransitionIsRight
<1>3. Beyond(now) = ChangesAhead
  BY <1>1 DEF Beyond, ChangesAhead
<1>4. CASE NextTransition = Never
  <2>1. SameUntil(now + Horizon) \/ Cardinality(ChangesAhead) > MaxSteps
    BY <1>2, <1>3, <1>4 DEF Announces
  <2>2. SameUntil(now + Horizon) => flips = {}
    BY <1>1 DEF SameUntil
  <2> QED
    BY <1>4, <2>1, <2>2 DEF TransitionIsNext
<1>5. CASE NextTransition # Never
  <2>1. NextTransition \in flips
    BY <1>2, <1>5 DEF Announces
  <2>2. ASSUME NEW t \in flips PROVE NextTransition <= t
    <3>1. t \in now .. NextTransition - 1 => Allowed(t) = Allowed(now)
      BY <1>2, <1>5 DEF Announces, SameUntil
    <3> QED
      BY <1>1, <2>1, <3>1
  <2> QED
    BY <1>5, <2>1, <2>2 DEF TransitionIsNext
<1> QED
  BY <1>4, <1>5
-----------------------------------------------------------------------------
(* The report of overlaps looks at eight days from midnight: they cover    *)
(* the seven days from any minute of the first one.                        *)
LEMMA ConflictsFollow ==
    Inductive => ConflictsAreForeseen
<1> SUFFICES ASSUME Inductive,
                    NEW r \in rules, NEW q \in rules, NEW t \in now .. now + Week,
                    r.group = q.group, r.action = "block", q.action = "allow",
                    {r, q} \subseteq Enabled(t)
             PROVE  Reported(r, q)
  BY DEF ConflictsAreForeseen
<1> DEFINE midnight == (now \div Minutes) * Minutes
<1>1. now \in Nat /\ Minutes \in Nat \ {0} /\ Week \in Nat /\ Horizon = Week + Minutes
  BY Sizes DEF Inductive
<1>2. midnight \in Int /\ midnight <= now /\ now <= midnight + Minutes - 1
  <2>1. /\ now \div Minutes \in Int /\ now % Minutes \in 0 .. Minutes - 1
        /\ now = Minutes * (now \div Minutes) + (now % Minutes)
    BY <1>1, Division
  <2>2. Minutes * (now \div Minutes) = midnight
    BY <1>1, <2>1
  <2> QED
    BY <1>1, <2>1, <2>2
<1> HIDE DEF midnight
<1>3. t \in midnight .. midnight + Horizon - 1
  BY <1>1, <1>2
<1>4. {r, q} \subseteq enabled /\ Active(r, t) /\ Active(q, t)
  BY DEF Enabled
<1>5. Overlaps(r, q, now)
  BY <1>3, <1>4 DEF Overlaps, midnight
<1> QED
  BY <1>4, <1>5 DEF Reported
-----------------------------------------------------------------------------
(* The order of rules is a strict total order, so that a finite set of     *)
(* rules has a first one.                                                  *)
LEMMA PrecedesIsTotal ==
    /\ \A r, q \in Rules : r = q \/ Precedes(r, q) \/ Precedes(q, r)
    /\ \A r, q, s \in Rules : Precedes(r, q) /\ Precedes(q, s) => Precedes(r, s)
<1>1. \A r \in Rules : r.id \in Nat /\ r.group \in BOOLEAN /\ r.priority \in Nat
  BY RuleAssumption DEF RuleRecord
<1>2. ASSUME NEW r \in Rules, NEW q \in Rules
      PROVE  r = q \/ Precedes(r, q) \/ Precedes(q, r)
  <2>1. r.id = q.id /\ r.group = q.group => r = q
    BY RuleAssumption
  <2> QED
    BY <1>1, <2>1 DEF Precedes
<1>3. ASSUME NEW r \in Rules, NEW q \in Rules, NEW s \in Rules,
             Precedes(r, q), Precedes(q, s)
      PROVE  Precedes(r, s)
  BY <1>1, <1>3 DEF Precedes
<1> QED
  BY <1>2, <1>3

IsFirst(r, S) == r \in S /\ \A q \in S \ {r} : Precedes(r, q)

LEMMA FirstExists ==
    ASSUME NEW S \in SUBSET Rules, S # {}
    PROVE  First(S) \in S
<1> DEFINE Headless(n) == \E T \in SUBSET Rules :
                             T # {} /\ Cardinality(T) = n /\ ~ \E r \in T : IsFirst(r, T)
           headless == {n \in Nat : Headless(n)}
<1>1. \A T \in SUBSET Rules : IsFiniteSet(T) /\ Cardinality(T) \in Nat
  <2> TAKE T \in SUBSET Rules
  <2>1. IsFiniteSet(T)
    BY RuleAssumption, FS_Subset
  <2> QED
    BY <2>1, FS_CardinalityType
<1>2. headless = {}
  <2>1. SUFFICES ASSUME headless # {} PROVE FALSE
    OBVIOUS
  <2>2. PICK n \in headless : \A m \in headless : n <= m
    <3>1. headless \in SUBSET Nat
      OBVIOUS
    <3> HIDE DEF headless
    <3> QED
      BY <2>1, <3>1, LeastNatural
  <2>3. PICK T \in SUBSET Rules :
            T # {} /\ Cardinality(T) = n /\ ~ \E r \in T : IsFirst(r, T)
    OBVIOUS
  <2>4. PICK r \in T : TRUE
    BY <2>3
  <2> DEFINE rest == T \ {r}
  <2>5. Cardinality(rest) = n - 1 /\ Cardinality(rest) \in Nat /\ n \in Nat
    BY <1>1, <2>3, FS_RemoveElement
  <2>6. rest # {}
    BY <2>3 DEF IsFirst
  <2>7. Cardinality(rest) \notin headless
    <3> HIDE DEF headless
    <3> QED
      BY <2>2, <2>5
  <2>8. PICK q \in rest : IsFirst(q, rest)
    BY <2>5, <2>6, <2>7
  <2>9. r \in Rules /\ q \in Rules /\ r # q
    BY <2>3
  <2>10. CASE Precedes(r, q)
    <3>1. ASSUME NEW s \in T \ {r} PROVE Precedes(r, s)
      <4>1. s = q \/ Precedes(q, s)
        BY <2>8 DEF IsFirst
      <4>2. s \in Rules
        BY <2>3
      <4> QED
        BY <2>9, <2>10, <4>1, <4>2, PrecedesIsTotal
    <3> QED
      BY <2>3, <3>1 DEF IsFirst
  <2>11. CASE Precedes(q, r)
    <3>1. ASSUME NEW s \in T \ {q} PROVE Precedes(q, s)
      BY <2>8, <2>11 DEF IsFirst
    <3> QED
      BY <2>3, <3>1 DEF IsFirst
  <2> QED
    BY <2>9, <2>10, <2>11, PrecedesIsTotal
<1>3. Cardinality(S) \in Nat /\ Cardinality(S) \notin headless
  BY <1>1, <1>2
<1>4. ~Headless(Cardinality(S))
  BY <1>3
<1>5. \E r \in S : IsFirst(r, S)
  BY <1>4
<1> QED
  BY <1>5 DEF First, IsFirst

LEMMA TypeFollows ==
    Inductive => TypeOK
<1> SUFFICES ASSUME Inductive PROVE TypeOK
  OBVIOUS
<1>1. NextTransition \in {Never} \cup (now + 1 .. now + Horizon)
  BY TransitionIsRight DEF Announces
<1>2. Enabled(now) \in SUBSET Rules
  BY DEF Enabled, Inductive
<1>3. ASSUME NEW action, Having(action, now) # {}
      PROVE  First(Having(action, now)) \in Enabled(now)
  <2>1. Having(action, now) \in SUBSET Rules /\ Having(action, now) \subseteq Enabled(now)
    BY <1>2 DEF Having
  <2> QED
    BY <1>3, <2>1, FirstExists
<1>4. Reason(now) \in ({"profile"} \X profiles) \cup ({"rule"} \X Enabled(now))
                          \cup {<<"default", "allow">>}
  BY <1>3 DEF Reason
<1> QED
  BY <1>1, <1>4 DEF Inductive, TypeOK
-----------------------------------------------------------------------------
LEMMA InitInductive ==
    Init => Inductive
BY Sizes DEF Init, Inductive

LEMMA NextInductive ==
    Inductive /\ [Next]_vars => Inductive'
<1> SUFFICES ASSUME Inductive, [Next]_vars PROVE Inductive'
  OBVIOUS
<1>1. CASE Tick
  BY <1>1, Sizes DEF Tick, Inductive
<1>2. ASSUME NEW rule \in rules, SetEnabled(rule) PROVE Inductive'
  BY <1>2 DEF SetEnabled, Inductive
<1>3. CASE UNCHANGED vars
  BY <1>3 DEF vars, Inductive
<1> QED
  BY <1>1, <1>2, <1>3 DEF Next

LEMMA InductiveInvariant == Spec => []Inductive
<1>1. Init => Inductive
  BY InitInductive
<1>2. Inductive /\ [Next]_vars => Inductive'
  BY NextInductive
<1> QED
  BY <1>1, <1>2, PTL DEF Spec

(* The clock, the profiles and the rules keep their kind; an announced     *)
(* change lies within eight days of the evaluation; the reason names a     *)
(* profile or an active rule of the device (decision, _evaluate).          *)
THEOREM TypeCorrect == Spec => []TypeOK
<1>1. Inductive => TypeOK
  BY TypeFollows
<1> QED
  BY <1>1, InductiveInvariant, PTL

(* Every rule is on exactly when one of its windows began on one of its    *)
(* weekdays and has not ended, whatever the lengths of day and week and    *)
(* wherever the clock is shifted (active).                                 *)
THEOREM WindowsStartOnTheirWeekday == Spec => []StartsOnItsWeekday
<1>1. Inductive => StartsOnItsWeekday
  BY ScheduleFollowsWallClock
<1> QED
  BY <1>1, InductiveInvariant, PTL

(* Following the changes of single rules misses no change of the decision: *)
(* the announced minute is the first with another decision, and without an *)
(* announcement there is none or the search was cut off (_evaluate).       *)
THEOREM AnnouncedChangeIsNext == Spec => []TransitionIsNext
<1>1. Inductive => TransitionIsNext
  BY TransitionFollows
<1> QED
  BY <1>1, InductiveInvariant, PTL

(* Rules that will contradict each other within a week are reported, in    *)
(* every mix of zones, although the report starts at midnight UTC          *)
(* (overlaps, RuleManager.conflicts).                                      *)
THEOREM ContradictionsAreReported == Spec => []ConflictsAreForeseen
<1>1. Inductive => ConflictsAreForeseen
  BY ConflictsFollow
<1> QED
  BY <1>1, InductiveInvariant, PTL

LEMMA StepStaysClosed ==
    ASSUME Inductive, [Next]_vars
    PROVE  StaysClosed
<1> SUFFICES ASSUME now' = now, Of("block") \subseteq Of("block")',
                    Of("allow")' \subseteq Of("allow"), ~Allowed(now)
             PROVE  ~Allowed(now)'
  BY DEF StaysClosed
<1>1. profiles' = profiles
  BY DEF Next, Tick, SetEnabled, vars
<1>2. Having("block", now) \subseteq Having("block", now)'
  BY DEF Having, Enabled, Of
<1>3. Having("allow", now)' \subseteq Having("allow", now)
  BY DEF Having, Enabled, Of
<1> QED
  BY <1>1, <1>2, <1>3 DEF Allowed

(* Switching a block on or an allow off opens no access at that moment, in *)
(* any mix of device rules, reusable rules, priorities and profiles        *)
(* (decision, RuleManager.set_enabled).                                    *)
THEOREM BlocksNeverOpen == Spec => BlocksOnlyClose
<1>1. Inductive /\ [Next]_vars => StaysClosed
  BY StepStaysClosed
<1> QED
  BY <1>1, InductiveInvariant, PTL DEF Spec, BlocksOnlyClose
=============================================================================
