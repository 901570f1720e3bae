------------------------ MODULE DeviceRegistryProofs ------------------------
(***************************************************************************)
(* Proofs about DeviceRegistry, for any cards, addresses, scanners and     *)
(* requests.  That the table keeps its constraints holds however sessions  *)
(* overlap; what sessions decide about each other's rows is proved for     *)
(* sessions that are taken in turn (Together = 1): the run registry_grace  *)
(* shows what one that overlaps another may do.                            *)
(***************************************************************************)
EXTENDS DeviceRegistry, FiniteSetTheorems, WellFoundedInduction, TLAPS

(* The constraints of the tables: one row per MAC, no alias and no policy  *)
(* without its device.                                                     *)
Unique(rows) == \A i, j \in DOMAIN rows : rows[i].mac = rows[j].mac => i = j

RowsOK(rows) ==
    /\ IsFiniteSet(DOMAIN rows) /\ DOMAIN rows \subseteq Nat \ {Nobody}
    /\ rows \in [DOMAIN rows -> Row]
    /\ Unique(rows)

StoreOK(v) ==
    /\ RowsOK(v.device)
    /\ DOMAIN v.alias \subseteq Mac /\ \A m \in DOMAIN v.alias : v.alias[m] \in DOMAIN v.device
    /\ v.policies \subseteq DOMAIN v.device
-----------------------------------------------------------------------------
LEMMA LeastNatural ==
    ASSUME NEW S \in SUBSET Nat, S # {}
    PROVE  \E n \in S : \A m \in S : n <= m
<1>1. PICK n \in S : \A m \in S : ~ (<<m, n>> \in OpToRel(<, Nat))
  BY WFMin, NatLessThanWellFounded
<1>2. \A m \in S : ~ (m < n)
  BY <1>1 DEF OpToRel
<1> QED
  BY <1>2

(* A finite set of numbers has a greatest one.                             *)
LEMMA MaxIsGreatest ==
    ASSUME NEW S \in SUBSET Nat, IsFiniteSet(S), S # {}
    PROVE  Max(S) \in S /\ \A n \in S : n <= Max(S)
<1> DEFINE Greatest(T) == \E x \in T : \A y \in T : x >= y
           endless == {n \in Nat : \E T \in SUBSET S :
                          T # {} /\ Cardinality(T) = n /\ ~Greatest(T)}
<1>1. \A T \in SUBSET S : IsFiniteSet(T) /\ Cardinality(T) \in Nat
  <2> TAKE T \in SUBSET S
  <2>1. IsFiniteSet(T)
    BY FS_Subset
  <2> QED
    BY <2>1, FS_CardinalityType
<1>2. endless = {}
  <2>1. SUFFICES ASSUME endless # {} PROVE FALSE
    OBVIOUS
  <2>2. PICK n \in endless : \A m \in endless : n <= m
    <3>1. endless \in SUBSET Nat
      OBVIOUS
    <3> HIDE DEF endless
    <3> QED
      BY <2>1, <3>1, LeastNatural
  <2>3. PICK T \in SUBSET S : T # {} /\ Cardinality(T) = n /\ ~Greatest(T)
    OBVIOUS
  <2>4. PICK x \in T : TRUE
    BY <2>3
  <2> DEFINE rest == T \ {x}
  <2>5. Cardinality(rest) = n - 1 /\ Cardinality(rest) \in Nat /\ n \in Nat
    BY <1>1, <2>3, FS_RemoveElement
  <2>6. Cardinality(rest) \notin endless
    <3> HIDE DEF endless
    <3> QED
      BY <2>2, <2>5
  <2>7. rest = {} \/ Greatest(rest)
    BY <2>5, <2>6
  <2>8. x \in Nat /\ \A y \in T : y \in Nat
    BY <2>3
  <2>9. CASE rest = {}
    <3>1. \A y \in T : x >= y
      BY <2>8, <2>9
    <3> QED
      BY <2>3, <2>4, <3>1
  <2>10. CASE Greatest(rest)
    <3>1. PICK z \in rest : \A y \in rest : z >= y
      BY <2>10
    <3>2. CASE z >= x
      BY <2>3, <2>8, <3>1, <3>2
    <3>3. CASE x >= z
      BY <2>3, <2>4, <2>8, <3>1, <3>3
    <3> QED
      BY <2>8, <3>1, <3>2, <3>3
  <2> QED
    BY <2>7, <2>9, <2>10
<1>3. Cardinality(S) \in Nat /\ Cardinality(S) \notin endless
  BY <1>1, <1>2
<1>4. \E x \in S : \A y \in S : x >= y
  BY <1>3
<1> QED
  BY <1>4 DEF Max

(* The id of a new row is free.                                            *)
LEMMA NextIdIsFree ==
    ASSUME NEW rows, IsFiniteSet(DOMAIN rows), DOMAIN rows \subseteq Nat \ {Nobody}
    PROVE  NextId(rows) \in Nat \ {Nobody} /\ NextId(rows) \notin DOMAIN rows
<1> DEFINE S == {0} \cup DOMAIN rows
<1>1. IsFiniteSet(DOMAIN rows \cup {0})
  BY FS_AddElement
<1>2. S = DOMAIN rows \cup {0}
  OBVIOUS
<1>3. IsFiniteSet(S) /\ S \in SUBSET Nat /\ S # {}
  BY <1>1, <1>2
<1> HIDE DEF S
<1>4. Max(S) \in S /\ \A n \in S : n <= Max(S)
  BY <1>3, MaxIsGreatest
<1>5. Max(S) \in Nat /\ \A n \in DOMAIN rows : n <= Max(S)
  BY <1>3, <1>4 DEF S
<1> QED
  BY <1>5 DEF NextId, S, Nobody
-----------------------------------------------------------------------------
(* One row.                                                                *)
LEMMA FlushedRow ==
    ASSUME NEW row \in Row, NEW loaded \in Row, NEW object \in Row
    PROVE  LET new == Flushed(row, loaded, object)
           IN /\ new \in Row
              /\ new.mac = IF object.mac = loaded.mac THEN row.mac ELSE object.mac
              /\ new.ip = IF object.ip = loaded.ip THEN row.ip ELSE object.ip
              /\ new.online = IF object.online = loaded.online THEN row.online ELSE object.online
              /\ new.conflict = IF object.conflict = loaded.conflict THEN row.conflict
                                ELSE object.conflict
              /\ new.age = IF object.age = loaded.age THEN row.age ELSE object.age
BY DEF Flushed, Row

LEMMA FlagKept ==
    ASSUME NEW row \in Row, NEW b \in BOOLEAN
    PROVE  [row EXCEPT !.conflict = b] \in Row /\ [row EXCEPT !.online = b] \in Row
BY DEF Row

LEMMA PreferredIsOne ==
    ASSUME NEW paths \in SUBSET Ip, paths # {}, NEW current
    PROVE  Preferred(paths, current) \in paths
<1>1. Ip \subseteq Nat /\ Rank \in [Ip -> 0 .. 3]
  BY RegistryAssumption
<1> DEFINE ranks == {Rank[p] : p \in paths}
<1>2. ranks \in SUBSET Nat /\ ranks # {}
  <2>1. \A p \in paths : Rank[p] \in Nat
    BY <1>1
  <2>2. ranks \subseteq Nat
    BY <2>1
  <2>3. PICK p \in paths : TRUE
    OBVIOUS
  <2>4. Rank[p] \in ranks
    OBVIOUS
  <2> QED
    BY <2>2, <2>4
<1>3. PICK k \in ranks : \A n \in ranks : k <= n
  <2> HIDE DEF ranks
  <2> QED
    BY <1>2, LeastNatural
<1> DEFINE best == {p \in paths : Rank[p] = k}
<1>4. best \in SUBSET Nat /\ best # {} /\ \A q \in paths \ best : k < Rank[q]
  <2>1. best \in SUBSET Nat
    BY <1>1
  <2>2. best # {}
    BY <1>3
  <2>3. \A q \in paths : Rank[q] \in ranks /\ Rank[q] \in Nat
    BY <1>1
  <2>4. k \in Nat
    BY <1>2, <1>3
  <2>5. \A q \in paths : k <= Rank[q]
    <3> HIDE DEF ranks
    <3> QED
      BY <1>3, <2>3
  <2>6. \A q \in paths \ best : k < Rank[q]
    BY <2>3, <2>4, <2>5
  <2> QED
    BY <2>1, <2>2, <2>6
<1>5. PICK p \in best : \A q \in best : p <= q
  <2> HIDE DEF best
  <2> QED
    BY <1>4, LeastNatural
<1>6. \E x \in paths : \A q \in paths \ {x} :
          \/ Rank[x] < Rank[q]
          \/ Rank[x] = Rank[q] /\ (x = current \/ (q # current /\ x < q))
  <2>1. CASE current \in best
    BY <1>4, <2>1
  <2>2. CASE current \notin best
    <3>1. \A q \in paths \ {p} : Rank[p] < Rank[q] \/ (Rank[p] = Rank[q] /\ q # current /\ p < q)
      <4> TAKE q \in paths \ {p}
      <4>1. CASE q \in best
        BY <1>4, <1>5, <2>2, <4>1
      <4>2. CASE q \notin best
        BY <1>4, <1>5, <4>2
      <4> QED
        BY <4>1, <4>2
    <3> QED
      BY <1>5, <3>1
  <2> QED
    BY <2>1, <2>2
<1> QED
  BY <1>6 DEF Preferred

LEMMA OnlineRow ==
    ASSUME NEW row \in Row, NEW paths \in SUBSET Ip, paths # {}
    PROVE  LET new == Online(row, paths)
           IN /\ new \in Row /\ new.mac = row.mac /\ new.conflict = row.conflict
              /\ new.online = TRUE /\ new.age = 0
<1>1. Preferred(paths, row.ip) \in Ip
  BY PreferredIsOne
<1>2. Grace \in Nat
  BY RegistryAssumption
<1>3. ASSUME NEW p \in Ip
      PROVE  LET new == [row EXCEPT !.ip = p, !.online = TRUE, !.age = 0]
             IN /\ new \in Row /\ new.mac = row.mac /\ new.conflict = row.conflict
                /\ new.online = TRUE /\ new.age = 0
  <2>1. 0 \in 0 .. Grace /\ p \in Ip \cup {NoIp}
    BY <1>2
  <2>2. \A k \in 0 .. Grace : [row EXCEPT !.ip = p, !.online = TRUE, !.age = k] \in Row
    BY <2>1 DEF Row
  <2> QED
    BY <2>1, <2>2 DEF Row
<1> QED
  BY <1>1, <1>3 DEF Online

(* Tables.                                                                 *)
LEMMA InsertedRows ==
    ASSUME NEW rows, RowsOK(rows), NEW row \in Row, MacFree(rows, row.mac)
    PROVE  RowsOK(Inserted(rows, row))
<1> DEFINE n == NextId(rows)
           new == Inserted(rows, row)
<1>1. n \in Nat \ {Nobody} /\ n \notin DOMAIN rows
  BY NextIdIsFree DEF RowsOK
<1>2. DOMAIN new = DOMAIN rows \cup {n}
  BY DEF Inserted
<1>3. IsFiniteSet(DOMAIN rows \cup {n})
  BY FS_AddElement DEF RowsOK
<1>4. \A i \in DOMAIN rows : new[i] = rows[i]
  BY DEF Inserted
<1>5. new[n] = row
  BY <1>1 DEF Inserted
<1>6. new \in [DOMAIN new -> Row]
  BY <1>1, RowsOK(rows) DEF Inserted, RowsOK
<1> HIDE DEF new, n
<1>7. Unique(new)
  BY <1>2, <1>4, <1>5, RowsOK(rows) DEF Unique, RowsOK, MacFree
<1> QED
  BY <1>1, <1>2, <1>3, <1>6, <1>7, RowsOK(rows) DEF RowsOK, new

(* A table that keeps the ids and the MACs keeps its constraints.          *)
LEMMA ChangedRows ==
    ASSUME NEW rows, RowsOK(rows), NEW new \in [DOMAIN rows -> Row],
           \A i \in DOMAIN rows : new[i].mac = rows[i].mac
    PROVE  RowsOK(new)
BY DEF RowsOK, Unique

LEMMA FewerRows ==
    ASSUME NEW rows, RowsOK(rows), NEW S \in SUBSET DOMAIN rows
    PROVE  RowsOK(Restrict(rows, S)) /\ DOMAIN Restrict(rows, S) = S
<1>1. IsFiniteSet(S)
  BY FS_Subset DEF RowsOK
<1> QED
  BY <1>1 DEF RowsOK, Unique, Restrict
-----------------------------------------------------------------------------
(* Lookups.                                                                *)
LEMMA KnownIs ==
    ASSUME NEW v, NEW mac
    PROVE  LET i == Known(v, mac)
           IN IF \E j \in DOMAIN v.device : v.device[j].mac = mac
              THEN i \in DOMAIN v.device /\ v.device[i].mac = mac
              ELSE i = IF mac \in DOMAIN v.alias THEN v.alias[mac] ELSE Nobody
<1> DEFINE own == {i \in DOMAIN v.device : v.device[i].mac = mac}
<1>1. Known(v, mac) = IF own # {} THEN CHOOSE i \in own : TRUE
                      ELSE IF mac \in DOMAIN v.alias THEN v.alias[mac] ELSE Nobody
  BY DEF Known
<1>2. CASE own # {}
  <2>1. Known(v, mac) \in own
    BY <1>1, <1>2
  <2> QED
    BY <2>1
<1>3. CASE own = {}
  BY <1>1, <1>3
<1> QED
  BY <1>2, <1>3

LEMMA KnownInStore ==
    ASSUME NEW v, StoreOK(v), NEW mac
    PROVE  /\ Known(v, mac) \in DOMAIN v.device \cup {Nobody}
           /\ mac \in Mac => GroupOf(v, mac) \in Mac
<1>1. Known(v, mac) \in DOMAIN v.device \cup {Nobody}
  BY KnownIs DEF StoreOK
<1>2. \A i \in DOMAIN v.device : v.device[i].mac \in Mac
  BY DEF StoreOK, RowsOK, Row
<1> QED
  BY <1>1, <1>2 DEF GroupOf

(* The check for conflicts sets flags and changes nothing else.            *)
LEMMA FlaggedRows ==
    ASSUME NEW rows, RowsOK(rows), NEW held, NEW links, NEW claims
    PROVE  LET new == ConflictsFlagged(rows, held, links, claims)
           IN /\ RowsOK(new) /\ DOMAIN new = DOMAIN rows
              /\ \A i \in DOMAIN rows :
                    \/ new[i] = rows[i]
                    \/ new[i] = [rows[i] EXCEPT !.conflict = TRUE]
<1> DEFINE new == ConflictsFlagged(rows, held, links, claims)
<1>1. PICK flag : new = [i \in DOMAIN rows |-> IF i \in flag
                            THEN [rows[i] EXCEPT !.conflict = TRUE] ELSE rows[i]]
  BY DEF ConflictsFlagged
<1> HIDE DEF new
<1>2. \A i \in DOMAIN rows : rows[i] \in Row
  BY DEF RowsOK
<1>3. \A i \in DOMAIN rows : [rows[i] EXCEPT !.conflict = TRUE] \in Row
  BY <1>2, FlagKept
<1>4. new \in [DOMAIN rows -> Row]
  BY <1>1, <1>2, <1>3
<1>5. \A i \in DOMAIN rows : new[i].mac = rows[i].mac
  BY <1>1, <1>2 DEF Row
<1>6. RowsOK(new)
  BY <1>4, <1>5, ChangedRows
<1> QED
  BY <1>1, <1>4, <1>6 DEF new

(* What a scan may do to a row that was there.                             *)
Follows(old, new) ==
    /\ new.mac = old.mac /\ new.conflict = old.conflict
    /\ old.online => new.online
    /\ new.age \in {0, old.age}

LEMMA UpsertedRow ==
    ASSUME NEW row \in Row, NEW loaded \in Row, NEW paths \in SUBSET Ip, paths # {}
    PROVE  LET new == Flushed(row, loaded, Online(loaded, paths))
           IN new \in Row /\ Follows(row, new)
<1> DEFINE object == Online(loaded, paths)
<1>1. /\ object \in Row /\ object.mac = loaded.mac /\ object.conflict = loaded.conflict
      /\ object.online = TRUE /\ object.age = 0
  BY OnlineRow
<1> HIDE DEF object
<1> DEFINE new == Flushed(row, loaded, object)
<1>2. /\ new \in Row
      /\ new.mac = row.mac /\ new.conflict = row.conflict
      /\ new.online = IF object.online = loaded.online THEN row.online ELSE object.online
      /\ new.age = IF object.age = loaded.age THEN row.age ELSE object.age
  BY <1>1, FlushedRow
<1> HIDE DEF new
<1>3. Follows(row, new)
  BY <1>1, <1>2 DEF Follows
<1> QED
  BY <1>2, <1>3 DEF new, object
-----------------------------------------------------------------------------
(* One group of hosts, and all of them.                                    *)
AccOK(acc) ==
    /\ acc.ok \in BOOLEAN
    /\ acc.ok => /\ RowsOK(acc.rows) /\ DOMAIN device \subseteq DOMAIN acc.rows
                 /\ \A i \in DOMAIN device : Follows(device[i], acc.rows[i])

LEMMA FollowsOn ==
    ASSUME NEW a \in Row, NEW b \in Row, NEW c \in Row, Follows(a, b), Follows(b, c)
    PROVE  Follows(a, c)
BY DEF Follows

LEMMA UpsertKeeps ==
    ASSUME StoreOK(Store), NEW saw, StoreOK(saw), NEW acc, AccOK(acc),
           NEW g \in Mac, NEW first, NEW kept, NEW paths \in SUBSET Ip, paths # {}
    PROVE  AccOK(Upserted(acc, g, saw, first, kept, paths))
<1> DEFINE i == Known(IF g = first THEN saw ELSE [device |-> acc.rows, alias |-> alias], g)
           loaded == IF g = first \/ (g = kept /\ i = Known(saw, g)) THEN saw.device[i]
                     ELSE acc.rows[i]
           object == Online(loaded, paths)
           result == Upserted(acc, g, saw, first, kept, paths)
<1>1. CASE i = Nobody /\ AutoRegister
  <2> DEFINE row == [mac |-> g, ip |-> Preferred(paths, NoIp), online |-> TRUE,
                     conflict |-> FALSE, age |-> 0]
  <2>1. result = [ok |-> acc.ok /\ MacFree(acc.rows, g), rows |-> Inserted(acc.rows, row),
                  held |-> acc.held]
    BY <1>1 DEF Upserted, Registered
  <2>2. result.ok = (acc.ok /\ MacFree(acc.rows, g)) /\ result.rows = Inserted(acc.rows, row)
    BY <2>1
  <2>3. row \in Row /\ row.mac = g
    <3>1. Preferred(paths, NoIp) \in Ip
      BY PreferredIsOne
    <3>2. 0 \in 0 .. Grace
      BY RegistryAssumption
    <3> QED
      BY <3>1, <3>2 DEF Row
  <2> HIDE DEF row, result
  <2>4. ASSUME acc.ok, MacFree(acc.rows, g)
        PROVE  /\ RowsOK(result.rows) /\ DOMAIN acc.rows \subseteq DOMAIN result.rows
               /\ \A j \in DOMAIN acc.rows : result.rows[j] = acc.rows[j]
    <3>1. RowsOK(acc.rows)
      BY <2>4 DEF AccOK
    <3>2. RowsOK(Inserted(acc.rows, row))
      BY <2>3, <2>4, <3>1, InsertedRows
    <3> QED
      BY <2>2, <3>2 DEF Inserted
  <2>5. result.ok \in BOOLEAN /\ (result.ok => acc.ok /\ MacFree(acc.rows, g))
    BY <2>2 DEF AccOK
  <2>6. AccOK(result)
    BY <2>4, <2>5 DEF AccOK
  <2> QED
    BY <2>6 DEF result
<1>2. CASE i = Nobody /\ ~AutoRegister
  <2>1. result = acc
    BY <1>2 DEF Upserted
  <2> QED
    BY <2>1
<1>3. CASE i # Nobody /\ i \notin DOMAIN acc.rows
  <2>1. result = [acc EXCEPT !.ok = FALSE]
    BY <1>3 DEF Upserted
  <2>2. result.ok = FALSE \/ result = acc
    BY <2>1
  <2> QED
    BY <2>2 DEF AccOK
<1>4. CASE i # Nobody /\ i \in DOMAIN acc.rows
  <2>1. /\ result.ok = acc.ok
        /\ result.rows = [acc.rows EXCEPT ![i] = Flushed(acc.rows[i], loaded, object)]
    BY <1>4 DEF Upserted
  <2>2. ASSUME acc.ok
        PROVE  /\ RowsOK(result.rows) /\ DOMAIN device \subseteq DOMAIN result.rows
               /\ \A j \in DOMAIN device : Follows(device[j], result.rows[j])
    <3>1. /\ RowsOK(acc.rows) /\ DOMAIN device \subseteq DOMAIN acc.rows
          /\ \A j \in DOMAIN device : Follows(device[j], acc.rows[j])
      BY <2>2 DEF AccOK
    <3>2. \A j \in DOMAIN acc.rows : acc.rows[j] \in Row
      BY <3>1 DEF RowsOK
    <3>3. i = Known(saw, g) => saw.device[i] \in Row
      <4>1. i = Known(saw, g) => i \in DOMAIN saw.device
        <5> HIDE DEF i
        <5> QED
          BY <1>4, KnownInStore
      <4> QED
        BY <4>1 DEF StoreOK, RowsOK
    <3>4. g = first => i = Known(saw, g)
      OBVIOUS
    <3>5. loaded \in Row
      <4> HIDE DEF i
      <4> QED
        BY <1>4, <3>2, <3>3, <3>4
    <3> HIDE DEF loaded, i
    <3> DEFINE row == Flushed(acc.rows[i], loaded, object)
    <3>6. row \in Row /\ Follows(acc.rows[i], row)
      BY <1>4, <3>2, <3>5, UpsertedRow
    <3> HIDE DEF row
    <3>7. result.rows = [acc.rows EXCEPT ![i] = row]
      BY <2>1 DEF row
    <3> HIDE DEF result, object
    <3>8. result.rows \in [DOMAIN acc.rows -> Row]
      BY <3>1, <3>6, <3>7 DEF RowsOK
    <3>9. \A j \in DOMAIN acc.rows : result.rows[j].mac = acc.rows[j].mac
      BY <3>6, <3>7 DEF Follows
    <3>10. RowsOK(result.rows)
      BY <3>1, <3>8, <3>9, ChangedRows
    <3>11. DOMAIN result.rows = DOMAIN acc.rows
      BY <3>8
    <3>12. ASSUME NEW j \in DOMAIN device PROVE Follows(device[j], result.rows[j])
      <4>1. device[j] \in Row /\ j \in DOMAIN acc.rows
        BY <3>1 DEF StoreOK, Store, RowsOK
      <4>2. CASE j = i
        <5>1. result.rows[j] = row
          BY <3>7, <4>1, <4>2
        <5> QED
          BY <3>1, <3>2, <3>6, <4>1, <4>2, <5>1, FollowsOn
      <4>3. CASE j # i
        <5>1. result.rows[j] = acc.rows[j]
          BY <3>7, <4>1, <4>3
        <5> QED
          BY <3>1, <5>1
      <4> QED
        BY <4>2, <4>3
    <3> QED
      BY <3>1, <3>10, <3>11, <3>12
  <2> HIDE DEF result
  <2>3. AccOK(result)
    BY <2>1, <2>2 DEF AccOK
  <2> QED
    BY <2>3 DEF result
<1> QED
  BY <1>1, <1>2, <1>3, <1>4

(* The recursion over the groups has a solution.                           *)
After(f, n, saw, hosts, order, kept) ==
    IF n = 0 THEN [ok |-> TRUE, rows |-> device, held |-> <<>>]
    ELSE Upserted(f[n - 1], order[n], saw, order[1], kept, Paths(saw, hosts, order[n]))

Solves(f, last, saw, hosts, order, kept) ==
    f = [n \in 0 .. last |-> After(f, n, saw, hosts, order, kept)]

LEMMA UpsertsUnfold ==
    ASSUME NEW saw, NEW hosts, NEW order, NEW kept, Len(order) \in Nat
    PROVE  \E f : /\ Solves(f, Len(order), saw, hosts, order, kept)
                  /\ Upserts(saw, hosts, order, kept) = f[Len(order)]
<1> DEFINE Solved(last) == \E f : Solves(f, last, saw, hosts, order, kept)
           unsolved == {n \in Nat : ~Solved(n)}
           A(f, n) == After(f, n, saw, hosts, order, kept)
<1>1. ASSUME NEW f, NEW g, NEW n \in Nat, n # 0 => f[n - 1] = g[n - 1]
      PROVE  A(f, n) = A(g, n)
  BY <1>1 DEF After
<1> HIDE DEF A
<1>2. Solved(0)
  <2> DEFINE f == [n \in 0 .. 0 |-> A(<< >>, n)]
  <2>1. ASSUME NEW n \in 0 .. 0
        PROVE  A(<< >>, n) = A(f, n)
    <3>1. n = 0 /\ n \in Nat
      OBVIOUS
    <3> HIDE DEF f
    <3> QED
      BY <1>1, <3>1
  <2>2. f = [n \in 0 .. 0 |-> A(f, n)]
    BY <2>1
  <2> QED
    BY <2>2 DEF A, Solves
<1>3. ASSUME NEW last \in Nat, Solved(last)
      PROVE  Solved(last + 1)
  <2>1. PICK f : f = [n \in 0 .. last |-> A(f, n)]
    BY <1>3 DEF A, Solves
  <2> DEFINE g == [n \in 0 .. last + 1 |-> A(f, n)]
  <2>2. ASSUME NEW n \in 0 .. last + 1
        PROVE  A(f, n) = A(g, n)
    <3>1. n # 0 => f[n - 1] = g[n - 1]
      <4>1. SUFFICES ASSUME n # 0 PROVE f[n - 1] = g[n - 1]
        OBVIOUS
      <4>2. n - 1 \in 0 .. last /\ n - 1 \in 0 .. last + 1
        BY <4>1
      <4>3. f[n - 1] = A(f, n - 1)
        BY <2>1, <4>2
      <4>4. g[n - 1] = A(f, n - 1)
        BY <4>2
      <4> QED
        BY <4>3, <4>4
    <3>2. n \in Nat
      OBVIOUS
    <3> HIDE DEF g
    <3> QED
      BY <1>1, <3>1, <3>2
  <2>3. g = [n \in 0 .. last + 1 |-> A(g, n)]
    BY <2>2
  <2> QED
    BY <2>3 DEF A, Solves
<1>4. unsolved = {}
  <2>1. SUFFICES ASSUME unsolved # {} PROVE FALSE
    OBVIOUS
  <2>2. PICK n \in unsolved : \A m \in unsolved : n <= m
    <3>1. unsolved \in SUBSET Nat
      OBVIOUS
    <3> HIDE DEF unsolved
    <3> QED
      BY <2>1, <3>1, LeastNatural
  <2>3. n \in Nat /\ ~Solved(n)
    OBVIOUS
  <2>4. n # 0
    BY <1>2, <2>3
  <2>5. n - 1 \in Nat /\ n - 1 \notin unsolved
    BY <2>2, <2>3, <2>4
  <2>6. Solved(n - 1)
    BY <2>5
  <2> HIDE DEF Solved
  <2>7. Solved((n - 1) + 1)
    BY <1>3, <2>5, <2>6
  <2>8. (n - 1) + 1 = n
    BY <2>3
  <2> QED
    BY <2>3, <2>7, <2>8
<1>5. Solved(Len(order))
  BY <1>4
<1> DEFINE after == CHOOSE f : Solves(f, Len(order), saw, hosts, order, kept)
<1>6. Solves(after, Len(order), saw, hosts, order, kept)
  BY <1>5
<1>7. Upserts(saw, hosts, order, kept) = after[Len(order)]
  BY DEF Upserts, Solves, After
<1> QED
  BY <1>6, <1>7
-----------------------------------------------------------------------------
(* The groups of a scan.                                                   *)
LEMMA GroupsOfScan ==
    ASSUME NEW v, StoreOK(v), NEW hosts \in SUBSET Host
    PROVE  /\ Groups(v, hosts) \in SUBSET Mac /\ IsFiniteSet(Groups(v, hosts))
           /\ \A g \in Groups(v, hosts) : Paths(v, hosts, g) \in SUBSET Ip /\ Paths(v, hosts, g) # {}
<1>1. \A h \in hosts : h.mac \in Mac /\ h.ip \in Ip
  BY DEF Host
<1>2. Groups(v, hosts) \in SUBSET Mac
  BY <1>1, KnownInStore DEF Groups
<1>3. IsFiniteSet(Groups(v, hosts))
  BY <1>2, FS_Subset, RegistryAssumption
<1>4. ASSUME NEW g \in Groups(v, hosts)
      PROVE  Paths(v, hosts, g) \in SUBSET Ip /\ Paths(v, hosts, g) # {}
  <2>1. PICK h \in hosts : g = GroupOf(v, h.mac)
    BY DEF Groups
  <2>2. h.ip \in Paths(v, hosts, g)
    BY <2>1 DEF Paths
  <2> QED
    BY <1>1, <2>2 DEF Paths
<1> QED
  BY <1>2, <1>3, <1>4

LEMMA OrderOfGroups ==
    ASSUME NEW S, IsFiniteSet(S), NEW order \in SetToSeqs(S)
    PROVE  /\ Len(order) \in Nat
           /\ order \in [1 .. Len(order) -> S]
           /\ \A i, j \in 1 .. Len(order) : i # j => order[i] # order[j]
<1>1. Cardinality(S) \in Nat
  BY FS_CardinalityType
<1>2. /\ order \in [1 .. Cardinality(S) -> S]
      /\ \A i, j \in 1 .. Cardinality(S) : i # j => order[i] # order[j]
  BY DEF SetToSeqs
<1>3. order \in Seq(S) /\ Len(order) = Cardinality(S)
  BY <1>1, <1>2
<1> QED
  BY <1>1, <1>2, <1>3

LEMMA UpsertsKeep ==
    ASSUME StoreOK(Store), NEW saw, StoreOK(saw), NEW hosts \in SUBSET Host,
           NEW order \in SetToSeqs(Groups(saw, hosts)), NEW kept
    PROVE  AccOK(Upserts(saw, hosts, order, kept))
<1>1. /\ Len(order) \in Nat
      /\ \A n \in 1 .. Len(order) : order[n] \in Groups(saw, hosts)
  BY GroupsOfScan, OrderOfGroups
<1>2. PICK f : /\ Solves(f, Len(order), saw, hosts, order, kept)
               /\ Upserts(saw, hosts, order, kept) = f[Len(order)]
  BY <1>1, UpsertsUnfold
<1> DEFINE wrong == {n \in 0 .. Len(order) : ~AccOK(f[n])}
<1>3. AccOK(f[0])
  <2>1. f[0] = [ok |-> TRUE, rows |-> device, held |-> <<>>]
    BY <1>1, <1>2 DEF Solves, After
  <2>2. f[0].ok = TRUE /\ f[0].rows = device
    BY <2>1
  <2>3. RowsOK(device)
    BY DEF StoreOK, Store
  <2>4. \A i \in DOMAIN device : Follows(device[i], device[i])
    BY DEF Follows
  <2> QED
    BY <2>2, <2>3, <2>4 DEF AccOK
<1>4. ASSUME NEW n \in 1 .. Len(order), AccOK(f[n - 1])
      PROVE  AccOK(f[n])
  <2>1. n \in 0 .. Len(order) /\ n # 0
    BY <1>1
  <2>2. f[n] = Upserted(f[n - 1], order[n], saw, order[1], kept, Paths(saw, hosts, order[n]))
    BY <1>2, <2>1 DEF Solves, After
  <2>3. /\ order[n] \in Mac /\ Paths(saw, hosts, order[n]) \in SUBSET Ip
        /\ Paths(saw, hosts, order[n]) # {}
    BY <1>1, GroupsOfScan
  <2> QED
    BY <1>4, <2>2, <2>3, UpsertKeeps
<1>5. wrong = {}
  <2>1. SUFFICES ASSUME wrong # {} PROVE FALSE
    OBVIOUS
  <2>2. PICK n \in wrong : \A m \in wrong : n <= m
    <3>1. wrong \in SUBSET Nat
      BY <1>1
    <3> HIDE DEF wrong
    <3> QED
      BY <2>1, <3>1, LeastNatural
  <2>3. n \in 1 .. Len(order) /\ n - 1 \in 0 .. Len(order) /\ ~(n <= n - 1)
    BY <1>1, <1>3
  <2>4. AccOK(f[n - 1])
    BY <2>2, <2>3
  <2> QED
    BY <1>4, <2>3, <2>4
<1>6. Len(order) \in 0 .. Len(order)
  BY <1>1
<1> QED
  BY <1>2, <1>5, <1>6
-----------------------------------------------------------------------------
(* What scans and neighbour events may do to the table: no row is removed, *)
(* none is given another MAC and no flag is cleared.                       *)
Steady(rows) ==
    /\ RowsOK(rows) /\ DOMAIN device \subseteq DOMAIN rows
    /\ \A i \in DOMAIN device :
          rows[i].mac = device[i].mac /\ (device[i].conflict => rows[i].conflict)

LEMMA FlaggedSteady ==
    ASSUME StoreOK(Store), NEW rows, Steady(rows), NEW held, NEW links, NEW claims
    PROVE  Steady(ConflictsFlagged(rows, held, links, claims))
<1> DEFINE new == ConflictsFlagged(rows, held, links, claims)
<1>1. /\ RowsOK(new) /\ DOMAIN new = DOMAIN rows
      /\ \A i \in DOMAIN rows : \/ new[i] = rows[i]
                                \/ new[i] = [rows[i] EXCEPT !.conflict = TRUE]
  BY FlaggedRows DEF Steady
<1> HIDE DEF new
<1>2. \A i \in DOMAIN rows : rows[i] \in Row
  BY DEF Steady, RowsOK
<1>3. \A i \in DOMAIN rows : new[i].mac = rows[i].mac /\ (rows[i].conflict => new[i].conflict)
  BY <1>1, <1>2 DEF Row
<1>4. Steady(new)
  BY <1>1, <1>3 DEF Steady
<1> QED
  BY <1>4 DEF new

LEMMA ReconciledSteady ==
    ASSUME StoreOK(Store), NEW saw, StoreOK(saw), NEW req, req.hosts \in SUBSET Host,
           NEW order \in SetToSeqs(Groups(saw, req.hosts)), NEW kept,
           Reconciled(req, saw, order, kept).ok
    PROVE  Steady(Reconciled(req, saw, order, kept).rows)
<1> DEFINE groups == Groups(saw, req.hosts)
           found == Upserts(saw, req.hosts, order, kept)
           gone == IF ~req.complete THEN {}
                   ELSE Overdue(IF groups = {} THEN saw.device ELSE found.rows, groups)
           left == [i \in DOMAIN found.rows |->
                       IF i \in gone THEN [found.rows[i] EXCEPT !.online = FALSE] ELSE found.rows[i]]
           claims == {[mac |-> GroupOf(saw, h.mac), ip |-> h.ip] : h \in req.hosts}
           flagged == ConflictsFlagged(saw.device, <<>>, saw.alias, {})
           merged == [i \in DOMAIN device |->
                          IF i \in DOMAIN flagged THEN Flushed(device[i], saw.device[i], flagged[i])
                          ELSE device[i]]
           result == Reconciled(req, saw, order, kept)
<1>1. RowsOK(device) /\ RowsOK(saw.device)
  BY DEF StoreOK, Store
<1>2. \A i \in DOMAIN device : device[i] \in Row
  BY <1>1 DEF RowsOK
<1>3. CASE groups = {} /\ gone = {}
  <2>1. result.rows = merged
    BY <1>3 DEF Reconciled
  <2>2. /\ RowsOK(flagged) /\ DOMAIN flagged = DOMAIN saw.device
        /\ \A i \in DOMAIN saw.device :
              \/ flagged[i] = saw.device[i]
              \/ flagged[i] = [saw.device[i] EXCEPT !.conflict = TRUE]
    BY <1>1, FlaggedRows
  <2> HIDE DEF flagged, result
  <2>3. \A i \in DOMAIN flagged : /\ flagged[i] \in Row /\ saw.device[i] \in Row
                                  /\ flagged[i].mac = saw.device[i].mac
                                  /\ flagged[i].conflict = saw.device[i].conflict \/ flagged[i].conflict
    <3> SUFFICES ASSUME NEW i \in DOMAIN flagged
                 PROVE  /\ flagged[i] \in Row /\ saw.device[i] \in Row
                        /\ flagged[i].mac = saw.device[i].mac
                        /\ flagged[i].conflict = saw.device[i].conflict \/ flagged[i].conflict
      OBVIOUS
    <3>1. flagged[i] \in Row /\ saw.device[i] \in Row
      BY <1>1, <2>2 DEF RowsOK
    <3>2. \/ flagged[i] = saw.device[i]
          \/ flagged[i] = [saw.device[i] EXCEPT !.conflict = TRUE]
      BY <2>2
    <3> QED
      BY <3>1, <3>2 DEF Row
  <2>4. ASSUME NEW i \in DOMAIN device
        PROVE  /\ merged[i] \in Row /\ merged[i].mac = device[i].mac
               /\ device[i].conflict => merged[i].conflict
    <3>1. CASE i \in DOMAIN flagged
      <4>1. merged[i] = Flushed(device[i], saw.device[i], flagged[i])
        BY <3>1
      <4> QED
        BY <1>2, <2>3, <3>1, <4>1, FlushedRow
    <3>2. CASE i \notin DOMAIN flagged
      BY <1>2, <3>2
    <3> QED
      BY <3>1, <3>2
  <2>5. DOMAIN merged = DOMAIN device
    OBVIOUS
  <2>6. merged \in [DOMAIN device -> Row]
    BY <2>4
  <2> HIDE DEF merged
  <2>7. RowsOK(merged)
    BY <1>1, <2>4, <2>6, ChangedRows
  <2>8. Steady(merged)
    BY <2>4, <2>5, <2>7 DEF Steady
  <2> QED
    BY <2>1, <2>8 DEF result
<1>4. CASE ~(groups = {} /\ gone = {})
  <2>1. /\ result.ok = (found.ok /\ gone \subseteq DOMAIN left)
        /\ result.rows = ConflictsFlagged(left, found.held, alias, claims)
    BY <1>4 DEF Reconciled
  <2>2. AccOK(found) /\ found.ok
    BY <2>1, UpsertsKeep
  <2> HIDE DEF found, gone, result
  <2>3. /\ RowsOK(found.rows) /\ DOMAIN device \subseteq DOMAIN found.rows
        /\ \A i \in DOMAIN device : Follows(device[i], found.rows[i])
    BY <2>2 DEF AccOK
  <2>4. \A i \in DOMAIN found.rows : found.rows[i] \in Row
    BY <2>3 DEF RowsOK
  <2>5. ASSUME NEW i \in DOMAIN found.rows
        PROVE  /\ left[i] \in Row /\ left[i].mac = found.rows[i].mac
               /\ left[i].conflict = found.rows[i].conflict
    <3>1. [found.rows[i] EXCEPT !.online = FALSE] \in Row
      BY <2>4, FlagKept
    <3> QED
      BY <2>4, <3>1 DEF Row
  <2>6. DOMAIN left = DOMAIN found.rows /\ left \in [DOMAIN found.rows -> Row]
    BY <2>5
  <2> HIDE DEF left
  <2>7. RowsOK(left)
    BY <2>3, <2>5, <2>6, ChangedRows
  <2>8. Steady(left)
    BY <2>3, <2>5, <2>6, <2>7 DEF Steady, Follows
  <2>9. Steady(result.rows)
    BY <2>1, <2>8, FlaggedSteady
  <2> QED
    BY <2>9 DEF result
<1> QED
  BY <1>3, <1>4

LEMMA PresentSteady ==
    ASSUME StoreOK(Store), NEW saw, StoreOK(saw), NEW req, req.ip \in Ip,
           Present(req, saw).ok
    PROVE  Steady(Present(req, saw).rows)
<1> DEFINE i == Known(saw, req.mac)
           object == [saw.device[i] EXCEPT !.online = TRUE, !.age = 0, !.ip = req.ip]
           written == [device EXCEPT ![i] = Flushed(device[i], saw.device[i], object)]
           result == Present(req, saw)
<1>1. i # Nobody /\ i \in DOMAIN device
  BY DEF Present
<1>2. result.rows = ConflictsFlagged(written, [j \in {i} |-> object], alias, {})
  BY <1>1 DEF Present
<1>3. i \in DOMAIN saw.device
  <2> HIDE DEF i
  <2> QED
    BY <1>1, KnownInStore DEF i
<1> HIDE DEF i, result
<1>4. RowsOK(device) /\ RowsOK(saw.device)
  BY DEF StoreOK, Store
<1>5. saw.device[i] \in Row /\ \A j \in DOMAIN device : device[j] \in Row
  BY <1>3, <1>4 DEF RowsOK
<1>6. object \in Row /\ object.mac = saw.device[i].mac /\ object.conflict = saw.device[i].conflict
  <2>1. 0 \in 0 .. Grace
    BY RegistryAssumption
  <2> QED
    BY <1>5, <2>1 DEF Row
<1> DEFINE row == Flushed(device[i], saw.device[i], object)
<1>7. row \in Row /\ row.mac = device[i].mac /\ row.conflict = device[i].conflict
  <2> HIDE DEF object
  <2> QED
    BY <1>1, <1>5, <1>6, FlushedRow
<1>8. written = [device EXCEPT ![i] = row]
  OBVIOUS
<1> HIDE DEF row
<1>9. /\ DOMAIN written = DOMAIN device /\ written \in [DOMAIN device -> Row]
      /\ \A j \in DOMAIN device : /\ written[j].mac = device[j].mac
                                  /\ written[j].conflict = device[j].conflict
  BY <1>1, <1>4, <1>5, <1>7, <1>8 DEF RowsOK
<1> HIDE DEF written
<1>10. RowsOK(written)
  BY <1>4, <1>9, ChangedRows
<1>11. Steady(written)
  BY <1>9, <1>10 DEF Steady
<1>12. Steady(result.rows)
  BY <1>2, <1>11, FlaggedSteady
<1> QED
  BY <1>12 DEF result
-----------------------------------------------------------------------------
(* Commits.                                                                *)
LEMMA Committed ==
    ASSUME NEW rows, NEW links, NEW owned, Commit(rows, links, owned)
    PROVE  /\ device' = rows /\ policies' = owned \cap DOMAIN rows
           /\ DOMAIN alias' = {m \in DOMAIN links : links[m] \in DOMAIN rows}
           /\ \A m \in DOMAIN alias' : alias'[m] = links[m]
BY DEF Commit, Restrict

LEMMA CommitKeeps ==
    ASSUME NEW rows, RowsOK(rows), NEW links, DOMAIN links \subseteq Mac, NEW owned,
           Commit(rows, links, owned)
    PROVE  StoreOK(Store)'
<1>1. /\ device' = rows /\ policies' = owned \cap DOMAIN rows
      /\ DOMAIN alias' = {m \in DOMAIN links : links[m] \in DOMAIN rows}
      /\ \A m \in DOMAIN alias' : alias'[m] = links[m]
  BY Committed
<1>2. Store' = [device |-> device', alias |-> alias', policies |-> policies']
  BY DEF Store
<1>3. RowsOK(device')
  BY <1>1
<1>4. /\ DOMAIN alias' \subseteq Mac /\ \A m \in DOMAIN alias' : alias'[m] \in DOMAIN device'
      /\ policies' \subseteq DOMAIN device'
  BY <1>1
<1> HIDE DEF Store
<1>5. StoreOK(Store')
  BY <1>2, <1>3, <1>4 DEF StoreOK
<1> QED
  BY <1>5 DEF StoreOK, RowsOK, Unique, Store

(* What a request of the user may do, given what its session saw.          *)
UserStep(req, saw) ==
    /\ StoreOK(Store)'
    /\ \A i \in DOMAIN device \cap DOMAIN device' :
          /\ device[i].online => device'[i].online
          /\ device[i].conflict /\ ~device'[i].conflict
                => req.op = "resolve" /\ req.id = i /\ Reviewed(req, saw)
    /\ saw = Store /\ OneIdentityPerMac => OneIdentityPerMac'

LEMMA RollBackIsUserStep ==
    ASSUME StoreOK(Store), NEW req, NEW saw, RollBack
    PROVE  UserStep(req, saw)
<1>1. device' = device /\ alias' = alias /\ policies' = policies
  BY DEF RollBack, store
<1>2. StoreOK(Store)'
  BY <1>1 DEF StoreOK, Store, RowsOK, Unique
<1> QED
  BY <1>1, <1>2 DEF UserStep, OneIdentityPerMac

LEMMA MergeStep ==
    ASSUME StoreOK(Store), NEW req, req.op = "merge", NEW saw, StoreOK(saw), Merge(req, saw)
    PROVE  UserStep(req, saw)
<1> DEFINE r == req.id
           c == req.candidate
           moved == [m \in DOMAIN alias \cup {req.other} |->
                        IF m = req.other \/ alias[m] = c THEN r ELSE alias[m]]
           rows == Restrict(device, DOMAIN device \ {c})
<1>1. CASE RollBack
  BY <1>1, RollBackIsUserStep
<1>2. CASE MergeAllowed(req, saw) /\ Commit(rows, moved, policies)
  <2>1. c \in DOMAIN saw.device /\ saw.device[c].mac = req.other
    BY <1>2 DEF MergeAllowed, Has
  <2>2. req.other \in Mac
    BY <2>1 DEF StoreOK, RowsOK, Row
  <2>3. DOMAIN moved \subseteq Mac
    BY <2>2 DEF StoreOK, Store
  <2>4. RowsOK(rows) /\ DOMAIN rows = DOMAIN device \ {c}
    BY FewerRows DEF StoreOK, Store
  <2>5. \A i \in DOMAIN rows : rows[i] = device[i]
    BY DEF Restrict
  <2> HIDE DEF rows
  <2>6. StoreOK(Store)'
    BY <1>2, <2>3, <2>4, CommitKeeps
  <2>7. /\ device' = rows
        /\ DOMAIN alias' \subseteq DOMAIN moved
        /\ \A m \in DOMAIN alias' : alias'[m] = moved[m]
    <3> HIDE DEF moved
    <3>1. Commit(rows, moved, policies)
      BY <1>2
    <3>2. /\ device' = rows
          /\ DOMAIN alias' = {m \in DOMAIN moved : moved[m] \in DOMAIN rows}
          /\ \A m \in DOMAIN alias' : alias'[m] = moved[m]
      BY <3>1, Committed
    <3> QED
      BY <3>2
  <2>8. ASSUME saw = Store, OneIdentityPerMac
        PROVE  OneIdentityPerMac'
    <3> SUFFICES ASSUME NEW i \in DOMAIN device', NEW m \in DOMAIN alias', device'[i].mac = m
                 PROVE  alias'[m] = i
      BY DEF OneIdentityPerMac
    <3>1. i \in DOMAIN device /\ i # c /\ device[i].mac = m
      BY <2>4, <2>5, <2>7
    <3>2. c \in DOMAIN device /\ device[c].mac = req.other
      BY <2>1, <2>8 DEF Store
    <3>3. m # req.other
      BY <3>1, <3>2 DEF StoreOK, Store, RowsOK, Unique
    <3>4. m \in DOMAIN alias /\ alias[m] = i
      BY <2>7, <2>8, <3>1, <3>3 DEF OneIdentityPerMac
    <3> QED
      BY <2>7, <3>1, <3>3, <3>4
  <2> QED
    BY <2>4, <2>5, <2>6, <2>7, <2>8 DEF UserStep
<1> QED
  BY <1>1, <1>2 DEF Merge

LEMMA SplitStep ==
    ASSUME StoreOK(Store), NEW req, req.op = "split", NEW saw, StoreOK(saw), Split(req, saw)
    PROVE  UserStep(req, saw)
<1> DEFINE r == req.id
           mac == req.other
           marked == [i \in DOMAIN device |-> IF i = r /\ ~saw.device[r].conflict
                                THEN [device[i] EXCEPT !.conflict = TRUE] ELSE device[i]]
           row == [mac |-> mac, ip |-> NoIp, online |-> FALSE, conflict |-> FALSE, age |-> Grace]
           rows == Inserted(marked, row)
           links == Restrict(alias, DOMAIN alias \ {mac})
<1>1. CASE RollBack
  BY <1>1, RollBackIsUserStep
<1>2. CASE /\ mac \in DOMAIN saw.alias /\ MacFree(device, mac)
           /\ Commit(rows, links, policies)
  <2>1. mac \in Mac
    BY <1>2 DEF StoreOK
  <2>2. RowsOK(device) /\ \A i \in DOMAIN device : device[i] \in Row
    BY DEF StoreOK, Store, RowsOK
  <2>3. \A i \in DOMAIN device :
           /\ marked[i] \in Row /\ marked[i].mac = device[i].mac
           /\ marked[i].online = device[i].online /\ (device[i].conflict => marked[i].conflict)
    BY <2>2 DEF Row
  <2>4. DOMAIN marked = DOMAIN device /\ marked \in [DOMAIN device -> Row]
    BY <2>3
  <2> HIDE DEF marked
  <2>5. RowsOK(marked)
    BY <2>2, <2>3, <2>4, ChangedRows
  <2>6. row \in Row /\ row.mac = mac
    <3>1. Grace \in 0 .. Grace
      BY RegistryAssumption
    <3> QED
      BY <2>1, <3>1 DEF Row
  <2>7. MacFree(marked, mac)
    BY <1>2, <2>3, <2>4 DEF MacFree
  <2> HIDE DEF row
  <2>8. RowsOK(rows)
    BY <2>5, <2>6, <2>7, InsertedRows
  <2>9. \A i \in DOMAIN device : rows[i] = marked[i]
    BY <2>4 DEF Inserted
  <2>10. \A i \in DOMAIN rows \ DOMAIN device : rows[i] = row
    BY <2>4 DEF Inserted
  <2>11. DOMAIN links \subseteq DOMAIN alias \ {mac} /\ \A m \in DOMAIN links : links[m] = alias[m]
    BY DEF Restrict
  <2>12. DOMAIN links \subseteq Mac
    BY <2>11 DEF StoreOK, Store
  <2> HIDE DEF rows, links
  <2>13. StoreOK(Store)'
    BY <1>2, <2>8, <2>12, CommitKeeps
  <2>14. /\ device' = rows /\ DOMAIN alias' \subseteq DOMAIN links
         /\ \A m \in DOMAIN alias' : alias'[m] = links[m]
    <3>1. Commit(rows, links, policies)
      BY <1>2
    <3>2. /\ device' = rows
          /\ DOMAIN alias' = {m \in DOMAIN links : links[m] \in DOMAIN rows}
          /\ \A m \in DOMAIN alias' : alias'[m] = links[m]
      BY <3>1, Committed
    <3> QED
      BY <3>2
  <2>15. ASSUME OneIdentityPerMac
         PROVE  OneIdentityPerMac'
    <3> SUFFICES ASSUME NEW i \in DOMAIN device', NEW m \in DOMAIN alias', device'[i].mac = m
                 PROVE  alias'[m] = i
      BY DEF OneIdentityPerMac
    <3>1. i \in DOMAIN rows /\ rows[i].mac = m /\ m \in DOMAIN alias /\ m # mac /\ alias'[m] = alias[m]
      BY <2>11, <2>14
    <3>2. i \in DOMAIN device
      BY <2>6, <2>10, <3>1
    <3>3. device[i].mac = m
      BY <2>3, <2>9, <3>1, <3>2
    <3> QED
      BY <2>15, <3>1, <3>2, <3>3 DEF OneIdentityPerMac
  <2> QED
    BY <2>3, <2>9, <2>13, <2>14, <2>15 DEF UserStep
<1> QED
  BY <1>1, <1>2 DEF Split

(* The requests that leave the aliases to the foreign keys.                *)
LEMMA AliasesStay ==
    ASSUME StoreOK(Store), NEW rows, RowsOK(rows), NEW owned, Commit(rows, alias, owned)
    PROVE  /\ StoreOK(Store)' /\ device' = rows
           /\ DOMAIN alias' \subseteq DOMAIN alias
           /\ \A m \in DOMAIN alias' : alias'[m] = alias[m]
<1>1. DOMAIN alias \subseteq Mac
  BY DEF StoreOK, Store
<1>2. StoreOK(Store)'
  BY <1>1, CommitKeeps
<1>3. /\ device' = rows
      /\ DOMAIN alias' = {m \in DOMAIN alias : alias[m] \in DOMAIN rows}
      /\ \A m \in DOMAIN alias' : alias'[m] = alias[m]
  BY DEF Commit, Restrict
<1> QED
  BY <1>2, <1>3

LEMMA ResolveStep ==
    ASSUME StoreOK(Store), NEW req, req.op = "resolve", NEW saw, StoreOK(saw),
           ResolveConflict(req, saw)
    PROVE  UserStep(req, saw)
<1> DEFINE i == req.id
           cleared == [device EXCEPT ![i] = [device[i] EXCEPT !.conflict = FALSE]]
           rows == IF saw.device[i].conflict THEN cleared ELSE device
<1>1. CASE RollBack
  BY <1>1, RollBackIsUserStep
<1>2. CASE /\ Reviewed(req, saw) /\ (saw.device[i].conflict => i \in DOMAIN device)
           /\ Commit(rows, alias, policies)
  <2>1. RowsOK(device) /\ \A j \in DOMAIN device : device[j] \in Row
    BY DEF StoreOK, Store, RowsOK
  <2>2. ASSUME i \in DOMAIN device
        PROVE  /\ cleared \in [DOMAIN device -> Row]
               /\ \A j \in DOMAIN device : /\ cleared[j].mac = device[j].mac
                                           /\ cleared[j].online = device[j].online
                                           /\ j # i => cleared[j] = device[j]
    <3> DEFINE row == [device[i] EXCEPT !.conflict = FALSE]
    <3>1. row \in Row /\ row.mac = device[i].mac /\ row.online = device[i].online
      BY <2>1, <2>2 DEF Row
    <3>2. cleared = [device EXCEPT ![i] = row]
      OBVIOUS
    <3> HIDE DEF row, cleared
    <3> QED
      BY <2>1, <2>2, <3>1, <3>2 DEF RowsOK
  <2>3. /\ rows \in [DOMAIN device -> Row]
        /\ \A j \in DOMAIN device : /\ rows[j].mac = device[j].mac
                                    /\ rows[j].online = device[j].online
                                    /\ j # i => rows[j] = device[j]
    <3> HIDE DEF cleared
    <3> QED
      BY <1>2, <2>1, <2>2 DEF RowsOK
  <2> HIDE DEF rows
  <2>4. RowsOK(rows)
    BY <2>1, <2>3, ChangedRows
  <2>5. /\ StoreOK(Store)' /\ device' = rows /\ DOMAIN alias' \subseteq DOMAIN alias
        /\ \A m \in DOMAIN alias' : alias'[m] = alias[m]
    BY <1>2, <2>4, AliasesStay
  <2>6. OneIdentityPerMac => OneIdentityPerMac'
    BY <2>3, <2>5 DEF OneIdentityPerMac
  <2> QED
    BY <1>2, <2>3, <2>5, <2>6 DEF UserStep
<1> QED
  BY <1>1, <1>2 DEF ResolveConflict

LEMMA UpdateStep ==
    ASSUME StoreOK(Store), NEW req, req.op = "update", NEW saw, StoreOK(saw),
           req.mac \in Mac, req.ip \in Ip \cup {NoIp}, UpdateDevice(req, saw)
    PROVE  UserStep(req, saw)
<1> DEFINE i == req.id
           object == [saw.device[i] EXCEPT !.mac = req.mac, !.ip = req.ip]
           row == Flushed(device[i], saw.device[i], object)
           rows == [device EXCEPT ![i] = row]
<1>1. CASE RollBack
  BY <1>1, RollBackIsUserStep
<1>2. CASE /\ Has(saw, i) /\ MacAvailable(saw, req.mac, i)
           /\ i \in DOMAIN device /\ \A j \in DOMAIN device \ {i} : device[j].mac # req.mac
           /\ Commit(rows, alias, policies)
  <2>1. RowsOK(device) /\ \A j \in DOMAIN device : device[j] \in Row
    BY DEF StoreOK, Store, RowsOK
  <2>2. saw.device[i] \in Row
    BY <1>2 DEF StoreOK, RowsOK, Has
  <2>3. /\ object \in Row /\ object.mac = req.mac
        /\ object.online = saw.device[i].online /\ object.conflict = saw.device[i].conflict
    BY <2>2 DEF Row
  <2> HIDE DEF object
  <2>4. /\ row \in Row /\ row.mac = IF req.mac = saw.device[i].mac THEN device[i].mac ELSE req.mac
        /\ row.online = device[i].online /\ row.conflict = device[i].conflict
    BY <1>2, <2>1, <2>2, <2>3, FlushedRow
  <2> HIDE DEF row
  <2>5. /\ rows \in [DOMAIN device -> Row] /\ rows[i] = row
        /\ \A j \in DOMAIN device \ {i} : rows[j] = device[j]
    BY <1>2, <2>1, <2>4 DEF RowsOK
  <2> HIDE DEF rows
  <2>6. Unique(rows)
    <3> SUFFICES ASSUME NEW j \in DOMAIN device, NEW k \in DOMAIN device,
                        rows[j].mac = rows[k].mac, j # k
                 PROVE  FALSE
      BY <2>5 DEF Unique
    <3>1. CASE j # i /\ k # i
      BY <2>1, <2>5, <3>1 DEF RowsOK, Unique
    <3>2. \A n \in DOMAIN device \ {i} : device[n].mac # row.mac
      BY <1>2, <2>1, <2>4 DEF RowsOK, Unique
    <3> QED
      BY <2>5, <3>1, <3>2
  <2>7. RowsOK(rows)
    BY <2>1, <2>5, <2>6 DEF RowsOK
  <2>8. /\ StoreOK(Store)' /\ device' = rows /\ DOMAIN alias' \subseteq DOMAIN alias
        /\ \A m \in DOMAIN alias' : alias'[m] = alias[m]
    BY <1>2, <2>7, AliasesStay
  <2>9. ASSUME saw = Store, OneIdentityPerMac
        PROVE  OneIdentityPerMac'
    <3> SUFFICES ASSUME NEW j \in DOMAIN device, NEW m \in DOMAIN alias, rows[j].mac = m
                 PROVE  alias[m] = j
      BY <2>5, <2>8 DEF OneIdentityPerMac
    <3>1. CASE j # i
      BY <2>5, <2>9, <3>1 DEF OneIdentityPerMac
    <3>2. CASE j = i /\ m = device[i].mac
      BY <2>9, <3>2 DEF OneIdentityPerMac
    <3>3. CASE j = i /\ m # device[i].mac
      <4>1. m = req.mac
        BY <2>4, <2>5, <3>3
      <4>2. \A n \in DOMAIN device : device[n].mac # m
        BY <1>2, <3>3, <4>1
      <4>3. Known(saw, m) = alias[m]
        BY <2>9, <4>2, KnownIs DEF Store
      <4>4. alias[m] \in DOMAIN device
        BY DEF StoreOK, Store
      <4>5. alias[m] # Nobody
        BY <2>1, <4>4 DEF RowsOK
      <4> QED
        BY <1>2, <3>3, <4>1, <4>3, <4>5 DEF MacAvailable
    <3> QED
      BY <3>1, <3>2, <3>3
  <2>10. \A j \in DOMAIN device : /\ rows[j].online = device[j].online
                                  /\ rows[j].conflict = device[j].conflict
    BY <2>4, <2>5
  <2> QED
    BY <2>5, <2>8, <2>9, <2>10 DEF UserStep
<1> QED
  BY <1>1, <1>2 DEF UpdateDevice

LEMMA DeleteStep ==
    ASSUME StoreOK(Store), NEW req, req.op = "delete", NEW saw, StoreOK(saw),
           DeleteDevice(req, saw)
    PROVE  UserStep(req, saw)
<1> DEFINE rows == Restrict(device, DOMAIN device \ {req.id})
<1>1. CASE RollBack
  BY <1>1, RollBackIsUserStep
<1>2. CASE Commit(rows, alias, policies)
  <2>1. RowsOK(rows) /\ DOMAIN rows = DOMAIN device \ {req.id}
    BY FewerRows DEF StoreOK, Store
  <2>2. \A i \in DOMAIN rows : rows[i] = device[i]
    BY DEF Restrict
  <2> HIDE DEF rows
  <2>3. /\ StoreOK(Store)' /\ device' = rows /\ DOMAIN alias' \subseteq DOMAIN alias
        /\ \A m \in DOMAIN alias' : alias'[m] = alias[m]
    BY <1>2, <2>1, AliasesStay
  <2>4. OneIdentityPerMac => OneIdentityPerMac'
    BY <2>1, <2>2, <2>3 DEF OneIdentityPerMac
  <2> QED
    BY <2>1, <2>2, <2>3, <2>4 DEF UserStep
<1> QED
  BY <1>1, <1>2 DEF DeleteDevice

LEMMA AddStep ==
    ASSUME StoreOK(Store), NEW req, req.op = "add", NEW saw, StoreOK(saw),
           req.mac \in Mac, req.ip \in Ip \cup {NoIp}, AddDevice(req, saw)
    PROVE  UserStep(req, saw)
<1> DEFINE row == [mac |-> req.mac, ip |-> req.ip, online |-> FALSE, conflict |-> FALSE,
                   age |-> Grace]
           rows == Inserted(device, row)
<1>1. CASE RollBack
  BY <1>1, RollBackIsUserStep
<1>2. CASE /\ Known(saw, req.mac) = Nobody /\ MacFree(device, req.mac)
           /\ Commit(rows, alias, policies)
  <2>1. RowsOK(device)
    BY DEF StoreOK, Store
  <2>2. row \in Row /\ row.mac = req.mac
    <3>1. Grace \in 0 .. Grace
      BY RegistryAssumption
    <3> QED
      BY <3>1 DEF Row
  <2> HIDE DEF row
  <2>3. RowsOK(rows)
    BY <1>2, <2>1, <2>2, InsertedRows
  <2>4. /\ \A i \in DOMAIN device : rows[i] = device[i]
        /\ \A i \in DOMAIN rows \ DOMAIN device : rows[i] = row
    BY DEF Inserted
  <2> HIDE DEF rows
  <2>5. /\ StoreOK(Store)' /\ device' = rows /\ DOMAIN alias' \subseteq DOMAIN alias
        /\ \A m \in DOMAIN alias' : alias'[m] = alias[m]
    BY <1>2, <2>3, AliasesStay
  <2>6. ASSUME saw = Store, OneIdentityPerMac
        PROVE  OneIdentityPerMac'
    <3>1. req.mac \notin DOMAIN alias
      <4>1. \A m \in DOMAIN alias : alias[m] \in Nat \ {Nobody}
        BY <2>1 DEF StoreOK, Store, RowsOK
      <4>2. \A i \in DOMAIN device : device[i].mac # req.mac
        BY <1>2 DEF MacFree
      <4>3. Known(saw, req.mac) = IF req.mac \in DOMAIN alias THEN alias[req.mac] ELSE Nobody
        BY <2>6, <4>2, KnownIs DEF Store
      <4> QED
        BY <1>2, <4>1, <4>3
    <3> QED
      BY <2>2, <2>4, <2>5, <2>6, <3>1 DEF OneIdentityPerMac
  <2> QED
    BY <2>4, <2>5, <2>6 DEF UserStep
<1> QED
  BY <1>1, <1>2 DEF AddDevice

LEMMA AssignStep ==
    ASSUME StoreOK(Store), NEW req, req.op = "assign", NEW saw, StoreOK(saw),
           AssignPolicy(req, saw)
    PROVE  UserStep(req, saw)
<1>1. CASE RollBack
  BY <1>1, RollBackIsUserStep
<1>2. ASSUME NEW owned, Commit(device, alias, owned)
      PROVE  UserStep(req, saw)
  <2>1. RowsOK(device)
    BY DEF StoreOK, Store
  <2>2. /\ StoreOK(Store)' /\ device' = device /\ DOMAIN alias' \subseteq DOMAIN alias
        /\ \A m \in DOMAIN alias' : alias'[m] = alias[m]
    BY <1>2, <2>1, AliasesStay
  <2>3. OneIdentityPerMac => OneIdentityPerMac'
    BY <2>2 DEF OneIdentityPerMac
  <2> QED
    BY <2>2, <2>3 DEF UserStep
<1> QED
  BY <1>1, <1>2 DEF AssignPolicy
-----------------------------------------------------------------------------
(* What a session was asked for, and what it saw, are of their kinds.      *)
RequestOK(a, req) ==
    /\ a \in Scanners => req.hosts \in SUBSET Host
    /\ a = "reader" => req.ip \in Ip
    /\ a = "user" /\ req.op \in {"update", "add"} => req.mac \in Mac /\ req.ip \in Ip \cup {NoIp}

SessionOK(a, s) ==
    \/ s.stage = "idle"
    \/ s.stage = "asked" /\ RequestOK(a, s.req)
    \/ s.stage = "open" /\ RequestOK(a, s.req) /\ StoreOK(s.saw)

SessionsOK == DOMAIN session = Actor /\ \A a \in Actor : SessionOK(a, session[a])

Inductive ==
    /\ StoreOK(Store)
    /\ net \in [Mac -> SUBSET Ip]
    /\ SessionsOK

LEMMA SessionSet ==
    ASSUME SessionsOK, NEW a \in Actor, NEW s, SessionOK(a, s),
           session' = [session EXCEPT ![a] = s]
    PROVE  SessionsOK'
<1>1. DOMAIN session' = Actor
  BY DEF SessionsOK
<1>2. ASSUME NEW b \in Actor PROVE SessionOK(b, session'[b])
  <2>1. CASE b = a
    <3>1. session'[b] = s
      BY <2>1 DEF SessionsOK
    <3> QED
      BY <2>1, <3>1
  <2>2. CASE b # a
    <3>1. session'[b] = session[b]
      BY <2>2 DEF SessionsOK
    <3> QED
      BY <3>1 DEF SessionsOK
  <2> QED
    BY <2>1, <2>2
<1>3. \A b \in Actor : SessionOK(b, session[b])'
  BY <1>2 DEF SessionOK, RequestOK, StoreOK, RowsOK, Unique
<1> QED
  BY <1>1, <1>3 DEF SessionsOK, Actor

LEMMA StoreSame ==
    ASSUME StoreOK(Store), UNCHANGED store
    PROVE  StoreOK(Store)'
BY DEF store, Store, StoreOK, RowsOK, Unique

LEMMA HostsAreHosts ==
    ASSUME net \in [Mac -> SUBSET Ip]
    PROVE  Hosts \in SUBSET Host
BY DEF Hosts, Host

LEMMA DecisionOK ==
    ASSUME StoreOK(Store), NEW op \in UserOps \ {"add"}, NEW i \in DOMAIN device,
           NEW req \in Decisions(op, i)
    PROVE  RequestOK("user", req)
<1>1. device[i].mac \in Mac /\ device[i].ip \in Ip \cup {NoIp}
  BY DEF StoreOK, Store, RowsOK, Row
<1>2. op \in {"merge", "split", "resolve", "update", "delete", "assign"}
  BY RegistryAssumption
<1>3. "user" \notin Scanners /\ "user" # "reader"
  BY RegistryAssumption
<1>4. CASE op = "update"
  <2>1. req \in {[op |-> op, id |-> i, mac |-> device[i].mac, ip |-> p] : p \in Ip \cup {NoIp}}
               \cup {[op |-> op, id |-> i, mac |-> m, ip |-> device[i].ip] :
                        m \in Mac \ {device[i].mac}}
    BY <1>4 DEF Decisions
  <2>2. req.mac \in Mac /\ req.ip \in Ip \cup {NoIp}
    BY <1>1, <2>1
  <2> QED
    BY <1>3, <2>2 DEF RequestOK
<1>5. CASE op # "update"
  <2>1. req.op = op
    BY <1>2, <1>5 DEF Decisions
  <2> QED
    BY <1>2, <1>3, <1>5, <2>1 DEF RequestOK
<1> QED
  BY <1>4, <1>5

LEMMA InitInductive ==
    Init => Inductive
<1> SUFFICES ASSUME Init PROVE Inductive
  OBVIOUS
<1>1. PICK n \in 1 .. Cardinality(Mac) : device \in [1 .. n -> Added]
  BY DEF Init
<1>2. n \in Nat /\ n >= 1
  BY RegistryAssumption, FS_CardinalityType
<1>3. device \in [1 .. n -> Row] /\ DOMAIN device = 1 .. n
  <2>1. Grace \in 0 .. Grace /\ Given \subseteq Mac
    BY RegistryAssumption
  <2>2. Added \subseteq Row
    BY <2>1 DEF Added, Row
  <2> QED
    BY <1>1, <2>2
<1>4. IsFiniteSet(1 .. n)
  BY <1>2, FS_Interval
<1>5. RowsOK(device)
  <2>1. \A i, j \in DOMAIN device : device[i].mac = device[j].mac => i = j
    BY DEF Init
  <2> QED
    BY <1>1, <1>2, <1>3, <1>4, <2>1 DEF RowsOK, Unique, Nobody
<1>6. DOMAIN alias = {}
  BY DEF Init
<1>7. StoreOK(Store)
  BY <1>2, <1>3, <1>5, <1>6 DEF StoreOK, Store, Init
<1>8. net \in [Mac -> SUBSET Ip]
  BY RegistryAssumption DEF Init
<1>9. SessionsOK
  BY DEF Init, SessionsOK, SessionOK, Idle
<1> QED
  BY <1>7, <1>8, <1>9 DEF Inductive
-----------------------------------------------------------------------------
(* The steps that end a session.                                           *)
LEMMA EndScanIs ==
    ASSUME Inductive, NEW s \in Scanners, EndScan(s)
    PROVE  \/ RollBack
           \/ \E rows : Steady(rows) /\ Commit(rows, alias, policies)
<1> DEFINE req == session[s].req
           saw == session[s].saw
<1>1. s \in Actor /\ session[s].stage = "open"
  BY DEF EndScan, Actor
<1>2. StoreOK(Store) /\ StoreOK(saw) /\ req.hosts \in SUBSET Host
  BY <1>1 DEF Inductive, SessionsOK, SessionOK, RequestOK
<1> HIDE DEF req, saw
<1>3. PICK order \in SetToSeqs(Groups(saw, req.hosts)) : \E kept :
          IF Reconciled(req, saw, order, kept).ok
          THEN Commit(Reconciled(req, saw, order, kept).rows, alias, policies) ELSE RollBack
  BY DEF EndScan, req, saw
<1>4. PICK kept :
          IF Reconciled(req, saw, order, kept).ok
          THEN Commit(Reconciled(req, saw, order, kept).rows, alias, policies) ELSE RollBack
  BY <1>3
<1>5. CASE Reconciled(req, saw, order, kept).ok
  <2>1. Steady(Reconciled(req, saw, order, kept).rows)
    BY <1>2, <1>5, ReconciledSteady
  <2> QED
    BY <1>4, <1>5, <2>1
<1> QED
  BY <1>4, <1>5

LEMMA EndPresenceIs ==
    ASSUME Inductive, EndPresence
    PROVE  \/ RollBack
           \/ \E rows : Steady(rows) /\ Commit(rows, alias, policies)
<1> DEFINE req == session["reader"].req
           saw == session["reader"].saw
<1>1. "reader" \in Actor /\ session["reader"].stage = "open"
  BY DEF EndPresence, Actor
<1>2. StoreOK(Store) /\ StoreOK(saw) /\ req.ip \in Ip
  BY <1>1 DEF Inductive, SessionsOK, SessionOK, RequestOK
<1>3. IF Present(req, saw).ok THEN Commit(Present(req, saw).rows, alias, policies) ELSE RollBack
  BY DEF EndPresence
<1> HIDE DEF req, saw
<1>4. CASE Present(req, saw).ok
  <2>1. Steady(Present(req, saw).rows)
    BY <1>2, <1>4, PresentSteady
  <2> QED
    BY <1>3, <1>4, <2>1
<1> QED
  BY <1>3, <1>4

LEMMA SteadyKeeps ==
    ASSUME StoreOK(Store), NEW rows, Steady(rows), Commit(rows, alias, policies)
    PROVE  /\ StoreOK(Store)' /\ device' = rows
           /\ DOMAIN alias' \subseteq DOMAIN alias
           /\ \A m \in DOMAIN alias' : alias'[m] = alias[m]
BY AliasesStay DEF Steady

LEMMA EndRequestIs ==
    ASSUME Inductive, EndRequest
    PROVE  UserStep(session["user"].req, session["user"].saw)
<1> DEFINE req == session["user"].req
           saw == session["user"].saw
<1>1. "user" \in Actor /\ session["user"].stage = "open"
  BY DEF EndRequest, Actor
<1>2. StoreOK(Store) /\ StoreOK(saw) /\ RequestOK("user", req)
  BY <1>1 DEF Inductive, SessionsOK, SessionOK
<1>3. \/ req.op = "merge" /\ Merge(req, saw)
      \/ req.op = "split" /\ Split(req, saw)
      \/ req.op = "resolve" /\ ResolveConflict(req, saw)
      \/ req.op = "update" /\ UpdateDevice(req, saw)
      \/ req.op = "delete" /\ DeleteDevice(req, saw)
      \/ req.op = "add" /\ AddDevice(req, saw)
      \/ req.op = "assign" /\ AssignPolicy(req, saw)
  BY DEF EndRequest
<1> HIDE DEF req, saw
<1>4. req.op \in {"update", "add"} => req.mac \in Mac /\ req.ip \in Ip \cup {NoIp}
  BY <1>2 DEF RequestOK
<1>5. UserStep(req, saw)
  BY <1>2, <1>3, <1>4, MergeStep, SplitStep, ResolveStep, UpdateStep, DeleteStep, AddStep, AssignStep
<1> QED
  BY <1>5 DEF req, saw

LEMMA EndingKeeps ==
    ASSUME SessionsOK, NEW a \in Actor, Ending(a)
    PROVE  SessionsOK' /\ net' = net
<1>1. SessionOK(a, Idle)
  BY DEF SessionOK, Idle
<1>2. session' = [session EXCEPT ![a] = Idle]
  BY DEF Ending
<1>3. SessionsOK'
  BY <1>1, <1>2, SessionSet
<1> QED
  BY <1>3 DEF Ending
-----------------------------------------------------------------------------
LEMMA AskKeeps ==
    ASSUME Inductive, NEW a \in Actor, NEW req, RequestOK(a, req), Ask(a, req),
           UNCHANGED <<store, net>>
    PROVE  Inductive'
<1>1. SessionOK(a, [stage |-> "asked", req |-> req])
  BY DEF SessionOK
<1>2. session' = [session EXCEPT ![a] = [stage |-> "asked", req |-> req]]
  BY DEF Ask
<1>3. SessionsOK'
  BY <1>1, <1>2, SessionSet DEF Inductive
<1>4. StoreOK(Store)'
  BY StoreSame DEF Inductive
<1> QED
  BY <1>3, <1>4 DEF Inductive

LEMMA OpenKeeps ==
    ASSUME Inductive, NEW a \in Actor, NEW req, RequestOK(a, req),
           session' = [session EXCEPT ![a] = [stage |-> "open", req |-> req, saw |-> Store]],
           UNCHANGED <<store, net>>
    PROVE  Inductive'
<1> DEFINE saw == Store
           s == [stage |-> "open", req |-> req, saw |-> saw]
<1>1. StoreOK(saw)
  BY DEF Inductive
<1> HIDE DEF saw
<1>2. SessionOK(a, s)
  BY <1>1 DEF SessionOK
<1>3. session' = [session EXCEPT ![a] = s]
  BY DEF saw
<1> HIDE DEF s
<1>4. SessionsOK'
  BY <1>2, <1>3, SessionSet DEF Inductive
<1>5. StoreOK(Store)'
  BY StoreSame DEF Inductive
<1> QED
  BY <1>4, <1>5 DEF Inductive

LEMMA TickKeeps ==
    ASSUME StoreOK(Store), Tick
    PROVE  /\ StoreOK(Store)' /\ alias' = alias /\ DOMAIN device' = DOMAIN device
           /\ \A i \in DOMAIN device : /\ device'[i].mac = device[i].mac
                                       /\ device'[i].conflict = device[i].conflict
                                       /\ device'[i].online = device[i].online
<1> DEFINE Older(row) == [row EXCEPT !.age = IF row.age < Grace THEN row.age + 1 ELSE row.age]
<1>1. Grace \in Nat
  BY RegistryAssumption
<1>2. ASSUME NEW row \in Row
      PROVE  /\ Older(row) \in Row /\ Older(row).mac = row.mac
             /\ Older(row).conflict = row.conflict /\ Older(row).online = row.online
  <2>1. (IF row.age < Grace THEN row.age + 1 ELSE row.age) \in 0 .. Grace
    BY <1>1 DEF Row
  <2> QED
    BY <2>1 DEF Row
<1>3. device' = [i \in DOMAIN device |-> Older(device[i])]
  BY DEF Tick
<1>4. RowsOK(device) /\ \A i \in DOMAIN device : device[i] \in Row
  BY DEF StoreOK, Store, RowsOK
<1> HIDE DEF Older
<1>5. /\ device' \in [DOMAIN device -> Row] /\ DOMAIN device' = DOMAIN device
      /\ \A i \in DOMAIN device : /\ device'[i].mac = device[i].mac
                                  /\ device'[i].conflict = device[i].conflict
                                  /\ device'[i].online = device[i].online
  BY <1>2, <1>3, <1>4
<1>6. RowsOK(device')
  BY <1>4, <1>5, ChangedRows
<1>7. alias' = alias /\ policies' = policies
  BY DEF Tick
<1>8. StoreOK(Store)'
  BY <1>5, <1>6, <1>7 DEF StoreOK, Store, RowsOK, Unique
<1> QED
  BY <1>5, <1>7, <1>8

LEMMA NextInductive ==
    Inductive /\ [Next]_vars => Inductive'
<1> SUFFICES ASSUME Inductive, [Next]_vars PROVE Inductive'
  OBVIOUS
<1>1. Hosts \in SUBSET Host
  BY HostsAreHosts DEF Inductive
<1>2. StoreOK(Store) /\ SessionsOK
  BY DEF Inductive
<1>3. ASSUME NEW s \in Scanners, ScanAll(s) PROVE Inductive'
  <2> DEFINE req == [op |-> "scan", hosts |-> Hosts, complete |-> TRUE]
  <2>1. s \in Actor /\ RequestOK(s, req)
    BY <1>1, RegistryAssumption DEF Actor, RequestOK
  <2>2. Ask(s, req) /\ UNCHANGED <<store, net>>
    BY <1>3 DEF ScanAll
  <2> HIDE DEF req
  <2> QED
    BY <2>1, <2>2, AskKeeps
<1>4. ASSUME NEW s \in Scanners, ScanSome(s) PROVE Inductive'
  <2>1. PICK hosts \in SUBSET Hosts :
            Ask(s, [op |-> "scan", hosts |-> hosts, complete |-> FALSE])
    BY <1>4 DEF ScanSome
  <2> DEFINE req == [op |-> "scan", hosts |-> hosts, complete |-> FALSE]
  <2>2. s \in Actor /\ RequestOK(s, req)
    BY <1>1, RegistryAssumption DEF Actor, RequestOK
  <2>3. Ask(s, req) /\ UNCHANGED <<store, net>>
    BY <1>4, <2>1 DEF ScanSome
  <2> HIDE DEF req
  <2> QED
    BY <2>2, <2>3, AskKeeps
<1>5. ASSUME NEW s \in Scanners, EndScan(s) PROVE Inductive'
  <2>1. s \in Actor /\ Ending(s)
    BY <1>5 DEF EndScan, Actor
  <2>2. CASE RollBack
    <3>1. StoreOK(Store)'
      BY <1>2, <2>2, StoreSame DEF RollBack
    <3> QED
      BY <1>2, <2>1, <3>1, EndingKeeps DEF Inductive
  <2>3. CASE \E rows : Steady(rows) /\ Commit(rows, alias, policies)
    <3>1. StoreOK(Store)'
      BY <1>2, <2>3, SteadyKeeps
    <3> QED
      BY <1>2, <2>1, <3>1, EndingKeeps DEF Inductive
  <2> QED
    BY <1>5, <2>2, <2>3, EndScanIs
<1>6. ASSUME NEW host \in Hosts, NeighbourAdded(host) PROVE Inductive'
  <2> DEFINE req == [op |-> "presence", mac |-> host.mac, ip |-> host.ip]
  <2>1. host.ip \in Ip
    BY <1>1 DEF Host
  <2>2. "reader" \in Actor /\ RequestOK("reader", req)
    BY <2>1, RegistryAssumption DEF Actor, RequestOK
  <2>3. session' = [session EXCEPT !["reader"] = [stage |-> "open", req |-> req, saw |-> Store]]
    BY <1>6 DEF NeighbourAdded
  <2>4. UNCHANGED <<store, net>>
    BY <1>6 DEF NeighbourAdded
  <2> HIDE DEF req
  <2> QED
    BY <2>2, <2>3, <2>4, OpenKeeps
<1>7. ASSUME NEW op \in UserOps \ {"add"}, UserDecides(op) PROVE Inductive'
  <2>1. PICK i \in DOMAIN device : \E req \in Decisions(op, i) : Ask("user", req)
    BY <1>7 DEF UserDecides
  <2>2. PICK req \in Decisions(op, i) : Ask("user", req)
    BY <2>1
  <2>3. "user" \in Actor /\ UNCHANGED <<store, net>>
    BY <1>7 DEF UserDecides, Actor
  <2> QED
    BY <1>2, <2>2, <2>3, DecisionOK, AskKeeps
<1>8. ASSUME UserAdds PROVE Inductive'
  <2>1. PICK m \in Mac : Ask("user", [op |-> "add", mac |-> m, ip |-> NoIp])
    BY <1>8 DEF UserAdds
  <2> DEFINE req == [op |-> "add", mac |-> m, ip |-> NoIp]
  <2>2. RequestOK("user", req)
    BY RegistryAssumption DEF RequestOK
  <2>3. "user" \in Actor /\ Ask("user", req) /\ UNCHANGED <<store, net>>
    BY <1>8, <2>1 DEF UserAdds, Actor
  <2> HIDE DEF req
  <2> QED
    BY <2>2, <2>3, AskKeeps
<1>9. ASSUME NEW a \in Actor \ {"reader"}, Read(a) PROVE Inductive'
  <2> DEFINE req == session[a].req
  <2>1. session[a].stage = "asked"
    BY <1>9 DEF Read
  <2>2. RequestOK(a, req)
    BY <1>2, <2>1 DEF SessionsOK, SessionOK
  <2>3. session' = [session EXCEPT ![a] = [stage |-> "open", req |-> req, saw |-> Store]]
    BY <1>9 DEF Read
  <2>4. UNCHANGED <<store, net>>
    BY <1>9 DEF Read
  <2> HIDE DEF req
  <2> QED
    BY <2>2, <2>3, <2>4, OpenKeeps
<1>10. ASSUME EndPresence PROVE Inductive'
  <2>1. "reader" \in Actor /\ Ending("reader")
    BY <1>10 DEF EndPresence, Actor
  <2>2. CASE RollBack
    <3>1. StoreOK(Store)'
      BY <1>2, <2>2, StoreSame DEF RollBack
    <3> QED
      BY <1>2, <2>1, <3>1, EndingKeeps DEF Inductive
  <2>3. CASE \E rows : Steady(rows) /\ Commit(rows, alias, policies)
    <3>1. StoreOK(Store)'
      BY <1>2, <2>3, SteadyKeeps
    <3> QED
      BY <1>2, <2>1, <3>1, EndingKeeps DEF Inductive
  <2> QED
    BY <1>10, <2>2, <2>3, EndPresenceIs
<1>11. ASSUME EndRequest PROVE Inductive'
  <2>1. "user" \in Actor /\ Ending("user")
    BY <1>11 DEF EndRequest, Actor
  <2>2. StoreOK(Store)'
    BY <1>11, EndRequestIs DEF UserStep
  <2> QED
    BY <1>2, <2>1, <2>2, EndingKeeps DEF Inductive
<1>12. ASSUME NEW m \in Mac, HostMoves(m) PROVE Inductive'
  <2>1. PICK addresses \in Places : net' = [net EXCEPT ![m] = addresses]
    BY <1>12 DEF HostMoves
  <2>2. net' \in [Mac -> SUBSET Ip]
    BY <2>1, RegistryAssumption DEF Inductive
  <2>3. UNCHANGED <<store, session>>
    BY <1>12 DEF HostMoves
  <2>4. StoreOK(Store)'
    BY <1>2, <2>3, StoreSame
  <2>5. SessionsOK'
    BY <1>2, <2>3 DEF SessionsOK, SessionOK, RequestOK, StoreOK, RowsOK, Unique
  <2> QED
    BY <2>2, <2>4, <2>5 DEF Inductive
<1>13. CASE Tick
  <2>1. StoreOK(Store)'
    BY <1>2, <1>13, TickKeeps
  <2>2. session' = session /\ net' = net
    BY <1>13 DEF Tick
  <2>3. SessionsOK'
    BY <1>2, <2>2 DEF SessionsOK, SessionOK, RequestOK, StoreOK, RowsOK, Unique
  <2> QED
    BY <2>1, <2>2, <2>3 DEF Inductive
<1>14. CASE UNCHANGED vars
  <2>1. UNCHANGED <<store, net, session>>
    BY <1>14 DEF vars
  <2>2. StoreOK(Store)'
    BY <1>2, <2>1, StoreSame
  <2>3. SessionsOK'
    BY <1>2, <2>1 DEF SessionsOK, SessionOK, RequestOK, StoreOK, RowsOK, Unique
  <2> QED
    BY <2>1, <2>2, <2>3 DEF Inductive
<1> QED
  BY <1>3, <1>4, <1>5, <1>6, <1>7, <1>8, <1>9, <1>10, <1>11, <1>12, <1>13, <1>14 DEF Next

LEMMA InductiveInvariant == Spec => []Inductive
<1>1. Init => Inductive
  BY InitInductive
<1>2. Inductive /\ [Next]_vars => Inductive'
  BY NextInductive
<1> QED
  BY <1>1, <1>2, PTL DEF Spec

(* However the sessions of scans, neighbour events and the user overlap,   *)
(* the table holds one row per MAC, and no alias and no policy without its *)
(* device: what would break that is rolled back or deleted with it         *)
(* (Database.session, the constraints of models/device.py).                *)
THEOREM TypeCorrect == Spec => []TypeOK
<1>1. Inductive => TypeOK
  BY DEF Inductive, StoreOK, Store, RowsOK, Unique, TypeOK
<1> QED
  BY <1>1, InductiveInvariant, PTL
-----------------------------------------------------------------------------
(* Sessions in turn: what a session decides on is what it changes.         *)
LEMMA FlushedSelf ==
    ASSUME NEW row \in Row, NEW object \in Row
    PROVE  Flushed(row, row, object) = object
<1> DEFINE new == Flushed(row, row, object)
<1>1. /\ new \in Row
      /\ new.mac = object.mac /\ new.ip = object.ip /\ new.online = object.online
      /\ new.conflict = object.conflict /\ new.age = object.age
  BY FlushedRow
<1> HIDE DEF new
<1>2. new = object
  BY <1>1 DEF Row
<1> QED
  BY <1>2 DEF new

(* All online rows that share an address are flagged, if what the session  *)
(* still holds as objects agrees with the rows.                            *)
NoneShares(rows) ==
    \A i, j \in DOMAIN rows :
        i # j /\ rows[i].online /\ rows[j].online /\ rows[i].ip = rows[j].ip /\ rows[i].ip # NoIp
        => rows[i].conflict

LEMMA SharersCaught ==
    ASSUME NEW rows, RowsOK(rows), NEW links, \A m \in DOMAIN links : links[m] \in DOMAIN rows,
           NEW held, \A j \in DOMAIN held : j \in DOMAIN rows => /\ held[j].ip = rows[j].ip
                                                               /\ held[j].conflict = rows[j].conflict,
           NEW claims
    PROVE  NoneShares(ConflictsFlagged(rows, held, links, claims))
<1> DEFINE new == ConflictsFlagged(rows, held, links, claims)
           v == [device |-> rows, alias |-> links]
           Claim(ip) == Claimants(rows, held, links, claims, ip)
           sharing == {S \in {Claim(ip) : ip \in Ip} : Cardinality(S) > 1}
           flag == {i \in UNION sharing : ~Shown(held, rows, i).conflict}
<1>1. new = [i \in DOMAIN rows |-> IF i \in flag THEN [rows[i] EXCEPT !.conflict = TRUE] ELSE rows[i]]
  BY DEF ConflictsFlagged
<1>2. \A i \in DOMAIN rows : rows[i] \in Row
  BY DEF RowsOK
<1>3. \A mac : Known(v, mac) \in DOMAIN rows \cup {Nobody}
  <2> TAKE mac
  <2>1. v.device = rows /\ v.alias = links
    OBVIOUS
  <2> HIDE DEF v
  <2> QED
    BY <2>1, KnownIs
<1>4. ASSUME NEW ip PROVE Claim(ip) \subseteq DOMAIN rows
  BY <1>3 DEF Claimants
<1> SUFFICES ASSUME NEW i \in DOMAIN rows, NEW j \in DOMAIN rows, i # j,
                    new[i].online, new[j].online, new[i].ip = new[j].ip, new[i].ip # NoIp
             PROVE  new[i].conflict
  <2> HIDE DEF new, flag
  <2>1. DOMAIN new = DOMAIN rows
    BY <1>1
  <2> QED
    BY <2>1 DEF NoneShares, new
<1>5. \A k \in DOMAIN rows : /\ new[k].online = rows[k].online /\ new[k].ip = rows[k].ip
                             /\ k \in flag \/ rows[k].conflict => new[k].conflict
  <2> HIDE DEF flag, new
  <2> QED
    BY <1>1, <1>2 DEF Row
<1> DEFINE p == rows[i].ip
<1>6. p \in Ip
  BY <1>2, <1>5 DEF Row
<1>7. \A k \in DOMAIN rows : Shown(held, rows, k).ip = rows[k].ip
                             /\ Shown(held, rows, k).conflict = rows[k].conflict
  BY DEF Shown
<1>8. i \in Claim(p) /\ j \in Claim(p)
  <2> HIDE DEF new
  <2> QED
    BY <1>5, <1>7 DEF Claimants
<1> HIDE DEF Claim, new, p
<1>9. IsFiniteSet(Claim(p)) /\ Cardinality(Claim(p)) \in Nat
  <2>1. IsFiniteSet(DOMAIN rows)
    BY DEF RowsOK
  <2>2. IsFiniteSet(Claim(p))
    BY <1>4, <2>1, FS_Subset
  <2> QED
    BY <2>2, FS_CardinalityType
<1>10. Cardinality(Claim(p)) > 1
  <2>1. Cardinality(Claim(p)) # 0
    BY <1>8, <1>9, FS_EmptySet
  <2>2. Cardinality(Claim(p)) # 1
    <3>1. SUFFICES ASSUME NEW x, Claim(p) = {x} PROVE FALSE
      BY <1>9, FS_Singleton
    <3> QED
      BY <1>8, <3>1
  <2> QED
    BY <1>9, <2>1, <2>2
<1>11. i \in UNION sharing
  BY <1>6, <1>8, <1>10
<1>12. i \in flag \/ rows[i].conflict
  <2> HIDE DEF sharing
  <2>1. rows[i].conflict \in BOOLEAN
    BY <1>2 DEF Row
  <2> QED
    BY <1>7, <1>11
<1> QED
  BY <1>5, <1>12

(* The identity of a group is registered under its MAC or unknown: a MAC   *)
(* that is linked to an identity is never the MAC of a group.              *)
Alone(g) ==
    LET i == Known(Store, g)
    IN \/ i = Nobody /\ g \notin DOMAIN alias /\ \A j \in DOMAIN device : device[j].mac # g
       \/ i \in DOMAIN device /\ device[i].mac = g

LEMMA GroupsAlone ==
    ASSUME StoreOK(Store), NEW hosts, NEW g \in Groups(Store, hosts)
    PROVE  Alone(g)
<1> DEFINE v == Store
<1>1. v.device = device /\ v.alias = alias
  BY DEF Store
<1>2. /\ Nobody \notin DOMAIN device
      /\ \A m \in DOMAIN alias : alias[m] \in DOMAIN device
  BY DEF StoreOK, Store, RowsOK
<1>3. PICK h \in hosts : g = GroupOf(v, h.mac)
  BY DEF Groups
<1> HIDE DEF v
<1>4. \A mac : IF \E j \in DOMAIN device : device[j].mac = mac
               THEN Known(v, mac) \in DOMAIN device /\ device[Known(v, mac)].mac = mac
               ELSE Known(v, mac) = IF mac \in DOMAIN alias THEN alias[mac] ELSE Nobody
  BY <1>1, KnownIs
<1> DEFINE k == Known(v, h.mac)
<1>5. CASE k = Nobody
  <2>1. g = h.mac
    BY <1>3, <1>5 DEF GroupOf
  <2> QED
    BY <1>2, <1>4, <1>5, <2>1 DEF Alone, v
<1>6. CASE k # Nobody
  <2>1. g = device[k].mac /\ k \in DOMAIN device
    BY <1>1, <1>2, <1>3, <1>4, <1>6 DEF GroupOf
  <2>2. Known(v, g) \in DOMAIN device /\ device[Known(v, g)].mac = g
    <3> HIDE DEF k
    <3> QED
      BY <1>4, <2>1
  <2> QED
    BY <2>2 DEF Alone, v
<1> QED
  BY <1>5, <1>6

(* The rows after the groups "done": new ones are not linked to another    *)
(* identity, the rest of the table is as it was, and the object that the   *)
(* session holds agrees with its row.                                      *)
InStep(acc, done) ==
    acc.ok =>
        /\ \A i \in DOMAIN acc.rows \ DOMAIN device :
              acc.rows[i].mac \in done /\ acc.rows[i].mac \notin DOMAIN alias
        /\ \A i \in DOMAIN device : device[i].mac \notin done => acc.rows[i] = device[i]
        /\ \A j \in DOMAIN acc.held : /\ j \in DOMAIN acc.rows /\ acc.rows[j].mac \in done
                                      /\ acc.held[j] = acc.rows[j]

LEMMA UpsertInStep ==
    ASSUME StoreOK(Store), NEW acc, AccOK(acc), NEW done, InStep(acc, done),
           NEW g \in Mac, g \notin done, Alone(g), NEW first, NEW kept,
           NEW paths \in SUBSET Ip, paths # {}
    PROVE  InStep(Upserted(acc, g, Store, first, kept, paths), done \cup {g})
<1> DEFINE fresh == [device |-> acc.rows, alias |-> alias]
           i == Known(IF g = first THEN Store ELSE fresh, g)
           own == Known(Store, g)
           loaded == IF g = first \/ (g = kept /\ i = own) THEN Store.device[i] ELSE acc.rows[i]
           object == Online(loaded, paths)
           result == Upserted(acc, g, Store, first, kept, paths)
<1>1. ASSUME acc.ok
      PROVE  /\ RowsOK(acc.rows) /\ DOMAIN device \subseteq DOMAIN acc.rows
             /\ \A j \in DOMAIN device : acc.rows[j].mac = device[j].mac
  BY <1>1 DEF AccOK, Follows
<1>2. ASSUME acc.ok
      PROVE  i = own
  <2>1. IF \E j \in DOMAIN acc.rows : acc.rows[j].mac = g
        THEN Known(fresh, g) \in DOMAIN acc.rows /\ acc.rows[Known(fresh, g)].mac = g
        ELSE Known(fresh, g) = IF g \in DOMAIN alias THEN alias[g] ELSE Nobody
    <3>1. fresh.device = acc.rows /\ fresh.alias = alias
      OBVIOUS
    <3> HIDE DEF fresh
    <3> QED
      BY <3>1, KnownIs
  <2> HIDE DEF fresh, own
  <2>2. CASE own = Nobody /\ g \notin DOMAIN alias /\ \A j \in DOMAIN device : device[j].mac # g
    <3>1. \A j \in DOMAIN acc.rows : acc.rows[j].mac # g
      BY <1>1, <1>2, <2>2 DEF InStep
    <3> QED
      BY <2>1, <2>2, <3>1 DEF own
  <2>3. CASE own \in DOMAIN device /\ device[own].mac = g
    <3>1. own \in DOMAIN acc.rows /\ acc.rows[own].mac = g
      BY <1>1, <1>2, <2>3
    <3>2. Known(fresh, g) = own
      BY <1>1, <1>2, <2>1, <3>1 DEF RowsOK, Unique
    <3> QED
      BY <3>2 DEF own
  <2> QED
    BY <2>2, <2>3 DEF Alone, own
<1>3. CASE i = Nobody /\ AutoRegister
  <2> DEFINE row == [mac |-> g, ip |-> Preferred(paths, NoIp), online |-> TRUE,
                     conflict |-> FALSE, age |-> 0]
  <2>1. result = [ok |-> acc.ok /\ MacFree(acc.rows, g), rows |-> Inserted(acc.rows, row),
                  held |-> acc.held]
    BY <1>3 DEF Upserted, Registered
  <2>2. /\ result.ok = (acc.ok /\ MacFree(acc.rows, g)) /\ result.rows = Inserted(acc.rows, row)
        /\ result.held = acc.held
    BY <2>1
  <2>3. row.mac = g
    OBVIOUS
  <2> HIDE DEF row, result, i, own
  <2>4. /\ \A j \in DOMAIN acc.rows : j \in DOMAIN result.rows /\ result.rows[j] = acc.rows[j]
        /\ \A j \in DOMAIN result.rows \ DOMAIN acc.rows : result.rows[j].mac = g
    BY <2>2, <2>3 DEF Inserted
  <2>5. acc.ok => g \notin DOMAIN alias
    <3>1. own \in DOMAIN device => own # Nobody
      BY DEF StoreOK, Store, RowsOK
    <3> QED
      BY <1>2, <1>3, <3>1 DEF Alone, own
  <2>6. result.ok \in BOOLEAN /\ (result.ok => acc.ok)
    BY <2>2 DEF AccOK
  <2>7. InStep(result, done \cup {g})
    BY <1>1, <2>2, <2>4, <2>5, <2>6 DEF InStep
  <2> QED
    BY <2>7 DEF result
<1>4. CASE i = Nobody /\ ~AutoRegister
  <2>1. result = acc
    BY <1>4 DEF Upserted
  <2>2. InStep(acc, done \cup {g})
    BY DEF InStep
  <2> QED
    BY <2>1, <2>2
<1>5. CASE i # Nobody /\ i \notin DOMAIN acc.rows
  <2>1. result = [acc EXCEPT !.ok = FALSE]
    BY <1>5 DEF Upserted
  <2>2. result.ok = FALSE \/ result = acc
    BY <2>1
  <2>3. InStep(acc, done \cup {g})
    BY DEF InStep
  <2> HIDE DEF result
  <2>4. InStep(result, done \cup {g})
    BY <2>2, <2>3 DEF InStep
  <2> QED
    BY <2>4 DEF result
<1>6. CASE i # Nobody /\ i \in DOMAIN acc.rows
  <2>1. /\ result.ok = acc.ok
        /\ result.rows = [acc.rows EXCEPT ![i] = Flushed(acc.rows[i], loaded, object)]
        /\ result.held = IF g = kept THEN [j \in {i} |-> object] ELSE acc.held
    BY <1>6 DEF Upserted
  <2>2. ASSUME acc.ok
        PROVE  InStep(result, done \cup {g})
    <3>1. i = own /\ i \in DOMAIN device /\ device[i].mac = g
      <4> HIDE DEF i, own
      <4> QED
        BY <1>2, <1>6, <2>2 DEF Alone, own
    <3>2. acc.rows[i] = device[i]
      BY <2>2, <3>1 DEF InStep
    <3>3. loaded = acc.rows[i] /\ acc.rows[i] \in Row
      <4>1. Store.device = device
        BY DEF Store
      <4>2. acc.rows[i] \in Row
        BY <1>1, <1>6, <2>2 DEF RowsOK
      <4> HIDE DEF i, own
      <4> QED
        BY <3>2, <4>1, <4>2
    <3> HIDE DEF i, own, loaded
    <3>4. object \in Row /\ object.mac = g
      <4>1. loaded \in Row /\ loaded.mac = g
        BY <3>1, <3>2, <3>3
      <4>2. object \in Row /\ object.mac = loaded.mac
        BY <4>1, OnlineRow
      <4> QED
        BY <4>1, <4>2
    <3> HIDE DEF object
    <3>5. result.rows = [acc.rows EXCEPT ![i] = object]
      BY <2>1, <3>3, <3>4, FlushedSelf
    <3> HIDE DEF result
    <3>6. /\ DOMAIN result.rows = DOMAIN acc.rows /\ result.rows[i] = object
          /\ \A j \in DOMAIN acc.rows \ {i} : result.rows[j] = acc.rows[j]
      BY <1>6, <3>5
    <3>7. \A j \in DOMAIN acc.held : j # i
      BY <2>2, <3>1, <3>2 DEF InStep
    <3>8. \A j \in DOMAIN result.held :
             /\ j \in DOMAIN result.rows /\ result.rows[j].mac \in done \cup {g}
             /\ result.held[j] = result.rows[j]
      <4>1. CASE g = kept
        BY <1>6, <2>1, <3>4, <3>6, <4>1
      <4>2. CASE g # kept
        BY <2>1, <2>2, <3>6, <3>7, <4>2 DEF InStep
      <4> QED
        BY <4>1, <4>2
    <3> QED
      BY <1>1, <2>2, <3>1, <3>6, <3>8 DEF InStep
  <2> HIDE DEF result
  <2>3. InStep(result, done \cup {g})
    BY <2>1, <2>2 DEF InStep
  <2> QED
    BY <2>3 DEF result
<1> QED
  BY <1>3, <1>4, <1>5, <1>6

LEMMA UpsertsInStep ==
    ASSUME StoreOK(Store), NEW hosts \in SUBSET Host,
           NEW order \in SetToSeqs(Groups(Store, hosts)), NEW kept
    PROVE  LET acc == Upserts(Store, hosts, order, kept)
           IN AccOK(acc) /\ \E done : InStep(acc, done)
<1> DEFINE saw == Store
           groups == Groups(saw, hosts)
<1>1. StoreOK(saw)
  OBVIOUS
<1>2. \A g \in groups : Alone(g)
  BY GroupsAlone
<1> HIDE DEF saw
<1>3. \A g \in groups : g \in Mac /\ Paths(saw, hosts, g) \in SUBSET Ip /\ Paths(saw, hosts, g) # {}
  BY <1>1, GroupsOfScan
<1>4. /\ Len(order) \in Nat /\ order \in [1 .. Len(order) -> groups]
      /\ \A i, j \in 1 .. Len(order) : i # j => order[i] # order[j]
  <2>1. order \in SetToSeqs(groups)
    BY DEF saw
  <2>2. IsFiniteSet(groups)
    BY <1>1, GroupsOfScan
  <2> HIDE DEF groups
  <2> QED
    BY <2>1, <2>2, OrderOfGroups
<1> HIDE DEF groups
<1>5. PICK f : /\ Solves(f, Len(order), saw, hosts, order, kept)
               /\ Upserts(saw, hosts, order, kept) = f[Len(order)]
  BY <1>4, UpsertsUnfold
<1> DEFINE Done(n) == {order[k] : k \in 1 .. n}
           Good(n) == AccOK(f[n]) /\ InStep(f[n], Done(n))
           wrong == {n \in 0 .. Len(order) : ~Good(n)}
<1>6. Good(0)
  <2>1. f[0] = [ok |-> TRUE, rows |-> device, held |-> << >>]
    BY <1>4, <1>5 DEF Solves, After
  <2>2. f[0].ok = TRUE /\ f[0].rows = device /\ DOMAIN f[0].held = {}
    BY <2>1
  <2>3. RowsOK(device)
    BY DEF StoreOK, Store
  <2>4. \A i \in DOMAIN device : Follows(device[i], device[i])
    BY DEF Follows
  <2> QED
    BY <2>2, <2>3, <2>4 DEF AccOK, InStep
<1>7. ASSUME NEW n \in 1 .. Len(order), Good(n - 1)
      PROVE  Good(n)
  <2> DEFINE done == Done(n - 1)
             g == order[n]
             paths == Paths(saw, hosts, g)
  <2>1. n \in 0 .. Len(order) /\ n # 0 /\ n \in Nat
    BY <1>4
  <2>2. f[n] = Upserted(f[n - 1], g, Store, order[1], kept, paths)
    BY <1>5, <2>1 DEF Solves, After, saw
  <2>3. g \in Mac /\ Alone(g) /\ paths \in SUBSET Ip /\ paths # {}
    BY <1>2, <1>3, <1>4
  <2>4. g \notin done
    <3>1. SUFFICES ASSUME NEW k \in 1 .. n - 1, order[k] = g PROVE FALSE
      OBVIOUS
    <3>2. k \in 1 .. Len(order) /\ k # n
      BY <1>4, <2>1
    <3> QED
      BY <1>4, <3>1, <3>2
  <2>5. Done(n) = done \cup {g}
    <3>1. 1 .. n = (1 .. n - 1) \cup {n}
      BY <2>1
    <3> QED
      BY <3>1
  <2> HIDE DEF done, g, paths, Done
  <2>6. AccOK(f[n - 1]) /\ InStep(f[n - 1], done)
    BY <1>7 DEF done
  <2>7. AccOK(f[n])
    BY <1>1, <2>2, <2>3, <2>6, UpsertKeeps
  <2>8. InStep(f[n], done \cup {g})
    BY <2>2, <2>3, <2>4, <2>6, UpsertInStep
  <2> QED
    BY <2>5, <2>7, <2>8
<1>8. wrong = {}
  <2>1. SUFFICES ASSUME wrong # {} PROVE FALSE
    OBVIOUS
  <2> HIDE DEF Good
  <2>2. PICK n \in wrong : \A m \in wrong : n <= m
    <3>1. wrong \in SUBSET Nat
      BY <1>4
    <3> HIDE DEF wrong
    <3> QED
      BY <2>1, <3>1, LeastNatural
  <2>3. n \in 1 .. Len(order) /\ n - 1 \in 0 .. Len(order) /\ ~(n <= n - 1)
    BY <1>4, <1>6
  <2>4. Good(n - 1)
    BY <2>2, <2>3
  <2> QED
    BY <1>7, <2>3, <2>4
<1>9. Good(Len(order))
  <2> HIDE DEF Good
  <2>1. Len(order) \in 0 .. Len(order)
    BY <1>4
  <2> QED
    BY <1>8, <2>1
<1> QED
  BY <1>5, <1>9 DEF saw

(* What a scan or a neighbour event makes of the table, in turn.           *)
Orderly(rows) ==
    /\ Steady(rows)
    /\ NoneShares(rows)
    /\ \A i \in DOMAIN rows \ DOMAIN device : rows[i].mac \notin DOMAIN alias
    /\ \A i \in DOMAIN device : device[i].online /\ ~rows[i].online => device[i].age >= Grace

LEMMA FlaggedOrderly ==
    ASSUME StoreOK(Store), NEW rows, Steady(rows),
           \A i \in DOMAIN rows \ DOMAIN device : rows[i].mac \notin DOMAIN alias,
           \A i \in DOMAIN device : device[i].online /\ ~rows[i].online => device[i].age >= Grace,
           NEW held, \A j \in DOMAIN held : /\ held[j].ip = rows[j].ip
                                            /\ held[j].conflict = rows[j].conflict,
           NEW claims
    PROVE  Orderly(ConflictsFlagged(rows, held, alias, claims))
<1> DEFINE new == ConflictsFlagged(rows, held, alias, claims)
<1>1. RowsOK(rows) /\ DOMAIN device \subseteq DOMAIN rows
  BY DEF Steady
<1>2. \A m \in DOMAIN alias : alias[m] \in DOMAIN rows
  BY <1>1 DEF StoreOK, Store
<1>3. NoneShares(new)
  BY <1>1, <1>2, SharersCaught
<1>4. Steady(new)
  BY FlaggedSteady
<1>5. /\ DOMAIN new = DOMAIN rows
      /\ \A i \in DOMAIN rows : new[i] = rows[i] \/ new[i] = [rows[i] EXCEPT !.conflict = TRUE]
  BY <1>1, FlaggedRows
<1> HIDE DEF new
<1>6. \A i \in DOMAIN rows : rows[i] \in Row
  BY <1>1 DEF RowsOK
<1>7. \A i \in DOMAIN rows : new[i].mac = rows[i].mac /\ new[i].online = rows[i].online
  BY <1>5, <1>6 DEF Row
<1>8. Orderly(new)
  BY <1>1, <1>3, <1>4, <1>5, <1>7 DEF Orderly
<1> QED
  BY <1>8 DEF new

LEMMA ReconciledOrderly ==
    ASSUME StoreOK(Store), NEW req, req.hosts \in SUBSET Host,
           NEW order \in SetToSeqs(Groups(Store, req.hosts)), NEW kept,
           Reconciled(req, Store, order, kept).ok
    PROVE  Orderly(Reconciled(req, Store, order, kept).rows)
<1> DEFINE saw == Store
           groups == Groups(saw, req.hosts)
           found == Upserts(saw, req.hosts, order, kept)
           gone == IF ~req.complete THEN {}
                   ELSE Overdue(IF groups = {} THEN saw.device ELSE found.rows, groups)
           left == [i \in DOMAIN found.rows |->
                       IF i \in gone THEN [found.rows[i] EXCEPT !.online = FALSE] ELSE found.rows[i]]
           claims == {[mac |-> GroupOf(saw, h.mac), ip |-> h.ip] : h \in req.hosts}
           flagged == ConflictsFlagged(saw.device, <<>>, saw.alias, {})
           merged == [i \in DOMAIN device |->
                          IF i \in DOMAIN flagged THEN Flushed(device[i], saw.device[i], flagged[i])
                          ELSE device[i]]
           result == Reconciled(req, saw, order, kept)
<1>1. RowsOK(device) /\ saw.device = device /\ saw.alias = alias
  BY DEF StoreOK, Store
<1>2. \A i \in DOMAIN device : device[i] \in Row
  BY <1>1 DEF RowsOK
<1>3. CASE groups = {} /\ gone = {}
  <2>1. result.rows = merged
    BY <1>3 DEF Reconciled
  <2>2. /\ Orderly(ConflictsFlagged(device, << >>, alias, {}))
        /\ RowsOK(ConflictsFlagged(device, << >>, alias, {}))
        /\ DOMAIN ConflictsFlagged(device, << >>, alias, {}) = DOMAIN device
    <3>1. Steady(device)
      BY <1>1 DEF Steady
    <3>2. Orderly(ConflictsFlagged(device, << >>, alias, {}))
      <4> DEFINE none == << >>
      <4>1. DOMAIN none = {}
        OBVIOUS
      <4>2. \A i \in DOMAIN device : ~ (device[i].online /\ ~device[i].online)
        OBVIOUS
      <4> HIDE DEF none
      <4>3. Orderly(ConflictsFlagged(device, none, alias, {}))
        BY <3>1, <4>1, <4>2, FlaggedOrderly
      <4> QED
        BY <4>3 DEF none
    <3> QED
      BY <1>1, <3>2, FlaggedRows
  <2>3. flagged = ConflictsFlagged(device, << >>, alias, {})
    BY <1>1
  <2> HIDE DEF flagged, result, saw
  <2>4. Orderly(flagged) /\ RowsOK(flagged) /\ DOMAIN flagged = DOMAIN device
    BY <2>2, <2>3
  <2>5. flagged \in [DOMAIN device -> Row]
    BY <2>4 DEF RowsOK
  <2>6. \A i \in DOMAIN device : merged[i] = flagged[i]
    BY <1>1, <1>2, <2>4, <2>5, FlushedSelf
  <2>7. merged = flagged
    BY <2>5, <2>6
  <2> QED
    BY <2>1, <2>4, <2>7 DEF result, saw
<1>4. CASE ~(groups = {} /\ gone = {})
  <2>1. /\ result.ok = (found.ok /\ gone \subseteq DOMAIN left)
        /\ result.rows = ConflictsFlagged(left, found.held, alias, claims)
    BY <1>4 DEF Reconciled
  <2>2. AccOK(found) /\ (\E done : InStep(found, done)) /\ found.ok
    BY <2>1, UpsertsInStep
  <2>3. gone \subseteq Overdue(device, groups) \cup Overdue(found.rows, groups)
    BY <1>1
  <2> HIDE DEF found, gone, result, saw, groups
  <2>4. /\ RowsOK(found.rows) /\ DOMAIN device \subseteq DOMAIN found.rows
        /\ \A i \in DOMAIN device : Follows(device[i], found.rows[i])
    BY <2>2 DEF AccOK
  <2>5. /\ \A i \in DOMAIN found.rows \ DOMAIN device : found.rows[i].mac \notin DOMAIN alias
        /\ \A j \in DOMAIN found.held : j \in DOMAIN found.rows /\ found.held[j] = found.rows[j]
    BY <2>2 DEF InStep
  <2>6. \A i \in DOMAIN found.rows : found.rows[i] \in Row
    BY <2>4 DEF RowsOK
  <2>7. ASSUME NEW i \in DOMAIN found.rows
        PROVE  /\ left[i] \in Row /\ left[i].mac = found.rows[i].mac
               /\ left[i].conflict = found.rows[i].conflict /\ left[i].ip = found.rows[i].ip
               /\ i \notin gone => left[i].online = found.rows[i].online
    <3>1. [found.rows[i] EXCEPT !.online = FALSE] \in Row
      BY <2>6, FlagKept
    <3> QED
      BY <2>6, <3>1 DEF Row
  <2>8. DOMAIN left = DOMAIN found.rows /\ left \in [DOMAIN found.rows -> Row]
    BY <2>7
  <2> HIDE DEF left
  <2>9. Steady(left)
    <3>1. RowsOK(left)
      BY <2>4, <2>7, <2>8, ChangedRows
    <3> QED
      BY <2>4, <2>7, <2>8, <3>1 DEF Steady, Follows
  <2>10. ASSUME NEW i \in DOMAIN device, device[i].online, ~left[i].online
         PROVE  device[i].age >= Grace
    <3>1. i \in gone
      BY <2>4, <2>7, <2>10 DEF Follows
    <3>2. Grace \in Nat \ {0} /\ device[i].age \in 0 .. Grace
      BY <1>2, RegistryAssumption DEF Row
    <3>3. CASE i \in Overdue(device, groups)
      BY <3>3 DEF Overdue
    <3>4. CASE i \in Overdue(found.rows, groups)
      <4>1. found.rows[i].age >= Grace /\ found.rows[i].age \in {0, device[i].age}
        BY <2>4, <3>4 DEF Overdue, Follows
      <4> QED
        BY <3>2, <4>1
    <3> QED
      BY <2>3, <3>1, <3>3, <3>4
  <2>11. /\ \A i \in DOMAIN left \ DOMAIN device : left[i].mac \notin DOMAIN alias
         /\ \A j \in DOMAIN found.held : /\ found.held[j].ip = left[j].ip
                                         /\ found.held[j].conflict = left[j].conflict
    BY <2>5, <2>7, <2>8
  <2>12. Orderly(result.rows)
    BY <2>1, <2>9, <2>10, <2>11, FlaggedOrderly
  <2> QED
    BY <2>12 DEF result, saw
<1> QED
  BY <1>3, <1>4

LEMMA PresentOrderly ==
    ASSUME StoreOK(Store), NEW req, req.ip \in Ip, Present(req, Store).ok
    PROVE  Orderly(Present(req, Store).rows)
<1> DEFINE saw == Store
           i == Known(saw, req.mac)
           object == [saw.device[i] EXCEPT !.online = TRUE, !.age = 0, !.ip = req.ip]
           written == [device EXCEPT ![i] = Flushed(device[i], saw.device[i], object)]
           result == Present(req, saw)
<1>1. i # Nobody /\ i \in DOMAIN device
  BY DEF Present
<1>2. result.rows = ConflictsFlagged(written, [j \in {i} |-> object], alias, {})
  BY <1>1 DEF Present
<1>3. saw.device = device
  BY DEF Store
<1> HIDE DEF i, result, saw
<1>4. RowsOK(device) /\ \A j \in DOMAIN device : device[j] \in Row
  BY DEF StoreOK, Store, RowsOK
<1>5. /\ object \in Row /\ object.mac = device[i].mac /\ object.conflict = device[i].conflict
      /\ object.online = TRUE
  <2>1. 0 \in 0 .. Grace
    BY RegistryAssumption
  <2> QED
    BY <1>1, <1>3, <1>4, <2>1 DEF Row
<1> HIDE DEF object
<1>6. written = [device EXCEPT ![i] = object]
  BY <1>1, <1>3, <1>4, <1>5, FlushedSelf
<1>7. /\ DOMAIN written = DOMAIN device /\ written \in [DOMAIN device -> Row]
      /\ written[i] = object /\ \A j \in DOMAIN device \ {i} : written[j] = device[j]
  <2> HIDE DEF written
  <2> QED
    BY <1>1, <1>4, <1>5, <1>6 DEF RowsOK
<1> HIDE DEF written
<1>8. Steady(written)
  <2>1. \A j \in DOMAIN device : /\ written[j].mac = device[j].mac
                                 /\ written[j].conflict = device[j].conflict
    BY <1>1, <1>5, <1>7
  <2>2. RowsOK(written)
    BY <1>4, <1>7, <2>1, ChangedRows
  <2> QED
    BY <1>7, <2>1, <2>2 DEF Steady
<1>9. \A j \in DOMAIN device : device[j].online => written[j].online
  BY <1>1, <1>5, <1>7
<1> DEFINE held == [j \in {i} |-> object]
<1>10. \A j \in DOMAIN held : held[j].ip = written[j].ip /\ held[j].conflict = written[j].conflict
  BY <1>7
<1> HIDE DEF held
<1>11. Orderly(ConflictsFlagged(written, held, alias, {}))
  BY <1>7, <1>8, <1>9, <1>10, FlaggedOrderly
<1> QED
  BY <1>2, <1>11 DEF held, result, saw
-----------------------------------------------------------------------------
(* Who is in the database when sessions are taken in turn: nobody or one,  *)
(* and what it saw is what is there.                                       *)
Open(a) == session[a].stage = "open"
InTurn == \A a \in Actor : Open(a) => /\ session[a].saw = Store
                                      /\ \A b \in Actor : Open(b) => b = a

Orderliness == Inductive /\ InTurn /\ OneIdentityPerMac

LEMMA NobodyIsOpen ==
    ASSUME Together = 1, MayOpen
    PROVE  \A a \in Actor : ~Open(a)
<1> DEFINE S == {a \in Actor : Open(a)}
<1>1. IsFiniteSet(Actor)
  <2>1. IsFiniteSet(Scanners \cup {"reader"})
    BY RegistryAssumption, FS_AddElement
  <2>2. IsFiniteSet((Scanners \cup {"reader"}) \cup {"user"})
    BY <2>1, FS_AddElement
  <2>3. Actor = (Scanners \cup {"reader"}) \cup {"user"}
    BY DEF Actor
  <2> QED
    BY <2>2, <2>3
<1>2. IsFiniteSet(S)
  BY <1>1, FS_Subset
<1>3. Cardinality(S) \in Nat /\ Cardinality(S) < 1
  BY <1>2, FS_CardinalityType DEF MayOpen, Open
<1>4. Cardinality(S) = 0
  BY <1>3
<1>5. S = {}
  <2> HIDE DEF S
  <2> QED
    BY <1>2, <1>4, FS_EmptySet
<1> QED
  BY <1>5

(* What a step does to the sessions, and to the table.                     *)
Quiet == device' = device /\ alias' = alias /\ policies' = policies
ScanCommits(a) ==
    /\ a \in Actor \ {"user"} /\ Open(a) /\ session' = [session EXCEPT ![a] = Idle]
    /\ Quiet \/ \E rows : Orderly(rows) /\ Commit(rows, alias, policies)
UserCommits ==
    /\ Open("user") /\ session' = [session EXCEPT !["user"] = Idle]
    /\ UserStep(session["user"].req, Store) /\ session["user"].saw = Store
Waits(a) ==
    /\ a \in Actor /\ ~Open(a) /\ Quiet
    /\ \E req : session' = [session EXCEPT ![a] = [stage |-> "asked", req |-> req]]
Enters(a) ==
    /\ a \in Actor /\ (\A b \in Actor : ~Open(b)) /\ Quiet
    /\ \E req : session' = [session EXCEPT ![a] = [stage |-> "open", req |-> req, saw |-> Store]]
TimePasses ==
    /\ \A b \in Actor : ~Open(b)
    /\ session' = session /\ Tick

LEMMA StepsInTurn ==
    ASSUME Together = 1, Orderliness, [Next]_vars
    PROVE  \/ UNCHANGED session /\ Quiet
           \/ \E a \in Actor : ScanCommits(a) \/ Waits(a) \/ Enters(a)
           \/ UserCommits
           \/ TimePasses
<1>1. StoreOK(Store) /\ SessionsOK
  BY DEF Orderliness, Inductive
<1>2. Scanners \subseteq Actor \ {"user", "reader"} /\ "reader" \in Actor /\ "user" \in Actor
  BY RegistryAssumption DEF Actor
<1>3. ASSUME NEW s \in Scanners, ScanAll(s) \/ ScanSome(s) PROVE Waits(s)
  <2>1. session[s] = Idle /\ s \in Actor /\ Quiet
    BY <1>2, <1>3 DEF ScanAll, ScanSome, store, Quiet
  <2>2. ~Open(s)
    BY <2>1 DEF Open, Idle
  <2> QED
    BY <1>3, <2>1, <2>2 DEF ScanAll, ScanSome, Ask, Waits
<1>4. ASSUME NEW s \in Scanners, EndScan(s) PROVE ScanCommits(s)
  <2> DEFINE req == session[s].req
  <2>1. s \in Actor \ {"user"} /\ Open(s) /\ session' = [session EXCEPT ![s] = Idle]
    BY <1>2, <1>4 DEF EndScan, Open, Ending
  <2>2. session[s].saw = Store
    BY <2>1 DEF Orderliness, InTurn
  <2>3. req.hosts \in SUBSET Host
    BY <1>1, <2>1 DEF SessionsOK, SessionOK, RequestOK, Open
  <2>4. \E order \in SetToSeqs(Groups(session[s].saw, req.hosts)) : \E kept :
            IF Reconciled(req, session[s].saw, order, kept).ok
            THEN Commit(Reconciled(req, session[s].saw, order, kept).rows, alias, policies)
            ELSE RollBack
    BY <1>4 DEF EndScan
  <2>5. PICK order \in SetToSeqs(Groups(Store, req.hosts)) : \E kept :
            IF Reconciled(req, Store, order, kept).ok
            THEN Commit(Reconciled(req, Store, order, kept).rows, alias, policies) ELSE RollBack
    BY <2>2, <2>4
  <2>6. PICK kept :
            IF Reconciled(req, Store, order, kept).ok
            THEN Commit(Reconciled(req, Store, order, kept).rows, alias, policies) ELSE RollBack
    BY <2>5
  <2> HIDE DEF req
  <2>7. CASE Reconciled(req, Store, order, kept).ok
    <3>1. Orderly(Reconciled(req, Store, order, kept).rows)
      BY <1>1, <2>3, <2>7, ReconciledOrderly
    <3> QED
      BY <2>1, <2>6, <2>7, <3>1 DEF ScanCommits
  <2>8. CASE ~Reconciled(req, Store, order, kept).ok
    BY <2>1, <2>6, <2>8 DEF ScanCommits, RollBack, store, Quiet
  <2> QED
    BY <2>7, <2>8
<1>5. ASSUME NEW host \in Hosts, NeighbourAdded(host) PROVE Enters("reader")
  <2>1. \A b \in Actor : ~Open(b)
    BY <1>5, NobodyIsOpen DEF NeighbourAdded
  <2>2. /\ session' = [session EXCEPT !["reader"] = [stage |-> "open", saw |-> Store,
                          req |-> [op |-> "presence", mac |-> host.mac, ip |-> host.ip]]]
        /\ Quiet
    BY <1>5 DEF NeighbourAdded, store, Quiet
  <2> QED
    BY <1>2, <2>1, <2>2 DEF Enters
<1>6. ASSUME (\E op \in UserOps \ {"add"} : UserDecides(op)) \/ UserAdds PROVE Waits("user")
  <2>1. /\ session["user"] = Idle /\ Quiet
        /\ \E req : Ask("user", req)
    BY <1>6 DEF UserDecides, UserAdds, store, Quiet
  <2>2. ~Open("user")
    BY <2>1 DEF Open, Idle
  <2> QED
    BY <1>2, <2>1, <2>2 DEF Ask, Waits
<1>7. ASSUME NEW a \in Actor \ {"reader"}, Read(a) PROVE Enters(a)
  <2>1. \A b \in Actor : ~Open(b)
    BY <1>7, NobodyIsOpen DEF Read
  <2>2. session' = [session EXCEPT ![a] = [stage |-> "open", req |-> session[a].req, saw |-> Store]]
    BY <1>7 DEF Read
  <2>3. Quiet
    BY <1>7 DEF Read, store, Quiet
  <2> QED
    BY <2>1, <2>2, <2>3 DEF Enters
<1>8. ASSUME EndPresence PROVE ScanCommits("reader")
  <2> DEFINE req == session["reader"].req
  <2>1. Open("reader") /\ session' = [session EXCEPT !["reader"] = Idle]
    BY <1>8 DEF EndPresence, Open, Ending
  <2>2. session["reader"].saw = Store
    BY <1>2, <2>1 DEF Orderliness, InTurn
  <2>3. req.ip \in Ip
    BY <1>1, <1>2, <2>1 DEF SessionsOK, SessionOK, RequestOK, Open
  <2>4. IF Present(req, session["reader"].saw).ok
        THEN Commit(Present(req, session["reader"].saw).rows, alias, policies) ELSE RollBack
    BY <1>8 DEF EndPresence
  <2>5. IF Present(req, Store).ok THEN Commit(Present(req, Store).rows, alias, policies)
        ELSE RollBack
    BY <2>2, <2>4
  <2> HIDE DEF req
  <2>6. CASE Present(req, Store).ok
    <3>1. Orderly(Present(req, Store).rows)
      BY <1>1, <2>3, <2>6, PresentOrderly
    <3> QED
      BY <1>2, <2>1, <2>5, <2>6, <3>1 DEF ScanCommits
  <2>7. CASE ~Present(req, Store).ok
    BY <1>2, <2>1, <2>5, <2>7 DEF ScanCommits, RollBack, store, Quiet
  <2> QED
    BY <2>6, <2>7
<1>9. ASSUME EndRequest PROVE UserCommits
  <2>1. Open("user") /\ session' = [session EXCEPT !["user"] = Idle]
    BY <1>9 DEF EndRequest, Open, Ending
  <2>2. session["user"].saw = Store
    BY <1>2, <2>1 DEF Orderliness, InTurn
  <2>3. UserStep(session["user"].req, session["user"].saw)
    BY <1>9, EndRequestIs DEF Orderliness
  <2>4. UserStep(session["user"].req, Store)
    BY <2>2, <2>3
  <2> QED
    BY <2>1, <2>2, <2>4 DEF UserCommits
<1>10. ASSUME NEW m \in Mac, HostMoves(m) PROVE UNCHANGED session /\ Quiet
  BY <1>10 DEF HostMoves, store, Quiet
<1>11. ASSUME Tick PROVE TimePasses
  BY <1>11 DEF Tick, TimePasses, Open
<1>12. ASSUME UNCHANGED vars PROVE UNCHANGED session /\ Quiet
  BY <1>12 DEF vars, store, Quiet
<1> QED
  BY <1>2, <1>3, <1>4, <1>5, <1>6, <1>7, <1>8, <1>9, <1>10, <1>11, <1>12 DEF Next

LEMMA QuietStore ==
    ASSUME Quiet
    PROVE  Store' = Store
BY DEF Quiet, Store

(* Once the only open session ends, nobody is in the database.             *)
LEMMA LeavesNobody ==
    ASSUME SessionsOK, InTurn, NEW a \in Actor, Open(a), session' = [session EXCEPT ![a] = Idle]
    PROVE  InTurn' /\ session'[a] = Idle /\ \A b \in Actor \ {a} : session'[b] = session[b]
<1>1. session'[a] = Idle /\ \A b \in Actor \ {a} : session'[b] = session[b]
  BY DEF SessionsOK
<1>2. \A b \in Actor \ {a} : ~Open(b)
  BY DEF InTurn
<1>3. \A b \in Actor : ~Open(b)'
  BY <1>1, <1>2 DEF Open, Idle
<1>4. InTurn'
  BY <1>3 DEF InTurn, Actor
<1> QED
  BY <1>1, <1>4

LEMMA CommitsIdentities ==
    ASSUME StoreOK(Store), OneIdentityPerMac, NEW rows, Orderly(rows), Commit(rows, alias, policies)
    PROVE  OneIdentityPerMac'
<1>1. /\ device' = rows /\ DOMAIN alias' \subseteq DOMAIN alias
      /\ \A m \in DOMAIN alias' : alias'[m] = alias[m]
  BY SteadyKeeps DEF Orderly
<1> SUFFICES ASSUME NEW i \in DOMAIN rows, NEW m \in DOMAIN alias', rows[i].mac = m
             PROVE  alias'[m] = i
  BY <1>1 DEF OneIdentityPerMac
<1>2. i \in DOMAIN device /\ device[i].mac = m
  BY <1>1 DEF Orderly, Steady
<1> QED
  BY <1>1, <1>2 DEF OneIdentityPerMac

LEMMA TurnsAreKept ==
    ASSUME Together = 1
    PROVE  Orderliness /\ [Next]_vars => Orderliness'
<1> SUFFICES ASSUME Orderliness, [Next]_vars PROVE Orderliness'
  OBVIOUS
<1>1. Inductive'
  BY NextInductive DEF Orderliness
<1>2. StoreOK(Store) /\ SessionsOK /\ InTurn /\ OneIdentityPerMac
  BY DEF Orderliness, Inductive
<1>3. CASE UNCHANGED session /\ Quiet
  <2>1. InTurn'
    BY <1>2, <1>3, QuietStore DEF InTurn, Open, Actor
  <2>2. OneIdentityPerMac'
    BY <1>2, <1>3 DEF OneIdentityPerMac, Quiet
  <2> QED
    BY <1>1, <2>1, <2>2 DEF Orderliness
<1>4. ASSUME NEW a \in Actor, ScanCommits(a) PROVE Orderliness'
  <2>1. InTurn'
    BY <1>2, <1>4, LeavesNobody DEF ScanCommits
  <2>2. CASE Quiet
    <3>1. OneIdentityPerMac'
      BY <1>2, <2>2 DEF OneIdentityPerMac, Quiet
    <3> QED
      BY <1>1, <2>1, <3>1 DEF Orderliness
  <2>3. CASE \E rows : Orderly(rows) /\ Commit(rows, alias, policies)
    <3>1. OneIdentityPerMac'
      BY <1>2, <2>3, CommitsIdentities
    <3> QED
      BY <1>1, <2>1, <3>1 DEF Orderliness
  <2> QED
    BY <1>4, <2>2, <2>3 DEF ScanCommits
<1>5. ASSUME NEW a \in Actor, Waits(a) PROVE Orderliness'
  <2>1. PICK req : session' = [session EXCEPT ![a] = [stage |-> "asked", req |-> req]]
    BY <1>5 DEF Waits
  <2> DEFINE s == [stage |-> "asked", req |-> req]
  <2>2. s.stage # "open"
    OBVIOUS
  <2> HIDE DEF s
  <2>3. session'[a] = s /\ \A b \in Actor \ {a} : session'[b] = session[b]
    BY <1>2, <2>1 DEF SessionsOK, s
  <2>4. Store' = Store
    BY <1>5, QuietStore DEF Waits
  <2>5. InTurn'
    BY <1>2, <2>2, <2>3, <2>4 DEF InTurn, Open, Actor
  <2>6. OneIdentityPerMac'
    BY <1>2, <1>5 DEF OneIdentityPerMac, Quiet, Waits
  <2> QED
    BY <1>1, <2>5, <2>6 DEF Orderliness
<1>6. ASSUME NEW a \in Actor, Enters(a) PROVE Orderliness'
  <2>1. PICK req : session' = [session EXCEPT ![a] = [stage |-> "open", req |-> req, saw |-> Store]]
    BY <1>6 DEF Enters
  <2> DEFINE s == [stage |-> "open", req |-> req, saw |-> Store]
  <2>2. s.saw = Store
    OBVIOUS
  <2> HIDE DEF s
  <2>3. session'[a] = s /\ \A b \in Actor \ {a} : session'[b] = session[b]
    BY <1>2, <2>1 DEF SessionsOK, s
  <2>4. Store' = Store /\ \A b \in Actor : ~Open(b)
    BY <1>6, QuietStore DEF Enters
  <2>5. InTurn'
    BY <2>2, <2>3, <2>4 DEF InTurn, Open, Actor
  <2>6. OneIdentityPerMac'
    BY <1>2, <1>6 DEF OneIdentityPerMac, Quiet, Enters
  <2> QED
    BY <1>1, <2>5, <2>6 DEF Orderliness
<1>7. CASE UserCommits
  <2>1. "user" \in Actor
    BY DEF Actor
  <2>2. InTurn'
    BY <1>2, <1>7, <2>1, LeavesNobody DEF UserCommits
  <2>3. OneIdentityPerMac'
    BY <1>2, <1>7 DEF UserCommits, UserStep
  <2> QED
    BY <1>1, <2>2, <2>3 DEF Orderliness
<1>8. CASE TimePasses
  <2>1. \A b \in Actor : ~Open(b)'
    BY <1>8 DEF TimePasses, Open
  <2>2. InTurn'
    BY <2>1 DEF InTurn, Actor
  <2>3. OneIdentityPerMac'
    BY <1>2, <1>8, TickKeeps DEF TimePasses, OneIdentityPerMac
  <2> QED
    BY <1>1, <2>2, <2>3 DEF Orderliness
<1> QED
  BY <1>3, <1>4, <1>5, <1>6, <1>7, <1>8, StepsInTurn

LEMMA OrderlinessInvariant ==
    ASSUME Together = 1
    PROVE  Spec => []Orderliness
<1>1. Init => Orderliness
  <2> SUFFICES ASSUME Init PROVE Orderliness
    OBVIOUS
  <2>1. \A a \in Actor : ~Open(a)
    BY DEF Init, Open, Idle
  <2>2. DOMAIN alias = {}
    BY DEF Init
  <2> QED
    BY <2>1, <2>2, InitInductive DEF Orderliness, InTurn, OneIdentityPerMac
<1>2. Orderliness /\ [Next]_vars => Orderliness'
  BY TurnsAreKept
<1> QED
  BY <1>1, <1>2, PTL DEF Spec

(* Sessions in turn, whatever the user merges, splits, renames, adds and   *)
(* deletes between scans and neighbour events: no device is registered     *)
(* under a MAC that is linked to another identity                          *)
(* (reconcile_discovery, IdentityManager.merge and split).                 *)
THEOREM IdentitiesStayWhole ==
    ASSUME Together = 1
    PROVE  Spec => []OneIdentityPerMac
<1>1. Orderliness => OneIdentityPerMac
  BY DEF Orderliness
<1> QED
  BY <1>1, OrderlinessInvariant, PTL

(* Sessions in turn: after a scan or a neighbour event that changed the    *)
(* table all online identities that share an address are flagged           *)
(* (DeviceManager._check_address_conflicts).                               *)
THEOREM SharersFlaggedInTurn ==
    ASSUME Together = 1
    PROVE  Spec => SharersAreFlagged
<1>1. Orderliness /\ [Next]_vars => FlagsSharers
  <2> SUFFICES ASSUME Orderliness, [Next]_vars, NEW a \in Actor \ {"user"}, Writes(a), store' # store
               PROVE  NoneShares(device')
    BY DEF FlagsSharers, NoneShares
  <2>1. StoreOK(Store) /\ SessionsOK /\ InTurn
    BY DEF Orderliness, Inductive
  <2>2. ~Quiet
    BY DEF Quiet, store
  <2>3. Open(a) /\ session'[a] # session[a]
    BY DEF Writes, Open, Idle
  <2>4. ASSUME NEW b \in Actor, ScanCommits(b) PROVE NoneShares(device')
    <3>1. PICK rows : Orderly(rows) /\ Commit(rows, alias, policies)
      BY <2>2, <2>4 DEF ScanCommits
    <3>2. device' = rows
      BY <2>1, <3>1, SteadyKeeps DEF Orderly
    <3> QED
      BY <3>1, <3>2 DEF Orderly
  <2>5. ~UserCommits
    BY <2>1, <2>3 DEF UserCommits, SessionsOK
  <2>6. \A b \in Actor : ~Waits(b) /\ ~Enters(b)
    BY <2>2 DEF Waits, Enters
  <2>7. ~TimePasses /\ ~(UNCHANGED session /\ Quiet)
    BY <2>2, <2>3 DEF TimePasses
  <2> QED
    BY <2>4, <2>5, <2>6, <2>7, StepsInTurn
<1> QED
  BY <1>1, OrderlinessInvariant, PTL DEF Spec, SharersAreFlagged

(* Sessions in turn: the flag of a device that stays is only cleared by a  *)
(* review of the address and the MAC that it still has                     *)
(* (IdentityManager.resolve_conflict).                                     *)
THEOREM FlagsAwaitReview ==
    ASSUME Together = 1
    PROVE  Spec => FlagAwaitsReview
<1>1. Orderliness /\ [Next]_vars => ClearsReviewed
  <2> SUFFICES ASSUME Orderliness, [Next]_vars,
                      NEW i \in DOMAIN device \cap DOMAIN device',
                      device[i].conflict, ~device'[i].conflict
               PROVE  /\ Writes("user") /\ session["user"].req.op = "resolve"
                      /\ session["user"].req.id = i
                      /\ session["user"].req.ip = device[i].ip
                      /\ session["user"].req.mac = device[i].mac
    BY DEF ClearsReviewed
  <2>1. StoreOK(Store) /\ SessionsOK /\ InTurn
    BY DEF Orderliness, Inductive
  <2>2. ~Quiet
    BY DEF Quiet
  <2>3. \A b \in Actor : ~ScanCommits(b)
    <3> SUFFICES ASSUME NEW b \in Actor, ScanCommits(b) PROVE FALSE
      OBVIOUS
    <3>1. PICK rows : Orderly(rows) /\ Commit(rows, alias, policies)
      BY <2>2 DEF ScanCommits
    <3>2. device' = rows
      BY <2>1, <3>1, SteadyKeeps DEF Orderly
    <3> QED
      BY <3>1, <3>2 DEF Orderly, Steady
  <2>4. ~TimePasses
    BY <2>1, TickKeeps DEF TimePasses
  <2>5. UserCommits
    BY <2>2, <2>3, <2>4, StepsInTurn DEF Waits, Enters
  <2> DEFINE req == session["user"].req
  <2>6. UserStep(req, Store)
    BY <2>5 DEF UserCommits
  <2> HIDE DEF req
  <2>7. req.op = "resolve" /\ req.id = i /\ Reviewed(req, Store)
    BY <2>6 DEF UserStep
  <2>8. device[i].mac = req.mac /\ device[i].ip = req.ip
    BY <2>7 DEF Reviewed, Store
  <2>9. Writes("user")
    BY <2>1, <2>5 DEF UserCommits, Writes, Open, SessionsOK, Actor
  <2> QED
    BY <2>7, <2>8, <2>9 DEF req
<1> QED
  BY <1>1, OrderlinessInvariant, PTL DEF Spec, FlagAwaitsReview

(* Sessions in turn: nobody is reported to have left before the grace      *)
(* period has passed without a sign of life, which sessions that overlap   *)
(* break (reconcile_discovery, offline_after_seconds).                     *)
THEOREM GraceIsHonouredInTurn ==
    ASSUME Together = 1
    PROVE  Spec => GraceHonoured
<1>1. Orderliness /\ [Next]_vars => LeavesAfterGrace
  <2> SUFFICES ASSUME Orderliness, [Next]_vars,
                      NEW i \in DOMAIN device \cap DOMAIN device',
                      device[i].online, ~device'[i].online
               PROVE  device[i].age >= Grace
    BY DEF LeavesAfterGrace
  <2>1. StoreOK(Store)
    BY DEF Orderliness, Inductive
  <2>2. ~Quiet
    BY DEF Quiet
  <2>3. ~TimePasses
    BY <2>1, TickKeeps DEF TimePasses
  <2>4. ~UserCommits
    BY DEF UserCommits, UserStep
  <2>5. PICK b \in Actor : ScanCommits(b)
    BY <2>2, <2>3, <2>4, StepsInTurn DEF Waits, Enters
  <2>6. PICK rows : Orderly(rows) /\ Commit(rows, alias, policies)
    BY <2>2, <2>5 DEF ScanCommits
  <2>7. device' = rows
    BY <2>1, <2>6, SteadyKeeps DEF Orderly
  <2> QED
    BY <2>6, <2>7 DEF Orderly
<1> QED
  BY <1>1, OrderlinessInvariant, PTL DEF Spec, GraceHonoured
=============================================================================
