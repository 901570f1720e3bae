-------------------------- MODULE ScanReportProofs --------------------------
(***************************************************************************)
(* What the operators of ScanReport keep of the hosts they are given, for  *)
(* sequences of any length.  The folds of the community modules run over   *)
(* the set of a sequence's indices, the greatest last; the first lemmas    *)
(* say that they have a value and that it comes about one step at a time.  *)
(***************************************************************************)
EXTENDS ScanReport, WellFoundedInduction, TLAPS

(* Induction along the numbers up to n.                                    *)
LEMMA UpTo ==
    ASSUME NEW n \in Nat, NEW G, 0 \in G, \A k \in 1 .. n : k - 1 \in G => k \in G
    PROVE  \A k \in 0 .. n : k \in G
<1> DEFINE S == {k \in 0 .. n : k \notin G}
<1>1. SUFFICES ASSUME S # {} PROVE FALSE
  OBVIOUS
<1>2. PICK k \in S : \A m \in S : ~ (<<m, k>> \in OpToRel(<, Nat))
  <2>1. S \in SUBSET Nat
    OBVIOUS
  <2> HIDE DEF S
  <2> QED
    BY <1>1, <2>1, WFMin, NatLessThanWellFounded
<1>3. \A m \in S : ~ (m < k)
  <2>1. S \in SUBSET Nat
    OBVIOUS
  <2> HIDE DEF S
  <2> QED
    BY <1>2, <2>1 DEF OpToRel
<1>4. k \in 1 .. n /\ k - 1 \in 0 .. n /\ k - 1 < k
  OBVIOUS
<1>5. k - 1 \in G
  BY <1>3, <1>4
<1> QED
  BY <1>4, <1>5

(* What Max and Min of the community modules choose.                       *)
LEMMA GreatestIs ==
    ASSUME NEW S \in SUBSET Nat, NEW k \in S, \A j \in S : j <= k
    PROVE  Max(S) = k
<1>1. \E x \in S : \A y \in S : x >= y
  OBVIOUS
<1>2. \A x \in S : (\A y \in S : x >= y) => x = k
  OBVIOUS
<1> QED
  BY <1>1, <1>2 DEF Max

LEMMA GreatestOf ==
    ASSUME NEW n \in Nat, NEW S \in SUBSET (1 .. n), S # {}
    PROVE  Max(S) \in S /\ \A j \in S : j <= Max(S)
<1> DEFINE G == {k \in 0 .. n : \A T \in SUBSET (1 .. k) :
                    T # {} => \E x \in T : \A y \in T : x >= y}
<1>1. 0 \in G
  <2>1. \A T \in SUBSET (1 .. 0) : T # {} => \E x \in T : \A y \in T : x >= y
    <3>1. \A T \in SUBSET (1 .. 0) : T = {}
      OBVIOUS
    <3> QED
      BY <3>1
  <2> QED
    BY <2>1
<1>2. ASSUME NEW k \in 1 .. n, k - 1 \in G
      PROVE  k \in G
  <2>1. SUFFICES ASSUME NEW T \in SUBSET (1 .. k), T # {}
                 PROVE  \E x \in T : \A y \in T : x >= y
    OBVIOUS
  <2>2. CASE k \in T
    <3>1. \A y \in T : k >= y
      OBVIOUS
    <3> QED
      BY <2>2, <3>1
  <2>3. CASE k \notin T
    <3>1. T \in SUBSET (1 .. k - 1)
      BY <2>3
    <3> QED
      BY <1>2, <2>1, <3>1
  <2> QED
    BY <2>2, <2>3
<1>3. n \in G
  <2> HIDE DEF G
  <2> QED
    BY <1>1, <1>2, UpTo
<1>4. PICK x \in S : \A y \in S : x >= y
  BY <1>3
<1>5. Max(S) = x
  BY <1>4, GreatestIs
<1> QED
  BY <1>4, <1>5

LEMMA LeastOf ==
    ASSUME NEW S \in SUBSET Nat, S # {}
    PROVE  Min(S) \in S
<1>1. PICK x \in S : \A y \in S : ~ (<<y, x>> \in OpToRel(<, Nat))
  BY WFMin, NatLessThanWellFounded
<1>2. \A y \in S : ~ (y < x)
  BY <1>1 DEF OpToRel
<1>3. \A y \in S : x <= y
  BY <1>2
<1> QED
  BY <1>3 DEF Min
-----------------------------------------------------------------------------
(* A fold of a step that is given as a function.                           *)
FoldsTo(f, n, step, base, items) ==
    f = [s \in SUBSET (1 .. n) |->
            IF s = {} THEN base ELSE step[<<f[s \ {Max(s)}], items[Max(s)]>>]]

(* Such a fold has a value, for one more item than before each time.       *)
LEMMA FoldExists ==
    ASSUME NEW n \in Nat, NEW step, NEW base, NEW items
    PROVE  \E f : FoldsTo(f, n, step, base, items)
<1> DEFINE G == {k \in 0 .. n : \E f : FoldsTo(f, k, step, base, items)}
           Value(f, s) == IF s = {} THEN base ELSE step[<<f[s \ {Max(s)}], items[Max(s)]>>]
<1>1. 0 \in G
  <2> DEFINE g == [s \in SUBSET (1 .. 0) |-> base]
  <2>1. \A s \in SUBSET (1 .. 0) : s = {}
    OBVIOUS
  <2>2. FoldsTo(g, 0, step, base, items)
    BY <2>1 DEF FoldsTo
  <2> QED
    BY <2>2
<1>2. ASSUME NEW k \in 1 .. n, k - 1 \in G
      PROVE  k \in G
  <2>1. PICK f : FoldsTo(f, k - 1, step, base, items)
    BY <1>2
  <2> DEFINE g == [s \in SUBSET (1 .. k) |->
                      IF k \in s THEN step[<<f[s \ {k}], items[k]>>] ELSE f[s]]
  <2>2. ASSUME NEW s \in SUBSET (1 .. k)
        PROVE  g[s] = Value(g, s)
    <3>1. CASE k \in s
      <4>1. Max(s) = k
        <5>1. \A j \in s : j <= k
          OBVIOUS
        <5> QED
          BY <3>1, <5>1, GreatestIs
      <4>2. s \ {k} \in SUBSET (1 .. k) /\ k \notin s \ {k}
        OBVIOUS
      <4>3. g[s \ {k}] = f[s \ {k}]
        BY <4>2
      <4> QED
        BY <3>1, <4>1, <4>3
    <3>2. CASE k \notin s
      <4>1. s \in SUBSET (1 .. k - 1)
        BY <3>2
      <4>2. g[s] = f[s]
        BY <3>2
      <4>3. f[s] = Value(f, s)
        BY <2>1, <4>1 DEF FoldsTo
      <4>4. ASSUME s # {} PROVE g[s \ {Max(s)}] = f[s \ {Max(s)}]
        <5>1. s \ {Max(s)} \in SUBSET (1 .. k) /\ k \notin s \ {Max(s)}
          BY <3>2
        <5> QED
          BY <5>1
      <4> HIDE DEF g
      <4> QED
        BY <4>2, <4>3, <4>4
    <3> QED
      BY <3>1, <3>2
  <2>3. g = [s \in SUBSET (1 .. k) |-> Value(g, s)]
    BY <2>2
  <2>4. FoldsTo(g, k, step, base, items)
    <3> HIDE DEF g
    <3> QED
      BY <2>3 DEF FoldsTo
  <2> QED
    BY <2>4
<1>3. n \in G
  <2> HIDE DEF G
  <2> QED
    BY <1>1, <1>2, UpTo
<1> QED
  BY <1>3

(* It stays where its steps stay.                                          *)
LEMMA FoldStays ==
    ASSUME NEW n \in Nat, NEW T, NEW E, NEW step \in [T \X E -> T], NEW base \in T,
           NEW items \in [1 .. n -> E], NEW f, FoldsTo(f, n, step, base, items)
    PROVE  \A s \in SUBSET (1 .. n) : f[s] \in T
<1> DEFINE G == {k \in 0 .. n : \A s \in SUBSET (1 .. k) : f[s] \in T}
<1>0. \A s \in SUBSET (1 .. n) :
         f[s] = IF s = {} THEN base ELSE step[<<f[s \ {Max(s)}], items[Max(s)]>>]
  BY DEF FoldsTo
<1>1. 0 \in G
  <2>1. \A s \in SUBSET (1 .. 0) : s = {}
    OBVIOUS
  <2>2. {} \in SUBSET (1 .. n) /\ f[{}] = base
    BY <1>0
  <2>3. \A s \in SUBSET (1 .. 0) : f[s] \in T
    BY <2>1, <2>2
  <2> QED
    BY <2>3
<1>2. ASSUME NEW k \in 1 .. n, k - 1 \in G
      PROVE  k \in G
  <2>1. SUFFICES ASSUME NEW s \in SUBSET (1 .. k) PROVE f[s] \in T
    OBVIOUS
  <2>2. CASE k \in s
    <3>1. Max(s) = k
      <4>1. \A j \in s : j <= k
        OBVIOUS
      <4> QED
        BY <2>2, <4>1, GreatestIs
    <3>2. s \ {k} \in SUBSET (1 .. k - 1)
      OBVIOUS
    <3>3. f[s \ {k}] \in T /\ items[k] \in E
      BY <1>2, <3>2
    <3>4. f[s] = step[<<f[s \ {k}], items[k]>>]
      <4>1. s \in SUBSET (1 .. n) /\ s # {}
        BY <2>2
      <4> QED
        BY <1>0, <3>1, <4>1
    <3> QED
      BY <3>3, <3>4
  <2>3. CASE k \notin s
    <3>1. s \in SUBSET (1 .. k - 1)
      BY <2>3
    <3> QED
      BY <1>2, <3>1
  <2> QED
    BY <2>2, <2>3
<1>3. n \in G
  <2>1. n \in 0 .. n
    OBVIOUS
  <2> HIDE DEF G
  <2>2. \A k \in 0 .. n : k \in G
    BY <1>1, <1>2, UpTo
  <2> QED
    BY <2>1, <2>2
<1> QED
  BY <1>3

(* Its values along a sequence come about one item at a time.              *)
LEMMA Prefix ==
    ASSUME NEW n \in Nat, NEW k \in 1 .. n
    PROVE  /\ 1 .. k \in SUBSET (1 .. n) /\ 1 .. k # {} /\ Max(1 .. k) = k
           /\ (1 .. k) \ {k} = 1 .. (k - 1)
<1>1. 1 .. k \in SUBSET Nat /\ k \in 1 .. k /\ \A j \in 1 .. k : j <= k
  OBVIOUS
<1>2. Max(1 .. k) = k
  <2> DEFINE S == 1 .. k
  <2> HIDE DEF S
  <2>1. S \in SUBSET Nat /\ k \in S /\ \A j \in S : j <= k
    BY <1>1 DEF S
  <2>2. Max(S) = k
    BY <2>1, GreatestIs
  <2> QED
    BY <2>2 DEF S
<1> QED
  BY <1>1, <1>2
-----------------------------------------------------------------------------
(* One step of each fold: one place of the report is written.              *)
Puts(r, new, at, h) ==
    /\ DOMAIN new = DOMAIN r \cup {at} /\ new[at] = h
    /\ \A i \in DOMAIN r : i # at => new[i] = r[i]

(* A host takes the place of another, or comes behind all.                 *)
LEMMA Replaced ==
    ASSUME NEW r \in Seq(Host), NEW h \in Host, NEW at \in DOMAIN r
    PROVE  [r EXCEPT ![at] = h] \in Seq(Host) /\ Puts(r, [r EXCEPT ![at] = h], at, h)
<1> DEFINE new == [r EXCEPT ![at] = h]
<1>1. new \in Seq(Host)
  OBVIOUS
<1>2. DOMAIN new = DOMAIN r /\ new[at] = h /\ \A i \in DOMAIN r : i # at => new[i] = r[i]
  OBVIOUS
<1> QED
  BY <1>1, <1>2 DEF Puts

LEMMA Appended ==
    ASSUME NEW r \in Seq(Host), NEW h \in Host
    PROVE  \E at : /\ Append(r, h) \in Seq(Host) /\ at \notin DOMAIN r
                   /\ Puts(r, Append(r, h), at, h)
<1> DEFINE new == Append(r, h)
           at == Len(r) + 1
<1>1. new \in Seq(Host) /\ Len(new) = Len(r) + 1 /\ Len(r) \in Nat
  OBVIOUS
<1>2. DOMAIN new = 1 .. Len(r) + 1 /\ DOMAIN r = 1 .. Len(r)
  BY <1>1
<1>3. new[at] = h /\ \A i \in DOMAIN r : new[i] = r[i]
  OBVIOUS
<1>4. DOMAIN new = DOMAIN r \cup {at} /\ at \notin DOMAIN r
  BY <1>1, <1>2
<1> QED
  BY <1>1, <1>3, <1>4 DEF Puts

(* The place that each of the three loops writes.                          *)
LEMMA ReplacingWrites ==
    ASSUME NEW r \in Seq(Host), NEW h \in Host
    PROVE  /\ Replacing(r, h) \in Seq(Host)
           /\ \E at : /\ Puts(r, Replacing(r, h), at, h)
                      /\ at \in DOMAIN r => r[at].ip = h.ip /\ r[at].interface = h.interface
<1> DEFINE same == {i \in DOMAIN r : r[i].ip = h.ip /\ r[i].interface = h.interface}
<1>1. CASE same = {}
  <2>1. Replacing(r, h) = Append(r, h)
    BY <1>1 DEF Replacing
  <2> QED
    BY <2>1, Appended
<1>2. CASE same # {}
  <2>1. Min(same) \in same
    <3>1. same \in SUBSET Nat
      OBVIOUS
    <3> HIDE DEF same
    <3> QED
      BY <1>2, <3>1, LeastOf
  <2>2. Replacing(r, h) = [r EXCEPT ![Min(same)] = h]
    BY <1>2 DEF Replacing
  <2>3. Min(same) \in DOMAIN r /\ r[Min(same)].ip = h.ip /\ r[Min(same)].interface = h.interface
    BY <2>1
  <2> HIDE DEF same
  <2> QED
    BY <2>2, <2>3, Replaced
<1> QED
  BY <1>1, <1>2

LEMMA MergingWrites ==
    ASSUME NEW r \in Seq(Host), NEW h \in Host
    PROVE  /\ Merging(r, h) \in Seq(Host)
           /\ \E at, new : /\ Puts(r, Merging(r, h), at, new)
                           /\ new.ip = h.ip /\ new.mac = h.mac
                           /\ IF at \in DOMAIN r
                              THEN /\ r[at].ip = h.ip /\ r[at].mac = h.mac
                                   /\ new.confirmed = (r[at].confirmed \/ h.confirmed)
                              ELSE new.confirmed = h.confirmed
<1> DEFINE same == {i \in DOMAIN r : SamePath(r[i], h)}
<1>1. CASE same = {}
  <2>1. Merging(r, h) = Append(r, h)
    BY <1>1 DEF Merging
  <2> QED
    BY <2>1, Appended
<1>2. CASE same # {}
  <2>1. Min(same) \in same
    <3>1. same \in SUBSET Nat
      OBVIOUS
    <3> HIDE DEF same
    <3> QED
      BY <1>2, <3>1, LeastOf
  <2> DEFINE at == Min(same)
             new == Joined(r[at], h)
  <2>2. Merging(r, h) = [r EXCEPT ![at] = new]
    BY <1>2 DEF Merging
  <2>3. at \in DOMAIN r /\ r[at].ip = h.ip /\ r[at].mac = h.mac
    BY <2>1 DEF SamePath
  <2> HIDE DEF same, at
  <2>4. r[at] \in Host
    BY <2>3
  <2>5. /\ new \in Host /\ new.ip = h.ip /\ new.mac = h.mac
        /\ new.confirmed = (r[at].confirmed \/ h.confirmed)
    <3> DEFINE item == r[at]
    <3>1. item \in Host /\ item.ip = h.ip /\ item.mac = h.mac
      BY <2>3, <2>4
    <3>2. new = Joined(item, h)
      OBVIOUS
    <3> HIDE DEF item, new
    <3> QED
      <4>1. new \in Host /\ new.ip = h.ip /\ new.mac = h.mac
            /\ new.confirmed = (item.confirmed \/ h.confirmed)
        BY <3>1, <3>2 DEF Joined, Host
      <4> QED
        BY <4>1 DEF item
  <2> HIDE DEF new
  <2>6. Merging(r, h) \in Seq(Host) /\ Puts(r, Merging(r, h), at, new)
    BY <2>2, <2>3, <2>5, Replaced
  <2> QED
    BY <2>3, <2>5, <2>6
<1> QED
  BY <1>1, <1>2

LEMMA InventoriedWrites ==
    ASSUME NEW r \in Seq(Host), NEW up \in UpHost
    PROVE  /\ Inventoried(r, up) \in Seq(Host)
           /\ \E at, new : /\ Puts(r, Inventoried(r, up), at, new)
                           /\ new.ip = up.ip /\ new.confirmed = TRUE
                           /\ IF at \in DOMAIN r
                              THEN /\ r[at].ip = up.ip
                                   /\ new.mac = IF up.mac = NoMac THEN r[at].mac ELSE up.mac
                              ELSE new.mac = up.mac
<1> DEFINE same == {i \in DOMAIN r : r[i].ip = up.ip}
<1>1. CASE same = {}
  <2> DEFINE new == [ip |-> up.ip, interface |-> NoInterface, mac |-> up.mac, confirmed |-> TRUE]
  <2>1. Inventoried(r, up) = Append(r, new)
    BY <1>1 DEF Inventoried
  <2>2. new \in Host /\ new.ip = up.ip /\ new.confirmed = TRUE /\ new.mac = up.mac
    BY DEF Host, UpHost
  <2> HIDE DEF new
  <2> QED
    BY <2>1, <2>2, Appended
<1>2. CASE same # {}
  <2>1. Max(same) \in same
    <3>1. same \in SUBSET (1 .. Len(r)) /\ Len(r) \in Nat
      OBVIOUS
    <3> HIDE DEF same
    <3> QED
      BY <1>2, <3>1, GreatestOf
  <2> DEFINE at == Max(same)
             new == Confirmed(r[at], up)
  <2>2. Inventoried(r, up) = [r EXCEPT ![at] = new]
    BY <1>2 DEF Inventoried
  <2>3. at \in DOMAIN r /\ r[at].ip = up.ip
    BY <2>1
  <2> HIDE DEF same, at
  <2>4. r[at] \in Host
    BY <2>3
  <2>5. /\ new \in Host /\ new.ip = up.ip /\ new.confirmed = TRUE
        /\ new.mac = IF up.mac = NoMac THEN r[at].mac ELSE up.mac
    BY <2>3, <2>4 DEF Confirmed, Host, UpHost
  <2> HIDE DEF new
  <2>6. Inventoried(r, up) \in Seq(Host) /\ Puts(r, Inventoried(r, up), at, new)
    BY <2>2, <2>3, <2>5, Replaced
  <2> QED
    BY <2>3, <2>5, <2>6
<1> QED
  BY <1>1, <1>2
-----------------------------------------------------------------------------
(* The folds, one prefix of what they are given after another.             *)
LEMMA DedupeChain ==
    ASSUME NEW hosts \in Seq(Host)
    PROVE  \E c : /\ c \in [0 .. Len(hosts) -> Seq(Host)] /\ c[0] = << >>
                  /\ \A k \in 1 .. Len(hosts) : c[k] = Replacing(c[k - 1], hosts[k])
                  /\ Dedupe(hosts) = c[Len(hosts)]
<1> DEFINE n == Len(hosts)
           first == << >>
           step == [p \in Seq(Host) \X Host |-> Replacing(p[1], p[2])]
           Unfolds(f) == f = [s \in SUBSET (1 .. n) |->
                                 IF s = {} THEN first
                                 ELSE Replacing(f[s \ {Max(s)}], hosts[Max(s)])]
<1>1. n \in Nat /\ DOMAIN hosts = 1 .. n /\ hosts \in [1 .. n -> Host] /\ first \in Seq(Host)
  OBVIOUS
<1>2. \A r \in Seq(Host), h \in Host : Replacing(r, h) \in Seq(Host)
  BY ReplacingWrites
<1>3. /\ \A r \in Seq(Host), h \in Host : step[<<r, h>>] = Replacing(r, h)
      /\ step \in [Seq(Host) \X Host -> Seq(Host)]
  BY <1>2
<1>4. Dedupe(hosts) = (CHOOSE f : f = [s \in SUBSET DOMAIN hosts |->
                                           IF s = {} THEN << >>
                                           ELSE Replacing(f[s \ {Max(s)}], hosts[Max(s)])])[DOMAIN hosts]
  BY DEF Dedupe, FoldLeft, MapThenFoldSet
<1> HIDE DEF step, first, n
<1>5. ASSUME NEW f, FoldsTo(f, n, step, first, hosts)
      PROVE  Unfolds(f)
  <2>1. \A s \in SUBSET (1 .. n) : f[s] \in Seq(Host)
    BY <1>1, <1>3, <1>5, FoldStays
  <2>2. \A s \in SUBSET (1 .. n) : s # {} =>
           step[<<f[s \ {Max(s)}], hosts[Max(s)]>>] = Replacing(f[s \ {Max(s)}], hosts[Max(s)])
    <3> TAKE s \in SUBSET (1 .. n)
    <3> HAVE s # {}
    <3>1. Max(s) \in s /\ s \ {Max(s)} \in SUBSET (1 .. n)
      BY <1>1, GreatestOf
    <3> QED
      BY <1>1, <1>3, <2>1, <3>1
  <2> QED
    BY <1>5, <2>2 DEF FoldsTo
<1>6. PICK f : Unfolds(f) /\ Dedupe(hosts) = f[1 .. n]
  <2>1. \E f : Unfolds(f)
    BY <1>1, <1>5, FoldExists
  <2> QED
    BY <1>1, <1>4, <2>1 DEF first
<1> DEFINE c == [k \in 0 .. n |-> f[1 .. k]]
           G == {k \in 0 .. n : c[k] \in Seq(Host)}
<1>7. c[0] = first /\ c[n] = Dedupe(hosts)
  <2>1. 1 .. 0 = {} /\ 1 .. 0 \in SUBSET (1 .. n) /\ 0 \in 0 .. n /\ n \in 0 .. n
    BY <1>1
  <2> QED
    BY <1>6, <2>1
<1>8. ASSUME NEW k \in 1 .. n
      PROVE  c[k] = Replacing(c[k - 1], hosts[k])
  <2>1. /\ 1 .. k \in SUBSET (1 .. n) /\ 1 .. k # {} /\ Max(1 .. k) = k
        /\ (1 .. k) \ {k} = 1 .. (k - 1)
    BY <1>1, Prefix
  <2>2. k \in 0 .. n /\ k - 1 \in 0 .. n
    BY <1>1
  <2>3. f[1 .. k] = Replacing(f[1 .. (k - 1)], hosts[k])
    BY <1>6, <2>1
  <2> QED
    BY <2>2, <2>3
<1>9. c = [k \in 0 .. n |-> c[k]]
  OBVIOUS
<1> HIDE DEF c
<1>10. \A k \in 0 .. n : c[k] \in Seq(Host)
  <2>1. 0 \in G
    BY <1>1, <1>7
  <2>2. ASSUME NEW k \in 1 .. n, k - 1 \in G
        PROVE  k \in G
    <3>1. c[k - 1] \in Seq(Host) /\ hosts[k] \in Host /\ k \in 0 .. n
      BY <1>1, <2>2
    <3>2. c[k] \in Seq(Host)
      BY <1>2, <1>8, <3>1
    <3> QED
      BY <3>1, <3>2
  <2> HIDE DEF G
  <2>3. \A k \in 0 .. n : k \in G
    BY <1>1, <2>1, <2>2, UpTo
  <2> QED
    BY <2>3 DEF G
<1>11. c \in [0 .. n -> Seq(Host)]
  BY <1>9, <1>10
<1> QED
  BY <1>7, <1>8, <1>11 DEF n, first

LEMMA MergeChain ==
    ASSUME NEW hosts \in Seq(Host)
    PROVE  \E c : /\ c \in [0 .. Len(hosts) -> Seq(Host)] /\ c[0] = << >>
                  /\ \A k \in 1 .. Len(hosts) : c[k] = Merging(c[k - 1], hosts[k])
                  /\ Merge(hosts) = c[Len(hosts)]
<1> DEFINE n == Len(hosts)
           first == << >>
           step == [p \in Seq(Host) \X Host |-> Merging(p[1], p[2])]
           Unfolds(f) == f = [s \in SUBSET (1 .. n) |->
                                 IF s = {} THEN first
                                 ELSE Merging(f[s \ {Max(s)}], hosts[Max(s)])]
<1>1. n \in Nat /\ DOMAIN hosts = 1 .. n /\ hosts \in [1 .. n -> Host] /\ first \in Seq(Host)
  OBVIOUS
<1>2. \A r \in Seq(Host), h \in Host : Merging(r, h) \in Seq(Host)
  BY MergingWrites
<1>3. /\ \A r \in Seq(Host), h \in Host : step[<<r, h>>] = Merging(r, h)
      /\ step \in [Seq(Host) \X Host -> Seq(Host)]
  BY <1>2
<1>4. Merge(hosts) = (CHOOSE f : f = [s \in SUBSET DOMAIN hosts |->
                                          IF s = {} THEN << >>
                                          ELSE Merging(f[s \ {Max(s)}], hosts[Max(s)])])[DOMAIN hosts]
  BY DEF Merge, FoldLeft, MapThenFoldSet
<1> HIDE DEF step, first, n
<1>5. ASSUME NEW f, FoldsTo(f, n, step, first, hosts)
      PROVE  Unfolds(f)
  <2>1. \A s \in SUBSET (1 .. n) : f[s] \in Seq(Host)
    BY <1>1, <1>3, <1>5, FoldStays
  <2>2. \A s \in SUBSET (1 .. n) : s # {} =>
           step[<<f[s \ {Max(s)}], hosts[Max(s)]>>] = Merging(f[s \ {Max(s)}], hosts[Max(s)])
    <3> TAKE s \in SUBSET (1 .. n)
    <3> HAVE s # {}
    <3>1. Max(s) \in s /\ s \ {Max(s)} \in SUBSET (1 .. n)
      BY <1>1, GreatestOf
    <3> QED
      BY <1>1, <1>3, <2>1, <3>1
  <2> QED
    BY <1>5, <2>2 DEF FoldsTo
<1>6. PICK f : Unfolds(f) /\ Merge(hosts) = f[1 .. n]
  <2>1. \E f : Unfolds(f)
    BY <1>1, <1>5, FoldExists
  <2> QED
    BY <1>1, <1>4, <2>1 DEF first
<1> DEFINE c == [k \in 0 .. n |-> f[1 .. k]]
           G == {k \in 0 .. n : c[k] \in Seq(Host)}
<1>7. c[0] = first /\ c[n] = Merge(hosts)
  <2>1. 1 .. 0 = {} /\ 1 .. 0 \in SUBSET (1 .. n) /\ 0 \in 0 .. n /\ n \in 0 .. n
    BY <1>1
  <2> QED
    BY <1>6, <2>1
<1>8. ASSUME NEW k \in 1 .. n
      PROVE  c[k] = Merging(c[k - 1], hosts[k])
  <2>1. /\ 1 .. k \in SUBSET (1 .. n) /\ 1 .. k # {} /\ Max(1 .. k) = k
        /\ (1 .. k) \ {k} = 1 .. (k - 1)
    BY <1>1, Prefix
  <2>2. k \in 0 .. n /\ k - 1 \in 0 .. n
    BY <1>1
  <2>3. f[1 .. k] = Merging(f[1 .. (k - 1)], hosts[k])
    BY <1>6, <2>1
  <2> QED
    BY <2>2, <2>3
<1>9. c = [k \in 0 .. n |-> c[k]]
  OBVIOUS
<1> HIDE DEF c
<1>10. \A k \in 0 .. n : c[k] \in Seq(Host)
  <2>1. 0 \in G
    BY <1>1, <1>7
  <2>2. ASSUME NEW k \in 1 .. n, k - 1 \in G
        PROVE  k \in G
    <3>1. c[k - 1] \in Seq(Host) /\ hosts[k] \in Host /\ k \in 0 .. n
      BY <1>1, <2>2
    <3>2. c[k] \in Seq(Host)
      BY <1>2, <1>8, <3>1
    <3> QED
      BY <3>1, <3>2
  <2> HIDE DEF G
  <2>3. \A k \in 0 .. n : k \in G
    BY <1>1, <2>1, <2>2, UpTo
  <2> QED
    BY <2>3 DEF G
<1>11. c \in [0 .. n -> Seq(Host)]
  BY <1>9, <1>10
<1> QED
  BY <1>7, <1>8, <1>11 DEF n, first

LEMMA OverlayChain ==
    ASSUME NEW hosts \in Seq(Host), NEW found \in Seq(UpHost)
    PROVE  \E c : /\ c \in [0 .. Len(found) -> Seq(Host)] /\ c[0] = hosts
                  /\ \A k \in 1 .. Len(found) : c[k] = Inventoried(c[k - 1], found[k])
                  /\ Overlay(hosts, found) = c[Len(found)]
<1> DEFINE n == Len(found)
           first == hosts
           step == [p \in Seq(Host) \X UpHost |-> Inventoried(p[1], p[2])]
           Unfolds(f) == f = [s \in SUBSET (1 .. n) |->
                                 IF s = {} THEN first
                                 ELSE Inventoried(f[s \ {Max(s)}], found[Max(s)])]
<1>1. n \in Nat /\ DOMAIN found = 1 .. n /\ found \in [1 .. n -> UpHost] /\ first \in Seq(Host)
  OBVIOUS
<1>2. \A r \in Seq(Host), h \in UpHost : Inventoried(r, h) \in Seq(Host)
  BY InventoriedWrites
<1>3. /\ \A r \in Seq(Host), h \in UpHost : step[<<r, h>>] = Inventoried(r, h)
      /\ step \in [Seq(Host) \X UpHost -> Seq(Host)]
  BY <1>2
<1>4. Overlay(hosts, found) = (CHOOSE f : f = [s \in SUBSET DOMAIN found |->
                                                   IF s = {} THEN hosts
                                                   ELSE Inventoried(f[s \ {Max(s)}], found[Max(s)])])[DOMAIN found]
  BY DEF Overlay, FoldLeft, MapThenFoldSet
<1> HIDE DEF step, first, n
<1>5. ASSUME NEW f, FoldsTo(f, n, step, first, found)
      PROVE  Unfolds(f)
  <2>1. \A s \in SUBSET (1 .. n) : f[s] \in Seq(Host)
    BY <1>1, <1>3, <1>5, FoldStays
  <2>2. \A s \in SUBSET (1 .. n) : s # {} =>
           step[<<f[s \ {Max(s)}], found[Max(s)]>>] = Inventoried(f[s \ {Max(s)}], found[Max(s)])
    <3> TAKE s \in SUBSET (1 .. n)
    <3> HAVE s # {}
    <3>1. Max(s) \in s /\ s \ {Max(s)} \in SUBSET (1 .. n)
      BY <1>1, GreatestOf
    <3> QED
      BY <1>1, <1>3, <2>1, <3>1
  <2> QED
    BY <1>5, <2>2 DEF FoldsTo
<1>6. PICK f : Unfolds(f) /\ Overlay(hosts, found) = f[1 .. n]
  <2>1. \E f : Unfolds(f)
    BY <1>1, <1>5, FoldExists
  <2> QED
    BY <1>1, <1>4, <2>1 DEF first
<1> DEFINE c == [k \in 0 .. n |-> f[1 .. k]]
           G == {k \in 0 .. n : c[k] \in Seq(Host)}
<1>7. c[0] = first /\ c[n] = Overlay(hosts, found)
  <2>1. 1 .. 0 = {} /\ 1 .. 0 \in SUBSET (1 .. n) /\ 0 \in 0 .. n /\ n \in 0 .. n
    BY <1>1
  <2> QED
    BY <1>6, <2>1
<1>8. ASSUME NEW k \in 1 .. n
      PROVE  c[k] = Inventoried(c[k - 1], found[k])
  <2>1. /\ 1 .. k \in SUBSET (1 .. n) /\ 1 .. k # {} /\ Max(1 .. k) = k
        /\ (1 .. k) \ {k} = 1 .. (k - 1)
    BY <1>1, Prefix
  <2>2. k \in 0 .. n /\ k - 1 \in 0 .. n
    BY <1>1
  <2>3. f[1 .. k] = Inventoried(f[1 .. (k - 1)], found[k])
    BY <1>6, <2>1
  <2> QED
    BY <2>2, <2>3
<1>9. c = [k \in 0 .. n |-> c[k]]
  OBVIOUS
<1> HIDE DEF c
<1>10. \A k \in 0 .. n : c[k] \in Seq(Host)
  <2>1. 0 \in G
    BY <1>1, <1>7
  <2>2. ASSUME NEW k \in 1 .. n, k - 1 \in G
        PROVE  k \in G
    <3>1. c[k - 1] \in Seq(Host) /\ found[k] \in UpHost /\ k \in 0 .. n
      BY <1>1, <2>2
    <3>2. c[k] \in Seq(Host)
      BY <1>2, <1>8, <3>1
    <3> QED
      BY <3>1, <3>2
  <2> HIDE DEF G
  <2>3. \A k \in 0 .. n : k \in G
    BY <1>1, <2>1, <2>2, UpTo
  <2> QED
    BY <2>3 DEF G
<1>11. c \in [0 .. n -> Seq(Host)]
  BY <1>9, <1>10
<1> QED
  BY <1>7, <1>8, <1>11 DEF n, first

-----------------------------------------------------------------------------
(* A report names a card under an address, as present if need be.          *)
Names(hosts, ip, mac, fresh) ==
    \E i \in DOMAIN hosts : hosts[i].ip = ip /\ hosts[i].mac = mac /\ (fresh => hosts[i].confirmed)

(* _dedupe makes up no host and leaves out no path.                        *)
LEMMA DedupeKeeps ==
    ASSUME NEW hosts \in Seq(Host)
    PROVE  /\ Dedupe(hosts) \in Seq(Host)
           /\ \A i \in DOMAIN Dedupe(hosts) : \E j \in DOMAIN hosts : Dedupe(hosts)[i] = hosts[j]
           /\ \A j \in DOMAIN hosts : \E i \in DOMAIN Dedupe(hosts) :
                 /\ Dedupe(hosts)[i].ip = hosts[j].ip
                 /\ Dedupe(hosts)[i].interface = hosts[j].interface
<1> DEFINE n == Len(hosts)
<1>1. PICK c : /\ c \in [0 .. n -> Seq(Host)] /\ c[0] = << >>
               /\ \A k \in 1 .. n : c[k] = Replacing(c[k - 1], hosts[k])
               /\ Dedupe(hosts) = c[n]
  BY DedupeChain
<1>2. n \in Nat /\ DOMAIN hosts = 1 .. n /\ \A k \in 1 .. n : hosts[k] \in Host
  OBVIOUS
<1> HIDE DEF n
<1> DEFINE Sound(k) == \A i \in DOMAIN c[k] : \E j \in 1 .. k : c[k][i] = hosts[j]
           Full(k) == \A j \in 1 .. k : \E i \in DOMAIN c[k] :
                         c[k][i].ip = hosts[j].ip /\ c[k][i].interface = hosts[j].interface
           G == {k \in 0 .. n : Sound(k) /\ Full(k)}
<1>3. 0 \in G
  <2>1. DOMAIN c[0] = {} /\ 0 \in 0 .. n /\ 1 .. 0 = {}
    BY <1>1, <1>2
  <2>2. Sound(0) /\ Full(0)
    BY <2>1
  <2> QED
    BY <2>1, <2>2
<1>4. ASSUME NEW k \in 1 .. n, k - 1 \in G
      PROVE  k \in G
  <2>1. k \in 0 .. n /\ c[k - 1] \in Seq(Host) /\ hosts[k] \in Host
    BY <1>1, <1>2, <1>4
  <2> DEFINE r == c[k - 1]
             new == c[k]
             h == hosts[k]
  <2>2. r \in Seq(Host) /\ h \in Host /\ new = Replacing(r, h)
    BY <1>1, <2>1
  <2>3. Sound(k - 1) /\ Full(k - 1)
    BY <1>4
  <2>4. /\ \A i \in DOMAIN r : \E j \in 1 .. k - 1 : r[i] = hosts[j]
        /\ \A j \in 1 .. k - 1 : \E i \in DOMAIN r :
              r[i].ip = hosts[j].ip /\ r[i].interface = hosts[j].interface
    BY <2>3
  <2>0. h = hosts[k]
    OBVIOUS
  <2> HIDE DEF r, new, h
  <2>5. PICK at : /\ Puts(r, new, at, h)
                  /\ at \in DOMAIN r => r[at].ip = h.ip /\ r[at].interface = h.interface
    BY <2>2, ReplacingWrites
  <2>6. ASSUME NEW i \in DOMAIN new
        PROVE  \E j \in 1 .. k : new[i] = hosts[j]
    <3>1. CASE i = at
      BY <2>1, <2>5, <2>0, <3>1, <1>2 DEF Puts
    <3>2. CASE i # at
      BY <2>4, <2>5, <3>2, <1>2 DEF Puts
    <3> QED
      BY <3>1, <3>2
  <2>7. ASSUME NEW j \in 1 .. k
        PROVE  \E i \in DOMAIN new : new[i].ip = hosts[j].ip /\ new[i].interface = hosts[j].interface
    <3>1. CASE j = k
      BY <2>5, <2>0, <3>1 DEF Puts
    <3>2. CASE j # k
      <4>1. PICK i \in DOMAIN r : r[i].ip = hosts[j].ip /\ r[i].interface = hosts[j].interface
        BY <2>4, <3>2, <1>2
      <4> QED
        BY <2>5, <4>1 DEF Puts
    <3> QED
      BY <3>1, <3>2
  <2>8. Sound(k) /\ Full(k)
    BY <2>6, <2>7 DEF new
  <2> QED
    BY <2>1, <2>8
<1>5. n \in G
  <2>1. n \in 0 .. n
    BY <1>2
  <2> HIDE DEF G
  <2> QED
    BY <1>2, <1>3, <1>4, <2>1, UpTo
<1>6. n \in 0 .. n /\ c[n] \in Seq(Host)
  BY <1>1, <1>2
<1>7. Sound(n) /\ Full(n)
  BY <1>5
<1>8. \A i \in DOMAIN c[n] : \E j \in DOMAIN hosts : c[n][i] = hosts[j]
  BY <1>2, <1>7
<1>9. \A j \in DOMAIN hosts : \E i \in DOMAIN c[n] :
         c[n][i].ip = hosts[j].ip /\ c[n][i].interface = hosts[j].interface
  BY <1>2, <1>7
<1> HIDE DEF Sound, Full, G
<1> QED
  BY <1>1, <1>6, <1>8, <1>9

(* _merge_discovery forgets no card that claims an address and confirms    *)
(* none that no host confirms.                                             *)
LEMMA MergeKeeps ==
    ASSUME NEW hosts \in Seq(Host)
    PROVE  /\ Merge(hosts) \in Seq(Host)
           /\ \A i \in DOMAIN Merge(hosts) : Merge(hosts)[i].confirmed =>
                 Names(hosts, Merge(hosts)[i].ip, Merge(hosts)[i].mac, TRUE)
           /\ \A j \in DOMAIN hosts :
                 Names(Merge(hosts), hosts[j].ip, hosts[j].mac, hosts[j].confirmed)
<1> DEFINE n == Len(hosts)
<1>1. PICK c : /\ c \in [0 .. n -> Seq(Host)] /\ c[0] = << >>
               /\ \A k \in 1 .. n : c[k] = Merging(c[k - 1], hosts[k])
               /\ Merge(hosts) = c[n]
  BY MergeChain
<1>2. n \in Nat /\ DOMAIN hosts = 1 .. n /\ \A k \in 1 .. n : hosts[k] \in Host
  OBVIOUS
<1> HIDE DEF n
<1> DEFINE Sound(k) == \A i \in DOMAIN c[k] : c[k][i].confirmed =>
                          Names(hosts, c[k][i].ip, c[k][i].mac, TRUE)
           Full(k) == \A j \in 1 .. k : Names(c[k], hosts[j].ip, hosts[j].mac, hosts[j].confirmed)
           G == {k \in 0 .. n : Sound(k) /\ Full(k)}
<1>3. 0 \in G
  <2>1. DOMAIN c[0] = {} /\ 0 \in 0 .. n /\ 1 .. 0 = {}
    BY <1>1, <1>2
  <2>2. Sound(0) /\ Full(0)
    BY <2>1
  <2> QED
    BY <2>1, <2>2
<1>4. ASSUME NEW k \in 1 .. n, k - 1 \in G
      PROVE  k \in G
  <2>1. k \in 0 .. n /\ c[k - 1] \in Seq(Host) /\ hosts[k] \in Host
    BY <1>1, <1>2, <1>4
  <2> DEFINE r == c[k - 1]
             m == c[k]
             h == hosts[k]
  <2>2. r \in Seq(Host) /\ h \in Host /\ m = Merging(r, h)
    BY <1>1, <2>1
  <2>3. Sound(k - 1) /\ Full(k - 1)
    BY <1>4
  <2>4. /\ \A i \in DOMAIN r : r[i].confirmed => Names(hosts, r[i].ip, r[i].mac, TRUE)
        /\ \A j \in 1 .. k - 1 : Names(r, hosts[j].ip, hosts[j].mac, hosts[j].confirmed)
    BY <2>3
  <2>0. h = hosts[k]
    OBVIOUS
  <2> HIDE DEF r, m, h
  <2>5. PICK at, new : /\ Puts(r, m, at, new)
                       /\ new.ip = h.ip /\ new.mac = h.mac
                       /\ IF at \in DOMAIN r
                          THEN /\ r[at].ip = h.ip /\ r[at].mac = h.mac
                               /\ new.confirmed = (r[at].confirmed \/ h.confirmed)
                          ELSE new.confirmed = h.confirmed
    BY <2>2, MergingWrites
  <2>6. ASSUME NEW i \in DOMAIN m, m[i].confirmed
        PROVE  Names(hosts, m[i].ip, m[i].mac, TRUE)
    <3>1. CASE i # at
      BY <2>4, <2>5, <2>6, <3>1 DEF Puts
    <3>2. CASE i = at /\ h.confirmed
      BY <2>5, <2>0, <3>2, <1>2 DEF Puts, Names
    <3>3. CASE i = at /\ ~h.confirmed
      <4>1. at \in DOMAIN r /\ r[at].confirmed /\ m[i].ip = r[at].ip /\ m[i].mac = r[at].mac
        BY <2>5, <2>6, <3>3 DEF Puts
      <4> QED
        BY <2>4, <4>1
    <3> QED
      BY <3>1, <3>2, <3>3
  <2>7. ASSUME NEW j \in 1 .. k
        PROVE  Names(m, hosts[j].ip, hosts[j].mac, hosts[j].confirmed)
    <3>1. CASE j = k
      <4>1. at \in DOMAIN m /\ m[at].ip = h.ip /\ m[at].mac = h.mac
        BY <2>5 DEF Puts
      <4>2. h.confirmed => m[at].confirmed
        BY <2>5 DEF Puts
      <4> QED
        BY <2>0, <3>1, <4>1, <4>2 DEF Names
    <3>2. CASE j # k
      <4>1. PICK i \in DOMAIN r : /\ r[i].ip = hosts[j].ip /\ r[i].mac = hosts[j].mac
                                  /\ hosts[j].confirmed => r[i].confirmed
        BY <2>4, <3>2, <1>2 DEF Names
      <4>2. /\ i \in DOMAIN m /\ m[i].ip = r[i].ip /\ m[i].mac = r[i].mac
            /\ r[i].confirmed => m[i].confirmed
        BY <2>5 DEF Puts
      <4> QED
        BY <4>1, <4>2 DEF Names
    <3> QED
      BY <3>1, <3>2
  <2>8. Sound(k) /\ Full(k)
    BY <2>6, <2>7 DEF m
  <2> QED
    BY <2>1, <2>8
<1>5. n \in G
  <2>1. n \in 0 .. n
    BY <1>2
  <2> HIDE DEF G
  <2> QED
    BY <1>2, <1>3, <1>4, <2>1, UpTo
<1>6. n \in 0 .. n /\ c[n] \in Seq(Host)
  BY <1>1, <1>2
<1>7. Sound(n) /\ Full(n)
  BY <1>5
<1> QED
  BY <1>1, <1>2, <1>6, <1>7

(* An inventory says of an address that it belongs to another card.        *)
Corrects(found, ip, mac) ==
    \E j \in DOMAIN found : found[j].ip = ip /\ found[j].mac \notin {mac, NoMac}

(* _apply_deep_scan forgets no card but one that the inventory corrects,   *)
(* names every card of the inventory, and confirms only what was confirmed *)
(* or is up.                                                               *)
LEMMA OverlayKeeps ==
    ASSUME NEW hosts \in Seq(Host), NEW found \in Seq(UpHost)
    PROVE  /\ Overlay(hosts, found) \in Seq(Host)
           /\ \A i \in DOMAIN Overlay(hosts, found) : Overlay(hosts, found)[i].confirmed =>
                 \/ Names(hosts, Overlay(hosts, found)[i].ip, Overlay(hosts, found)[i].mac, TRUE)
                 \/ \E j \in DOMAIN found :
                       /\ found[j].ip = Overlay(hosts, found)[i].ip
                       /\ found[j].mac \in {Overlay(hosts, found)[i].mac, NoMac}
           /\ \A ip, mac, fresh : Names(hosts, ip, mac, fresh) =>
                 Names(Overlay(hosts, found), ip, mac, fresh) \/ Corrects(found, ip, mac)
           /\ \A j \in DOMAIN found : found[j].mac # NoMac =>
                 \/ Names(Overlay(hosts, found), found[j].ip, found[j].mac, TRUE)
                 \/ Corrects(found, found[j].ip, found[j].mac)
<1> DEFINE n == Len(found)
<1>1. PICK c : /\ c \in [0 .. n -> Seq(Host)] /\ c[0] = hosts
               /\ \A k \in 1 .. n : c[k] = Inventoried(c[k - 1], found[k])
               /\ Overlay(hosts, found) = c[n]
  BY OverlayChain
<1>2. n \in Nat /\ DOMAIN found = 1 .. n /\ \A k \in 1 .. n : found[k] \in UpHost
  OBVIOUS
<1> HIDE DEF n
<1> DEFINE IsUp(h) == \E j \in DOMAIN found : found[j].ip = h.ip /\ found[j].mac \in {h.mac, NoMac}
           Sound(r) == \A i \in DOMAIN r : r[i].confirmed => Names(hosts, r[i].ip, r[i].mac, TRUE) \/ IsUp(r[i])
           Full(r) == \A ip, mac, fresh : Names(hosts, ip, mac, fresh) =>
                         Names(r, ip, mac, fresh) \/ Corrects(found, ip, mac)
           Told(k, r) == \A j \in 1 .. k : found[j].mac # NoMac =>
                            \/ Names(r, found[j].ip, found[j].mac, TRUE)
                            \/ Corrects(found, found[j].ip, found[j].mac)
           G == {k \in 0 .. n : Sound(c[k]) /\ Full(c[k]) /\ Told(k, c[k])}
<1>3. 0 \in G
  <2>1. 0 \in 0 .. n /\ 1 .. 0 = {}
    BY <1>2
  <2>2. Sound(hosts)
    BY DEF Names
  <2>3. Full(hosts) /\ Told(0, hosts)
    BY <2>1
  <2> QED
    BY <1>1, <2>1, <2>2, <2>3
<1>4. ASSUME NEW k \in 1 .. n, k - 1 \in G
      PROVE  k \in G
  <2> DEFINE r == c[k - 1]
             m == c[k]
             up == found[k]
  <2>1. k \in 0 .. n /\ r \in Seq(Host) /\ up \in UpHost /\ m = Inventoried(r, up)
    BY <1>1, <1>2, <1>4
  <2>2. Sound(r) /\ Full(r) /\ Told(k - 1, r)
    BY <1>4
  <2>3. up = found[k]
    OBVIOUS
  <2> HIDE DEF r, m, up
  <2>4. PICK at, new : /\ Puts(r, m, at, new)
                       /\ new.ip = up.ip /\ new.confirmed = TRUE
                       /\ IF at \in DOMAIN r
                          THEN /\ r[at].ip = up.ip
                               /\ new.mac = IF up.mac = NoMac THEN r[at].mac ELSE up.mac
                          ELSE new.mac = up.mac
    <3>1. \E at, new : /\ Puts(r, Inventoried(r, up), at, new)
                       /\ new.ip = up.ip /\ new.confirmed = TRUE
                       /\ IF at \in DOMAIN r
                          THEN /\ r[at].ip = up.ip
                               /\ new.mac = IF up.mac = NoMac THEN r[at].mac ELSE up.mac
                          ELSE new.mac = up.mac
      <4>1. r \in Seq(Host) /\ up \in UpHost
        BY <2>1
      <4> QED
        BY <4>1, InventoriedWrites
    <3> QED
      BY <2>1, <3>1
  <2>5. /\ at \in DOMAIN m /\ m[at].ip = up.ip /\ m[at].confirmed
        /\ up.mac # NoMac => m[at].mac = up.mac
        /\ \A i \in DOMAIN r : i # at => i \in DOMAIN m /\ m[i] = r[i]
        /\ \A i \in DOMAIN m : i # at => i \in DOMAIN r
    BY <2>4 DEF Puts
  <2>6. Sound(m)
    <3>1. SUFFICES ASSUME NEW i \in DOMAIN m, m[i].confirmed
                   PROVE  Names(hosts, m[i].ip, m[i].mac, TRUE) \/ IsUp(m[i])
      OBVIOUS
    <3>2. CASE i # at
      BY <2>2, <2>5, <3>1, <3>2
    <3>3. CASE i = at
      <4>1. up.mac \in {m[at].mac, NoMac} /\ up.ip = m[at].ip
        BY <2>5
      <4>2. k \in DOMAIN found /\ found[k].ip = m[at].ip /\ found[k].mac \in {m[at].mac, NoMac}
        BY <1>2, <2>3, <4>1
      <4> QED
        BY <3>3, <4>2
    <3> QED
      BY <3>2, <3>3
(* A card the report named is named still, unless up corrects it.          *)
  <2>7. ASSUME NEW ip, NEW mac, NEW fresh, Names(r, ip, mac, fresh)
        PROVE  Names(m, ip, mac, fresh) \/ Corrects(found, ip, mac)
    <3>1. PICK i \in DOMAIN r : r[i].ip = ip /\ r[i].mac = mac /\ (fresh => r[i].confirmed)
      BY <2>7 DEF Names
    <3>2. CASE i # at
      <4>1. i \in DOMAIN m /\ m[i].ip = ip /\ m[i].mac = mac /\ (fresh => m[i].confirmed)
        BY <2>5, <3>1, <3>2
      <4> QED
        BY <4>1 DEF Names
    <3>3. CASE i = at /\ up.mac \in {mac, NoMac}
      <4>1. m[at].mac = mac /\ m[at].ip = ip
        BY <2>4, <3>1, <3>3 DEF Puts
      <4> QED
        BY <2>5, <4>1 DEF Names
    <3>4. CASE i = at /\ up.mac \notin {mac, NoMac}
      <4>1. k \in DOMAIN found /\ found[k].ip = ip /\ found[k].mac \notin {mac, NoMac}
        BY <1>2, <2>3, <2>4, <3>1, <3>4
      <4> QED
        BY <4>1 DEF Corrects
    <3> QED
      BY <3>2, <3>3, <3>4
  <2>8. Full(m)
    BY <2>2, <2>7
  <2>9. ASSUME NEW j \in 1 .. k, found[j].mac # NoMac
        PROVE  \/ Names(m, found[j].ip, found[j].mac, TRUE)
               \/ Corrects(found, found[j].ip, found[j].mac)
    <3>1. CASE j = k
      <4>1. m[at].ip = found[j].ip /\ m[at].mac = found[j].mac
        BY <2>3, <2>5, <2>9, <3>1
      <4> QED
        BY <2>5, <4>1 DEF Names
    <3>2. CASE j # k
      <4>1. j \in 1 .. (k - 1)
        BY <1>2, <3>2
      <4> QED
        BY <2>2, <2>7, <2>9, <4>1
    <3> QED
      BY <3>1, <3>2
  <2> HIDE DEF Sound, Full
  <2>10. Sound(m) /\ Full(m) /\ Told(k, m)
    BY <2>6, <2>8, <2>9
  <2> QED
    BY <2>1, <2>10 DEF m
<1>5. n \in G
  <2>1. n \in 0 .. n
    BY <1>2
  <2> HIDE DEF G
  <2> QED
    BY <1>2, <1>3, <1>4, <2>1, UpTo
<1>6. c[n] \in Seq(Host)
  BY <1>1, <1>2
<1>7. Sound(c[n]) /\ Full(c[n]) /\ Told(n, c[n])
  BY <1>5
<1>8. \A i \in DOMAIN c[n] : c[n][i].confirmed =>
         \/ Names(hosts, c[n][i].ip, c[n][i].mac, TRUE)
         \/ \E j \in DOMAIN found : found[j].ip = c[n][i].ip /\ found[j].mac \in {c[n][i].mac, NoMac}
  BY <1>7
<1>9. \A ip, mac, fresh : Names(hosts, ip, mac, fresh) =>
         Names(c[n], ip, mac, fresh) \/ Corrects(found, ip, mac)
  BY <1>7
<1>10. \A j \in DOMAIN found : found[j].mac # NoMac =>
          Names(c[n], found[j].ip, found[j].mac, TRUE) \/ Corrects(found, found[j].ip, found[j].mac)
  BY <1>2, <1>7
<1> HIDE DEF Sound, Full, Told, G
<1> QED
  BY <1>1, <1>6, <1>8, <1>9, <1>10
=============================================================================
