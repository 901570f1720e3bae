-------------------------- MODULE PolicyStoreProofs --------------------------
(***************************************************************************)
(* Proofs about PolicyStore, for any devices and names and any number of   *)
(* requests to the pages, with every overlap of their sessions.            *)
(***************************************************************************)
EXTENDS PolicyStore, WellFoundedInduction, TLAPS

(* A set of numbers with an upper bound has a largest element.             *)
LEMMA MaxOfBounded ==
    ASSUME NEW n \in Nat, NEW S \in SUBSET (0 .. n), S # {}
    PROVE  Max(S) \in 0 .. n /\ \A y \in S : Max(S) >= y
<1> DEFINE T == {k \in Nat : k <= n /\ n - k \in S}
<1>1. \E k \in T : \A j \in T : ~ (<<j, k>> \in OpToRel(<, Nat))
  <2>1. T # {} /\ T \subseteq Nat
    <3>1. PICK s \in S : TRUE
      OBVIOUS
    <3>2. n - s \in T
      BY <3>1
    <3> QED
      BY <3>2
  <2> HIDE DEF T
  <2> QED
    BY <2>1, WFMin, NatLessThanWellFounded
<1>2. \E m \in S : \A y \in S : m >= y
  <2>1. PICK k \in T : \A j \in T : ~ (<<j, k>> \in OpToRel(<, Nat))
    BY <1>1
  <2>2. \A j \in T : ~ (j < k)
    BY <2>1 DEF OpToRel
  <2>3. \A y \in S : n - k >= y
    <3> TAKE y \in S
    <3>1. n - y \in T
      OBVIOUS
    <3> QED
      BY <3>1, <2>2
  <2> QED
    BY <2>3
<1> QED
  BY <1>2 DEF Max

(* SQLite's choice of an id for a new row: it is not in use, and at most   *)
(* one more than any that is.                                              *)
LEMMA NextIdIsNew ==
    ASSUME NEW n \in Nat, NEW S \in SUBSET (1 .. n)
    PROVE  NextId(S) \in 1 .. n + 1 /\ NextId(S) \notin S
<1>1. Max({0} \cup S) \in 0 .. n /\ \A y \in {0} \cup S : Max({0} \cup S) >= y
  BY MaxOfBounded
<1> QED
  BY <1>1 DEF NextId

(* A request that waits for its session: ids of a new profile it may take. *)
Pending == job.stage \in {"begin", "write"} /\ job.req.op = "save" /\ job.req.id = 0
Ids == 1 .. clicks + (IF Pending THEN 1 ELSE 2)
Keys == {"profile", "device"} \X (1 .. edits + (IF editing = Nothing THEN 1 ELSE 0))

Row == [owner : Owner, enabled : BOOLEAN]

(* The tables refer to each other's rows, and ids are as many as requests. *)
Linked ==
    /\ devices \subseteq Device
    /\ DOMAIN profile \subseteq Ids /\ Range(profile) \subseteq Name
    /\ IsInjective(profile)
    /\ DOMAIN assigned \subseteq devices /\ Range(assigned) \subseteq DOMAIN profile
    /\ DOMAIN rule \subseteq Keys
    /\ \A k \in DOMAIN rule :
          rule[k] \in Row /\ rule[k].owner[1] = k[1] /\ Exists(rule[k].owner)

(* Requests are of their kind wherever they are kept, and all but those    *)
(* that save were confirmed before they became a job.                      *)
AnyRequest == Requests(ProfileId, Device)
OfKind(req) ==
    \/ req.op = "save" /\ req.id \in {0} \cup ProfileId /\ req.name \in Name
    \/ req.op \in {"assign", "unassign"} /\ req.id \in ProfileId /\ req.device \in Device
    \/ req.op = "delete" /\ req.id \in ProfileId
Well(seen) ==
    /\ seen.profiles \subseteq ProfileId /\ seen.devices \subseteq Device
    /\ Range(seen.assigned) \subseteq ProfileId
Formed ==
    /\ clicks \in 0 .. Clicks /\ edits \in 0 .. Edits
    /\ unsure \in BOOLEAN
    /\ DOMAIN job = {"stage", "req"}
    /\ job.stage \in {"free", "load", "loaded", "begin", "write", "saved", "failed"}
    /\ Well(shown)
    /\ job.stage = "loaded" => Well(job.req)
    /\ dialog # Nothing => dialog \in AnyRequest /\ (dialog.op = "save" => dialog.id # 0)
    /\ job.stage \in {"begin", "write"} =>
          OfKind(job.req) /\ (job.req.op # "save" => job.req.confirmed)
    /\ editing # Nothing => editing \in RuleRequests
    /\ removal # Nothing => removal.device \in Device

(* What a session of the profiles page has checked is still so when it     *)
(* writes, unless the commit checks it again: nobody else assigns or       *)
(* deletes profiles.                                                       *)
StillSo ==
    job.stage = "write" =>
        /\ job.req.op = "assign" =>
              /\ job.req.id \in DOMAIN profile
              /\ job.req.device \in DOMAIN assigned => assigned[job.req.device] = job.req.id
        /\ job.req.op = "unassign" /\ job.req.device \in DOMAIN assigned =>
              assigned[job.req.device] = job.req.id

Inductive == Linked /\ Formed /\ StillSo

(* The tables are linked and the page loads when it is built.              *)
LEMMA InductiveInit == Init => Inductive
<1> SUFFICES ASSUME Init PROVE Inductive
  OBVIOUS
<1>1. Formed /\ StillSo
  <2>1. Well(shown)
    <3>1. shown.profiles = {} /\ shown.devices = {} /\ shown.assigned = << >>
      BY DEF Init
    <3>2. Range(<< >>) = {}
      BY DEF Range
    <3> QED
      BY <3>1, <3>2 DEF Well
  <2>2. job.stage = "load" /\ DOMAIN job = {"stage", "req"} /\ dialog = Nothing /\ editing = Nothing /\ removal = Nothing
    BY DEF Init, Load
  <2>3. clicks = 0 /\ edits = 0 /\ unsure = FALSE
    BY DEF Init
  <2>4. clicks \in 0 .. Clicks /\ edits \in 0 .. Edits
    BY <2>3, PolicyStoreAssumption
  <2> QED
    BY <2>1, <2>2, <2>3, <2>4 DEF Formed, StillSo
<1>2. Ids = 1 .. 2 /\ Keys = {"profile", "device"} \X (1 .. 1)
  BY DEF Init, Ids, Keys, Pending, Load
<1>3. DOMAIN profile \subseteq 1 .. 2 /\ Range(profile) \subseteq Name /\ IsInjective(profile)
  BY DEF Init, Range
<1>4. DOMAIN assigned \subseteq devices /\ Range(assigned) \subseteq DOMAIN profile
  BY DEF Init, Range
<1>5. PICK owner \in {o \in Owner : Exists(o)} :
         rule = [k \in {<<owner[1], 1>>} |-> [owner |-> owner, enabled |-> TRUE]]
  BY DEF Init
<1>6. DOMAIN rule \subseteq {"profile", "device"} \X (1 .. 1)
  BY <1>5 DEF Owner
<1>7. \A k \in DOMAIN rule :
          rule[k] \in Row /\ rule[k].owner[1] = k[1] /\ Exists(rule[k].owner)
  BY <1>5 DEF Row
<1> QED
  BY <1>1, <1>2, <1>3, <1>4, <1>6, <1>7 DEF Inductive, Linked, Init
-----------------------------------------------------------------------------

(* The owner of a rule is a profile or a device.                           *)
LEMMA OwnersArePairs ==
    ASSUME NEW owner \in Owner
    PROVE  owner = <<owner[1], owner[2]>> /\ owner[1] \in {"profile", "device"}
BY DEF Owner

(* A step that writes no table and frees no id.                            *)
LEMMA SameTables ==
    ASSUME Linked, UNCHANGED store, Ids \subseteq Ids', Keys \subseteq Keys'
    PROVE  Linked'
BY DEF Linked, store, Exists, Range, IsInjective

(* What the other pages' sessions write leaves the tables linked.          *)
LEMMA RuleWrites ==
    ASSUME Linked, NEW req \in RuleRequests, edits \in Nat, editing # Nothing, editing' = Nothing,
           Accepted(req), Apply(req),
           UNCHANGED <<devices, edits, clicks, job>>
    PROVE  Linked' /\ UNCHANGED <<profile, assigned>>
<1>0. req.op \in {"create rule", "change rule", "delete rule"}
  BY DEF RuleRequests
<1>a. Ids' = Ids
  BY DEF Ids, Pending
<1>b. Keys = {"profile", "device"} \X (1 .. edits)
  BY DEF Keys
<1>c. Keys' = {"profile", "device"} \X (1 .. edits + 1)
  BY DEF Keys
<1>1. Keys \subseteq Keys'
  BY <1>b, <1>c
<1>2. CASE req.op = "create rule" /\ CreateRule(req)
  <2> DEFINE used == {k[2] : k \in {j \in DOMAIN rule : j[1] = req.owner[1]}}
             key == <<req.owner[1], NextId(used)>>
             row == [owner |-> req.owner, enabled |-> TRUE]
  <2>1. req.owner \in Owner /\ Exists(req.owner)
    BY <1>2 DEF Accepted, RuleRequests
  <2>2. used \subseteq 1 .. edits
    BY <1>b DEF Linked
  <2>3. NextId(used) \in 1 .. edits + 1
    BY <2>2, NextIdIsNew
  <2>4. key \in Keys' /\ key[1] = req.owner[1]
    BY <1>c, <2>1, <2>3 DEF Owner
  <2>5. rule' = With(rule, key, row) /\ UNCHANGED <<profile, assigned>>
    BY <1>2 DEF CreateRule
  <2>6. row.owner = req.owner /\ row \in Row
    BY <2>1 DEF Row
  <2> HIDE DEF used, key, row
  <2>7. \A k \in DOMAIN rule' :
           \/ k = key /\ rule'[k] = row
           \/ k \in DOMAIN rule /\ rule'[k] = rule[k]
    BY <2>5 DEF With
  <2>8. DOMAIN rule \subseteq Keys'
    BY <1>1 DEF Linked
  <2>9. DOMAIN rule' \subseteq Keys'
    BY <2>7, <2>8, <2>4
  <2>10. \A owner \in Owner : Exists(owner)' = Exists(owner)
    BY <2>5 DEF Exists
  <2> QED
    BY <1>a, <2>1, <2>4, <2>5, <2>6, <2>7, <2>9, <2>10 DEF Linked, Row, Range, IsInjective
<1>3. CASE req.op = "change rule" /\ ChangeRule(req)
  <2>1. req.enabled \in BOOLEAN
    BY <1>3 DEF RuleRequests
  <2>2. /\ DOMAIN rule' = DOMAIN rule /\ UNCHANGED <<profile, assigned>>
        /\ \A k \in DOMAIN rule : rule'[k] \in Row /\ rule'[k].owner = rule[k].owner
    BY <1>3, <2>1 DEF ChangeRule, Linked, Row
  <2> QED
    BY <1>1, <1>a, <2>2 DEF Linked, Exists, Range, IsInjective
<1>4. CASE req.op = "delete rule" /\ DeleteRule(req)
  <2>1. /\ DOMAIN rule' \subseteq DOMAIN rule /\ UNCHANGED <<profile, assigned>>
        /\ \A k \in DOMAIN rule' : rule'[k] = rule[k]
    BY <1>4 DEF DeleteRule, Without, Restrict
  <2> QED
    BY <1>1, <1>a, <2>1 DEF Linked, Exists, Range, IsInjective
<1> QED
  BY <1>0, <1>2, <1>3, <1>4 DEF Apply

(* What the profiles page's session writes.                                *)
LEMMA PageWrites ==
    ASSUME Linked, NEW req, OfKind(req), clicks \in Nat, clicks <= Clicks, StillSo,
           job.stage = "write", job.req = req, job'.stage = "saved",
           Accepted(req), Apply(req), UNCHANGED <<devices, edits, clicks, editing>>
    PROVE  Linked'
<1>1. req.op \in {"save", "assign", "unassign", "delete"}
  BY DEF OfKind
<1>2. Ids' = 1 .. clicks + 2 /\ Keys' = Keys /\ Ids \subseteq Ids'
  BY DEF Ids, Keys, Pending
<1>3. CASE req.op = "save" /\ SaveProfile(req)
  <2> DEFINE id == IF req.id = 0 THEN NextId(DOMAIN profile) ELSE req.id
  <2>1. req.name \in Name
    BY <1>3 DEF OfKind
  <2>2. SaveAllowed(req)
    BY <1>3 DEF Accepted, Allowed
  <2>3. id \in Ids'
    <3>1. CASE req.id = 0
      <4>1. DOMAIN profile \subseteq 1 .. clicks + 1
        BY <1>3, <3>1 DEF Linked, Ids, Pending
      <4>2. NextId(DOMAIN profile) \in 1 .. (clicks + 1) + 1
        BY <4>1, clicks + 1 \in Nat, NextIdIsNew
      <4> QED
        BY <1>2, <3>1, <4>2
    <3>2. CASE req.id # 0
      BY <1>2, <2>2, <3>2 DEF SaveAllowed, Linked
    <3> QED
      BY <3>1, <3>2
  <2>4. \A i \in DOMAIN profile : profile[i] = req.name => i = id
    <3>1. CASE req.id = 0
      BY <2>2, <3>1 DEF SaveAllowed, Linked, Ids
    <3>2. CASE req.id # 0
      BY <2>2, <3>2 DEF SaveAllowed
    <3> QED
      BY <3>1, <3>2
  <2>5. profile' = With(profile, id, req.name) /\ UNCHANGED <<assigned, rule>>
    BY <1>3 DEF SaveProfile
  <2> HIDE DEF id
  <2>6. /\ DOMAIN profile' = DOMAIN profile \cup {id}
        /\ profile'[id] = req.name
        /\ \A i \in DOMAIN profile \ {id} : profile'[i] = profile[i]
    BY <2>5 DEF With
  <2>7. DOMAIN profile' \subseteq Ids' /\ Range(profile') \subseteq Name
    BY <1>2, <2>1, <2>3, <2>6 DEF Linked, Range
  <2>8. IsInjective(profile')
    BY <2>4, <2>6 DEF Linked, IsInjective
  <2>9. \A owner \in Owner : Exists(owner) => Exists(owner)'
    BY <2>6 DEF Exists
  <2> QED
    BY <1>2, <2>5, <2>6, <2>7, <2>8, <2>9 DEF Linked, Row
<1>4. CASE req.op = "assign" /\ Assign(req)
  <2>1. req.id \in DOMAIN profile /\ req.device \in devices
    BY <1>4 DEF StillSo, Accepted
  <2>2. assigned' = With(assigned, req.device, req.id) /\ UNCHANGED <<profile, rule>>
    BY <1>4 DEF Assign
  <2>3. DOMAIN assigned' \subseteq devices /\ Range(assigned') \subseteq DOMAIN profile
    BY <2>1, <2>2 DEF Linked, With, Range
  <2> QED
    BY <1>2, <2>2, <2>3 DEF Linked, Exists
<1>5. CASE req.op = "unassign" /\ Unassign(req)
  <2>1. /\ DOMAIN assigned' \subseteq DOMAIN assigned /\ Range(assigned') \subseteq Range(assigned)
        /\ UNCHANGED <<profile, rule>>
    BY <1>5 DEF Unassign, Without, Restrict, Range
  <2> QED
    BY <1>2, <2>1 DEF Linked, Exists
<1>6. CASE req.op = "delete" /\ DeleteProfile(req)
  <2>1. DeleteAllowed(req)
    BY <1>6 DEF Accepted, Allowed
  <2>2. /\ DOMAIN profile' = DOMAIN profile \ {req.id}
        /\ \A i \in DOMAIN profile' : profile'[i] = profile[i]
        /\ Range(profile') \subseteq Range(profile)
        /\ assigned' = assigned
    BY <1>6 DEF DeleteProfile, Without, Restrict, Range
  <2>3. /\ DOMAIN rule' = DOMAIN rule \ RulesOf(<<"profile", req.id>>)
        /\ \A k \in DOMAIN rule' : rule'[k] = rule[k]
    BY <1>6 DEF DeleteProfile, Without, Restrict
  <2>4. Range(assigned') \subseteq DOMAIN profile'
    BY <2>1, <2>2 DEF DeleteAllowed, Linked
  <2>5. \A k \in DOMAIN rule' : Exists(rule[k].owner)'
    <3> TAKE k \in DOMAIN rule'
    <3>1. k \in DOMAIN rule /\ rule[k].owner # <<"profile", req.id>> /\ rule'[k] = rule[k]
      BY <2>3 DEF RulesOf
    <3>2. rule[k].owner \in Owner /\ Exists(rule[k].owner)
      BY <3>1 DEF Linked, Row
    <3> QED
      BY <2>2, <3>1, <3>2, OwnersArePairs DEF Exists
  <2> QED
    BY <1>2, <2>2, <2>3, <2>4, <2>5 DEF Linked, IsInjective
<1> QED
  BY <1>1, <1>3, <1>4, <1>5, <1>6 DEF Apply

(* A device goes with its assignment and with every rule of it.            *)
LEMMA RemovalWrites ==
    ASSUME Linked, EndRemoval
    PROVE  Linked'
<1>1. Ids' = Ids /\ Keys' = Keys
  BY DEF EndRemoval, Ids, Keys, Pending
<1>2. CASE RulesOf(<<"device", removal.device>>) \subseteq removal.rules
  <2>1. /\ devices' = devices \ {removal.device} /\ UNCHANGED profile
        /\ DOMAIN assigned' = DOMAIN assigned \ {removal.device}
        /\ Range(assigned') \subseteq Range(assigned)
    BY <1>2 DEF EndRemoval, Without, Restrict, Range
  <2>2. /\ DOMAIN rule' = DOMAIN rule \ removal.rules
        /\ \A k \in DOMAIN rule' : rule'[k] = rule[k]
    BY <1>2 DEF EndRemoval, Without, Restrict
  <2>3. \A k \in DOMAIN rule' : Exists(rule[k].owner)'
    <3> TAKE k \in DOMAIN rule'
    <3>1. k \in DOMAIN rule /\ rule[k].owner # <<"device", removal.device>> /\ rule'[k] = rule[k]
      BY <1>2, <2>2 DEF RulesOf
    <3>2. rule[k].owner \in Owner /\ Exists(rule[k].owner)
      BY <3>1 DEF Linked, Row
    <3> QED
      BY <2>1, <3>1, <3>2, OwnersArePairs DEF Exists
  <2> QED
    BY <1>1, <2>1, <2>2, <2>3 DEF Linked
<1>3. CASE UNCHANGED store
  BY <1>1, <1>3, SameTables
<1> QED
  BY <1>2, <1>3 DEF EndRemoval
-----------------------------------------------------------------------------

(* No session of any page breaks a link.                                   *)
LEMMA LinkedStep == Inductive /\ [Next]_vars => Linked'
<1> SUFFICES ASSUME Inductive, [Next]_vars PROVE Linked'
  OBVIOUS
<1> USE DEF Inductive
<1>a. /\ clicks \in Nat /\ clicks <= Clicks /\ edits \in Nat
  BY PolicyStoreAssumption DEF Formed
<1>1. ASSUME NEW req \in Requests(shown.profiles, shown.devices), Click(req)
      PROVE  Linked'
  <2>1. /\ UNCHANGED <<store, editing, edits>> /\ clicks' = clicks + 1
        /\ job' = job \/ job = Free
    BY <1>1 DEF Click, Mutate
  <2>2. Ids \subseteq Ids' /\ Keys \subseteq Keys'
    BY <1>a, <2>1 DEF Ids, Keys, Pending, Free
  <2> QED
    BY <2>1, <2>2, SameTables
<1>2. CASE Respond
  <2> DEFINE answer == [dialog EXCEPT !.confirmed = TRUE]
  <2>0. Mutate(answer) \/ UNCHANGED job
    BY <1>2 DEF Respond
  <2> HIDE DEF answer
  <2>1. /\ UNCHANGED <<store, editing, edits, clicks>>
        /\ job' = job \/ job = Free
        /\ job' # job => job'.req = answer
    BY <1>2, <2>0 DEF Respond, Mutate
  <2>2. job' = job \/ ~Pending'
    <3>1. SUFFICES ASSUME job' # job PROVE job'.req.op # "save" \/ job'.req.id # 0
      BY DEF Pending
    <3>2. dialog \in AnyRequest /\ (dialog.op = "save" => dialog.id # 0)
      BY <1>2 DEF Respond, Formed
    <3>3. job'.req.op = dialog.op /\ job'.req.id = dialog.id
      BY <2>1, <3>1, <3>2 DEF answer, AnyRequest, Requests
    <3> QED
      BY <3>2, <3>3
  <2>3. Ids \subseteq Ids' /\ Keys \subseteq Keys'
    BY <1>a, <2>1, <2>2 DEF Ids, Keys, Pending
  <2> QED
    BY <2>1, <2>3, SameTables
<1>3. CASE Refresh \/ Loaded \/ Saved \/ Failed \/ Read
  <2>1. /\ UNCHANGED <<store, editing, edits, clicks>>
        /\ job.stage \notin {"begin", "write"} /\ job'.stage \notin {"begin", "write"}
    BY <1>3 DEF Refresh, Loaded, Saved, Failed, Read, PageOnly, Elsewhere, Free, Load
  <2>2. Ids \subseteq Ids' /\ Keys \subseteq Keys'
    BY <1>a, <2>1 DEF Ids, Keys, Pending
  <2> QED
    BY <2>1, <2>2, SameTables
<1>4. CASE Check \/ Raise
  <2>1. /\ UNCHANGED <<store, editing, edits, clicks>>
        /\ Pending' => Pending
    BY <1>4 DEF Check, Raise, Elsewhere, Advance, Pending, Formed
  <2>2. Ids \subseteq Ids' /\ Keys \subseteq Keys'
    BY <1>a, <2>1 DEF Ids, Keys
  <2> QED
    BY <2>1, <2>2, SameTables
<1>5. CASE Write
  <2>1. /\ UNCHANGED <<editing, edits, clicks>> /\ job.stage = "write"
        /\ OfKind(job.req)
    BY <1>5 DEF Write, Elsewhere, Formed
  <2>2. CASE Accepted(job.req)
    <3>1. Apply(job.req) /\ UNCHANGED devices /\ job'.stage = "saved"
      BY <1>5, <2>2 DEF Write, Advance, Formed
    <3> QED
      BY <1>a, <2>1, <2>2, <3>1, PageWrites
  <2>3. CASE ~Accepted(job.req)
    <3>1. UNCHANGED store /\ ~Pending'
      BY <1>5, <2>3 DEF Write, Advance, Pending, Formed
    <3>2. Ids \subseteq Ids' /\ Keys \subseteq Keys'
      BY <1>a, <2>1, <3>1 DEF Ids, Keys
    <3> QED
      BY <3>1, <3>2, SameTables
  <2> QED
    BY <2>2, <2>3
<1>6. ASSUME NEW req \in RuleRequests, BeginEdit(req)
      PROVE  Linked'
  <2>1. /\ UNCHANGED <<store, job, clicks>>
        /\ editing = Nothing /\ editing' = req /\ edits' = edits + 1
    BY <1>6 DEF BeginEdit
  <2>a. req # Nothing
    <3>1. req.op \in {"create rule", "change rule", "delete rule"}
      BY DEF RuleRequests
    <3>2. Nothing.op = "none"
      BY DEF Nothing
    <3> QED
      BY <3>1, <3>2
  <2>2. Ids \subseteq Ids'
    BY <2>1 DEF Ids, Pending
  <2>3. Keys \subseteq Keys'
    BY <1>a, <2>1, <2>a DEF Keys
  <2> QED
    BY <2>1, <2>2, <2>3, SameTables
<1>7. CASE EndEdit
  <2>1. /\ editing # Nothing /\ editing' = Nothing /\ editing \in RuleRequests
        /\ UNCHANGED <<job, clicks, edits>>
    BY <1>7 DEF EndEdit, Formed
  <2>2. CASE Accepted(editing)
    <3>1. Apply(editing) /\ UNCHANGED devices
      BY <1>7, <2>2 DEF EndEdit
    <3> QED
      BY <1>a, <2>1, <2>2, <3>1, RuleWrites
  <2>3. CASE ~Accepted(editing)
    <3>1. UNCHANGED store
      BY <1>7, <2>3 DEF EndEdit
    <3>2. Ids \subseteq Ids' /\ Keys \subseteq Keys'
      BY <1>a, <2>1 DEF Ids, Keys, Pending
    <3> QED
      BY <3>1, <3>2, SameTables
  <2> QED
    BY <2>2, <2>3
<1>8. ASSUME NEW d \in Device, BeginRemoval(d)
      PROVE  Linked'
  <2>1. UNCHANGED <<store, job, clicks, editing, edits>>
    BY <1>8 DEF BeginRemoval
  <2>2. Ids \subseteq Ids' /\ Keys \subseteq Keys'
    BY <2>1 DEF Ids, Keys, Pending
  <2> QED
    BY <2>1, <2>2, SameTables
<1>9. CASE EndRemoval
  BY <1>9, RemovalWrites
<1>10. CASE UNCHANGED vars
  <2>1. UNCHANGED <<store, job, clicks, editing, edits>>
    BY <1>10 DEF vars
  <2>2. Ids \subseteq Ids' /\ Keys \subseteq Keys'
    BY <2>1 DEF Ids, Keys, Pending
  <2> QED
    BY <2>1, <2>2, SameTables
<1> QED
  BY <1>1, <1>2, <1>3, <1>4, <1>5, <1>6, <1>7, <1>8, <1>9, <1>10 DEF Next

(* Requests keep their kind, and their answer, on the way to the worker.   *)
LEMMA FormedStep == Inductive /\ [Next]_vars => Formed'
<1> SUFFICES ASSUME Inductive, [Next]_vars PROVE Formed'
  OBVIOUS
<1>a. /\ Ids \subseteq ProfileId /\ Well(shown) /\ Formed
      /\ DOMAIN profile \subseteq ProfileId /\ devices \subseteq Device
      /\ Range(assigned) \subseteq ProfileId
  BY PolicyStoreAssumption DEF Inductive, Formed, Linked, Ids, ProfileId
<1>b. Free.stage = "free" /\ Load.stage = "load" /\ DOMAIN Free = {"stage", "req"}
      /\ DOMAIN Load = {"stage", "req"}
  BY DEF Free, Load
<1>1. ASSUME NEW req \in Requests(shown.profiles, shown.devices), Click(req)
      PROVE  Formed'
  <2>1. req \in AnyRequest /\ OfKind(req)
    BY <1>a DEF Requests, AnyRequest, OfKind, Well
  <2>2. /\ UNCHANGED <<shown, unsure, editing, removal, edits>>
        /\ clicks' \in 0 .. Clicks
    BY <1>a, <1>1, PolicyStoreAssumption DEF Click, Formed
  <2>3. CASE Asks(req)
    <3>1. dialog' = req /\ job' = job
      BY <1>1, <2>3 DEF Click
    <3>2. req.op = "save" => req.id # 0
      BY <1>a, <2>3 DEF Asks, Well, ProfileId
    <3> QED
      BY <1>a, <2>1, <2>2, <3>1, <3>2 DEF Formed
  <2>4. CASE ~Asks(req)
    <3>1. /\ dialog' = dialog
          /\ job' = job \/ job' = [stage |-> "begin", req |-> req]
      BY <1>1, <2>4 DEF Click, Mutate
    <3>2. req.op = "save"
      BY <2>4 DEF Asks
    <3>3. CASE job' = job
      BY <1>a, <2>2, <3>1, <3>3 DEF Formed
    <3>4. CASE job' = [stage |-> "begin", req |-> req]
      <4>1. job'.stage = "begin" /\ job'.req = req /\ DOMAIN job' = {"stage", "req"}
        BY <3>4
      <4> QED
        BY <1>a, <2>1, <2>2, <3>1, <3>2, <4>1 DEF Formed
    <3> QED
      BY <3>1, <3>3, <3>4
  <2> QED
    BY <2>3, <2>4
<1>2. CASE Respond
  <2> DEFINE answer == [dialog EXCEPT !.confirmed = TRUE]
  <2>1. /\ UNCHANGED <<shown, unsure, editing, removal, clicks, edits>>
        /\ dialog # Nothing /\ dialog' = Nothing
        /\ Mutate(answer) \/ job' = job
    BY <1>2 DEF Respond
  <2>2. OfKind(answer) /\ answer.confirmed = TRUE
    <3>1. dialog \in AnyRequest
      BY <1>a, <2>1 DEF Formed
    <3> QED
      BY <3>1 DEF AnyRequest, Requests, OfKind
  <2> HIDE DEF answer
  <2>3. CASE job' = job
    BY <1>a, <2>1, <2>3 DEF Formed
  <2>4. CASE job' = [stage |-> "begin", req |-> answer]
    <3>1. job'.stage = "begin" /\ job'.req = answer /\ DOMAIN job' = {"stage", "req"}
      BY <2>4
    <3> QED
      BY <1>a, <2>1, <2>2, <3>1 DEF Formed
  <2> QED
    BY <2>1, <2>3, <2>4 DEF Mutate
<1>3. CASE Refresh \/ Saved \/ Failed
  <2>1. /\ UNCHANGED <<shown, dialog, editing, removal, clicks, edits>>
        /\ unsure' \in BOOLEAN
        /\ job' \in {Free, Load}
    BY <1>3, <1>a DEF Refresh, Saved, Failed, PageOnly, Formed
  <2> QED
    BY <1>a, <1>b, <2>1 DEF Formed
<1>4. CASE Loaded
  <2>1. /\ UNCHANGED <<dialog, editing, removal, clicks, edits>>
        /\ unsure' \in BOOLEAN /\ job' = Free
        /\ shown' = job.req /\ Well(job.req)
    BY <1>4, <1>a DEF Loaded, PageOnly, Formed
  <2>2. Well(shown)'
    BY <2>1 DEF Well
  <2> QED
    BY <1>a, <1>b, <2>1, <2>2 DEF Formed
<1>5. CASE Read
  <2>1. /\ UNCHANGED <<page, editing, removal, clicks, edits>>
        /\ job' = [stage |-> "loaded", req |-> Contents]
    BY <1>5 DEF Read, Elsewhere
  <2>2. job'.stage = "loaded" /\ job'.req = Contents /\ DOMAIN job' = {"stage", "req"}
    BY <2>1
  <2>3. Well(Contents)
    BY <1>a DEF Well, Contents
  <2>4. Well(job.req)'
    BY <2>2, <2>3 DEF Well
  <2>5. Well(shown)'
    BY <1>a, <2>1 DEF Well, page
  <2> QED
    BY <1>a, <2>1, <2>2, <2>4, <2>5 DEF Formed, page
<1>6. CASE Check \/ Write \/ Raise
  <2>1. /\ UNCHANGED <<page, editing, removal, clicks, edits>>
        /\ job'.stage \in {"write", "saved", "failed"} /\ job'.req = job.req
        /\ DOMAIN job' = {"stage", "req"}
        /\ job'.stage = "write" => job.stage = "begin"
    BY <1>6, <1>a DEF Check, Write, Raise, Elsewhere, Advance, Formed
  <2> QED
    BY <1>a, <2>1 DEF Formed, page
<1>7. ASSUME NEW req \in RuleRequests, BeginEdit(req)
      PROVE  Formed'
  <2>1. /\ UNCHANGED <<page, job, removal, clicks>> /\ editing' = req
        /\ edits' \in 0 .. Edits
    BY <1>7, <1>a, PolicyStoreAssumption DEF BeginEdit, Formed
  <2> QED
    BY <1>a, <2>1 DEF Formed, page
<1>8. CASE EndEdit \/ EndRemoval
  <2>1. /\ UNCHANGED <<page, job, clicks, edits>>
        /\ editing' = Nothing \/ editing' = editing
        /\ removal' = Nothing \/ removal' = removal
    BY <1>8 DEF EndEdit, EndRemoval
  <2> QED
    BY <1>a, <2>1 DEF Formed, page
<1>9. ASSUME NEW d \in Device, BeginRemoval(d)
      PROVE  Formed'
  <2>1. UNCHANGED <<page, job, editing, clicks, edits>> /\ removal'.device = d
    BY <1>9 DEF BeginRemoval
  <2> QED
    BY <1>a, <2>1 DEF Formed, page
<1>10. CASE UNCHANGED vars
  BY <1>10, <1>a DEF vars, page, Formed
<1> QED
  BY <1>1, <1>2, <1>3, <1>4, <1>5, <1>6, <1>7, <1>8, <1>9, <1>10 DEF Next

(* A session of the rules page touches neither profiles nor assignments.   *)
LEMMA EditKeepsProfiles ==
    ASSUME Inductive, EndEdit
    PROVE  UNCHANGED <<profile, assigned, job>>
<1>1. editing \in RuleRequests /\ job' = job
  BY DEF EndEdit, Inductive, Formed
<1>2. editing.op \in {"create rule", "change rule", "delete rule"}
  BY <1>1 DEF RuleRequests
<1>3. CASE Apply(editing)
  BY <1>1, <1>2, <1>3 DEF Apply, CreateRule, ChangeRule, DeleteRule
<1>4. CASE UNCHANGED store
  BY <1>1, <1>4 DEF store
<1> QED
  BY <1>3, <1>4 DEF EndEdit

(* A removal takes at most the assignment of its own device.               *)
LEMMA RemovalTakesItsOwn ==
    ASSUME Inductive, EndRemoval
    PROVE  /\ UNCHANGED <<profile, job>>
           /\ DOMAIN assigned' \subseteq DOMAIN assigned
           /\ \A d \in DOMAIN assigned' : assigned'[d] = assigned[d]
           /\ \A d \in devices' : d \in DOMAIN assigned => d \in DOMAIN assigned'
<1>1. CASE RulesOf(<<"device", removal.device>>) \subseteq removal.rules
  BY <1>1 DEF EndRemoval, Without, Restrict
<1>2. CASE UNCHANGED store
  BY <1>2 DEF EndRemoval, store
<1> QED
  BY <1>1, <1>2 DEF EndRemoval

(* Steps of others leave what the page's session checked as it was.        *)
LEMMA StillSoStep == Inductive /\ [Next]_vars => StillSo'
<1> SUFFICES ASSUME Inductive, [Next]_vars PROVE StillSo'
  OBVIOUS
<1> USE DEF Inductive
<1>1. ASSUME NEW req \in Requests(shown.profiles, shown.devices), Click(req)
      PROVE  StillSo'
  <2>1. /\ UNCHANGED store
        /\ job' = job \/ job' = [stage |-> "begin", req |-> req]
    BY <1>1 DEF Click, Mutate
  <2> QED
    BY <2>1 DEF StillSo, store
<1>2. CASE Respond
  <2> DEFINE answer == [dialog EXCEPT !.confirmed = TRUE]
  <2>1. Mutate(answer) \/ job' = job
    BY <1>2 DEF Respond
  <2> HIDE DEF answer
  <2>2. /\ UNCHANGED store
        /\ job' = job \/ job' = [stage |-> "begin", req |-> answer]
    BY <1>2, <2>1 DEF Respond, Mutate
  <2> QED
    BY <2>2 DEF StillSo, store
<1>3. CASE Refresh \/ Loaded \/ Saved \/ Failed \/ Read
  <2>1. job'.stage # "write"
    BY <1>3 DEF Refresh, Loaded, Saved, Failed, Read, Free, Load
  <2> QED
    BY <2>1 DEF StillSo
<1>4. CASE Check
  <2>1. /\ UNCHANGED store /\ job'.req = job.req
        /\ job'.stage = "write" => Allowed(job.req)
    BY <1>4 DEF Check, Advance, Formed
  <2>2. Allowed(job.req) =>
          /\ job.req.op = "assign" => AssignAllowed(job.req)
          /\ job.req.op = "unassign" => UnassignAllowed(job.req)
    BY DEF Allowed
  <2> QED
    BY <2>1, <2>2 DEF StillSo, store, AssignAllowed, UnassignAllowed
<1>5. CASE Write \/ Raise
  <2>1. job'.stage # "write"
    BY <1>5 DEF Write, Raise, Advance, Formed
  <2> QED
    BY <2>1 DEF StillSo
<1>6. ASSUME NEW req \in RuleRequests, BeginEdit(req)
      PROVE  StillSo'
  BY <1>6 DEF BeginEdit, StillSo, store
<1>7. CASE EndEdit
  BY <1>7, EditKeepsProfiles DEF StillSo
<1>8. ASSUME NEW d \in Device, BeginRemoval(d)
      PROVE  StillSo'
  BY <1>8 DEF BeginRemoval, StillSo, store
<1>9. CASE EndRemoval
  BY <1>9, RemovalTakesItsOwn DEF StillSo
<1>10. CASE UNCHANGED vars
  BY <1>10 DEF vars, StillSo, store
<1> QED
  BY <1>1, <1>2, <1>3, <1>4, <1>5, <1>6, <1>7, <1>8, <1>9, <1>10 DEF Next

(* The invariant holds at every moment of every run.                       *)
LEMMA InductiveInvariant == Spec => []Inductive
<1>1. Init => Inductive
  BY InductiveInit
<1>2. Inductive /\ [Next]_vars => Inductive'
  BY LinkedStep, FormedStep, StillSoStep DEF Inductive
<1> QED
  BY <1>1, <1>2, PTL DEF Spec

(* However the sessions of the pages overlap, every rule, assignment and   *)
(* profile stays linked to rows that exist, and the ids the database hands *)
(* out stay within the number of requests (the tables and sessions of      *)
(* group_manager.py, rule_manager.py and device_manager.py).               *)
THEOREM TablesStayLinked == Spec => []TablesLinked
<1>1. Inductive => TablesLinked
  <2> SUFFICES ASSUME Inductive PROVE TablesLinked
    OBVIOUS
  <2>1. Ids \subseteq ProfileId
    BY PolicyStoreAssumption DEF Inductive, Formed, Ids, ProfileId
  <2>2. Keys \subseteq RuleKey
    BY PolicyStoreAssumption DEF Inductive, Formed, Keys, RuleKey
  <2>3. Linked /\ Formed
    BY DEF Inductive
  <2>4. \A k \in DOMAIN rule : rule[k].owner \in Owner
    BY <2>3 DEF Linked, Row
  <2> QED
    BY <2>1, <2>2, <2>3, <2>4 DEF TablesLinked, TypeOK, Linked, Formed
<1> QED
  BY <1>1, InductiveInvariant, PTL
-----------------------------------------------------------------------------
(* The only session that changes an assignment for the page is its own.    *)
LEMMA WriteAsAsked ==
    ASSUME Inductive, Write
    PROVE  AsAsked
<1> DEFINE req == job.req
<1>1. /\ job.stage = "write" /\ OfKind(req) /\ StillSo
      /\ req.op # "save" => req.confirmed
  BY DEF Write, Inductive, Formed
<1> HIDE DEF req
<1>2. CASE ~Accepted(job.req)
  BY <1>2 DEF Write, store, AsAsked
<1>3. CASE Accepted(job.req) /\ assigned' = assigned
  BY <1>3 DEF AsAsked
<1>4. CASE Accepted(job.req) /\ req.op = "assign" /\ Assign(req)
  <2>1. assigned' = With(assigned, req.device, req.id)
    BY <1>4 DEF Assign
  <2>2. /\ DOMAIN assigned' = DOMAIN assigned \cup {req.device}
        /\ assigned'[req.device] = req.id
        /\ \A d \in DOMAIN assigned \ {req.device} : assigned'[d] = assigned[d]
    BY <2>1 DEF With
  <2>3. req.device \in DOMAIN assigned => assigned[req.device] = req.id
    BY <1>1, <1>4 DEF StillSo, req
  <2> QED
    BY <1>1, <1>4, <2>2, <2>3 DEF AsAsked, Asked, req
<1>5. CASE Accepted(job.req) /\ req.op = "unassign" /\ Unassign(req)
  <2>1. /\ DOMAIN assigned' = DOMAIN assigned \ {req.device}
        /\ \A d \in DOMAIN assigned' : assigned'[d] = assigned[d]
    BY <1>5 DEF Unassign, Without, Restrict
  <2>2. req.device \in DOMAIN assigned => assigned[req.device] = req.id
    BY <1>1, <1>5 DEF StillSo, req
  <2> QED
    BY <1>1, <1>5, <2>1, <2>2 DEF AsAsked, Asked, req
<1>6. Accepted(job.req) => Apply(req)
  BY DEF Write, req
<1>7. req.op \in {"save", "assign", "unassign", "delete"}
  BY <1>1 DEF OfKind
<1> QED
  BY <1>2, <1>3, <1>4, <1>5, <1>6, <1>7 DEF Apply, SaveProfile, DeleteProfile

(* Which profile a device has changes only as the user confirmed it, for   *)
(* any number of requests and any overlap of the sessions (_mutate of      *)
(* profiles_page.py, assign and unassign of group_manager.py).             *)
THEOREM AssignmentsFollowTheUser == Spec => AssignmentChangesAsAsked
<1>1. Inductive /\ [Next]_vars => [AsAsked]_vars
  <2> SUFFICES ASSUME Inductive, [Next]_vars PROVE [AsAsked]_vars
    OBVIOUS
  <2>1. assigned' = assigned => AsAsked
    BY DEF AsAsked
  <2>2. CASE \E req \in Requests(shown.profiles, shown.devices) : Click(req)
    BY <2>1, <2>2 DEF Click, store
  <2>3. CASE Respond \/ Refresh \/ Loaded \/ Saved \/ Failed
    BY <2>1, <2>3 DEF Respond, Refresh, Loaded, Saved, Failed, PageOnly, store
  <2>4. CASE Read \/ Check \/ Raise
    BY <2>1, <2>4 DEF Read, Check, Raise, store
  <2>5. CASE Write
    BY <2>5, WriteAsAsked
  <2>6. CASE \/ \E req \in RuleRequests : BeginEdit(req)
             \/ \E d \in Device : BeginRemoval(d)
    BY <2>1, <2>6 DEF BeginEdit, BeginRemoval, store
  <2>7. CASE EndEdit
    BY <2>1, <2>7, EditKeepsProfiles
  <2>8. CASE EndRemoval
    BY <2>8, RemovalTakesItsOwn DEF AsAsked
  <2> QED
    BY <2>2, <2>3, <2>4, <2>5, <2>6, <2>7, <2>8 DEF Next
<1> QED
  BY <1>1, InductiveInvariant, PTL DEF Spec, AssignmentChangesAsAsked
-----------------------------------------------------------------------------
(* The profiles page knows of every profile that is in use: by its last    *)
(* load, unless that failed, and until a change of its own is read back.   *)
Knows == Range(assigned) \subseteq Range(shown.assigned)
Aware ==
    /\ job.stage = "load" => job.req = Nothing
    /\ job.stage = "loaded" => Range(assigned) \subseteq Range(job.req.assigned)
    /\ job.stage \in {"free", "begin", "write"} => Knows \/ unsure
    /\ job.stage = "failed" => Knows \/ unsure \/ job.req = Nothing
    /\ job.stage \in {"begin", "write"} /\ job.req.op = "save" /\ job.req.id # 0 =>
          job.req.confirmed \/ job.req.id \notin Range(shown.assigned)

Informed == Inductive /\ Aware

(* The page begins with a load.                                            *)
LEMMA AwareInit == Init => Aware
BY DEF Init, Aware, Load

(* Nothing is assigned behind the page's back.                             *)
LEMMA LessInUse ==
    ASSUME Aware, Range(assigned') \subseteq Range(assigned), UNCHANGED <<page, job>>
    PROVE  Aware'
BY DEF Aware, Knows, page

(* A request begins when the page knows, and is asked about what is in use. *)
LEMMA AwareStart ==
    ASSUME Informed, NEW req, job = Free, job' = [stage |-> "begin", req |-> req],
           UNCHANGED <<store, shown, unsure>>,
           req.op = "save" => req.confirmed \/ req.id \notin Range(shown.assigned)
    PROVE  Aware'
<1>1. job'.stage = "begin" /\ job'.req = req
  OBVIOUS
<1>2. job.stage = "free"
  BY DEF Free
<1>3. Knows \/ unsure
  BY <1>2 DEF Informed, Aware
<1> QED
  BY <1>1, <1>3 DEF Aware, Knows, store

(* Every step of the page, of its worker and of the other pages leaves the *)
(* profiles page aware of the profiles in use.                             *)
LEMMA AwareStep == Informed /\ [Next]_vars => Aware'
<1> SUFFICES ASSUME Informed, [Next]_vars PROVE Aware'
  OBVIOUS
<1>a. Inductive /\ Aware /\ Formed
  BY DEF Informed, Inductive
<1>b. Free.stage = "free" /\ Load.stage = "load" /\ Load.req = Nothing
  BY DEF Free, Load
<1>1. ASSUME NEW req \in Requests(shown.profiles, shown.devices), Click(req)
      PROVE  Aware'
  <2>1. UNCHANGED <<store, shown, unsure>>
    BY <1>1 DEF Click
  <2>2. CASE job' = job
    BY <1>a, <2>1, <2>2 DEF Aware, Knows, store
  <2>3. CASE job' # job
    <3>1. ~Asks(req) /\ job = Free /\ job' = [stage |-> "begin", req |-> req]
      BY <1>1, <2>3 DEF Click, Mutate
    <3>2. req.op = "save" => req.confirmed \/ req.id \notin Range(shown.assigned)
      BY <3>1 DEF Asks
    <3> QED
      BY <2>1, <3>1, <3>2, AwareStart
  <2> QED
    BY <2>2, <2>3
<1>2. CASE Respond
  <2> DEFINE answer == [dialog EXCEPT !.confirmed = TRUE]
  <2>1. /\ UNCHANGED <<store, shown, unsure>> /\ dialog # Nothing
        /\ Mutate(answer) \/ job' = job
    BY <1>2 DEF Respond
  <2>2. answer.confirmed = TRUE
    <3>1. dialog \in AnyRequest
      BY <1>a, <2>1 DEF Formed
    <3> QED
      BY <3>1 DEF AnyRequest, Requests
  <2> HIDE DEF answer
  <2>3. CASE job' = job
    BY <1>a, <2>1, <2>3 DEF Aware, Knows, store
  <2>4. CASE job' # job
    <3>1. job = Free /\ job' = [stage |-> "begin", req |-> answer]
      BY <2>1, <2>4 DEF Mutate
    <3> QED
      BY <2>1, <2>2, <3>1, AwareStart
  <2> QED
    BY <2>3, <2>4
<1>3. CASE Refresh \/ Saved
  <2>1. job' = Load
    BY <1>3 DEF Refresh, Saved
  <2>2. job'.stage = "load" /\ job'.req = Nothing
    BY <1>b, <2>1
  <2> QED
    BY <2>2 DEF Aware
<1>4. CASE Loaded
  <2>1. /\ job.stage = "loaded" /\ job'.stage = "free"
        /\ shown' = job.req /\ assigned' = assigned
    BY <1>4, <1>b DEF Loaded, PageOnly, store
  <2>2. Range(assigned) \subseteq Range(job.req.assigned)
    BY <1>a, <2>1 DEF Aware
  <2> QED
    BY <2>1, <2>2 DEF Aware, Knows
<1>5. CASE Failed
  <2>1. /\ job.stage = "failed" /\ job'.stage = "free"
        /\ unsure' = (unsure \/ job.req = Nothing)
        /\ shown' = shown /\ assigned' = assigned
    BY <1>5, <1>b DEF Failed, PageOnly, store
  <2>2. Knows \/ unsure \/ job.req = Nothing
    BY <1>a, <2>1 DEF Aware
  <2>3. Knows' \/ unsure'
    BY <2>1, <2>2 DEF Knows
  <2> QED
    BY <2>1, <2>3 DEF Aware
<1>6. CASE Read
  <2>1. job' = [stage |-> "loaded", req |-> Contents] /\ assigned' = assigned
    BY <1>6 DEF Read, store
  <2>2. job'.stage = "loaded" /\ job'.req.assigned = assigned'
    BY <2>1 DEF Contents
  <2> QED
    BY <2>2 DEF Aware
<1>7. CASE Check
  <2>1. /\ UNCHANGED <<store, page>> /\ job.stage = "begin"
        /\ job'.stage \in {"write", "failed"} /\ job'.req = job.req
    BY <1>7, <1>a DEF Check, Elsewhere, Advance, Formed
  <2> QED
    BY <1>a, <2>1 DEF Aware, Knows, store, page
<1>8. CASE Write
  <2>1. /\ UNCHANGED page /\ job.stage = "write" /\ job'.req = job.req
        /\ \/ job'.stage = "saved"
           \/ job'.stage = "failed" /\ UNCHANGED store
    BY <1>8, <1>a DEF Write, Elsewhere, Advance, Formed
  <2> QED
    BY <1>a, <2>1 DEF Aware, Knows, store, page
<1>9. CASE Raise
  <2>1. /\ UNCHANGED <<store, page>> /\ job.stage \in {"load", "write"}
        /\ job'.stage = "failed" /\ job'.req = job.req
    BY <1>9, <1>a DEF Raise, Elsewhere, Advance, Formed
  <2> QED
    BY <1>a, <2>1 DEF Aware, Knows, store, page
<1>10. CASE \/ \E req \in RuleRequests : BeginEdit(req)
            \/ \E d \in Device : BeginRemoval(d)
  BY <1>10, <1>a, LessInUse DEF BeginEdit, BeginRemoval, store
<1>11. CASE EndEdit
  <2>1. assigned' = assigned /\ UNCHANGED <<page, job>>
    BY <1>a, <1>11, EditKeepsProfiles DEF EndEdit
  <2> QED
    BY <1>a, <2>1, LessInUse
<1>12. CASE EndRemoval
  <2>1. /\ UNCHANGED <<page, job>> /\ DOMAIN assigned' \subseteq DOMAIN assigned
        /\ \A d \in DOMAIN assigned' : assigned'[d] = assigned[d]
    BY <1>a, <1>12, RemovalTakesItsOwn DEF EndRemoval
  <2>2. Range(assigned') \subseteq Range(assigned)
    BY <2>1 DEF Range
  <2> QED
    BY <1>a, <2>1, <2>2, LessInUse
<1>13. CASE UNCHANGED vars
  BY <1>13, <1>a, LessInUse DEF vars, store
<1> QED
  BY <1>1, <1>2, <1>3, <1>4, <1>5, <1>6, <1>7, <1>8, <1>9, <1>10, <1>11, <1>12, <1>13 DEF Next

(* A profile that devices use is saved only after the user confirmed it,   *)
(* unless the page's last load failed: for any number of requests, and     *)
(* however old what the page shows is (_save, _mutate and _failed of       *)
(* profiles_page.py).                                                      *)
THEOREM SharedProfilesAreConfirmed == Spec => ConfirmedWhenAssigned
<1> DEFINE Confirmed ==
             \A i \in DOMAIN profile \cap Range(assigned) :
                job.stage = "write" /\ job'.stage = "saved" /\ job.req.op = "save" /\ job.req.id = i
                   => job.req.confirmed \/ unsure
<1>1. Informed => Confirmed
  <2> SUFFICES ASSUME Informed, NEW i \in DOMAIN profile \cap Range(assigned),
                      job.stage = "write", job.req.op = "save", job.req.id = i, ~unsure
               PROVE  job.req.confirmed
    OBVIOUS
  <2>1. i # 0
    BY DEF Informed, Inductive, Linked, Ids
  <2>2. i \in Range(shown.assigned)
    BY DEF Informed, Aware, Knows
  <2> QED
    BY <2>1, <2>2 DEF Informed, Aware
<1>2. Spec => []Informed
  <2>1. Init => Aware
    BY AwareInit
  <2>2. Inductive /\ Aware /\ [Next]_vars => Aware'
    BY AwareStep DEF Informed
  <2> QED
    BY <2>1, <2>2, InductiveInvariant, PTL DEF Spec, Informed
<1>3. Informed => [Confirmed]_vars
  BY <1>1
<1> QED
  BY <1>2, <1>3, PTL DEF ConfirmedWhenAssigned
=============================================================================
