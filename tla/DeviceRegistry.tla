--------------------------- MODULE DeviceRegistry ---------------------------
(***************************************************************************)
(* The table of known devices and its writers: discovery scans             *)
(* (network/discovery_service.py), the neighbour reader                    *)
(* (network/live_presence.py) and the user (gui/devices_page.py), through  *)
(* manager/device_manager.py and manager/identity_manager.py.              *)
(*                                                                         *)
(* Every operation is one database session.  SQLite hands out the write    *)
(* lock with the first statement that writes, and what a session read      *)
(* before that is never read again: a session is therefore two steps, what *)
(* it SAW and what it commits, and the sessions of other threads may       *)
(* commit in between.  A flush writes the columns that differ from what    *)
(* the session saw, and no others.                                         *)
(*                                                                         *)
(* Names, vendors, evidence and audit rows are left out.                   *)
(***************************************************************************)
EXTENDS Integers, Sequences, FiniteSetsExt, SequencesExt, Functions

CONSTANTS
    Mac, Ip,
    Given,       \* the MACs of the devices that are registered to begin with
    Rank,        \* preferred_address_key: IPv4 0, routed IPv6 1, link-local 2
    Scanners,    \* discovery services: the live one and the page's
    Grace,       \* offline_after_seconds, in ticks
    AutoRegister,
    Places,      \* sets of addresses that a host answers from (a bound)
    Moves,       \* how often hosts change their addresses (a bound)
    Requests,    \* how many requests the user makes (a bound)
    UserOps,     \* what the user asks for (a bound)
    Hints,       \* how many neighbour events arrive (a bound)
    Interruptions,   \* how many requests and events, in all (a bound)
    Together     \* how many sessions may be open at once: 1 takes them in turn

Nobody == 0
NoIp == 0
Actor == Scanners \cup {"reader", "user"}

ASSUME RegistryAssumption ==
    /\ IsFiniteSet(Mac) /\ IsFiniteSet(Scanners)
    /\ Given \subseteq Mac /\ Given # {}
    /\ Ip \subseteq Nat \ {NoIp} /\ Rank \in [Ip -> 0 .. 3]
    /\ Places \subseteq SUBSET Ip
    /\ Grace \in Nat \ {0} /\ AutoRegister \in BOOLEAN
    /\ Moves \in Nat /\ Requests \in Nat /\ Hints \in Nat
    /\ Interruptions \in Nat /\ Together \in Nat \ {0}
    /\ UserOps \subseteq {"merge", "split", "resolve", "update", "delete", "assign", "add"}
    /\ {"reader", "user"} \cap Scanners = {}

Row == [mac : Mac, ip : Ip \cup {NoIp}, online : BOOLEAN, conflict : BOOLEAN,
        age : 0 .. Grace]
Host == [mac : Mac, ip : Ip]

VARIABLES
    device,    \* id -> row
    alias,     \* MAC -> id of the identity it was linked to
    policies,  \* ids with a profile, a rule or an assignment
    net,       \* the addresses every MAC answers from
    session,   \* what every actor is doing in the database
    moves, requests, hints   \* spent bounds

store == <<device, alias, policies>>
bounds == <<moves, requests, hints>>
vars == <<store, net, session, bounds>>

Idle == [stage |-> "idle"]
Store == [device |-> device, alias |-> alias, policies |-> policies]
-----------------------------------------------------------------------------
(* DeviceManager: lookups and writes, on a store v that a session sees.    *)

(* Seeded fault: aliases are not looked up. *)
RegisteredAs(v, mac) ==
    LET own == {i \in DOMAIN v.device : v.device[i].mac = mac}
    IN IF own # {} THEN CHOOSE i \in own : TRUE ELSE Nobody

(* The device registered with a MAC, else the one the MAC was linked to. *)
Known(v, mac) ==
    LET own == {i \in DOMAIN v.device : v.device[i].mac = mac}
    IN IF own # {} THEN CHOOSE i \in own : TRUE
       ELSE IF mac \in DOMAIN v.alias THEN v.alias[mac] ELSE Nobody

NextId(rows) == 1 + Max({0} \cup DOMAIN rows)    \* SQLite reuses the last ids
Inserted(rows, row) ==
    [i \in DOMAIN rows \cup {NextId(rows)} |-> IF i \in DOMAIN rows THEN rows[i] ELSE row]
MacFree(rows, mac) == \A i \in DOMAIN rows : rows[i].mac # mac

(* The columns of a row in which the session's object differs from what it *)
(* was loaded with; a row without a difference is not written.             *)
Flushed(row, loaded, object) ==
    [f \in DOMAIN row |-> IF object[f] = loaded[f] THEN row[f] ELSE object[f]]

(* Seeded fault: foreign keys are not enforced. *)
CommitDangling(rows, links, owned) ==
    /\ device' = rows
    /\ alias' = links
    /\ policies' = owned

(* Deleting a device deletes its aliases and policies. *)
Commit(rows, links, owned) ==
    /\ device' = rows
    /\ alias' = Restrict(links, {m \in DOMAIN links : links[m] \in DOMAIN rows})
    /\ policies' = owned \cap DOMAIN rows

RollBack == UNCHANGED store

(* A row that the session still holds as an object shows the object.       *)
Shown(held, rows, i) == IF i \in DOMAIN held THEN held[i] ELSE rows[i]

(* Ids that claim one address: online rows, and what the scan itself saw.  *)
Claimants(rows, held, links, claims, ip) ==
    {i \in DOMAIN rows : rows[i].online /\ Shown(held, rows, i).ip = ip}
    \cup {i \in {Known([device |-> rows, alias |-> links], c.mac) : c \in {d \in claims : d.ip = ip}} :
            i # Nobody}

(* Seeded fault: the first claimant keeps a clean record. *)
NewcomersFlagged(rows, held, links, claims) ==
    LET sharing == {S \in {Claimants(rows, held, links, claims, ip) : ip \in Ip} : Cardinality(S) > 1}
        flag == {i \in UNION sharing : ~Shown(held, rows, i).conflict /\ \E S \in sharing : i \in S \ {Min(S)}}
    IN [i \in DOMAIN rows |-> IF i \in flag THEN [rows[i] EXCEPT !.conflict = TRUE] ELSE rows[i]]

(* Whoever shares an address with another online identity is flagged;      *)
(* an object that was loaded with the flag is not written.                 *)
ConflictsFlagged(rows, held, links, claims) ==
    LET sharing == {S \in {Claimants(rows, held, links, claims, ip) : ip \in Ip} : Cardinality(S) > 1}
        flag == {i \in UNION sharing : ~Shown(held, rows, i).conflict}
    IN [i \in DOMAIN rows |-> IF i \in flag THEN [rows[i] EXCEPT !.conflict = TRUE] ELSE rows[i]]
-----------------------------------------------------------------------------
(* DeviceManager.reconcile_discovery.                                      *)
(* The hosts of one identity are one group, under the MAC it is registered *)
(* with.  Only the first group is looked up before the write lock is held; *)
(* the object of "kept", the identity of the last host of the list, stays  *)
(* loaded and keeps the values it had then.                                *)
GroupOf(v, mac) == LET i == Known(v, mac) IN IF i = Nobody THEN mac ELSE v.device[i].mac
Groups(v, hosts) == {GroupOf(v, h.mac) : h \in hosts}
Paths(v, hosts, g) == {h.ip : h \in {k \in hosts : GroupOf(v, k.mac) = g}}

Preferred(paths, current) ==
    CHOOSE p \in paths : \A q \in paths \ {p} :
        \/ Rank[p] < Rank[q]
        \/ Rank[p] = Rank[q] /\ (p = current \/ (q # current /\ p < q))

(* Seeded fault: a device keeps the address it has. *)
AddressKept(row, paths) ==
    [row EXCEPT !.ip = IF @ = NoIp THEN Preferred(paths, @) ELSE @, !.online = TRUE, !.age = 0]

Online(row, paths) ==
    [row EXCEPT !.ip = Preferred(paths, row.ip), !.online = TRUE, !.age = 0]

Registered(rows, mac, paths) ==
    Inserted(rows, [mac |-> mac, ip |-> Preferred(paths, NoIp), online |-> TRUE,
                    conflict |-> FALSE, age |-> 0])

(* One group: ok turns FALSE when a row that was loaded is gone or the MAC *)
(* was registered meanwhile, and then the whole session is rolled back.    *)
Upserted(acc, g, saw, first, kept, paths) ==
    LET fresh == [device |-> acc.rows, alias |-> alias]
        i == Known(IF g = first THEN saw ELSE fresh, g)
        loaded == IF g = first \/ (g = kept /\ i = Known(saw, g)) THEN saw.device[i] ELSE acc.rows[i]
        object == Online(loaded, paths)
    IN IF i = Nobody
       THEN IF AutoRegister
            THEN [ok |-> acc.ok /\ MacFree(acc.rows, g), rows |-> Registered(acc.rows, g, paths),
                  held |-> acc.held]
            ELSE acc
       ELSE IF i \notin DOMAIN acc.rows THEN [acc EXCEPT !.ok = FALSE]
       ELSE [ok |-> acc.ok, rows |-> [acc.rows EXCEPT ![i] = Flushed(@, loaded, object)],
             held |-> IF g = kept THEN [j \in {i} |-> object] ELSE acc.held]

(* The groups one after the other, each on what the last one left.         *)
Upserts(saw, hosts, order, kept) ==
    LET after[n \in 0 .. Len(order)] ==
            IF n = 0 THEN [ok |-> TRUE, rows |-> device, held |-> <<>>]
            ELSE Upserted(after[n - 1], order[n], saw, order[1], kept, Paths(saw, hosts, order[n]))
    IN after[Len(order)]

Overdue(rows, groups) ==
    {i \in DOMAIN rows : rows[i].online /\ rows[i].mac \notin groups /\ rows[i].age >= Grace}

(* Without a host nothing was written before the rows that are overdue are *)
(* read, and before the conflicts are looked for if none is.               *)
Reconciled(req, saw, order, kept) ==
    LET groups == Groups(saw, req.hosts)
        found == Upserts(saw, req.hosts, order, kept)
        gone == IF ~req.complete THEN {}
                ELSE Overdue(IF groups = {} THEN saw.device ELSE found.rows, groups)
        left == [i \in DOMAIN found.rows |->
                    IF i \in gone THEN [found.rows[i] EXCEPT !.online = FALSE] ELSE found.rows[i]]
        claims == {[mac |-> GroupOf(saw, h.mac), ip |-> h.ip] : h \in req.hosts}
        unlocked == groups = {} /\ gone = {}
        flagged == ConflictsFlagged(saw.device, <<>>, saw.alias, {})
    IN IF unlocked
       THEN [ok |-> \A i \in DOMAIN flagged : flagged[i] # saw.device[i] => i \in DOMAIN device,
             rows |-> [i \in DOMAIN device |->
                          IF i \in DOMAIN flagged THEN Flushed(device[i], saw.device[i], flagged[i])
                          ELSE device[i]]]
       ELSE [ok |-> found.ok /\ gone \subseteq DOMAIN left,
             rows |-> ConflictsFlagged(left, found.held, alias, claims)]

(* DeviceManager.update_presence, for a MAC that was added. *)
Present(req, saw) ==
    LET i == Known(saw, req.mac)
        object == [saw.device[i] EXCEPT !.online = TRUE, !.age = 0, !.ip = req.ip]
    IN IF i = Nobody THEN [ok |-> FALSE, rows |-> device]
       ELSE IF i \notin DOMAIN device THEN [ok |-> FALSE, rows |-> device]
       ELSE [ok |-> TRUE,
             rows |-> ConflictsFlagged([device EXCEPT ![i] = Flushed(@, saw.device[i], object)],
                                       [j \in {i} |-> object], alias, {})]
-----------------------------------------------------------------------------
(* IdentityManager, and what else the user does to a device.  The request  *)
(* carries what was displayed when the user decided; a session without     *)
(* effect ends in an error that the page shows.                            *)
Has(v, i) == i \in DOMAIN v.device

MergeAllowed(req, saw) ==
    LET r == req.id c == req.candidate
    IN /\ Has(saw, r) /\ Has(saw, c)
       /\ saw.device[r].mac = req.mac /\ saw.device[c].mac = req.other
       /\ ~(saw.device[r].online /\ saw.device[c].online)
       /\ ~saw.device[r].conflict /\ ~saw.device[c].conflict
       /\ c \notin saw.policies

(* The alias table has one row per MAC, and an alias needs its device. *)
Merge(req, saw) ==
    LET r == req.id c == req.candidate
        moved == [m \in DOMAIN alias \cup {req.other} |->
                     IF m = req.other \/ alias[m] = c THEN r ELSE alias[m]]
    IN IF MergeAllowed(req, saw) /\ r \in DOMAIN device /\ req.other \notin DOMAIN alias
       THEN Commit(Restrict(device, DOMAIN device \ {c}), moved, policies)
       ELSE RollBack

(* The alias becomes an offline device; the identity it leaves is flagged. *)
Split(req, saw) ==
    LET r == req.id m == req.other
    IN IF /\ m \in DOMAIN saw.alias /\ saw.alias[m] = r
          /\ MacFree(device, m) /\ r \in DOMAIN device
       THEN Commit(Inserted([i \in DOMAIN device |->
                                IF i = r /\ ~saw.device[r].conflict
                                THEN [device[i] EXCEPT !.conflict = TRUE] ELSE device[i]],
                            [mac |-> m, ip |-> NoIp, online |-> FALSE, conflict |-> FALSE,
                             age |-> Grace]),
                   Restrict(alias, DOMAIN alias \ {m}), policies)
       ELSE RollBack

(* Seeded fault: the address may have changed since it was displayed. *)
ReviewedDevice(req, saw) ==
    /\ Has(saw, req.id) /\ saw.device[req.id].mac = req.mac

Reviewed(req, saw) ==
    /\ Has(saw, req.id) /\ saw.device[req.id].mac = req.mac /\ saw.device[req.id].ip = req.ip
    /\ req.ip # NoIp => \A i \in DOMAIN saw.device \ {req.id} :
                            saw.device[i].online => saw.device[i].ip # req.ip

ResolveConflict(req, saw) ==
    LET i == req.id
    IN IF Reviewed(req, saw) /\ (saw.device[i].conflict => i \in DOMAIN device)
       THEN Commit(IF saw.device[i].conflict THEN [device EXCEPT ![i] = [@ EXCEPT !.conflict = FALSE]] ELSE device,
                   alias, policies)
       ELSE RollBack

(* Its own MAC, or that of nobody; an alias of the device is its own.      *)
MacAvailable(v, mac, i) == Known(v, mac) \in {Nobody, i}

UpdateDevice(req, saw) ==
    LET i == req.id
    IN IF /\ Has(saw, i) /\ MacAvailable(saw, req.mac, i)
          /\ i \in DOMAIN device /\ \A j \in DOMAIN device \ {i} : device[j].mac # req.mac
       THEN Commit([device EXCEPT ![i] = Flushed(@, saw.device[i],
                        [saw.device[i] EXCEPT !.mac = req.mac, !.ip = req.ip])], alias, policies)
       ELSE RollBack

DeleteDevice(req, saw) ==
    IF Has(saw, req.id) THEN Commit(Restrict(device, DOMAIN device \ {req.id}), alias, policies)
    ELSE RollBack

AddDevice(req, saw) ==
    IF Known(saw, req.mac) = Nobody /\ MacFree(device, req.mac)
    THEN Commit(Inserted(device, [mac |-> req.mac, ip |-> req.ip, online |-> FALSE,
                                  conflict |-> FALSE, age |-> Grace]), alias, policies)
    ELSE RollBack

(* Create or delete a profile, a rule or an assignment of a device. *)
AssignPolicy(req, saw) ==
    IF Has(saw, req.id) /\ req.id \in DOMAIN device
    THEN Commit(device, alias, IF req.id \in saw.policies THEN policies \ {req.id}
                               ELSE policies \cup {req.id})
    ELSE RollBack
-----------------------------------------------------------------------------
(* What starts a session. *)
MayOpen == Cardinality({a \in Actor : session[a].stage = "open"}) < Together
Interrupts == requests + hints < Interruptions
Ask(a, req) == session' = [session EXCEPT ![a] = [stage |-> "asked", req |-> req]]
Hosts == UNION {{[mac |-> m, ip |-> p] : p \in net[m]} : m \in Mac}

(* A scan ends: with every host that answers, or incomplete with some.     *)
ScanAll(s) ==
    /\ session[s] = Idle
    /\ Ask(s, [op |-> "scan", hosts |-> Hosts, complete |-> TRUE])
    /\ UNCHANGED <<store, net, bounds>>

ScanSome(s) ==
    /\ session[s] = Idle
    /\ \E hosts \in SUBSET Hosts : Ask(s, [op |-> "scan", hosts |-> hosts, complete |-> FALSE])
    /\ UNCHANGED <<store, net, bounds>>

(* The event is handled when it is read from the monitor. *)
NeighbourAdded(host) ==
    /\ session["reader"] = Idle /\ MayOpen /\ Interrupts /\ hints < Hints
    /\ hints' = hints + 1
    /\ session' = [session EXCEPT !["reader"] = [stage |-> "open", saw |-> Store,
                        req |-> [op |-> "presence", mac |-> host.mac, ip |-> host.ip]]]
    /\ UNCHANGED <<store, net, moves, requests>>

Decisions(op, i) ==
    LET row == device[i]
    IN CASE op = "merge" -> {[op |-> op, id |-> i, mac |-> row.mac, candidate |-> c, other |-> device[c].mac] :
                                c \in DOMAIN device \ {i}}
         [] op = "split" -> {[op |-> op, id |-> i, other |-> m] : m \in {m \in DOMAIN alias : alias[m] = i}}
         [] op = "resolve" -> {[op |-> op, id |-> i, mac |-> row.mac, ip |-> row.ip]}
         [] op = "update" -> {[op |-> op, id |-> i, mac |-> row.mac, ip |-> p] : p \in Ip \cup {NoIp}}
                             \cup {[op |-> op, id |-> i, mac |-> m, ip |-> row.ip] : m \in Mac \ {row.mac}}
         [] OTHER -> {[op |-> op, id |-> i]}

UserDecides(op) ==
    /\ session["user"] = Idle /\ Interrupts /\ requests < Requests
    /\ requests' = requests + 1
    /\ \E i \in DOMAIN device : \E req \in Decisions(op, i) : Ask("user", req)
    /\ UNCHANGED <<store, net, moves, hints>>

UserAdds ==
    /\ session["user"] = Idle /\ Interrupts /\ requests < Requests
    /\ requests' = requests + 1
    /\ \E m \in Mac : Ask("user", [op |-> "add", mac |-> m, ip |-> NoIp])
    /\ UNCHANGED <<store, net, moves, hints>>

(* The reads of a session, before it holds the write lock. *)
Read(a) ==
    /\ session[a].stage = "asked"
    /\ MayOpen
    /\ session' = [session EXCEPT ![a] = [stage |-> "open", req |-> @.req, saw |-> Store]]
    /\ UNCHANGED <<store, net, bounds>>

(* The rest of it, which other writers wait for; the commit or roll-back.  *)
Ending(a) ==
    /\ session' = [session EXCEPT ![a] = Idle]
    /\ UNCHANGED <<net, bounds>>

EndScan(s) ==
    /\ session[s].stage = "open"
    /\ LET req == session[s].req
           saw == session[s].saw
           groups == Groups(saw, req.hosts)
       IN \E order \in SetToSeqs(groups), kept \in groups \cup {Nobody} :
              /\ kept = Nobody <=> groups = {}
              /\ kept # Nobody => kept = Last(order) \/ Cardinality(Paths(saw, req.hosts, kept)) > 1
              /\ LET result == Reconciled(req, saw, order, kept)
                 IN IF result.ok THEN Commit(result.rows, alias, policies) ELSE RollBack
    /\ Ending(s)

EndPresence ==
    /\ session["reader"].stage = "open"
    /\ LET result == Present(session["reader"].req, session["reader"].saw)
       IN IF result.ok THEN Commit(result.rows, alias, policies) ELSE RollBack
    /\ Ending("reader")

EndRequest ==
    /\ session["user"].stage = "open"
    /\ LET req == session["user"].req
           saw == session["user"].saw
       IN \/ req.op = "merge" /\ Merge(req, saw)
          \/ req.op = "split" /\ Split(req, saw)
          \/ req.op = "resolve" /\ ResolveConflict(req, saw)
          \/ req.op = "update" /\ UpdateDevice(req, saw)
          \/ req.op = "delete" /\ DeleteDevice(req, saw)
          \/ req.op = "add" /\ AddDevice(req, saw)
          \/ req.op = "assign" /\ AssignPolicy(req, saw)
    /\ Ending("user")

(* A host joins, leaves or changes its addresses. *)
HostMoves(m) ==
    /\ moves < Moves
    /\ moves' = moves + 1
    /\ \E addresses \in Places : addresses # net[m] /\ net' = [net EXCEPT ![m] = addresses]
    /\ UNCHANGED <<store, session, requests, hints>>

(* Sessions are short: time passes between them. *)
Tick ==
    /\ \A a \in Actor : session[a].stage # "open"
    /\ \E i \in DOMAIN device : device[i].age < Grace
    /\ device' = [i \in DOMAIN device |-> [device[i] EXCEPT !.age = IF @ < Grace THEN @ + 1 ELSE @]]
    /\ UNCHANGED <<alias, policies, net, session, bounds>>
-----------------------------------------------------------------------------
(* Devices that were added, one with policies, and nothing else is known.  *)
Added == [mac : Given, ip : {NoIp}, online : {FALSE}, conflict : {FALSE}, age : {Grace}]
Init ==
    /\ device \in {f \in UNION {[1 .. n -> Added] : n \in 1 .. Cardinality(Mac)} :
                       /\ \A i, j \in DOMAIN f : f[i].mac = f[j].mac => i = j
                       /\ {f[i].mac : i \in DOMAIN f} = Given}
    /\ alias = <<>>
    /\ policies = {1}
    /\ net \in [Mac -> Places]
    /\ session = [a \in Actor |-> Idle]
    /\ moves = 0 /\ requests = 0 /\ hints = 0

Next ==
    \/ \E s \in Scanners : ScanAll(s) \/ ScanSome(s) \/ EndScan(s)
    \/ \E host \in Hosts : NeighbourAdded(host)
    \/ \E op \in UserOps \ {"add"} : UserDecides(op)
    \/ "add" \in UserOps /\ UserAdds
    \/ \E a \in Actor \ {"reader"} : Read(a)
    \/ EndPresence
    \/ EndRequest
    \/ \E m \in Mac : HostMoves(m)
    \/ Tick

Spec == Init /\ [][Next]_vars

(* No session takes forever and now and then none is open; scans go on,    *)
(* some of them complete, and time passes.  Nobody has to move or to ask.  *)
Fairness ==
    /\ \A a \in Actor : []<>(session[a] = Idle)
    /\ []<>(\A a \in Actor : session[a].stage # "open")
    /\ \A s \in Scanners : SF_vars(ScanAll(s))
    /\ SF_vars(Tick)

FairSpec == Spec /\ Fairness
-----------------------------------------------------------------------------
(* One row per MAC, and no alias without its device. *)
TypeOK ==
    /\ DOMAIN device \subseteq Nat \ {Nobody} /\ device \in [DOMAIN device -> Row]
    /\ \A i, j \in DOMAIN device : device[i].mac = device[j].mac => i = j
    /\ DOMAIN alias \subseteq Mac /\ \A m \in DOMAIN alias : alias[m] \in DOMAIN device
    /\ policies \subseteq DOMAIN device

(* A MAC belongs to one identity: no device is registered under a MAC that *)
(* is linked to another one, so that policies follow a merged device.      *)
OneIdentityPerMac ==
    \A i \in DOMAIN device, m \in DOMAIN alias : device[i].mac = m => alias[m] = i

Writes(a) == session[a].stage = "open" /\ session'[a] = Idle

(* After a scan or a neighbour event all online identities that share an   *)
(* address carry the flag that keeps them out of enforcement.              *)
FlagsSharers ==
    (\E a \in Actor \ {"user"} : Writes(a)) /\ store' # store =>
        \A i, j \in DOMAIN device' :
            i # j /\ device'[i].online /\ device'[j].online
                  /\ device'[i].ip = device'[j].ip /\ device'[i].ip # NoIp
            => device'[i].conflict
SharersAreFlagged == [][FlagsSharers]_vars

(* The flag of a device that stays is only cleared by a review that was    *)
(* made of the address and MAC it still has.                               *)
ClearsReviewed ==
    \A i \in DOMAIN device \cap DOMAIN device' :
        device[i].conflict /\ ~device'[i].conflict =>
            /\ Writes("user") /\ session["user"].req.op = "resolve"
            /\ session["user"].req.id = i
            /\ session["user"].req.ip = device[i].ip /\ session["user"].req.mac = device[i].mac
FlagAwaitsReview == [][ClearsReviewed]_vars

(* Nobody is reported to have left before the grace period has passed      *)
(* without a sign of life: "preventing a single missed neighbour-cache     *)
(* sample from creating false leave events".                               *)
LeavesAfterGrace ==
    \A i \in DOMAIN device \cap DOMAIN device' :
        device[i].online /\ ~device'[i].online => device[i].age >= Grace
GraceHonoured == [][LeavesAfterGrace]_vars

(* Whatever overlaps and whoever interferes: once the network and the user *)
(* come to rest the table says who is there, and where.                    *)
Answers(i) == UNION {net[m] : m \in {n \in Mac : Known(Store, n) = i}}
Settled ==
    /\ \A m \in Mac : net[m] # {} => Known(Store, m) # Nobody
    /\ \A i \in DOMAIN device :
          IF device[i].online THEN device[i].ip \in Answers(i) ELSE Answers(i) = {}
FollowsNetwork == <>[]Settled
=============================================================================
