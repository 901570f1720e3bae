---------------------------- MODULE PolicyStore ----------------------------
(***************************************************************************)
(* Reusable profiles, their assignment to devices, and the rules of        *)
(* profiles and devices: manager/group_manager.py, manager/rule_manager.py *)
(* and the two pages that edit them, gui/profiles_page.py and              *)
(* gui/rules_page.py, while gui/devices_page.py deletes devices.           *)
(*                                                                         *)
(* A request runs in a session that checks what it reads and writes later, *)
(* under SQLite's write lock, what the foreign keys allow; sessions of the *)
(* other pages commit in between.  The profiles page is modelled with what *)
(* it shows, because it decides by it whether to ask; what the rules page  *)
(* shows may be as old as its user likes, and a session of it may come at  *)
(* any time for any row.  Modes, schedules, priorities and descriptions    *)
(* are left out: a request that only changes those writes the same row.    *)
(***************************************************************************)
EXTENDS Naturals, FiniteSetsExt, Functions

CONSTANTS
    Device,  \* ids of devices
    Name,    \* names for profiles
    Clicks,  \* how many changes the user asks the profiles page for (a bound)
    Edits    \* how many sessions the rules page has (a bound)

ASSUME PolicyStoreAssumption == Device # {} /\ Name # {} /\ Clicks \in Nat /\ Edits \in Nat

VARIABLES
    devices,   \* registered devices
    profile,   \* id -> name of a reusable profile
    assigned,  \* device -> id of its profile
    rule,      \* <<table, id>> -> owner and enabled; tables "profile" and "device"
    shown,     \* what the last load of the profiles page read
    unsure,    \* whether its last load failed
    dialog,    \* the request its confirmation dialog is open for
    job,       \* its task: the _busy flag, and how far the task is
    editing,   \* the request of the rules page's session
    removal,   \* the session that deletes a device
    clicks, edits   \* spent bounds

store == <<devices, profile, assigned, rule>>
page == <<shown, unsure, dialog>>
vars == <<store, page, job, editing, removal, clicks, edits>>

ProfileId == 1 .. Clicks + 2
RuleKey == {"profile", "device"} \X (1 .. Edits + 1)
Owner == ({"profile"} \X ProfileId) \cup ({"device"} \X Device)

NextId(used) == 1 + Max({0} \cup used)    \* SQLite reuses the last ids
Exists(owner) == IF owner[1] = "profile" THEN owner[2] \in DOMAIN profile ELSE owner[2] \in devices
RulesOf(owner) == {k \in DOMAIN rule : rule[k].owner = owner}
With(f, x, y) == [z \in DOMAIN f \cup {x} |-> IF z = x THEN y ELSE f[z]]
Without(f, S) == Restrict(f, DOMAIN f \ S)

Nothing == [op |-> "none"]
Free == [stage |-> "free", req |-> Nothing]
Load == [stage |-> "load", req |-> Nothing]
Contents == [profiles |-> DOMAIN profile, assigned |-> assigned, devices |-> devices]

(* A rule, and no profile or two of them; the page loads what there is.    *)
Init ==
    /\ devices = Device
    /\ profile \in {f \in UNION {[1 .. n -> Name] : n \in {0, 2}} : IsInjective(f)}
    /\ assigned \in UNION {[S -> DOMAIN profile] : S \in SUBSET Device}
    /\ \E owner \in {o \in Owner : Exists(o)} :
          rule = [k \in {<<owner[1], 1>>} |-> [owner |-> owner, enabled |-> TRUE]]
    /\ shown = [profiles |-> {}, assigned |-> << >>, devices |-> {}]
    /\ unsure = FALSE
    /\ dialog = Nothing /\ job = Load
    /\ editing = Nothing /\ removal = Nothing
    /\ clicks = 0 /\ edits = 0
-----------------------------------------------------------------------------
(* Managers: what a session checks when it reads, and what it writes.      *)

(* GroupManager.save *)
SaveAllowed(req) ==
    /\ \A i \in DOMAIN profile : profile[i] = req.name => i = req.id
    /\ req.id # 0 => req.id \in DOMAIN profile
SaveProfile(req) ==
    /\ profile' = With(profile, IF req.id = 0 THEN NextId(DOMAIN profile) ELSE req.id, req.name)
    /\ UNCHANGED <<assigned, rule>>

(* GroupManager.assign: a device has one profile until it is unassigned.   *)
AssignAllowed(req) ==
    /\ req.id \in DOMAIN profile /\ req.device \in devices
    /\ req.device \in DOMAIN assigned => assigned[req.device] = req.id
Assign(req) ==
    /\ assigned' = With(assigned, req.device, req.id)
    /\ UNCHANGED <<profile, rule>>

(* Seeded fault: whatever is assigned to the device is taken away. *)
UnassignAny(req) == req.device \in DOMAIN assigned

(* GroupManager.unassign *)
UnassignAllowed(req) == req.device \in DOMAIN assigned /\ assigned[req.device] = req.id
Unassign(req) ==
    /\ assigned' = Without(assigned, {req.device})
    /\ UNCHANGED <<profile, rule>>

(* GroupManager.delete; the rules of a profile go with it. *)
DeleteAllowed(req) == req.id \in DOMAIN profile /\ req.id \notin Range(assigned)
DeleteProfile(req) ==
    /\ profile' = Without(profile, {req.id})
    /\ rule' = Without(rule, RulesOf(<<"profile", req.id>>))
    /\ UNCHANGED assigned

(* RuleManager.create_rule, in the table of its target; every new rule is  *)
(* enabled here, as the form proposes.                                     *)
CreateRule(req) ==
    LET key == <<req.owner[1], NextId({k[2] : k \in {j \in DOMAIN rule : j[1] = req.owner[1]}})>>
    IN /\ rule' = With(rule, key, [owner |-> req.owner, enabled |-> TRUE])
       /\ UNCHANGED <<profile, assigned>>

(* RuleManager.update_rule and set_enabled. *)
ChangeRule(req) ==
    /\ rule' = [rule EXCEPT ![req.key].enabled = req.enabled]
    /\ UNCHANGED <<profile, assigned>>

(* RuleManager.delete_rule; a row that is gone is not missed. *)
DeleteRule(req) ==
    /\ rule' = Without(rule, {req.key})
    /\ UNCHANGED <<profile, assigned>>

Allowed(req) ==
    CASE req.op = "save" -> SaveAllowed(req)
      [] req.op = "assign" -> AssignAllowed(req)
      [] req.op = "unassign" -> UnassignAllowed(req)
      [] req.op = "delete" -> DeleteAllowed(req)
      [] req.op = "create rule" -> Exists(req.owner)
      [] OTHER -> req.key \in DOMAIN rule

(* Seeded fault: foreign keys are not enforced. *)
AcceptedUnlinked(req) == req.op = "change rule" => req.key \in DOMAIN rule

(* What the commit refuses although the session's reads allowed it: a key  *)
(* that refers to a row which is gone or is taken, an update of such a row. *)
Accepted(req) ==
    CASE req.op = "assign" -> req.device \in devices
      [] req.op = "create rule" -> Exists(req.owner)
      [] req.op \in {"unassign", "delete rule"} -> TRUE
      [] OTHER -> Allowed(req)

Apply(req) ==
    \/ req.op = "save" /\ SaveProfile(req)
    \/ req.op = "assign" /\ Assign(req)
    \/ req.op = "unassign" /\ Unassign(req)
    \/ req.op = "delete" /\ DeleteProfile(req)
    \/ req.op = "create rule" /\ CreateRule(req)
    \/ req.op = "change rule" /\ ChangeRule(req)
    \/ req.op = "delete rule" /\ DeleteRule(req)
-----------------------------------------------------------------------------
(* The profiles page, on the main loop.                                    *)

(* What the user can ask for, with some rows and devices.                  *)
Requests(profiles, known) ==
    [op : {"save"}, id : {0} \cup profiles, name : Name, confirmed : {FALSE}]
    \cup [op : {"assign", "unassign"}, id : profiles, device : known, confirmed : {FALSE}]
    \cup [op : {"delete"}, id : profiles, confirmed : {FALSE}]

(* _mutate: ignored while the page has a task.                             *)
Mutate(req) == job' = IF job = Free THEN [stage |-> "begin", req |-> req] ELSE job

(* Only saving a profile that no device is seen to use needs no answer.    *)
Asks(req) == req.op = "save" => req.id \in Range(shown.assigned)

(* A button of the page; its dialogs are modal.                            *)
Click(req) ==
    /\ dialog = Nothing
    /\ clicks < Clicks /\ clicks' = clicks + 1
    /\ IF Asks(req) THEN dialog' = req /\ UNCHANGED job ELSE Mutate(req) /\ UNCHANGED dialog
    /\ UNCHANGED <<store, shown, unsure, editing, removal, edits>>

Respond ==
    /\ dialog # Nothing /\ dialog' = Nothing
    /\ Mutate([dialog EXCEPT !.confirmed = TRUE]) \/ UNCHANGED job
    /\ UNCHANGED <<store, shown, unsure, editing, removal, clicks, edits>>

PageOnly == UNCHANGED <<store, dialog, editing, removal, clicks, edits>>

Refresh ==
    /\ dialog = Nothing
    /\ job = Free /\ job' = Load
    /\ UNCHANGED <<shown, unsure>> /\ PageOnly

Loaded ==
    /\ job.stage = "loaded" /\ job' = Free
    /\ shown' = job.req /\ unsure' = FALSE
    /\ PageOnly

(* Seeded fault: the page does not look at what it has changed. *)
SavedOnly ==
    /\ job.stage = "saved" /\ job' = Free
    /\ UNCHANGED <<shown, unsure>> /\ PageOnly

(* _saved: the page is freed and busy again with its next load in one step. *)
Saved ==
    /\ job.stage = "saved" /\ job' = Load
    /\ UNCHANGED <<shown, unsure>> /\ PageOnly

(* _failed: what was shown stays, although a change may have preceded it.  *)
Failed ==
    /\ job.stage = "failed" /\ job' = Free
    /\ unsure' = (unsure \/ job.req = Nothing)
    /\ UNCHANGED shown /\ PageOnly
-----------------------------------------------------------------------------
(* The page's worker.                                                      *)
Advance(stage) == job' = [job EXCEPT !.stage = stage]
Elsewhere == UNCHANGED <<page, editing, removal, clicks, edits>>

(* _load; a device may be gone when the devices are read, none is new, and *)
(* only this page assigns: one step for its sessions loses nothing.        *)
Read ==
    /\ job.stage = "load" /\ job' = [stage |-> "loaded", req |-> Contents]
    /\ UNCHANGED store /\ Elsewhere

Check ==
    /\ job.stage = "begin"
    /\ Advance(IF Allowed(job.req) THEN "write" ELSE "failed")
    /\ UNCHANGED store /\ Elsewhere

Write ==
    /\ job.stage = "write"
    /\ IF Accepted(job.req)
       THEN Apply(job.req) /\ Advance("saved") /\ UNCHANGED devices
       ELSE Advance("failed") /\ UNCHANGED store
    /\ Elsewhere

(* A locked or unreadable database; nothing of the session is kept.        *)
Raise ==
    /\ job.stage \in {"load", "write"} /\ Advance("failed")
    /\ UNCHANGED store /\ Elsewhere
-----------------------------------------------------------------------------
(* The sessions of the other pages.                                        *)

(* _save, _toggle and _delete of the rules page.                           *)
RuleRequests ==
    [op : {"create rule"}, owner : Owner]
    \cup [op : {"change rule"}, key : RuleKey, enabled : BOOLEAN]
    \cup [op : {"delete rule"}, key : RuleKey]

BeginEdit(req) ==
    /\ editing = Nothing
    /\ edits < Edits /\ edits' = edits + 1
    /\ Allowed(req)
    /\ editing' = req
    /\ UNCHANGED <<store, page, job, removal, clicks>>

EndEdit ==
    /\ editing # Nothing /\ editing' = Nothing
    /\ IF Accepted(editing) THEN Apply(editing) /\ UNCHANGED devices ELSE UNCHANGED store
    /\ UNCHANGED <<page, job, removal, clicks, edits>>

(* DeviceManager.delete_device loads the rules it deletes with the device. *)
BeginRemoval(d) ==
    /\ removal = Nothing /\ d \in devices
    /\ removal' = [op |-> "remove", device |-> d, rules |-> RulesOf(<<"device", d>>)]
    /\ UNCHANGED <<store, page, job, editing, clicks, edits>>

(* A rule made since then keeps the device; an assignment does not.        *)
EndRemoval ==
    /\ removal # Nothing /\ removal' = Nothing
    /\ IF RulesOf(<<"device", removal.device>>) \subseteq removal.rules
       THEN /\ devices' = devices \ {removal.device}
            /\ assigned' = Without(assigned, {removal.device})
            /\ rule' = Without(rule, removal.rules)
            /\ UNCHANGED profile
       ELSE UNCHANGED store
    /\ UNCHANGED <<page, job, editing, clicks, edits>>
-----------------------------------------------------------------------------
Next ==
    \/ \E req \in Requests(shown.profiles, shown.devices) : Click(req)
    \/ Respond \/ Refresh \/ Loaded \/ Saved \/ Failed
    \/ Read \/ Check \/ Write \/ Raise
    \/ \E req \in RuleRequests : BeginEdit(req)
    \/ EndEdit
    \/ \E d \in Device : BeginRemoval(d)
    \/ EndRemoval

Spec == Init /\ [][Next]_vars
-----------------------------------------------------------------------------
TypeOK ==
    /\ devices \subseteq Device
    /\ DOMAIN profile \subseteq ProfileId /\ Range(profile) \subseteq Name
    /\ DOMAIN assigned \subseteq Device /\ Range(assigned) \subseteq ProfileId
    /\ DOMAIN rule \subseteq RuleKey
    /\ \A k \in DOMAIN rule : rule[k].owner \in Owner
    /\ unsure \in BOOLEAN
    /\ job.stage \in {"free", "load", "loaded", "begin", "write", "saved", "failed"}
    /\ clicks \in 0 .. Clicks /\ edits \in 0 .. Edits

(* The tables at every moment, well typed: every row refers to a row that  *)
(* exists, in the table of its kind, and names are unique, although a      *)
(* session checks that before it holds the write lock (assign, unassign    *)
(* and delete of group_manager.py, the changes of rule_manager.py).        *)
TablesLinked ==
    /\ TypeOK
    /\ IsInjective(profile)
    /\ DOMAIN assigned \subseteq devices /\ Range(assigned) \subseteq DOMAIN profile
    /\ \A k \in DOMAIN rule : rule[k].owner[1] = k[1] /\ Exists(rule[k].owner)

(* A profile that devices use is changed only after the user was asked     *)
(* whether to apply the change to every one of them (_save of the          *)
(* profiles page), although what the page knows of the assignments is as   *)
(* old as its last load.  Only a load that failed leaves it unaware.       *)
ConfirmedWhenAssigned ==
    [][\A i \in DOMAIN profile \cap Range(assigned) :
          job.stage = "write" /\ job'.stage = "saved" /\ job.req.op = "save" /\ job.req.id = i
             => job.req.confirmed \/ unsure]_vars

(* The confirmed request that a worker carries out for the profiles page.  *)
Asked(op, d, i) ==
    job.req.op = op /\ job.req.device = d /\ job.req.id = i /\ job.req.confirmed

(* Which profile a device has changes only as the user asked: from none to *)
(* the confirmed one, from the confirmed one to none, or with the device;  *)
(* no operation on another profile, device or rule touches it, and no step *)
(* leads from one profile to another.                                      *)
AsAsked ==
    \A d \in devices' :
        /\ d \in DOMAIN assigned' /\ (d \notin DOMAIN assigned \/ assigned'[d] # assigned[d]) =>
               d \notin DOMAIN assigned /\ Asked("assign", d, assigned'[d])
        /\ d \in DOMAIN assigned \ DOMAIN assigned' => Asked("unassign", d, assigned[d])
AssignmentChangesAsAsked == [][AsAsked]_vars
=============================================================================
