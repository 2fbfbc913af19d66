----------------------------- MODULE Deployment -----------------------------
(***************************************************************************)
(* Profile deployment in Cairn: the admin console's groups and profile     *)
(* library, the assignment reconciler (internal/assign), the Commander     *)
(* (internal/mdmcore/commands.go), the check-in event service              *)
(* (internal/mdmcore/events.go) and the tables they share                  *)
(* (internal/storage/sqlite).  NanoMDM's command queue, APNs and the       *)
(* devices are external and modelled by how Cairn uses them.               *)
(*                                                                         *)
(* SQL tables are sets of records.  Each SQL statement is one step: the    *)
(* process has one connection (sqlite.Open, MaxOpenConns(1)), so single    *)
(* statements are atomic and nothing larger is.                            *)
(***************************************************************************)
EXTENDS Naturals

CONSTANTS
    Devices,      \* enrollment IDs
    Groups,       \* device groups (row ids)
    Identifiers,  \* PayloadIdentifiers of library profiles
    Workers,      \* goroutines and requests that may be sending at once
    Ticks,        \* ms the clock may advance between two profile uploads
    Budgets,      \* bound: a behaviour stays within one of these, which say how
                  \* often each kind of request happens and how many faults
    None          \* no value

\* Admin requests and check-in messages, by kind.
EventKinds == {"group", "member", "assign", "withdraw", "save", "delete",
               "manual", "authenticate", "token", "checkout"}

ASSUME DeploymentAssumption ==
    /\ Ticks \subseteq Nat
    /\ Budgets \subseteq [EventKinds \cup {"fault"} -> Nat]

VARIABLES
    groups,         \* table groups: the ids present
    groupDevices,   \* table group_devices
    groupProfiles,  \* table group_profiles
    profiles,       \* table profiles
    devices,        \* table devices (the projection)
    deploys,        \* table profile_deploys
    history,        \* table command_history
    commands,       \* NanoMDM: every command ever enqueued
    issued,         \* CommandUUIDs generated so far
    queue,          \* NanoMDM: per device, the uuids still queued
    deferred,       \* NanoMDM: uuids answered NotNow
    enroll,         \* device: enrollment state
    has,            \* device: content of each profile on it, 0 for none
    exec,           \* device: the command it is executing, 0 for none
    answers,        \* device: its final results
    conn,           \* CommandAndReportResults in progress, per device
    worker,         \* reconciler goroutines and console requests
    clock,          \* wall clock in ms, as profile uploads see it
    saves,          \* uploads so far; names each uploaded content
    events,         \* requests so far, by kind
    faults          \* failed calls and process crashes so far

library == <<groups, groupDevices, groupProfiles, profiles>>
nano    == <<commands, issued, queue, deferred>>
device  == <<enroll, has, exec, answers>>
vars    == <<groups, groupDevices, groupProfiles, profiles, devices, deploys,
             history, commands, issued, queue, deferred, enroll, has, exec,
             answers, conn, worker, clock, saves, events, faults>>

-----------------------------------------------------------------------------
\* Row and message types.

Profile == [id: Nat, identifier: Identifiers, rev: Nat, stamp: Nat]
Device  == [id: Devices, out: BOOLEAN, token: BOOLEAN]
Deploy  == [device: Devices, profile: Nat, uuid: Nat, stamp: Nat,
            status: {"sent", "installed", "failed"}]

\* CommandFormatError is handled as Error everywhere and is merged with it.
Final   == {"Acknowledged", "Error"}
History == [uuid: Nat, device: Devices,
            status: Final \union {"Sent", "NotNow"}]

\* "assigned": sent by the reconciler; "install", "remove": sent from the
\* device page.  stamp and profile are what the sender knows, not on the wire.
Kinds   == {"assigned", "install", "remove"}
Command == [uuid: Nat, device: Devices, kind: Kinds, profile: Nat,
            identifier: Identifiers, rev: Nat, stamp: Nat]
Answer  == [uuid: Nat, status: Final]

\* The locals of ReconcileGroup, ReconcileDevice and the Commander.
Worker  == [pc: {"idle", "group", "read", "send", "push", "mark"},
            kind: Kinds, group: Groups \union {None}, devs: SUBSET Devices,
            dev: Devices \union {None}, todo: SUBSET Profile,
            job: Profile \union {None}, uuid: Nat]
Conn    == [pc: {"none", "history", "deploy"}, uuid: Nat,
            status: Final \union {"NotNow"}, next: Nat]

IdleWorker == [pc |-> "idle", kind |-> "assigned", group |-> None, devs |-> {},
               dev |-> None, todo |-> {}, job |-> None, uuid |-> 0]
NoConn     == [pc |-> "none", uuid |-> 0, status |-> "NotNow", next |-> 0]

Init ==
    /\ groups \in SUBSET Groups
    /\ groupDevices = {}
    /\ groupProfiles = {}
    /\ profiles = {}
    /\ devices = {}
    /\ deploys = {}
    /\ history = {}
    /\ commands = {}
    /\ issued = 0
    /\ queue = [d \in Devices |-> {}]
    /\ deferred = {}
    /\ enroll = [d \in Devices |-> "out"]
    /\ has = [d \in Devices |-> [n \in Identifiers |-> 0]]
    /\ exec = [d \in Devices |-> 0]
    /\ answers = {}
    /\ conn = [d \in Devices |-> NoConn]
    /\ worker = [w \in Workers |-> IdleWorker]
    /\ clock = 0
    /\ saves = 0
    /\ events = [k \in EventKinds |-> 0]
    /\ faults = 0

-----------------------------------------------------------------------------
\* Bounds.

Within(used, failed) ==
    \E b \in Budgets : failed <= b["fault"] /\ \A k \in EventKinds : used[k] <= b[k]

Event(k) == /\ events' = [events EXCEPT ![k] = @ + 1]
            /\ Within(events', faults)
Fault == faults' = faults + 1 /\ Within(events, faults')

-----------------------------------------------------------------------------
\* Queries.

\* The devices of a group the projection calls pushable.
GroupDeviceIDs(g) ==
    {r.id : r \in {x \in devices : /\ <<g, x.id>> \in groupDevices
                                   /\ ~x.out
                                   /\ x.token}}

Assigned(d, i) == \E g \in groups : /\ <<g, d>> \in groupDevices
                                    /\ <<g, i>> \in groupProfiles

\* Assigned profiles with no deploy row, or one for another upload.
ProfilesToDeploy(d) ==
    {p \in profiles : /\ Assigned(d, p.id)
                      /\ \A r \in deploys : (r.device = d /\ r.profile = p.id)
                                               => r.stamp # p.stamp}

\* The row id SQLite gives a new profile: one more than the largest present
\* (INTEGER PRIMARY KEY without AUTOINCREMENT, so ids are reused).
IsNextRowid(i) == /\ \A p \in profiles : p.id < i
                  /\ i = 1 \/ \E p \in profiles : p.id + 1 = i

-----------------------------------------------------------------------------
\* Starting work: a goroutine or a request takes a free worker.

Spawn(local) == \E w \in Workers :
    /\ worker[w].pc = "idle"
    /\ worker' = [worker EXCEPT ![w] = local]

ReconcileDevice(d) == Spawn([IdleWorker EXCEPT !.pc = "read", !.devs = {d}])
ReconcileGroup(g)  == Spawn([IdleWorker EXCEPT !.pc = "group", !.group = g])

-----------------------------------------------------------------------------
\* Admin console: groups.

CreateGroup(g) ==
    /\ g \notin groups
    /\ Event("group")
    /\ groups' = groups \union {g}
    /\ UNCHANGED <<groupDevices, groupProfiles, profiles, devices, deploys,
                   history, nano, device, conn, worker, clock, saves, faults>>

DeleteGroup(g) ==
    /\ g \in groups
    /\ Event("group")
    /\ groups' = groups \ {g}
    /\ groupDevices' = {x \in groupDevices : x[1] # g}
    /\ groupProfiles' = {x \in groupProfiles : x[1] # g}
    /\ UNCHANGED <<profiles, devices, deploys, history, nano, device, conn,
                   worker, clock, saves, faults>>

\* handleGroupDeviceChange, action=add: insert, then reconcile the device
\* whether or not it is enrolled.
AddDeviceToGroup(g, d) ==
    /\ g \in groups
    /\ Event("member")
    /\ groupDevices' = groupDevices \union {<<g, d>>}
    /\ ReconcileDevice(d)
    /\ UNCHANGED <<groups, groupProfiles, profiles, devices, deploys, history,
                   nano, device, conn, clock, saves, faults>>

RemoveDeviceFromGroup(g, d) ==
    /\ <<g, d>> \in groupDevices
    /\ Event("withdraw")
    /\ groupDevices' = groupDevices \ {<<g, d>>}
    /\ UNCHANGED <<groups, groupProfiles, profiles, devices, deploys, history,
                   nano, device, conn, worker, clock, saves, faults>>

\* handleGroupProfileChange, action=assign: insert (the foreign key refuses a
\* profile that is gone), then reconcile the whole group.
AssignProfile(g, i) ==
    /\ g \in groups
    /\ \E p \in profiles : p.id = i
    /\ Event("assign")
    /\ groupProfiles' = groupProfiles \union {<<g, i>>}
    /\ ReconcileGroup(g)
    /\ UNCHANGED <<groups, groupDevices, profiles, devices, deploys, history,
                   nano, device, conn, clock, saves, faults>>

UnassignProfile(g, i) ==
    /\ <<g, i>> \in groupProfiles
    /\ Event("withdraw")
    /\ groupProfiles' = groupProfiles \ {<<g, i>>}
    /\ UNCHANGED <<groups, groupDevices, profiles, devices, deploys, history,
                   nano, device, conn, worker, clock, saves, faults>>

-----------------------------------------------------------------------------
\* Admin console: the profile library.

\* Upsert by PayloadIdentifier; updated_at is the clock in ms.  No reconcile
\* is started by an upload.
SaveProfile(n) ==
    /\ Event("save")
    /\ \E t \in Ticks : clock' = clock + t
    /\ saves' = saves + 1
    /\ \/ \E p \in profiles :
            /\ p.identifier = n
            /\ profiles' = (profiles \ {p}) \union
                             {[p EXCEPT !.rev = saves', !.stamp = clock']}
       \/ /\ \A p \in profiles : p.identifier # n
          /\ \E i \in 1..(saves + 1) :
               /\ IsNextRowid(i)
               /\ profiles' = profiles \union
                    {[id |-> i, identifier |-> n, rev |-> saves',
                      stamp |-> clock']}
    /\ UNCHANGED <<groups, groupDevices, groupProfiles, devices, deploys,
                   history, nano, device, conn, worker, faults>>

\* Delete; group_profiles and profile_deploys cascade.
DeleteProfile(p) ==
    /\ p \in profiles
    /\ Event("delete")
    /\ profiles' = profiles \ {p}
    /\ groupProfiles' = {x \in groupProfiles : x[2] # p.id}
    /\ deploys' = {r \in deploys : r.profile # p.id}
    /\ UNCHANGED <<groups, groupDevices, devices, history, nano, device, conn,
                   worker, clock, saves, faults>>

-----------------------------------------------------------------------------
\* Admin console: one-off commands from the device page.

\* handleDeviceInstall: the row is read, then queued, pushed and recorded.
HandleDeviceInstall(d, p) ==
    /\ p \in profiles
    /\ Event("manual")
    /\ Spawn([IdleWorker EXCEPT !.pc = "send", !.kind = "install",
                                !.dev = d, !.todo = {p}])
    /\ UNCHANGED <<library, devices, deploys, history, nano, device, conn,
                   clock, saves, faults>>

\* handleDeviceRemove: only the identifier is given, no row is read.
HandleDeviceRemove(d, n) ==
    /\ Event("manual")
    /\ Spawn([IdleWorker EXCEPT !.pc = "send", !.kind = "remove", !.dev = d,
                !.todo = {[id |-> 0, identifier |-> n, rev |-> 0,
                           stamp |-> 0]}])
    /\ UNCHANGED <<library, devices, deploys, history, nano, device, conn,
                   clock, saves, faults>>

-----------------------------------------------------------------------------
\* Check-in messages.  NanoMDM's own work comes first; the projection that
\* follows is best effort, so a failed write leaves the devices row as it was.

\* DeviceEnrolled: upsert clearing the checkout; the token mark is kept.
DeviceEnrolled(d) ==
    devices' = IF \E r \in devices : r.id = d
               THEN {IF r.id = d THEN [r EXCEPT !.out = FALSE] ELSE r :
                        r \in devices}
               ELSE devices \union {[id |-> d, out |-> FALSE, token |-> FALSE]}

DeviceTokenUpdated(d) ==
    devices' = {IF r.id = d THEN [r EXCEPT !.out = FALSE, !.token = TRUE]
                ELSE r : r \in devices}

DeviceCheckedOut(d) ==
    devices' = {IF r.id = d THEN [r EXCEPT !.out = TRUE] ELSE r : r \in devices}

\* The projection write of a check-in, or its failure.
Project(write) == \/ write /\ UNCHANGED faults
                  \/ Fault /\ UNCHANGED devices

\* A new enrollment: NanoMDM clears the queue, the device starts without
\* managed profiles.
Authenticate(d) ==
    /\ conn[d].pc = "none"
    /\ Event("authenticate")
    /\ enroll' = [enroll EXCEPT ![d] = "authenticated"]
    /\ queue' = [queue EXCEPT ![d] = {}]
    /\ has' = [has EXCEPT ![d] = [n \in Identifiers |-> 0]]
    /\ exec' = [exec EXCEPT ![d] = 0]
    /\ Project(DeviceEnrolled(d))
    /\ UNCHANGED <<library, deploys, history, commands, issued, deferred,
                   answers, conn, worker, clock, saves>>

\* Mutant: the became-pushable hook is not run.
TokenUpdateNoHook(d) ==
    /\ conn[d].pc = "none"
    /\ enroll[d] # "out"
    /\ Event("token")
    /\ enroll' = [enroll EXCEPT ![d] = "enrolled"]
    /\ Project(DeviceTokenUpdated(d))
    /\ UNCHANGED <<library, deploys, history, nano, has, exec, answers, conn,
                   worker, clock, saves>>

\* The device is pushable from here on; the hook runs in a goroutine.
TokenUpdate(d) ==
    /\ conn[d].pc = "none"
    /\ enroll[d] # "out"
    /\ Event("token")
    /\ enroll' = [enroll EXCEPT ![d] = "enrolled"]
    /\ Project(DeviceTokenUpdated(d))
    /\ ReconcileDevice(d)
    /\ UNCHANGED <<library, deploys, history, nano, has, exec, answers, conn,
                   clock, saves>>

CheckOut(d) ==
    /\ conn[d].pc = "none"
    /\ enroll[d] # "out"
    /\ Event("checkout")
    /\ enroll' = [enroll EXCEPT ![d] = "out"]
    /\ has' = [has EXCEPT ![d] = [n \in Identifiers |-> 0]]
    /\ exec' = [exec EXCEPT ![d] = 0]
    /\ Project(DeviceCheckedOut(d))
    /\ UNCHANGED <<library, deploys, history, nano, answers, conn, worker,
                   clock, saves>>

-----------------------------------------------------------------------------
\* Command delivery and results.

\* NanoMDM hands out the oldest queued command; right after a NotNow it passes
\* over the deferred ones.  uuids are numbered in the order of enqueueing.
IsNextCommand(u, q) == \/ u = 0 /\ q = {}
                       \/ u \in q /\ \A v \in q : u <= v

\* The device polls with status Idle and is given the next command.
Idle(d) ==
    /\ enroll[d] = "enrolled"
    /\ exec[d] = 0
    /\ conn[d].pc = "none"
    /\ \E u \in queue[d] : /\ IsNextCommand(u, queue[d])
                           /\ exec' = [exec EXCEPT ![d] = u]
    /\ UNCHANGED <<library, devices, deploys, history, nano, enroll, has,
                   answers, conn, worker, clock, saves, events, faults>>

\* What executing command c with the given result leaves on the device.
Execute(d, c, status) ==
    IF status = "Acknowledged" THEN [has EXCEPT ![d][c.identifier] = c.rev]
                               ELSE has

\* The device executes its command and posts the result.  NanoMDM stores it
\* and picks the next command before Cairn's event service sees the result.
\* A result posted before is posted again when its response was lost.
Report(d, status) ==
    /\ conn[d].pc = "none"
    /\ \E c \in commands :
        /\ c.uuid = exec[d]
        /\ \/ /\ \A a \in answers : a.uuid # c.uuid
              /\ has' = Execute(d, c, status)
           \/ /\ [uuid |-> c.uuid, status |-> status] \in answers
              /\ UNCHANGED has
        /\ \/ /\ status \in Final
              /\ answers' = answers \union {[uuid |-> c.uuid, status |-> status]}
              /\ queue' = [queue EXCEPT ![d] = queue[d] \ {c.uuid}]
              /\ UNCHANGED deferred
           \/ /\ status = "NotNow"
              /\ deferred' = deferred \union {c.uuid}
              /\ UNCHANGED <<answers, queue>>
        /\ \E u \in queue[d] \union {0} :
            /\ IsNextCommand(u, IF status = "NotNow" THEN queue[d] \ deferred'
                                                     ELSE queue'[d])
            /\ conn' = [conn EXCEPT ![d] = [pc |-> "history", uuid |-> c.uuid,
                                            status |-> status, next |-> u]]
    /\ UNCHANGED <<library, devices, deploys, history, commands, issued, enroll,
                   exec, worker, clock, saves, events, faults>>

\* The HTTP response: the device gets its next command.
Respond(d) == /\ exec' = [exec EXCEPT ![d] = conn[d].next]
              /\ conn' = [conn EXCEPT ![d] = NoConn]

\* Mutant: NotNow falls through to the deploy row.
ResultHistoryNoReturn(d) ==
    /\ conn[d].pc = "history"
    /\ history' = {IF r.uuid = conn[d].uuid /\ r.device = d
                   THEN [r EXCEPT !.status = conn[d].status] ELSE r : r \in history}
    /\ conn' = [conn EXCEPT ![d].pc = "deploy"]
    /\ UNCHANGED <<library, devices, deploys, nano, enroll, has, exec, answers,
                   worker, clock, saves, events, faults>>

\* CommandResult, first statement.  A NotNow returns here, and so does an error.
ResultHistory(d) ==
    /\ conn[d].pc = "history"
    /\ \/ /\ history' = {IF r.uuid = conn[d].uuid /\ r.device = d
                         THEN [r EXCEPT !.status = conn[d].status] ELSE r :
                            r \in history}
          /\ \/ /\ conn[d].status \in Final
                /\ conn' = [conn EXCEPT ![d].pc = "deploy"]
                /\ UNCHANGED exec
             \/ /\ conn[d].status = "NotNow"
                /\ Respond(d)
          /\ UNCHANGED faults
       \/ /\ Fault
          /\ Respond(d)
          /\ UNCHANGED history
    /\ UNCHANGED <<library, devices, deploys, nano, enroll, has, answers,
                   worker, clock, saves, events>>

\* Mutant: the command status is stored as it came.
DeployStatusRaw(status) == status

DeployStatus(status) ==
    IF status = "Acknowledged" THEN "installed" ELSE "failed"

\* Mutant: the WHERE clause names only the device.
ResultDeployAnyCommand(d) ==
    /\ conn[d].pc = "deploy"
    /\ deploys' = {IF r.device = d
                   THEN [r EXCEPT !.status = DeployStatus(conn[d].status)]
                   ELSE r : r \in deploys}
    /\ Respond(d)
    /\ UNCHANGED <<library, devices, history, nano, enroll, has, answers,
                   worker, clock, saves, events, faults>>

\* CommandResult, second statement: resolve the deploy row of this command.
ResultDeploy(d) ==
    /\ conn[d].pc = "deploy"
    /\ \/ /\ deploys' = {IF r.uuid = conn[d].uuid /\ r.device = d
                         THEN [r EXCEPT !.status = DeployStatus(conn[d].status)]
                         ELSE r : r \in deploys}
          /\ UNCHANGED faults
       \/ /\ Fault
          /\ UNCHANGED deploys
    /\ Respond(d)
    /\ UNCHANGED <<library, devices, history, nano, enroll, has, answers,
                   worker, clock, saves, events>>

\* After a lost response the device may also drop the result it had posted.
DropReport(d) ==
    /\ conn[d].pc = "none"
    /\ \E a \in answers : a.uuid = exec[d]
    /\ exec' = [exec EXCEPT ![d] = 0]
    /\ UNCHANGED <<library, devices, deploys, history, nano, enroll, has,
                   answers, conn, worker, clock, saves, events, faults>>

-----------------------------------------------------------------------------
\* The reconciler and the Commander.

\* Where a goroutine goes on once it is done with its current profile.
Resume(local) ==
    IF local.todo # {} THEN [local EXCEPT !.pc = "send", !.job = None, !.uuid = 0]
    ELSE IF local.devs # {}
         THEN [local EXCEPT !.pc = "read", !.dev = None, !.job = None, !.uuid = 0]
         ELSE IdleWorker

Set(w, local) == worker' = [worker EXCEPT ![w] = local]
NextJob(w) == Set(w, Resume([worker[w] EXCEPT !.todo = @ \ {worker[w].job}]))

\* ReconcileGroup: the fan-out set is read once.
ReadGroup(w) ==
    /\ worker[w].pc = "group"
    /\ \/ /\ Set(w, Resume([worker[w] EXCEPT
                        !.devs = GroupDeviceIDs(worker[w].group),
                        !.group = None]))
          /\ UNCHANGED faults
       \/ Fault /\ Set(w, IdleWorker)
    /\ UNCHANGED <<library, devices, deploys, history, nano, device, conn,
                   clock, saves, events>>

\* ReconcileDevice: read what the device is missing; an error skips the device.
ReadProfiles(w) ==
    /\ worker[w].pc = "read"
    /\ \E d \in worker[w].devs :
        LET rest == [worker[w] EXCEPT !.devs = @ \ {d}]
        IN  \/ /\ Set(w, Resume([rest EXCEPT !.dev = d,
                                             !.todo = ProfilesToDeploy(d)]))
               /\ UNCHANGED faults
            \/ Fault /\ Set(w, Resume(rest))
    /\ UNCHANGED <<library, devices, deploys, history, nano, device, conn,
                   clock, saves, events>>

\* A CommandUUID never used before.
NewUUID == issued + 1

\* EnqueueCommand; an error drops the profile for this pass.
EnqueueCommand(w) ==
    /\ worker[w].pc = "send"
    /\ \E p \in worker[w].todo :
        \/ /\ commands' = commands \union
                {[uuid |-> NewUUID, device |-> worker[w].dev,
                  kind |-> worker[w].kind, profile |-> p.id,
                  identifier |-> p.identifier, rev |-> p.rev,
                  stamp |-> p.stamp]}
           /\ issued' = NewUUID
           /\ queue' = [queue EXCEPT ![worker[w].dev] = @ \union {NewUUID}]
           /\ Set(w, [worker[w] EXCEPT !.pc = "push", !.job = p,
                                       !.uuid = NewUUID])
           /\ UNCHANGED faults
        \/ /\ Fault
           /\ Set(w, Resume([worker[w] EXCEPT !.todo = @ \ {p}]))
           /\ UNCHANGED <<commands, issued, queue>>
    /\ UNCHANGED <<library, devices, deploys, history, deferred, device, conn,
                   clock, saves, events>>

\* Mutant: a failed push is recorded as the command's result.
PushFailsAsResult(w) ==
    /\ worker[w].pc = "push"
    /\ Fault
    /\ history' = history \union {[uuid |-> worker[w].uuid,
                                   device |-> worker[w].dev, status |-> "Error"]}
    /\ NextJob(w)
    /\ UNCHANGED <<library, devices, deploys, nano, device, conn, clock, saves,
                   events>>

\* The APNs push fails.  The error is returned although the command is already
\* queued: no history row and no deploy row are written.
PushFails(w) ==
    /\ worker[w].pc = "push"
    /\ Fault
    /\ NextJob(w)
    /\ UNCHANGED <<library, devices, deploys, history, nano, device, conn,
                   clock, saves, events>>

\* Mutants: the reconciler's sends bypass the recorder.
CommandSentUnrecorded(w) ==
    /\ worker[w].pc = "push"
    /\ Set(w, [worker[w] EXCEPT !.pc = "mark"])
    /\ UNCHANGED <<library, devices, deploys, history, nano, device, conn,
                   clock, saves, events, faults>>

\* The push succeeds and CommandSent inserts the history row unless present.
\* Only the reconciler goes on to mark the deploy.
CommandSent(w) ==
    /\ worker[w].pc = "push"
    /\ \/ /\ history' = IF \E r \in history : /\ r.uuid = worker[w].uuid
                                              /\ r.device = worker[w].dev
                        THEN history
                        ELSE history \union
                               {[uuid |-> worker[w].uuid,
                                 device |-> worker[w].dev, status |-> "Sent"]}
          /\ UNCHANGED faults
       \/ Fault /\ UNCHANGED history
    /\ \/ /\ worker[w].kind = "assigned"
          /\ Set(w, [worker[w] EXCEPT !.pc = "mark"])
       \/ /\ worker[w].kind # "assigned"
          /\ NextJob(w)
    /\ UNCHANGED <<library, devices, deploys, nano, device, conn, clock, saves,
                   events>>

\* Mutants: the upsert keeps the old status; it stamps the row with the profile's
\* present updated_at instead of the one read; it does not check the foreign key.
MarkDeploySentAs(w, row) ==
    LET d == worker[w].dev
        p == worker[w].job
    IN  /\ worker[w].pc = "mark"
        /\ deploys' = {r \in deploys : r.device # d \/ r.profile # p.id} \union
              {[row EXCEPT !.device = d, !.profile = p.id, !.uuid = worker[w].uuid]}
        /\ NextJob(w)
        /\ UNCHANGED <<library, devices, history, nano, device, conn, clock,
                       saves, events, faults>>

NewRow(w) == [device |-> None, profile |-> 0, uuid |-> 0,
              stamp |-> worker[w].job.stamp, status |-> "sent"]

MarkDeploySentKeepsStatus(w) ==
    LET Present == {r \in deploys : /\ r.device = worker[w].dev
                                    /\ r.profile = worker[w].job.id}
    IN  /\ worker[w].pc = "mark"
        /\ \/ \E r \in Present :
                 MarkDeploySentAs(w, [NewRow(w) EXCEPT !.status = r.status])
           \/ Present = {} /\ MarkDeploySentAs(w, NewRow(w))

MarkDeploySentCurrentStamp(w) ==
    /\ worker[w].pc = "mark"
    /\ \E x \in profiles : /\ x.id = worker[w].job.id
                           /\ MarkDeploySentAs(w, [NewRow(w) EXCEPT !.stamp = x.stamp])

MarkDeploySentNoForeignKey(w) ==
    worker[w].pc = "mark" /\ MarkDeploySentAs(w, NewRow(w))

\* MarkDeploySent: upsert by (device, profile id) with the stamp read earlier;
\* the foreign key refuses it when no profile has that id any more.
MarkDeploySent(w) ==
    LET d == worker[w].dev
        p == worker[w].job
    IN  /\ worker[w].pc = "mark"
        /\ \/ /\ \E x \in profiles : x.id = p.id
              /\ deploys' =
                   {r \in deploys : r.device # d \/ r.profile # p.id} \union
                   {[device |-> d, profile |-> p.id, uuid |-> worker[w].uuid,
                     stamp |-> p.stamp, status |-> "sent"]}
              /\ UNCHANGED faults
           \/ /\ \A x \in profiles : x.id # p.id
              /\ UNCHANGED <<deploys, faults>>
           \/ Fault /\ UNCHANGED deploys
        /\ NextJob(w)
        /\ UNCHANGED <<library, devices, history, nano, device, conn, clock,
                       saves, events>>

-----------------------------------------------------------------------------
\* The process dies: goroutines and requests are gone, the tables stay.
Crash ==
    /\ Fault
    /\ \/ \E w \in Workers : worker[w].pc # "idle"
       \/ \E d \in Devices : conn[d].pc # "none"
    /\ worker' = [w \in Workers |-> IdleWorker]
    /\ conn' = [d \in Devices |-> NoConn]
    /\ UNCHANGED <<library, devices, deploys, history, nano, device, clock,
                   saves, events>>

Admin ==
    \/ \E g \in Groups : CreateGroup(g) \/ DeleteGroup(g)
    \/ \E g \in Groups, d \in Devices :
          AddDeviceToGroup(g, d) \/ RemoveDeviceFromGroup(g, d)
    \/ \E g \in Groups, p \in profiles :
          AssignProfile(g, p.id) \/ UnassignProfile(g, p.id)
    \/ \E n \in Identifiers : SaveProfile(n)
    \/ \E p \in profiles : DeleteProfile(p)
    \/ \E d \in Devices, p \in profiles : HandleDeviceInstall(d, p)
    \/ \E d \in Devices, n \in Identifiers : HandleDeviceRemove(d, n)

CheckIn(d) ==
    \/ Authenticate(d) \/ TokenUpdate(d) \/ CheckOut(d)
    \/ Idle(d) \/ DropReport(d)
    \/ \E status \in Final \union {"NotNow"} : Report(d, status)

HandleResult(d) == ResultHistory(d) \/ ResultDeploy(d)

Step(w) == \/ ReadGroup(w) \/ ReadProfiles(w) \/ EnqueueCommand(w)
           \/ PushFails(w) \/ CommandSent(w) \/ MarkDeploySent(w)

Next == \/ Admin
        \/ \E d \in Devices : CheckIn(d) \/ HandleResult(d)
        \/ \E w \in Workers : Step(w)
        \/ Crash

Spec == Init /\ [][Next]_vars

\* A running process schedules every goroutine and every request handler.
Fairness == /\ \A w \in Workers : WF_vars(Step(w))
            /\ \A d \in Devices : WF_vars(HandleResult(d))

FairSpec == Spec /\ Fairness

-----------------------------------------------------------------------------
(***************************************************************************)
(* Properties.                                                             *)
(***************************************************************************)

\* Every table row, queue entry and goroutine-local value has its type.
TypeOK ==
    /\ groups \subseteq Groups
    /\ groupDevices \subseteq Groups \X Devices
    /\ groupProfiles \subseteq Groups \X Nat
    /\ profiles \subseteq Profile
    /\ devices \subseteq Device
    /\ deploys \subseteq Deploy
    /\ history \subseteq History
    /\ commands \subseteq Command
    /\ issued \in Nat
    /\ queue \in [Devices -> SUBSET Nat]
    /\ deferred \subseteq Nat
    /\ enroll \in [Devices -> {"out", "authenticated", "enrolled"}]
    /\ has \in [Devices -> [Identifiers -> Nat]]
    /\ exec \in [Devices -> Nat]
    /\ answers \subseteq Answer
    /\ conn \in [Devices -> Conn]
    /\ worker \in [Workers -> Worker]
    /\ clock \in Nat
    /\ saves \in Nat
    /\ events \in [EventKinds -> Nat]
    /\ faults \in Nat

Answered(u, status) == [uuid |-> u, status |-> status] \in answers

\* A profile_deploys row names a command that the reconciler really sent to
\* that device for that profile id and upload, and the row says installed or
\* failed only when the device gave exactly that answer to that command.
DeployRowsHonest ==
    \A r \in deploys :
        /\ \E c \in commands : /\ c.uuid = r.uuid
                               /\ c.kind = "assigned"
                               /\ c.device = r.device
                               /\ c.profile = r.profile
                               /\ c.stamp = r.stamp
        /\ r.status = "installed" => Answered(r.uuid, "Acknowledged")
        /\ r.status = "failed" => Answered(r.uuid, "Error")

\* A command_history row belongs to a command enqueued for its device, and
\* shows a result only when the device gave it.
HistoryHonest ==
    \A h \in history :
        /\ \E c \in commands : c.uuid = h.uuid /\ c.device = h.device
        /\ h.status \in Final => Answered(h.uuid, h.status)
        /\ h.status = "NotNow" => h.uuid \in deferred

\* Primary keys are unique and no row outlives what it refers to, although
\* goroutines mark deploys of profiles that were deleted meanwhile.
ReferentialIntegrity ==
    /\ \A p, q \in profiles : (p.id = q.id \/ p.identifier = q.identifier) => p = q
    /\ \A r, s \in deploys :
          (r.device = s.device /\ r.profile = s.profile) => r = s
    /\ \A r \in deploys : \E p \in profiles : p.id = r.profile
    /\ \A x \in groupDevices : x[1] \in groups
    /\ \A x \in groupProfiles : x[1] \in groups /\ \E p \in profiles : p.id = x[2]

\* Re-arming works: a deploy row that ProfilesToDeploy takes for up to date
\* was written for a command carrying the profile's present content, whatever
\* uploads, deletions, row-id reuse and stale goroutines came before.
UpToDateRowsCarryContent ==
    \A r \in deploys, p \in profiles :
        (r.profile = p.id /\ r.stamp = p.stamp) =>
            \E c \in commands : /\ c.uuid = r.uuid
                                /\ c.identifier = p.identifier
                                /\ c.rev = p.rev

\* A device is sent a given upload of a profile at most once by the reconciler
\* (schema/009_groups.sql).
PushOnce ==
    \A b, c \in commands :
        (/\ b.kind = "assigned" /\ c.kind = "assigned"
         /\ b.device = c.device
         /\ b.identifier = c.identifier /\ b.rev = c.rev) => b = c

\* Without failed calls, every deploy row has its command in the history: the
\* history row is written before the deploy row.
DeploysAreInHistory ==
    faults = 0 =>
       \A r \in deploys : \E h \in history : h.uuid = r.uuid /\ h.device = r.device

\* The result of u is being applied by a request in progress.
BeingReported(u) == \E d \in Devices : conn[d].pc # "none" /\ conn[d].uuid = u

\* A row shown as pending ("sent") is not yet answered by the device
\* (deploys.go: Pending is "queued, not yet acknowledged installed").
PendingMeansUnanswered ==
    \A r \in deploys : r.status = "sent" =>
        BeingReported(r.uuid) \/ \A a \in answers : a.uuid # r.uuid

\* The reconciler pushes the missing profiles (assign.go): once it is idle, an
\* assigned profile absent from an enrolled device is queued, being installed
\* or was refused by the device.
MissingArePushed ==
    (\A w \in Workers : worker[w].pc = "idle") =>
        \A d \in Devices, p \in profiles :
            (enroll[d] = "enrolled" /\ Assigned(d, p.id)) =>
                \/ has[d][p.identifier] # 0
                \/ \E c \in commands : /\ c.device = d
                                       /\ c.identifier = p.identifier
                                       /\ c.kind = "assigned"
                                       /\ \/ c.uuid \in queue[d]
                                          \/ Answered(c.uuid, "Error")

\* A result, once recorded, stays: no later report, duplicate report or late
\* goroutine changes a resolved history row, and a deploy row leaves
\* installed or failed only for another command.
ResultsAreFinal ==
    [][ /\ \A h \in history : h.status \in Final => h \in history'
        /\ \A r \in deploys, s \in deploys' :
              (r.uuid = s.uuid /\ r.status # "sent") => s.status = r.status
      ]_<<history, deploys>>

\* Every assignment of a profile to an enrolled device leads to a deploy row,
\* unless it is withdrawn first: no order of enrollment, membership and
\* assignment changes is missed by the event-driven triggers.
AssignmentsAreAttempted ==
    \A d \in Devices, i \in UNION {1..b["save"] : b \in Budgets} :
        (enroll[d] = "enrolled" /\ Assigned(d, i)) ~>
            \/ enroll[d] # "enrolled" \/ ~Assigned(d, i)
            \/ \E r \in deploys : r.device = d /\ r.profile = i
=============================================================================
