-------------------------- MODULE DeploymentProofs --------------------------
(***************************************************************************)
(* Proofs about Deployment, for any number of devices, groups, profiles,   *)
(* goroutines, requests, failed calls and crashes.                         *)
(***************************************************************************)
EXTENDS Deployment, TLAPS

\* Command c is the one worker w has just enqueued for its current profile.
IsCommandOf(c, w) ==
    /\ c.uuid = worker[w].uuid
    /\ c.device = worker[w].dev
    /\ c.kind = worker[w].kind
    /\ c.profile = worker[w].job.id
    /\ c.identifier = worker[w].job.identifier
    /\ c.rev = worker[w].job.rev
    /\ c.stamp = worker[w].job.stamp

\* A goroutine that sends has a device; between enqueue and mark it also has
\* a current profile and the command enqueued for it.
WorkerInv ==
    \A w \in Workers :
        /\ worker[w].pc \in {"group", "read"} => worker[w].todo = {}
        /\ worker[w].pc \in {"send", "push", "mark"} => worker[w].dev \in Devices
        /\ worker[w].pc \in {"push", "mark"} =>
              /\ worker[w].job \in worker[w].todo
              /\ \E c \in commands : IsCommandOf(c, w)
        /\ worker[w].pc = "mark" => worker[w].kind = "assigned"

\* A result being applied is one the device gave.
ConnInv ==
    \A d \in Devices : conn[d].pc # "none" =>
        /\ conn[d].status \in Final => Answered(conn[d].uuid, conn[d].status)
        /\ conn[d].status = "NotNow" => conn[d].uuid \in deferred
        /\ conn[d].pc = "deploy" => conn[d].status \in Final

\* TypeOK and what it needs to be inductive.
TypeInv == TypeOK /\ WorkerInv

-----------------------------------------------------------------------------
\* Single-row updates keep the row's type.

LEMMA DeviceRow ==
    ASSUME NEW r \in Device, NEW b \in BOOLEAN
    PROVE  /\ [r EXCEPT !.out = b] \in Device
           /\ [r EXCEPT !.out = FALSE, !.token = TRUE] \in Device
BY Zenon DEF Device

LEMMA NewDeviceRow ==
    ASSUME NEW d \in Devices
    PROVE  [id |-> d, out |-> FALSE, token |-> FALSE] \in Device
BY Zenon DEF Device

LEMMA HistoryRow ==
    ASSUME NEW r \in History, NEW s \in Final \union {"NotNow"}
    PROVE  [r EXCEPT !.status = s] \in History
BY DEF History, Final

LEMMA DeployRow ==
    ASSUME NEW r \in Deploy, NEW s
    PROVE  [r EXCEPT !.status = DeployStatus(s)] \in Deploy
BY DEF Deploy, DeployStatus

LEMMA ConnRow ==
    ASSUME NEW r \in Conn
    PROVE  [r EXCEPT !.pc = "deploy"] \in Conn
BY DEF Conn

\* The three projection writes.
LEMMA ProjectionType ==
    ASSUME NEW d \in Devices, devices \subseteq Device,
           \/ DeviceEnrolled(d) \/ DeviceTokenUpdated(d)
           \/ DeviceCheckedOut(d) \/ UNCHANGED devices
    PROVE  devices' \subseteq Device
<1> SUFFICES ASSUME NEW x \in devices' PROVE x \in Device
  OBVIOUS
<1>1. CASE DeviceEnrolled(d)
  <2>1. CASE \E r \in devices : r.id = d
    <3>1. PICK r \in devices : x = IF r.id = d THEN [r EXCEPT !.out = FALSE] ELSE r
      BY <1>1, <2>1, Zenon DEF DeviceEnrolled
    <3>2. QED
      BY <3>1, DeviceRow, Zenon
  <2>2. CASE ~ \E r \in devices : r.id = d
    <3>1. x \in devices \/ x = [id |-> d, out |-> FALSE, token |-> FALSE]
      BY <1>1, <2>2, Zenon DEF DeviceEnrolled
    <3>2. QED
      BY <3>1, NewDeviceRow, Zenon
  <2>3. QED
    BY <2>1, <2>2
<1>2. CASE DeviceTokenUpdated(d)
  <2>1. PICK r \in devices :
          x = IF r.id = d THEN [r EXCEPT !.out = FALSE, !.token = TRUE] ELSE r
    BY <1>2, Zenon DEF DeviceTokenUpdated
  <2>2. QED
    BY <2>1, DeviceRow, Zenon
<1>3. CASE DeviceCheckedOut(d)
  <2>1. PICK r \in devices : x = IF r.id = d THEN [r EXCEPT !.out = TRUE] ELSE r
    BY <1>3, Zenon DEF DeviceCheckedOut
  <2>2. QED
    BY <2>1, DeviceRow, Zenon
<1>4. CASE UNCHANGED devices
  BY <1>4
<1>5. QED
  BY <1>1, <1>2, <1>3, <1>4

\* The two writes of CommandResult.
LEMMA HistoryUpdate ==
    ASSUME NEW d, history \subseteq History,
           conn[d].status \in Final \union {"NotNow"},
           history' = {IF r.uuid = conn[d].uuid /\ r.device = d
                       THEN [r EXCEPT !.status = conn[d].status] ELSE r :
                          r \in history}
    PROVE  history' \subseteq History
<1> SUFFICES ASSUME NEW x \in history' PROVE x \in History
  OBVIOUS
<1>1. PICK r \in history : x = IF r.uuid = conn[d].uuid /\ r.device = d
                               THEN [r EXCEPT !.status = conn[d].status] ELSE r
  BY Zenon
<1>2. QED
  BY <1>1, HistoryRow, Zenon

LEMMA DeployUpdate ==
    ASSUME NEW d, deploys \subseteq Deploy,
           deploys' = {IF r.uuid = conn[d].uuid /\ r.device = d
                       THEN [r EXCEPT !.status = DeployStatus(conn[d].status)]
                       ELSE r : r \in deploys}
    PROVE  deploys' \subseteq Deploy
<1> SUFFICES ASSUME NEW x \in deploys' PROVE x \in Deploy
  OBVIOUS
<1>1. PICK r \in deploys :
         x = IF r.uuid = conn[d].uuid /\ r.device = d
             THEN [r EXCEPT !.status = DeployStatus(conn[d].status)] ELSE r
  BY Zenon
<1>2. QED
  BY <1>1, DeployRow, Zenon

USE DEF Profile, Device, Deploy, History, Command, Answer, Worker, Conn,
        Final, Kinds, IdleWorker, NoConn

LEMMA ResumeType ==
    ASSUME NEW l \in Worker
    PROVE  /\ Resume(l) \in Worker
           /\ Resume(l).pc \in {"send", "read", "idle"}
           /\ Resume(l).pc = "send" => Resume(l).dev = l.dev /\ l.todo # {}
           /\ Resume(l).pc = "read" => Resume(l).todo = {}
           /\ Resume(l).todo = l.todo \/ Resume(l).todo = {}
           /\ Resume(l).pc = "send" => Resume(l).kind = l.kind
BY DEF Resume

LEMMA IdleType == IdleWorker \in Worker
OBVIOUS

LEMMA TypeInit == Init => TypeInv
<1>1. Init => TypeOK
  BY DEF Init, TypeOK
<1>2. Init => WorkerInv
  BY DEF Init, WorkerInv
<1>3. QED
  BY <1>1, <1>2 DEF TypeInv

\* Replacing the locals of w by ones that are not between enqueue and mark.
LEMMA SetInv ==
    ASSUME TypeInv, NEW w \in Workers, NEW l \in Worker, Set(w, l),
           l.pc \notin {"push", "mark"}, l.pc = "send" => l.dev \in Devices,
           l.pc \in {"group", "read"} => l.todo = {},
           commands \subseteq commands'
    PROVE  worker' \in [Workers -> Worker] /\ WorkerInv'
<1> USE DEF TypeInv, TypeOK, Set
<1>1. worker' \in [Workers -> Worker]
  OBVIOUS
<1>2. ASSUME NEW x \in Workers
      PROVE  x # w => worker'[x] = worker[x]
  OBVIOUS
<1>3. worker'[w] = l
  OBVIOUS
<1>4. QED
  BY <1>1, <1>2, <1>3 DEF WorkerInv, IsCommandOf

\* Steps that leave the goroutines alone and drop no command.
LEMMA IdleInv ==
    ASSUME TypeInv, UNCHANGED worker, commands \subseteq commands'
    PROVE  worker' \in [Workers -> Worker] /\ WorkerInv'
BY DEF TypeInv, TypeOK, WorkerInv, IsCommandOf

LEMMA SpawnInv ==
    ASSUME TypeInv, NEW l \in Worker, Spawn(l),
           l.pc \notin {"push", "mark"}, l.pc = "send" => l.dev \in Devices,
           l.pc \in {"group", "read"} => l.todo = {},
           commands \subseteq commands'
    PROVE  worker' \in [Workers -> Worker] /\ WorkerInv'
<1>1. PICK w \in Workers : Set(w, l)
  BY DEF Spawn, Set
<1>2. QED
  BY <1>1, SetInv

LEMMA ReconcileInv ==
    ASSUME TypeInv, commands \subseteq commands',
           \/ \E d \in Devices : ReconcileDevice(d)
           \/ \E g \in Groups : ReconcileGroup(g)
    PROVE  worker' \in [Workers -> Worker] /\ WorkerInv'
<1>1. ASSUME NEW d \in Devices, ReconcileDevice(d)
      PROVE  worker' \in [Workers -> Worker] /\ WorkerInv'
  <2> DEFINE l == [IdleWorker EXCEPT !.pc = "read", !.devs = {d}]
  <2>1. l \in Worker /\ l.pc = "read" /\ l.todo = {}
    OBVIOUS
  <2>2. Spawn(l)
    BY <1>1 DEF ReconcileDevice
  <2> HIDE DEF l
  <2>3. QED
    BY <2>1, <2>2, SpawnInv
<1>2. ASSUME NEW g \in Groups, ReconcileGroup(g)
      PROVE  worker' \in [Workers -> Worker] /\ WorkerInv'
  <2> DEFINE l == [IdleWorker EXCEPT !.pc = "group", !.group = g]
  <2>1. l \in Worker /\ l.pc = "group" /\ l.todo = {}
    OBVIOUS
  <2>2. Spawn(l)
    BY <1>2 DEF ReconcileGroup
  <2> HIDE DEF l
  <2>3. QED
    BY <2>1, <2>2, SpawnInv
<1>3. QED
  BY <1>1, <1>2

\* Locals stay well typed when one field is replaced.
LEMMA WithTodo ==
    ASSUME NEW l \in Worker, NEW S \in SUBSET Profile
    PROVE  /\ [l EXCEPT !.todo = S] \in Worker
           /\ [l EXCEPT !.todo = S].dev = l.dev
           /\ [l EXCEPT !.todo = S].todo = S
           /\ [l EXCEPT !.todo = S].kind = l.kind
OBVIOUS

LEMMA WithDevs ==
    ASSUME NEW l \in Worker, NEW S \in SUBSET Devices
    PROVE  [l EXCEPT !.devs = S] \in Worker
OBVIOUS

\* Done with the current profile.
LEMMA NextJobInv ==
    ASSUME TypeInv, NEW w \in Workers, NextJob(w), commands \subseteq commands',
           worker[w].dev \in Devices
    PROVE  worker' \in [Workers -> Worker] /\ WorkerInv'
<1> DEFINE m == [worker[w] EXCEPT !.todo = @ \ {worker[w].job}]
<1>1. m \in Worker /\ m.dev = worker[w].dev
  <2>1. worker[w] \in Worker
    BY DEF TypeInv, TypeOK
  <2>2. worker[w].todo \ {worker[w].job} \in SUBSET Profile
    BY <2>1
  <2>3. QED
    BY <2>1, <2>2, WithTodo
<1>2. Set(w, Resume(m))
  BY DEF NextJob
<1> HIDE DEF m
<1>3. QED
  BY <1>1, <1>2, ResumeType, SetInv

LEMMA TypeAdmin == TypeInv /\ Admin => TypeInv'
<1> SUFFICES ASSUME TypeInv, Admin PROVE TypeInv'
  OBVIOUS
<1> USE DEF TypeInv, TypeOK, library, nano, device, EventKinds, Event
<1>1. ASSUME NEW g \in Groups, CreateGroup(g) PROVE TypeInv'
  BY <1>1, IdleInv DEF CreateGroup
<1>2. ASSUME NEW g \in Groups, DeleteGroup(g) PROVE TypeInv'
  BY <1>2, IdleInv DEF DeleteGroup
<1>3. ASSUME NEW g \in Groups, NEW d \in Devices, AddDeviceToGroup(g, d)
      PROVE  TypeInv'
  BY <1>3, ReconcileInv DEF AddDeviceToGroup
<1>4. ASSUME NEW g \in Groups, NEW d \in Devices, RemoveDeviceFromGroup(g, d)
      PROVE  TypeInv'
  BY <1>4, IdleInv DEF RemoveDeviceFromGroup
<1>5. ASSUME NEW g \in Groups, NEW p \in profiles, AssignProfile(g, p.id)
      PROVE  TypeInv'
  BY <1>5, ReconcileInv DEF AssignProfile
<1>6. ASSUME NEW g \in Groups, NEW p \in profiles, UnassignProfile(g, p.id)
      PROVE  TypeInv'
  BY <1>6, IdleInv DEF UnassignProfile
<1>7. ASSUME NEW n \in Identifiers, SaveProfile(n) PROVE TypeInv'
  <2>0. /\ Event("save")
        /\ \E t \in Ticks : clock' = clock + t
        /\ saves' = saves + 1
    BY <1>7, Zenon DEF SaveProfile
  <2>1. clock' \in Nat /\ saves' \in Nat
    BY <2>0, DeploymentAssumption
  <2>2. profiles' \subseteq Profile
    <3>1. CASE \E p \in profiles : profiles' = (profiles \ {p}) \union
                    {[p EXCEPT !.rev = saves', !.stamp = clock']}
      BY <3>1, <2>1
    <3>2. CASE \E i \in 1..(saves + 1) : profiles' = profiles \union
                    {[id |-> i, identifier |-> n, rev |-> saves',
                      stamp |-> clock']}
      BY <3>2, <2>1
    <3>3. QED
      BY <1>7, <3>1, <3>2 DEF SaveProfile
  <2>3. events' \in [EventKinds -> Nat]
    BY <2>0
  <2>4. worker' \in [Workers -> Worker] /\ WorkerInv'
    BY <1>7, IdleInv DEF SaveProfile
  <2>5. QED
    BY <1>7, <2>1, <2>2, <2>3, <2>4 DEF SaveProfile
<1>8. ASSUME NEW p \in profiles, DeleteProfile(p) PROVE TypeInv'
  BY <1>8, IdleInv DEF DeleteProfile
<1>9. ASSUME NEW d \in Devices, NEW p \in profiles, HandleDeviceInstall(d, p)
      PROVE  TypeInv'
  <2> DEFINE l == [IdleWorker EXCEPT !.pc = "send", !.kind = "install",
                                     !.dev = d, !.todo = {p}]
  <2>1. l \in Worker /\ l.pc = "send" /\ l.dev \in Devices
    OBVIOUS
  <2>2. Spawn(l)
    BY <1>9 DEF HandleDeviceInstall
  <2> HIDE DEF l
  <2>3. worker' \in [Workers -> Worker] /\ WorkerInv'
    BY <1>9, <2>1, <2>2, SpawnInv DEF HandleDeviceInstall
  <2>4. QED
    BY <1>9, <2>3 DEF HandleDeviceInstall
<1>10. ASSUME NEW d \in Devices, NEW n \in Identifiers, HandleDeviceRemove(d, n)
       PROVE  TypeInv'
  <2> DEFINE q == [id |-> 0, identifier |-> n, rev |-> 0, stamp |-> 0]
             l == [IdleWorker EXCEPT !.pc = "send", !.kind = "remove",
                                     !.dev = d, !.todo = {q}]
  <2>2. Spawn(l)
    BY <1>10 DEF HandleDeviceRemove
  <2>0. q \in Profile
    OBVIOUS
  <2> HIDE DEF q
  <2>1. l \in Worker /\ l.pc = "send" /\ l.dev \in Devices
    BY <2>0
  <2> HIDE DEF l
  <2>3. worker' \in [Workers -> Worker] /\ WorkerInv'
    BY <1>10, <2>1, <2>2, SpawnInv DEF HandleDeviceRemove
  <2>4. QED
    BY <1>10, <2>3 DEF HandleDeviceRemove
<1>11. QED
  BY <1>1, <1>2, <1>3, <1>4, <1>5, <1>6, <1>7, <1>8, <1>9, <1>10 DEF Admin

LEMMA TypeCheckIn ==
    ASSUME TypeInv, NEW d \in Devices, CheckIn(d)
    PROVE  TypeInv'
<1> USE DEF TypeInv, TypeOK, library, nano, device, EventKinds,
        Event, Fault, Project
<1>1. CASE Authenticate(d)
  <2>1. devices' \subseteq Device
    <3>1. UNCHANGED devices \/ DeviceEnrolled(d)
      BY <1>1, Zenon DEF Authenticate
    <3>2. QED
      BY <3>1, ProjectionType, Zenon
  <2>2. worker' \in [Workers -> Worker] /\ WorkerInv'
    BY <1>1, IdleInv DEF Authenticate
  <2>3. QED
    BY <1>1, <2>1, <2>2 DEF Authenticate
<1>2. CASE TokenUpdate(d)
  <2>1. devices' \subseteq Device
    <3>1. UNCHANGED devices \/ DeviceTokenUpdated(d)
      BY <1>2, Zenon DEF TokenUpdate
    <3>2. QED
      BY <3>1, ProjectionType, Zenon
  <2>2. worker' \in [Workers -> Worker] /\ WorkerInv'
    BY <1>2, ReconcileInv DEF TokenUpdate
  <2>3. QED
    BY <1>2, <2>1, <2>2 DEF TokenUpdate
<1>3. CASE CheckOut(d)
  <2>1. devices' \subseteq Device
    <3>1. UNCHANGED devices \/ DeviceCheckedOut(d)
      BY <1>3, Zenon DEF CheckOut
    <3>2. QED
      BY <3>1, ProjectionType, Zenon
  <2>2. worker' \in [Workers -> Worker] /\ WorkerInv'
    BY <1>3, IdleInv DEF CheckOut
  <2>3. QED
    BY <1>3, <2>1, <2>2 DEF CheckOut
<1>4. CASE Idle(d)
  BY <1>4, IdleInv DEF Idle
<1>5. CASE DropReport(d)
  BY <1>5, IdleInv DEF DropReport
<1>6. ASSUME NEW status \in Final \union {"NotNow"}, Report(d, status)
      PROVE  TypeInv'
  <2>1. PICK c \in commands :
          /\ has' = Execute(d, c, status) \/ UNCHANGED has
          /\ \/ /\ status \in Final
                /\ answers' = answers \union {[uuid |-> c.uuid, status |-> status]}
                /\ queue' = [queue EXCEPT ![d] = queue[d] \ {c.uuid}]
                /\ UNCHANGED deferred
             \/ /\ deferred' = deferred \union {c.uuid}
                /\ UNCHANGED <<answers, queue>>
          /\ \E u \in queue[d] \union {0} :
                conn' = [conn EXCEPT ![d] = [pc |-> "history", uuid |-> c.uuid,
                                             status |-> status, next |-> u]]
    BY <1>6, Zenon DEF Report
  <2>2. has' \in [Devices -> [Identifiers -> Nat]]
    <3>1. c.identifier \in Identifiers /\ c.rev \in Nat
      OBVIOUS
    <3>2. [has EXCEPT ![d][c.identifier] = c.rev] \in [Devices -> [Identifiers -> Nat]]
      BY <3>1
    <3>3. QED
      BY <2>1, <3>2, Zenon DEF Execute
  <2>3. answers' \subseteq Answer /\ queue' \in [Devices -> SUBSET Nat]
           /\ deferred' \subseteq Nat
    <3>1. c.uuid \in Nat
      OBVIOUS
    <3>2. CASE status \in Final /\ UNCHANGED deferred
               /\ answers' = answers \union {[uuid |-> c.uuid, status |-> status]}
               /\ queue' = [queue EXCEPT ![d] = queue[d] \ {c.uuid}]
      BY <3>1, <3>2
    <3>3. CASE deferred' = deferred \union {c.uuid} /\ UNCHANGED <<answers, queue>>
      BY <3>1, <3>3
    <3>4. QED
      BY <2>1, <3>2, <3>3, Zenon
  <2>4. conn' \in [Devices -> Conn]
    BY <2>1
  <2>5. worker' \in [Workers -> Worker] /\ WorkerInv'
    BY <1>6, IdleInv DEF Report
  <2>6. QED
    BY <1>6, <2>2, <2>3, <2>4, <2>5 DEF Report
<1>7. QED
  BY <1>1, <1>2, <1>3, <1>4, <1>5, <1>6 DEF CheckIn

LEMMA TypeHandleResult ==
    ASSUME TypeInv, NEW d \in Devices, HandleResult(d)
    PROVE  TypeInv'
<1> HIDE DEF History, Deploy, Conn, NoConn
<1>1. /\ conn \in [Devices -> Conn] /\ exec \in [Devices -> Nat] /\ faults \in Nat
      /\ history \subseteq History /\ deploys \subseteq Deploy
  BY DEF TypeInv, TypeOK
<1>2. conn[d] \in Conn
  BY <1>1
<1>3. conn[d].status \in Final \union {"NotNow"} /\ conn[d].next \in Nat
  BY <1>2 DEF Conn
<1>4. NoConn \in Conn
  BY DEF Conn, NoConn
<1>5. [conn[d] EXCEPT !.pc = "deploy"] \in Conn
  BY <1>2, ConnRow
<1>6. CASE ResultHistory(d)
  <2>1. \/ UNCHANGED history
        \/ history' = {IF r.uuid = conn[d].uuid /\ r.device = d
                       THEN [r EXCEPT !.status = conn[d].status] ELSE r :
                          r \in history}
    BY <1>6, Zenon DEF ResultHistory
  <2>2. history' \subseteq History
    BY <2>1, <1>1, <1>3, HistoryUpdate, Zenon
  <2>3. \/ conn' = [conn EXCEPT ![d].pc = "deploy"] /\ exec' = exec
        \/ Respond(d)
    BY <1>6 DEF ResultHistory
  <2>4. faults' = faults \/ faults' = faults + 1
    BY <1>6 DEF ResultHistory, Fault
  <2>5. conn' \in [Devices -> Conn] /\ exec' \in [Devices -> Nat]
    BY <2>3, <1>1, <1>3, <1>4, <1>5 DEF Respond
  <2>6. worker' \in [Workers -> Worker] /\ WorkerInv'
    BY <1>6, IdleInv DEF ResultHistory, nano
  <2>7. QED
    BY <1>6, <1>1, <2>2, <2>4, <2>5, <2>6
    DEF ResultHistory, TypeInv, TypeOK, library, nano
<1>7. CASE ResultDeploy(d)
  <2>1. \/ UNCHANGED deploys
        \/ deploys' = {IF r.uuid = conn[d].uuid /\ r.device = d
                       THEN [r EXCEPT !.status = DeployStatus(conn[d].status)]
                       ELSE r : r \in deploys}
    BY <1>7, Zenon DEF ResultDeploy
  <2>2. deploys' \subseteq Deploy
    BY <2>1, <1>1, DeployUpdate, Zenon
  <2>3. Respond(d) /\ (faults' = faults \/ faults' = faults + 1)
    BY <1>7 DEF ResultDeploy, Fault
  <2>4. conn' \in [Devices -> Conn] /\ exec' \in [Devices -> Nat]
    BY <2>3, <1>1, <1>3, <1>4 DEF Respond
  <2>5. worker' \in [Workers -> Worker] /\ WorkerInv'
    BY <1>7, IdleInv DEF ResultDeploy, nano
  <2>6. QED
    BY <1>7, <1>1, <2>2, <2>3, <2>4, <2>5
    DEF ResultDeploy, TypeInv, TypeOK, library, nano
<1>8. QED
  BY <1>6, <1>7 DEF HandleResult

LEMMA TypeCrash == TypeInv /\ Crash => TypeInv'
BY DEF TypeInv, TypeOK, WorkerInv, Crash, Fault, library, nano, device

\* What every goroutine step leaves alone.
LEMMA StepFrame ==
    ASSUME NEW w \in Workers, Step(w)
    PROVE  UNCHANGED <<groups, groupDevices, groupProfiles, profiles, devices,
                       deferred, enroll, has, exec, answers, conn, clock, saves,
                       events>>
BY DEF Step, ReadGroup, ReadProfiles, EnqueueCommand, PushFails, CommandSent,
       MarkDeploySent, library, nano, device

\* Goroutine steps: the locals of w, and the tables the step writes.
LEMMA TypeStepParts ==
    ASSUME TypeInv, NEW w \in Workers, Step(w)
    PROVE  /\ worker' \in [Workers -> Worker] /\ WorkerInv'
           /\ commands' \subseteq Command /\ issued' \in Nat
           /\ queue' \in [Devices -> SUBSET Nat]
           /\ history' \subseteq History /\ deploys' \subseteq Deploy
           /\ faults' \in Nat
<1> HIDE DEF Worker, Profile, Command, History, Deploy, IdleWorker
<1>1. /\ worker \in [Workers -> Worker] /\ commands \subseteq Command
      /\ issued \in Nat /\ queue \in [Devices -> SUBSET Nat]
      /\ history \subseteq History /\ deploys \subseteq Deploy
      /\ faults \in Nat /\ profiles \subseteq Profile /\ devices \subseteq Device
  BY DEF TypeInv, TypeOK
<1>2. worker[w] \in Worker
  BY <1>1
<1>3. /\ worker[w].todo \in SUBSET Profile /\ worker[w].devs \in SUBSET Devices
      /\ worker[w].kind \in Kinds /\ worker[w].uuid \in Nat
  BY <1>2 DEF Worker
<1>4. IdleWorker \in Worker /\ IdleWorker.pc = "idle"
  BY DEF IdleWorker, Worker, Kinds
<1>5. CASE ReadGroup(w)
  <2> DEFINE l == [worker[w] EXCEPT !.devs = GroupDeviceIDs(worker[w].group),
                                    !.group = None]
  <2>1. GroupDeviceIDs(worker[w].group) \in SUBSET Devices
    BY <1>1 DEF GroupDeviceIDs, Device
  <2>2. l \in Worker
    BY <1>2, <2>1 DEF Worker
  <2>3. \/ Set(w, Resume(l))
        \/ Set(w, IdleWorker)
    BY <1>5 DEF ReadGroup
  <2>4. UNCHANGED <<commands, issued, queue, history, deploys>>
           /\ (faults' = faults \/ faults' = faults + 1)
    BY <1>5 DEF ReadGroup, nano, Fault
  <2>5. worker[w].pc = "group"
    BY <1>5 DEF ReadGroup
  <2>6. l.todo = {}
    BY <1>2, <2>5 DEF TypeInv, WorkerInv, Worker
  <2> HIDE DEF l
  <2>7. QED
    BY <1>1, <1>4, <2>2, <2>3, <2>4, <2>6, ResumeType, SetInv
<1>6. CASE ReadProfiles(w)
  <2>1. PICK d \in worker[w].devs :
          \/ Set(w, Resume([[worker[w] EXCEPT !.devs = @ \ {d}] EXCEPT
                               !.dev = d, !.todo = ProfilesToDeploy(d)]))
          \/ Set(w, Resume([worker[w] EXCEPT !.devs = @ \ {d}]))
    BY <1>6 DEF ReadProfiles
  <2> DEFINE l == [worker[w] EXCEPT !.devs = @ \ {d}]
             m == [l EXCEPT !.dev = d, !.todo = ProfilesToDeploy(d)]
  <2>2. worker[w].pc = "read" /\ worker[w].todo = {}
    BY <1>6 DEF ReadProfiles, TypeInv, WorkerInv
  <2>3. l \in Worker /\ l.todo = {}
    BY <1>2, <1>3, <2>2, WithDevs DEF Worker
  <2>4. ProfilesToDeploy(d) \in SUBSET Profile /\ d \in Devices
    BY <1>1, <1>3 DEF ProfilesToDeploy
  <2>5. Set(w, Resume(m)) \/ Set(w, Resume(l))
    BY <2>1
  <2> HIDE DEF l
  <2>6. m \in Worker /\ m.dev = d
    BY <2>3, <2>4 DEF Worker
  <2>7. UNCHANGED <<commands, issued, queue, history, deploys>>
           /\ (faults' = faults \/ faults' = faults + 1)
    BY <1>6 DEF ReadProfiles, nano, Fault
  <2> HIDE DEF m
  <2>8. QED
    BY <1>1, <2>3, <2>4, <2>5, <2>6, <2>7, ResumeType, SetInv
<1>7. CASE EnqueueCommand(w)
  <2>1. worker[w].pc = "send" /\ worker[w].dev \in Devices
    BY <1>7 DEF EnqueueCommand, TypeInv, WorkerInv
  <2>2. UNCHANGED <<history, deploys>>
           /\ (faults' = faults \/ faults' = faults + 1)
    BY <1>7 DEF EnqueueCommand, Fault
  <2>3. ASSUME NEW p \in worker[w].todo, UNCHANGED <<commands, issued, queue>>,
               Set(w, Resume([worker[w] EXCEPT !.todo = @ \ {p}]))
        PROVE  worker' \in [Workers -> Worker] /\ WorkerInv'
    <3> DEFINE l == [worker[w] EXCEPT !.todo = @ \ {p}]
    <3>1. worker[w].todo \ {p} \in SUBSET Profile
      BY <1>3
    <3>2. l \in Worker /\ l.dev = worker[w].dev
      BY <1>2, <3>1, WithTodo
    <3>3. Set(w, Resume(l))
      BY <2>3
    <3> HIDE DEF l
    <3>4. QED
      BY <2>1, <2>3, <3>2, <3>3, ResumeType, SetInv
  <2>4. ASSUME NEW p \in worker[w].todo, issued' = NewUUID,
               commands' = commands \union
                {[uuid |-> NewUUID, device |-> worker[w].dev,
                  kind |-> worker[w].kind, profile |-> p.id,
                  identifier |-> p.identifier, rev |-> p.rev,
                  stamp |-> p.stamp]},
               queue' = [queue EXCEPT ![worker[w].dev] = @ \union {NewUUID}],
               Set(w, [worker[w] EXCEPT !.pc = "push", !.job = p,
                                        !.uuid = NewUUID])
        PROVE  /\ worker' \in [Workers -> Worker] /\ WorkerInv'
               /\ commands' \subseteq Command /\ issued' \in Nat
               /\ queue' \in [Devices -> SUBSET Nat]
    <3> DEFINE l == [worker[w] EXCEPT !.pc = "push", !.job = p, !.uuid = NewUUID]
               c == [uuid |-> NewUUID, device |-> worker[w].dev,
                     kind |-> worker[w].kind, profile |-> p.id,
                     identifier |-> p.identifier, rev |-> p.rev,
                     stamp |-> p.stamp]
    <3>1. NewUUID \in Nat
      BY <1>1 DEF NewUUID
    <3>2. p \in Profile
      BY <1>3
    <3>3. c \in Command
      BY <1>3, <2>1, <3>1, <3>2 DEF Command, Profile
    <3>4. l \in Worker /\ l.pc = "push" /\ l.job = p /\ l.uuid = NewUUID
             /\ l.dev = worker[w].dev /\ l.kind = worker[w].kind
             /\ l.todo = worker[w].todo
      BY <1>2, <3>1, <3>2 DEF Worker
    <3>5. commands' = commands \union {c}
      BY <2>4
    <3>6. /\ c.uuid = NewUUID /\ c.device = worker[w].dev
          /\ c.kind = worker[w].kind /\ c.profile = p.id
          /\ c.identifier = p.identifier /\ c.rev = p.rev /\ c.stamp = p.stamp
      OBVIOUS
    <3>7. worker' = [worker EXCEPT ![w] = l]
      BY <2>4 DEF Set
    <3> HIDE DEF l, c
    <3>8. queue' \in [Devices -> SUBSET Nat] /\ issued' \in Nat
             /\ commands' \subseteq Command
      BY <1>1, <2>1, <2>4, <3>1, <3>3, <3>5
    <3>9. worker' \in [Workers -> Worker]
      BY <1>1, <3>4, <3>7
    <3>10. ASSUME NEW x \in Workers, x # w
           PROVE  worker'[x] = worker[x]
      BY <1>1, <3>7, <3>10
    <3>11. worker'[w] = l
      BY <1>1, <3>7
    <3>12. WorkerInv'
      BY <2>1, <3>4, <3>5, <3>6, <3>10, <3>11 DEF TypeInv, WorkerInv, IsCommandOf
    <3>13. QED
      BY <3>8, <3>9, <3>12
  <2>5. PICK p \in worker[w].todo :
          \/ /\ issued' = NewUUID
             /\ commands' = commands \union
                  {[uuid |-> NewUUID, device |-> worker[w].dev,
                    kind |-> worker[w].kind, profile |-> p.id,
                    identifier |-> p.identifier, rev |-> p.rev,
                    stamp |-> p.stamp]}
             /\ queue' = [queue EXCEPT ![worker[w].dev] = @ \union {NewUUID}]
             /\ Set(w, [worker[w] EXCEPT !.pc = "push", !.job = p,
                                         !.uuid = NewUUID])
          \/ /\ UNCHANGED <<commands, issued, queue>>
             /\ Set(w, Resume([worker[w] EXCEPT !.todo = @ \ {p}]))
    BY <1>7, Zenon DEF EnqueueCommand
  <2>6. /\ worker' \in [Workers -> Worker] /\ WorkerInv'
        /\ commands' \subseteq Command /\ issued' \in Nat
        /\ queue' \in [Devices -> SUBSET Nat]
    BY <1>1, <2>3, <2>4, <2>5, Zenon
  <2>7. QED
    BY <1>1, <2>2, <2>6
<1>8. CASE PushFails(w)
  <2>1. worker[w].dev \in Devices
    BY <1>8 DEF PushFails, TypeInv, WorkerInv
  <2>2. QED
    BY <1>1, <1>8, <2>1, NextJobInv DEF PushFails, nano, Fault
<1>9. CASE CommandSent(w)
  <2>1. worker[w].pc = "push" /\ worker[w].dev \in Devices
    BY <1>9 DEF CommandSent, TypeInv, WorkerInv
  <2>2. UNCHANGED <<commands, issued, queue, deploys>>
           /\ (faults' = faults \/ faults' = faults + 1)
    BY <1>9 DEF CommandSent, nano, Fault
  <2>3. history' \subseteq History
    <3>1. [uuid |-> worker[w].uuid, device |-> worker[w].dev,
           status |-> "Sent"] \in History
      BY <1>3, <2>1 DEF History
    <3>2. \/ history' = history
          \/ history' = history \union {[uuid |-> worker[w].uuid,
                           device |-> worker[w].dev, status |-> "Sent"]}
      BY <1>9, Zenon DEF CommandSent
    <3>3. QED
      BY <1>1, <3>1, <3>2
  <2>4. CASE Set(w, [worker[w] EXCEPT !.pc = "mark"])
               /\ worker[w].kind = "assigned"
    <3> DEFINE l == [worker[w] EXCEPT !.pc = "mark"]
    <3>1. l \in Worker /\ l.pc = "mark" /\ l.job = worker[w].job
             /\ l.uuid = worker[w].uuid /\ l.dev = worker[w].dev
             /\ l.kind = worker[w].kind /\ l.todo = worker[w].todo
      BY <1>2 DEF Worker
    <3>2. worker' = [worker EXCEPT ![w] = l]
      BY <2>4 DEF Set
    <3> HIDE DEF l
    <3>3. worker' \in [Workers -> Worker] /\ worker'[w] = l
      BY <1>1, <3>1, <3>2
    <3>4. ASSUME NEW x \in Workers, x # w
          PROVE  worker'[x] = worker[x]
      BY <1>1, <3>2, <3>4
    <3>5. WorkerInv'
      BY <2>1, <2>2, <2>4, <3>1, <3>3, <3>4 DEF TypeInv, WorkerInv, IsCommandOf
    <3>6. QED
      BY <1>1, <2>2, <2>3, <3>3, <3>5
  <2>5. CASE NextJob(w)
    BY <1>1, <2>1, <2>2, <2>3, <2>5, NextJobInv
  <2>6. QED
    BY <1>9, <2>4, <2>5 DEF CommandSent
<1>10. CASE MarkDeploySent(w)
  <2>1. worker[w].dev \in Devices /\ worker[w].job \in Profile
    BY <1>3, <1>10 DEF MarkDeploySent, TypeInv, WorkerInv
  <2>2. UNCHANGED <<commands, issued, queue, history>>
           /\ (faults' = faults \/ faults' = faults + 1)
    BY <1>10 DEF MarkDeploySent, nano, Fault
  <2>3. deploys' \subseteq Deploy
    <3> DEFINE r == [device |-> worker[w].dev, profile |-> worker[w].job.id,
                     uuid |-> worker[w].uuid, stamp |-> worker[w].job.stamp,
                     status |-> "sent"]
    <3>1. r \in Deploy
      BY <1>3, <2>1 DEF Deploy, Profile
    <3>2. deploys' \subseteq deploys \union {r}
      BY <1>10 DEF MarkDeploySent
    <3> HIDE DEF r
    <3>3. QED
      BY <1>1, <3>1, <3>2
  <2>4. NextJob(w)
    BY <1>10 DEF MarkDeploySent
  <2>5. QED
    BY <1>1, <2>1, <2>2, <2>3, <2>4, NextJobInv
<1>11. QED
  BY <1>5, <1>6, <1>7, <1>8, <1>9, <1>10 DEF Step

LEMMA TypeNext == TypeInv /\ [Next]_vars => TypeInv'
<1> SUFFICES ASSUME TypeInv, [Next]_vars PROVE TypeInv'
  OBVIOUS
<1>1. ASSUME NEW w \in Workers, Step(w) PROVE TypeInv'
  <2> HIDE DEF Worker, Profile, Command, History, Deploy, Device, Answer, Conn
  <2>1. QED
    BY <1>1, StepFrame, TypeStepParts DEF TypeInv, TypeOK
<1>2. CASE UNCHANGED vars
  <2> HIDE DEF Worker, Profile, Command, History, Deploy, Device, Answer, Conn
  <2>1. QED
    BY <1>2, IdleInv DEF vars, TypeInv, TypeOK
<1>3. QED
  BY <1>1, <1>2, TypeAdmin, TypeCheckIn, TypeHandleResult, TypeCrash DEF Next

\* TypeOK holds in every reachable state.
THEOREM TypeCorrect == Spec => []TypeOK
<1>1. TypeInv => TypeOK
  BY DEF TypeInv
<1>2. QED
  BY <1>1, TypeInit, TypeNext, PTL DEF Spec

-----------------------------------------------------------------------------
\* What the tables say is what the devices answered.

HonestInv == TypeInv /\ ConnInv /\ DeployRowsHonest /\ HistoryHonest

\* Commands, answers and deferrals are never taken back.
LEMMA Grows ==
    ASSUME TypeInv, [Next]_vars
    PROVE  commands \subseteq commands' /\ answers \subseteq answers'
              /\ deferred \subseteq deferred'
<1> USE DEF library, nano, device
<1>1. CASE Admin
  BY <1>1 DEF Admin, CreateGroup, DeleteGroup, AddDeviceToGroup,
     RemoveDeviceFromGroup, AssignProfile, UnassignProfile, SaveProfile,
     DeleteProfile, HandleDeviceInstall, HandleDeviceRemove
<1>2. ASSUME NEW d \in Devices, CheckIn(d)
      PROVE  commands \subseteq commands' /\ answers \subseteq answers'
                /\ deferred \subseteq deferred'
  BY <1>2 DEF CheckIn, Authenticate, TokenUpdate, CheckOut, Idle, DropReport, Report
<1>3. ASSUME NEW d \in Devices, HandleResult(d)
      PROVE  UNCHANGED <<commands, answers, deferred>>
  BY <1>3 DEF HandleResult, ResultHistory, ResultDeploy
<1>4. ASSUME NEW w \in Workers, Step(w)
      PROVE  commands \subseteq commands' /\ UNCHANGED <<answers, deferred>>
  BY <1>4 DEF Step, ReadGroup, ReadProfiles, EnqueueCommand, PushFails,
     CommandSent, MarkDeploySent
<1>5. CASE Crash
  BY <1>5 DEF Crash
<1>6. CASE UNCHANGED vars
  BY <1>6 DEF vars
<1>7. QED
  BY <1>1, <1>2, <1>3, <1>4, <1>5, <1>6 DEF Next

\* The only steps that write deploy rows, history rows and connections.
LEMMA Writers ==
    ASSUME [Next]_vars
    PROVE  /\ \/ deploys' \subseteq deploys
              \/ \E d \in Devices : ResultDeploy(d)
              \/ \E w \in Workers : MarkDeploySent(w)
           /\ \/ history' = history
              \/ \E d \in Devices : ResultHistory(d)
              \/ \E w \in Workers : CommandSent(w)
           /\ \/ conn' = conn
              \/ \E d \in Devices : \E status \in Final \union {"NotNow"} :
                    Report(d, status)
              \/ \E d \in Devices : ResultHistory(d) \/ ResultDeploy(d)
              \/ Crash
<1> USE DEF library, nano, device
<1>1. CASE Admin
  BY <1>1 DEF Admin, CreateGroup, DeleteGroup, AddDeviceToGroup,
     RemoveDeviceFromGroup, AssignProfile, UnassignProfile, SaveProfile,
     DeleteProfile, HandleDeviceInstall, HandleDeviceRemove
<1>2. ASSUME NEW d \in Devices, CheckIn(d)
      PROVE  /\ UNCHANGED <<deploys, history>>
             /\ conn' = conn \/ \E status \in Final \union {"NotNow"} :
                                   Report(d, status)
  BY <1>2 DEF CheckIn, Authenticate, TokenUpdate, CheckOut, Idle, DropReport, Report
<1>3. ASSUME NEW d \in Devices, ResultHistory(d)
      PROVE  UNCHANGED deploys
  BY <1>3 DEF ResultHistory
<1>4. ASSUME NEW d \in Devices, ResultDeploy(d)
      PROVE  UNCHANGED history
  BY <1>4 DEF ResultDeploy
<1>5. ASSUME NEW w \in Workers, Step(w)
      PROVE  /\ conn' = conn
             /\ deploys' = deploys \/ MarkDeploySent(w)
             /\ history' = history \/ CommandSent(w)
  BY <1>5 DEF Step, ReadGroup, ReadProfiles, EnqueueCommand, PushFails,
     CommandSent, MarkDeploySent
<1>6. CASE Crash
  BY <1>6 DEF Crash
<1>7. CASE UNCHANGED vars
  BY <1>7 DEF vars
<1>8. QED
  BY <1>1, <1>2, <1>3, <1>4, <1>5, <1>6, <1>7 DEF Next, HandleResult

LEMMA ConnStep ==
    ASSUME HonestInv, [Next]_vars
    PROVE  ConnInv'
<1> HIDE DEF Worker, Profile, Command, History, Deploy, Device, Answer, Conn
<1>1. answers \subseteq answers' /\ deferred \subseteq deferred'
  BY Grows DEF HonestInv
<1>2. conn \in [Devices -> Conn]
  BY DEF HonestInv, TypeInv, TypeOK
<1>3. CASE conn' = conn
  BY <1>1, <1>3 DEF HonestInv, ConnInv, Answered
<1>4. ASSUME NEW d \in Devices, NEW status \in Final \union {"NotNow"},
             Report(d, status)
      PROVE  ConnInv'
  <2>1. PICK c \in commands, u \in queue[d] \union {0} :
          /\ \/ /\ status \in Final
                /\ answers' = answers \union {[uuid |-> c.uuid, status |-> status]}
             \/ /\ status = "NotNow"
                /\ deferred' = deferred \union {c.uuid}
          /\ conn' = [conn EXCEPT ![d] = [pc |-> "history", uuid |-> c.uuid,
                                          status |-> status, next |-> u]]
    BY <1>4, Zenon DEF Report
  <2>2. conn'[d].pc = "history" /\ conn'[d].uuid = c.uuid /\ conn'[d].status = status
    BY <1>2, <2>1
  <2>3. \A e \in Devices : e # d => conn'[e] = conn[e]
    BY <1>2, <2>1
  <2>4. QED
    BY <1>1, <2>1, <2>2, <2>3 DEF HonestInv, ConnInv, Answered
<1>5. ASSUME NEW d \in Devices, ResultHistory(d) \/ ResultDeploy(d)
      PROVE  ConnInv'
  <2>1. \/ conn' = [conn EXCEPT ![d] = NoConn]
        \/ /\ conn[d].pc = "history" /\ conn[d].status \in Final
           /\ conn' = [conn EXCEPT ![d].pc = "deploy"]
    BY <1>5 DEF ResultHistory, ResultDeploy, Respond
  <2>2. \A e \in Devices : e # d => conn'[e] = conn[e]
    BY <1>2, <2>1
  <2>3. CASE conn' = [conn EXCEPT ![d] = NoConn]
    BY <1>1, <1>2, <2>2, <2>3 DEF HonestInv, ConnInv, Answered
  <2>4. CASE /\ conn[d].pc = "history" /\ conn[d].status \in Final
             /\ conn' = [conn EXCEPT ![d].pc = "deploy"]
    <3>1. conn[d] \in Conn
      BY <1>2
    <3>2. conn'[d] = [conn[d] EXCEPT !.pc = "deploy"]
      BY <1>2, <2>4
    <3>3. conn'[d].pc = "deploy" /\ conn'[d].uuid = conn[d].uuid
             /\ conn'[d].status = conn[d].status
      BY <3>1, <3>2 DEF Conn
    <3>4. QED
      BY <1>1, <2>2, <2>4, <3>3 DEF HonestInv, ConnInv, Answered
  <2>5. QED
    BY <2>1, <2>3, <2>4
<1>6. CASE Crash
  BY <1>6 DEF Crash, ConnInv
<1>7. QED
  BY <1>3, <1>4, <1>5, <1>6, Writers

LEMMA DeployStep ==
    ASSUME HonestInv, [Next]_vars
    PROVE  DeployRowsHonest'
<1> HIDE DEF Worker, Profile, Command, History, Deploy, Device, Answer, Conn, Kinds
<1>1. commands \subseteq commands' /\ answers \subseteq answers'
  BY Grows DEF HonestInv
<1>2. ASSUME NEW r \in deploys
      PROVE  /\ \E c \in commands' : /\ c.uuid = r.uuid
                                     /\ c.kind = "assigned"
                                     /\ c.device = r.device
                                     /\ c.profile = r.profile
                                     /\ c.stamp = r.stamp
             /\ r.status = "installed" => Answered(r.uuid, "Acknowledged")'
             /\ r.status = "failed" => Answered(r.uuid, "Error")'
  BY <1>1, <1>2 DEF HonestInv, DeployRowsHonest, Answered
<1>3. CASE deploys' \subseteq deploys
  BY <1>2, <1>3 DEF DeployRowsHonest
<1>4. ASSUME NEW d \in Devices, ResultDeploy(d)
      PROVE  DeployRowsHonest'
  <2>1. /\ conn[d].pc = "deploy"
        /\ \/ deploys' = deploys
           \/ deploys' = {IF r.uuid = conn[d].uuid /\ r.device = d
                          THEN [r EXCEPT !.status = DeployStatus(conn[d].status)]
                          ELSE r : r \in deploys}
    BY <1>4, Zenon DEF ResultDeploy
  <2>2. conn[d].status \in Final /\ Answered(conn[d].uuid, conn[d].status)
    BY <2>1 DEF HonestInv, ConnInv
  <2>3. [uuid |-> conn[d].uuid, status |-> conn[d].status] \in answers'
    BY <1>1, <2>2 DEF Answered
  <2>4. ASSUME NEW x \in deploys'
        PROVE  /\ \E c \in commands' : /\ c.uuid = x.uuid
                                       /\ c.kind = "assigned"
                                       /\ c.device = x.device
                                       /\ c.profile = x.profile
                                       /\ c.stamp = x.stamp
               /\ x.status = "installed" => Answered(x.uuid, "Acknowledged")'
               /\ x.status = "failed" => Answered(x.uuid, "Error")'
    <3>1. CASE x \in deploys
      BY <1>2, <3>1
    <3>2. CASE x \notin deploys
      <4>1. PICK r \in deploys :
               /\ r.uuid = conn[d].uuid
               /\ x = [r EXCEPT !.status = DeployStatus(conn[d].status)]
        BY <2>1, <3>2, Zenon
      <4>2. r \in Deploy
        BY DEF HonestInv, TypeInv, TypeOK
      <4>3. /\ x.uuid = r.uuid /\ x.device = r.device /\ x.profile = r.profile
            /\ x.stamp = r.stamp /\ x.status = DeployStatus(conn[d].status)
        BY <4>1, <4>2 DEF Deploy
      <4>4. x.status = "installed" => conn[d].status = "Acknowledged"
        BY <4>3 DEF DeployStatus
      <4>5. x.status = "failed" => conn[d].status = "Error"
        BY <2>2, <4>3 DEF DeployStatus
      <4>6. QED
        BY <1>2, <2>3, <4>1, <4>3, <4>4, <4>5 DEF Answered
    <3>3. QED
      BY <3>1, <3>2
  <2>5. QED
    BY <2>4 DEF DeployRowsHonest
<1>5. ASSUME NEW w \in Workers, MarkDeploySent(w)
      PROVE  DeployRowsHonest'
  <2> DEFINE s == [device |-> worker[w].dev, profile |-> worker[w].job.id,
                   uuid |-> worker[w].uuid, stamp |-> worker[w].job.stamp,
                   status |-> "sent"]
  <2>1. PICK c \in commands : IsCommandOf(c, w) /\ c.kind = "assigned"
    BY <1>5 DEF MarkDeploySent, HonestInv, TypeInv, WorkerInv, IsCommandOf
  <2>2. deploys' \subseteq deploys \union {s}
    BY <1>5 DEF MarkDeploySent
  <2>3. /\ s.device = worker[w].dev /\ s.profile = worker[w].job.id
        /\ s.uuid = worker[w].uuid /\ s.stamp = worker[w].job.stamp
        /\ s.status = "sent"
    OBVIOUS
  <2> HIDE DEF s
  <2>4. /\ \E b \in commands' : /\ b.uuid = s.uuid
                                /\ b.kind = "assigned"
                                /\ b.device = s.device
                                /\ b.profile = s.profile
                                /\ b.stamp = s.stamp
        /\ s.status # "installed" /\ s.status # "failed"
    BY <1>1, <2>1, <2>3 DEF IsCommandOf
  <2>5. QED
    BY <1>2, <2>2, <2>4 DEF DeployRowsHonest
<1>6. QED
  BY <1>3, <1>4, <1>5, Writers

LEMMA HistoryStep ==
    ASSUME HonestInv, [Next]_vars
    PROVE  HistoryHonest'
<1> HIDE DEF Worker, Profile, Command, History, Deploy, Device, Answer, Conn, Kinds
<1>1. commands \subseteq commands' /\ answers \subseteq answers'
         /\ deferred \subseteq deferred'
  BY Grows DEF HonestInv
<1>2. ASSUME NEW h \in history
      PROVE  /\ \E c \in commands' : c.uuid = h.uuid /\ c.device = h.device
             /\ h.status \in Final => Answered(h.uuid, h.status)'
             /\ h.status = "NotNow" => h.uuid \in deferred'
  BY <1>1, <1>2 DEF HonestInv, HistoryHonest, Answered
<1>3. CASE history' = history
  BY <1>2, <1>3 DEF HistoryHonest
<1>4. ASSUME NEW d \in Devices, ResultHistory(d)
      PROVE  HistoryHonest'
  <2>1. /\ conn[d].pc = "history"
        /\ \/ history' = history
           \/ history' = {IF r.uuid = conn[d].uuid /\ r.device = d
                          THEN [r EXCEPT !.status = conn[d].status] ELSE r :
                             r \in history}
    BY <1>4, Zenon DEF ResultHistory
  <2>2. /\ conn[d].status \in Final =>
              [uuid |-> conn[d].uuid, status |-> conn[d].status] \in answers'
        /\ conn[d].status = "NotNow" => conn[d].uuid \in deferred'
    BY <1>1, <2>1 DEF HonestInv, ConnInv, Answered
  <2>3. ASSUME NEW x \in history'
        PROVE  /\ \E c \in commands' : c.uuid = x.uuid /\ c.device = x.device
               /\ x.status \in Final => Answered(x.uuid, x.status)'
               /\ x.status = "NotNow" => x.uuid \in deferred'
    <3>1. CASE x \in history
      BY <1>2, <3>1
    <3>2. CASE x \notin history
      <4>1. PICK r \in history : /\ r.uuid = conn[d].uuid
                                 /\ x = [r EXCEPT !.status = conn[d].status]
        BY <2>1, <3>2, Zenon
      <4>2. r \in History
        BY DEF HonestInv, TypeInv, TypeOK
      <4>3. x.uuid = r.uuid /\ x.device = r.device /\ x.status = conn[d].status
        BY <4>1, <4>2 DEF History
      <4>4. QED
        BY <1>2, <2>2, <4>1, <4>3 DEF Answered
    <3>3. QED
      BY <3>1, <3>2
  <2>4. QED
    BY <2>3 DEF HistoryHonest
<1>5. ASSUME NEW w \in Workers, CommandSent(w)
      PROVE  HistoryHonest'
  <2> DEFINE s == [uuid |-> worker[w].uuid, device |-> worker[w].dev,
                   status |-> "Sent"]
  <2>1. PICK c \in commands : IsCommandOf(c, w)
    BY <1>5 DEF CommandSent, HonestInv, TypeInv, WorkerInv
  <2>2. history' = history \/ history' = history \union {s}
    BY <1>5, Zenon DEF CommandSent
  <2>3. s.uuid = worker[w].uuid /\ s.device = worker[w].dev /\ s.status = "Sent"
    OBVIOUS
  <2> HIDE DEF s
  <2>4. /\ \E b \in commands' : b.uuid = s.uuid /\ b.device = s.device
        /\ s.status \notin Final /\ s.status # "NotNow"
    BY <1>1, <2>1, <2>3 DEF IsCommandOf
  <2>5. QED
    BY <1>2, <2>2, <2>4 DEF HistoryHonest
<1>6. QED
  BY <1>3, <1>4, <1>5, Writers

LEMMA HonestInit == Init => HonestInv
<1>1. Init => ConnInv /\ DeployRowsHonest /\ HistoryHonest
  BY DEF Init, ConnInv, DeployRowsHonest, HistoryHonest
<1>2. QED
  BY <1>1, TypeInit DEF HonestInv

LEMMA HonestNext == HonestInv /\ [Next]_vars => HonestInv'
<1>1. HonestInv /\ [Next]_vars => TypeInv'
  BY TypeNext DEF HonestInv
<1>2. QED
  BY <1>1, ConnStep, DeployStep, HistoryStep DEF HonestInv

\* No interleaving, failure or crash makes a deploy row claim a result the
\* device did not give to the command the row names.
THEOREM DeployRowsAreHonest == Spec => []DeployRowsHonest
<1>1. HonestInv => DeployRowsHonest
  BY DEF HonestInv
<1>2. QED
  BY <1>1, HonestInit, HonestNext, PTL DEF Spec

\* The same for command_history.
THEOREM HistoryIsHonest == Spec => []HistoryHonest
<1>1. HonestInv => HistoryHonest
  BY DEF HonestInv
<1>2. QED
  BY <1>1, HonestInit, HonestNext, PTL DEF Spec
=============================================================================
