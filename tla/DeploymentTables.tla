-------------------------- MODULE DeploymentTables --------------------------
(***************************************************************************)
(* More proofs about Deployment: its tables refer to rows that exist, a    *)
(* recorded result is final, and re-arming compares what it means to       *)
(* compare.                                                                *)
(***************************************************************************)
EXTENDS DeploymentProofs

HIDE DEF Profile, Device, Deploy, History, Command, Answer, Worker, Conn,
         Final, Kinds, IdleWorker, NoConn

-----------------------------------------------------------------------------
\* The library is the administrator's.
LEMMA LibrarySteps ==
    ASSUME [Next]_vars, ~Admin
    PROVE  UNCHANGED library
<1> USE DEF library
<1>1. ASSUME NEW d \in Devices, CheckIn(d) PROVE UNCHANGED library
  BY <1>1 DEF CheckIn, Authenticate, TokenUpdate, CheckOut, Idle, DropReport, Report
<1>2. ASSUME NEW d \in Devices, HandleResult(d) PROVE UNCHANGED library
  BY <1>2 DEF HandleResult, ResultHistory, ResultDeploy
<1>3. ASSUME NEW w \in Workers, Step(w) PROVE UNCHANGED library
  BY <1>3, StepFrame
<1>4. CASE Crash
  BY <1>4 DEF Crash
<1>5. CASE UNCHANGED vars
  BY <1>5 DEF vars
<1>6. QED
  BY <1>1, <1>2, <1>3, <1>4, <1>5 DEF Next

\* A new row id is no row's.
LEMMA FreshRowid ==
    ASSUME NEW i \in Nat, profiles \subseteq Profile, IsNextRowid(i)
    PROVE  \A p \in profiles : p.id # i
BY DEF IsNextRowid, Profile

\* The result of a command changes a deploy row's status only.
LEMMA ResultDeployRows ==
    ASSUME NEW d \in Devices, deploys \subseteq Deploy, ResultDeploy(d)
    PROVE  \A x \in deploys' : \E r \in deploys :
              /\ x.device = r.device /\ x.profile = r.profile
              /\ x.uuid = r.uuid /\ x.stamp = r.stamp
              /\ \/ x = r
                 \/ /\ conn[d].pc = "deploy" /\ r.uuid = conn[d].uuid
                    /\ r.device = d
                    /\ x = [r EXCEPT !.status = DeployStatus(conn[d].status)]
                    /\ x.status = DeployStatus(conn[d].status)
<1>1. /\ conn[d].pc = "deploy"
      /\ \/ deploys' = deploys
         \/ deploys' = {IF r.uuid = conn[d].uuid /\ r.device = d
                        THEN [r EXCEPT !.status = DeployStatus(conn[d].status)]
                        ELSE r : r \in deploys}
  BY Zenon DEF ResultDeploy
<1>2. ASSUME NEW x \in deploys'
      PROVE  \E r \in deploys :
                \/ x = r
                \/ /\ r.uuid = conn[d].uuid
                   /\ r.device = d
                   /\ x = [r EXCEPT !.status = DeployStatus(conn[d].status)]
  BY <1>1, Zenon
<1>3. ASSUME NEW r \in deploys, NEW s
      PROVE  /\ [r EXCEPT !.status = s].device = r.device
             /\ [r EXCEPT !.status = s].profile = r.profile
             /\ [r EXCEPT !.status = s].uuid = r.uuid
             /\ [r EXCEPT !.status = s].stamp = r.stamp
             /\ [r EXCEPT !.status = s].status = s
  BY DEF Deploy
<1>4. ASSUME NEW x \in deploys', NEW r \in deploys,
             \/ x = r
             \/ /\ r.uuid = conn[d].uuid
                /\ r.device = d
                /\ x = [r EXCEPT !.status = DeployStatus(conn[d].status)]
      PROVE  /\ x.device = r.device /\ x.profile = r.profile
             /\ x.uuid = r.uuid /\ x.stamp = r.stamp
             /\ \/ x = r
                \/ /\ conn[d].pc = "deploy" /\ r.uuid = conn[d].uuid
                   /\ r.device = d
                   /\ x = [r EXCEPT !.status = DeployStatus(conn[d].status)]
                   /\ x.status = DeployStatus(conn[d].status)
  <2>1. CASE x = r
    BY <2>1
  <2>2. CASE /\ r.uuid = conn[d].uuid
             /\ r.device = d
             /\ x = [r EXCEPT !.status = DeployStatus(conn[d].status)]
    <3> DEFINE q == [r EXCEPT !.status = DeployStatus(conn[d].status)]
    <3>1. /\ q.device = r.device /\ q.profile = r.profile /\ q.uuid = r.uuid
          /\ q.stamp = r.stamp /\ q.status = DeployStatus(conn[d].status)
      BY <1>3, Zenon
    <3>2. x = q
      BY <2>2
    <3> HIDE DEF q
    <3>3. /\ x.device = r.device /\ x.profile = r.profile
          /\ x.uuid = r.uuid /\ x.stamp = r.stamp
          /\ x.status = DeployStatus(conn[d].status)
      BY <3>1, <3>2
    <3>4. QED
      BY <1>1, <2>2, <3>3
  <2>3. QED
    BY <1>4, <2>1, <2>2
<1>5. QED
  BY <1>2, <1>4, Zenon

\* ReferentialIntegrity is inductive once the tables are typed.
RefInv == TypeInv /\ ReferentialIntegrity

\* Two rows made from the rows of one device and profile are the same row.
LEMMA ResultDeployKeys ==
    ASSUME RefInv, NEW d \in Devices, ResultDeploy(d)
    PROVE  \A x, y \in deploys' :
              (x.device = y.device /\ x.profile = y.profile) => x = y
<1>1. deploys \subseteq Deploy
  BY DEF RefInv, TypeInv, TypeOK
<1>2. /\ \/ deploys' = deploys
         \/ deploys' = {IF r.uuid = conn[d].uuid /\ r.device = d
                        THEN [r EXCEPT !.status = DeployStatus(conn[d].status)]
                        ELSE r : r \in deploys}
  BY Zenon DEF ResultDeploy
<1> DEFINE F(r) == IF r.uuid = conn[d].uuid /\ r.device = d
                   THEN [r EXCEPT !.status = DeployStatus(conn[d].status)]
                   ELSE r
<1>3. \A r \in deploys : F(r).device = r.device /\ F(r).profile = r.profile
  BY <1>1 DEF Deploy
<1>4. \A r, s \in deploys :
         (r.device = s.device /\ r.profile = s.profile) => r = s
  BY DEF RefInv, ReferentialIntegrity
<1>5. deploys' = deploys \/ deploys' = {F(r) : r \in deploys}
  BY <1>2
<1> HIDE DEF F
<1>6. ASSUME NEW x \in deploys', NEW y \in deploys',
             x.device = y.device, x.profile = y.profile,
             deploys' = {F(r) : r \in deploys}
      PROVE  x = y
  <2>1. PICK r \in deploys : x = F(r)
    BY <1>6
  <2>2. PICK s \in deploys : y = F(s)
    BY <1>6
  <2>3. r = s
    BY <1>3, <1>4, <1>6, <2>1, <2>2
  <2>4. QED
    BY <2>1, <2>2, <2>3
<1>7. QED
  BY <1>4, <1>5, <1>6

LEMMA RefAdmin == RefInv /\ Admin => ReferentialIntegrity'
<1> SUFFICES ASSUME RefInv, Admin PROVE ReferentialIntegrity'
  OBVIOUS
<1>1. /\ profiles \subseteq Profile /\ groupDevices \subseteq Groups \X Devices
      /\ groupProfiles \subseteq Groups \X Nat /\ saves \in Nat
      /\ deploys \subseteq Deploy
  BY DEF RefInv, TypeInv, TypeOK
<1> USE DEF RefInv, ReferentialIntegrity, Event
<1>2. ASSUME NEW g \in Groups, CreateGroup(g) PROVE ReferentialIntegrity'
  BY <1>2 DEF CreateGroup
<1>3. ASSUME NEW g \in Groups, DeleteGroup(g) PROVE ReferentialIntegrity'
  BY <1>3 DEF DeleteGroup
<1>4. ASSUME NEW g \in Groups, NEW d \in Devices,
             AddDeviceToGroup(g, d) \/ RemoveDeviceFromGroup(g, d)
      PROVE  ReferentialIntegrity'
  BY <1>4 DEF AddDeviceToGroup, RemoveDeviceFromGroup
<1>5. ASSUME NEW g \in Groups, NEW p \in profiles,
             AssignProfile(g, p.id) \/ UnassignProfile(g, p.id)
      PROVE  ReferentialIntegrity'
  BY <1>5 DEF AssignProfile, UnassignProfile
<1>6. ASSUME NEW n \in Identifiers, SaveProfile(n) PROVE ReferentialIntegrity'
  <2>1. UNCHANGED <<groups, groupDevices, groupProfiles, deploys>>
    BY <1>6 DEF SaveProfile
  <2>2. \/ \E p \in profiles :
             /\ p.identifier = n
             /\ profiles' = (profiles \ {p}) \union
                              {[p EXCEPT !.rev = saves', !.stamp = clock']}
        \/ /\ \A p \in profiles : p.identifier # n
           /\ \E i \in 1..(saves + 1) :
                /\ IsNextRowid(i)
                /\ profiles' = profiles \union
                     {[id |-> i, identifier |-> n, rev |-> saves',
                       stamp |-> clock']}
    BY <1>6, Zenon DEF SaveProfile
  <2>3. ASSUME NEW p \in profiles, p.identifier = n,
               profiles' = (profiles \ {p}) \union
                              {[p EXCEPT !.rev = saves', !.stamp = clock']}
        PROVE  ReferentialIntegrity'
    <3> DEFINE q == [p EXCEPT !.rev = saves', !.stamp = clock']
    <3>1. q.id = p.id /\ q.identifier = p.identifier
      BY <1>1 DEF Profile
    <3>2. profiles' = (profiles \ {p}) \union {q}
      BY <2>3
    <3> HIDE DEF q
    <3>3. \A x, y \in profiles' : (x.id = y.id \/ x.identifier = y.identifier) => x = y
      BY <3>1, <3>2
    <3>4. \A x \in profiles : \E y \in profiles' : y.id = x.id
      BY <3>1, <3>2
    <3>5. QED
      BY <2>1, <3>3, <3>4
  <2>4. ASSUME \A p \in profiles : p.identifier # n,
               NEW i \in 1..(saves + 1), IsNextRowid(i),
               profiles' = profiles \union
                    {[id |-> i, identifier |-> n, rev |-> saves',
                      stamp |-> clock']}
        PROVE  ReferentialIntegrity'
    <3> DEFINE q == [id |-> i, identifier |-> n, rev |-> saves', stamp |-> clock']
    <3>1. q.id = i /\ q.identifier = n
      OBVIOUS
    <3>2. profiles' = profiles \union {q}
      BY <2>4
    <3> HIDE DEF q
    <3>3. \A p \in profiles : p.id # i
      BY <1>1, <2>4, FreshRowid
    <3>4. \A x, y \in profiles' : (x.id = y.id \/ x.identifier = y.identifier) => x = y
      BY <2>4, <3>1, <3>2, <3>3
    <3>5. QED
      BY <2>1, <3>2, <3>4
  <2>5. QED
    BY <2>2, <2>3, <2>4
<1>7. ASSUME NEW p \in profiles, DeleteProfile(p) PROVE ReferentialIntegrity'
  <2>1. /\ profiles' = profiles \ {p}
        /\ groupProfiles' = {x \in groupProfiles : x[2] # p.id}
        /\ deploys' = {r \in deploys : r.profile # p.id}
        /\ UNCHANGED <<groups, groupDevices>>
    BY <1>7 DEF DeleteProfile
  <2>2. QED
    BY <2>1
<1>8. ASSUME NEW d \in Devices, NEW p \in profiles, HandleDeviceInstall(d, p)
      PROVE  ReferentialIntegrity'
  BY <1>8 DEF HandleDeviceInstall, library
<1>9. ASSUME NEW d \in Devices, NEW n \in Identifiers, HandleDeviceRemove(d, n)
      PROVE  ReferentialIntegrity'
  BY <1>9 DEF HandleDeviceRemove, library
<1>10. QED
  BY <1>2, <1>3, <1>4, <1>5, <1>6, <1>7, <1>8, <1>9 DEF Admin

LEMMA RefNext == RefInv /\ [Next]_vars => RefInv'
<1> SUFFICES ASSUME RefInv, [Next]_vars PROVE ReferentialIntegrity'
  BY TypeNext DEF RefInv
<1>1. CASE Admin
  BY <1>1, RefAdmin
<1>2. CASE ~Admin
  <2>1. UNCHANGED <<groups, groupDevices, groupProfiles, profiles>>
    BY <1>2, LibrarySteps DEF library
  <2>2. CASE deploys' \subseteq deploys
    BY <2>1, <2>2 DEF RefInv, ReferentialIntegrity
  <2>3. ASSUME NEW d \in Devices, ResultDeploy(d) PROVE ReferentialIntegrity'
    <3>1. deploys \subseteq Deploy
      BY DEF RefInv, TypeInv, TypeOK
    <3>2. \A x \in deploys' : \E r \in deploys : x.profile = r.profile
      BY <2>3, <3>1, ResultDeployRows
    <3>3. \A x, y \in deploys' :
              (x.device = y.device /\ x.profile = y.profile) => x = y
      BY <2>3, ResultDeployKeys
    <3>4. QED
      BY <2>1, <3>2, <3>3 DEF RefInv, ReferentialIntegrity
  <2>4. ASSUME NEW w \in Workers, MarkDeploySent(w) PROVE ReferentialIntegrity'
    <3> DEFINE s == [device |-> worker[w].dev, profile |-> worker[w].job.id,
                     uuid |-> worker[w].uuid, stamp |-> worker[w].job.stamp,
                     status |-> "sent"]
    <3>1. \/ deploys' = deploys
          \/ /\ \E x \in profiles : x.id = worker[w].job.id
             /\ deploys' = {r \in deploys : \/ r.device # worker[w].dev
                                            \/ r.profile # worker[w].job.id}
                             \union {s}
      BY <2>4, Zenon DEF MarkDeploySent
    <3>2. s.device = worker[w].dev /\ s.profile = worker[w].job.id
      OBVIOUS
    <3> HIDE DEF s
    <3>3. QED
      BY <2>1, <3>1, <3>2 DEF RefInv, ReferentialIntegrity
  <2>5. QED
    BY <2>2, <2>3, <2>4, Writers
<1>3. QED
  BY <1>1, <1>2

\* Whatever goroutines mark while profiles and groups are deleted and row ids
\* are reused, keys stay unique and no row outlives what it refers to.
THEOREM TablesReferToRows == Spec => []ReferentialIntegrity
<1>1. Init => RefInv
  <2>1. Init => ReferentialIntegrity
    BY DEF Init, ReferentialIntegrity
  <2>2. QED
    BY <2>1, TypeInit DEF RefInv
<1>2. RefInv => ReferentialIntegrity
  BY DEF RefInv
<1>3. QED
  BY <1>1, <1>2, RefNext, PTL DEF Spec

-----------------------------------------------------------------------------
\* What a step does to the goroutines.

\* EnqueueCommand's effect when it succeeds, for goroutine w and profile p.
CommandFor(w, p) ==
    [uuid |-> NewUUID, device |-> worker[w].dev, kind |-> worker[w].kind,
     profile |-> p.id, identifier |-> p.identifier, rev |-> p.rev,
     stamp |-> p.stamp]

Enqueued(w, p) ==
    /\ worker[w].pc = "send"
    /\ commands' = commands \union {CommandFor(w, p)}
    /\ issued' = NewUUID
    /\ queue' = [queue EXCEPT ![worker[w].dev] = @ \union {NewUUID}]
    /\ worker'[w].pc = "push" /\ worker'[w].uuid = NewUUID
    /\ worker'[w].job = p /\ worker'[w].dev = worker[w].dev
    /\ worker'[w].todo = worker[w].todo
    /\ \A v \in Workers : v # w => worker'[v] = worker[v]

\* The goroutine gives up or finishes its profile, or starts on other work;
\* what it goes on with it had, or has just read.
MovesOn(w) ==
    /\ worker'[w].pc \notin {"push", "mark"}
    /\ \A x \in worker'[w].todo : x \in worker[w].todo \/ x \in profiles
                                                       \/ x.stamp = 0

\* The goroutine goes from the push to the deploy row.
Marks(w) ==
    /\ CommandSent(w)
    /\ worker'[w].pc = "mark" /\ worker'[w].uuid = worker[w].uuid
    /\ worker'[w].job = worker[w].job /\ worker'[w].dev = worker[w].dev
    /\ worker'[w].todo = worker[w].todo

Moves(w) == \/ worker'[w] = worker[w]
            \/ MovesOn(w)
            \/ \E p \in worker[w].todo : Enqueued(w, p)
            \/ Marks(w)

LEMMA SetLocals ==
    ASSUME TypeInv, NEW w \in Workers, NEW l, Set(w, l)
    PROVE  worker'[w] = l /\ \A v \in Workers : v # w => worker'[v] = worker[v]
<1>1. worker \in [Workers -> Worker]
  BY DEF TypeInv, TypeOK
<1>2. QED
  BY <1>1 DEF Set

LEMMA SetMoves ==
    ASSUME TypeInv, NEW w \in Workers, NEW l, Set(w, l),
           l.pc \notin {"push", "mark"},
           \A x \in l.todo : x \in worker[w].todo \/ x \in profiles \/ x.stamp = 0
    PROVE  \A v \in Workers : Moves(v)
BY SetLocals DEF Moves, MovesOn

LEMMA SpawnMoves ==
    ASSUME TypeInv, NEW l, Spawn(l), l.pc \notin {"push", "mark"},
           \A x \in l.todo : x \in profiles \/ x.stamp = 0
    PROVE  \A v \in Workers : Moves(v)
<1>1. PICK w \in Workers : Set(w, l)
  BY DEF Spawn, Set
<1>2. QED
  BY <1>1, SetMoves

LEMMA ReconcileMoves ==
    ASSUME TypeInv,
           \/ \E d \in Devices : ReconcileDevice(d)
           \/ \E g \in Groups : ReconcileGroup(g)
    PROVE  \A v \in Workers : Moves(v)
<1>1. ASSUME NEW d \in Devices, ReconcileDevice(d)
      PROVE  \A v \in Workers : Moves(v)
  <2> DEFINE l == [IdleWorker EXCEPT !.pc = "read", !.devs = {d}]
  <2>1. l.pc = "read" /\ l.todo = {}
    BY DEF IdleWorker
  <2>2. Spawn(l)
    BY <1>1 DEF ReconcileDevice
  <2> HIDE DEF l
  <2>3. QED
    BY <2>1, <2>2, SpawnMoves
<1>2. ASSUME NEW g \in Groups, ReconcileGroup(g)
      PROVE  \A v \in Workers : Moves(v)
  <2> DEFINE l == [IdleWorker EXCEPT !.pc = "group", !.group = g]
  <2>1. l.pc = "group" /\ l.todo = {}
    BY DEF IdleWorker
  <2>2. Spawn(l)
    BY <1>2 DEF ReconcileGroup
  <2> HIDE DEF l
  <2>3. QED
    BY <2>1, <2>2, SpawnMoves
<1>3. QED
  BY <1>1, <1>2

LEMMA AdminMoves == TypeInv /\ Admin => \A v \in Workers : Moves(v)
<1> SUFFICES ASSUME TypeInv, Admin PROVE \A v \in Workers : Moves(v)
  OBVIOUS
<1>1. ASSUME NEW d \in Devices, NEW p \in profiles, HandleDeviceInstall(d, p)
      PROVE  \A v \in Workers : Moves(v)
  <2> DEFINE l == [IdleWorker EXCEPT !.pc = "send", !.kind = "install",
                                     !.dev = d, !.todo = {p}]
  <2>1. l.pc = "send" /\ l.todo = {p}
    BY DEF IdleWorker
  <2>2. Spawn(l)
    BY <1>1 DEF HandleDeviceInstall
  <2> HIDE DEF l
  <2>3. QED
    BY <2>1, <2>2, SpawnMoves
<1>2. ASSUME NEW d \in Devices, NEW n \in Identifiers, HandleDeviceRemove(d, n)
      PROVE  \A v \in Workers : Moves(v)
  <2> DEFINE q == [id |-> 0, identifier |-> n, rev |-> 0, stamp |-> 0]
             l == [IdleWorker EXCEPT !.pc = "send", !.kind = "remove",
                                     !.dev = d, !.todo = {q}]
  <2>1. l.pc = "send" /\ l.todo = {q} /\ q.stamp = 0
    BY DEF IdleWorker
  <2>2. Spawn(l)
    BY <1>2 DEF HandleDeviceRemove
  <2> HIDE DEF l, q
  <2>3. QED
    BY <2>1, <2>2, SpawnMoves
<1>3. CASE UNCHANGED worker
  BY <1>3 DEF Moves
<1>4. CASE \/ \E d \in Devices : ReconcileDevice(d)
           \/ \E g \in Groups : ReconcileGroup(g)
  BY <1>4, ReconcileMoves
<1>5. QED
  BY <1>1, <1>2, <1>3, <1>4
  DEF Admin, CreateGroup, DeleteGroup, AddDeviceToGroup, RemoveDeviceFromGroup,
      AssignProfile, UnassignProfile, SaveProfile, DeleteProfile

\* Done with the current profile.
LEMMA NextJobMoves ==
    ASSUME TypeInv, NEW w \in Workers, NextJob(w)
    PROVE  \A v \in Workers : Moves(v)
<1> DEFINE m == [worker[w] EXCEPT !.todo = @ \ {worker[w].job}]
<1>1. worker[w] \in Worker /\ worker[w].todo \in SUBSET Profile
  BY DEF TypeInv, TypeOK, Worker
<1>2. worker[w].todo \ {worker[w].job} \in SUBSET Profile
  BY <1>1
<1>3. m \in Worker /\ m.todo = worker[w].todo \ {worker[w].job}
  BY <1>1, <1>2, WithTodo
<1>4. Set(w, Resume(m))
  BY DEF NextJob
<1> HIDE DEF m
<1>5. QED
  BY <1>3, <1>4, ResumeType, SetMoves

\* EnqueueCommand queues a command, or drops the profile for this pass.
LEMMA EnqueueEffect ==
    ASSUME TypeInv, NEW w \in Workers, EnqueueCommand(w)
    PROVE  \E p \in worker[w].todo :
              \/ Enqueued(w, p)
              \/ /\ UNCHANGED <<commands, issued, queue>>
                 /\ Set(w, Resume([worker[w] EXCEPT !.todo = @ \ {p}]))
<1>1. PICK p \in worker[w].todo :
        \/ /\ worker[w].pc = "send"
           /\ commands' = commands \union {CommandFor(w, p)}
           /\ issued' = NewUUID
           /\ queue' = [queue EXCEPT ![worker[w].dev] = @ \union {NewUUID}]
           /\ Set(w, [worker[w] EXCEPT !.pc = "push", !.job = p,
                                       !.uuid = NewUUID])
        \/ /\ UNCHANGED <<commands, issued, queue>>
           /\ Set(w, Resume([worker[w] EXCEPT !.todo = @ \ {p}]))
  BY Zenon DEF EnqueueCommand, CommandFor
<1> DEFINE l == [worker[w] EXCEPT !.pc = "push", !.job = p, !.uuid = NewUUID]
<1>2. l.pc = "push" /\ l.job = p /\ l.uuid = NewUUID
         /\ l.dev = worker[w].dev /\ l.todo = worker[w].todo
  BY DEF TypeInv, TypeOK, Worker
<1>3. CASE /\ worker[w].pc = "send"
           /\ commands' = commands \union {CommandFor(w, p)}
           /\ issued' = NewUUID
           /\ queue' = [queue EXCEPT ![worker[w].dev] = @ \union {NewUUID}]
           /\ Set(w, l)
  <2> HIDE DEF l
  <2>1. Enqueued(w, p)
    BY <1>2, <1>3, SetLocals DEF Enqueued
  <2>2. QED
    BY <2>1
<1>4. QED
  BY <1>1, <1>3

LEMMA StepMoves ==
    ASSUME TypeInv, NEW w \in Workers, Step(w)
    PROVE  \A v \in Workers : Moves(v)
<1>1. /\ worker[w] \in Worker /\ worker[w].todo \in SUBSET Profile
      /\ worker[w].devs \in SUBSET Devices
      /\ worker \in [Workers -> Worker] /\ profiles \subseteq Profile
      /\ devices \subseteq Device /\ issued \in Nat
  BY DEF TypeInv, TypeOK, Worker
<1>2. CASE ReadGroup(w)
  <2> DEFINE l == [worker[w] EXCEPT !.devs = GroupDeviceIDs(worker[w].group),
                                    !.group = None]
  <2>1. GroupDeviceIDs(worker[w].group) \in SUBSET Devices
    BY <1>1 DEF GroupDeviceIDs, Device
  <2>2. l \in Worker /\ l.todo = worker[w].todo
    BY <1>1, <2>1 DEF Worker
  <2>3. Set(w, Resume(l)) \/ Set(w, IdleWorker)
    BY <1>2 DEF ReadGroup
  <2>4. IdleWorker.pc = "idle" /\ IdleWorker.todo = {}
    BY DEF IdleWorker
  <2> HIDE DEF l
  <2>5. QED
    BY <2>2, <2>3, <2>4, ResumeType, SetMoves
<1>3. CASE ReadProfiles(w)
  <2>1. PICK d \in worker[w].devs :
          \/ Set(w, Resume([[worker[w] EXCEPT !.devs = @ \ {d}] EXCEPT
                               !.dev = d, !.todo = ProfilesToDeploy(d)]))
          \/ Set(w, Resume([worker[w] EXCEPT !.devs = @ \ {d}]))
    BY <1>3 DEF ReadProfiles
  <2> DEFINE l == [worker[w] EXCEPT !.devs = @ \ {d}]
             m == [l EXCEPT !.dev = d, !.todo = ProfilesToDeploy(d)]
  <2>2. l \in Worker /\ l.todo = worker[w].todo
    BY <1>1, WithDevs DEF Worker
  <2>3. ProfilesToDeploy(d) \in SUBSET profiles /\ d \in Devices
    BY <1>1 DEF ProfilesToDeploy
  <2>4. Set(w, Resume(m)) \/ Set(w, Resume(l))
    BY <2>1
  <2> HIDE DEF l
  <2>5. m \in Worker /\ m.todo = ProfilesToDeploy(d)
    BY <1>1, <2>2, <2>3 DEF Worker
  <2> HIDE DEF m
  <2>6. QED
    BY <2>2, <2>3, <2>4, <2>5, ResumeType, SetMoves
<1>4. CASE EnqueueCommand(w)
  <2>1. PICK p \in worker[w].todo :
          \/ Enqueued(w, p)
          \/ Set(w, Resume([worker[w] EXCEPT !.todo = @ \ {p}]))
    BY <1>4, EnqueueEffect
  <2>2. CASE Enqueued(w, p)
    BY <2>2 DEF Enqueued, Moves
  <2>3. CASE Set(w, Resume([worker[w] EXCEPT !.todo = @ \ {p}]))
    <3> DEFINE l == [worker[w] EXCEPT !.todo = @ \ {p}]
    <3>1. worker[w].todo \ {p} \in SUBSET Profile
      BY <1>1
    <3>2. l \in Worker /\ l.todo = worker[w].todo \ {p}
      BY <1>1, <3>1, WithTodo
    <3>3. Set(w, Resume(l))
      BY <2>3
    <3> HIDE DEF l
    <3>4. QED
      BY <3>2, <3>3, ResumeType, SetMoves
  <2>4. QED
    BY <2>1, <2>2, <2>3
<1>5. CASE PushFails(w)
  BY <1>5, NextJobMoves DEF PushFails
<1>6. CASE CommandSent(w)
  <2>1. CASE Set(w, [worker[w] EXCEPT !.pc = "mark"])
    <3> DEFINE l == [worker[w] EXCEPT !.pc = "mark"]
    <3>1. l.pc = "mark" /\ l.job = worker[w].job /\ l.uuid = worker[w].uuid
             /\ l.dev = worker[w].dev /\ l.todo = worker[w].todo
      BY <1>1 DEF Worker
    <3>2. Set(w, l)
      BY <2>1
    <3> HIDE DEF l
    <3>3. Marks(w) /\ \A v \in Workers : v # w => worker'[v] = worker[v]
      BY <1>6, <3>1, <3>2, SetLocals DEF Marks
    <3>4. QED
      BY <3>3 DEF Moves
  <2>2. CASE NextJob(w)
    BY <2>2, NextJobMoves
  <2>3. QED
    BY <1>6, <2>1, <2>2 DEF CommandSent
<1>7. CASE MarkDeploySent(w)
  BY <1>7, NextJobMoves DEF MarkDeploySent
<1>8. QED
  BY <1>2, <1>3, <1>4, <1>5, <1>6, <1>7 DEF Step

\* Every goroutine, in every step.
LEMMA AnyMoves ==
    ASSUME TypeInv, [Next]_vars
    PROVE  \A v \in Workers : Moves(v)
<1>1. CASE Admin
  BY <1>1, AdminMoves
<1>2. ASSUME NEW d \in Devices, CheckIn(d) PROVE \A v \in Workers : Moves(v)
  <2>1. CASE TokenUpdate(d)
    BY <2>1, ReconcileMoves DEF TokenUpdate
  <2>2. CASE UNCHANGED worker
    BY <2>2 DEF Moves
  <2>3. QED
    BY <1>2, <2>1, <2>2
    DEF CheckIn, Authenticate, CheckOut, Idle, DropReport, Report
<1>3. ASSUME NEW d \in Devices, HandleResult(d) PROVE \A v \in Workers : Moves(v)
  BY <1>3 DEF HandleResult, ResultHistory, ResultDeploy, Moves
<1>4. ASSUME NEW w \in Workers, Step(w) PROVE \A v \in Workers : Moves(v)
  BY <1>4, StepMoves
<1>5. CASE Crash
  <2>1. \A w \in Workers : worker'[w] = IdleWorker
    BY <1>5 DEF Crash
  <2>2. IdleWorker.pc = "idle" /\ IdleWorker.todo = {}
    BY DEF IdleWorker
  <2>3. QED
    BY <2>1, <2>2 DEF Moves, MovesOn
<1>6. CASE UNCHANGED vars
  BY <1>6 DEF vars, Moves
<1>7. QED
  BY <1>1, <1>2, <1>3, <1>4, <1>5, <1>6 DEF Next

\* Commands are added by EnqueueCommand only.
LEMMA Enqueues ==
    ASSUME TypeInv, [Next]_vars
    PROVE  \/ UNCHANGED <<commands, issued>>
           \/ \E w \in Workers : \E p \in worker[w].todo : Enqueued(w, p)
<1> USE DEF library, nano, device
<1>1. CASE Admin
  BY <1>1 DEF Admin, CreateGroup, DeleteGroup, AddDeviceToGroup,
     RemoveDeviceFromGroup, AssignProfile, UnassignProfile, SaveProfile,
     DeleteProfile, HandleDeviceInstall, HandleDeviceRemove
<1>2. ASSUME NEW d \in Devices, CheckIn(d) PROVE UNCHANGED <<commands, issued>>
  BY <1>2 DEF CheckIn, Authenticate, TokenUpdate, CheckOut, Idle, DropReport, Report
<1>3. ASSUME NEW d \in Devices, HandleResult(d) PROVE UNCHANGED <<commands, issued>>
  BY <1>3 DEF HandleResult, ResultHistory, ResultDeploy
<1>4. ASSUME NEW w \in Workers, Step(w)
      PROVE  \/ UNCHANGED <<commands, issued>>
             \/ \E p \in worker[w].todo : Enqueued(w, p)
  <2>1. CASE EnqueueCommand(w)
    BY <2>1, EnqueueEffect
  <2>2. QED
    BY <1>4, <2>1 DEF Step, ReadGroup, ReadProfiles, PushFails, CommandSent,
       MarkDeploySent
<1>5. CASE Crash
  BY <1>5 DEF Crash
<1>6. CASE UNCHANGED vars
  BY <1>6 DEF vars
<1>7. QED
  BY <1>1, <1>2, <1>3, <1>4, <1>5, <1>6 DEF Next

-----------------------------------------------------------------------------
\* A deploy row is marked after its command is in the history.

InHistory(u, d) == \E h \in history : h.uuid = u /\ h.device = d

\* Nothing fails before it happens.
LEMMA FaultsGrow == TypeInv /\ [Next]_vars => (faults' = 0 => faults = 0)
<1> SUFFICES ASSUME TypeInv, [Next]_vars, faults' = 0 PROVE faults = 0
  OBVIOUS
<1>1. faults \in Nat
  BY DEF TypeInv, TypeOK
<1>2. faults' # faults + 1
  BY <1>1
<1> USE DEF Fault, Project
<1>3. CASE Admin
  BY <1>3 DEF Admin, CreateGroup, DeleteGroup, AddDeviceToGroup,
     RemoveDeviceFromGroup, AssignProfile, UnassignProfile, SaveProfile,
     DeleteProfile, HandleDeviceInstall, HandleDeviceRemove
<1>4. ASSUME NEW d \in Devices, CheckIn(d) PROVE faults = 0
  BY <1>2, <1>4 DEF CheckIn, Authenticate, TokenUpdate, CheckOut, Idle, DropReport, Report
<1>5. ASSUME NEW d \in Devices, HandleResult(d) PROVE faults = 0
  BY <1>2, <1>5 DEF HandleResult, ResultHistory, ResultDeploy
<1>6. ASSUME NEW w \in Workers, Step(w) PROVE faults = 0
  BY <1>2, <1>6 DEF Step, ReadGroup, ReadProfiles, EnqueueCommand, PushFails,
     CommandSent, MarkDeploySent
<1>7. CASE Crash
  BY <1>2, <1>7 DEF Crash
<1>8. CASE UNCHANGED vars
  BY <1>8 DEF vars
<1>9. QED
  BY <1>3, <1>4, <1>5, <1>6, <1>7, <1>8 DEF Next

\* History rows are resolved, never removed.
LEMMA HistoryStays ==
    ASSUME TypeInv, [Next]_vars
    PROVE  \A u, d : InHistory(u, d) => InHistory(u, d)'
<1>1. history \subseteq History
  BY DEF TypeInv, TypeOK
<1>2. CASE history' = history
  BY <1>2 DEF InHistory
<1>3. ASSUME NEW e \in Devices, ResultHistory(e)
      PROVE  \A u, d : InHistory(u, d) => InHistory(u, d)'
  <2> DEFINE F(r) == IF r.uuid = conn[e].uuid /\ r.device = e
                     THEN [r EXCEPT !.status = conn[e].status] ELSE r
  <2>1. history' = history \/ history' = {F(r) : r \in history}
    BY <1>3, Zenon DEF ResultHistory
  <2>2. \A r \in history : F(r).uuid = r.uuid /\ F(r).device = r.device
    BY <1>1 DEF History
  <2> HIDE DEF F
  <2>3. \A r \in history : \E x \in history' : x.uuid = r.uuid /\ x.device = r.device
    BY <2>1, <2>2
  <2>4. QED
    BY <2>3 DEF InHistory
<1>4. ASSUME NEW w \in Workers, CommandSent(w)
      PROVE  \A u, d : InHistory(u, d) => InHistory(u, d)'
  <2>1. history \subseteq history'
    BY <1>4 DEF CommandSent
  <2>2. QED
    BY <2>1 DEF InHistory
<1>5. QED
  BY <1>2, <1>3, <1>4, Writers

\* While nothing has failed, a goroutine about to mark has its history row.
RecordedInv ==
    faults = 0 =>
       /\ \A r \in deploys : InHistory(r.uuid, r.device)
       /\ \A w \in Workers : worker[w].pc = "mark" =>
             InHistory(worker[w].uuid, worker[w].dev)

LEMMA RecordedNext == TypeInv /\ RecordedInv /\ [Next]_vars => RecordedInv'
<1> SUFFICES ASSUME TypeInv, RecordedInv, [Next]_vars, faults' = 0
             PROVE  /\ \A r \in deploys' : InHistory(r.uuid, r.device)'
                    /\ \A w \in Workers : worker'[w].pc = "mark" =>
                          InHistory(worker[w].uuid, worker[w].dev)'
  BY DEF RecordedInv
<1>1. faults = 0
  BY FaultsGrow
<1>2. \A u, d : InHistory(u, d) => InHistory(u, d)'
  BY HistoryStays
<1>3. \A r \in deploys : InHistory(r.uuid, r.device)'
  BY <1>1, <1>2 DEF RecordedInv
<1>4. ASSUME NEW w \in Workers, worker'[w].pc = "mark"
      PROVE  InHistory(worker[w].uuid, worker[w].dev)'
  <2>1. CASE worker'[w] = worker[w]
    <3>1. worker[w].pc = "mark"
      BY <1>4, <2>1
    <3>2. InHistory(worker[w].uuid, worker[w].dev)
      BY <1>1, <3>1 DEF RecordedInv
    <3>3. \E h \in history' : h.uuid = worker[w].uuid /\ h.device = worker[w].dev
      BY <1>2, <3>2 DEF InHistory
    <3>4. QED
      BY <2>1, <3>3 DEF InHistory
  <2>2. CASE Marks(w)
    <3>1. CASE faults' = faults
      <4>1. \/ \E r \in history : r.uuid = worker[w].uuid /\ r.device = worker[w].dev
            \/ history' = history \union
                               {[uuid |-> worker[w].uuid,
                                 device |-> worker[w].dev, status |-> "Sent"]}
        BY <2>2, <3>1, <1>1 DEF Marks, CommandSent, Fault
      <4>2. [uuid |-> worker[w].uuid, device |-> worker[w].dev, status |-> "Sent"].uuid
               = worker[w].uuid
            /\ [uuid |-> worker[w].uuid, device |-> worker[w].dev, status |-> "Sent"].device
               = worker[w].dev
        OBVIOUS
      <4>3. history \subseteq history'
        BY <2>2 DEF Marks, CommandSent
      <4>4. \E r \in history' : r.uuid = worker[w].uuid /\ r.device = worker[w].dev
        BY <4>1, <4>2, <4>3
      <4>5. QED
        BY <2>2, <4>4 DEF Marks, InHistory
    <3>2. QED
      BY <1>1, <3>1
  <2>3. ~MovesOn(w) /\ \A p \in worker[w].todo : ~Enqueued(w, p)
    BY <1>4 DEF MovesOn, Enqueued
  <2>4. QED
    BY <2>1, <2>2, <2>3, AnyMoves DEF Moves
<1>5. ASSUME NEW x \in deploys' PROVE InHistory(x.uuid, x.device)'
  <2>1. CASE deploys' \subseteq deploys
    BY <1>3, <2>1
  <2>2. ASSUME NEW d \in Devices, ResultDeploy(d) PROVE InHistory(x.uuid, x.device)'
    <3>1. deploys \subseteq Deploy
      BY DEF TypeInv, TypeOK
    <3>2. PICK r \in deploys : x.device = r.device /\ x.uuid = r.uuid
      BY <2>2, <3>1, ResultDeployRows
    <3>3. QED
      BY <1>3, <3>2 DEF InHistory
  <2>3. ASSUME NEW w \in Workers, MarkDeploySent(w) PROVE InHistory(x.uuid, x.device)'
    <3> DEFINE s == [device |-> worker[w].dev, profile |-> worker[w].job.id,
                     uuid |-> worker[w].uuid, stamp |-> worker[w].job.stamp,
                     status |-> "sent"]
    <3>1. worker[w].pc = "mark" /\ deploys' \subseteq deploys \union {s}
      BY <2>3 DEF MarkDeploySent
    <3>2. s.uuid = worker[w].uuid /\ s.device = worker[w].dev
      OBVIOUS
    <3> HIDE DEF s
    <3>3. InHistory(worker[w].uuid, worker[w].dev)
      BY <1>1, <3>1 DEF RecordedInv
    <3>4. \E h \in history' : h.uuid = s.uuid /\ h.device = s.device
      BY <1>2, <3>2, <3>3 DEF InHistory
    <3>5. QED
      BY <1>3, <3>1, <3>4 DEF InHistory
  <2>4. QED
    BY <2>1, <2>2, <2>3, Writers
<1>6. QED
  BY <1>4, <1>5

\* As long as no call has failed, the admin who follows a deploy row finds its
\* command: concurrent goroutines, results and deletions never reorder the two
\* writes of one send.
THEOREM DeploysAreRecorded == Spec => []DeploysAreInHistory
<1>1. Init => TypeInv /\ RecordedInv
  <2>1. Init => RecordedInv
    BY DEF Init, RecordedInv, IdleWorker
  <2>2. QED
    BY <2>1, TypeInit
<1>2. TypeInv /\ RecordedInv => DeploysAreInHistory
  BY DEF RecordedInv, InHistory, DeploysAreInHistory
<1>3. TypeInv /\ RecordedInv /\ [Next]_vars => (TypeInv /\ RecordedInv)'
  BY TypeNext, RecordedNext
<1>4. QED
  BY <1>1, <1>2, <1>3, PTL DEF Spec

-----------------------------------------------------------------------------
\* Commands reach the device they were enqueued for, once.

\* A CommandUUID names one command.
CommandsNumbered ==
    \A c \in commands : /\ c.uuid >= 1 /\ c.uuid <= issued
                        /\ \A b \in commands : b.uuid = c.uuid => b = c

SentTo(u, d) == \E c \in commands : c.uuid = u /\ c.device = d

\* What is queued for a device, what it executes and what a request of it is
\* about were sent to it.
DeliveryInv ==
    \A d \in Devices :
        /\ \A u \in queue[d] : SentTo(u, d)
        /\ exec[d] = 0 \/ SentTo(exec[d], d)
        /\ conn[d].pc # "none" =>
              /\ SentTo(conn[d].uuid, d)
              /\ conn[d].next = 0 \/ SentTo(conn[d].next, d)

\* A device answers a command once, and not while it is reporting NotNow.
AnswersFinal ==
    /\ \A a, b \in answers : a.uuid = b.uuid => a = b
    /\ \A d \in Devices : (conn[d].pc # "none" /\ conn[d].status = "NotNow") =>
          \A a \in answers : a.uuid # conn[d].uuid

\* The command a goroutine is about to mark is its own, and marked by no row.
MarkInv ==
    \A w \in Workers : worker[w].pc \in {"push", "mark"} =>
        /\ \A r \in deploys : r.uuid # worker[w].uuid
        /\ \A v \in Workers :
              (worker[v].pc \in {"push", "mark"} /\ worker[v].uuid = worker[w].uuid)
                 => v = w

NumberedInv == TypeInv /\ CommandsNumbered

LEMMA NumberedNext == NumberedInv /\ [Next]_vars => NumberedInv'
<1> SUFFICES ASSUME NumberedInv, [Next]_vars PROVE CommandsNumbered'
  BY TypeNext DEF NumberedInv
<1>1. commands \subseteq Command /\ issued \in Nat
  BY DEF NumberedInv, TypeInv, TypeOK
<1>2. CASE UNCHANGED <<commands, issued>>
  BY <1>2 DEF NumberedInv, CommandsNumbered
<1>3. ASSUME NEW w \in Workers, NEW p \in worker[w].todo, Enqueued(w, p)
      PROVE  CommandsNumbered'
  <2>1. commands' = commands \union {CommandFor(w, p)} /\ issued' = issued + 1
    BY <1>3 DEF Enqueued, NewUUID
  <2>2. CommandFor(w, p).uuid = issued + 1
    BY DEF CommandFor, NewUUID
  <2>3. \A c \in commands : c.uuid \in Nat
    BY <1>1 DEF Command
  <2>4. QED
    BY <1>1, <2>1, <2>2, <2>3 DEF NumberedInv, CommandsNumbered
<1>4. QED
  BY <1>2, <1>3, Enqueues DEF NumberedInv

\* What the check-ins that are no report do to queues and devices.
LEMMA CheckInDelivery ==
    ASSUME TypeInv, NEW d \in Devices,
           \/ Authenticate(d) \/ TokenUpdate(d) \/ CheckOut(d)
           \/ Idle(d) \/ DropReport(d)
    PROVE  /\ UNCHANGED <<commands, answers, conn>>
           /\ \A e \in Devices : queue'[e] \subseteq queue[e]
           /\ \A e \in Devices : \/ exec'[e] = exec[e] \/ exec'[e] = 0
                                 \/ exec'[e] \in queue[e]
<1>1. exec \in [Devices -> Nat] /\ queue \in [Devices -> SUBSET Nat]
  BY DEF TypeInv, TypeOK
<1>2. QED
  BY <1>1 DEF Authenticate, TokenUpdate, CheckOut, Idle, DropReport, library, nano

\* A report is about the command the device executes, and its response is
\* about one still queued.
LEMMA ReportDelivery ==
    ASSUME TypeInv, NEW d \in Devices, NEW status \in Final \union {"NotNow"},
           Report(d, status)
    PROVE  \E c \in commands, u \in queue[d] \union {0} :
              /\ c.uuid = exec[d]
              /\ \/ answers' = answers /\ status \in Final
                 \/ /\ answers' = answers /\ status = "NotNow"
                    /\ \A a \in answers : a.uuid # c.uuid
                 \/ /\ \A a \in answers : a.uuid # c.uuid
                    /\ status \in Final
                    /\ answers' = answers \union {[uuid |-> c.uuid, status |-> status]}
              /\ conn' = [conn EXCEPT ![d] = [pc |-> "history", uuid |-> c.uuid,
                                              status |-> status, next |-> u]]
              /\ \A e \in Devices : queue'[e] \subseteq queue[e]
              /\ UNCHANGED <<commands, exec>>
<1>1. queue \in [Devices -> SUBSET Nat] /\ answers \subseteq Answer
  BY DEF TypeInv, TypeOK
<1>2. PICK c \in commands :
        /\ c.uuid = exec[d]
        /\ \/ \A a \in answers : a.uuid # c.uuid
           \/ [uuid |-> c.uuid, status |-> status] \in answers
        /\ \/ /\ status \in Final
              /\ answers' = answers \union {[uuid |-> c.uuid, status |-> status]}
              /\ queue' = [queue EXCEPT ![d] = queue[d] \ {c.uuid}]
           \/ /\ status = "NotNow"
              /\ UNCHANGED <<answers, queue>>
        /\ \E u \in queue[d] \union {0} :
            conn' = [conn EXCEPT ![d] = [pc |-> "history", uuid |-> c.uuid,
                                         status |-> status, next |-> u]]
  BY Zenon DEF Report
<1>3. \A e \in Devices : queue'[e] \subseteq queue[e]
  BY <1>1, <1>2
<1>4. [uuid |-> c.uuid, status |-> status] \in answers => status \in Final
  BY <1>1 DEF Answer
<1>5. "NotNow" \notin Final
  BY DEF Final
<1>6. [uuid |-> c.uuid, status |-> status] \in answers =>
        answers \union {[uuid |-> c.uuid, status |-> status]} = answers
  OBVIOUS
<1>7. \/ answers' = answers /\ status \in Final
      \/ /\ answers' = answers /\ status = "NotNow"
         /\ \A a \in answers : a.uuid # c.uuid
      \/ /\ \A a \in answers : a.uuid # c.uuid
         /\ status \in Final
         /\ answers' = answers \union {[uuid |-> c.uuid, status |-> status]}
  BY <1>2, <1>4, <1>5, <1>6, Zenon
<1>8. UNCHANGED <<commands, exec>>
  BY DEF Report
<1>9. QED
  BY <1>2, <1>3, <1>7, <1>8, Zenon

DeliveredInv == NumberedInv /\ DeliveryInv

\* The two halves of the last step of a request.
LEMMA RespondDelivery ==
    ASSUME DeliveredInv, NEW d \in Devices, Respond(d), conn[d].pc # "none",
           UNCHANGED <<commands, queue>>
    PROVE  DeliveryInv'
<1>1. exec \in [Devices -> Nat] /\ conn \in [Devices -> Conn]
  BY DEF DeliveredInv, NumberedInv, TypeInv, TypeOK
<1>2. /\ exec'[d] = conn[d].next /\ conn'[d] = NoConn
      /\ \A e \in Devices : e # d => exec'[e] = exec[e] /\ conn'[e] = conn[e]
  BY <1>1 DEF Respond
<1>3. NoConn.pc = "none"
  BY DEF NoConn
<1>4. QED
  BY <1>2, <1>3 DEF DeliveredInv, DeliveryInv, SentTo

LEMMA DeliveryHandle ==
    ASSUME DeliveredInv, NEW d \in Devices, HandleResult(d)
    PROVE  DeliveryInv'
<1>1. UNCHANGED <<commands, queue>>
  BY DEF HandleResult, ResultHistory, ResultDeploy, nano
<1>2. conn[d].pc # "none"
  BY DEF HandleResult, ResultHistory, ResultDeploy
<1>3. CASE Respond(d)
  BY <1>1, <1>2, <1>3, RespondDelivery
<1>4. CASE conn' = [conn EXCEPT ![d].pc = "deploy"] /\ UNCHANGED exec
  <2>1. conn \in [Devices -> Conn] /\ conn[d] \in Conn
    BY DEF DeliveredInv, NumberedInv, TypeInv, TypeOK
  <2>2. /\ conn'[d] = [conn[d] EXCEPT !.pc = "deploy"]
        /\ \A e \in Devices : e # d => conn'[e] = conn[e]
    BY <1>4, <2>1
  <2>3. conn'[d].uuid = conn[d].uuid /\ conn'[d].next = conn[d].next
    BY <2>1, <2>2 DEF Conn
  <2>4. QED
    BY <1>1, <1>2, <1>4, <2>2, <2>3 DEF DeliveredInv, DeliveryInv, SentTo
<1>5. QED
  BY <1>3, <1>4 DEF HandleResult, ResultHistory, ResultDeploy

LEMMA DeliveryNext == DeliveredInv /\ [Next]_vars => DeliveredInv'
<1> SUFFICES ASSUME DeliveredInv, [Next]_vars PROVE DeliveryInv'
  BY NumberedNext DEF DeliveredInv
<1>0. TypeInv
  BY DEF DeliveredInv, NumberedInv
<1>1. commands \subseteq commands'
  BY <1>0, Grows
<1>2. /\ exec \in [Devices -> Nat] /\ conn \in [Devices -> Conn]
      /\ queue \in [Devices -> SUBSET Nat]
  BY <1>0 DEF TypeInv, TypeOK
<1>3. CASE UNCHANGED <<queue, exec, conn>>
  BY <1>1, <1>3 DEF DeliveredInv, DeliveryInv, SentTo
<1>4. ASSUME NEW d \in Devices,
             \/ Authenticate(d) \/ TokenUpdate(d) \/ CheckOut(d)
             \/ Idle(d) \/ DropReport(d)
      PROVE  DeliveryInv'
  BY <1>0, <1>4, CheckInDelivery DEF DeliveredInv, DeliveryInv, SentTo
<1>5. ASSUME NEW d \in Devices, NEW status \in Final \union {"NotNow"},
             Report(d, status)
      PROVE  DeliveryInv'
  <2>1. PICK c \in commands, u \in queue[d] \union {0} :
          /\ c.uuid = exec[d]
          /\ conn' = [conn EXCEPT ![d] = [pc |-> "history", uuid |-> c.uuid,
                                          status |-> status, next |-> u]]
          /\ \A e \in Devices : queue'[e] \subseteq queue[e]
          /\ UNCHANGED <<commands, exec>>
    BY <1>0, <1>5, ReportDelivery
  <2>2. conn'[d].uuid = c.uuid /\ conn'[d].next = u
    BY <1>2, <2>1
  <2>3. \A e \in Devices : e # d => conn'[e] = conn[e]
    BY <1>2, <2>1
  <2>4. exec[d] # 0
    BY <2>1 DEF DeliveredInv, NumberedInv, CommandsNumbered
  <2>5. SentTo(c.uuid, d) /\ (u = 0 \/ SentTo(u, d))
    BY <2>1, <2>4 DEF DeliveredInv, DeliveryInv
  <2>6. QED
    BY <2>1, <2>2, <2>3, <2>5 DEF DeliveredInv, DeliveryInv, SentTo
<1>6. ASSUME NEW w \in Workers, EnqueueCommand(w) PROVE DeliveryInv'
  <2>1. PICK p \in worker[w].todo :
          \/ Enqueued(w, p)
          \/ UNCHANGED <<commands, issued, queue>>
    BY <1>0, <1>6, EnqueueEffect
  <2>2. UNCHANGED <<exec, conn>>
    BY <1>6 DEF EnqueueCommand, device
  <2>3. CASE Enqueued(w, p)
    <3>1. worker[w].dev \in Devices
      BY <1>0, <1>6 DEF EnqueueCommand, TypeInv, WorkerInv
    <3>2. /\ commands' = commands \union {CommandFor(w, p)}
          /\ queue' = [queue EXCEPT ![worker[w].dev] = @ \union {NewUUID}]
      BY <2>3 DEF Enqueued
    <3>3. CommandFor(w, p).uuid = NewUUID /\ CommandFor(w, p).device = worker[w].dev
      BY DEF CommandFor
    <3>4. ASSUME NEW e \in Devices, NEW u \in queue'[e]
          PROVE  SentTo(u, e)'
      <4>1. u \in queue[e] \/ (u = NewUUID /\ e = worker[w].dev)
        BY <1>2, <3>1, <3>2
      <4>2. QED
        BY <3>2, <3>3, <4>1 DEF DeliveredInv, DeliveryInv, SentTo
    <3>5. QED
      BY <2>2, <3>2, <3>4 DEF DeliveredInv, DeliveryInv, SentTo
  <2>4. CASE UNCHANGED <<commands, queue>>
    BY <1>3, <2>2, <2>4
  <2>5. QED
    BY <2>1, <2>3, <2>4
<1>7. CASE Admin
  BY <1>3, <1>7 DEF Admin, CreateGroup, DeleteGroup, AddDeviceToGroup,
     RemoveDeviceFromGroup, AssignProfile, UnassignProfile, SaveProfile,
     DeleteProfile, HandleDeviceInstall, HandleDeviceRemove, nano, device
<1>8. ASSUME NEW w \in Workers, Step(w) PROVE DeliveryInv'
  BY <1>3, <1>6, <1>8 DEF Step, ReadGroup, ReadProfiles, PushFails, CommandSent,
     MarkDeploySent, nano, device
<1>9. CASE Crash
  <2>1. UNCHANGED <<commands, queue, exec>> /\ \A d \in Devices : conn'[d].pc = "none"
    BY <1>9 DEF Crash, nano, device, NoConn
  <2>2. QED
    BY <2>1 DEF DeliveredInv, DeliveryInv, SentTo
<1>10. CASE UNCHANGED vars
  BY <1>3, <1>10 DEF vars
<1>11. QED
  BY <1>4, <1>5, <1>7, <1>8, <1>9, <1>10, DeliveryHandle DEF Next, CheckIn

\* Who answers.
LEMMA AnswersStep ==
    ASSUME TypeInv, [Next]_vars
    PROVE  \/ \E d \in Devices : \E status \in Final \union {"NotNow"} :
                Report(d, status)
           \/ /\ UNCHANGED answers
              /\ \A d \in Devices :
                   \/ conn'[d].pc = "none"
                   \/ /\ conn[d].pc # "none"
                      /\ conn'[d].uuid = conn[d].uuid
                      /\ conn'[d].status = conn[d].status
                      /\ conn'[d].next = conn[d].next
<1>0. conn \in [Devices -> Conn]
  BY DEF TypeInv, TypeOK
<1>1. CASE UNCHANGED <<answers, conn>>
  BY <1>1
<1>2. ASSUME NEW d \in Devices, CheckIn(d)
      PROVE  \/ UNCHANGED <<answers, conn>>
             \/ \E status \in Final \union {"NotNow"} : Report(d, status)
  BY <1>2, CheckInDelivery DEF CheckIn
<1>3. ASSUME NEW d \in Devices, HandleResult(d)
      PROVE  /\ UNCHANGED answers
             /\ \A e \in Devices :
                   \/ conn'[e].pc = "none"
                   \/ /\ conn[e].pc # "none"
                      /\ conn'[e].uuid = conn[e].uuid
                      /\ conn'[e].status = conn[e].status
                      /\ conn'[e].next = conn[e].next
  <2>1. \/ conn' = [conn EXCEPT ![d] = NoConn]
        \/ conn' = [conn EXCEPT ![d].pc = "deploy"]
    BY <1>3 DEF HandleResult, ResultHistory, ResultDeploy, Respond
  <2>2. UNCHANGED answers /\ conn[d].pc # "none"
    BY <1>3 DEF HandleResult, ResultHistory, ResultDeploy
  <2>3. NoConn.pc = "none"
    BY DEF NoConn
  <2>4. CASE conn' = [conn EXCEPT ![d] = NoConn]
    BY <1>0, <2>2, <2>3, <2>4
  <2>5. CASE conn' = [conn EXCEPT ![d].pc = "deploy"]
    <3>1. conn'[d] = [conn[d] EXCEPT !.pc = "deploy"] /\ conn[d] \in Conn
             /\ \A e \in Devices : e # d => conn'[e] = conn[e]
      BY <1>0, <2>5
    <3>2. conn'[d].uuid = conn[d].uuid /\ conn'[d].status = conn[d].status
             /\ conn'[d].next = conn[d].next
      BY <3>1 DEF Conn
    <3>3. QED
      BY <2>2, <3>1, <3>2
  <2>6. QED
    BY <2>1, <2>4, <2>5
<1>4. CASE Admin
  BY <1>1, <1>4 DEF Admin, CreateGroup, DeleteGroup, AddDeviceToGroup,
     RemoveDeviceFromGroup, AssignProfile, UnassignProfile, SaveProfile,
     DeleteProfile, HandleDeviceInstall, HandleDeviceRemove, device
<1>5. ASSUME NEW w \in Workers, Step(w) PROVE UNCHANGED <<answers, conn>>
  BY <1>5, StepFrame
<1>6. CASE Crash
  BY <1>6 DEF Crash, device, NoConn
<1>7. CASE UNCHANGED vars
  BY <1>1, <1>7 DEF vars
<1>8. QED
  BY <1>1, <1>2, <1>3, <1>4, <1>5, <1>6, <1>7 DEF Next

LEMMA AnswersNext == DeliveredInv /\ AnswersFinal /\ [Next]_vars => AnswersFinal'
<1> SUFFICES ASSUME DeliveredInv, AnswersFinal, [Next]_vars PROVE AnswersFinal'
  OBVIOUS
<1>0. TypeInv
  BY DEF DeliveredInv, NumberedInv
<1>1. ASSUME NEW d \in Devices, NEW status \in Final \union {"NotNow"},
             Report(d, status)
      PROVE  AnswersFinal'
  <2>1. PICK c \in commands, u \in queue[d] \union {0} :
          /\ c.uuid = exec[d]
          /\ \/ answers' = answers /\ status \in Final
             \/ /\ answers' = answers /\ status = "NotNow"
                /\ \A a \in answers : a.uuid # c.uuid
             \/ /\ \A a \in answers : a.uuid # c.uuid
                /\ status \in Final
                /\ answers' = answers \union {[uuid |-> c.uuid, status |-> status]}
          /\ conn' = [conn EXCEPT ![d] = [pc |-> "history", uuid |-> c.uuid,
                                          status |-> status, next |-> u]]
    BY <1>0, <1>1, ReportDelivery
  <2>2. conn \in [Devices -> Conn]
    BY <1>0 DEF TypeInv, TypeOK
  <2>3. /\ conn'[d].uuid = c.uuid /\ conn'[d].status = status
        /\ \A e \in Devices : e # d => conn'[e] = conn[e]
    BY <2>1, <2>2
  <2>4. exec[d] # 0
    BY <2>1 DEF DeliveredInv, NumberedInv, CommandsNumbered
  <2>5. c.device = d
    <3>1. SentTo(c.uuid, d)
      BY <2>1, <2>4 DEF DeliveredInv, DeliveryInv
    <3>2. QED
      BY <3>1 DEF SentTo, DeliveredInv, NumberedInv, CommandsNumbered
  <2>6. ASSUME NEW e \in Devices, e # d, conn[e].pc # "none"
        PROVE  conn[e].uuid # c.uuid
    <3>1. SentTo(conn[e].uuid, e)
      BY <2>6 DEF DeliveredInv, DeliveryInv
    <3>2. QED
      BY <2>5, <2>6, <3>1 DEF SentTo, DeliveredInv, NumberedInv, CommandsNumbered
  <2>7. \A a, b \in answers' : a.uuid = b.uuid => a = b
    BY <2>1 DEF AnswersFinal
  <2>8. "NotNow" \notin Final
    BY DEF Final
  <2>9. ASSUME NEW e \in Devices, conn'[e].pc # "none", conn'[e].status = "NotNow",
               NEW a \in answers'
        PROVE  a.uuid # conn'[e].uuid
    <3>1. CASE e = d
      BY <2>1, <2>3, <2>8, <2>9, <3>1
    <3>2. CASE e # d
      <4>1. conn[e].pc # "none" /\ conn[e].status = "NotNow" /\ conn'[e] = conn[e]
        BY <2>3, <2>9, <3>2
      <4>2. a \in answers \/ a.uuid = c.uuid
        BY <2>1
      <4>3. QED
        BY <2>6, <3>2, <4>1, <4>2 DEF AnswersFinal
    <3>3. QED
      BY <3>1, <3>2
  <2>10. QED
    BY <2>7, <2>9 DEF AnswersFinal
<1>2. QED
  BY <1>0, <1>1, AnswersStep DEF AnswersFinal

ResultInv == /\ HonestInv /\ ReferentialIntegrity
             /\ CommandsNumbered /\ DeliveryInv /\ AnswersFinal /\ MarkInv

LEMMA MarkNext == ResultInv /\ [Next]_vars => MarkInv'
<1> SUFFICES ASSUME ResultInv, [Next]_vars PROVE MarkInv'
  OBVIOUS
<1>0. TypeInv /\ commands \subseteq Command /\ issued \in Nat /\ deploys \subseteq Deploy
  BY DEF ResultInv, HonestInv, TypeInv, TypeOK
<1>1. ASSUME NEW r \in deploys PROVE r.uuid # NewUUID
  <2>1. \E c \in commands : c.uuid = r.uuid
    BY DEF ResultInv, HonestInv, DeployRowsHonest
  <2>2. QED
    BY <1>0, <2>1 DEF ResultInv, CommandsNumbered, NewUUID, Command
<1>2. ASSUME NEW w \in Workers, worker[w].pc \in {"push", "mark"}
      PROVE  worker[w].uuid # NewUUID
  <2>1. \E c \in commands : c.uuid = worker[w].uuid
    BY <1>0, <1>2 DEF TypeInv, WorkerInv, IsCommandOf
  <2>2. QED
    BY <1>0, <2>1 DEF ResultInv, CommandsNumbered, NewUUID, Command
\* Between push and mark, a goroutine was there before with the same command
\* or has just been given the next one.
<1>3. ASSUME NEW w \in Workers, worker'[w].pc \in {"push", "mark"}
      PROVE  \/ worker[w].pc \in {"push", "mark"} /\ worker'[w].uuid = worker[w].uuid
             \/ /\ worker'[w].uuid = NewUUID
                /\ \E p \in worker[w].todo : Enqueued(w, p)
  <2>1. Moves(w)
    BY <1>0, AnyMoves
  <2>2. QED
    BY <1>3, <2>1 DEF Moves, MovesOn, Marks, CommandSent, Enqueued
\* A goroutine still at its mark has not been the one that marked.
<1>4. ASSUME NEW w \in Workers, worker'[w].pc \in {"push", "mark"},
             NEW x \in deploys'
      PROVE  x.uuid # worker'[w].uuid
  <2>1. ASSUME NEW r \in deploys PROVE r.uuid # worker'[w].uuid
    BY <1>1, <1>3, <1>4 DEF ResultInv, MarkInv
  <2>2. CASE deploys' \subseteq deploys
    BY <2>1, <2>2
  <2>3. ASSUME NEW d \in Devices, ResultDeploy(d) PROVE x.uuid # worker'[w].uuid
    <3>1. PICK r \in deploys : x.uuid = r.uuid
      BY <1>0, <2>3, ResultDeployRows
    <3>2. QED
      BY <2>1, <3>1
  <2>4. ASSUME NEW v \in Workers, MarkDeploySent(v) PROVE x.uuid # worker'[w].uuid
    <3> DEFINE s == [device |-> worker[v].dev, profile |-> worker[v].job.id,
                     uuid |-> worker[v].uuid, stamp |-> worker[v].job.stamp,
                     status |-> "sent"]
    <3>1. worker[v].pc = "mark" /\ deploys' \subseteq deploys \union {s}
             /\ NextJob(v) /\ UNCHANGED commands
      BY <2>4 DEF MarkDeploySent, nano
    <3>2. s.uuid = worker[v].uuid
      OBVIOUS
    <3> HIDE DEF s
    <3>3. worker'[v].pc \notin {"push", "mark"}
           /\ \A u \in Workers : u # v => worker'[u] = worker[u]
      <4> DEFINE m == [worker[v] EXCEPT !.todo = @ \ {worker[v].job}]
      <4>1. worker[v] \in Worker /\ worker[v].todo \in SUBSET Profile
        BY <1>0 DEF TypeInv, TypeOK, Worker
      <4>2. worker[v].todo \ {worker[v].job} \in SUBSET Profile
        BY <4>1
      <4>3. m \in Worker
        BY <4>1, <4>2, WithTodo
      <4>4. Set(v, Resume(m))
        BY <3>1 DEF NextJob
      <4> HIDE DEF m
      <4>5. QED
        BY <1>0, <4>3, <4>4, ResumeType, SetLocals
    <3>4. w # v /\ worker'[w] = worker[w]
      BY <1>4, <3>3
    <3>5. worker[v].uuid # worker[w].uuid
      BY <1>4, <3>1, <3>4 DEF ResultInv, MarkInv
    <3>6. QED
      BY <2>1, <3>1, <3>2, <3>4, <3>5
  <2>5. QED
    BY <2>2, <2>3, <2>4, Writers
<1>5. ASSUME NEW w \in Workers, worker'[w].pc \in {"push", "mark"},
             NEW v \in Workers, worker'[v].pc \in {"push", "mark"},
             worker'[v].uuid = worker'[w].uuid
      PROVE  v = w
  <2>1. CASE \E p \in worker[w].todo : Enqueued(w, p)
    <3>1. v # w => worker'[v] = worker[v]
      BY <2>1 DEF Enqueued
    <3>2. worker'[w].uuid = NewUUID
      BY <2>1 DEF Enqueued
    <3>3. QED
      BY <1>2, <1>5, <3>1, <3>2
  <2>2. CASE \E p \in worker[v].todo : Enqueued(v, p)
    <3>1. v # w => worker'[w] = worker[w]
      BY <2>2 DEF Enqueued
    <3>2. worker'[v].uuid = NewUUID
      BY <2>2 DEF Enqueued
    <3>3. QED
      BY <1>2, <1>5, <3>1, <3>2
  <2>3. QED
    BY <1>3, <1>5, <2>1, <2>2 DEF ResultInv, MarkInv
<1>6. QED
  BY <1>4, <1>5 DEF MarkInv

LEMMA ResultInit == Init => ResultInv
<1>1. Init => /\ ReferentialIntegrity /\ CommandsNumbered /\ DeliveryInv
              /\ AnswersFinal /\ MarkInv
  BY DEF Init, ReferentialIntegrity, CommandsNumbered, DeliveryInv, AnswersFinal,
         MarkInv, IdleWorker, NoConn
<1>2. QED
  BY <1>1, HonestInit DEF ResultInv

LEMMA ResultNext == ResultInv /\ [Next]_vars => ResultInv'
<1> SUFFICES ASSUME ResultInv, [Next]_vars PROVE ResultInv'
  OBVIOUS
<1>1. HonestInv'
  BY HonestNext DEF ResultInv
<1>2. ReferentialIntegrity'
  BY RefNext DEF ResultInv, RefInv, HonestInv
<1>3. DeliveredInv
  BY DEF DeliveredInv, NumberedInv, ResultInv, HonestInv
<1>4. CommandsNumbered' /\ DeliveryInv'
  BY <1>3, DeliveryNext DEF DeliveredInv, NumberedInv
<1>5. AnswersFinal'
  BY <1>3, AnswersNext DEF ResultInv
<1>6. QED
  BY <1>1, <1>2, <1>4, <1>5, MarkNext DEF ResultInv

\* The step the property is about.
KeepsResults ==
    /\ \A h \in history : h.status \in Final => h \in history'
    /\ \A r \in deploys, s \in deploys' :
          (r.uuid = s.uuid /\ r.status # "sent") => s.status = r.status

LEMMA HistoryKept ==
    ASSUME ResultInv, [Next]_vars, NEW h \in history, h.status \in Final
    PROVE  h \in history'
<1>1. CASE history' = history
  BY <1>1
<1>2. ASSUME NEW w \in Workers, CommandSent(w) PROVE h \in history'
  BY <1>2 DEF CommandSent
<1>3. ASSUME NEW d \in Devices, ResultHistory(d) PROVE h \in history'
  <2>1. /\ conn[d].pc # "none"
        /\ \/ history' = history
           \/ history' = {IF r.uuid = conn[d].uuid /\ r.device = d
                          THEN [r EXCEPT !.status = conn[d].status] ELSE r :
                             r \in history}
    BY <1>3, Zenon DEF ResultHistory
  <2>2. Answered(h.uuid, h.status)
    BY DEF ResultInv, HonestInv, HistoryHonest
  <2>3. CASE h.uuid = conn[d].uuid /\ h.device = d
    <3>1. conn[d].status = h.status
      <4>1. conn[d].status # "NotNow"
        BY <2>1, <2>2, <2>3 DEF ResultInv, AnswersFinal, Answered
      <4>2. conn[d].status \in Final
        BY <4>1 DEF ResultInv, HonestInv, TypeInv, TypeOK, Conn
      <4>3. Answered(conn[d].uuid, conn[d].status)
        BY <2>1, <4>2 DEF ResultInv, HonestInv, ConnInv
      <4>4. [uuid |-> h.uuid, status |-> conn[d].status]
               = [uuid |-> h.uuid, status |-> h.status]
        BY <2>2, <2>3, <4>3 DEF ResultInv, AnswersFinal, Answered
      <4>5. QED
        BY <4>4
    <3>2. [h EXCEPT !.status = h.status] = h
      BY DEF ResultInv, HonestInv, TypeInv, TypeOK, History
    <3>3. [h EXCEPT !.status = conn[d].status] = h
      BY <3>1, <3>2, Zenon
    <3>4. QED
      BY <2>1, <2>3, <3>3, Zenon
  <2>4. CASE ~(h.uuid = conn[d].uuid /\ h.device = d)
    BY <2>1, <2>4, Zenon
  <2>5. QED
    BY <2>3, <2>4
<1>4. QED
  BY <1>1, <1>2, <1>3, Writers

LEMMA DeploysKept ==
    ASSUME ResultInv, [Next]_vars, NEW r \in deploys, NEW s \in deploys',
           r.uuid = s.uuid, r.status # "sent"
    PROVE  s.status = r.status
<1>0. deploys \subseteq Deploy
  BY DEF ResultInv, HonestInv, TypeInv, TypeOK
\* One row per command.
<1>1. ASSUME NEW q \in deploys, q.uuid = r.uuid PROVE q = r
  <2>1. PICK b \in commands :
          b.uuid = q.uuid /\ b.device = q.device /\ b.profile = q.profile
    BY DEF ResultInv, HonestInv, DeployRowsHonest
  <2>2. PICK c \in commands :
          c.uuid = r.uuid /\ c.device = r.device /\ c.profile = r.profile
    BY DEF ResultInv, HonestInv, DeployRowsHonest
  <2>3. b = c
    BY <1>1, <2>1, <2>2 DEF ResultInv, CommandsNumbered
  <2>4. QED
    BY <2>1, <2>2, <2>3 DEF ResultInv, ReferentialIntegrity
<1>2. CASE deploys' \subseteq deploys
  BY <1>1, <1>2
<1>3. ASSUME NEW d \in Devices, ResultDeploy(d) PROVE s.status = r.status
  <2>1. PICK q \in deploys :
          /\ s.uuid = q.uuid
          /\ \/ s = q
             \/ /\ conn[d].pc = "deploy" /\ q.uuid = conn[d].uuid
                /\ s.status = DeployStatus(conn[d].status)
    BY <1>0, <1>3, ResultDeployRows
  <2>2. q = r
    BY <1>1, <2>1
  <2>3. CASE s = q
    BY <2>2, <2>3
  <2>4. CASE /\ conn[d].pc = "deploy" /\ q.uuid = conn[d].uuid
             /\ s.status = DeployStatus(conn[d].status)
    <3>1. conn[d].status \in Final /\ Answered(r.uuid, conn[d].status)
      BY <2>2, <2>4 DEF ResultInv, HonestInv, ConnInv
    <3>2. r.status \in {"installed", "failed"}
      BY <1>0 DEF Deploy
    <3>3. r.status = "installed" => Answered(r.uuid, "Acknowledged")
      BY DEF ResultInv, HonestInv, DeployRowsHonest
    <3>4. r.status = "failed" => Answered(r.uuid, "Error")
      BY DEF ResultInv, HonestInv, DeployRowsHonest
    <3>5. ASSUME NEW t, Answered(r.uuid, t) PROVE conn[d].status = t
      <4>1. [uuid |-> r.uuid, status |-> conn[d].status]
               = [uuid |-> r.uuid, status |-> t]
        BY <3>1, <3>5 DEF ResultInv, AnswersFinal, Answered
      <4>2. QED
        BY <4>1
    <3>6. QED
      BY <2>4, <3>2, <3>3, <3>4, <3>5 DEF DeployStatus
  <2>5. QED
    BY <2>1, <2>3, <2>4
<1>4. ASSUME NEW w \in Workers, MarkDeploySent(w) PROVE s.status = r.status
  <2> DEFINE n == [device |-> worker[w].dev, profile |-> worker[w].job.id,
                   uuid |-> worker[w].uuid, stamp |-> worker[w].job.stamp,
                   status |-> "sent"]
  <2>1. worker[w].pc = "mark" /\ deploys' \subseteq deploys \union {n}
    BY <1>4 DEF MarkDeploySent
  <2>2. n.uuid = worker[w].uuid
    OBVIOUS
  <2> HIDE DEF n
  <2>3. r.uuid # n.uuid
    BY <2>1, <2>2 DEF ResultInv, MarkInv
  <2>4. QED
    BY <1>1, <2>1, <2>3
<1>5. QED
  BY <1>2, <1>3, <1>4, Writers

\* Once the admin has read "Acknowledged", "Error", installed or failed, no
\* duplicate or late report, overlapping goroutine or crash unsays it.
THEOREM ResultsStay == Spec => ResultsAreFinal
<1>1. ResultInv /\ [Next]_vars => [KeepsResults]_<<history, deploys>>
  BY HistoryKept, DeploysKept DEF KeepsResults
<1>2. Spec => []ResultInv
  BY ResultInit, ResultNext, PTL DEF Spec
<1>3. Spec => [][KeepsResults]_<<history, deploys>>
  BY <1>1, <1>2, PTL DEF Spec
<1>4. QED
  BY <1>3 DEF KeepsResults, ResultsAreFinal

-----------------------------------------------------------------------------
\* A time stamp tells uploads apart, as long as the clock moves between them.

\* x was read from an upload that happened, and profiles with its time stamp
\* are that upload.
Content(x) ==
    /\ x.stamp <= clock
    /\ \A p \in profiles :
          x.stamp = p.stamp => x.identifier = p.identifier /\ x.rev = p.rev

ContentInv ==
    /\ \A p \in profiles : p.stamp >= 1 /\ Content(p)
    /\ \A w \in Workers : \A x \in worker[w].todo : Content(x)
    /\ \A c \in commands : Content(c)

\* Uploads come one at a time: each has a revision of its own and, if the clock
\* moves, is later than everything before.
LEMMA AnyUpload ==
    ASSUME TypeInv, [Next]_vars
    PROVE  /\ clock' >= clock /\ saves' >= saves
           /\ \A p \in profiles' : \/ p \in profiles
                                   \/ /\ p.stamp = clock' /\ (0 \notin Ticks => clock' > clock)
                                      /\ p.rev = saves' /\ saves' > saves
           /\ \A p, q \in profiles' : (p \notin profiles /\ q \notin profiles) => p = q
<1>0. clock \in Nat /\ saves \in Nat /\ profiles \subseteq Profile
  BY DEF TypeInv, TypeOK
<1>1. CASE UNCHANGED <<clock, saves>> /\ profiles' \subseteq profiles
  BY <1>0, <1>1
<1>2. ASSUME NEW n \in Identifiers, SaveProfile(n)
      PROVE  /\ clock' >= clock /\ (0 \notin Ticks => clock' > clock) /\ saves' > saves
             /\ \E q : /\ profiles' \subseteq profiles \union {q}
                       /\ q.stamp = clock' /\ q.rev = saves'
  <2>1. PICK t \in Ticks : clock' = clock + t
    BY <1>2 DEF SaveProfile
  <2>2. clock' >= clock /\ (0 \notin Ticks => clock' > clock)
    BY <1>0, <2>1, DeploymentAssumption
  <2>3. \A p \in profiles :
           /\ [p EXCEPT !.rev = saves', !.stamp = clock'].stamp = clock'
           /\ [p EXCEPT !.rev = saves', !.stamp = clock'].rev = saves'
    BY <1>0 DEF Profile
  <2>4. saves' > saves
    <3>1. saves' = saves + 1
      BY <1>2, Zenon DEF SaveProfile
    <3>2. QED
      BY <1>0, <3>1
  <2>5. \/ \E p \in profiles : profiles' = (profiles \ {p}) \union
                    {[p EXCEPT !.rev = saves', !.stamp = clock']}
        \/ \E i \in 1..(saves + 1) : profiles' = profiles \union
                    {[id |-> i, identifier |-> n, rev |-> saves', stamp |-> clock']}
    BY <1>2, Zenon DEF SaveProfile
  <2>6. ASSUME NEW p \in profiles, profiles' = (profiles \ {p}) \union
                    {[p EXCEPT !.rev = saves', !.stamp = clock']}
        PROVE  \E q : /\ profiles' \subseteq profiles \union {q}
                      /\ q.stamp = clock' /\ q.rev = saves'
    <3> DEFINE q == [p EXCEPT !.rev = saves', !.stamp = clock']
    <3>1. q.stamp = clock' /\ q.rev = saves'
      BY <2>3
    <3>2. profiles' \subseteq profiles \union {q}
      BY <2>6
    <3> HIDE DEF q
    <3>3. QED
      BY <3>1, <3>2
  <2>7. ASSUME NEW i \in 1..(saves + 1), profiles' = profiles \union
                    {[id |-> i, identifier |-> n, rev |-> saves', stamp |-> clock']}
        PROVE  \E q : /\ profiles' \subseteq profiles \union {q}
                      /\ q.stamp = clock' /\ q.rev = saves'
    <3> DEFINE q == [id |-> i, identifier |-> n, rev |-> saves', stamp |-> clock']
    <3>1. q.stamp = clock' /\ q.rev = saves'
      OBVIOUS
    <3>2. profiles' \subseteq profiles \union {q}
      BY <2>7
    <3> HIDE DEF q
    <3>3. QED
      BY <3>1, <3>2
  <2>8. QED
    BY <2>2, <2>4, <2>5, <2>6, <2>7
<1>3. ASSUME NEW n \in Identifiers, SaveProfile(n)
      PROVE  /\ clock' >= clock /\ saves' >= saves
             /\ \A p \in profiles' : \/ p \in profiles
                                     \/ /\ p.stamp = clock'
                                        /\ (0 \notin Ticks => clock' > clock)
                                        /\ p.rev = saves' /\ saves' > saves
             /\ \A p, q \in profiles' :
                   (p \notin profiles /\ q \notin profiles) => p = q
  <2>1. PICK q : /\ profiles' \subseteq profiles \union {q}
                 /\ q.stamp = clock' /\ q.rev = saves'
    BY <1>2, <1>3
  <2>2. clock' >= clock /\ (0 \notin Ticks => clock' > clock) /\ saves' > saves
    BY <1>2, <1>3
  <2>3. saves' \in Nat
    BY TypeNext DEF TypeInv, TypeOK
  <2>4. QED
    BY <1>0, <2>1, <2>2, <2>3
<1>4. ASSUME NEW p \in profiles, DeleteProfile(p)
      PROVE  UNCHANGED <<clock, saves>> /\ profiles' \subseteq profiles
  BY <1>4 DEF DeleteProfile
<1> USE DEF library
<1>5. CASE Admin
  BY <1>1, <1>3, <1>4, <1>5 DEF Admin, CreateGroup, DeleteGroup, AddDeviceToGroup,
     RemoveDeviceFromGroup, AssignProfile, UnassignProfile,
     HandleDeviceInstall, HandleDeviceRemove
<1>6. ASSUME NEW d \in Devices, CheckIn(d) PROVE UNCHANGED <<clock, saves, profiles>>
  BY <1>6 DEF CheckIn, Authenticate, TokenUpdate, CheckOut, Idle, DropReport, Report
<1>7. ASSUME NEW d \in Devices, HandleResult(d) PROVE UNCHANGED <<clock, saves, profiles>>
  BY <1>7 DEF HandleResult, ResultHistory, ResultDeploy
<1>8. ASSUME NEW w \in Workers, Step(w) PROVE UNCHANGED <<clock, saves, profiles>>
  BY <1>8, StepFrame
<1>9. CASE Crash
  BY <1>1, <1>9 DEF Crash
<1>10. CASE UNCHANGED vars
  BY <1>1, <1>10 DEF vars
<1>11. QED
  BY <1>1, <1>5, <1>6, <1>7, <1>8, <1>9, <1>10 DEF Next

LEMMA Uploads ==
    ASSUME 0 \notin Ticks, TypeInv, [Next]_vars
    PROVE  /\ clock' >= clock
           /\ \A p \in profiles' : \/ p \in profiles
                                   \/ p.stamp = clock' /\ clock' > clock
           /\ \A p, q \in profiles' : (p \notin profiles /\ q \notin profiles) => p = q
BY AnyUpload

\* What was so of a time stamp stays so.
LEMMA ContentKept ==
    ASSUME 0 \notin Ticks, TypeInv, TypeInv', [Next]_vars,
           NEW x, x.stamp \in Nat, Content(x)
    PROVE  /\ x.stamp <= clock'
           /\ \A p \in profiles' :
                 x.stamp = p.stamp => x.identifier = p.identifier /\ x.rev = p.rev
<1>1. clock \in Nat /\ clock' \in Nat
  BY DEF TypeInv, TypeOK
<1>2. clock' >= clock /\ \A p \in profiles' : \/ p \in profiles
                                              \/ p.stamp = clock' /\ clock' > clock
  BY Uploads
<1>3. QED
  BY <1>1, <1>2 DEF Content

LEMMA ContentNext ==
    ASSUME 0 \notin Ticks, TypeInv, ContentInv, [Next]_vars
    PROVE  ContentInv'
<1>0. TypeInv'
  BY TypeNext
<1>1. /\ clock \in Nat /\ clock' \in Nat /\ profiles \subseteq Profile
      /\ \A w \in Workers : worker[w].todo \in SUBSET Profile
      /\ \A w \in Workers : worker'[w].todo \in SUBSET Profile
      /\ commands \subseteq Command /\ commands' \subseteq Command
  BY <1>0 DEF TypeInv, TypeOK, Worker
<1>2. \A p \in Profile : p.stamp \in Nat
  BY DEF Profile
<1>3. \A c \in Command : c.stamp \in Nat
  BY DEF Command
<1>4. ASSUME NEW x, x.stamp \in Nat, Content(x)
      PROVE  Content(x)'
  BY <1>0, <1>4, ContentKept DEF Content
<1>5. ASSUME NEW p \in profiles' PROVE p.stamp >= 1 /\ Content(p)'
  <2>1. CASE p \in profiles
    BY <1>1, <1>2, <1>4, <2>1 DEF ContentInv
  <2>2. CASE p \notin profiles
    <3>1. p.stamp = clock' /\ clock' > clock
      BY <2>2, Uploads
    <3>2. ASSUME NEW q \in profiles', q.stamp = clock' PROVE q = p
      <4>1. q \notin profiles
        BY <1>1, <3>1, <3>2 DEF ContentInv, Content
      <4>2. QED
        BY <2>2, <4>1, Uploads
    <3>3. QED
      BY <1>1, <3>1, <3>2 DEF Content
  <2>3. QED
    BY <2>1, <2>2
<1>6. ASSUME NEW w \in Workers, NEW x \in worker'[w].todo PROVE Content(x)'
  <2>1. CASE x \in worker[w].todo
    BY <1>1, <1>2, <1>4, <2>1 DEF ContentInv
  <2>2. CASE x \in profiles
    BY <1>1, <1>2, <1>4, <2>2 DEF ContentInv
  <2>3. CASE x.stamp = 0
    BY <1>1, <1>5, <2>3 DEF Content
  <2>4. QED
    BY <2>1, <2>2, <2>3, AnyMoves DEF Moves, MovesOn, Enqueued, Marks
<1>7. ASSUME NEW c \in commands' PROVE Content(c)'
  <2>1. CASE c \in commands
    BY <1>1, <1>3, <1>4, <2>1 DEF ContentInv
  <2>2. ASSUME NEW w \in Workers, NEW p \in worker[w].todo, c = CommandFor(w, p)
        PROVE  Content(c)'
    <3>1. /\ c.stamp = p.stamp /\ c.identifier = p.identifier /\ c.rev = p.rev
      BY <2>2 DEF CommandFor
    <3>2. Content(p)'
      BY <1>1, <1>2, <1>4 DEF ContentInv
    <3>3. QED
      BY <3>1, <3>2 DEF Content
  <2>3. QED
    BY <2>1, <2>2, Enqueues DEF Enqueued
<1>8. QED
  BY <1>5, <1>6, <1>7 DEF ContentInv

\* If the clock moves between two uploads, the reconciler's comparison of
\* time stamps compares contents: a row it takes for up to date was written
\* for a command that carried what the profile is now.
THEOREM UpToDateMeansContent ==
    ASSUME 0 \notin Ticks
    PROVE  Spec => []UpToDateRowsCarryContent
<1>1. Init => HonestInv /\ ContentInv
  <2>1. Init => ContentInv
    BY DEF Init, ContentInv, IdleWorker
  <2>2. QED
    BY <2>1, HonestInit
<1>2. HonestInv /\ ContentInv /\ [Next]_vars => (HonestInv /\ ContentInv)'
  BY HonestNext, ContentNext DEF HonestInv
<1>3. HonestInv /\ ContentInv => UpToDateRowsCarryContent
  BY DEF HonestInv, ContentInv, Content, DeployRowsHonest, UpToDateRowsCarryContent
<1>4. QED
  BY <1>1, <1>2, <1>3, PTL DEF Spec

-----------------------------------------------------------------------------
(***************************************************************************)
(* One push per upload.  PushOnce does not hold (two overlapping           *)
(* reconciles send the same upload twice, and a failed statement makes the *)
(* next reconcile send it again); these are its only causes.               *)
(***************************************************************************)
OneWorker == \A v, w \in Workers : v = w

\* What goroutine w has still to enqueue.
Pending(w) == IF worker[w].pc \in {"push", "mark"}
              THEN worker[w].todo \ {worker[w].job} ELSE worker[w].todo

\* A goroutine takes up work; goes on with what is left; reads what a device
\* is missing.
Starts(w) ==
    /\ worker[w].pc = "idle" /\ worker'[w].pc \notin {"push", "mark"}
    /\ worker'[w].todo = {} \/ worker'[w].kind # "assigned"

Continues(w) ==
    /\ worker'[w].pc \notin {"push", "mark"}
    /\ worker'[w].todo \subseteq Pending(w)
    /\ worker'[w].todo # {} => /\ worker'[w].dev = worker[w].dev
                               /\ worker'[w].kind = worker[w].kind

Reads(w) ==
    /\ worker[w].pc = "read" /\ worker'[w].pc \notin {"push", "mark"}
    /\ worker'[w].todo # {} => \E d \in Devices : /\ worker'[w].todo = ProfilesToDeploy(d)
                                                  /\ worker'[w].dev = d

\* The deploy rows of a profile that stays as it was stay too.
KeepsRows ==
    \A r \in deploys, p \in profiles : (r.profile = p.id /\ p \in profiles') =>
        \E s \in deploys' :
            s.device = r.device /\ s.profile = r.profile /\ s.stamp = r.stamp

Tables == <<commands, deploys, profiles>>

\* What the only goroutine can do while nothing fails.
Works(w) ==
    \/ Starts(w) /\ UNCHANGED Tables
    \/ Reads(w) /\ UNCHANGED Tables
    \/ /\ Continues(w) /\ UNCHANGED Tables
       /\ worker[w].pc = "group" \/ worker[w].kind # "assigned"
    \/ /\ \E p \in worker[w].todo : Enqueued(w, p)
       /\ worker'[w].kind = worker[w].kind /\ UNCHANGED <<deploys, profiles>>
    \/ Marks(w) /\ worker'[w].kind = worker[w].kind /\ UNCHANGED Tables
    \/ MarkDeploySent(w) /\ Continues(w) /\ UNCHANGED <<commands, profiles>>

LEMMA ResumeKeeps ==
    ASSUME NEW l \in Worker
    PROVE  /\ Resume(l).pc \notin {"push", "mark"}
           /\ Resume(l).todo = l.todo
           /\ l.todo # {} => Resume(l).dev = l.dev /\ Resume(l).kind = l.kind
<1>1. CASE l.todo # {}
  BY <1>1 DEF Resume, Worker
<1>2. CASE l.todo = {} /\ l.devs # {}
  BY <1>2 DEF Resume, Worker
<1>3. CASE l.todo = {} /\ l.devs = {}
  BY <1>3 DEF Resume, IdleWorker
<1>4. QED
  BY <1>1, <1>2, <1>3

LEMMA NextJobContinues ==
    ASSUME TypeInv, NEW w \in Workers, worker[w].pc \in {"push", "mark"}, NextJob(w)
    PROVE  Continues(w)
<1> DEFINE m == [worker[w] EXCEPT !.todo = @ \ {worker[w].job}]
<1>1. worker[w] \in Worker /\ worker[w].todo \in SUBSET Profile
  BY DEF TypeInv, TypeOK, Worker
<1>2. worker[w].todo \ {worker[w].job} \in SUBSET Profile
  BY <1>1
<1>3. m \in Worker /\ m.todo = worker[w].todo \ {worker[w].job}
  BY <1>1, <1>2, WithTodo
<1>4. m.dev = worker[w].dev /\ m.kind = worker[w].kind
  BY <1>1 DEF Worker
<1>5. Set(w, Resume(m))
  BY DEF NextJob
<1> HIDE DEF m
<1>6. worker'[w] = Resume(m)
  BY <1>5, SetLocals
<1>7. QED
  BY <1>3, <1>4, <1>6, ResumeKeeps DEF Continues, Pending

LEMMA StepWorks ==
    ASSUME TypeInv, faults' = faults, NEW w \in Workers, Step(w)
    PROVE  Works(w)
<1>1. /\ worker[w] \in Worker /\ worker[w].todo \in SUBSET Profile
      /\ worker[w].devs \in SUBSET Devices /\ profiles \subseteq Profile
      /\ devices \subseteq Device /\ faults \in Nat
  BY DEF TypeInv, TypeOK, Worker
<1>2. ~Fault /\ UNCHANGED profiles
  BY <1>1, StepFrame DEF Fault
<1>3. CASE ReadGroup(w)
  <2> DEFINE l == [worker[w] EXCEPT !.devs = GroupDeviceIDs(worker[w].group),
                                    !.group = None]
  <2>1. GroupDeviceIDs(worker[w].group) \in SUBSET Devices
    BY <1>1 DEF GroupDeviceIDs, Device
  <2>2. /\ l \in Worker /\ l.todo = worker[w].todo
        /\ l.dev = worker[w].dev /\ l.kind = worker[w].kind
    BY <1>1, <2>1 DEF Worker
  <2>3. Set(w, Resume(l)) /\ worker[w].pc = "group" /\ UNCHANGED Tables
    BY <1>2, <1>3 DEF ReadGroup, Tables, nano
  <2> HIDE DEF l
  <2>4. worker'[w] = Resume(l)
    BY <2>3, SetLocals
  <2>5. Continues(w)
    BY <2>2, <2>3, <2>4, ResumeKeeps DEF Continues, Pending
  <2>6. QED
    BY <2>3, <2>5 DEF Works
<1>4. CASE ReadProfiles(w)
  <2>1. PICK d \in worker[w].devs :
          Set(w, Resume([[worker[w] EXCEPT !.devs = @ \ {d}] EXCEPT
                               !.dev = d, !.todo = ProfilesToDeploy(d)]))
    BY <1>2, <1>4 DEF ReadProfiles
  <2> DEFINE l == [worker[w] EXCEPT !.devs = @ \ {d}]
             m == [l EXCEPT !.dev = d, !.todo = ProfilesToDeploy(d)]
  <2>2. l \in Worker
    BY <1>1, WithDevs DEF Worker
  <2>3. ProfilesToDeploy(d) \in SUBSET profiles /\ d \in Devices
    BY <1>1 DEF ProfilesToDeploy
  <2>4. Set(w, Resume(m)) /\ worker[w].pc = "read" /\ UNCHANGED Tables
    BY <1>2, <1>4, <2>1 DEF ReadProfiles, Tables, nano
  <2> HIDE DEF l
  <2>5. m \in Worker /\ m.todo = ProfilesToDeploy(d) /\ m.dev = d
    BY <1>1, <2>2, <2>3 DEF Worker
  <2> HIDE DEF m
  <2>6. worker'[w] = Resume(m)
    BY <2>4, SetLocals
  <2>7. Reads(w)
    BY <2>3, <2>4, <2>5, <2>6, ResumeKeeps DEF Reads
  <2>8. QED
    BY <2>4, <2>7 DEF Works
<1>5. CASE EnqueueCommand(w)
  <2>1. PICK p \in worker[w].todo :
          /\ worker[w].pc = "send"
          /\ commands' = commands \union {CommandFor(w, p)}
          /\ issued' = NewUUID
          /\ queue' = [queue EXCEPT ![worker[w].dev] = @ \union {NewUUID}]
          /\ Set(w, [worker[w] EXCEPT !.pc = "push", !.job = p,
                                      !.uuid = NewUUID])
    BY <1>2, <1>5, Zenon DEF EnqueueCommand, CommandFor
  <2> DEFINE l == [worker[w] EXCEPT !.pc = "push", !.job = p, !.uuid = NewUUID]
  <2>2. /\ l.pc = "push" /\ l.job = p /\ l.uuid = NewUUID /\ l.kind = worker[w].kind
        /\ l.dev = worker[w].dev /\ l.todo = worker[w].todo
    BY <1>1 DEF Worker
  <2>3. Set(w, l)
    BY <2>1
  <2> HIDE DEF l
  <2>4. worker'[w] = l /\ \A v \in Workers : v # w => worker'[v] = worker[v]
    BY <2>3, SetLocals
  <2>5. Enqueued(w, p)
    BY <2>1, <2>2, <2>4 DEF Enqueued
  <2>6. UNCHANGED deploys
    BY <1>5 DEF EnqueueCommand
  <2>7. QED
    BY <1>2, <2>2, <2>4, <2>5, <2>6 DEF Works
<1>6. CASE PushFails(w)
  BY <1>2, <1>6 DEF PushFails
<1>7. CASE CommandSent(w)
  <2>0. worker[w].pc = "push" /\ UNCHANGED Tables
    BY <1>2, <1>7 DEF CommandSent, Tables, nano
  <2>1. CASE Set(w, [worker[w] EXCEPT !.pc = "mark"])
    <3> DEFINE l == [worker[w] EXCEPT !.pc = "mark"]
    <3>1. /\ l.pc = "mark" /\ l.job = worker[w].job /\ l.uuid = worker[w].uuid
          /\ l.dev = worker[w].dev /\ l.todo = worker[w].todo /\ l.kind = worker[w].kind
      BY <1>1 DEF Worker
    <3>2. Set(w, l)
      BY <2>1
    <3> HIDE DEF l
    <3>3. Marks(w) /\ worker'[w].kind = worker[w].kind
      BY <1>7, <3>1, <3>2, SetLocals DEF Marks
    <3>4. QED
      BY <2>0, <3>3 DEF Works
  <2>2. CASE worker[w].kind # "assigned" /\ NextJob(w)
    BY <2>0, <2>2, NextJobContinues DEF Works
  <2>3. QED
    BY <1>7, <2>1, <2>2 DEF CommandSent
<1>8. CASE MarkDeploySent(w)
  <2>1. worker[w].pc = "mark" /\ NextJob(w) /\ UNCHANGED commands
    BY <1>8 DEF MarkDeploySent, nano
  <2>2. QED
    BY <1>2, <1>8, <2>1, NextJobContinues DEF Works
<1>9. QED
  BY <1>3, <1>4, <1>5, <1>6, <1>7, <1>8 DEF Step

\* A request or a goroutine starts with a device or group to read, or with a
\* command of its own.
LEMMA SpawnStarts ==
    ASSUME TypeInv, NEW l, Spawn(l), l.pc \notin {"push", "mark"},
           l.todo = {} \/ l.kind # "assigned"
    PROVE  \E w \in Workers : Starts(w)
<1>1. PICK w \in Workers : worker[w].pc = "idle" /\ Set(w, l)
  BY DEF Spawn, Set
<1>2. QED
  BY <1>1, SetLocals DEF Starts

LEMMA ReconcileStarts ==
    ASSUME TypeInv,
           \/ \E d \in Devices : ReconcileDevice(d)
           \/ \E g \in Groups : ReconcileGroup(g)
    PROVE  \E w \in Workers : Starts(w)
<1>1. ASSUME NEW d \in Devices, ReconcileDevice(d)
      PROVE  \E w \in Workers : Starts(w)
  <2> DEFINE l == [IdleWorker EXCEPT !.pc = "read", !.devs = {d}]
  <2>1. l.pc = "read" /\ l.todo = {}
    BY DEF IdleWorker
  <2>2. Spawn(l)
    BY <1>1 DEF ReconcileDevice
  <2> HIDE DEF l
  <2>3. QED
    BY <2>1, <2>2, SpawnStarts
<1>2. ASSUME NEW g \in Groups, ReconcileGroup(g)
      PROVE  \E w \in Workers : Starts(w)
  <2> DEFINE l == [IdleWorker EXCEPT !.pc = "group", !.group = g]
  <2>1. l.pc = "group" /\ l.todo = {}
    BY DEF IdleWorker
  <2>2. Spawn(l)
    BY <1>2 DEF ReconcileGroup
  <2> HIDE DEF l
  <2>3. QED
    BY <2>1, <2>2, SpawnStarts
<1>3. QED
  BY <1>1, <1>2

\* A result leaves every deploy row its stamp.
LEMMA ResultDeployKeeps ==
    ASSUME TypeInv, NEW d \in Devices, ResultDeploy(d)
    PROVE  KeepsRows
<1>1. deploys \subseteq Deploy
  BY DEF TypeInv, TypeOK
<1> DEFINE F(r) == IF r.uuid = conn[d].uuid /\ r.device = d
                   THEN [r EXCEPT !.status = DeployStatus(conn[d].status)] ELSE r
<1>2. deploys' = deploys \/ deploys' = {F(r) : r \in deploys}
  BY Zenon DEF ResultDeploy
<1>3. \A r \in deploys : /\ F(r).device = r.device /\ F(r).profile = r.profile
                         /\ F(r).stamp = r.stamp
  BY <1>1 DEF Deploy
<1> HIDE DEF F
<1>4. QED
  BY <1>2, <1>3 DEF KeepsRows

\* While nothing fails, a step leaves goroutines and commands alone, and the
\* deploy rows of unchanged profiles, or it is a goroutine's.
LEMMA AnyWorks ==
    ASSUME RefInv, [Next]_vars, faults' = 0, faults = 0
    PROVE  \/ UNCHANGED <<worker, commands>> /\ KeepsRows
           \/ \E w \in Workers : Works(w)
<1>0. TypeInv /\ ~Fault
  BY DEF RefInv, Fault
<1> USE DEF library, nano, device
<1>1. CASE UNCHANGED <<worker, commands, deploys>>
  BY <1>1 DEF KeepsRows
<1>2. ASSUME NEW w \in Workers, Starts(w), UNCHANGED Tables
      PROVE  Works(w)
  BY <1>2 DEF Works
<1>3. ASSUME NEW p \in profiles, DeleteProfile(p)
      PROVE  UNCHANGED <<worker, commands>> /\ KeepsRows
  <2>1. /\ UNCHANGED <<worker, commands>> /\ profiles' = profiles \ {p}
        /\ deploys' = {r \in deploys : r.profile # p.id}
    BY <1>3 DEF DeleteProfile
  <2>2. QED
    BY <2>1 DEF KeepsRows, RefInv, ReferentialIntegrity
<1>4. ASSUME NEW d \in Devices, NEW p \in profiles, HandleDeviceInstall(d, p)
      PROVE  \E w \in Workers : Works(w)
  <2> DEFINE l == [IdleWorker EXCEPT !.pc = "send", !.kind = "install",
                                     !.dev = d, !.todo = {p}]
  <2>1. l.pc = "send" /\ l.kind = "install"
    BY DEF IdleWorker
  <2>2. Spawn(l) /\ UNCHANGED Tables
    BY <1>4 DEF HandleDeviceInstall, Tables
  <2> HIDE DEF l
  <2>3. QED
    BY <1>0, <1>2, <2>1, <2>2, SpawnStarts
<1>5. ASSUME NEW d \in Devices, NEW n \in Identifiers, HandleDeviceRemove(d, n)
      PROVE  \E w \in Workers : Works(w)
  <2> DEFINE l == [IdleWorker EXCEPT !.pc = "send", !.kind = "remove", !.dev = d,
                !.todo = {[id |-> 0, identifier |-> n, rev |-> 0, stamp |-> 0]}]
  <2>1. l.pc = "send" /\ l.kind = "remove"
    BY DEF IdleWorker
  <2>2. Spawn(l) /\ UNCHANGED Tables
    BY <1>5 DEF HandleDeviceRemove, Tables
  <2> HIDE DEF l
  <2>3. QED
    BY <1>0, <1>2, <2>1, <2>2, SpawnStarts
<1>6. ASSUME \/ \E d \in Devices : ReconcileDevice(d)
             \/ \E g \in Groups : ReconcileGroup(g),
             UNCHANGED Tables
      PROVE  \E w \in Workers : Works(w)
  BY <1>0, <1>2, <1>6, ReconcileStarts
<1>7. CASE Admin
  BY <1>1, <1>3, <1>4, <1>5, <1>6, <1>7
  DEF Admin, CreateGroup, DeleteGroup, AddDeviceToGroup, RemoveDeviceFromGroup,
      AssignProfile, UnassignProfile, SaveProfile, Tables
<1>8. ASSUME NEW d \in Devices, CheckIn(d)
      PROVE  \/ UNCHANGED <<worker, commands, deploys>>
             \/ \E w \in Workers : Works(w)
  <2>1. CASE TokenUpdate(d)
    BY <1>6, <2>1 DEF TokenUpdate, Tables
  <2>2. QED
    BY <1>8, <2>1 DEF CheckIn, Authenticate, CheckOut, Idle, DropReport, Report
<1>9. ASSUME NEW d \in Devices, HandleResult(d)
      PROVE  UNCHANGED <<worker, commands>> /\ KeepsRows
  <2>1. CASE ResultHistory(d)
    BY <1>1, <2>1 DEF ResultHistory, KeepsRows
  <2>2. CASE ResultDeploy(d)
    <3>1. UNCHANGED <<worker, commands>>
      BY <2>2 DEF ResultDeploy
    <3>2. QED
      BY <1>0, <2>2, <3>1, ResultDeployKeeps
  <2>3. QED
    BY <1>9, <2>1, <2>2 DEF HandleResult
<1>10. ASSUME NEW w \in Workers, Step(w) PROVE Works(w)
  BY <1>0, <1>10, StepWorks
<1>11. CASE Crash
  BY <1>0, <1>11 DEF Crash
<1>12. CASE UNCHANGED vars
  BY <1>1, <1>12 DEF vars
<1>13. QED
  BY <1>1, <1>7, <1>8, <1>9, <1>10, <1>11, <1>12 DEF Next

Assigns(c, d) == c.kind = "assigned" /\ c.device = d

\* The profile x.rev was read from, if the library still has it, is row id.
Version(id, x) ==
    /\ x.rev <= saves
    /\ \A p \in profiles : p.rev = x.rev =>
          p.id = id /\ p.identifier = x.identifier /\ p.stamp = x.stamp

\* A revision is one upload's, for goroutines and commands as for the library.
VersionInv ==
    /\ \A p \in profiles : p.rev >= 1 /\ Version(p.id, p)
    /\ \A w \in Workers : worker[w].kind = "assigned" =>
          \A x \in worker[w].todo : Version(x.id, x)
    /\ \A c \in commands : c.kind = "assigned" => Version(c.profile, c)

LEMMA VersionKept ==
    ASSUME TypeInv, TypeInv', [Next]_vars, NEW id, NEW x, x.rev \in Nat, Version(id, x)
    PROVE  Version(id, x)'
<1>1. saves \in Nat /\ saves' \in Nat
  BY DEF TypeInv, TypeOK
<1>2. saves' >= saves /\ \A p \in profiles' : \/ p \in profiles
                                              \/ p.rev = saves' /\ saves' > saves
  BY AnyUpload
<1>3. QED
  BY <1>1, <1>2 DEF Version

LEMMA VersionNext ==
    ASSUME OneWorker, RefInv, VersionInv, [Next]_vars, faults' = 0, faults = 0
    PROVE  VersionInv'
<1>0. TypeInv /\ TypeInv'
  BY TypeNext DEF RefInv
<1>1. /\ saves \in Nat /\ saves' \in Nat /\ profiles \subseteq Profile
      /\ \A w \in Workers : worker[w].todo \in SUBSET Profile
      /\ commands \subseteq Command
  BY <1>0 DEF TypeInv, TypeOK, Worker
<1>2. (\A p \in Profile : p.rev \in Nat) /\ (\A c \in Command : c.rev \in Nat)
  BY DEF Profile, Command
<1>3. ASSUME NEW p \in profiles' PROVE p.rev >= 1 /\ Version(p.id, p)'
  <2>1. CASE p \in profiles
    BY <1>0, <1>1, <1>2, <2>1, VersionKept DEF VersionInv
  <2>2. CASE p \notin profiles
    <3>1. p.rev = saves' /\ saves' > saves
      BY <1>0, <2>2, AnyUpload
    <3>2. ASSUME NEW q \in profiles', q.rev = saves' PROVE q = p
      <4>1. q \notin profiles
        BY <1>1, <1>2, <3>1, <3>2 DEF VersionInv, Version
      <4>2. QED
        BY <1>0, <2>2, <4>1, AnyUpload
    <3>3. QED
      BY <1>1, <3>1, <3>2 DEF Version
  <2>3. QED
    BY <2>1, <2>2
<1>4. ASSUME NEW w \in Workers, worker'[w].kind = "assigned", NEW x \in worker'[w].todo
      PROVE  Version(x.id, x)'
  <2>1. \/ worker[w].kind = "assigned" /\ x \in worker[w].todo
        \/ x \in profiles
    <3>1. CASE worker' = worker
      BY <1>4, <3>1
    <3>2. CASE Works(w)
      <4>1. CASE Starts(w)
        BY <1>4, <4>1 DEF Starts
      <4>2. CASE Reads(w)
        BY <1>4, <4>2 DEF Reads, ProfilesToDeploy
      <4>3. CASE Continues(w)
        BY <1>4, <4>3 DEF Continues, Pending
      <4>4. CASE \/ Marks(w) \/ \E p \in worker[w].todo : Enqueued(w, p)
        <5>1. worker'[w].todo = worker[w].todo /\ worker'[w].pc \in {"push", "mark"}
          BY <4>4 DEF Marks, Enqueued
        <5>2. worker'[w].kind = worker[w].kind \/ Starts(w) \/ Reads(w) \/ Continues(w)
          BY <3>2 DEF Works
        <5>3. QED
          BY <1>4, <4>1, <4>2, <4>3, <5>1, <5>2
      <4>5. QED
        BY <3>2, <4>1, <4>2, <4>3, <4>4 DEF Works
    <3>3. QED
      BY <3>1, <3>2, AnyWorks DEF OneWorker
  <2>2. Version(x.id, x) /\ x.rev \in Nat
    BY <1>1, <1>2, <2>1 DEF VersionInv
  <2>3. QED
    BY <1>0, <2>2, VersionKept
<1>5. ASSUME NEW c \in commands', c.kind = "assigned"
      PROVE  Version(c.profile, c)'
  <2>1. CASE c \in commands
    BY <1>0, <1>1, <1>2, <1>5, <2>1, VersionKept DEF VersionInv
  <2>2. ASSUME NEW w \in Workers, NEW p \in worker[w].todo, c = CommandFor(w, p)
        PROVE  Version(c.profile, c)'
    <3>1. /\ c.profile = p.id /\ c.stamp = p.stamp /\ c.identifier = p.identifier
          /\ c.rev = p.rev /\ worker[w].kind = "assigned"
      BY <1>5, <2>2 DEF CommandFor
    <3>2. Version(p.id, p)'
      BY <1>0, <1>1, <1>2, <3>1, VersionKept DEF VersionInv
    <3>3. QED
      BY <3>1, <3>2 DEF Version
  <2>3. QED
    BY <1>0, <2>1, <2>2, Enqueues DEF Enqueued
<1>6. QED
  BY <1>3, <1>4, <1>5 DEF VersionInv

\* A goroutine has c in hand, between its enqueueing and its deploy row.
InHand(c) == \E w \in Workers :
    worker[w].pc \in {"push", "mark"} /\ worker[w].uuid = c.uuid

\* The deploy row says that what c carries was sent.
Covered(c) ==
    \A p \in profiles : p.rev = c.rev =>
        \E r \in deploys :
            r.device = c.device /\ r.profile = p.id /\ r.stamp = p.stamp

\* Neither the upload x nor what has taken its row id was sent to d.
Unsent(x, d) ==
    \A c \in commands : Assigns(c, d) =>
        c.rev # x.rev /\ \A p \in profiles : p.id = x.id => p.rev # c.rev

\* What w is about to mark as sent, it has sent itself.
Held(w) ==
    \A c \in commands, p \in profiles :
        (/\ Assigns(c, worker[w].dev)
         /\ p.id = worker[w].job.id /\ p.rev = c.rev) => c.uuid = worker[w].uuid

SentOnce ==
    \A b, c \in commands :
        (Assigns(b, c.device) /\ Assigns(c, c.device) /\ b.rev = c.rev) => b = c

SentIsKnown == \A c \in commands : c.kind = "assigned" => InHand(c) \/ Covered(c)

TodoIsNew ==
    \A w \in Workers : worker[w].kind = "assigned" =>
        /\ \A x, y \in worker[w].todo : (x.rev = y.rev \/ x.id = y.id) => x = y
        /\ \A x \in Pending(w) : Unsent(x, worker[w].dev)
        /\ worker[w].pc \in {"push", "mark"} => Held(w)

OnceInv == SentOnce /\ SentIsKnown /\ TodoIsNew

\* An upload is later than every command.
LEMMA OldProfile ==
    ASSUME TypeInv, VersionInv, [Next]_vars, NEW c \in commands, c.kind = "assigned",
           NEW p \in profiles', p.rev = c.rev
    PROVE  p \in profiles
<1>1. saves \in Nat /\ saves' \in Nat
  BY TypeNext DEF TypeInv, TypeOK
<1>2. c.rev \in Nat
  BY DEF TypeInv, TypeOK, Command
<1>3. Version(c.profile, c)
  BY DEF VersionInv
<1>4. c.rev <= saves
  BY <1>3 DEF Version
<1>5. p \in profiles \/ (p.rev = saves' /\ saves' > saves)
  BY AnyUpload
<1>6. QED
  BY <1>1, <1>2, <1>4, <1>5

LEMMA CoveredKept ==
    ASSUME TypeInv, VersionInv, [Next]_vars, KeepsRows,
           NEW c \in commands, c.kind = "assigned", Covered(c)
    PROVE  Covered(c)'
BY OldProfile DEF Covered, KeepsRows

LEMMA UnsentKept ==
    ASSUME TypeInv, VersionInv, [Next]_vars, UNCHANGED commands, NEW x, NEW d, Unsent(x, d)
    PROVE  Unsent(x, d)'
BY OldProfile DEF Unsent, Assigns

LEMMA UnchangedKeeps == UNCHANGED <<deploys, profiles>> => KeepsRows
BY DEF KeepsRows

\* What a goroutine that sends may rely on.
OnceBase == OneWorker /\ RefInv /\ CommandsNumbered /\ VersionInv

\* No goroutine is concerned.
LEMMA OnceQuiet ==
    ASSUME OnceBase, OnceInv, [Next]_vars, UNCHANGED <<worker, commands>>, KeepsRows
    PROVE  OnceInv'
<1>0. TypeInv /\ VersionInv
  BY DEF OnceBase, RefInv
<1>1. SentOnce'
  BY DEF OnceInv, SentOnce, Assigns
<1>2. SentIsKnown'
  BY <1>0, CoveredKept DEF OnceInv, SentIsKnown, InHand
<1>3. ASSUME NEW w \in Workers, worker[w].kind = "assigned"
      PROVE  /\ \A x, y \in worker[w].todo : (x.rev = y.rev \/ x.id = y.id) => x = y
             /\ \A x \in Pending(w) : Unsent(x, worker[w].dev)'
             /\ worker[w].pc \in {"push", "mark"} => Held(w)'
  <2>1. Held(w) => Held(w)'
    BY <1>0, OldProfile DEF Held, Assigns
  <2>2. \A x \in Pending(w) : Unsent(x, worker[w].dev)'
    <3>1. ASSUME NEW d, NEW x \in Pending(w), Unsent(x, d) PROVE Unsent(x, d)'
      BY <1>0, <3>1, UnsentKept
    <3>2. \A x \in Pending(w) : Unsent(x, worker[w].dev)
      BY <1>3 DEF OnceInv, TodoIsNew
    <3>3. QED
      BY <3>1, <3>2 DEF Unsent
  <2>3. QED
    BY <1>3, <2>1, <2>2 DEF OnceInv, TodoIsNew
<1>4. TodoIsNew'
  BY <1>3 DEF TodoIsNew, Pending
<1>5. QED
  BY <1>1, <1>2, <1>4 DEF OnceInv

\* A goroutine starts, reads a device's missing profiles or goes on with less,
\* and had nothing of the reconciler's in hand.
LEMMA OnceTurns ==
    ASSUME OnceBase, OnceInv, [Next]_vars, UNCHANGED Tables, NEW w \in Workers,
           \/ Starts(w) \/ Reads(w)
           \/ Continues(w) /\ (worker[w].pc = "group" \/ worker[w].kind # "assigned")
    PROVE  OnceInv'
<1>0. /\ TypeInv /\ VersionInv /\ commands' = commands
      /\ deploys' = deploys /\ profiles' = profiles /\ \A v \in Workers : v = w
      /\ profiles \subseteq Profile
  BY DEF OnceBase, RefInv, OneWorker, Tables, TypeInv, TypeOK
<1>1. SentOnce'
  BY <1>0 DEF OnceInv, SentOnce, Assigns
<1>2. ASSUME NEW c \in commands, c.kind = "assigned" PROVE ~InHand(c)
  <2>1. ASSUME worker[w].pc \in {"push", "mark"}, worker[w].uuid = c.uuid PROVE FALSE
    <3>1. worker[w].kind # "assigned"
      BY <2>1 DEF Starts, Reads
    <3>2. PICK b \in commands : IsCommandOf(b, w)
      BY <1>0, <2>1 DEF TypeInv, WorkerInv
    <3>3. b = c
      BY <2>1, <3>2 DEF IsCommandOf, OnceBase, CommandsNumbered
    <3>4. QED
      BY <1>2, <3>1, <3>2, <3>3 DEF IsCommandOf
  <2>2. QED
    BY <1>0, <2>1 DEF InHand
<1>3. \A c \in commands : c.kind = "assigned" => Covered(c)
  BY <1>2 DEF OnceInv, SentIsKnown
<1>4. SentIsKnown'
  BY <1>0, <1>3 DEF SentIsKnown, Covered
<1>5. worker'[w].pc \notin {"push", "mark"}
  BY DEF Starts, Reads, Continues
<1>6. ASSUME worker'[w].kind = "assigned"
      PROVE  /\ \A x, y \in worker'[w].todo : (x.rev = y.rev \/ x.id = y.id) => x = y
             /\ \A x \in worker'[w].todo : Unsent(x, worker'[w].dev)
  <2>1. CASE worker'[w].todo = {}
    BY <2>1
  <2>2. ASSUME NEW d \in Devices, worker'[w].todo = ProfilesToDeploy(d), worker'[w].dev = d
        PROVE  /\ \A x, y \in worker'[w].todo : (x.rev = y.rev \/ x.id = y.id) => x = y
               /\ \A x \in worker'[w].todo : Unsent(x, d)
    <3>1. \A x \in worker'[w].todo : x \in profiles
      BY <2>2 DEF ProfilesToDeploy
    <3>2. \A x, y \in profiles : (x.rev = y.rev \/ x.id = y.id) => x = y
      BY <1>0 DEF VersionInv, Version, OnceBase, RefInv, ReferentialIntegrity
    <3>3. ASSUME NEW x \in worker'[w].todo, NEW c \in commands, Assigns(c, d)
          PROVE  c.rev # x.rev
      BY <1>3, <2>2, <3>1, <3>3 DEF Covered, Assigns, ProfilesToDeploy
    <3>4. QED
      BY <3>1, <3>2, <3>3 DEF Unsent
  <2>3. CASE /\ Continues(w) /\ worker'[w].todo # {}
             /\ worker[w].pc = "group" \/ worker[w].kind # "assigned"
    <3>1. worker[w].pc = "group" => worker[w].todo = {}
      BY <1>0 DEF TypeInv, WorkerInv
    <3>2. QED
      BY <1>6, <2>3, <3>1 DEF Continues, Pending
  <2>4. QED
    BY <1>6, <2>1, <2>2, <2>3 DEF Starts, Reads
<1>7. TodoIsNew'
  <2>1. \A x, d : Unsent(x, d) => Unsent(x, d)'
    BY <1>0 DEF Unsent
  <2>2. ASSUME worker'[w].kind = "assigned"
        PROVE  \A x \in worker'[w].todo : Unsent(x, worker[w].dev)'
    BY <1>0, <1>6, <2>1, <2>2 DEF Unsent
  <2>3. QED
    BY <1>0, <1>5, <1>6, <2>2 DEF TodoIsNew, Pending
<1>8. QED
  BY <1>1, <1>4, <1>7 DEF OnceInv

\* What is enqueued was not sent before, nor is it what is still to be sent.
LEMMA OnceEnqueue ==
    ASSUME OnceBase, OnceInv, [Next]_vars, UNCHANGED <<deploys, profiles>>,
           NEW w \in Workers, NEW p \in worker[w].todo, Enqueued(w, p),
           worker'[w].kind = worker[w].kind
    PROVE  OnceInv'
<1> DEFINE n == CommandFor(w, p)
           dev == worker[w].dev
<1>1. /\ TypeInv /\ \A v \in Workers : v = w
      /\ commands \subseteq Command /\ issued \in Nat
  BY DEF OnceBase, RefInv, OneWorker, TypeInv, TypeOK
<1>2. /\ commands' = commands \union {n} /\ worker[w].pc = "send"
      /\ worker'[w].pc = "push" /\ worker'[w].uuid = issued + 1
      /\ worker'[w].job = p /\ worker'[w].dev = dev
      /\ worker'[w].todo = worker[w].todo
  BY DEF Enqueued, NewUUID
<1>3. /\ n.uuid = issued + 1 /\ n.kind = worker[w].kind /\ n.device = dev
      /\ n.profile = p.id /\ n.rev = p.rev
  BY DEF CommandFor, NewUUID
<1> HIDE DEF n
<1>4. \A c \in commands : c.kind = "assigned" => Covered(c)'
  BY <1>1, <1>2 DEF OnceInv, SentIsKnown, InHand, Covered
<1>5. \A c : c.uuid = issued + 1 => InHand(c)'
  BY <1>2 DEF InHand
<1>6. SentIsKnown'
  BY <1>2, <1>3, <1>4, <1>5 DEF SentIsKnown
<1>7. worker[w].kind = "assigned" => /\ Unsent(p, dev)
                                     /\ \A x \in worker[w].todo : Unsent(x, dev)
  BY <1>2 DEF OnceInv, TodoIsNew, Pending
<1>8. SentOnce'
  <2>1. ASSUME n.kind = "assigned", NEW c \in commands, Assigns(c, dev)
        PROVE  c.rev # n.rev
    BY <1>3, <1>7, <2>1 DEF Unsent
  <2>2. QED
    BY <1>2, <1>3, <2>1 DEF OnceInv, SentOnce, Assigns
<1>9. ASSUME worker[w].kind = "assigned", NEW x \in worker[w].todo, x # p
      PROVE  Unsent(x, dev)'
  <2>1. x.rev # p.rev /\ x.id # p.id
    BY <1>9 DEF OnceInv, TodoIsNew
  <2>2. Version(p.id, p)
    BY <1>9 DEF OnceBase, VersionInv
  <2>3. \A q \in profiles : q.id = x.id => q.rev # p.rev
    BY <2>1, <2>2 DEF Version
  <2>4. Unsent(x, dev)
    BY <1>7, <1>9
  <2>5. QED
    BY <1>2, <1>3, <2>1, <2>3, <2>4 DEF Unsent, Assigns
<1>10. ASSUME worker[w].kind = "assigned" PROVE Held(w)'
  <2>1. ASSUME NEW c \in commands, NEW q \in profiles, Assigns(c, dev), q.id = p.id
        PROVE  q.rev # c.rev
    BY <1>7, <1>10, <2>1 DEF Unsent
  <2>2. QED
    BY <1>2, <1>3, <2>1 DEF Held, Assigns
<1>11. TodoIsNew'
  <2>1. Pending(w)' = worker[w].todo \ {p}
    BY <1>2 DEF Pending
  <2>2. ASSUME worker[w].kind = "assigned"
        PROVE  \A x, y \in worker[w].todo : (x.rev = y.rev \/ x.id = y.id) => x = y
    BY <2>2 DEF OnceInv, TodoIsNew
  <2>3. ASSUME worker[w].kind = "assigned"
        PROVE  \A x \in Pending(w)' : Unsent(x, worker[w].dev)'
    BY <1>2, <1>9, <2>1, <2>3 DEF Unsent
  <2>4. QED
    BY <1>1, <1>2, <1>10, <2>2, <2>3 DEF TodoIsNew
<1>12. QED
  BY <1>6, <1>8, <1>11 DEF OnceInv

\* From the push to the deploy row the goroutine holds what it held.
LEMMA OnceMarks ==
    ASSUME OnceBase, OnceInv, UNCHANGED Tables, NEW w \in Workers, Marks(w),
           worker'[w].kind = worker[w].kind
    PROVE  OnceInv'
<1>1. /\ \A v \in Workers : v = w
      /\ UNCHANGED <<commands, deploys, profiles>>
  BY DEF OnceBase, OneWorker, Tables
<1>2. /\ worker[w].pc = "push" /\ worker'[w].pc = "mark"
      /\ worker'[w].uuid = worker[w].uuid
      /\ worker'[w].job = worker[w].job /\ worker'[w].dev = worker[w].dev
      /\ worker'[w].todo = worker[w].todo
  BY DEF Marks, CommandSent
<1>3. SentOnce'
  BY <1>1 DEF OnceInv, SentOnce, Assigns
<1>4. \A c : (InHand(c) => InHand(c)') /\ (Covered(c) => Covered(c)')
  BY <1>1, <1>2 DEF InHand, Covered
<1>5. SentIsKnown'
  BY <1>1, <1>4 DEF OnceInv, SentIsKnown
<1>6. Pending(w)' = Pending(w) /\ (Held(w) => Held(w)')
  BY <1>1, <1>2 DEF Pending, Held, Assigns
<1>7. \A x, d : Unsent(x, d) => Unsent(x, d)'
  BY <1>1 DEF Unsent
<1>8. ASSUME worker[w].kind = "assigned"
      PROVE  \A x \in Pending(w) : Unsent(x, worker[w].dev)'
  BY <1>2, <1>7, <1>8 DEF OnceInv, TodoIsNew, Unsent
<1>9. TodoIsNew'
  BY <1>1, <1>2, <1>6, <1>8 DEF OnceInv, TodoIsNew
<1>10. QED
  BY <1>3, <1>5, <1>9 DEF OnceInv

\* The deploy row covers the command it is written for, and replaces no row
\* that another command needs.
LEMMA OnceMark ==
    ASSUME OnceBase, OnceInv, ~Fault, UNCHANGED <<commands, profiles>>,
           NEW w \in Workers, MarkDeploySent(w), Continues(w)
    PROVE  OnceInv'
<1> DEFINE dev == worker[w].dev
           job == worker[w].job
           Same(r) == r.device = dev /\ r.profile = job.id
           row == [device |-> dev, profile |-> job.id, uuid |-> worker[w].uuid,
                   stamp |-> job.stamp, status |-> "sent"]
<1>1. TypeInv /\ (\A v \in Workers : v = w) /\ worker[w].pc = "mark"
  BY DEF OnceBase, RefInv, OneWorker, MarkDeploySent
<1>2. worker[w].kind = "assigned" /\ job \in worker[w].todo
  BY <1>1 DEF TypeInv, WorkerInv
<1>3. PICK own \in commands : IsCommandOf(own, w)
  BY <1>1 DEF TypeInv, WorkerInv
<1>4. \/ /\ \E x \in profiles : x.id = job.id
         /\ deploys' = {r \in deploys : r.device # dev \/ r.profile # job.id}
                           \union {row}
      \/ (\A x \in profiles : x.id # job.id) /\ deploys' = deploys
  BY DEF MarkDeploySent
<1>5. row.device = dev /\ row.profile = job.id /\ row.stamp = job.stamp
  OBVIOUS
<1> HIDE DEF row
<1>6. Covered(own)'
  <2>1. Version(job.id, job)
    BY <1>2 DEF OnceBase, VersionInv
  <2>2. own.rev = job.rev /\ own.device = dev
    BY <1>3 DEF IsCommandOf
  <2>3. QED
    BY <1>4, <1>5, <2>1, <2>2 DEF Covered, Version
<1>7. ASSUME NEW c \in commands, c.kind = "assigned", c # own
      PROVE  Covered(c)'
  <2>1. c.uuid # worker[w].uuid
    BY <1>3, <1>7 DEF IsCommandOf, OnceBase, CommandsNumbered
  <2>2. Covered(c)
    BY <1>1, <1>7, <2>1 DEF OnceInv, SentIsKnown, InHand
  <2>3. Held(w)
    BY <1>1, <1>2 DEF OnceInv, TodoIsNew
  <2>4. ASSUME NEW p \in profiles, p.rev = c.rev
        PROVE  \E r \in deploys' :
                  r.device = c.device /\ r.profile = p.id /\ r.stamp = p.stamp
    <3>1. PICK r \in deploys :
            r.device = c.device /\ r.profile = p.id /\ r.stamp = p.stamp
      BY <2>2, <2>4 DEF Covered
    <3>2. ~Same(r)
      BY <1>7, <2>1, <2>3, <2>4, <3>1 DEF Held, Assigns
    <3>3. r \in deploys'
      BY <1>4, <3>2
    <3>4. QED
      BY <3>1, <3>3
  <2>5. QED
    BY <2>4 DEF Covered
<1>8. SentIsKnown'
  BY <1>6, <1>7 DEF SentIsKnown
<1>9. SentOnce'
  BY DEF OnceInv, SentOnce, Assigns
<1>10. ASSUME worker'[w].kind = "assigned"
       PROVE  /\ \A x, y \in worker'[w].todo : (x.rev = y.rev \/ x.id = y.id) => x = y
              /\ \A x \in worker'[w].todo : Unsent(x, worker[w].dev)'
  <2>1. CASE worker'[w].todo = {}
    BY <2>1
  <2>2. CASE worker'[w].todo # {}
    <3>1. /\ worker'[w].dev = dev
          /\ worker'[w].todo \subseteq Pending(w) /\ Pending(w) \subseteq worker[w].todo
      BY <2>2 DEF Continues, Pending
    <3>2. \A x \in Pending(w) : Unsent(x, dev)
      BY <1>2 DEF OnceInv, TodoIsNew
    <3>3. QED
      BY <1>2, <3>1, <3>2 DEF OnceInv, TodoIsNew, Unsent
  <2>3. QED
    BY <2>1, <2>2
<1>11. TodoIsNew'
  BY <1>1, <1>10 DEF TodoIsNew, Pending, Continues
<1>12. QED
  BY <1>8, <1>9, <1>11 DEF OnceInv

LEMMA OnceNext ==
    ASSUME OnceBase, OnceInv, [Next]_vars, faults' = 0, faults = 0
    PROVE  OnceInv'
<1>1. RefInv /\ TypeInv /\ ~Fault
  BY DEF OnceBase, RefInv, Fault
<1>2. CASE UNCHANGED <<worker, commands>> /\ KeepsRows
  BY <1>2, OnceQuiet
<1>3. ASSUME NEW w \in Workers, Works(w) PROVE OnceInv'
  <2>1. ASSUME NEW p \in worker[w].todo, Enqueued(w, p),
               worker'[w].kind = worker[w].kind, UNCHANGED <<deploys, profiles>>
        PROVE  OnceInv'
    BY <2>1, OnceEnqueue
  <2>2. ASSUME Marks(w), worker'[w].kind = worker[w].kind, UNCHANGED Tables
        PROVE  OnceInv'
    BY <2>2, OnceMarks
  <2>3. ASSUME MarkDeploySent(w), Continues(w), UNCHANGED <<commands, profiles>>
        PROVE  OnceInv'
    BY <1>1, <2>3, OnceMark
  <2>4. ASSUME UNCHANGED Tables,
               \/ Starts(w) \/ Reads(w)
               \/ Continues(w) /\ (worker[w].pc = "group" \/ worker[w].kind # "assigned")
        PROVE  OnceInv'
    BY <2>4, OnceTurns
  <2>5. QED
    BY <1>3, <2>1, <2>2, <2>3, <2>4 DEF Works
<1>4. QED
  BY <1>1, <1>2, <1>3, AnyWorks

\* While no call fails, a single reconcile at a time sends a device an upload
\* at most once, whatever uploads, deletions, row-id reuse and changes of
\* membership come between its reads, its commands and its deploy rows:
\* PushOnce is lost only by overlapping reconciles or a failed step.
THEOREM OneReconcilePushesOnce ==
    ASSUME OneWorker
    PROVE  Spec => [](faults = 0 => PushOnce)
<1> DEFINE Inv == /\ RefInv /\ CommandsNumbered
                  /\ faults = 0 => VersionInv /\ OnceInv
<1>1. Init => Inv
  <2>1. Init => RefInv
    BY TypeInit DEF RefInv, ReferentialIntegrity, Init
  <2>2. Init => CommandsNumbered /\ VersionInv /\ OnceInv
    BY DEF Init, IdleWorker, CommandsNumbered, VersionInv, OnceInv, SentOnce,
           SentIsKnown, TodoIsNew, Pending
  <2>3. QED
    BY <2>1, <2>2
<1>2. Inv /\ [Next]_vars => Inv'
  <2>1. SUFFICES ASSUME Inv, [Next]_vars PROVE Inv'
    OBVIOUS
  <2>2. TypeInv /\ RefInv' /\ CommandsNumbered'
    BY <2>1, RefNext, NumberedNext DEF RefInv, NumberedInv
  <2>3. ASSUME faults' = 0 PROVE VersionInv' /\ OnceInv'
    <3>1. faults = 0
      BY <2>1, <2>2, <2>3, FaultsGrow
    <3>2. OnceBase
      BY <2>1, <3>1 DEF OnceBase
    <3>3. QED
      BY <2>1, <2>3, <3>1, <3>2, VersionNext, OnceNext DEF OnceBase
  <2>4. QED
    BY <2>2, <2>3
<1>3. Inv => (faults = 0 => PushOnce)
  BY DEF OnceInv, SentOnce, Assigns, PushOnce
<1> HIDE DEF Inv
<1>4. QED
  BY <1>1, <1>2, <1>3, PTL DEF Spec
=============================================================================
