------------------------- MODULE InstallationProofs -------------------------
(***************************************************************************)
(* Theorems about Installation, for any number of commands, SCEP requests  *)
(* and devices and any bounds: each migration runs once and in order, one  *)
(* authority signs, no serial is given twice, the configuration of `cairn  *)
(* init` comes last, and an upgrade keeps the associations.                *)
(***************************************************************************)
EXTENDS Installation, TLAPS, SequenceTheorems

USE InstallationAssumption

Past    == {"print", "admin", "config", "serving"}
Busy(h) == handler[h].pc # "idle"

\* A command that wants an authority is not `migrate`, one past that has it.
TypeInv ==
    /\ TypeOK
    /\ \A p \in Procs :
          /\ proc[p].pc \in {"ca", "seed"} => proc[p].kind # "migrate"
          /\ proc[p].pc \in Past => proc[p].ca # None

\* The migrations that ran are those recorded, in order.
Ordered(d) ==
    /\ \A i \in 1 .. Len(d.ran) : d.ran[i] = i
    /\ d.recorded = 1 .. Len(d.ran)

\* What a command has read as recorded stays recorded.
SchemaInv ==
    /\ Ordered(db)
    /\ backup # None => Ordered(backup)
    /\ \A p \in Procs :
          /\ proc[p].pc \notin {"idle", "read"} => proc[p].done \subseteq db.recorded
          /\ proc[p].pc \notin {"idle", "read", "migrate"} =>
                Migrations(proc[p].version) \subseteq db.recorded

\* A request in progress is one of a server, and a backup knows no other
\* authority than the database it is of.
AuthorityInv ==
    /\ OneAuthority
    /\ \A h \in Handlers : Busy(h) =>
          /\ proc[handler[h].proc].pc = "serving"
          /\ handler[h].cert.ca = db.ca
    /\ ghost.restores = 0 =>
          /\ ~ghost.bare
          /\ backup # None /\ backup.ca # None => db.ca = backup.ca

\* An authority is in tables, and before the file there is an account.
ConfigInv ==
    /\ ConfigLast
    /\ \A p \in Procs : proc[p].pc = "config" => db.admin
    /\ db.ca # None => db.recorded # {}
    /\ backup # None /\ backup.ca # None => backup.recorded # {}

\* The certificates signed, answered or not.
Issued == held \cup {handler[h].cert : h \in {k \in Handlers : Busy(k)}}

SerialInv ==
    /\ \A c \in Issued :
          /\ c.restores <= ghost.restores
          /\ c.restores = ghost.restores => c.serial <= db.serial
    /\ \A c, other \in Issued :
          other.serial = c.serial /\ other.restores = c.restores => other = c
    /\ \A c \in held : c.restores = ghost.restores => c \in db.certs
    /\ \A h \in Handlers : handler[h].pc = "reply" => handler[h].cert \in db.certs

-----------------------------------------------------------------------------
LEMMA LeastPending ==
  ASSUME NEW S \in SUBSET Versions, S # {}
  PROVE  /\ Least(S) \in S
         /\ \A n \in S : Least(S) <= n
  <1>1. \E m \in S : \A n \in S : m <= n
    <2>1. CASE 1 \in S
      BY <2>1 DEF Versions
    <2>2. CASE 1 \notin S
      <3>1. S = {2}
        BY <2>2 DEF Versions
      <3> QED
        BY <3>1
    <2> QED
      BY <2>1, <2>2
  <1> QED
    BY <1>1 DEF Least

LEMMA BackfilledType ==
  ASSUME NEW d \in Databases
  PROVE  Backfilled(d) \subseteq Associations
  <1> SUFFICES ASSUME NEW y \in Devices, d.kv[y] # None
               PROVE  [device |-> y, cert |-> d.kv[y]] \in Associations
    BY DEF Backfilled, KeptByDevice
  <1>1. d.kv[y] \in Certs \cup {None}
    BY DEF Databases
  <1> QED
    BY <1>1 DEF Associations

LEMMA MigratedType ==
  ASSUME NEW d \in Databases, NEW m \in Versions
  PROVE  Migrated(d, m) \in Databases
  <1>1. Append(d.ran, m) \in Seq(Versions)
    BY AppendProperties DEF Databases
  <1>2. d.recorded \cup {m} \in SUBSET Versions
    BY DEF Databases
  <1>3. (IF m = 2 THEN d.certAuth \cup Backfilled(d) ELSE d.certAuth)
           \in SUBSET Associations
    BY BackfilledType DEF Databases
  <1> QED
    BY <1>1, <1>2, <1>3 DEF Migrated, Databases

LEMMA PendingMigration ==
  ASSUME TypeOK, NEW p \in Procs, proc[p].pc = "migrate", Pending(p) # {}
  PROVE  /\ Least(Pending(p)) \in Pending(p)
         /\ Least(Pending(p)) \in Versions
         /\ \A n \in Pending(p) : Least(Pending(p)) <= n
  <1>1. proc[p] \in Running1
    BY DEF TypeOK, Idle
  <1>2. Pending(p) \subseteq Versions
    BY <1>1 DEF Running1, Pending, Migrations, Versions
  <1> QED
    BY <1>2, LeastPending

LEMMA TypeInit == Init => TypeInv
  <1> SUFFICES ASSUME Init PROVE TypeInv
    OBVIOUS
  <1>1. EmptyDB \in Databases
    BY EmptySeq DEF EmptyDB, Databases, Versions
  <1> QED
    BY <1>1 DEF Init, TypeInv, TypeOK, Idle, Waiting, Past

LEMMA TypeNext ==
  ASSUME TypeInv, [Next]_vars
  PROVE  TypeInv'
  <1> USE DEF TypeInv, Past
  <1>0. /\ db \in Databases /\ backup \in Databases \cup {None}
        /\ None \notin CAs
        /\ proc \in [Procs -> Running1 \cup {Idle}]
    BY DEF TypeOK
  <1>p. ASSUME NEW p \in Procs, proc[p].pc # "idle"
        PROVE  proc[p] \in Running1
    BY <1>0, <1>p DEF Idle
  <1>h. ASSUME NEW h \in Handlers, handler[h].pc # "idle"
        PROVE  handler[h] \in [pc : {"put", "reply"}, proc : Procs, cert : Certs]
    BY <1>h DEF TypeOK, Waiting
  <1>1. CASE UNCHANGED vars
    BY <1>1 DEF vars, TypeOK
  <1>2. ASSUME NEW p \in Procs, NEW kind \in Kinds, NEW version \in Versions,
               NEW mode \in Modes, NEW force \in BOOLEAN,
               Start(p, kind, version, mode, force)
        PROVE  TypeInv'
    <2>1. [pc |-> "read", kind |-> kind, version |-> version, mode |-> mode,
           done |-> {}, ca |-> None] \in Running1
      BY DEF TypeOK, Running1
    <2>2. ghost' \in [generated : Nat, keys : Nat, restores : Nat, bare : BOOLEAN,
                      starts : Nat, faults : Nat]
      BY <1>2 DEF Start, TypeOK
    <2> QED
      BY <1>2, <2>1, <2>2 DEF Start, TypeOK
  <1>3. ASSUME NEW p \in Procs, ReadMigrations(p)
        PROVE  TypeInv'
    <2>1. [proc[p] EXCEPT !.pc = "migrate", !.done = db.recorded] \in Running1
      <3>1. proc[p] \in Running1
        BY <1>p, <1>3 DEF ReadMigrations
      <3>2. db.recorded \in SUBSET Versions
        BY <1>0 DEF Databases
      <3> QED
        BY <3>1, <3>2 DEF Running1
    <2>2. proc' = [proc EXCEPT ![p] = [proc[p] EXCEPT !.pc = "migrate", !.done = db.recorded]]
      BY <1>0, <1>3 DEF ReadMigrations
    <2> QED
      BY <1>3, <2>1, <2>2 DEF ReadMigrations, TypeOK
  <1>4. ASSUME NEW p \in Procs, Migrate(p)
        PROVE  TypeInv'
    <2> DEFINE m == Least(Pending(p))
               q == [proc[p] EXCEPT !.done = @ \cup {m}]
    <2>1. m \in Versions
      BY <1>4, PendingMigration DEF Migrate
    <2>2. Migrated(db, m) \in Databases
      BY <1>0, <2>1, MigratedType
    <2>3. q \in Running1 /\ q.pc = "migrate"
      BY <1>p, <1>4, <2>1 DEF Migrate, Running1
    <2>4. /\ proc' \in {[proc EXCEPT ![p] = Idle], [proc EXCEPT ![p] = q]}
          /\ db' \in {db, Migrated(db, m)}
          /\ UNCHANGED <<config, backup, handler, held, acked, ghost>>
      BY <1>0, <1>4 DEF Migrate, Ends
    <2> HIDE DEF m, q
    <2> QED
      BY <2>2, <2>3, <2>4 DEF TypeOK, Idle
  <1>5. ASSUME NEW p \in Procs, Opened(p)
        PROVE  TypeInv'
    <2> DEFINE q == [proc[p] EXCEPT !.pc = "ca", !.done = {}]
    <2>1. q \in Running1 /\ q.pc = "ca" /\ q.kind = proc[p].kind
      BY <1>p, <1>5 DEF Opened, Running1
    <2>2. \/ proc' = [proc EXCEPT ![p] = Idle]
          \/ proc' = [proc EXCEPT ![p] = q] /\ proc[p].kind # "migrate"
      BY <1>0, <1>5 DEF Opened, Ends, Goes
    <2>3. UNCHANGED <<db, config, backup, handler, held, acked, ghost>>
      BY <1>5 DEF Opened
    <2> HIDE DEF q
    <2> QED
      BY <2>1, <2>2, <2>3 DEF TypeOK, Idle
  <1>6. ASSUME NEW p \in Procs, LoadCA(p)
        PROVE  TypeInv'
    <2> DEFINE to == IF db.ca = None THEN "seed" ELSE AfterCA[proc[p].kind]
    <2>1. proc[p] \in Running1 /\ proc[p].kind \in {"init", "serve", "export"}
      BY <1>p, <1>6 DEF LoadCA, Running1, Kinds
    <2>2. to \in {"seed", "serving", "admin", "print"}
      BY <2>1 DEF AfterCA
    <2> HIDE DEF to
    <2> DEFINE q == [proc[p] EXCEPT !.pc = to, !.ca = db.ca]
    <2>3. q \in Running1
      BY <1>0, <2>1, <2>2 DEF Running1, Databases
    <2>4. proc' = [proc EXCEPT ![p] = q]
      BY <1>0, <1>6 DEF LoadCA, to
    <2>5. q.kind # "migrate" /\ q.pc # "ca" /\ (q.pc \in Past => q.ca # None)
      BY <2>1, <2>2 DEF Running1, to
    <2>6. UNCHANGED <<db, config, backup, handler, held, acked, ghost>>
      BY <1>6 DEF LoadCA
    <2> HIDE DEF q
    <2> QED
      BY <2>3, <2>4, <2>5, <2>6 DEF TypeOK
  <1>7. ASSUME NEW p \in Procs, SeedCA(p)
        PROVE  TypeInv'
    <2> DEFINE to == AfterCA[proc[p].kind]
               q == [proc[p] EXCEPT !.pc = to, !.ca = Fresh(p)]
               d == [db EXCEPT !.ca = Fresh(p)]
               g == [ghost EXCEPT !.generated = @ + 1]
    <2>1. proc[p] \in Running1 /\ proc[p].kind \in {"init", "serve", "export"}
      BY <1>p, <1>7 DEF SeedCA, Running1, Kinds
    <2>2. to \in {"serving", "admin", "print"}
      BY <2>1 DEF AfterCA
    <2>3. Fresh(p) \in CAs
      BY DEF Fresh, Imported, Generated, CAs, TypeOK
    <2>4. q \in Running1 /\ q.pc \notin {"ca", "seed"} /\ q.ca # None
      <3> HIDE DEF to
      <3> QED
        BY <1>0, <2>1, <2>2, <2>3 DEF Running1
    <2>5. d \in Databases
      BY <1>0, <2>3 DEF Databases
    <2>6. g \in [generated : Nat, keys : Nat, restores : Nat, bare : BOOLEAN,
                 starts : Nat, faults : Nat]
      BY DEF TypeOK
    <2>7. /\ \/ proc' = [proc EXCEPT ![p] = Idle] /\ UNCHANGED <<db, ghost>>
             \/ proc' = [proc EXCEPT ![p] = q] /\ db' = d /\ ghost' = g
          /\ UNCHANGED <<config, backup, handler, held, acked>>
      BY <1>0, <1>7 DEF SeedCA, Ends
    <2> HIDE DEF q, d, g
    <2> QED
      BY <2>4, <2>5, <2>6, <2>7 DEF TypeOK, Idle
  <1>8. ASSUME NEW p \in Procs, PrintCA(p)
        PROVE  TypeInv'
    BY <1>8 DEF PrintCA, Ends, TypeOK, Idle
  <1>9. ASSUME NEW p \in Procs, CreateAdmin(p)
        PROVE  TypeInv'
    <2> DEFINE q == [proc[p] EXCEPT !.pc = "config"]
               d == [db EXCEPT !.admin = TRUE]
    <2>1. q \in Running1 /\ q.pc = "config" /\ q.ca = proc[p].ca /\ proc[p].ca # None
      BY <1>p, <1>9 DEF CreateAdmin, Running1
    <2>2. d \in Databases
      BY <1>0 DEF Databases
    <2>3. /\ \/ proc' = [proc EXCEPT ![p] = Idle] /\ UNCHANGED db
             \/ proc' = [proc EXCEPT ![p] = q] /\ db' = d
          /\ UNCHANGED <<config, backup, handler, held, acked, ghost>>
      BY <1>0, <1>9 DEF CreateAdmin, Ends, Goes
    <2> HIDE DEF q, d
    <2> QED
      BY <2>1, <2>2, <2>3 DEF TypeOK, Idle
  <1>10. ASSUME NEW p \in Procs, WriteConfig(p)
         PROVE  TypeInv'
    <2>1. proc[p].mode \in Modes
      BY <1>p, <1>10 DEF WriteConfig, Running1
    <2> QED
      BY <1>10, <2>1 DEF WriteConfig, Ends, TypeOK, Idle
  <1>11. ASSUME NEW mode \in Modes, CopyExample(mode)
         PROVE  TypeInv'
    BY <1>11 DEF CopyExample, TypeOK
  <1>12. ASSUME NEW h \in Handlers, NEW p \in Procs, NEW d \in Devices, Serial(h, p, d)
         PROVE  TypeInv'
    <2> DEFINE c == [serial |-> NextSerial(db), ca |-> proc[p].ca, device |-> d,
                     key |-> ghost.keys + 1, restores |-> ghost.restores]
    <2>1. NextSerial(db) \in Nat /\ ghost.keys + 1 \in Nat /\ ghost.restores \in Nat
      BY <1>0 DEF NextSerial, Databases, TypeOK
    <2>2. proc[p].ca \in CAs
      BY <1>p, <1>12 DEF Serial, Running1
    <2>3. c \in Certs
      BY <2>1, <2>2 DEF Certs
    <2>4. [db EXCEPT !.serial = NextSerial(db)] \in Databases
      BY <1>0, <2>1 DEF Databases
    <2>5. [ghost EXCEPT !.keys = @ + 1] \in
             [generated : Nat, keys : Nat, restores : Nat, bare : BOOLEAN,
              starts : Nat, faults : Nat]
      BY DEF TypeOK
    <2> HIDE DEF c
    <2>6. /\ handler' = [handler EXCEPT ![h] = [pc |-> "put", proc |-> p, cert |-> c]]
          /\ db' = [db EXCEPT !.serial = NextSerial(db)]
          /\ ghost' = [ghost EXCEPT !.keys = @ + 1]
          /\ UNCHANGED <<config, backup, proc, held, acked>>
      BY <1>12 DEF Serial, c
    <2> QED
      BY <2>3, <2>4, <2>5, <2>6 DEF TypeOK
  <1>13. ASSUME NEW h \in Handlers, Put(h)
         PROVE  TypeInv'
    <2>1. [db EXCEPT !.certs = @ \cup {handler[h].cert}] \in Databases
      BY <1>0, <1>h, <1>13 DEF Put, Databases
    <2>2. [handler[h] EXCEPT !.pc = "reply"] \in
             [pc : {"put", "reply"}, proc : Procs, cert : Certs]
      BY <1>h, <1>13 DEF Put
    <2>3. handler' = [handler EXCEPT ![h] = [handler[h] EXCEPT !.pc = "reply"]]
      BY <1>13 DEF Put, TypeOK
    <2> QED
      BY <1>13, <2>1, <2>2, <2>3 DEF Put, TypeOK
  <1>14. ASSUME NEW h \in Handlers, Reply(h)
         PROVE  TypeInv'
    BY <1>h, <1>14 DEF Reply, TypeOK
  <1>15. ASSUME NEW p \in Procs, NEW c \in held, Associate(p, c)
         PROVE  TypeInv'
    <2> DEFINE a == [device |-> c.device, cert |-> c]
    <2>1. c \in Certs /\ c.device \in Devices /\ a \in Associations
      BY DEF TypeOK, Certs, Associations
    <2>2. [db EXCEPT !.kv[a.device] = a.cert] \in Databases
      <3>1. [db.kv EXCEPT ![c.device] = c] \in [Devices -> Certs \cup {None}]
        BY <1>0, <2>1 DEF Databases
      <3>2. [db EXCEPT !.kv[a.device] = a.cert] = [db EXCEPT !.kv = [db.kv EXCEPT ![c.device] = c]]
        BY <1>0 DEF Databases
      <3> QED
        BY <1>0, <3>1, <3>2 DEF Databases
    <2>3. [db EXCEPT !.certAuth = @ \cup {a}] \in Databases
      BY <1>0, <2>1 DEF Databases
    <2> HIDE DEF a
    <2>4. db' \in Databases
      BY <1>15, <2>2, <2>3 DEF Associate, Bound, a
    <2>5. acked' \in [Versions -> SUBSET Associations]
      BY <1>15, <2>1 DEF Associate, Noted, TypeOK, a
    <2> QED
      BY <1>15, <2>4, <2>5 DEF Associate, TypeOK
  <1>16. ASSUME NEW p \in Procs, Down(p),
                ghost' \in [generated : Nat, keys : Nat, restores : Nat, bare : BOOLEAN,
                            starts : Nat, faults : Nat]
         PROVE  TypeInv'
    <2>1. handler' \in [Handlers -> [pc : {"put", "reply"}, proc : Procs, cert : Certs]
                                       \cup {Waiting}]
      BY <1>16 DEF Down, TypeOK
    <2> QED
      BY <1>16, <2>1 DEF Down, Ends, TypeOK, Idle
  <1>17. ASSUME NEW p \in Procs, Stop(p) \/ Crash(p)
         PROVE  TypeInv'
    BY <1>16, <1>17 DEF Stop, Crash, TypeOK
  <1>19. CASE Backup
    BY <1>19 DEF Backup, TypeOK
  <1>20. CASE Restore
    <2>1. db' \in Databases /\ acked' \in [Versions -> SUBSET Associations]
      BY <1>20 DEF Restore, TypeOK
    <2>2. ghost' \in [generated : Nat, keys : Nat, restores : Nat, bare : BOOLEAN,
                      starts : Nat, faults : Nat]
      <3> DEFINE G == [generated : Nat, keys : Nat, restores : Nat, bare : BOOLEAN,
                       starts : Nat, faults : Nat]
      <3>1. /\ [ghost EXCEPT !.restores = @ + 1, !.bare = TRUE] \in G
            /\ [ghost EXCEPT !.restores = @ + 1, !.bare = FALSE] \in G
        <4>1. ghost \in G /\ ghost.restores + 1 \in Nat
          BY DEF TypeOK
        <4>2. \A n \in Nat, v \in BOOLEAN :
                 [ghost EXCEPT !.restores = n, !.bare = v] \in G
          BY <4>1
        <4> QED
          BY <4>1, <4>2
      <3>2. CASE backup.ca = None \/ ~backup.admin
        <4>1. (backup.ca = None \/ ~backup.admin) = TRUE
          BY <3>2
        <4>2. ghost' = [ghost EXCEPT !.restores = @ + 1, !.bare = TRUE]
          BY <1>20, <4>1 DEF Restore
        <4> QED
          BY <3>1, <4>2
      <3>3. CASE ~(backup.ca = None \/ ~backup.admin)
        <4>1. (backup.ca = None \/ ~backup.admin) = FALSE
          BY <3>3
        <4>2. ghost' = [ghost EXCEPT !.restores = @ + 1, !.bare = FALSE]
          BY <1>20, <4>1 DEF Restore
        <4> QED
          BY <3>1, <4>2
      <3> QED
        BY <3>2, <3>3
    <2> QED
      BY <1>20, <2>1, <2>2 DEF Restore, TypeOK
  <1>21. ASSUME NEW p \in Procs, Works(p)
         PROVE  TypeInv'
    BY <1>3, <1>4, <1>5, <1>6, <1>7, <1>8, <1>9, <1>10, <1>21 DEF Works
  <1>22. ASSUME NEW h \in Handlers, Serves(h)
         PROVE  TypeInv'
    BY <1>13, <1>14, <1>22 DEF Serves
  <1> HIDE DEF TypeInv
  <1> QED
    BY <1>1, <1>2, <1>11, <1>12, <1>15, <1>17, <1>19, <1>20, <1>21, <1>22 DEF Next

THEOREM InstallationTypes == Spec => []TypeInv
  <1>1. TypeInv /\ [Next]_vars => TypeInv'
    BY TypeNext
  <1> QED
    BY <1>1, TypeInit, PTL DEF Spec

-----------------------------------------------------------------------------
(***************************************************************************)
(* Migrations.                                                             *)
(***************************************************************************)
\* A command that goes on has done nothing it had not done, and leaves the migrations
\* when none is pending.
GoesOn(p) ==
    \/ proc'[p].pc \in {"idle", "read"}
    \/ /\ proc[p].pc \notin {"idle", "read"}
       /\ proc'[p].done \subseteq proc[p].done /\ proc'[p].version = proc[p].version
       /\ proc[p].pc = "migrate" /\ proc'[p].pc # "migrate" => Pending(p) = {}

KeepsSchema ==
    /\ db'.ran = db.ran /\ db'.recorded = db.recorded
    /\ backup' = backup \/ backup' = db
    /\ \A p \in Procs : GoesOn(p)

LEMMA SchemaKept ==
  ASSUME TypeInv, SchemaInv, KeepsSchema
  PROVE  SchemaInv'
  <1>1. Ordered(db)' /\ (backup' # None => Ordered(backup)')
    BY DEF SchemaInv, KeepsSchema, Ordered
  <1>2. ASSUME NEW p \in Procs, proc'[p].pc \notin {"idle", "read"}
        PROVE  /\ proc'[p].done \subseteq db'.recorded
               /\ proc'[p].pc # "migrate" => Migrations(proc'[p].version) \subseteq db'.recorded
    <2>1. /\ proc[p].pc \notin {"idle", "read"}
          /\ proc'[p].done \subseteq proc[p].done /\ proc'[p].version = proc[p].version
          /\ proc[p].pc = "migrate" /\ proc'[p].pc # "migrate" => Pending(p) = {}
      BY <1>2 DEF KeepsSchema, GoesOn
    <2> QED
      BY <2>1 DEF SchemaInv, KeepsSchema, Pending
  <1> QED
    BY <1>1, <1>2 DEF SchemaInv

\* Most steps do not migrate.
LEMMA SchemaQuiet ==
  ASSUME TypeInv
  PROVE  /\ UNCHANGED vars => KeepsSchema
         /\ \A p \in Procs, kind \in Kinds, version \in Versions, mode \in Modes,
               force \in BOOLEAN : Start(p, kind, version, mode, force) => KeepsSchema
         /\ \A p \in Procs :
               Opened(p) \/ LoadCA(p) \/ SeedCA(p) \/ PrintCA(p) \/ CreateAdmin(p)
                  \/ WriteConfig(p) \/ Stop(p) \/ Crash(p) => KeepsSchema
         /\ \A mode \in Modes : CopyExample(mode) => KeepsSchema
         /\ \A h \in Handlers, p \in Procs, d \in Devices : Serial(h, p, d) => KeepsSchema
         /\ \A h \in Handlers : Put(h) \/ Reply(h) => KeepsSchema
         /\ \A p \in Procs, c \in held : Associate(p, c) => KeepsSchema
         /\ Backup => KeepsSchema
  <1> USE DEF KeepsSchema, GoesOn
  <1>0. db \in Databases /\ proc \in [Procs -> Running1 \cup {Idle}]
    BY DEF TypeInv, TypeOK
  <1>p. ASSUME NEW p \in Procs, proc[p].pc # "idle"
        PROVE  proc[p] \in Running1
    BY <1>0, <1>p DEF Idle
  <1>1. ASSUME UNCHANGED vars PROVE KeepsSchema
    BY <1>0, <1>1 DEF vars
  <1>2. ASSUME NEW p \in Procs, NEW kind \in Kinds, NEW version \in Versions,
               NEW mode \in Modes, NEW force \in BOOLEAN,
               Start(p, kind, version, mode, force)
        PROVE  KeepsSchema
    BY <1>0, <1>2 DEF Start
  <1>3. ASSUME NEW p \in Procs, Opened(p)
        PROVE  KeepsSchema
    BY <1>0, <1>p, <1>3 DEF Opened, Ends, Goes, Idle, Running1
  <1>4. ASSUME NEW p \in Procs, LoadCA(p)
        PROVE  KeepsSchema
    BY <1>0, <1>p, <1>4 DEF LoadCA, Running1
  <1>5. ASSUME NEW p \in Procs, SeedCA(p)
        PROVE  KeepsSchema
    BY <1>0, <1>p, <1>5 DEF SeedCA, Ends, Idle, Running1, Databases
  <1>6. ASSUME NEW p \in Procs, PrintCA(p)
        PROVE  KeepsSchema
    BY <1>0, <1>6 DEF PrintCA, Ends, Idle
  <1>7. ASSUME NEW p \in Procs, CreateAdmin(p)
        PROVE  KeepsSchema
    BY <1>0, <1>p, <1>7 DEF CreateAdmin, Ends, Goes, Idle, Running1, Databases
  <1>8. ASSUME NEW p \in Procs, WriteConfig(p)
        PROVE  KeepsSchema
    BY <1>0, <1>8 DEF WriteConfig, Ends, Idle
  <1>9. ASSUME NEW p \in Procs, Stop(p) \/ Crash(p)
        PROVE  KeepsSchema
    BY <1>0, <1>9 DEF Stop, Crash, Down, Ends, Idle
  <1>10. ASSUME NEW mode \in Modes, CopyExample(mode)
         PROVE  KeepsSchema
    BY <1>0, <1>10 DEF CopyExample
  <1>11. ASSUME NEW h \in Handlers, NEW p \in Procs, NEW d \in Devices, Serial(h, p, d)
         PROVE  KeepsSchema
    BY <1>0, <1>11 DEF Serial, Databases
  <1>12. ASSUME NEW h \in Handlers, Put(h) \/ Reply(h)
         PROVE  KeepsSchema
    BY <1>0, <1>12 DEF Put, Reply, Databases
  <1>13. ASSUME NEW p \in Procs, NEW c \in held, Associate(p, c)
         PROVE  KeepsSchema
    BY <1>0, <1>13 DEF Associate, Bound, Databases
  <1>14. ASSUME Backup
         PROVE  KeepsSchema
    BY <1>0, <1>14 DEF Backup
  <1> QED
    BY <1>1, <1>2, <1>3, <1>4, <1>5, <1>6, <1>7, <1>8, <1>9, <1>10, <1>11, <1>12,
       <1>13, <1>14

LEMMA SchemaInit == Init => SchemaInv
  BY EmptySeq DEF Init, EmptyDB, SchemaInv, Ordered, Idle

LEMMA SchemaNext ==
  ASSUME TypeInv, SchemaInv, [Next]_vars
  PROVE  SchemaInv'
  <1>0. /\ db \in Databases /\ proc \in [Procs -> Running1 \cup {Idle}]
        /\ Ordered(db) /\ (backup # None => Ordered(backup))
    BY DEF TypeInv, TypeOK, SchemaInv
  <1>p. ASSUME NEW p \in Procs, proc[p].pc # "idle"
        PROVE  proc[p] \in Running1
    BY <1>0, <1>p DEF Idle
  <1>1. ASSUME NEW p \in Procs, ReadMigrations(p)
        PROVE  SchemaInv'
    <2> DEFINE q == [proc[p] EXCEPT !.pc = "migrate", !.done = db.recorded]
    <2>1. q.pc = "migrate" /\ q.done = db.recorded
      BY <1>p, <1>1 DEF ReadMigrations, Running1
    <2>2. proc' = [proc EXCEPT ![p] = q] /\ db' = db /\ backup' = backup
      BY <1>0, <1>1 DEF ReadMigrations
    <2> HIDE DEF q
    <2> QED
      BY <1>0, <2>1, <2>2 DEF SchemaInv, Ordered
  <1>2. ASSUME NEW p \in Procs, Migrate(p)
        PROVE  SchemaInv'
    <2> DEFINE m == Least(Pending(p))
               q == [proc[p] EXCEPT !.done = @ \cup {m}]
    <2>1. /\ m \in Pending(p) /\ m \in Versions /\ \A n \in Pending(p) : m <= n
          /\ proc[p].pc = "migrate" /\ proc[p] \in Running1 /\ backup' = backup
      BY <1>p, <1>2, PendingMigration DEF Migrate, TypeInv
    <2> HIDE DEF m
    <2>2. CASE \E i \in 1 .. Len(db.ran) : db.ran[i] = m
      <3>1. proc' = [proc EXCEPT ![p] = Idle] /\ db' = db
        BY <1>2, <2>2 DEF Migrate, Ends, m
      <3> QED
        BY <1>0, <2>1, <3>1 DEF SchemaInv, Ordered, Idle
    <2>3. CASE ~(\E i \in 1 .. Len(db.ran) : db.ran[i] = m)
      <3>1. /\ proc' = [proc EXCEPT ![p] = q] /\ db' = Migrated(db, m)
        BY <1>0, <1>2, <2>3 DEF Migrate, m
      <3>2. Len(db.ran) \in Nat /\ db.ran \in Seq(Versions)
        BY <1>0, LenProperties DEF Databases
      <3>3. /\ db'.ran = Append(db.ran, m)
            /\ db'.recorded = db.recorded \cup {m}
        BY <1>0, <3>1 DEF Migrated, Databases
      <3>4. m = Len(db.ran) + 1
        <4>1. m \notin 1 .. Len(db.ran)
          BY <1>0, <2>3 DEF Ordered
        <4>2. m > Len(db.ran)
          BY <2>1, <3>2, <4>1 DEF Versions
        <4>3. CASE m = 1
          BY <3>2, <4>2, <4>3
        <4>4. CASE m = 2
          <5>1. 1 \notin Pending(p)
            BY <2>1, <4>4
          <5>2. proc[p].version = 2
            BY <2>1, <4>4 DEF Pending, Migrations, Running1, Versions
          <5>3. 1 \in db.recorded
            BY <2>1, <5>1, <5>2 DEF Pending, Migrations, SchemaInv
          <5>4. Len(db.ran) >= 1
            BY <1>0, <3>2, <5>3 DEF Ordered
          <5> QED
            BY <3>2, <4>2, <4>4, <5>4
        <4> QED
          BY <2>1, <4>3, <4>4 DEF Versions
      <3>5. /\ Len(db'.ran) = Len(db.ran) + 1 /\ db'.ran[Len(db.ran) + 1] = m
            /\ \A i \in 1 .. Len(db.ran) : db'.ran[i] = db.ran[i]
        BY <2>1, <3>2, <3>3, AppendProperties
      <3>6. Ordered(db)'
        <4>1. db'.recorded = 1 .. Len(db.ran) + 1
          BY <1>0, <3>2, <3>3, <3>4 DEF Ordered
        <4>2. ASSUME NEW i \in 1 .. Len(db.ran) + 1
              PROVE  db'.ran[i] = i
          <5>1. CASE i = Len(db.ran) + 1
            BY <3>4, <3>5, <5>1
          <5>2. CASE i # Len(db.ran) + 1
            <6>1. i \in 1 .. Len(db.ran)
              BY <3>2, <5>2
            <6> QED
              BY <1>0, <3>5, <6>1 DEF Ordered
          <5> QED
            BY <5>1, <5>2
        <4> QED
          BY <3>5, <4>1, <4>2 DEF Ordered
      <3>7. q.pc = "migrate" /\ q.done = proc[p].done \cup {m}
        BY <2>1 DEF Running1
      <3> HIDE DEF q
      <3>8. \A r \in Procs : r # p => proc'[r] = proc[r]
        BY <1>0, <3>1
      <3>9. proc'[p] = q
        BY <1>0, <3>1
      <3> QED
        BY <1>0, <2>1, <3>3, <3>6, <3>7, <3>8, <3>9 DEF SchemaInv
    <2> QED
      BY <2>2, <2>3
  <1>3. CASE Restore
    <2>1. db' = backup /\ backup # None /\ UNCHANGED <<backup, proc>>
          /\ \A p \in Procs : proc[p].pc = "idle"
      BY <1>3 DEF Restore, Stopped
    <2> QED
      BY <1>0, <2>1 DEF SchemaInv, Ordered
  <1>4. CASE KeepsSchema
    BY <1>4, SchemaKept
  <1> QED
    BY <1>1, <1>2, <1>3, <1>4, SchemaQuiet DEF Next, Works, Serves

THEOREM SchemaInvariant == Spec => []SchemaInv
  <1>1. TypeInv /\ SchemaInv /\ [Next]_vars => SchemaInv'
    BY SchemaNext
  <1> QED
    BY <1>1, SchemaInit, InstallationTypes, PTL DEF Spec

\* The database, the commands and the SCEP requests keep their types.
THEOREM TypeCorrect == Spec => []TypeOK
  <1>1. TypeInv => TypeOK
    BY DEF TypeInv
  <1> QED
    BY <1>1, InstallationTypes, PTL

\* Whichever commands of either version open the database together and stop
\* where they may, each migration runs once and in order, and a command past
\* migrate finds the tables of its version (sqlite.go, migrate).
THEOREM MigrationsRunOnce == Spec => []SchemaOnce
  <1>1. SchemaInv => SchemaOnce
    BY DEF SchemaInv, Ordered, SchemaOnce
  <1> QED
    BY <1>1, SchemaInvariant, PTL

-----------------------------------------------------------------------------
(***************************************************************************)
(* The authority.                                                          *)
(***************************************************************************)
\* Commands keep the authority they have, servers end only with their requests.
KeepsAuthority ==
    /\ db'.ca = db.ca /\ held' = held /\ backup' = backup
    /\ ghost'.restores = ghost.restores /\ ghost'.bare = ghost.bare
    /\ \A p \in Procs :
          \/ proc'[p].pc = "idle"
          \/ proc'[p].ca \in {proc[p].ca, db.ca, None} /\ proc[p].pc # "idle"
          \/ proc'[p].ca = None
    /\ \A h \in Handlers : handler'[h].pc # "idle" =>
          /\ Busy(h) /\ handler'[h].cert = handler[h].cert
          /\ handler'[h].proc = handler[h].proc
          /\ proc'[handler[h].proc].pc = "serving"

LEMMA AuthorityKept ==
  ASSUME TypeInv, AuthorityInv, KeepsAuthority
  PROVE  AuthorityInv'
  <1>1. ASSUME NEW p \in Procs, proc'[p].pc # "idle", proc'[p].ca # None
        PROVE  proc'[p].ca = db'.ca
    BY <1>1 DEF AuthorityInv, OneAuthority, KeepsAuthority
  <1>2. OneAuthority'
    BY <1>1 DEF AuthorityInv, OneAuthority, KeepsAuthority
  <1>3. ASSUME NEW h \in Handlers, Busy(h)'
        PROVE  proc'[handler'[h].proc].pc = "serving" /\ handler'[h].cert.ca = db'.ca
    BY <1>3 DEF AuthorityInv, KeepsAuthority, Busy
  <1> QED
    BY <1>2, <1>3 DEF AuthorityInv, KeepsAuthority

LEMMA AuthorityQuiet ==
  ASSUME TypeInv, AuthorityInv
  PROVE  /\ UNCHANGED vars => KeepsAuthority
         /\ \A p \in Procs, kind \in Kinds, version \in Versions, mode \in Modes,
               force \in BOOLEAN : Start(p, kind, version, mode, force) => KeepsAuthority
         /\ \A p \in Procs :
               ReadMigrations(p) \/ Migrate(p) \/ Opened(p) \/ LoadCA(p) \/ PrintCA(p)
                  \/ CreateAdmin(p) \/ WriteConfig(p) \/ Stop(p) \/ Crash(p)
               => KeepsAuthority
         /\ \A mode \in Modes : CopyExample(mode) => KeepsAuthority
         /\ \A h \in Handlers : Put(h) => KeepsAuthority
         /\ \A p \in Procs, c \in held : Associate(p, c) => KeepsAuthority
  <1> USE DEF KeepsAuthority, Busy
  <1>0. /\ db \in Databases /\ proc \in [Procs -> Running1 \cup {Idle}]
        /\ \A h \in Handlers : handler[h].pc # "idle" =>
              proc[handler[h].proc].pc = "serving"
    BY DEF TypeInv, TypeOK, AuthorityInv
  <1>g. ghost \in [generated : Nat, keys : Nat, restores : Nat, bare : BOOLEAN,
                   starts : Nat, faults : Nat]
    BY DEF TypeInv, TypeOK
  <1>p. ASSUME NEW p \in Procs, proc[p].pc # "idle"
        PROVE  proc[p] \in Running1
    BY <1>0, <1>p DEF Idle
  <1>h. ASSUME NEW h \in Handlers, handler[h].pc # "idle"
        PROVE  handler[h] \in [pc : {"put", "reply"}, proc : Procs, cert : Certs]
    BY <1>h DEF TypeInv, TypeOK, Waiting
  <1>1. ASSUME UNCHANGED vars PROVE KeepsAuthority
    BY <1>0, <1>1 DEF vars
  <1>2. ASSUME NEW p \in Procs, NEW kind \in Kinds, NEW version \in Versions,
               NEW mode \in Modes, NEW force \in BOOLEAN,
               Start(p, kind, version, mode, force)
        PROVE  KeepsAuthority
    <2>1. proc[p].pc = "idle" /\ handler' = handler
      BY <1>2 DEF Start
    <2>2. ghost'.restores = ghost.restores /\ ghost'.bare = ghost.bare
      BY <1>g, <1>2 DEF Start
    <2> QED
      BY <1>0, <1>h, <1>2, <2>1, <2>2 DEF Start
  <1>3. ASSUME NEW p \in Procs, ReadMigrations(p)
        PROVE  KeepsAuthority
    BY <1>0, <1>p, <1>h, <1>3 DEF ReadMigrations, Running1
  <1>4. ASSUME NEW p \in Procs, Migrate(p)
        PROVE  KeepsAuthority
    <2>1. db'.ca = db.ca
      BY <1>0, <1>4 DEF Migrate, Migrated, Databases
    <2> DEFINE q == [proc[p] EXCEPT !.done = @ \cup {Least(Pending(p))}]
    <2>2. q.ca = proc[p].ca /\ proc[p].pc = "migrate"
      BY <1>p, <1>4 DEF Migrate, Running1
    <2>3. /\ proc' = [proc EXCEPT ![p] = Idle] \/ proc' = [proc EXCEPT ![p] = q]
          /\ UNCHANGED <<backup, handler, held, ghost>>
      BY <1>0, <1>4 DEF Migrate, Ends
    <2>4. proc' = [proc EXCEPT ![p] = q] => q.pc # "serving"
      BY <1>p, <1>4 DEF Migrate, Running1
    <2> HIDE DEF q
    <2> QED
      BY <1>0, <1>h, <2>1, <2>2, <2>3, <2>4 DEF Idle
  <1>5. ASSUME NEW p \in Procs, Opened(p)
        PROVE  KeepsAuthority
    BY <1>0, <1>p, <1>h, <1>5 DEF Opened, Ends, Goes, Idle, Running1
  <1>6. ASSUME NEW p \in Procs, LoadCA(p)
        PROVE  KeepsAuthority
    BY <1>0, <1>p, <1>h, <1>6 DEF LoadCA, Running1
  <1>7. ASSUME NEW p \in Procs, PrintCA(p)
        PROVE  KeepsAuthority
    BY <1>0, <1>h, <1>7 DEF PrintCA, Ends, Idle
  <1>8. ASSUME NEW p \in Procs, CreateAdmin(p)
        PROVE  KeepsAuthority
    <2> DEFINE q == [proc[p] EXCEPT !.pc = "config"]
    <2>1. q.ca = proc[p].ca /\ proc[p].pc = "admin"
      BY <1>p, <1>8 DEF CreateAdmin, Running1
    <2>2. /\ proc' = [proc EXCEPT ![p] = Idle] \/ proc' = [proc EXCEPT ![p] = q]
          /\ UNCHANGED <<backup, handler, held, ghost>>
      BY <1>0, <1>8 DEF CreateAdmin, Ends, Goes
    <2>3. db'.ca = db.ca
      BY <1>0, <1>8 DEF CreateAdmin, Databases
    <2> HIDE DEF q
    <2> QED
      BY <1>0, <1>h, <2>1, <2>2, <2>3 DEF Idle
  <1>9. ASSUME NEW p \in Procs, WriteConfig(p)
        PROVE  KeepsAuthority
    BY <1>0, <1>h, <1>9 DEF WriteConfig, Ends, Idle
  <1>10. ASSUME NEW p \in Procs, Stop(p) \/ Crash(p)
         PROVE  KeepsAuthority
    <2>1. ghost'.restores = ghost.restores /\ ghost'.bare = ghost.bare
      BY <1>g, <1>10 DEF Stop, Crash
    <2>2. Down(p)
      BY <1>10 DEF Stop, Crash
    <2>3. ASSUME NEW h \in Handlers, handler'[h].pc # "idle"
          PROVE  Busy(h) /\ handler'[h] = handler[h] /\ handler[h].proc # p
      BY <2>2, <2>3 DEF Down, TypeInv, TypeOK, Waiting
    <2> QED
      BY <1>0, <1>h, <2>1, <2>2, <2>3 DEF Down, Ends, Idle
  <1>11. ASSUME NEW mode \in Modes, CopyExample(mode)
         PROVE  KeepsAuthority
    BY <1>0, <1>11 DEF CopyExample
  <1>12. ASSUME NEW h \in Handlers, Put(h)
         PROVE  KeepsAuthority
    BY <1>0, <1>h, <1>12 DEF Put, Databases, TypeInv, TypeOK
  <1>13. ASSUME NEW p \in Procs, NEW c \in held, Associate(p, c)
         PROVE  KeepsAuthority
    BY <1>0, <1>13 DEF Associate, Bound, Databases
  <1> QED
    BY <1>1, <1>2, <1>3, <1>4, <1>5, <1>6, <1>7, <1>8, <1>9, <1>10, <1>11, <1>12,
       <1>13

LEMMA AuthorityInit == Init => AuthorityInv
  BY DEF Init, EmptyDB, AuthorityInv, OneAuthority, Busy, Waiting, Idle

LEMMA AuthorityNext ==
  ASSUME TypeInv, AuthorityInv, [Next]_vars
  PROVE  AuthorityInv'
  <1>0. /\ db \in Databases /\ proc \in [Procs -> Running1 \cup {Idle}]
        /\ None \notin CAs /\ held \subseteq Certs
        /\ ghost \in [generated : Nat, keys : Nat, restores : Nat, bare : BOOLEAN,
                      starts : Nat, faults : Nat]
    BY DEF TypeInv, TypeOK
  <1>p. ASSUME NEW p \in Procs, proc[p].pc # "idle"
        PROVE  proc[p] \in Running1
    BY <1>0, <1>p DEF Idle
  <1>h. ASSUME NEW h \in Handlers, handler[h].pc # "idle"
        PROVE  handler[h] \in [pc : {"put", "reply"}, proc : Procs, cert : Certs]
    BY <1>h DEF TypeInv, TypeOK, Waiting
  <1>1. ASSUME NEW p \in Procs, SeedCA(p)
        PROVE  AuthorityInv'
    <2>1. CASE db.ca # None
      <3>1. KeepsAuthority
        <4>1. proc' = [proc EXCEPT ![p] = Idle] /\ UNCHANGED <<db, ghost, held, backup, handler>>
          BY <1>1, <2>1 DEF SeedCA, Conflicts, Ends
        <4>2. proc[p].pc = "seed"
          BY <1>1 DEF SeedCA
        <4> QED
          BY <1>0, <4>1, <4>2 DEF KeepsAuthority, AuthorityInv, Busy, Idle
      <3> QED
        BY <3>1, AuthorityKept
    <2>2. CASE db.ca = None
      \* Nothing has been signed yet, and no command holds an authority.
      <3>1. \A r \in Procs : proc[r].pc # "idle" => proc[r].ca = None
        BY <2>2 DEF AuthorityInv, OneAuthority
      <3>2. \A h \in Handlers : ~Busy(h)
        <4> SUFFICES ASSUME NEW h \in Handlers, Busy(h) PROVE FALSE
          OBVIOUS
        <4>1. handler[h].cert.ca \in CAs
          BY <1>h DEF Busy, Certs
        <4> QED
          BY <1>0, <2>2, <4>1 DEF AuthorityInv
      <3>3. ~ghost.bare => held = {}
        BY <1>0, <2>2 DEF AuthorityInv, OneAuthority, Certs
      <3> DEFINE q == [proc[p] EXCEPT !.pc = AfterCA[proc[p].kind], !.ca = Fresh(p)]
      <3>4. /\ db' = [db EXCEPT !.ca = Fresh(p)] /\ proc' = [proc EXCEPT ![p] = q]
            /\ ghost' = [ghost EXCEPT !.generated = @ + 1]
            /\ UNCHANGED <<backup, handler, held>>
        BY <1>0, <1>1, <2>2 DEF SeedCA, Conflicts
      <3>5. q.ca = Fresh(p)
        BY <1>p, <1>1 DEF SeedCA, Running1
      <3>6. db'.ca = Fresh(p) /\ ghost'.bare = ghost.bare /\ ghost'.restores = ghost.restores
        BY <1>0, <3>4 DEF Databases
      <3>7. ghost.restores = 0 /\ backup # None => backup.ca = None
        BY <2>2 DEF AuthorityInv
      <3> HIDE DEF q
      <3>8. OneAuthority'
        BY <1>0, <3>1, <3>3, <3>4, <3>5, <3>6 DEF OneAuthority
      <3> QED
        BY <3>2, <3>4, <3>6, <3>7, <3>8 DEF AuthorityInv, Busy
    <2> QED
      BY <2>1, <2>2
  <1>2. ASSUME NEW h \in Handlers, NEW p \in Procs, NEW d \in Devices, Serial(h, p, d)
        PROVE  AuthorityInv'
    <2>1. proc[p].pc = "serving" /\ proc[p].ca = db.ca
      BY <1>2 DEF Serial, TypeInv, Past, AuthorityInv, OneAuthority
    <2>2. /\ db'.ca = db.ca /\ ghost'.bare = ghost.bare /\ ghost'.restores = ghost.restores
          /\ UNCHANGED <<proc, held, backup>>
      BY <1>0, <1>2 DEF Serial, Databases
    <2>3. \E c : /\ c.ca = proc[p].ca
                 /\ handler' = [handler EXCEPT ![h] = [pc |-> "put", proc |-> p, cert |-> c]]
      BY <1>2 DEF Serial
    <2>4. \A k \in Handlers : Busy(k)' =>
             proc'[handler'[k].proc].pc = "serving" /\ handler'[k].cert.ca = db'.ca
      BY <2>1, <2>2, <2>3 DEF AuthorityInv, Busy, TypeInv, TypeOK
    <2> QED
      BY <2>2, <2>4 DEF AuthorityInv, OneAuthority
  <1>3. ASSUME NEW h \in Handlers, Reply(h)
        PROVE  AuthorityInv'
    <2>1. handler[h].cert.ca = db.ca /\ held' = held \cup {handler[h].cert}
      BY <1>3 DEF Reply, AuthorityInv, Busy
    <2>2. /\ handler' = [handler EXCEPT ![h] = Waiting]
          /\ UNCHANGED <<db, proc, backup, ghost>>
      BY <1>3 DEF Reply
    <2>3. \A k \in Handlers : Busy(k)' =>
             proc'[handler'[k].proc].pc = "serving" /\ handler'[k].cert.ca = db'.ca
      BY <2>2 DEF AuthorityInv, Busy, Waiting, TypeInv, TypeOK
    <2> QED
      BY <2>1, <2>2, <2>3 DEF AuthorityInv, OneAuthority
  <1>4. CASE Backup
    BY <1>4 DEF Backup, AuthorityInv, OneAuthority, Busy
  <1>5. CASE Restore
    <2>1. /\ db' = backup /\ backup # None /\ ghost.restores = 0
          /\ UNCHANGED <<backup, proc, handler, held>>
          /\ \A p \in Procs : proc[p].pc = "idle"
      BY <1>5 DEF Restore, Stopped
    <2>2. \A h \in Handlers : ~Busy(h)
      BY <1>h, <2>1 DEF AuthorityInv, Busy
    <2>3. ghost'.restores = 1
      BY <1>0, <1>5, <2>1 DEF Restore
    <2>4. backup.ca # None => \A c \in held : c.ca = db'.ca
      BY <2>1 DEF AuthorityInv, OneAuthority
    <2>5. ~ghost'.bare => backup.ca # None
      BY <1>0, <1>5 DEF Restore
    <2> QED
      BY <2>1, <2>2, <2>3, <2>4, <2>5 DEF AuthorityInv, OneAuthority, Busy
  <1>6. CASE KeepsAuthority
    BY <1>6, AuthorityKept
  <1> QED
    BY <1>1, <1>2, <1>3, <1>4, <1>5, <1>6, AuthorityQuiet DEF Next, Works, Serves

THEOREM AuthorityInvariant == Spec => []AuthorityInv
  <1>1. TypeInv /\ AuthorityInv /\ [Next]_vars => AuthorityInv'
    BY AuthorityNext
  <1> QED
    BY <1>1, AuthorityInit, InstallationTypes, PTL DEF Spec

\* However commands that each look for an authority and insert one overlap, all
\* work with the one that is stored, and it signed what devices hold (ca.Ensure).
THEOREM OneAuthorityAlways == Spec => []OneAuthority
  <1>1. AuthorityInv => OneAuthority
    BY DEF AuthorityInv
  <1> QED
    BY <1>1, AuthorityInvariant, PTL

-----------------------------------------------------------------------------
(***************************************************************************)
(* Serial numbers.                                                         *)
(***************************************************************************)
\* No certificate is signed, and those answered are recorded.
KeepsSerials ==
    /\ db'.serial = db.serial /\ db.certs \subseteq db'.certs
    /\ ghost'.restores = ghost.restores
    /\ Issued' \subseteq Issued
    /\ \A c \in held' : c \in held \/ c \in db'.certs
    /\ \A h \in Handlers : handler'[h].pc = "reply" => handler'[h].cert \in db'.certs

LEMMA SerialsKept ==
  ASSUME SerialInv, KeepsSerials
  PROVE  SerialInv'
  <1>1. \A c \in Issued' : c \in Issued
    BY DEF KeepsSerials
  <1>2. /\ \A c \in Issued' :
              /\ c.restores <= ghost'.restores
              /\ c.restores = ghost'.restores => c.serial <= db'.serial
        /\ \A c, other \in Issued' :
              other.serial = c.serial /\ other.restores = c.restores => other = c
    BY <1>1 DEF SerialInv, KeepsSerials
  <1>3. \A c \in held' : c.restores = ghost'.restores => c \in db'.certs
    BY DEF SerialInv, KeepsSerials
  <1>4. \A h \in Handlers : handler'[h].pc = "reply" => handler'[h].cert \in db'.certs
    BY DEF KeepsSerials
  <1> QED
    BY <1>2, <1>3, <1>4 DEF SerialInv

\* Steps that concern neither requests nor certificates.
Elsewhere ==
    /\ db'.serial = db.serial /\ db'.certs = db.certs
    /\ ghost'.restores = ghost.restores
    /\ held' = held
    /\ \A h \in Handlers : handler'[h] = handler[h] \/ handler'[h] = Waiting

LEMMA ElsewhereKeeps ==
  ASSUME SerialInv, Elsewhere
  PROVE  KeepsSerials
  <1>1. ASSUME NEW c \in Issued'
        PROVE  c \in Issued
    BY <1>1 DEF Issued, Elsewhere, Busy, Waiting
  <1> QED
    BY <1>1 DEF SerialInv, KeepsSerials, Elsewhere, Waiting

LEMMA SerialQuiet ==
  ASSUME TypeInv
  PROVE  /\ UNCHANGED vars => Elsewhere
         /\ \A p \in Procs, kind \in Kinds, version \in Versions, mode \in Modes,
               force \in BOOLEAN : Start(p, kind, version, mode, force) => Elsewhere
         /\ \A p \in Procs :
               ReadMigrations(p) \/ Migrate(p) \/ Opened(p) \/ LoadCA(p) \/ SeedCA(p)
                  \/ PrintCA(p) \/ CreateAdmin(p) \/ WriteConfig(p) \/ Stop(p) \/ Crash(p)
               => Elsewhere
         /\ \A mode \in Modes : CopyExample(mode) => Elsewhere
         /\ \A p \in Procs, c \in held : Associate(p, c) => Elsewhere
         /\ Backup => Elsewhere
  <1> USE DEF Elsewhere
  <1>0. /\ db \in Databases
        /\ ghost \in [generated : Nat, keys : Nat, restores : Nat, bare : BOOLEAN,
                      starts : Nat, faults : Nat]
    BY DEF TypeInv, TypeOK
  <1>1. ASSUME UNCHANGED vars PROVE Elsewhere
    BY <1>1 DEF vars
  <1>2. ASSUME NEW p \in Procs, NEW kind \in Kinds, NEW version \in Versions,
               NEW mode \in Modes, NEW force \in BOOLEAN,
               Start(p, kind, version, mode, force)
        PROVE  Elsewhere
    BY <1>0, <1>2 DEF Start
  <1>3. ASSUME NEW p \in Procs,
               ReadMigrations(p) \/ Opened(p) \/ LoadCA(p) \/ PrintCA(p) \/ WriteConfig(p)
        PROVE  Elsewhere
    BY <1>3 DEF ReadMigrations, Opened, LoadCA, PrintCA, WriteConfig
  <1>4. ASSUME NEW p \in Procs, Migrate(p)
        PROVE  Elsewhere
    BY <1>0, <1>4 DEF Migrate, Migrated, Databases
  <1>5. ASSUME NEW p \in Procs, SeedCA(p)
        PROVE  Elsewhere
    BY <1>0, <1>5 DEF SeedCA, Databases
  <1>6. ASSUME NEW p \in Procs, CreateAdmin(p)
        PROVE  Elsewhere
    BY <1>0, <1>6 DEF CreateAdmin, Databases
  <1>7. ASSUME NEW p \in Procs, Stop(p) \/ Crash(p)
        PROVE  Elsewhere
    BY <1>0, <1>7 DEF Stop, Crash, Down
  <1>8. ASSUME NEW mode \in Modes, CopyExample(mode)
        PROVE  Elsewhere
    BY <1>8 DEF CopyExample
  <1>9. ASSUME NEW p \in Procs, NEW c \in held, Associate(p, c)
        PROVE  Elsewhere
    BY <1>0, <1>9 DEF Associate, Bound, Databases
  <1>10. ASSUME Backup
         PROVE  Elsewhere
    BY <1>10 DEF Backup
  <1> QED
    BY <1>1, <1>2, <1>3, <1>4, <1>5, <1>6, <1>7, <1>8, <1>9, <1>10

LEMMA SerialInit == Init => SerialInv
  BY DEF Init, SerialInv, Issued, Busy, Waiting

LEMMA SerialNext ==
  ASSUME TypeInv, AuthorityInv, SerialInv, [Next]_vars
  PROVE  SerialInv'
  <1>0. /\ db \in Databases /\ held \subseteq Certs
        /\ ghost \in [generated : Nat, keys : Nat, restores : Nat, bare : BOOLEAN,
                      starts : Nat, faults : Nat]
        /\ handler \in [Handlers -> [pc : {"put", "reply"}, proc : Procs, cert : Certs]
                                      \cup {Waiting}]
    BY DEF TypeInv, TypeOK
  <1>i. Issued \subseteq Certs
    BY <1>0 DEF Issued, Busy, Waiting
  <1>1. ASSUME NEW h \in Handlers, NEW p \in Procs, NEW d \in Devices, Serial(h, p, d)
        PROVE  SerialInv'
    <2> DEFINE c == [serial |-> NextSerial(db), ca |-> proc[p].ca, device |-> d,
                     key |-> ghost.keys + 1, restores |-> ghost.restores]
    <2>1. c.serial = db.serial + 1 /\ c.restores = ghost.restores
      BY <1>0 DEF NextSerial, Databases
    <2>2. handler' = [handler EXCEPT ![h] = [pc |-> "put", proc |-> p, cert |-> c]]
      BY <1>1 DEF Serial
    <2> HIDE DEF c
    <2>3. /\ db'.serial = db.serial + 1 /\ db'.certs = db.certs
          /\ ghost'.restores = ghost.restores /\ held' = held
          /\ db.serial \in Nat
      BY <1>0, <1>1 DEF Serial, NextSerial, Databases
    <2>4. Issued' \subseteq Issued \cup {c}
      BY <1>0, <2>2, <2>3 DEF Issued, Busy
    <2>5. ASSUME NEW x \in Issued
          PROVE  /\ x.restores <= ghost.restores
                 /\ x.restores = ghost.restores => x.serial < c.serial
      BY <1>i, <2>1, <2>3 DEF SerialInv, Certs
    <2>6. ASSUME NEW x \in Issued'
          PROVE  /\ x.restores <= ghost'.restores
                 /\ x.restores = ghost'.restores => x.serial <= db'.serial
      <3>1. CASE x = c
        BY <1>0, <2>1, <2>3, <3>1
      <3>2. CASE x \in Issued
        BY <1>0, <1>i, <2>1, <2>3, <2>5, <3>2 DEF Certs
      <3> QED
        BY <2>4, <3>1, <3>2
    <2>7. ASSUME NEW x \in Issued', NEW other \in Issued',
                 other.serial = x.serial, other.restores = x.restores
          PROVE  other = x
      <3>1. CASE x \in Issued /\ other \in Issued
        BY <2>7, <3>1 DEF SerialInv
      <3>2. CASE x = c /\ other \in Issued
        BY <1>i, <2>1, <2>3, <2>5, <2>7, <3>2 DEF Certs
      <3>3. CASE other = c /\ x \in Issued
        BY <1>i, <2>1, <2>3, <2>5, <2>7, <3>3 DEF Certs
      <3> QED
        BY <2>4, <3>1, <3>2, <3>3
    <2>8. \A k \in Handlers : handler'[k].pc = "reply" => handler'[k].cert \in db'.certs
      BY <1>0, <2>2, <2>3 DEF SerialInv
    <2> QED
      BY <2>3, <2>6, <2>7, <2>8 DEF SerialInv
  <1>2. ASSUME NEW h \in Handlers, Put(h)
        PROVE  SerialInv'
    <2> DEFINE q == [handler[h] EXCEPT !.pc = "reply"]
    <2>1. /\ handler[h].pc = "put" /\ q.cert = handler[h].cert /\ q.pc = "reply"
          /\ handler' = [handler EXCEPT ![h] = q]
      BY <1>0, <1>2 DEF Put, Waiting
    <2> HIDE DEF q
    <2>2. /\ db'.serial = db.serial /\ db'.certs = db.certs \cup {handler[h].cert}
          /\ UNCHANGED <<held, ghost>>
      BY <1>0, <1>2 DEF Put, Databases
    <2>3. Issued' \subseteq Issued
      BY <1>0, <2>1, <2>2 DEF Issued, Busy
    <2>4. KeepsSerials
      BY <1>0, <2>1, <2>2, <2>3 DEF KeepsSerials, SerialInv
    <2> QED
      BY <2>4, SerialsKept
  <1>3. ASSUME NEW h \in Handlers, Reply(h)
        PROVE  SerialInv'
    <2>1. /\ handler[h].pc = "reply" /\ held' = held \cup {handler[h].cert}
          /\ handler' = [handler EXCEPT ![h] = Waiting]
          /\ UNCHANGED <<db, ghost>>
      BY <1>3 DEF Reply
    <2>2. Issued' \subseteq Issued
      BY <1>0, <2>1 DEF Issued, Busy, Waiting
    <2>3. KeepsSerials
      BY <1>0, <2>1, <2>2 DEF KeepsSerials, SerialInv, Waiting
    <2> QED
      BY <2>3, SerialsKept
  <1>4. CASE Restore
    \* No request survives, and what devices hold is of the history before.
    <2>1. /\ ghost'.restores = ghost.restores + 1
          /\ UNCHANGED <<proc, handler, held>>
          /\ \A p \in Procs : proc[p].pc = "idle"
      BY <1>0, <1>4 DEF Restore, Stopped
    <2>2. \A h \in Handlers : ~Busy(h)
      BY <1>0, <2>1 DEF AuthorityInv, Busy, Waiting
    <2>3. Issued' \subseteq Issued
      BY <2>1 DEF Issued, Busy
    <2>4. \A c \in Issued : c.restores \in Nat /\ c.restores < ghost'.restores
      BY <1>0, <1>i, <2>1 DEF SerialInv, Certs
    <2>5. \A c \in held' : c.restores < ghost'.restores /\ c.restores \in Nat
      BY <2>1, <2>4 DEF Issued
    <2> QED
      BY <1>0, <2>1, <2>2, <2>3, <2>4, <2>5 DEF SerialInv, Busy
  <1>5. CASE Elsewhere
    BY <1>5, ElsewhereKeeps, SerialsKept
  <1> QED
    BY <1>1, <1>2, <1>3, <1>4, <1>5, SerialQuiet DEF Next, Works, Serves

THEOREM SerialInvariant == Spec => []SerialInv
  <1>1. TypeInv /\ AuthorityInv /\ SerialInv /\ [Next]_vars => SerialInv'
    BY SerialNext
  <1> QED
    BY <1>1, SerialInit, InstallationTypes, AuthorityInvariant, PTL DEF Spec

\* Whatever requests overlap, stop or crash, no serial is given twice by one
\* history of the database, and what a device holds is recorded (ca/depot.go).
THEOREM SerialsNeverRepeat == Spec => []SerialsUnique
  <1>1. SerialInv => SerialsUnique
    BY DEF SerialInv, SerialsUnique, Issued
  <1> QED
    BY <1>1, SerialInvariant, PTL

-----------------------------------------------------------------------------
(***************************************************************************)
(* The configuration.                                                      *)
(***************************************************************************)
\* What is in the database stays, and an authority only goes into tables.
Gains ==
    /\ config' = config /\ ghost'.bare = ghost.bare
    /\ backup' = backup \/ backup' = db
    /\ db.recorded # {} => db'.recorded # {}
    /\ db.ca # None => db'.ca # None
    /\ db.admin => db'.admin
    /\ db'.ca # None => db'.recorded # {}
    /\ \A p \in Procs : proc'[p].pc = "config" => proc[p].pc = "config" \/ db'.admin

LEMMA ConfigKept ==
  ASSUME ConfigInv, Gains
  PROVE  ConfigInv'
  BY DEF ConfigInv, ConfigLast, Gains

LEMMA ConfigQuiet ==
  ASSUME TypeInv, SchemaInv, ConfigInv
  PROVE  /\ UNCHANGED vars => Gains
         /\ \A p \in Procs, kind \in Kinds, version \in Versions, mode \in Modes,
               force \in BOOLEAN : Start(p, kind, version, mode, force) => Gains
         /\ \A p \in Procs :
               ReadMigrations(p) \/ Migrate(p) \/ Opened(p) \/ LoadCA(p) \/ SeedCA(p)
                  \/ PrintCA(p) \/ CreateAdmin(p) \/ Stop(p) \/ Crash(p)
               => Gains
         /\ \A h \in Handlers, p \in Procs, d \in Devices : Serial(h, p, d) => Gains
         /\ \A h \in Handlers : Put(h) \/ Reply(h) => Gains
         /\ \A p \in Procs, c \in held : Associate(p, c) => Gains
         /\ Backup => Gains
  <1> USE DEF Gains
  <1>0. /\ db \in Databases /\ proc \in [Procs -> Running1 \cup {Idle}]
        /\ ghost \in [generated : Nat, keys : Nat, restores : Nat, bare : BOOLEAN,
                      starts : Nat, faults : Nat]
        /\ db.ca # None => db.recorded # {}
    BY DEF TypeInv, TypeOK, ConfigInv
  <1>p. ASSUME NEW p \in Procs, proc[p].pc # "idle"
        PROVE  proc[p] \in Running1
    BY <1>0, <1>p DEF Idle
  <1>1. ASSUME UNCHANGED vars PROVE Gains
    BY <1>0, <1>1 DEF vars
  <1>2. ASSUME NEW p \in Procs, NEW kind \in Kinds, NEW version \in Versions,
               NEW mode \in Modes, NEW force \in BOOLEAN,
               Start(p, kind, version, mode, force)
        PROVE  Gains
    <2>1. ghost'.bare = ghost.bare
      BY <1>0, <1>2 DEF Start
    <2> QED
      BY <1>0, <1>2, <2>1 DEF Start
  <1>3. ASSUME NEW p \in Procs, ReadMigrations(p)
        PROVE  Gains
    BY <1>0, <1>p, <1>3 DEF ReadMigrations, Running1
  <1>4. ASSUME NEW p \in Procs, Migrate(p)
        PROVE  Gains
    <2>1. /\ db'.ca = db.ca /\ db.recorded \subseteq db'.recorded
          /\ db.admin => db'.admin
      <3>1. CASE db' = db
        BY <3>1
      <3>2. CASE db' = Migrated(db, Least(Pending(p)))
        BY <1>0, <3>2 DEF Migrated, Databases
      <3> QED
        BY <1>4, <3>1, <3>2 DEF Migrate
    <2>2. \A r \in Procs : proc'[r].pc = proc[r].pc \/ proc'[r].pc = "idle"
      BY <1>0, <1>p, <1>4 DEF Migrate, Ends, Idle, Running1
    <2> QED
      BY <1>0, <1>4, <2>1, <2>2 DEF Migrate
  <1>5. ASSUME NEW p \in Procs, Opened(p)
        PROVE  Gains
    BY <1>0, <1>p, <1>5 DEF Opened, Ends, Goes, Idle, Running1
  <1>6. ASSUME NEW p \in Procs, LoadCA(p)
        PROVE  Gains
    <2> DEFINE to == IF db.ca = None THEN "seed" ELSE AfterCA[proc[p].kind]
               q == [proc[p] EXCEPT !.pc = to, !.ca = db.ca]
    <2>1. proc[p] \in Running1 /\ proc[p].kind \in {"init", "serve", "export"}
      BY <1>p, <1>6 DEF LoadCA, Running1, Kinds, TypeInv
    <2>2. to # "config"
      BY <2>1 DEF AfterCA
    <2>3. q.pc = to
      BY <2>1 DEF Running1
    <2>4. proc' = [proc EXCEPT ![p] = q]
      BY <1>0, <1>6 DEF LoadCA
    <2> HIDE DEF q, to
    <2> QED
      BY <1>0, <1>6, <2>2, <2>3, <2>4 DEF LoadCA
  <1>7. ASSUME NEW p \in Procs, SeedCA(p)
        PROVE  Gains
    <2> DEFINE to == AfterCA[proc[p].kind]
               q == [proc[p] EXCEPT !.pc = to, !.ca = Fresh(p)]
    <2>1. proc[p] \in Running1 /\ proc[p].kind \in {"init", "serve", "export"}
      BY <1>p, <1>7 DEF SeedCA, Running1, Kinds, TypeInv
    <2>2. to # "config"
      BY <2>1 DEF AfterCA
    <2>3. q.pc = to
      BY <2>1 DEF Running1
    <2>4. proc' = [proc EXCEPT ![p] = q] \/ proc' = [proc EXCEPT ![p] = Idle]
      BY <1>0, <1>7 DEF SeedCA, Ends
    <2> HIDE DEF q, to
    <2>5. Migrations(proc[p].version) \subseteq db.recorded /\ 1 \in Migrations(proc[p].version)
      BY <1>7, <2>1 DEF SeedCA, SchemaInv, Migrations, Running1, Versions
    <2>6. Fresh(p) # None
      BY DEF Fresh, Imported, Generated, CAs, TypeInv, TypeOK
    <2>7. /\ db'.recorded = db.recorded /\ db'.admin = db.admin
          /\ db'.ca = db.ca \/ db'.ca = Fresh(p)
          /\ ghost'.bare = ghost.bare
      BY <1>0, <1>7 DEF SeedCA, Databases
    <2> QED
      BY <1>0, <1>7, <2>2, <2>3, <2>4, <2>5, <2>6, <2>7 DEF SeedCA, Idle
  <1>8. ASSUME NEW p \in Procs, PrintCA(p)
        PROVE  Gains
    BY <1>0, <1>8 DEF PrintCA, Ends, Idle
  <1>9. ASSUME NEW p \in Procs, CreateAdmin(p)
        PROVE  Gains
    <2>1. /\ db'.ca = db.ca /\ db'.recorded = db.recorded
          /\ db.admin => db'.admin
          /\ proc' = [proc EXCEPT ![p] = Idle] \/ db'.admin
      BY <1>0, <1>9 DEF CreateAdmin, Ends, Databases
    <2> QED
      BY <1>0, <1>9, <2>1 DEF CreateAdmin, Idle
  <1>10. ASSUME NEW p \in Procs, Stop(p) \/ Crash(p)
         PROVE  Gains
    <2>1. ghost'.bare = ghost.bare
      BY <1>0, <1>10 DEF Stop, Crash
    <2> QED
      BY <1>0, <1>10, <2>1 DEF Stop, Crash, Down, Ends, Idle
  <1>11. ASSUME NEW h \in Handlers, NEW p \in Procs, NEW d \in Devices, Serial(h, p, d)
         PROVE  Gains
    BY <1>0, <1>11 DEF Serial, Databases
  <1>12. ASSUME NEW h \in Handlers, Put(h) \/ Reply(h)
         PROVE  Gains
    BY <1>0, <1>12 DEF Put, Reply, Databases
  <1>13. ASSUME NEW p \in Procs, NEW c \in held, Associate(p, c)
         PROVE  Gains
    BY <1>0, <1>13 DEF Associate, Bound, Databases
  <1>14. ASSUME Backup
         PROVE  Gains
    BY <1>0, <1>14 DEF Backup
  <1> QED
    BY <1>1, <1>2, <1>3, <1>4, <1>5, <1>6, <1>7, <1>8, <1>9, <1>10, <1>11, <1>12,
       <1>13, <1>14

LEMMA ConfigInit == Init => ConfigInv
  BY DEF Init, EmptyDB, ConfigInv, ConfigLast, Idle

LEMMA ConfigNext ==
  ASSUME TypeInv, SchemaInv, AuthorityInv, ConfigInv, [Next]_vars
  PROVE  ConfigInv'
  <1>0. /\ proc \in [Procs -> Running1 \cup {Idle}]
        /\ ghost \in [generated : Nat, keys : Nat, restores : Nat, bare : BOOLEAN,
                      starts : Nat, faults : Nat]
        /\ None \notin [by : {"init", "hand"}, mode : Modes]
    BY DEF TypeInv, TypeOK
  <1>1. ASSUME NEW p \in Procs, WriteConfig(p)
        PROVE  ConfigInv'
    <2>1. proc[p].pc = "config" /\ proc[p] \in Running1
      BY <1>0, <1>1 DEF WriteConfig, Idle
    <2>2. Migrations(proc[p].version) \subseteq db.recorded /\ 1 \in Migrations(proc[p].version)
      BY <2>1 DEF SchemaInv, Migrations, Running1, Versions
    <2>3. db.ca # None
      BY <2>1 DEF TypeInv, Past, AuthorityInv, OneAuthority
    <2>4. db.admin
      BY <2>1 DEF ConfigInv
    <2> QED
      BY <1>0, <1>1, <2>2, <2>3, <2>4 DEF WriteConfig, Ends, Idle, ConfigInv, ConfigLast
  <1>2. ASSUME NEW mode \in Modes, CopyExample(mode)
        PROVE  ConfigInv'
    BY <1>2 DEF CopyExample, ConfigInv, ConfigLast
  <1>3. CASE Restore
    <2>1. /\ db' = backup /\ backup # None /\ UNCHANGED <<backup, proc, config>>
          /\ \A p \in Procs : proc[p].pc = "idle"
      BY <1>3 DEF Restore, Stopped
    <2>2. ~ghost'.bare => backup.ca # None /\ backup.admin
      BY <1>0, <1>3 DEF Restore
    <2> QED
      BY <2>1, <2>2 DEF ConfigInv, ConfigLast
  <1>4. CASE Gains
    BY <1>4, ConfigKept
  <1> QED
    BY <1>1, <1>2, <1>3, <1>4, ConfigQuiet DEF Next, Works, Serves

\* Where `cairn init` wrote the file there are tables, an authority and an
\* account, wherever it or another command stopped (init.go).
THEOREM ConfigIsLast == Spec => []ConfigLast
  <1>1. TypeInv /\ SchemaInv /\ AuthorityInv /\ ConfigInv /\ [Next]_vars => ConfigInv'
    BY ConfigNext
  <1>2. ConfigInv => ConfigLast
    BY DEF ConfigInv
  <1> QED
    BY <1>1, <1>2, ConfigInit, InstallationTypes, SchemaInvariant, AuthorityInvariant,
       PTL DEF Spec

-----------------------------------------------------------------------------
(***************************************************************************)
(* The associations across an upgrade.                                     *)
(***************************************************************************)
\* What a version is to know is where it looks: version 1 in the key-value
\* table, and version 2 in the table of its migration, which is to be filled
\* from the key-value table while it has not run.
AuthInv ==
    /\ \A a \in acked[1] : db.kv[a.device] = a.cert
    /\ 2 \notin db.recorded => \A a \in acked[2] : db.kv[a.device] = a.cert
    /\ 2 \in db.recorded => acked[2] \subseteq db.certAuth

\* Steps that associate nothing.
KeepsAuth ==
    /\ db'.recorded = db.recorded /\ db'.kv = db.kv /\ db'.certAuth = db.certAuth
    /\ acked' = acked

LEMMA AuthUnmoved ==
  ASSUME AuthInv, KeepsAuth
  PROVE  AuthInv'
  BY DEF AuthInv, KeepsAuth

LEMMA AuthQuiet ==
  ASSUME TypeInv
  PROVE  /\ UNCHANGED vars => KeepsAuth
         /\ \A p \in Procs, kind \in Kinds, version \in Versions, mode \in Modes,
               force \in BOOLEAN : Start(p, kind, version, mode, force) => KeepsAuth
         /\ \A p \in Procs :
               ReadMigrations(p) \/ Opened(p) \/ LoadCA(p) \/ SeedCA(p) \/ PrintCA(p)
                  \/ CreateAdmin(p) \/ WriteConfig(p) \/ Stop(p) \/ Crash(p) => KeepsAuth
         /\ \A mode \in Modes : CopyExample(mode) => KeepsAuth
         /\ \A h \in Handlers, p \in Procs, d \in Devices : Serial(h, p, d) => KeepsAuth
         /\ \A h \in Handlers : Put(h) \/ Reply(h) => KeepsAuth
         /\ Backup => KeepsAuth
  <1> USE DEF KeepsAuth
  <1>0. db \in Databases /\ proc \in [Procs -> Running1 \cup {Idle}]
    BY DEF TypeInv, TypeOK
  <1>p. ASSUME NEW p \in Procs, proc[p].pc # "idle"
        PROVE  proc[p] \in Running1
    BY <1>0, <1>p DEF Idle
  <1>1. ASSUME UNCHANGED vars PROVE KeepsAuth
    BY <1>0, <1>1 DEF vars
  <1>2. ASSUME NEW p \in Procs, NEW kind \in Kinds, NEW version \in Versions,
               NEW mode \in Modes, NEW force \in BOOLEAN,
               Start(p, kind, version, mode, force)
        PROVE  KeepsAuth
    BY <1>0, <1>2 DEF Start
  <1>3. ASSUME NEW p \in Procs, ReadMigrations(p)
        PROVE  KeepsAuth
    BY <1>0, <1>p, <1>3 DEF ReadMigrations, Running1
  <1>4. ASSUME NEW p \in Procs, Opened(p)
        PROVE  KeepsAuth
    BY <1>0, <1>p, <1>4 DEF Opened, Ends, Goes, Idle, Running1
  <1>5. ASSUME NEW p \in Procs, LoadCA(p)
        PROVE  KeepsAuth
    BY <1>0, <1>p, <1>5 DEF LoadCA, Running1
  <1>6. ASSUME NEW p \in Procs, SeedCA(p)
        PROVE  KeepsAuth
    BY <1>0, <1>p, <1>6 DEF SeedCA, Ends, Idle, Running1, Databases
  <1>7. ASSUME NEW p \in Procs, PrintCA(p) \/ WriteConfig(p)
        PROVE  KeepsAuth
    BY <1>0, <1>7 DEF PrintCA, WriteConfig, Ends, Idle
  <1>8. ASSUME NEW p \in Procs, CreateAdmin(p)
        PROVE  KeepsAuth
    BY <1>0, <1>p, <1>8 DEF CreateAdmin, Ends, Goes, Idle, Running1, Databases
  <1>9. ASSUME NEW p \in Procs, Stop(p) \/ Crash(p)
        PROVE  KeepsAuth
    BY <1>0, <1>9 DEF Stop, Crash, Down, Ends, Idle
  <1>10. ASSUME NEW mode \in Modes, CopyExample(mode)
         PROVE  KeepsAuth
    BY <1>0, <1>10 DEF CopyExample
  <1>11. ASSUME NEW h \in Handlers, NEW p \in Procs, NEW d \in Devices, Serial(h, p, d)
         PROVE  KeepsAuth
    BY <1>0, <1>11 DEF Serial, Databases
  <1>12. ASSUME NEW h \in Handlers, Put(h) \/ Reply(h)
         PROVE  KeepsAuth
    BY <1>0, <1>12 DEF Put, Reply, Databases
  <1>13. ASSUME Backup PROVE KeepsAuth
    BY <1>0, <1>13 DEF Backup
  <1> QED
    BY <1>1, <1>2, <1>3, <1>4, <1>5, <1>6, <1>7, <1>8, <1>9, <1>10, <1>11, <1>12, <1>13

LEMMA AuthInit == Init => AuthInv
  BY DEF Init, AuthInv, Versions

\* A record of an association is the record of its device and certificate.
LEMMA AssociationFields ==
  ASSUME NEW a \in Associations
  PROVE  a = [device |-> a.device, cert |-> a.cert]
  BY DEF Associations

LEMMA AuthNext ==
  ASSUME TypeInv, SchemaInv, AuthInv, [Next]_vars
  PROVE  AuthInv'
  <1>0. /\ db \in Databases /\ proc \in [Procs -> Running1 \cup {Idle}]
        /\ acked \in [Versions -> SUBSET Associations] /\ held \subseteq Certs
        /\ backup \in Databases \cup {None} /\ 1 \in Versions /\ 2 \in Versions
    BY DEF TypeInv, TypeOK, Versions
  <1>p. ASSUME NEW p \in Procs, proc[p].pc # "idle"
        PROVE  proc[p] \in Running1
    BY <1>0, <1>p DEF Idle
  <1>1. ASSUME NEW p \in Procs, Migrate(p)
        PROVE  AuthInv'
    <2> DEFINE m == Least(Pending(p))
    <2>1. m \in Versions /\ acked' = acked
      BY <1>1, PendingMigration DEF Migrate, TypeInv
    <2> HIDE DEF m
    <2>2. CASE db' = db
      BY <2>1, <2>2 DEF AuthInv
    <2>3. CASE db' = Migrated(db, m)
      <3>1. /\ db'.recorded = db.recorded \cup {m} /\ db'.kv = db.kv
            /\ db'.certAuth = IF m = 2 THEN db.certAuth \cup Backfilled(db) ELSE db.certAuth
        BY <1>0, <2>3 DEF Migrated, Databases
      <3>2. CASE 2 \in db.recorded \/ m # 2
        BY <2>1, <3>1, <3>2 DEF AuthInv
      <3>3. CASE 2 \notin db.recorded /\ m = 2
        <4>1. ASSUME NEW a \in acked[2] PROVE a \in Backfilled(db)
          <5>1. /\ db.kv[a.device] = a.cert /\ a \in Associations
                /\ a.device \in Devices /\ a.cert \in Certs
            BY <1>0, <3>3 DEF AuthInv, Associations
          <5>2. a.cert # None
            BY <5>1, InstallationAssumption
          <5> QED
            BY <5>1, <5>2, AssociationFields DEF Backfilled, KeptByDevice
        <4> QED
          BY <2>1, <3>1, <3>3, <4>1 DEF AuthInv
      <3> QED
        BY <3>2, <3>3
    <2> QED
      BY <1>1, <2>2, <2>3 DEF Migrate, m
  <1>2. ASSUME NEW p \in Procs, NEW c \in held, Associate(p, c)
        PROVE  AuthInv'
    <2> DEFINE a == [device |-> c.device, cert |-> c]
               version == proc[p].version
    <2>1. /\ proc[p].pc = "serving" /\ db' = Bound(db, version, a)
          /\ acked' = [v \in Versions |-> IF v \in Told(version)
                                        THEN Noted(acked[v], version, a) ELSE acked[v]]
      BY <1>2 DEF Associate
    <2>2. version \in Versions /\ Migrations(version) \subseteq db.recorded
      BY <1>p, <2>1 DEF SchemaInv, Running1
    <2>3. a.device = c.device /\ a.cert = c /\ c.device \in Devices
      BY <1>0 DEF Certs
    <2> HIDE DEF a, version
    <2>4. db'.recorded = db.recorded
      BY <1>0, <2>1 DEF Bound, Databases
    <2>5. CASE version = 1
      <3>1. /\ db'.certAuth = db.certAuth
            /\ db'.kv = [db.kv EXCEPT ![a.device] = a.cert]
        BY <1>0, <2>1, <2>5 DEF Bound, Databases
      <3>2. db'.kv[a.device] = a.cert /\ \A x \in Devices : x # a.device => db'.kv[x] = db.kv[x]
        BY <1>0, <2>3, <3>1 DEF Databases
      <3>3. ASSUME NEW v \in Versions, \A b \in acked[v] : db.kv[b.device] = b.cert
            PROVE  \A b \in Noted(acked[v], 1, a) : db'.kv[b.device] = b.cert
        BY <1>0, <3>2, <3>3 DEF Noted, Associations
      <3>4. acked'[1] = Noted(acked[1], 1, a)
        BY <1>0, <2>1, <2>5 DEF Told
      <3>5. CASE 2 \in db.recorded
        <4>1. acked'[2] = acked[2]
          BY <1>0, <2>1, <2>5, <3>5 DEF Told
        <4> QED
          BY <1>0, <2>4, <3>1, <3>3, <3>4, <3>5, <4>1 DEF AuthInv
      <3>6. CASE 2 \notin db.recorded
        <4>1. acked'[2] = Noted(acked[2], 1, a)
          BY <1>0, <2>1, <2>5, <3>6 DEF Told
        <4> QED
          BY <1>0, <2>4, <3>3, <3>4, <3>6, <4>1 DEF AuthInv
      <3> QED
        BY <3>5, <3>6
    <2>6. CASE version = 2
      <3>1. db'.certAuth = db.certAuth \cup {a} /\ db'.kv = db.kv
        BY <1>0, <2>1, <2>6 DEF Bound, Databases
      <3>2. 2 \in db.recorded
        BY <2>2, <2>6 DEF Migrations
      <3>3. acked'[1] = acked[1] /\ acked'[2] = acked[2] \cup {a}
        BY <1>0, <2>1, <2>6, <3>2 DEF Told, Noted
      <3> QED
        BY <2>4, <3>1, <3>2, <3>3 DEF AuthInv
    <2> QED
      BY <2>2, <2>5, <2>6 DEF Versions
  <1>3. CASE Restore
    <2>1. /\ db' = backup /\ acked' = [v \in Versions |-> acked[v] \cap Found(backup, v)]
      BY <1>3 DEF Restore
    <2>2. /\ acked'[1] = acked[1] \cap KeptByDevice(backup)
          /\ acked'[2] = acked[2] \cap Found(backup, 2)
      BY <1>0, <2>1 DEF Found
    <2>3. \A b \in KeptByDevice(backup) : backup.kv[b.device] = b.cert
      BY DEF KeptByDevice
    <2> QED
      BY <2>1, <2>2, <2>3 DEF AuthInv, Found
  <1>4. CASE KeepsAuth
    BY <1>4, AuthUnmoved
  <1> QED
    BY <1>1, <1>2, <1>3, <1>4, AuthQuiet DEF Next, Works, Serves

\* Whenever the program is replaced or rolled back, with a server running or
\* not, and whichever command migrates: a server authenticates every association
\* that its version has made, and one of version 2 also those that version 1 made
\* before the migration moved them (015_cert_auth.sql and certauth.go).
THEOREM UpgradesKeepAuth == Spec => []AuthKept
  <1>1. TypeInv /\ SchemaInv /\ AuthInv /\ [Next]_vars => AuthInv'
    BY AuthNext
  <1>2. TypeInv /\ SchemaInv /\ AuthInv => AuthKept
    <2> SUFFICES ASSUME TypeInv, SchemaInv, AuthInv, NEW p \in Procs,
                        proc[p].pc = "serving", NEW a \in acked[proc[p].version]
                 PROVE  Authentic(db, proc[p].version, a)
      BY DEF AuthKept
    <2>1. /\ proc[p].version \in Versions
          /\ Migrations(proc[p].version) \subseteq db.recorded
      BY DEF SchemaInv, TypeInv, TypeOK, Running1, Idle
    <2>2. CASE proc[p].version = 1
      BY <2>2 DEF AuthInv, Authentic
    <2>3. CASE proc[p].version = 2
      BY <2>1, <2>3 DEF AuthInv, Authentic, Migrations
    <2> QED
      BY <2>1, <2>2, <2>3 DEF Versions
  <1> QED
    BY <1>1, <1>2, AuthInit, InstallationTypes, SchemaInvariant, PTL DEF Spec
=============================================================================
