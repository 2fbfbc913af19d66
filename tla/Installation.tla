---------------------------- MODULE Installation ----------------------------
(***************************************************************************)
(* The commands that share one database file: `cairn init`, `serve`,       *)
(* `migrate`, `ca export` and `backup`, of two versions of the program,    *)
(* with the embedded certificate authority and the certificates it gives   *)
(* to devices.                                                             *)
(*                                                                         *)
(* Every command opens the database, which migrates its schema one         *)
(* transaction at a time.  Commands run at the same time, stop between any *)
(* two writes, and are started again; the operator restores a backup while *)
(* nothing runs, and replaces the program, by a newer or an older one, at  *)
(* any time: a command may start in either version, and goes on in it.     *)
(*                                                                         *)
(* Version 1 keeps certificate associations in the key-value table, one of *)
(* each device; version 2 in a table that migration 2 makes and fills.     *)
(***************************************************************************)
EXTENDS Integers, Sequences, FiniteSets

CONSTANTS Procs,      \* commands that may run at a time
          Handlers,   \* SCEP requests that may be in progress
          Devices,    \* devices that ask for certificates
          Modes,      \* ca.mode of the configurations there may be
          None,       \* no value
          MaxStarts,  \* commands started besides the server
          MaxFaults,  \* crashes
          MaxKeys     \* certificates asked for

Versions      == {1, 2}
Migrations(v) == 1 .. v
Kinds         == {"init", "serve", "export", "migrate"}
Imported      == 1     \* the authority of the files; others are generated
CAs           == Nat \ {0}

\* A certificate; key tells the requests apart.
Certs == [serial : Nat, ca : CAs, device : Devices, key : Nat, restores : Nat]

ASSUME InstallationAssumption ==
    /\ {MaxStarts, MaxFaults, MaxKeys} \subseteq Nat
    /\ Modes \subseteq {"generate", "import"}
    /\ None \notin CAs \cup [by : {"init", "hand"}, mode : Modes]
    /\ None \notin Certs

VARIABLES
    db,         \* the database
    config,     \* the configuration file
    backup,     \* the backup file: a copy of the database
    proc,       \* the commands
    handler,    \* SCEP requests of the server
    held,       \* certificates the devices hold
    acked,      \* associations made for a device that each version is to know
    ghost       \* authorities generated, restores; bounds
vars == <<db, config, backup, proc, handler, held, acked, ghost>>

\* ran lists the migration bodies in the order they ran.
EmptyDB == [ran |-> <<>>, recorded |-> {}, ca |-> None, admin |-> FALSE,
            serial |-> 0, certs |-> {}, kv |-> [d \in Devices |-> None],
            certAuth |-> {}]

Idle     == [pc |-> "idle"]
Waiting  == [pc |-> "idle"]

Init ==
    /\ db = EmptyDB
    /\ config = None
    /\ backup = None
    /\ proc = [p \in Procs |-> Idle]
    /\ handler = [h \in Handlers |-> Waiting]
    /\ held = {}
    /\ acked = [v \in Versions |-> {}]
    /\ ghost = [generated |-> 1, keys |-> 0, restores |-> 0, bare |-> FALSE,
                starts |-> 0, faults |-> 0]

(***************************************************************************)
(* Commands.                                                               *)
(***************************************************************************)
Goes(p, pc) == proc' = [proc EXCEPT ![p].pc = pc]
Ends(p)     == proc' = [proc EXCEPT ![p] = Idle]

Running(kind) == \E p \in Procs : proc[p].pc # "idle" /\ proc[p].kind = kind
Stopped       == \A p \in Procs : proc[p].pc = "idle"

\* init refuses to overwrite a configuration unless forced; the others need
\* one.
MayRun(kind, mode, force) ==
    IF kind = "init" THEN config = None \/ force
                     ELSE config # None /\ mode = config.mode

\* The service manager runs one server, and starts it again when it fails.  The
\* program in its place may have been replaced, or rolled back, by then.
Start(p, kind, version, mode, force) ==
    /\ proc[p].pc = "idle"
    /\ MayRun(kind, mode, force)
    /\ IF kind = "serve" THEN ~Running("serve") ELSE ghost.starts < MaxStarts
    /\ proc' = [proc EXCEPT ![p] =
                   [pc |-> "read", kind |-> kind, version |-> version,
                    mode |-> mode, done |-> {}, ca |-> None]]
    /\ ghost' = IF kind = "serve" THEN ghost
                ELSE [ghost EXCEPT !.starts = @ + 1]
    /\ UNCHANGED <<db, config, backup, handler, held, acked>>

\* migrate: the versions that are recorded.
ReadMigrations(p) ==
    /\ proc[p].pc = "read"
    /\ proc' = [proc EXCEPT ![p].pc = "migrate", ![p].done = db.recorded]
    /\ UNCHANGED <<db, config, backup, handler, held, acked, ghost>>

PendingAll(p) == Migrations(proc[p].version)
Pending(p) == Migrations(proc[p].version) \ proc[p].done
Greatest(S) == CHOOSE m \in S : \A n \in S : m >= n
Least(S)   == CHOOSE m \in S : \A n \in S : m <= n

\* The associations of the key-value table.
KeptByDevice(d) ==
    {[device |-> x, cert |-> d.kv[x]] : x \in {y \in Devices : d.kv[y] # None}}

BackfilledNone(d) == {}
BackfilledAll(d)  == {[device |-> x, cert |-> d.kv[x]] : x \in Devices}

\* Migration 2 takes over the association each device has.
Backfilled(d) == KeptByDevice(d)

\* The body of a migration and its record, in one transaction.
Migrated(d, m) ==
    [d EXCEPT !.ran = Append(@, m), !.recorded = @ \cup {m},
              !.certAuth = IF m = 2 THEN @ \cup Backfilled(d) ELSE @]

\* A body that has run in the meantime fails, and ends the command.
Migrate(p) ==
    LET m == Least(Pending(p))
    IN  /\ proc[p].pc = "migrate" /\ Pending(p) # {}
        /\ IF \E i \in 1 .. Len(db.ran) : db.ran[i] = m
           THEN Ends(p) /\ UNCHANGED db
           ELSE /\ db' = Migrated(db, m)
                /\ proc' = [proc EXCEPT ![p].done = @ \cup {m}]
        /\ UNCHANGED <<config, backup, handler, held, acked, ghost>>

\* The database is open.
Opened(p) ==
    /\ proc[p].pc = "migrate" /\ Pending(p) = {}
    /\ IF proc[p].kind = "migrate" THEN Ends(p)
       ELSE proc' = [proc EXCEPT ![p].pc = "ca", ![p].done = {}]
    /\ UNCHANGED <<db, config, backup, handler, held, acked, ghost>>

(***************************************************************************)
(* The certificate authority (ca.Ensure).                                  *)
(***************************************************************************)
\* With an authority, the server serves, init goes on to its account, and
\* export prints the certificate.
AfterCAConfigured == [serve |-> "serving", init |-> "config", export |-> "print"]
AfterCA == [serve |-> "serving", init |-> "admin", export |-> "print"]

LoadCA(p) ==
    /\ proc[p].pc = "ca"
    /\ proc' = [proc EXCEPT
                  ![p].pc = IF db.ca = None THEN "seed" ELSE AfterCA[proc[p].kind],
                  ![p].ca = db.ca]
    /\ UNCHANGED <<db, config, backup, handler, held, acked, ghost>>

\* `ca export` gives no files, so it generates whatever the mode.
GivesFiles(p) == proc[p].mode = "import" /\ proc[p].kind # "export"

Generated == ghost.generated + 1

Fresh(p) == IF GivesFiles(p) THEN Imported ELSE Generated

\* The row has one key: the second command to insert it fails.
Replaces(d)  == FALSE
Conflicts(d) == d.ca # None

SeedCA(p) ==
    /\ proc[p].pc = "seed"
    /\ IF Conflicts(db)
       THEN Ends(p) /\ UNCHANGED <<db, ghost>>
       ELSE /\ db' = [db EXCEPT !.ca = Fresh(p)]
            /\ proc' = [proc EXCEPT ![p].pc = AfterCA[proc[p].kind],
                                    ![p].ca = Fresh(p)]
            /\ ghost' = [ghost EXCEPT !.generated = @ + 1]
    /\ UNCHANGED <<config, backup, handler, held, acked>>

PrintCA(p) ==
    /\ proc[p].pc = "print"
    /\ Ends(p)
    /\ UNCHANGED <<db, config, backup, handler, held, acked, ghost>>

(***************************************************************************)
(* The rest of `cairn init`, and a configuration written by hand.          *)
(***************************************************************************)
CreateAdmin(p) ==
    /\ proc[p].pc = "admin"
    /\ IF db.admin THEN Ends(p) /\ UNCHANGED db
                   ELSE Goes(p, "config") /\ db' = [db EXCEPT !.admin = TRUE]
    /\ UNCHANGED <<config, backup, handler, held, acked, ghost>>

WriteConfig(p) ==
    /\ proc[p].pc = "config"
    /\ config' = [by |-> "init", mode |-> proc[p].mode]
    /\ Ends(p)
    /\ UNCHANGED <<db, backup, handler, held, acked, ghost>>

CopyExample(mode) ==
    /\ config = None
    /\ config' = [by |-> "hand", mode |-> mode]
    /\ UNCHANGED <<db, backup, proc, handler, held, acked, ghost>>

(***************************************************************************)
(* SCEP: a serial, a signature, a record, and the answer.                  *)
(***************************************************************************)
NextSerialOfRecords(d) == 1 + Cardinality(d.certs)
NextSerial(d)          == 1 + d.serial

Serial(h, p, d) ==
    /\ proc[p].pc = "serving" /\ handler[h].pc = "idle"
    /\ ghost.keys < MaxKeys
    /\ db' = [db EXCEPT !.serial = NextSerial(db)]
    /\ handler' = [handler EXCEPT ![h] =
                      [pc |-> "put", proc |-> p,
                       cert |-> [serial |-> NextSerial(db), ca |-> proc[p].ca,
                                 device |-> d, key |-> ghost.keys + 1,
                                 restores |-> ghost.restores]]]
    /\ ghost' = [ghost EXCEPT !.keys = @ + 1]
    /\ UNCHANGED <<config, backup, proc, held, acked>>

Put(h) ==
    /\ handler[h].pc = "put"
    /\ db' = [db EXCEPT !.certs = @ \cup {handler[h].cert}]
    /\ handler' = [handler EXCEPT ![h].pc = "reply"]
    /\ UNCHANGED <<config, backup, proc, held, acked, ghost>>

Reply(h) ==
    /\ handler[h].pc = "reply"
    /\ held' = held \cup {handler[h].cert}
    /\ handler' = [handler EXCEPT ![h] = Waiting]
    /\ UNCHANGED <<db, config, backup, proc, acked, ghost>>

\* AssociateCertHash: one certificate of each device, or all of them.
Bound(d, version, a) ==
    IF version = 1 THEN [d EXCEPT !.kv[a.device] = a.cert]
    ELSE [d EXCEPT !.certAuth = @ \cup {a}]

\* IsCertHashAssociated.
Authentic(d, version, a) ==
    IF version = 1 THEN d.kv[a.device] = a.cert ELSE a \in d.certAuth

\* Whom an association is made known to: the version that makes it, and
\* version 2 when its migration is still to come and will take it over.
Told(version) == {version} \cup (IF 2 \in db.recorded THEN {} ELSE {2})

\* Version 1 keeps one association of each device.
Noted(notes, version, a) ==
    {b \in notes : version = 2 \/ b.device # a.device} \cup {a}

\* A device enrolls, or renews, with a certificate it holds.
Associate(p, c) ==
    LET a == [device |-> c.device, cert |-> c]
        version == proc[p].version
    IN  /\ proc[p].pc = "serving"
        /\ ~Authentic(db, version, a)
        /\ db' = Bound(db, version, a)
        /\ acked' = [v \in Versions |-> IF v \in Told(version)
                                        THEN Noted(acked[v], version, a) ELSE acked[v]]
        /\ UNCHANGED <<config, backup, proc, handler, held, ghost>>

(***************************************************************************)
(* The operator: stops, crashes, backups and restores.                     *)
(***************************************************************************)
Down(p) ==
    /\ proc[p].pc # "idle"
    /\ Ends(p)
    /\ handler' = [h \in Handlers |->
                      IF handler[h].pc # "idle" /\ handler[h].proc = p
                      THEN Waiting ELSE handler[h]]
    /\ UNCHANGED <<db, config, backup, held, acked>>

Stop(p) ==
    /\ proc[p].pc = "serving"
    /\ \A h \in Handlers : handler[h].pc = "idle"
    /\ ghost.starts < MaxStarts
    /\ Down(p)
    /\ ghost' = [ghost EXCEPT !.starts = @ + 1]

Crash(p) ==
    /\ ghost.faults < MaxFaults
    /\ Down(p)
    /\ ghost' = [ghost EXCEPT !.faults = @ + 1]

\* VACUUM INTO copies one state of the database.
Backup ==
    /\ config # None
    /\ backup = None
    /\ backup' = db
    /\ UNCHANGED <<db, config, proc, handler, held, acked, ghost>>

\* What version v finds of its associations in a copy of the database, once
\* opened.
Found(d, v) ==
    IF v = 1 \/ 2 \notin d.recorded THEN KeptByDevice(d) ELSE d.certAuth

\* What was associated after the backup is gone with it.
Restore ==
    /\ Stopped /\ backup # None
    /\ ghost.restores = 0
    /\ db' = backup
    /\ acked' = [v \in Versions |-> acked[v] \cap Found(backup, v)]
    /\ ghost' = [ghost EXCEPT !.restores = @ + 1,
                              !.bare = backup.ca = None \/ ~backup.admin]
    /\ UNCHANGED <<config, backup, proc, handler, held>>

Works(p) ==
    \/ ReadMigrations(p) \/ Migrate(p) \/ Opened(p)
    \/ LoadCA(p) \/ SeedCA(p) \/ PrintCA(p) \/ CreateAdmin(p) \/ WriteConfig(p)

Serves(h) == Put(h) \/ Reply(h)

StartServer ==
    \E p \in Procs, version \in Versions, mode \in Modes :
        Start(p, "serve", version, mode, FALSE)

Next ==
    \/ \E p \in Procs, kind \in Kinds, version \in Versions, mode \in Modes,
          force \in BOOLEAN : Start(p, kind, version, mode, force)
    \/ \E p \in Procs : Works(p) \/ Stop(p) \/ Crash(p)
    \/ \E mode \in Modes : CopyExample(mode)
    \/ \E h \in Handlers, p \in Procs, d \in Devices : Serial(h, p, d)
    \/ \E h \in Handlers : Serves(h)
    \/ \E p \in Procs, c \in held : Associate(p, c)
    \/ Backup \/ Restore

\* A command that runs goes on, and the service manager starts the server.
Spec == /\ Init /\ [][Next]_vars
        /\ WF_vars(StartServer)
        /\ \A p \in Procs : WF_vars(Works(p))

(***************************************************************************)
(* Properties.                                                             *)
(***************************************************************************)
Associations == [device : Devices, cert : Certs]
Databases == [ran : Seq(Versions), recorded : SUBSET Versions,
              ca : CAs \cup {None}, admin : BOOLEAN, serial : Nat,
              certs : SUBSET Certs, kv : [Devices -> Certs \cup {None}],
              certAuth : SUBSET Associations]
Running1 == [pc : {"read", "migrate", "ca", "seed", "print", "admin", "config",
                   "serving"},
             kind : Kinds, version : Versions, mode : Modes,
             done : SUBSET Versions, ca : CAs \cup {None}]

\* Every variable keeps its type: the database and its copy, the commands and
\* the SCEP requests.
TypeOK ==
    /\ db \in Databases
    /\ config \in [by : {"init", "hand"}, mode : Modes] \cup {None}
    /\ backup \in Databases \cup {None}
    /\ proc \in [Procs -> Running1 \cup {Idle}]
    /\ handler \in [Handlers -> [pc : {"put", "reply"}, proc : Procs, cert : Certs]
                                 \cup {Waiting}]
    /\ held \subseteq Certs /\ acked \in [Versions -> SUBSET Associations]
    /\ ghost \in [generated : Nat, keys : Nat, restores : Nat, bare : BOOLEAN,
                  starts : Nat, faults : Nat]

\* migrate: whichever commands open the database together, each body runs
\* once and in order, and a command that is past it finds every table its
\* version needs.
SchemaOnce ==
    /\ \A i \in 1 .. Len(db.ran) : db.ran[i] = i
    /\ \A p \in Procs :
          proc[p].pc \notin {"idle", "read", "migrate"} =>
              Migrations(proc[p].version) \subseteq db.recorded

\* ca.Ensure: every command that has an authority in its hands has the one
\* that is stored, and every certificate of a device was signed by it, unless
\* the operator put back a backup that had none.
OneAuthority ==
    /\ \A p \in Procs : proc[p].pc # "idle" /\ proc[p].ca # None => proc[p].ca = db.ca
    /\ ~ghost.bare => \A c \in held : c.ca = db.ca

\* "Write the config file last, once everything else succeeded": where init
\* wrote the file there are tables, an authority and an account, through
\* crashes, upgrades and restores.
ConfigLast ==
    config # None /\ config.by = "init" /\ ~ghost.bare =>
        db.recorded # {} /\ db.ca # None /\ db.admin

\* sqlDepot.Serial: no serial is given twice by one history of the database,
\* and what a device holds is recorded in it.
SerialsUnique ==
    \A c \in held :
        /\ \A other \in held :
              other.serial = c.serial /\ other.restores = c.restores => other = c
        /\ c.restores = ghost.restores => c \in db.certs

\* "so upgrading in place does not drop existing devices' auth": with the
\* program replaced under a running server or rolled back, whichever command
\* migrates and wherever it stops, a server authenticates every association
\* made by its own version, and one of version 2 also every association version
\* 1 made before the migration ran.  Version 2 is not told what a version 1
\* server associates after it, nor version 1 what version 2 does.
AuthKept ==
    \A p \in Procs : proc[p].pc = "serving" =>
        \A a \in acked[proc[p].version] : Authentic(db, proc[p].version, a)

\* Restart=on-failure: once there is a configuration the server comes up,
\* whatever commands race it, fail or crash.
ServerComesUp == config # None ~> \E p \in Procs : proc[p].pc = "serving"

\* "seed the CA from an existing keypair (import mode ...) instead of
\* generating one": an authority that first appears under a configuration that
\* imports it is the one of the files.
ImportModeImports ==
    [][db.ca = None /\ db'.ca # None /\ config # None /\ ~Running("init") =>
          (config.mode = "import" => db'.ca = Imported)]_vars

\* "config %s already exists (use -force to overwrite)": an init that was
\* forced over the file of an earlier one is ended by nothing but a crash.
ForcedInitGoesThrough ==
    [][config # None /\ config.by = "init" =>
          \A p \in Procs : proc[p].pc = "admin" /\ proc'[p].pc = "idle" =>
              ghost'.faults > ghost.faults]_vars
=============================================================================
