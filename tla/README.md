# Cairn MDM: TLA+ models and proofs

Cairn is a single Go binary that manages Apple devices: it embeds NanoMDM (a
library: the MDM protocol, the command queue, push), keeps everything in one
SQLite database, and adds an admin console, enrollment by one-time links, a
profile library with groups, and a reconciler that pushes assigned profiles.
This directory holds TLA+ modules of the parts whose correctness depends on
order: what happens between two SQL statements, two goroutines, two processes
or a device and the server. TLC checks them on small instances; TLAPS proves the
main invariants for every instance.

Throughout, one SQL statement is one atomic step. That is what the code has: the
pool has a single connection (`storage/sqlite/sqlite.go`, `SetMaxOpenConns(1)`)
and SQLite serialises writers, and except for the migration runner no code opens
a transaction around several statements.

## Inventory

| Component | State | Operations | Interacts with |
|---|---|---|---|
| Groups and assignments (`storage/sqlite/groups.go`, `web/groups.go`) | `groups`, `group_devices`, `group_profiles` | create, delete, add/remove device, assign/unassign profile | each change starts a reconcile goroutine |
| Profile library (`profiles.go`, `web/profiles.go`) | `profiles` (row id, identifier, content, `updated_at`) | save (upsert by identifier), delete (cascades) | read by the reconciler; row ids are reused |
| Reconciler (`assign/assign.go`) | goroutine locals | ReconcileDevice, ReconcileGroup, DeviceNowPushable | reads profiles, sends commands, marks deploys |
| Commander (`mdmcore/commands.go`) | none | enqueue + push, then history row | NanoMDM queue, APNs, `command_history` |
| Event service (`mdmcore/events.go`, `devices.go`) | `devices` | Authenticate, TokenUpdate, CheckOut, results | NanoMDM first, then a best-effort projection, then the hook |
| History and deploys (`commands.go`, `deploys.go`) | `command_history`, `profile_deploys` | CommandSent, CommandResult, MarkDeploySent | written from goroutines and from check-ins |
| Grants (`grants.go`, `web/enrollment.go`) | `enrollment_grants` | create, redeem (one UPDATE), revoke, status | console, enrollment handlers |
| Enrollment handlers (`enroll/enroll.go`) | none | `/e/{token}`, `/enroll` | grants, the `apns_topic` setting |
| Push certificates (`push/push.go`, `apns.go`, `settings.go`, `cmd/cairn/pushcert.go`) | NanoMDM push certificates, two settings, `apns_topics` | LoadCert, import, RenewalTier | separate CLI processes beside the server |
| Importer (`importer/`, `cmd/cairn/import.go`) | destination database | copy, replay, verify | NanoMDM storage, projection, `apns_topics` |
| Sessions, accounts, throttle (`auth/`) | `app_sessions`, `app_users`, an in-memory map | login, sliding renewal, logout, purge, password reset, user deletion, lockout | console requests, CLI processes, hourly job |
| Auth chain, LDAP, OIDC (`auth/chain.go`, `auth/ldap/`, `auth/oidc/`) | none; the flow cookie in the browser | Authenticate, group-to-role mapping, BeginAuth, Exchange | directories, identity provider, sessions |
| Web console (`web/web.go`, `handlers.go`, `oidc.go`, `audit.go`) | `audit_log` | role checks, CSRF, audit, sign-in and sign-out, rendering | everything above |
| CA and SCEP depot (`ca/`) | `ca_state`, `scep_*` tables | Ensure, Serial, Put | SCEP library, `init`, `serve`, `ca export` |
| Certificate association (`certauth.go`) | `cert_auth` | associate, lookups | NanoMDM's cert-auth service, importer |
| Database (`sqlite.go`, `schema/`, `cmd/cairn/backup.go`) | `schema_migrations` | open, migrate, backup | every process |
| Configuration and wiring (`config/`, `cmd/cairn/init.go`, `serve.go`, `pki.go`, `authn.go`, `tls.go`) | `cairn.toml` | init, load, validate, start | the environment, every package |
| Profile builders, HTTP server, logging | none | building, routing | |

What is hard here: goroutines started per trigger and never serialised; results
that arrive before the row they resolve; rows read before a network call and
written after it; devices that answer late, twice or "not now"; a crash between
two statements; CLI processes beside the server, of two versions; a source
server that changes while it is imported; browsers that reload, reorder and lose
responses; clocks of different resolution. `PROJECT.json` lists such hazards at
their lines, with the properties that cover them or the reason none does.

What makes each part correct: the deploy table and the history never claim what
did not happen, results are not lost, every standing assignment is attempted and
each upload sent once (deployment); no use of a grant is spent twice or outside
its terms, and profiles only name topics that can be pushed to (enrollment);
sessions do not outlive the credential, nothing but overlapping deletions removes
the last admin, lockouts are served (accounts); an import that says it passed has moved everything, and one that
can pass does (importer); a migration is applied once, there is one authority,
no serial repeats, upgrades and rollbacks keep the authentication that a version
knows of (installation); a sign-on ends where it began, roles are granted and not
guessed, what the audit trail takes from a session is true (console); what `init` writes, `serve` accepts (startup).

## Modules

| Module | What it is |
|---|---|
| `Deployment` | groups, profile library, reconciler, Commander, event service, history and deploys, with the NanoMDM queue and the devices |
| `MCDeployment` | budgets and symmetry for TLC |
| `DeploymentProofs` | types, and the honesty of deploy and history rows |
| `DeploymentTables` | references between tables, history before deploys, final results, re-arming, one push per upload without overlaps |
| `Enrollment` | grants, enrollment handlers, push certificates and the commands that import them |
| `MCEnrollment` | certificates and symmetry for TLC |
| `EnrollmentProofs` | types, authorization, no double spend, topics, status at expiry and after |
| `Accounts` | local accounts and the `cairn admin` commands, console sessions, the login throttle |
| `MCAccounts` | symmetry for TLC |
| `Leases` | abstract: what a session store promises |
| `AccountsProofs` | types, lockouts, revoked and purged sessions, the cap on renewals, the last admin, what outlives a credential, and that `Accounts` implements `Leases` |
| `Importer`, `MCImporter` | `cairn import`, its live source, its evidence file |
| `ImporterProofs` | types, what an ok evidence file says, undisturbed runs |
| `Installation`, `MCInstallation` | the database as every command shares it: migrations, authority, SCEP depot, associations, backup, `init` |
| `InstallationProofs` | types, migrations, the authority, serials, the order of `init`, associations across upgrades and rollbacks |
| `Console`, `MCConsole` | sign-in by form and by single sign-on, role and CSRF checks, the audit trail |
| `ConsoleProofs` | types, who gets which role, the break-glass account, flows, the log's rows that carry a provider |
| `Startup`, `MCStartup` | configuration, `Validate`, and the start of the server |
| `StartupProofs` | types, and that `Validate` is complete |

Operators with a suffix that no action uses (`TokenUpdateNoHook`,
`RedeemGrantUncounted`, ...) are mutants: plausible bugs that stand in for the
definition after them when a property is tested for its power to detect them.

### Deployment

Tables are sets of records; foreign keys with ON DELETE CASCADE are part of the
deleting action. `worker` holds the goroutines: program counter, the devices and
profiles still to do, and the row read. A reconcile is ReadGroup, ReadProfiles,
then per profile EnqueueCommand, PushFails or CommandSent, MarkDeploySent. The
content of a profile is its identifier and a revision; `updated_at` is a clock
that advances at each upload by a member of `Ticks`, so `0 \in Ticks` allows two
uploads in one millisecond. `queue` and `deferred` are NanoMDM's; `exec`,
`answers` and `has` are the device's, and `answers` records what devices truly
answered, which the honesty properties compare the tables with. A check-in is
Report (NanoMDM stores the report), ResultHistory and ResultDeploy (the two
UPDATEs of CommandResult). DropReport is a response the device never gets, after
which it reports again. Crash clears goroutines and connections and nothing
else. Best-effort writes (`Project`) and every call that can fail draw on
`MaxFaults`.

### Enrollment

`grants` is a sequence, the row id its index (rows are never deleted: no code
calls `DeleteExpiredGrants`); the random token stands for the row. `clock`
counts ticks, `Fraction` of them a second, because redemption compares whole
seconds and the console the exact time. A handler redeems in one step and builds
the profile in another (`NotReady`, `ServeFails`, `ServeProfile`); a refused
token changes nothing and is not a step. `importer` holds the processes `cairn
pushcert import` (StorePushCert, SetTopic, SetNotAfter, UpsertAPNSTopic) and
`cairn import` (ImportPushCert per certificate, the rest of the run, then a row
per topic). The form's fields are what a browser sends, including empty or
negative numbers, which the code replaces by defaults; hours so large that the
duration overflows are outside the model.

### Accounts

A login is admitted by the throttle, reads the account (`Verify`), records its
outcome and opens a session, in four steps: hashing takes long, and commands of
other processes run in between. A password is a number; a login has the user's
present one or a wrong one. A request with a cookie reads its session row
(`Get`) and then renews or deletes it by token (`Renew`, `Drop`). `admin passwd`
and `admin del` change the account first and delete the sessions in a second
statement; `admin del` counts the admins before that. `clock` counts ticks,
`Fraction` a second: stored times are cut to seconds (`Stored`), Go's
comparisons are exact. `created_at` and `expires_at` of a new session are taken
at one moment. Three things are kept for the properties and are not in the code:
the password a session was opened with, whether it was the user's at that moment
(`fresh`), and whether another command has deleted an account since a deletion
read its own (`overtaken`, set by `Overtaking`). The throttle is keyed by user,
at one client address; its `Cleanup` has no caller and is not an action.

`Leases` states what all this amounts to, without handlers, commands or
statements: a lease is opened once, extended only while it is held and never past
its age limit, and never comes back. `Accounts` maps each row of `app_sessions`
to a lease (`AsLease`: the token is the id, the user the holder, `created_at`
and `expires_at` the two times) and implements it (`ImplementsLeases`); times
kept to the second are what `Grain` allows.

### Importer

`src` is the source's storage, `dst` what the destination's NanoMDM would answer
for each enrollment (route, enabled, bootstrap token). A message is absent,
undecodable or good; `route` stands for topic, magic and token together. A run
goes through its phases in the order of `Import`: certificates, devices, users,
bindings, rows, disable, verification, topics, evidence; each phase reads its
rows when it begins, so a check-in at the source (`SourceCheckIn`,
`SourceCheckOut`) can fall between any two. `Stop` is a failed store call or a
killed process, and leaves a device in any state its half-done replay allows
(`Torn`); a disable, a projection or a topic row that fails is noted and passed
over, as in the code. `ghost.disturbed` says that the run met a failure or a
check-in; the code keeps nothing of the kind.

### Installation

The database is one record, a transaction one step. A command is a program
counter: ReadMigrations, one Migrate per pending version, Opened, then the
authority (LoadCA, SeedCA) and what is its own. Every `Start` is in one of two
versions: version 1 stands for those before migration 15, version 2 for those
after, and migration 2 for `015_cert_auth.sql` with its backfill. Nothing relates
the version of one start to the last one's or to what else runs: the program is
replaced under a running server, as docs/backup-restore.md has it ("replace the
binary", then "restart"), and rolled back on the same database. SCEP requests
take a serial, store the certificate and answer, in three steps. `ghost.bare`
records that the operator restored a backup without an authority or account.
`acked[v]` is what version v has to know: the associations it made and, for
version 2, those version 1 made before the migration (`Told`, `Noted`). What a
restore loses (associations after the backup) is not held against the code.
`Modes` are the settings of `ca.mode` that configurations have.

### Console

A request is the unit: it carries the cookies of its browser at the moment it
was sent, reads the session in up to three separate steps (role, CSRF, audit),
and its cookies reach the browser with the response or never. Tokens, states and
nonces are drawn at random in the code and stand here for the request that drew
them, so two never coincide. Directory servers answer, reject or fail; the chain
and the failover between servers are pure operators (`Decides`, `Answer`).
`Authorize` is the identity provider, which honours a code once. A session may
end at any moment (`SessionEnds`: expiry, revocation); how long sessions and
lockouts last is the business of `Accounts`. A callback that reaches another
browser than the one that began the flow is included. The audit middleware reads
the session once more: where it finds one, the row has that user and provider
(`SessionActor`), and where it does not, or cannot read it, the `username` field
of the form and no provider (`FormActors`). A form sent to any audited route may
have that field; nothing but the audit reads it outside `/login`, so it is chosen
there.

### Startup

A setting is present or empty; what it says is left out, except for the three
modes and the two providers that decide which settings count. `Required` is
`Validate`, written by the sections of the code; `Uses` and `ReliesOn` are what
each package then dereferences or opens. `Rendered` is `renderTOML`, which
writes the file by hand and leaves out what the chosen modes do not need.

## Runs

Passing runs:

| Run | Shows | Bounds |
|---|---|---|
| `deploy` | honesty of deploys and history, contents, recorded results stay, referential integrity: around a re-upload with overlapping reconciles and a failure or crash, or around deletions and row-id reuse with a one-off command | 1 device, 2 goroutines; 2 uploads and 1 fault, or 2 identifiers, 2 uploads, a deletion, 1 one-off |
| `deploy_lifecycle` | liveness: every standing assignment to an enrolled device is attempted | 2 enrollments, a checkout, a withdrawal |
| `enroll` | no double spend, authorization, status around expiry and revocation; topics named anywhere have a certificate | 1 grant of 1 use, 2 handlers, 2 commands, 2 imports, 1 fault, half-second ticks, a certificate that expires and one with the wrong key |
| `accounts` | lockouts are served and keep their term, renewals respect the cap, the purge spares usable sessions, a changed credential is outlived only by sessions opened later, the last admin falls only where deletions overlap, the store implements `Leases` | 2 users, 2 handlers, 2 commands at once, 3 logins and passwords together, 1 fault, half-second ticks, a limit of 2 failures, a lockout of half its window |
| `importer` | an evidence file that says ok is true, and an undisturbed run of a good source passes whatever earlier runs left | 1 device with 1 user and a renewed certificate, 1 topic, 2 runs, 1 check-in, 1 fault, 1 undecodable message |
| `installation` | each migration once, one authority, `init` writes its file last, unique serials, associations survive upgrades and rollbacks, the server comes up | 2 processes in either version, 2 SCEP requests, 1 device, 2 keys, 1 command or stop besides the starts, 1 crash, 1 backup and restore, `ca.mode` import (`ca export` generates all the same) |
| `console` | roles are granted, local accounts work when the directory does not, a sign-on stays in its browser, a log row with a provider misnames nobody | 3 requests, 2 browsers, 2 users, 2 groups, 2 directory servers |
| `startup` | nothing that `Validate` accepts is missed later, and what `init` writes leads to a serving process | every combination of modes; what `Validate` asks for, or everything, less one setting; one thing broken outside at a time |

The bounds are chosen so that each hazard's shortest scenario fits: overlaps need
two goroutines or processes and one shared row, reuse needs two uploads and a
deletion, crossing an expiry needs two seconds of two ticks, a repaired import
needs two runs and one failure between them, a single sign-on that goes wrong
needs a start, a callback and one more request. Each property has a mutant in
`PROJECT.json` that the same bounds detect. Deadlock is not checked where budgets
end every behaviour; it is in `startup`, which has none.

Runs that TLC must find violated, each a disagreement between the code and what
a comment, a document or the program's own text says of it (`findings` quotes
them): `deploy_lost_result` (a result that arrives before the deploy row is
lost), `deploy_reenroll` (deploy rows outlive the enrollment), `enroll_migrated`
(a migrated server says it has no push certificate), `accounts_old_password` (a
login under way during `admin passwd` opens a session with the old password).

## What the models show and no run checks

Each of these was found with TLC by adding the named property, or changing the
named constant, in the configuration of the component's run.

- `PushOnce` (`Deployment`): two overlapping reconciles send one upload twice,
  and so does one after a failed push or deploy row. `OneReconcilePushesOnce`
  proves that there is no third cause.
- With `Ticks = {0, 1}` in `Deploy.cfg` an upload in the same millisecond as the
  previous one does not re-arm and `UpToDateRowsCarryContent` fails.
- A history row has the same race as a deploy row, one statement earlier. After
  a deletion during a push, a reused row id leaves a deploy row for a profile
  that was never sent; its stamp differs, so the next reconcile repairs it.
- A failed `cairn import` leaves certificates stored and unlisted, and two
  overlapping imports leave the topic of one certificate beside the expiry of the
  other. A grant redeemed while no push certificate is loaded, or before a
  crash, is spent without a profile.
- `AdminRemains` (`Accounts`; local.go:151-152, "It refuses to remove the last
  admin"): two `admin del` commands at once each count two admins and delete one
  each. Or one reads the role operator, which needs no count, and deletes the row
  after another has deleted the account and `admin add` has made it again as the
  only admin. `LastAdminFallsOnlyToOverlap`, which the run checks, says that there
  is no third way.
- `FreshWindowStarts` (`Accounts`; throttle.go:75-80): where the lockout does not
  outlast the window, which config.go:575-592 allows, the failures are still at
  the limit when it ends, and the next one locks the key out again at once.
- `VouchedRowsNameTheActor` (`Console`) without its condition on the provider:
  audit.go:31-33 has the submitted name "for /login", but line 61 takes a field
  `username` of any audited form when the session has ended, or cannot be read, by
  then, and the row of a change may hold any name.
- `AcceptedSkipsPass` (`Importer`; importer.go:136-138): an accepted skip of a
  device that the source has enabled still fails the run, because verification
  counts the device as a mismatch.
- `DryRunForetells` (importer.go:134): a bootstrap token that does not decode is
  a skip that a dry run does not report.
- `AuthKept` with `Told(version) == Versions` (`Installation`;
  015_cert_auth.sql:20-21, "upgrading in place does not drop existing devices'
  auth"): the backfill runs once, when the first command of the new version opens
  the database. What an old server, still running or rolled back to, associates
  after that stays in the old table, and the new version does not know the device.
  Likewise a server rolled back to does not know what the new one associated.
- `ImportModeImports` (ca.go:31-33): `ca export` before the first `serve`
  generates an authority under a configuration that imports one.
- `ForcedInitGoesThrough` with `MaxStarts = 2` (init.go:67): with `-force` the account of the first
  run is there already, and ends the command before it writes the file.
- `SignInsRecorded` (`Console`): a sign-in by single sign-on leaves no audit row.
- `LocalAlwaysEnabled` (`Startup`; config.go:102): discovery of the identity
  provider at startup ends the process, local accounts included.
- `PrintedURLEnrolls` (init.go:174): the address `init` prints, `/enroll`, is not
  found unless `allow_open` is set, which `init` does not write.

## Fairness

- `deploy_lifecycle`: weak fairness of each goroutine's steps and of the two
  statements of a result. The Go scheduler runs every runnable goroutine, each
  statement has a busy timeout and each call a context that ends it, and the run
  has no faults. Nothing is assumed of administrators or devices: enrolling,
  checking in and changing groups are never fair.
- `installation`: weak fairness of each running command's next step, and of
  starting the server once a configuration exists. The unit file says
  `Restart=on-failure`; a server the operator stopped is one the operator starts
  again, which the bound on stops makes the last thing that happens to it.
- `startup`: weak fairness of the server as a whole (start it, go on). Restarts
  are five seconds apart, slower than systemd's default start limit, so the
  service manager does not give up. Repair of what is broken outside is not
  fair; the property assumes it instead.

## Proofs

For any constants that satisfy the named assumptions (in particular any number
of devices, goroutines, grants and certificates, and any bounds):

- `DeploymentProofs`: `TypeCorrect` from `TypeInv` (types, and that a goroutine
  beyond its first step holds a device or row). `DeployRowsAreHonest` and
  `HistoryIsHonest` from `HonestInv`, which adds `ConnInv`: a result being
  handled is one the device gave to that command. Without it the step that
  writes the result is not inductive. Each action is either shown to write
  neither table (`Writers`) or treated in `DeployStep` and `HistoryStep`;
  `Grows` says that commands and answers are never forgotten.
- `DeploymentTables`, on top of it: `TablesReferToRows` from `RefInv`, which is
  the property itself with the types: each deletion cascades, and MarkDeploySent
  and the group inserts look the row up in the statement that writes.
  `DeploysAreRecorded` from `RecordedInv`: while nothing has failed, a goroutine
  about to mark a deploy already has its command in the history.
  `ResultsStay`, an action property, from `ResultInv`: besides the honest rows it
  needs that commands are numbered once (`NumberedInv`), that what is queued for a
  device, executed or reported by it was sent to it (`DeliveryInv`), that a device
  answers a command once and never says NotNow to an answered one
  (`AnswersFinal`), and that the command a goroutine is about to mark is its own
  (`MarkInv`); only then can a repeated report change nothing.
  `UpToDateMeansContent` from `ContentInv` (equal stamps, equal contents, in
  the library, in goroutines and in commands sent) assumes `0 \notin Ticks`: no
  two uploads in one millisecond. This is the hazard at profiles.go:47 and
  TLC's counterexample without it, not a convenience.
  `OneReconcilePushesOnce` shows what `PushOnce` takes: `OneWorker` (no two
  goroutines or requests at once) and `faults = 0`. `VersionInv` says that a
  revision is one upload's, with one row id and stamp, wherever it is held.
  `OnceInv` says that a command of the reconciler is either in its goroutine's
  hand or covered by a deploy row with the upload's stamp, that what a
  goroutine is still to send is unsent, and that no other command needs the row
  it is about to replace. `OneWorker` and the theorem's `faults = 0` are the
  claim, not conditions the code ensures: nothing in the code keeps two
  reconciles apart.
- `EnrollmentProofs`: `EnrollmentTypes`. `ProfilesAlwaysAuthorized` from
  `AuthInv`, which adds that redemptions lie in the past: a revocation stamps
  the present second, so an earlier redemption stays within its terms.
  `NeverDoubleSpent` from `SpendInv`, which needs `AuthInv` (no handler holds a
  use of a grant not yet created) and counts finite sets: a redemption adds a
  handler and a use, serving turns a handler into a profile.
  `WorkingLinksAreShown` needs only the types and the arithmetic of rounding to
  seconds. `TopicsAlwaysPushable` from `TopicInv`: what a command is about to
  publish it has stored, and stored topics stay.
  `StatusesAreFinal`, an action property, from the types: maxima, expiries and
  revocations of a grant are not rewritten and uses do not decrease
  (`GrantsKept`), and the clock only advances (`ClockStep`).
- `AccountsProofs`: `TypeCorrect` from `TypeInv`, which adds that a handler past
  the login form knows its user and role. `LockoutsAreServed` from
  `LockInv`: the lockout of an entry at the limit ends no sooner than a whole
  `Lockout` after its window began. No relation of lockout, window and limit is
  assumed. `LockoutsKeepTheirTerm` and `RevocationIsFinal` say
  which steps touch the throttle and add rows (`ThrottleSteps`, `SessionSteps`).
  `StoreImplementsLeases` is the refinement: every step of `Accounts` opens,
  extends or ends leases, lets time pass or changes nothing of them
  (`LeaseNext`). It needs `LeaseInv`: tokens are not used twice, and the expiry
  that a request is about to write stays within the age limit of the row with its
  token, if that row is still there, so the UPDATE of a renewal extends the lease
  it decided on.
  `RenewalsKeepTheCap` follows from the same invariant and the arithmetic of
  times cut to seconds (`Division`, `StoredShift`). `PurgingSparesTheLiving`
  is the same arithmetic for the purge. `OnlyOverlapsRemoveTheLast` is for any
  number of commands at once, from `DeletionInv`: a deletion that no other one has
  overtaken finds the account it read, and leaves another admin if it deletes one;
  steps that keep every account in its role (`Kept`) keep that, and a deletion
  marks the others. `ChangedCredentialsAreRevoked` needs only the types: whoever
  changes a credential is the command that revokes next, and no other step takes
  that command away (`RevokingKept`) unless it fails (`FaultsCount`).
- `InstallationProofs`, for any number of commands, requests and devices: `TypeCorrect`
  from `TypeInv` (a command past the authority holds one). `MigrationsRunOnce`
  from `SchemaInv`: the bodies that ran are 1, 2, ... and are those recorded, and
  what a command has read as recorded still is; so the least migration a command
  finds pending is either the next one or has run in the meantime.
  `OneAuthorityAlways` from `AuthorityInv`: requests in progress are a server's
  and signed by the stored authority, and until a restore the backup knows no
  other one. `SerialsNeverRepeat` from `SerialInv`, over the certificates signed,
  answered or not (`Issued`); it needs `AuthorityInv` because a restore is only
  possible when no request is in progress. `ConfigIsLast` from all of them. Each
  part has a lemma that says which steps leave it alone (`SchemaQuiet`,
  `AuthorityQuiet`, `SerialQuiet`, `ConfigQuiet`, `KeepsAuth`).
  `UpgradesKeepAuth` from `AuthInv`: what version 1 has to know is in the old
  table, and what version 2 has to know is there until the migration and in the
  new table after it. It assumes nothing of the order of versions.
- `ImporterProofs`, for any devices, users, topics and number of runs:
  `TypeCorrect`; `OkEvidenceIsTrue` from five invariants, that a run that writes
  is the last one begun (`RunInv`), that nothing routes in the destination
  without a token the source sent (`SourceInv`), that what was replayed is
  enabled if it routes and has its bootstrap token (`ReplayInv`), that what the
  source has not enabled is still to be disabled, reported or disabled
  (`DisableInv`), and that the comparison stays true up to the evidence
  (`VerifyInv`). `UndisturbedRunsPass` adds what becomes of certificates and
  associations (`CertInv`, `BindInv`) and `CleanInv`, which follows an
  undisturbed run phase by phase: it has read what the source holds, skipped
  nothing and given every channel its route.
- `ConsoleProofs`, for any requests, browsers, users, groups, mapping and number
  of directory servers: `TypeCorrect` from `TypeInv` (which step a request of
  which kind can be at, `WellFormed`). `NoPrivilegeUnearned` from `PrivilegeInv`:
  an identity held between the credentials and the session is one the password
  was good for; `LocalStoreBreaksGlass` from the types and what the chain
  decides. `SignOnsAreBound` from `FlowInv`: a flow cookie is in the browser whose
  request drew it, and of the callbacks of one flow only one has spent its code.
  `VouchedRowsAreTrue` from `ChangeInv`: the session in the cookie may be gone
  when the row is written, but is nobody else's, and only a session gives a row
  its provider.
- `StartupProofs`: `TypeCorrect` and `ValidateIsComplete`, for any set of files
  an operator may have written and any environment. The invariant adds `Checked`,
  that a process past the check has a configuration that passed it; `Complete` is
  the lemma about `Validate`, by steps of the start and modes.

Every safety property of the passing runs is proved. Only model-checked are the
three liveness properties (`AssignmentsAreAttempted`, `ServerComesUp`,
`InitLeadsToServing`), which are outside the prover's reach, as are fairness and
ENABLED; and the properties that TLC finds violated have no proof to have.

Some assumptions on constants are about the models' markers rather than the
program: `None` is no user, account, group or certificate, so that "no row" is
told from a row.

## Plan

1. Done: `Deployment`, `Enrollment`, `Accounts` with `Leases`, `Importer`,
   `Installation`, `Console`, `Startup`, their runs, and the proofs above.
2. Done: every safety property of the passing runs as a theorem, and `PushOnce`
   without overlaps and failures, which shows them to be the only causes of a
   second push.
3. An abstract deployment specification (per device and profile: wanted, sent,
   resolved) and a refinement from `Deployment` without overlaps.
4. Pure operators against reference definitions: RenewalTier and the severity
   ranking.

## Not modelled

Payload construction and signing, parsing of plists, X.509 and SCEP, TLS, the
LDAP and OIDC exchanges on the wire, rendering, routing and logging: pure
functions, libraries or text, without shared state. NanoMDM is modelled only as
far as the code relies on it. `cairn pushcert request` makes a key and a request
file and touches nothing shared.
