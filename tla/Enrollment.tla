----------------------------- MODULE Enrollment -----------------------------
(***************************************************************************)
(* How a device gets its enrollment profile: the grants an operator creates *)
(* in the console (web/enrollment.go, storage/sqlite/grants.go), the        *)
(* handlers that redeem them and serve the profile (enroll/enroll.go), and  *)
(* the APNs certificates whose topic the profile carries (push/push.go,     *)
(* `cairn pushcert import` and `cairn import`, which are processes of their *)
(* own beside the server).                                                 *)
(*                                                                         *)
(* Every SQL statement is one step; a handler or a command that runs        *)
(* several is interleaved with the others between them.                    *)
(***************************************************************************)
EXTENDS Integers, Sequences, FiniteSets

CONSTANTS
    Owners,         \* owners an operator binds grants to
    Requests,       \* concurrent GET /e/{token} and GET /enroll handlers
    Importers,      \* running `cairn pushcert import` and `cairn import`
    Certs,          \* the APNs certificates operators hold
    AllowOpen,      \* enrollment.allow_open
    Fraction,       \* clock ticks in a second (SQLite's clock is in seconds)
    DefaultUses,    \* max_uses of a form that leaves it empty
    DefaultHours,   \* expires_hours of a form that leaves it empty
    Hour,           \* seconds in an hour
    UsesInput,      \* what operators enter as max_uses; 0 is an empty field
    HoursInput,     \* what operators enter as expires_hours
    MaxTime, MaxGrants, MaxServes, MaxImports, MaxFaults,   \* bounds
    None

Topics == {c.topic : c \in Certs}

ASSUME EnrollmentAssumption ==
    /\ Certs \subseteq [topic: Topics, from: Nat, until: Nat, usable: BOOLEAN]
    /\ IsFiniteSet(Requests)
    /\ AllowOpen \in BOOLEAN
    /\ Fraction \in Nat \ {0}
    /\ DefaultUses \in Nat \ {0}
    /\ DefaultHours \in Nat \ {0}
    /\ Hour \in Nat \ {0}
    /\ UsesInput \subseteq Int
    /\ HoursInput \subseteq Int
    /\ {MaxTime, MaxGrants, MaxServes, MaxImports, MaxFaults} \subseteq Nat
    /\ None \notin Owners /\ None \notin Topics /\ None \notin Int

VARIABLES
    clock,       \* the time, in ticks
    grants,      \* enrollment_grants; the row id is the index
    request,     \* the handlers' locals
    profiles,    \* every enrollment profile served, oldest first
    stored,      \* NanoMDM's push certificates, one per topic
    setting,     \* settings apns_topic and apns_not_after
    apnsTopics,  \* apns_topics, one row per topic
    importer,    \* the commands' locals
    serves, imports, faults   \* what the bounds count

console == <<clock, grants>>
serving == <<request, profiles, serves>>
pushing == <<stored, setting, apnsTopics, importer, imports>>
vars == <<clock, grants, request, profiles, stored, setting,
          apnsTopics, importer, serves, imports, faults>>

-----------------------------------------------------------------------------
(***************************************************************************)
(* Rows and locals.  A grant's token is 32 random bytes known by its hash: *)
(* the row id stands for it.                                               *)
(***************************************************************************)
Grant == [owner: Owners, expires: Int, max: Nat, used: Nat,
          revoked: Int \cup {None}]

\* grant is 0 for the bare /enroll; at is the second of the redemption.
Request == [pc: {"idle", "serve"}, grant: Nat, owner: Owners \cup {None}, at: Nat]
Issued  == [grant: Nat, owner: Owners \cup {None}, at: Nat, topic: Topics]
Listed  == [topic: Topics, until: Nat]
Importer == [pc: {"idle", "store", "topic", "expiry", "list"},
             todo: SUBSET Certs, cert: Certs \cup {None}, meta: SUBSET Listed]

IdleRequest  == [pc |-> "idle", grant |-> 0, owner |-> None, at |-> 0]
IdleImporter == [pc |-> "idle", todo |-> {}, cert |-> None, meta |-> {}]

Init ==
    /\ clock = 0
    /\ grants = << >>
    /\ request = [r \in Requests |-> IdleRequest]
    /\ profiles = << >>
    /\ stored = {}
    /\ setting = [topic |-> None, until |-> None]
    /\ apnsTopics = {}
    /\ importer = [i \in Importers |-> IdleImporter]
    /\ serves = 0 /\ imports = 0 /\ faults = 0

Fault == faults < MaxFaults /\ faults' = faults + 1

Tick == /\ clock < MaxTime
        /\ clock' = clock + 1
        /\ UNCHANGED <<grants, faults, serving, pushing>>

\* datetime('now'), and the format a stored time has: whole seconds.
Second(t) == t \div Fraction

-----------------------------------------------------------------------------
(***************************************************************************)
(* Grants.                                                                 *)
(***************************************************************************)
\* A field of the form that is empty, not a number or not positive.
OrDefaultIfEmpty(n, default) == IF n = 0 THEN default ELSE n

OrDefault(n, default) == IF n <= 0 THEN default ELSE n

\* handleGrantCreate: the row that CreateGrant inserts.
NewGrant(o, uses, hours) ==
    [owner |-> o, expires |-> Second(clock) + OrDefault(hours, DefaultHours) * Hour,
     max |-> OrDefault(uses, DefaultUses), used |-> 0, revoked |-> None]

CreateGrant(o, uses, hours) ==
    /\ Len(grants) < MaxGrants
    /\ grants' = Append(grants, NewGrant(o, uses, hours))
    /\ UNCHANGED <<clock, faults, serving, pushing>>

\* RevokeGrant: a grant already revoked keeps the time of the first revocation.
RevokeGrantToggles(g) ==
    /\ grants' = [grants EXCEPT
         ![g].revoked = IF @ = None THEN Second(clock) ELSE None]
    /\ UNCHANGED <<clock, faults, serving, pushing>>

RevokeGrant(g) ==
    /\ grants[g].revoked = None
    /\ grants' = [grants EXCEPT ![g].revoked = Second(clock)]
    /\ UNCHANGED <<clock, faults, serving, pushing>>

\* The WHERE clause of RedeemGrant's UPDATE.
RedeemableAtExpiry(g) ==
    /\ grants[g].revoked = None
    /\ grants[g].used < grants[g].max
    /\ grants[g].expires >= Second(clock)

Redeemable(g) ==
    /\ grants[g].revoked = None
    /\ grants[g].used < grants[g].max
    /\ grants[g].expires > Second(clock)

\* What the console shows of a grant; Before(time.Now()) sees the fraction.
Status(g) ==
    IF grants[g].revoked # None                 THEN "revoked"
    ELSE IF grants[g].used >= grants[g].max     THEN "used"
    ELSE IF grants[g].expires * Fraction < clock THEN "expired"
    ELSE "active"

-----------------------------------------------------------------------------
(***************************************************************************)
(* The enrollment handlers.                                                *)
(***************************************************************************)
Arrive(r) == /\ request[r].pc = "idle"
             /\ serves < MaxServes
             /\ serves' = serves + 1

\* ServeOpen: 404 unless the operator opened the bare route.
ServeOpen(r) ==
    /\ Arrive(r)
    /\ AllowOpen
    /\ request' = [request EXCEPT ![r] = [IdleRequest EXCEPT
                     !.pc = "serve", !.at = Second(clock)]]
    /\ UNCHANGED <<clock, grants, profiles, faults, pushing>>

\* ServeGrant of a token whose row the UPDATE takes; any other token is answered
\* with 410 and changes nothing.
RedeemGrantUncounted(r, g) ==
    /\ Arrive(r)
    /\ Redeemable(g)
    /\ request' = [request EXCEPT ![r] = [pc |-> "serve", grant |-> g,
                     owner |-> grants[g].owner, at |-> Second(clock)]]
    /\ UNCHANGED <<clock, grants, profiles, faults, pushing>>

RedeemGrantRevoked(r, g) ==
    /\ Arrive(r)
    /\ grants[g].used < grants[g].max
    /\ grants[g].expires > Second(clock)
    /\ grants' = [grants EXCEPT ![g].used = @ + 1]
    /\ request' = [request EXCEPT ![r] = [pc |-> "serve", grant |-> g,
                     owner |-> grants[g].owner, at |-> Second(clock)]]
    /\ UNCHANGED <<clock, profiles, faults, pushing>>

RedeemGrant(r, g) ==
    /\ Arrive(r)
    /\ Redeemable(g)
    /\ grants' = [grants EXCEPT ![g].used = @ + 1]
    /\ request' = [request EXCEPT ![r] = [pc |-> "serve", grant |-> g,
                     owner |-> grants[g].owner, at |-> Second(clock)]]
    /\ UNCHANGED <<clock, profiles, faults, pushing>>

\* The handler ends without a profile.
Refuse(r) == /\ request' = [request EXCEPT ![r] = IdleRequest]
             /\ UNCHANGED <<clock, grants, profiles, serves, pushing>>

\* serveProfile, up to the missing apns_topic: 503.
NotReady(r) ==
    /\ request[r].pc = "serve"
    /\ setting.topic = None
    /\ UNCHANGED faults
    /\ Refuse(r)

\* serveProfile: the setting cannot be read (503 too), or the profile cannot be
\* built, rendered or signed (500).
ServeFails(r) ==
    /\ request[r].pc = "serve"
    /\ Fault
    /\ Refuse(r)

\* serveProfile writes the profile, with the topic the setting had.
ServeProfile(r) ==
    LET q == request[r]
    IN  /\ q.pc = "serve"
        /\ setting.topic # None
        /\ profiles' = Append(profiles, [grant |-> q.grant, owner |-> q.owner,
                                         at |-> q.at, topic |-> setting.topic])
        /\ request' = [request EXCEPT ![r] = IdleRequest]
        /\ UNCHANGED <<clock, grants, serves, faults, pushing>>

\* The server stops; what it had read is lost, what it had written is not.
Crash ==
    /\ Fault
    /\ request' = [r \in Requests |-> IdleRequest]
    /\ UNCHANGED <<clock, grants, profiles, serves, pushing>>

-----------------------------------------------------------------------------
(***************************************************************************)
(* Push certificates.                                                      *)
(***************************************************************************)
\* The checks of LoadCert and of validatePushCert.
Valid(c) == /\ c.usable
            /\ c.from * Fraction <= clock
            /\ clock <= c.until * Fraction

At(i, local) == importer' = [importer EXCEPT ![i] = local]

Start(i) == /\ importer[i].pc = "idle"
            /\ imports < MaxImports
            /\ imports' = imports + 1

\* `cairn pushcert import`: LoadCert validates before it stores.
RunPushcertImport(i, c) ==
    /\ Start(i)
    /\ Valid(c)
    /\ At(i, [IdleImporter EXCEPT !.pc = "store", !.cert = c])
    /\ UNCHANGED <<console, serving, faults, stored, setting, apnsTopics>>

\* `cairn import` of a NanoMDM whose push certificates are C, one per topic.
\* Its checks of the source's queue and of the destination's devices come first
\* and only refuse to run.
RunImport(i, C) ==
    /\ Start(i)
    /\ \A c, e \in C : c.topic = e.topic => c = e
    /\ At(i, [IdleImporter EXCEPT !.pc = "store", !.todo = C])
    /\ UNCHANGED <<console, serving, faults, stored, setting, apnsTopics>>

\* NanoMDM keys its certificates by topic.
With(c) == {x \in stored : x.topic # c.topic} \cup {c}
Meta(c) == [topic |-> c.topic, until |-> c.until]

\* StorePushCert in LoadCert.
StorePushCertGlobal(i) ==
    LET m == importer[i]
    IN  /\ m.pc = "store" /\ m.cert # None
        /\ stored' = {m.cert}
        /\ At(i, [m EXCEPT !.pc = "topic", !.meta = {Meta(m.cert)}])
        /\ UNCHANGED <<console, serving, faults, setting, apnsTopics, imports>>

StorePushCert(i) ==
    LET m == importer[i]
    IN  /\ m.pc = "store" /\ m.cert # None
        /\ stored' = With(m.cert)
        /\ At(i, [m EXCEPT !.pc = "topic", !.meta = {Meta(m.cert)}])
        /\ UNCHANGED <<console, serving, faults, setting, apnsTopics, imports>>

\* StorePushCert in Importer.Run, certificate by certificate; the first invalid
\* one ends the run.
ImportPushCert(i, c) ==
    LET m == importer[i]
    IN  /\ m.pc = "store" /\ c \in m.todo
        /\ IF Valid(c)
             THEN /\ stored' = With(c)
                  /\ At(i, [m EXCEPT !.todo = @ \ {c}, !.meta = @ \cup {Meta(c)}])
             ELSE /\ At(i, IdleImporter)
                  /\ UNCHANGED stored
        /\ UNCHANGED <<console, serving, faults, setting, apnsTopics, imports>>

\* The rest of Importer.Run, then the rows of rep.PushTopics.
ImportDevices(i) ==
    LET m == importer[i]
    IN  /\ m.pc = "store" /\ m.cert = None /\ m.todo = {}
        /\ At(i, [m EXCEPT !.pc = "list"])
        /\ UNCHANGED <<console, serving, faults, stored, setting, apnsTopics, imports>>

\* LoadCert caches the topic...
SetTopic(i) ==
    LET m == importer[i]
    IN  /\ m.pc = "topic"
        /\ setting' = [setting EXCEPT !.topic = m.cert.topic]
        /\ At(i, [m EXCEPT !.pc = "expiry"])
        /\ UNCHANGED <<console, serving, faults, stored, apnsTopics, imports>>

\* ... and the expiry, whose error it ignores.
SetNotAfter(i) ==
    LET m == importer[i]
    IN  /\ m.pc = "expiry"
        /\ \/ setting' = [setting EXCEPT !.until = m.cert.until] /\ UNCHANGED faults
           \/ UNCHANGED setting /\ Fault
        /\ At(i, [m EXCEPT !.pc = "list"])
        /\ UNCHANGED <<console, serving, stored, apnsTopics, imports>>

\* UpsertAPNSTopic; both commands end when nothing is left to record, and
\* `cairn import` goes on after a failure.
UpsertAPNSTopic(i, t) ==
    LET m == importer[i]
        upserted == {x \in apnsTopics : x.topic # t.topic} \cup {t}
    IN  /\ m.pc = "list" /\ t \in m.meta
        /\ \/ apnsTopics' = upserted /\ UNCHANGED faults
           \/ UNCHANGED apnsTopics /\ Fault
        /\ At(i, IF m.meta = {t} THEN IdleImporter ELSE [m EXCEPT !.meta = @ \ {t}])
        /\ UNCHANGED <<console, serving, stored, setting, imports>>

\* An import of no certificate has nothing to record.
ImportEnds(i) ==
    /\ importer[i].pc = "list" /\ importer[i].meta = {}
    /\ At(i, IdleImporter)
    /\ UNCHANGED <<console, serving, faults, stored, setting, apnsTopics, imports>>

\* A statement fails and the command returns its error, or it is killed.
ImportStops(i) ==
    /\ importer[i].pc # "idle"
    /\ Fault
    /\ At(i, IdleImporter)
    /\ UNCHANGED <<console, serving, stored, setting, apnsTopics, imports>>

-----------------------------------------------------------------------------
Console == \/ \E o \in Owners, n \in UsesInput, h \in HoursInput : CreateGrant(o, n, h)
           \/ \E g \in DOMAIN grants : RevokeGrant(g)

Handle(r) == \/ ServeOpen(r)
             \/ \E g \in DOMAIN grants : RedeemGrant(r, g)
             \/ NotReady(r) \/ ServeFails(r) \/ ServeProfile(r)

Import(i) == \/ \E c \in Certs : RunPushcertImport(i, c) \/ ImportPushCert(i, c)
             \/ \E C \in SUBSET Certs : RunImport(i, C)
             \/ StorePushCert(i) \/ ImportDevices(i) \/ SetTopic(i) \/ SetNotAfter(i)
             \/ \E t \in importer[i].meta : UpsertAPNSTopic(i, t)
             \/ ImportEnds(i) \/ ImportStops(i)

Next == \/ Tick \/ Console \/ Crash
        \/ \E r \in Requests : Handle(r)
        \/ \E i \in Importers : Import(i)

Spec == Init /\ [][Next]_vars

-----------------------------------------------------------------------------
(***************************************************************************)
(* Properties.                                                             *)
(***************************************************************************)
\* Type invariant: tables and locals hold the rows and values the code writes.
TypeOK ==
    /\ clock \in Nat
    /\ grants \in Seq(Grant)
    /\ request \in [Requests -> Request]
    /\ profiles \in Seq(Issued)
    /\ stored \subseteq Certs
    /\ setting \in [topic: Topics \cup {None}, until: Nat \cup {None}]
    /\ apnsTopics \subseteq Listed
    /\ importer \in [Importers -> Importer]
    /\ {serves, imports, faults} \subseteq Nat

Served(g)  == {n \in DOMAIN profiles : profiles[n].grant = g}
Holding(g) == {r \in Requests : request[r].pc = "serve" /\ request[r].grant = g}

\* No double spend: the profiles served for a grant and the handlers about to
\* serve one are covered by distinct uses, and there are never more uses than
\* the operator allowed, however redemptions, revocations, failures and crashes
\* interleave (RedeemGrant: "concurrent redemptions cannot double-spend").
NoDoubleSpend ==
    \A g \in DOMAIN grants :
        /\ Cardinality(Served(g)) + Cardinality(Holding(g)) <= grants[g].used
        /\ grants[g].used <= grants[g].max

WithinTerms(x) ==
    IF x.grant = 0
      THEN AllowOpen /\ x.owner = None
      ELSE /\ x.grant \in DOMAIN grants
           /\ x.owner = grants[x.grant].owner
           /\ x.at < grants[x.grant].expires
           /\ grants[x.grant].revoked # None => x.at <= grants[x.grant].revoked

\* Every profile served, or about to be, is bound to the owner of a grant that
\* was redeemed before it expired and no later than it was revoked; without
\* enrollment.allow_open there is no other (ServeOpen, ServeGrant).
ProfilesAreAuthorized ==
    /\ \A n \in DOMAIN profiles : WithinTerms(profiles[n])
    /\ \A r \in Requests : request[r].pc = "serve" => WithinTerms(request[r])

\* A link that works is never shown as dead: the UPDATE's clock (whole seconds)
\* and the console's (Grant.Status) agree at the expiry.
WorkingLinksAreActive ==
    \A g \in DOMAIN grants : Redeemable(g) => Status(g) = "active"

\* A grant the console shows as used, revoked or expired never becomes active
\* again, and a revoked one stays revoked.
StatusIsFinal ==
    [][\A g \in DOMAIN grants :
          /\ Status(g) # "active" => Status(g)' # "active"
          /\ Status(g) = "revoked" => Status(g)' = "revoked"]_vars

Pushable(t) == \E c \in stored : c.topic = t

\* A profile only carries a topic the server can push to, and the console only
\* lists such topics: certificates are stored before their topic is published,
\* and stay (LoadCert: "Only a validated certificate reaches storage").
TopicsArePushable ==
    /\ \A n \in DOMAIN profiles : Pushable(profiles[n].topic)
    /\ setting.topic # None => Pushable(setting.topic)
    /\ \A t \in apnsTopics : Pushable(t.topic)

Quiet == \A i \in Importers : importer[i].pc = "idle"

\* Once the commands are done, a server with a push certificate serves profiles
\* (serveProfile answers "no APNs push certificate loaded" otherwise).
LoadedMeansReady == Quiet /\ stored # {} => setting.topic # None
=============================================================================
