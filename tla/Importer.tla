------------------------------ MODULE Importer ------------------------------
(***************************************************************************)
(* `cairn import`: the move of a NanoMDM deployment (the source) into the  *)
(* store of this server (the destination).  A run replays the check-in     *)
(* messages the source kept of every device and user, copies the push      *)
(* certificates and the certificate bindings, disables what the source had *)
(* disabled, reads the destination back and compares, and leaves an        *)
(* evidence file with its verdict.                                         *)
(*                                                                         *)
(* The source may be alive: its devices check in and out between the       *)
(* reads of a run.  A run can end at any write with an error or a crash,   *)
(* and the operator then runs it again.                                    *)
(*                                                                         *)
(* A message is Absent, undecodable (Bad) or good; a token update carries  *)
(* a route, which stands for the topic, push magic and push token.         *)
(***************************************************************************)
EXTENDS Integers, FiniteSets

CONSTANTS Devices,      \* enrollments of the device channel
          Users,        \* enrollments of the user channel
          Parent,       \* the device of every user
          Hashes,       \* SHA-256 hashes of identity certificates
          Topics,       \* APNs topics
          SourceBindings, \* certificate bindings the source may hold
          MaxBad,       \* undecodable messages in the source
          MaxRuns,      \* runs of the command
          MaxCheckIns,  \* check-ins at the source after Init
          MaxFaults     \* failed calls and crashes

None   == 0
Absent == -1
Bad    == -2
Good   == -3

Enrollments == Devices \cup Users
Routes      == 1 .. 1 + MaxCheckIns
Bindings    == Enrollments \X Hashes

ASSUME ImporterAssumption ==
    /\ Devices \cap Users = {}
    /\ Parent \in [Users -> Devices]
    /\ SourceBindings \subseteq SUBSET Bindings
    /\ {MaxBad, MaxRuns, MaxCheckIns, MaxFaults} \subseteq Nat

Messages == [hello : {Absent, Bad, Good},
             token : {Absent, Bad} \cup Routes,
             boot  : {Absent, Bad, Good}]
Row      == [enabled : BOOLEAN, route : Routes]
NoRow    == [enabled |-> FALSE, route |-> None]
Held     == [route : {None} \cup Routes, enabled : BOOLEAN, boot : BOOLEAN]
Nothing  == [route |-> None, enabled |-> FALSE, boot |-> FALSE]

VARIABLES
    src,        \* the source: messages, rows, bindings, certs, pending
    dst,        \* enrollments of the destination
    bindings,   \* its certificate bindings (cert_auth)
    pushCerts,  \* its push certificates
    listed,     \* topics of apns_topics
    devices,    \* its device inventory
    phase,      \* what the run does next
    opts,       \* options of the run
    todo,       \* items the phase still has to take
    msgs,       \* messages, rows and bindings the run has read
    rep,        \* the run's report
    evidence,   \* the evidence file
    foretold,   \* skips of the last dry run, until the source changes
    ghost       \* runs begun, the last that wrote, whether disturbed; bounds
vars == <<src, dst, bindings, pushCerts, listed, devices, phase, opts, todo,
          msgs, rep, evidence, foretold, ghost>>

Destination == <<dst, bindings, pushCerts, listed, devices>>

(***************************************************************************)
(* The source.                                                             *)
(***************************************************************************)

\* Every channel that sent a token has a row; a row whose message does not
\* decode may still route.  A user is enabled only under an enabled device.
Consistent(messages, rows) ==
    /\ \A e \in Enrollments :
          CASE messages[e].token = Absent -> rows[e] = NoRow
            [] messages[e].token = Bad    -> rows[e].route \in {None, 1}
            [] OTHER                      -> rows[e].route = messages[e].token
    /\ \A u \in Users : rows[u].enabled => rows[Parent[u]].enabled

\* The messages of the source that do not decode.
BadMessages(messages) ==
    {m \in Enrollments \X {"hello", "token", "boot"} :
        messages[m[1]][m[2]] = Bad}

SourceMessages ==
    {messages \in [Enrollments -> {m \in Messages : m.token <= 1}] :
        /\ \A d \in Devices : messages[d].hello # Absent
        /\ \A u \in Users : messages[u].boot = Absent
        /\ Cardinality(BadMessages(messages)) <= MaxBad}

SourceRows == [Enrollments -> {NoRow} \cup {r \in Row : r.route = 1}]

\* A report with nothing in it.
EmptyReport == [skipped |-> {}, mismatched |-> {}, undisabled |-> {},
                topics |-> {}]
NothingRead == [messages |-> [e \in Enrollments |-> [hello |-> Absent,
                                  token |-> Absent, boot |-> Absent]],
                rows |-> [e \in Enrollments |-> NoRow], bindings |-> {}]
NoOptions   == [dry |-> TRUE, accepted |-> {}]

Init ==
    /\ \E messages \in SourceMessages, rows \in SourceRows :
          /\ Consistent(messages, rows)
          /\ src \in [messages : {messages}, rows : {rows},
                      bindings : SourceBindings, certs : [Topics -> {None, Bad, Good}],
                      pending : BOOLEAN]
    /\ dst = [e \in Enrollments |-> Nothing]
    /\ bindings = {} /\ pushCerts = {} /\ listed = {} /\ devices = {}
    /\ phase = "idle" /\ opts = NoOptions /\ todo = {}
    /\ msgs = NothingRead /\ rep = EmptyReport
    /\ evidence = [run |-> 0, ok |-> FALSE, read |-> NothingRead, skipped |-> {}]
    /\ foretold = [known |-> FALSE, skipped |-> {}]
    /\ ghost = [run |-> 0, writer |-> 0, disturbed |-> FALSE,
                checkIns |-> 0, faults |-> 0]

(***************************************************************************)
(* The source goes on serving its devices, as it does at a rehearsal.      *)
(***************************************************************************)
Disturb == [ghost EXCEPT !.disturbed = TRUE]

\* A channel sends a new token, with a new route.
SourceCheckIn(e) ==
    LET route == 2 + ghost.checkIns
    IN  /\ ghost.checkIns < MaxCheckIns
        /\ e \in Users => src.rows[Parent[e]].enabled
        /\ src.messages[e].token # Absent
        /\ src' = [src EXCEPT !.messages[e].token = route,
                              !.rows[e] = [enabled |-> TRUE, route |-> route]]
        /\ ghost' = [Disturb EXCEPT !.checkIns = @ + 1]
        /\ foretold' = [foretold EXCEPT !.known = FALSE]
        /\ UNCHANGED <<Destination, phase, opts, todo, msgs, rep, evidence>>

\* A device checks out, which disables its users too.
SourceCheckOut(d) ==
    /\ ghost.checkIns < MaxCheckIns
    /\ src.rows[d].enabled
    /\ src' = [src EXCEPT !.rows = [e \in Enrollments |->
                  IF e = d \/ (e \in Users /\ Parent[e] = d)
                  THEN [@[e] EXCEPT !.enabled = FALSE] ELSE @[e]]]
    /\ ghost' = [Disturb EXCEPT !.checkIns = @ + 1]
    /\ foretold' = [foretold EXCEPT !.known = FALSE]
    /\ UNCHANGED <<Destination, phase, opts, todo, msgs, rep, evidence>>

(***************************************************************************)
(* A run.  It is refused while the source has queued commands, and when    *)
(* the destination's inventory has devices, unless told otherwise.         *)
(***************************************************************************)
Drained(allowPending) == src.pending => allowPending

Fresh(force) == devices = {} \/ force

Begin(dry, allowPending, force, accepted) ==
    /\ phase = "idle"
    /\ ghost.run < MaxRuns
    /\ Drained(allowPending)
    /\ dry \/ Fresh(force)
    /\ phase' = "certs"
    /\ opts' = [dry |-> dry, accepted |-> accepted]
    /\ todo' = {t \in Topics : src.certs[t] # None}
    /\ rep' = EmptyReport
    /\ msgs' = NothingRead
    /\ ghost' = [ghost EXCEPT !.run = @ + 1, !.disturbed = FALSE,
                              !.writer = IF dry THEN @ ELSE ghost.run + 1]
    /\ UNCHANGED <<src, Destination, evidence, foretold>>

\* The run ends here with an error, or with the process.
Ends(disturbed) ==
    /\ phase' = "idle"
    /\ todo' = {}
    /\ ghost' = [ghost EXCEPT !.disturbed = disturbed]

\* validatePushCert: expired, not valid yet, or not of its key.
Unusable(t) == src.certs[t] = Bad

\* A certificate that is unusable ends the run.
StoreCert(t) ==
    /\ phase = "certs" /\ t \in todo
    /\ IF Unusable(t)
       THEN Ends(ghost.disturbed) /\ UNCHANGED <<rep, pushCerts>>
       ELSE /\ rep' = [rep EXCEPT !.topics = @ \cup {t}]
            /\ pushCerts' = IF opts.dry THEN pushCerts ELSE pushCerts \cup {t}
            /\ todo' = todo \ {t}
            /\ UNCHANGED <<phase, ghost>>
    /\ UNCHANGED <<src, dst, bindings, listed, devices, opts, msgs, evidence, foretold>>

\* The phase is through: the next one reads the rows it works on.
Advance(from, to, items) ==
    /\ phase = from /\ todo = {}
    /\ phase' = to
    /\ todo' = items
    /\ UNCHANGED <<src, Destination, opts, rep, evidence, foretold, ghost>>

ReadDevices ==
    /\ Advance("certs", "devices", Devices)
    /\ msgs' = [msgs EXCEPT !.messages = [e \in Enrollments |->
                   IF e \in Devices THEN src.messages[e] ELSE @[e]]]

ReadUsers ==
    /\ Advance("devices", "users", Users)
    /\ msgs' = [msgs EXCEPT !.messages = [e \in Enrollments |->
                   IF e \in Users THEN src.messages[e] ELSE @[e]]]

ReadBindings ==
    /\ Advance("users", "bindings", src.bindings)
    /\ msgs' = [msgs EXCEPT !.bindings = src.bindings]

\* The source's enrollments; a dry run ends with them.
ReadRows ==
    /\ phase = "bindings" /\ todo = {}
    /\ msgs' = [msgs EXCEPT !.rows = src.rows]
    /\ IF opts.dry
       THEN /\ phase' = "idle" /\ todo' = {}
            /\ foretold' = [known |-> ~ghost.disturbed, skipped |-> rep.skipped]
       ELSE /\ phase' = "disable"
            /\ todo' = {e \in Enrollments :
                           src.rows[e] # NoRow /\ ~src.rows[e].enabled}
            /\ UNCHANGED foretold
    /\ UNCHANGED <<src, Destination, opts, rep, evidence, ghost>>

\* Some message is there and does not decode.
Undecodable(messages) == Bad \in messages

Skip(e) == [rep EXCEPT !.skipped = @ \cup {e}]

ReplayedAbsentToken(m) ==
    [route |-> m.token, enabled |-> m.token \in Routes,
     boot |-> m.token # Bad /\ m.boot = Good]

\* What Authenticate, TokenUpdate and SetBootstrapToken leave of a device.
Replayed(m) ==
    [route   |-> IF m.token \in Routes THEN m.token ELSE None,
     enabled |-> m.token \in Routes,
     boot    |-> m.token # Bad /\ m.boot = Good]

\* A dry run does not look at the bootstrap token.
DeviceSkipped(m) ==
    Undecodable({m.hello, m.token}) \/ (m.boot = Bad /\ ~opts.dry)

\* The inventory is written besides, and may miss the device.
ImportDevice(d) ==
    LET m == msgs.messages[d]
    IN  /\ phase = "devices" /\ d \in todo
        /\ todo' = todo \ {d}
        /\ rep' = IF DeviceSkipped(m) THEN Skip(d) ELSE rep
        /\ IF opts.dry \/ m.hello = Bad
           THEN UNCHANGED <<dst, devices, ghost>>
           ELSE /\ dst' = [dst EXCEPT ![d] = Replayed(m)]
                /\ \/ devices' = devices \cup {d} /\ UNCHANGED ghost
                   \/ /\ ghost.faults < MaxFaults
                      /\ ghost' = [ghost EXCEPT !.faults = @ + 1]
                      /\ UNCHANGED devices
        /\ UNCHANGED <<src, bindings, pushCerts, listed, phase, opts, msgs,
                       evidence, foretold>>

\* A UserAuthenticate that does not decode is passed over, the token is not.
ImportUser(u) ==
    LET m == msgs.messages[u]
    IN  /\ phase = "users" /\ u \in todo
        /\ todo' = todo \ {u}
        /\ rep' = IF Undecodable({m.hello, m.token}) THEN Skip(u) ELSE rep
        /\ dst' = IF opts.dry \/ m.token \notin Routes THEN dst
                  ELSE [dst EXCEPT ![u].route = m.token, ![u].enabled = TRUE]
        /\ UNCHANGED <<src, bindings, pushCerts, listed, devices, phase, opts,
                       msgs, evidence, foretold, ghost>>

AssociatedOnly(b) == {c \in bindings : c[1] # b[1]} \cup {b}

\* AssociateCertHash adds to the hashes of the enrollment.
Associated(b) == bindings \cup {b}

Associate(b) ==
    /\ phase = "bindings" /\ b \in todo
    /\ todo' = todo \ {b}
    /\ bindings' = IF opts.dry THEN bindings ELSE Associated(b)
    /\ UNCHANGED <<src, dst, pushCerts, listed, devices, phase, opts, msgs, rep,
                   evidence, foretold, ghost>>

\* A device is disabled with its users, a user alone.
Channels(e) == {e} \cup {u \in Users : Parent[u] = e}

\* A disable that fails is noted, and the run goes on.
Disable(e) ==
    /\ phase = "disable" /\ e \in todo
    /\ todo' = todo \ {e}
    /\ \/ /\ dst' = [x \in Enrollments |->
                        IF x \in Channels(e) THEN [dst[x] EXCEPT !.enabled = FALSE]
                        ELSE dst[x]]
          /\ UNCHANGED <<rep, ghost>>
       \/ /\ ghost.faults < MaxFaults
          /\ rep' = [rep EXCEPT !.undisabled = @ \cup {e}]
          /\ ghost' = [Disturb EXCEPT !.faults = @ + 1]
          /\ UNCHANGED dst
    /\ UNCHANGED <<src, bindings, pushCerts, listed, devices, phase, opts, msgs,
                   evidence, foretold>>

MismatchesPresence ==
    {e \in Enrollments : msgs.rows[e].enabled /\ dst[e].route = None}
        \cup {b[1] : b \in msgs.bindings \ bindings}

\* The enabled enrollments that do not route as the source says, and the
\* enrollments with a binding that is not there.
Mismatches ==
    {e \in Enrollments : msgs.rows[e].enabled /\ dst[e].route # msgs.rows[e].route}
        \cup {b[1] : b \in msgs.bindings \ bindings}

\* A read that fails is a mismatch as well.
Verify ==
    /\ phase = "disable" /\ todo = {}
    /\ phase' = "topics"
    /\ \/ /\ rep' = [rep EXCEPT !.mismatched = Mismatches]
          /\ UNCHANGED ghost
       \/ /\ ghost.faults < MaxFaults
          /\ rep' = [rep EXCEPT !.mismatched = Enrollments]
          /\ ghost' = [Disturb EXCEPT !.faults = @ + 1]
    /\ UNCHANGED <<src, Destination, opts, todo, msgs, evidence, foretold>>

\* The topics of the certificates are listed; one that fails is not.
RecordTopics ==
    /\ phase = "topics"
    /\ phase' = "evidence"
    /\ \E failed \in SUBSET rep.topics :
          /\ Cardinality(failed) + ghost.faults <= MaxFaults
          /\ listed' = listed \cup (rep.topics \ failed)
          /\ ghost' = [ghost EXCEPT !.faults = @ + Cardinality(failed),
                                    !.disturbed = @ \/ failed # {}]
    /\ UNCHANGED <<src, dst, bindings, pushCerts, devices, opts, todo, msgs,
                   rep, evidence, foretold>>

\* The verdict.
Ok == /\ rep.mismatched = {} /\ rep.undisabled = {}
      /\ rep.skipped \subseteq opts.accepted

BuildEvidence == [run |-> ghost.run, ok |-> Ok, read |-> msgs, skipped |-> rep.skipped]

WriteEvidence ==
    /\ phase = "evidence"
    /\ phase' = "idle"
    /\ evidence' = BuildEvidence
    /\ UNCHANGED <<src, Destination, opts, todo, msgs, rep, foretold, ghost>>

\* What an interrupted replay may leave: its writes are many keys.
Torn(m, held) ==
    {held, Nothing} \cup
    {[route |-> r, enabled |-> b, boot |-> FALSE] :
        r \in {None, m.token} \cap (Routes \cup {None}), b \in {m.token \in Routes, FALSE}}

\* A store call fails, or the command is stopped.
Stop ==
    /\ phase # "idle"
    /\ ghost.faults < MaxFaults
    /\ phase' = "idle" /\ todo' = {}
    /\ ghost' = [Disturb EXCEPT !.faults = @ + 1]
    /\ \/ UNCHANGED <<dst, devices>>
       \/ \E d \in todo \cap Devices :
             /\ phase = "devices" /\ ~opts.dry /\ msgs.messages[d].hello = Good
             /\ \E held \in Torn(msgs.messages[d], dst[d]) :
                   dst' = [dst EXCEPT ![d] = held]
             /\ devices' \in {devices, devices \cup {d}}
    /\ UNCHANGED <<src, bindings, pushCerts, listed, opts, msgs, rep, evidence,
                   foretold>>

Next ==
    \/ \E e \in Enrollments : SourceCheckIn(e)
    \/ \E d \in Devices : SourceCheckOut(d)
    \/ \E dry, allowPending, force \in BOOLEAN, accepted \in SUBSET Enrollments :
          Begin(dry, allowPending, force, accepted)
    \/ \E t \in Topics : StoreCert(t)
    \/ ReadDevices \/ ReadUsers \/ ReadBindings \/ ReadRows
    \/ \E d \in Devices : ImportDevice(d)
    \/ \E u \in Users : ImportUser(u)
    \/ \E b \in Bindings : Associate(b)
    \/ \E e \in Enrollments : Disable(e)
    \/ Verify \/ RecordTopics \/ WriteEvidence \/ Stop

Spec == Init /\ [][Next]_vars

(***************************************************************************)
(* Properties.                                                             *)
(***************************************************************************)
Rows == [Enrollments -> {NoRow} \cup Row]
Read == [messages : [Enrollments -> Messages], rows : Rows, bindings : SUBSET Bindings]

\* Every variable keeps its type: the rows of both stores, the report and the
\* evidence file of `cairn import`.
TypeOK ==
    /\ src \in [messages : [Enrollments -> Messages], rows : Rows,
                bindings : SUBSET Bindings, certs : [Topics -> {None, Bad, Good}],
                pending : BOOLEAN]
    /\ dst \in [Enrollments -> Held]
    /\ bindings \subseteq Bindings
    /\ pushCerts \subseteq Topics /\ listed \subseteq Topics
    /\ devices \subseteq Devices
    /\ phase \in {"idle", "certs", "devices", "users", "bindings", "disable",
                  "topics", "evidence"}
    /\ opts \in [dry : BOOLEAN, accepted : SUBSET Enrollments]
    /\ todo \subseteq Topics \cup Enrollments \cup Bindings
    /\ msgs \in Read
    /\ rep \in [skipped : SUBSET Enrollments, mismatched : SUBSET Enrollments,
                undisabled : SUBSET Enrollments, topics : SUBSET Topics]
    /\ evidence \in [run : Nat, ok : BOOLEAN, read : Read,
                     skipped : SUBSET Enrollments]
    /\ foretold \in [known : BOOLEAN, skipped : SUBSET Enrollments]
    /\ ghost \in [run : Nat, writer : Nat, disturbed : BOOLEAN,
                  checkIns : Nat, faults : Nat]

\* An evidence file that says ok can be trusted until another run writes: the
\* destination routes and enables exactly the enrollments the source had
\* enabled, keeps the others disabled, authenticates every certificate, and
\* has the bootstrap token of every device that was not skipped, whatever the
\* source did meanwhile and whatever earlier runs left.
EvidenceHonest ==
    evidence.ok /\ evidence.run = ghost.writer =>
        /\ \A e \in Enrollments :
              LET row == evidence.read.rows[e]
              IN  /\ dst[e].enabled = row.enabled
                  /\ row.enabled => dst[e].route = row.route
        /\ evidence.read.bindings \subseteq bindings
        /\ \A d \in Devices \ evidence.skipped :
              evidence.read.messages[d].boot = Good => dst[d].boot

\* A run that no failure and no check-in disturbs, of a source whose messages
\* all decode, passes and lists every certificate it stored, whatever earlier
\* runs that were cut short left in the destination.
CleanRunsPass ==
    phase = "evidence" /\ ~ghost.disturbed /\ BadMessages(src.messages) = {} =>
        Ok /\ pushCerts \subseteq listed

\* "A skip whose ID is present here does NOT fail the run; any other skip
\* does": an undisturbed run whose skips were all accepted passes.
AcceptedSkipsPass ==
    phase = "evidence" /\ ~ghost.disturbed /\ rep.skipped \subseteq opts.accepted
        => Ok

\* A dry run "reads and validates everything": a run of the same source skips
\* nothing that the dry run did not report.
DryRunForetells ==
    phase = "evidence" /\ foretold.known => rep.skipped \subseteq foretold.skipped
=============================================================================
