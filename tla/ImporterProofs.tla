---------------------------- MODULE ImporterProofs ----------------------------
(***************************************************************************)
(* Proofs about Importer, for every set of devices, users and topics and   *)
(* every bound: the types, the evidence file and undisturbed runs.         *)
(*                                                                         *)
(* OkEvidenceIsTrue rests on five invariants.  SourceInv: nothing routes   *)
(* in the destination but what the source sent a readable token for.       *)
(* RunInv: a run that writes is the last that began, and no evidence is    *)
(* of it.  ReplayInv: what the run replayed is enabled if it routes, and   *)
(* has its bootstrap token.  DisableInv: what the source has not enabled   *)
(* is to be disabled, reported or disabled.  VerifyInv: the comparison     *)
(* stays true until the evidence is written.  UndisturbedRunsPass adds     *)
(* CertInv, BindInv and CleanInv, which follow one run from Begin on.      *)
(***************************************************************************)
EXTENDS Importer, FiniteSetTheorems, TLAPS

-----------------------------------------------------------------------------
\* Types.

Source == [messages : [Enrollments -> Messages], rows : Rows,
           bindings : SUBSET Bindings, certs : [Topics -> {None, Bad, Good}],
           pending : BOOLEAN]
Report == [skipped : SUBSET Enrollments, mismatched : SUBSET Enrollments,
           undisabled : SUBSET Enrollments, topics : SUBSET Topics]
Ghost  == [run : Nat, writer : Nat, disturbed : BOOLEAN, checkIns : Nat,
           faults : Nat]

\* The topics of a report are finitely many, so that failed ones can be counted.
TypeInv == TypeOK /\ IsFiniteSet(rep.topics)

\* Routes are positive; the marks of absent and undecodable messages are not.
LEMMA RoutesType == Routes \subseteq Nat /\ None \notin Routes /\ 1 \in Routes
                       /\ Absent \notin Routes /\ Bad \notin Routes
BY ImporterAssumption DEF Routes, None, Absent, Bad

\* Updates of single fields.
LEMMA ReportFields ==
    ASSUME NEW r \in Report
    PROVE  /\ \A S \in SUBSET Enrollments :
                /\ [r EXCEPT !.skipped = S] \in Report
                /\ [r EXCEPT !.mismatched = S] \in Report
                /\ [r EXCEPT !.undisabled = S] \in Report
           /\ \A S \in SUBSET Topics : [r EXCEPT !.topics = S] \in Report
BY DEF Report

\* Updates of the bookkeeping the steps make.
LEMMA GhostFields ==
    ASSUME NEW g \in Ghost
    PROVE  /\ [g EXCEPT !.disturbed = TRUE] \in Ghost
           /\ \A b \in BOOLEAN : [g EXCEPT !.disturbed = b] \in Ghost
           /\ \A n \in Nat : /\ [g EXCEPT !.faults = n] \in Ghost
                             /\ [g EXCEPT !.checkIns = n] \in Ghost
           /\ \A n \in Nat, b \in BOOLEAN :
                [g EXCEPT !.faults = n, !.disturbed = b] \in Ghost
           /\ \A n, m \in Nat :
                [g EXCEPT !.run = n, !.disturbed = FALSE, !.writer = m] \in Ghost
BY DEF Ghost

\* A replayed device is a row of the destination.
LEMMA ReplayedType ==
    ASSUME NEW m \in Messages
    PROVE  Replayed(m) \in Held
BY DEF Replayed, Held, Messages

\* So is one whose replay was cut short.
LEMMA TornType ==
    ASSUME NEW m \in Messages, NEW held \in Held
    PROVE  Torn(m, held) \subseteq Held
<1>1. Nothing \in Held
  BY DEF Nothing, Held
<1>2. ASSUME NEW r \in Routes \union {None}, NEW b \in BOOLEAN
      PROVE  [route |-> r, enabled |-> b, boot |-> FALSE] \in Held
  BY DEF Held
<1>3. {m.token \in Routes, FALSE} \subseteq BOOLEAN
  <2>1. \A c \in BOOLEAN : {c, FALSE} \subseteq BOOLEAN
    OBVIOUS
  <2>2. (m.token \in Routes) \in BOOLEAN
    OBVIOUS
  <2>3. QED
    BY <2>1, <2>2, Zenon
<1>4. ASSUME NEW x \in Torn(m, held)
      PROVE  x \in Held
  <2>1. \/ x \in {held, Nothing}
        \/ \E r \in {None, m.token} \cap (Routes \cup {None}) :
              \E b \in {m.token \in Routes, FALSE} :
                 x = [route |-> r, enabled |-> b, boot |-> FALSE]
    BY <1>4, SMT DEF Torn
  <2>2. QED
    BY <1>1, <1>2, <1>3, <2>1, Zenon
<1>5. QED
  BY <1>4

\* TypeOK, with its record types by name.
LEMMA TypeParts ==
    TypeOK <=> /\ src \in Source
               /\ dst \in [Enrollments -> Held]
               /\ bindings \subseteq Bindings
               /\ pushCerts \subseteq Topics /\ listed \subseteq Topics
               /\ devices \subseteq Devices
               /\ phase \in {"idle", "certs", "devices", "users", "bindings",
                             "disable", "topics", "evidence"}
               /\ opts \in [dry : BOOLEAN, accepted : SUBSET Enrollments]
               /\ todo \subseteq Topics \cup Enrollments \cup Bindings
               /\ msgs \in Read
               /\ rep \in Report
               /\ evidence \in [run : Nat, ok : BOOLEAN, read : Read,
                                skipped : SUBSET Enrollments]
               /\ foretold \in [known : BOOLEAN, skipped : SUBSET Enrollments]
               /\ ghost \in Ghost
BY DEF TypeOK, Source, Report, Ghost

\* A run that has read nothing is typed.
LEMMA NothingReadType == NothingRead \in Read /\ EmptyReport \in Report
<1>1. [hello |-> Absent, token |-> Absent, boot |-> Absent] \in Messages
  BY DEF Messages
<1>2. NothingRead.messages \in [Enrollments -> Messages]
  BY <1>1 DEF NothingRead
<1>3. NothingRead.rows \in Rows /\ NothingRead.bindings = {}
  BY DEF NothingRead, Rows
<1>4. NothingRead = [messages |-> NothingRead.messages, rows |-> NothingRead.rows,
                     bindings |-> NothingRead.bindings]
  BY DEF NothingRead
<1>5. NothingRead \in Read
  BY <1>2, <1>3, <1>4, Zenon DEF Read
<1>6. EmptyReport \in Report
  BY DEF EmptyReport, Report
<1>7. QED
  BY <1>5, <1>6

\* The first state is typed.
LEMMA TypeInit == Init => TypeInv
<1> SUFFICES ASSUME Init PROVE TypeInv
  OBVIOUS
<1>1. src \in Source
  <2>1. PICK messages \in SourceMessages, rows \in SourceRows :
          src \in [messages : {messages}, rows : {rows},
                   bindings : SourceBindings, certs : [Topics -> {None, Bad, Good}],
                   pending : BOOLEAN]
    BY DEF Init
  <2>2. messages \in [Enrollments -> Messages]
    BY DEF SourceMessages
  <2>3. rows \in Rows
    BY DEF SourceRows, Rows
  <2>4. SourceBindings \subseteq SUBSET Bindings
    BY ImporterAssumption
  <2>5. QED
    BY <2>1, <2>2, <2>3, <2>4 DEF Source
<1>2. Nothing \in Held /\ NoOptions \in [dry : BOOLEAN, accepted : SUBSET Enrollments]
  BY DEF Nothing, Held, NoOptions
<1>3. evidence \in [run : Nat, ok : BOOLEAN, read : Read, skipped : SUBSET Enrollments]
  BY NothingReadType DEF Init
<1>4. ghost \in Ghost /\ foretold \in [known : BOOLEAN, skipped : SUBSET Enrollments]
  BY DEF Init, Ghost
<1>5. IsFiniteSet(rep.topics)
  BY FS_EmptySet DEF Init, EmptyReport
<1>6. QED
  BY <1>1, <1>2, <1>3, <1>4, <1>5, NothingReadType, TypeParts DEF Init, TypeInv

\* The source's steps, field by field.
LEMMA CheckInEffect ==
    ASSUME TypeInv, NEW e \in Enrollments, SourceCheckIn(e)
    PROVE  LET route == 2 + ghost.checkIns
           IN  /\ route \in Routes /\ src' \in Source
               /\ src.messages[e].token # Absent
               /\ e \in Users => src.rows[Parent[e]].enabled
               /\ src'.messages[e].token = route
               /\ src'.messages[e].hello = src.messages[e].hello
               /\ src'.messages[e].boot = src.messages[e].boot
               /\ src'.rows[e].enabled = TRUE /\ src'.rows[e].route = route
               /\ \A x \in Enrollments : x # e =>
                     /\ src'.messages[x] = src.messages[x]
                     /\ src'.rows[x] = src.rows[x]
               /\ src'.bindings = src.bindings /\ src'.certs = src.certs
<1> DEFINE route == 2 + ghost.checkIns
           m == [src.messages[e] EXCEPT !.token = route]
           row == [enabled |-> TRUE, route |-> route]
<1>1. /\ src \in Source /\ ghost.checkIns \in Nat /\ ghost.checkIns < MaxCheckIns
      /\ src.messages[e].token # Absent
      /\ e \in Users => src.rows[Parent[e]].enabled
      /\ src' = [src EXCEPT !.messages[e].token = route, !.rows[e] = row]
  BY TypeParts DEF SourceCheckIn, TypeInv, Ghost
<1>2. route \in Routes
  BY <1>1, ImporterAssumption DEF Routes
<1>3. src.messages[e] \in Messages
  BY <1>1 DEF Source
<1> HIDE DEF route
<1>4. /\ m \in Messages /\ m.token = route /\ m.hello = src.messages[e].hello
      /\ m.boot = src.messages[e].boot
  BY <1>2, <1>3 DEF Messages
<1>5. row \in Row /\ row.enabled = TRUE /\ row.route = route
  BY <1>2 DEF Row
<1>6. src' = [src EXCEPT !.messages = [src.messages EXCEPT ![e] = m],
                         !.rows = [src.rows EXCEPT ![e] = row]]
  BY <1>1 DEF Source
<1> HIDE DEF m, row
<1>7. /\ src'.messages = [src.messages EXCEPT ![e] = m]
      /\ src'.rows = [src.rows EXCEPT ![e] = row]
      /\ src'.bindings = src.bindings /\ src'.certs = src.certs
  BY <1>1, <1>6 DEF Source
<1>8. src' \in Source
  <2>1. [src.messages EXCEPT ![e] = m] \in [Enrollments -> Messages]
    BY <1>1, <1>4 DEF Source
  <2>2. [src.rows EXCEPT ![e] = row] \in Rows
    BY <1>1, <1>5 DEF Source, Rows
  <2>3. QED
    BY <1>1, <1>6, <2>1, <2>2 DEF Source
<1>9. /\ src'.messages[e] = m /\ src'.rows[e] = row
      /\ \A x \in Enrollments : x # e =>
            /\ src'.messages[x] = src.messages[x]
            /\ src'.rows[x] = src.rows[x]
  BY <1>1, <1>7 DEF Source, Rows
<1>10. QED
  BY <1>1, <1>2, <1>4, <1>5, <1>7, <1>8, <1>9 DEF route

\* A check-out only disables rows, those of the users of the device too.
LEMMA CheckOutEffect ==
    ASSUME TypeInv, NEW d \in Devices, SourceCheckOut(d)
    PROVE  /\ src' \in Source
           /\ src'.messages = src.messages
           /\ src'.bindings = src.bindings /\ src'.certs = src.certs
           /\ \A x \in Enrollments :
                /\ src'.rows[x].route = src.rows[x].route
                /\ src'.rows[x] = src.rows[x] \/ src'.rows[x].enabled = FALSE
                /\ x \in Users /\ Parent[x] = d => src'.rows[x].enabled = FALSE
                /\ x # d /\ x \notin Users => src'.rows[x] = src.rows[x]
                /\ src.rows[x] = NoRow => src'.rows[x] = NoRow
<1> DEFINE off(r) == [r EXCEPT !.enabled = FALSE]
           rows == [e \in Enrollments |->
                      IF e = d \/ (e \in Users /\ Parent[e] = d)
                      THEN off(src.rows[e]) ELSE src.rows[e]]
<1>1. src \in Source /\ src' = [src EXCEPT !.rows = rows]
  BY TypeParts DEF SourceCheckOut, TypeInv
<1>2. ASSUME NEW r \in {NoRow} \union Row, NEW q, q = off(r)
      PROVE  /\ q \in {NoRow} \union Row
             /\ q.enabled = FALSE /\ q.route = r.route
             /\ r = NoRow => q = NoRow
  <2>1. NoRow.enabled = FALSE /\ off(NoRow).route = NoRow.route
    BY DEF NoRow
  <2>0. off(NoRow) = NoRow
    <3>1. NoRow \in [enabled : BOOLEAN, route : {None}] /\ NoRow.enabled = FALSE
      BY DEF NoRow
    <3>2. QED
      BY <3>1
  <2>2. CASE r \in Row
    <3>1. q \in Row /\ q.enabled = FALSE /\ q.route = r.route
      BY <1>2, <2>2 DEF Row
    <3>2. r # NoRow
      BY <2>2, RoutesType DEF Row, NoRow
    <3>3. QED
      BY <3>1, <3>2
  <2> HIDE DEF off
  <2>3. CASE r = NoRow
    BY <1>2, <2>0, <2>1, <2>3, Zenon
  <2>4. QED
    BY <2>2, <2>3
<1>3. \A e \in Enrollments : src.rows[e] \in {NoRow} \union Row
  BY <1>1 DEF Source, Rows
<1> HIDE DEF off
<1>4. rows \in Rows
  BY <1>2, <1>3 DEF Rows
<1>5. \A e \in Enrollments :
         rows[e] = IF e = d \/ (e \in Users /\ Parent[e] = d)
                   THEN off(src.rows[e]) ELSE src.rows[e]
  OBVIOUS
<1> HIDE DEF rows
<1>6. /\ src'.rows = rows /\ src'.messages = src.messages
      /\ src'.bindings = src.bindings /\ src'.certs = src.certs
      /\ src' \in Source
  BY <1>1, <1>4 DEF Source
<1>7. ASSUME NEW x \in Enrollments
      PROVE  /\ src'.rows[x].route = src.rows[x].route
             /\ src'.rows[x] = src.rows[x] \/ src'.rows[x].enabled = FALSE
             /\ x \in Users /\ Parent[x] = d => src'.rows[x].enabled = FALSE
             /\ x # d /\ x \notin Users => src'.rows[x] = src.rows[x]
             /\ src.rows[x] = NoRow => src'.rows[x] = NoRow
  <2>1. CASE x = d \/ (x \in Users /\ Parent[x] = d)
    <3>1. src'.rows[x] = off(src.rows[x])
      BY <1>5, <1>6, <2>1
    <3>2. QED
      BY <1>2, <1>3, <2>1, <3>1, Zenon
  <2>2. CASE ~(x = d \/ (x \in Users /\ Parent[x] = d))
    <3>1. src'.rows[x] = src.rows[x]
      BY <1>5, <1>6, <2>2
    <3>2. QED
      BY <2>2, <3>1
  <2>3. QED
    BY <2>1, <2>2
<1>8. QED
  BY <1>6, <1>7

\* What a run reads of the source.
LEMMA ReadEffect ==
    ASSUME TypeInv, ReadDevices \/ ReadUsers \/ ReadBindings \/ ReadRows
    PROVE  /\ msgs' \in Read
           /\ \A e \in Enrollments :
                msgs'.messages[e] \in {msgs.messages[e], src.messages[e]}
           /\ ReadDevices => \A e \in Devices : msgs'.messages[e] = src.messages[e]
           /\ ReadUsers => /\ \A e \in Users : msgs'.messages[e] = src.messages[e]
                           /\ \A e \in Devices : msgs'.messages[e] = msgs.messages[e]
           /\ ReadBindings => /\ msgs'.messages = msgs.messages
                              /\ msgs'.bindings = src.bindings
           /\ ReadRows => /\ msgs'.messages = msgs.messages
                          /\ msgs'.bindings = msgs.bindings
                          /\ msgs'.rows = src.rows
<1>1. /\ msgs \in Read
      /\ src.messages \in [Enrollments -> Messages] /\ src.rows \in Rows
      /\ src.bindings \in SUBSET Bindings
  BY TypeParts DEF TypeInv, Source
<1>2. Devices \cap Users = {} /\ Devices \subseteq Enrollments /\ Users \subseteq Enrollments
  BY ImporterAssumption DEF Enrollments
<1>3. ASSUME NEW S \in SUBSET Enrollments,
             msgs' = [msgs EXCEPT !.messages = [e \in Enrollments |->
                        IF e \in S THEN src.messages[e] ELSE msgs.messages[e]]]
      PROVE  /\ msgs' \in Read
             /\ \A e \in Enrollments : msgs'.messages[e] =
                   IF e \in S THEN src.messages[e] ELSE msgs.messages[e]
  <2> DEFINE f == [e \in Enrollments |->
                     IF e \in S THEN src.messages[e] ELSE msgs.messages[e]]
  <2>1. f \in [Enrollments -> Messages] /\ \A e \in Enrollments : f[e] =
           IF e \in S THEN src.messages[e] ELSE msgs.messages[e]
    BY <1>1 DEF Read
  <2>2. msgs' = [msgs EXCEPT !.messages = f]
    BY <1>3
  <2> HIDE DEF f
  <2>3. msgs' \in Read /\ msgs'.messages = f
    BY <1>1, <2>1, <2>2 DEF Read
  <2>4. QED
    BY <2>1, <2>3
<1>4. CASE ReadDevices
  <2>1. phase = "certs"
    BY <1>4 DEF ReadDevices, Advance
  <2>2. msgs' = [msgs EXCEPT !.messages = [e \in Enrollments |->
                   IF e \in Devices THEN src.messages[e] ELSE msgs.messages[e]]]
    BY <1>4 DEF ReadDevices
  <2>3. QED
    BY <1>2, <1>3, <2>1, <2>2 DEF ReadUsers, ReadBindings, ReadRows, Advance
<1>5. CASE ReadUsers
  <2>1. phase = "devices"
    BY <1>5 DEF ReadUsers, Advance
  <2>2. msgs' = [msgs EXCEPT !.messages = [e \in Enrollments |->
                   IF e \in Users THEN src.messages[e] ELSE msgs.messages[e]]]
    BY <1>5 DEF ReadUsers
  <2>3. QED
    BY <1>2, <1>3, <2>1, <2>2 DEF ReadDevices, ReadBindings, ReadRows, Advance
<1>6. CASE ReadBindings
  <2>1. phase = "users" /\ msgs' = [msgs EXCEPT !.bindings = src.bindings]
    BY <1>6 DEF ReadBindings, Advance
  <2>2. /\ msgs' \in Read /\ msgs'.messages = msgs.messages
        /\ msgs'.bindings = src.bindings
    BY <1>1, <2>1 DEF Read
  <2>3. QED
    BY <2>1, <2>2 DEF ReadDevices, ReadUsers, ReadRows, Advance
<1>7. CASE ReadRows
  <2>1. phase = "bindings" /\ msgs' = [msgs EXCEPT !.rows = src.rows]
    BY <1>7 DEF ReadRows
  <2>2. /\ msgs' \in Read /\ msgs'.messages = msgs.messages
        /\ msgs'.bindings = msgs.bindings /\ msgs'.rows = src.rows
    BY <1>1, <2>1 DEF Read
  <2>3. QED
    BY <2>1, <2>2 DEF ReadDevices, ReadUsers, ReadBindings, Advance
<1>8. QED
  BY <1>4, <1>5, <1>6, <1>7

\* What a run writes of the enrollments.
LEMMA ImportDeviceEffect ==
    ASSUME TypeInv, NEW d \in Devices, ImportDevice(d)
    PROVE  /\ dst' \in [Enrollments -> Held]
           /\ opts.dry \/ msgs.messages[d].hello = Bad => dst' = dst
           /\ ~opts.dry /\ msgs.messages[d].hello # Bad =>
                 dst'[d] = Replayed(msgs.messages[d])
           /\ \A x \in Enrollments : x # d => dst'[x] = dst[x]
           /\ devices' \subseteq Devices
<1>1. dst \in [Enrollments -> Held] /\ devices \subseteq Devices
         /\ msgs.messages[d] \in Messages /\ d \in Enrollments
  BY TypeParts DEF TypeInv, Read, Enrollments
<1>2. Replayed(msgs.messages[d]) \in Held
  BY <1>1, ReplayedType
<1>3. QED
  BY <1>1, <1>2 DEF ImportDevice

\* A user that is replayed is enabled with the route of its token.
LEMMA ImportUserEffect ==
    ASSUME TypeInv, NEW u \in Users, ImportUser(u)
    PROVE  /\ dst' \in [Enrollments -> Held]
           /\ opts.dry => dst' = dst
           /\ msgs.messages[u].token \notin Routes => dst' = dst
           /\ ~opts.dry /\ msgs.messages[u].token \in Routes =>
                 dst'[u].route = msgs.messages[u].token /\ dst'[u].enabled = TRUE
           /\ \A x \in Enrollments : x # u => dst'[x] = dst[x]
<1> DEFINE m == msgs.messages[u]
           h == [dst[u] EXCEPT !.route = m.token, !.enabled = TRUE]
<1>1. dst \in [Enrollments -> Held] /\ dst[u] \in Held /\ u \in Enrollments
  BY TypeParts DEF TypeInv, Enrollments
<1>2. dst' = IF opts.dry \/ m.token \notin Routes THEN dst
             ELSE [dst EXCEPT ![u].route = m.token, ![u].enabled = TRUE]
  BY DEF ImportUser
<1>3. CASE opts.dry \/ m.token \notin Routes
  BY <1>1, <1>2, <1>3
<1>4. CASE ~opts.dry /\ m.token \in Routes
  <2>1. h \in Held /\ h.route = m.token /\ h.enabled = TRUE
    BY <1>1, <1>4 DEF Held
  <2>2. dst' = [dst EXCEPT ![u] = h]
    BY <1>1, <1>2, <1>4
  <2> HIDE DEF h
  <2>3. QED
    BY <1>1, <1>4, <2>1, <2>2
<1>5. QED
  BY <1>3, <1>4

\* A disable touches the enrollment and, of a device, its users.
LEMMA DisableEffect ==
    ASSUME TypeInv, NEW e \in Enrollments,
           dst' = [x \in Enrollments |->
                     IF x \in Channels(e) THEN [dst[x] EXCEPT !.enabled = FALSE]
                     ELSE dst[x]]
    PROVE  /\ dst' \in [Enrollments -> Held]
           /\ \A x \in Enrollments :
                /\ dst'[x].route = dst[x].route /\ dst'[x].boot = dst[x].boot
                /\ x \in Channels(e) => dst'[x].enabled = FALSE
                /\ x \notin Channels(e) => dst'[x] = dst[x]
<1> DEFINE off(r) == [r EXCEPT !.enabled = FALSE]
<1>1. \A x \in Enrollments : dst[x] \in Held
  BY TypeParts DEF TypeInv
<1>2. ASSUME NEW r \in Held, NEW q, q = off(r)
      PROVE  q \in Held /\ q.route = r.route /\ q.boot = r.boot /\ q.enabled = FALSE
  BY <1>2 DEF Held
<1>3. dst' = [x \in Enrollments |-> IF x \in Channels(e) THEN off(dst[x]) ELSE dst[x]]
  OBVIOUS
<1> HIDE DEF off
<1>4. \A x \in Enrollments :
         dst'[x] = IF x \in Channels(e) THEN off(dst[x]) ELSE dst[x]
  BY <1>3
<1>5. dst' \in [Enrollments -> Held]
  BY <1>1, <1>2, <1>3
<1>6. ASSUME NEW x \in Enrollments
      PROVE  /\ dst'[x].route = dst[x].route /\ dst'[x].boot = dst[x].boot
             /\ x \in Channels(e) => dst'[x].enabled = FALSE
             /\ x \notin Channels(e) => dst'[x] = dst[x]
  <2>1. CASE x \in Channels(e)
    <3>1. dst'[x] = off(dst[x])
      BY <1>4, <2>1
    <3>2. QED
      BY <1>1, <1>2, <2>1, <3>1, Zenon
  <2>2. CASE x \notin Channels(e)
    BY <1>4, <2>2
  <2>3. QED
    BY <2>1, <2>2
<1>7. QED
  BY <1>5, <1>6

\* A half-done replay leaves typed rows.
LEMMA StopEffect ==
    ASSUME TypeInv, Stop
    PROVE  /\ dst' \in [Enrollments -> Held] /\ devices' \subseteq Devices
           /\ \/ dst' = dst
              \/ \E d \in Devices :
                    /\ phase = "devices" /\ ~opts.dry /\ msgs.messages[d].hello = Good
                    /\ dst'[d] \in Torn(msgs.messages[d], dst[d])
                    /\ \A x \in Enrollments : x # d => dst'[x] = dst[x]
<1>1. dst \in [Enrollments -> Held] /\ devices \subseteq Devices
         /\ \A d \in Devices : d \in Enrollments /\ msgs.messages[d] \in Messages
  BY TypeParts DEF TypeInv, Read, Enrollments
<1>2. CASE UNCHANGED <<dst, devices>>
  BY <1>1, <1>2
<1>3. ASSUME NEW d \in Devices, NEW held \in Torn(msgs.messages[d], dst[d]),
             phase = "devices", ~opts.dry, msgs.messages[d].hello = Good,
             dst' = [dst EXCEPT ![d] = held],
             devices' \in {devices, devices \cup {d}}
      PROVE  /\ dst' \in [Enrollments -> Held] /\ devices' \subseteq Devices
             /\ \E e \in Devices :
                    /\ phase = "devices" /\ ~opts.dry /\ msgs.messages[e].hello = Good
                    /\ dst'[e] \in Torn(msgs.messages[e], dst[e])
                    /\ \A x \in Enrollments : x # e => dst'[x] = dst[x]
  <2>1. held \in Held
    BY <1>1, TornType
  <2>2. dst' \in [Enrollments -> Held] /\ dst'[d] = held
           /\ \A x \in Enrollments : x # d => dst'[x] = dst[x]
    BY <1>1, <1>3, <2>1
  <2>3. QED
    BY <1>1, <1>3, <2>2
<1>4. QED
  BY <1>2, <1>3 DEF Stop

\* The types survive the source's steps.
LEMMA TypeSource ==
    ASSUME TypeInv,
           \/ \E e \in Enrollments : SourceCheckIn(e)
           \/ \E d \in Devices : SourceCheckOut(d)
    PROVE  TypeInv'
<1>1. UNCHANGED <<Destination, phase, opts, todo, msgs, rep, evidence>>
  BY DEF SourceCheckIn, SourceCheckOut
<1>2. src' \in Source
  BY CheckInEffect, CheckOutEffect
<1>3. foretold' = [foretold EXCEPT !.known = FALSE]
  BY DEF SourceCheckIn, SourceCheckOut
<1>4. foretold' \in [known : BOOLEAN, skipped : SUBSET Enrollments]
  BY <1>3, TypeParts DEF TypeInv
<1>5. ghost' \in Ghost
  <2>1. ghost \in Ghost /\ ghost.checkIns + 1 \in Nat /\ Disturb.checkIns = ghost.checkIns
    BY TypeParts DEF TypeInv, Ghost, Disturb
  <2>2. ghost' = [Disturb EXCEPT !.checkIns = ghost.checkIns + 1]
    BY <2>1 DEF SourceCheckIn, SourceCheckOut
  <2>3. Disturb \in Ghost
    BY <2>1, GhostFields DEF Disturb
  <2>4. QED
    BY <2>1, <2>2, <2>3, GhostFields
<1>6. QED
  BY <1>1, <1>2, <1>4, <1>5, TypeParts DEF TypeInv, Destination, TypeOK, Source, Ghost

\* The report and the ghost of the steps that note a skip or a failure.
LEMMA SkipType ==
    ASSUME rep \in Report, NEW e \in Enrollments
    PROVE  Skip(e) \in Report /\ Skip(e).topics = rep.topics
              /\ Skip(e).skipped = rep.skipped \union {e}
              /\ Skip(e).mismatched = rep.mismatched
              /\ Skip(e).undisabled = rep.undisabled
BY DEF Skip, Report

\* Counting a fault leaves the rest of the bookkeeping.
LEMMA FaultCounted ==
    ASSUME NEW g \in Ghost
    PROVE  /\ [g EXCEPT !.faults = @ + 1] \in Ghost
           /\ [g EXCEPT !.faults = @ + 1].run = g.run
           /\ [g EXCEPT !.faults = @ + 1].writer = g.writer
           /\ [g EXCEPT !.faults = @ + 1].disturbed = g.disturbed
<1>1. g.faults + 1 \in Nat
  BY DEF Ghost
<1>2. QED
  BY <1>1 DEF Ghost

\* So does counting one that disturbs the run.
LEMMA DisturbCounted ==
    ASSUME ghost \in Ghost, ghost' = [Disturb EXCEPT !.faults = @ + 1]
    PROVE  /\ ghost' \in Ghost /\ ghost'.disturbed = TRUE
           /\ ghost'.run = ghost.run /\ ghost'.writer = ghost.writer
<1>1. Disturb \in Ghost /\ Disturb.run = ghost.run /\ Disturb.writer = ghost.writer
         /\ Disturb.disturbed = TRUE
  BY DEF Ghost, Disturb
<1> HIDE DEF Disturb
<1>2. QED
  BY <1>1, FaultCounted, Zenon

\* What Begin sets.
LEMMA BeginEffect ==
    ASSUME TypeInv, NEW dry \in BOOLEAN, NEW allowPending \in BOOLEAN,
           NEW force \in BOOLEAN, NEW accepted \in SUBSET Enrollments,
           Begin(dry, allowPending, force, accepted)
    PROVE  /\ phase = "idle" /\ phase' = "certs"
           /\ opts' \in [dry : BOOLEAN, accepted : SUBSET Enrollments]
           /\ opts'.dry = dry
           /\ todo' = {t \in Topics : src.certs[t] # None}
           /\ rep' = EmptyReport /\ msgs' = NothingRead
           /\ ghost' \in Ghost /\ ghost'.run = ghost.run + 1
           /\ ghost'.disturbed = FALSE
           /\ dry => ghost'.writer = ghost.writer
           /\ ~dry => ghost'.writer = ghost.run + 1
           /\ UNCHANGED <<src, Destination, evidence, foretold>>
<1>1. ghost \in Ghost /\ ghost.run \in Nat /\ ghost.writer \in Nat
  BY TypeParts DEF TypeInv, Ghost
<1> DEFINE m == IF dry THEN ghost.writer ELSE ghost.run + 1
           n == ghost.run + 1
<1>2. m \in Nat /\ n \in Nat
  BY <1>1
<1>3. ghost' = [ghost EXCEPT !.run = n, !.disturbed = FALSE, !.writer = m]
  BY <1>1 DEF Begin, Ghost
<1>4. (dry => m = ghost.writer) /\ (~dry => m = ghost.run + 1)
  OBVIOUS
<1> HIDE DEF m
<1>5. ghost' \in Ghost /\ ghost'.run = n /\ ghost'.disturbed = FALSE
         /\ ghost'.writer = m
  BY <1>1, <1>2, <1>3 DEF Ghost
<1>6. opts' = [dry |-> dry, accepted |-> accepted]
  BY DEF Begin
<1>7. /\ opts' \in [dry : BOOLEAN, accepted : SUBSET Enrollments]
      /\ opts'.dry = dry
  BY <1>6
<1>8. /\ phase = "idle" /\ phase' = "certs"
      /\ todo' = {t \in Topics : src.certs[t] # None}
      /\ rep' = EmptyReport /\ msgs' = NothingRead
      /\ UNCHANGED <<src, Destination, evidence, foretold>>
  BY DEF Begin
<1>9. QED
  BY <1>4, <1>5, <1>7, <1>8, Zenon

\* What StoreCert leaves of the run.
LEMMA StoreCertEffect ==
    ASSUME TypeInv, NEW t \in Topics, StoreCert(t)
    PROVE  /\ phase = "certs" /\ phase' \in {"certs", "idle"} /\ t \in todo
           /\ rep' \in Report /\ IsFiniteSet(rep'.topics)
           /\ rep'.skipped = rep.skipped /\ rep'.mismatched = rep.mismatched
           /\ rep'.undisabled = rep.undisabled
           /\ ghost' = ghost
           /\ pushCerts' \subseteq Topics /\ todo' \subseteq todo
           /\ pushCerts' \subseteq pushCerts \union {t}
           /\ phase' = "certs" => todo' = todo \ {t} /\ rep'.topics = rep.topics \union {t}
           /\ UNCHANGED <<src, dst, bindings, listed, devices, opts, msgs,
                          evidence, foretold>>
<1>1. ghost \in Ghost /\ rep \in Report /\ pushCerts \subseteq Topics
  BY TypeParts DEF TypeInv
<1>2. CASE Unusable(t)
  <2>1. [ghost EXCEPT !.disturbed = ghost.disturbed] = ghost
    BY <1>1 DEF Ghost
  <2>2. /\ phase = "certs" /\ phase' = "idle" /\ t \in todo /\ todo' = {}
        /\ UNCHANGED <<rep, pushCerts>>
        /\ ghost' = [ghost EXCEPT !.disturbed = ghost.disturbed]
        /\ UNCHANGED <<src, dst, bindings, listed, devices, opts, msgs,
                       evidence, foretold>>
    BY <1>2, Zenon DEF StoreCert, Ends
  <2>3. ghost' = ghost
    BY <2>1, <2>2, Zenon
  <2>4. QED
    BY <1>1, <2>2, <2>3 DEF TypeInv
<1>3. CASE ~Unusable(t)
  <2>1. /\ phase = "certs" /\ t \in todo /\ todo' = todo \ {t}
        /\ rep' = [rep EXCEPT !.topics = rep.topics \cup {t}]
        /\ pushCerts' = pushCerts \/ pushCerts' = pushCerts \cup {t}
        /\ UNCHANGED <<phase, ghost, src, dst, bindings, listed, devices, opts, msgs,
                       evidence, foretold>>
    BY <1>3 DEF StoreCert
  <2>2. rep.topics \cup {t} \in SUBSET Topics
    BY <1>1 DEF Report
  <2>3. /\ rep' \in Report /\ rep'.topics = rep.topics \union {t}
        /\ rep'.skipped = rep.skipped /\ rep'.mismatched = rep.mismatched
        /\ rep'.undisabled = rep.undisabled
    BY <1>1, <2>1, <2>2 DEF Report
  <2>4. IsFiniteSet(rep'.topics)
    BY <2>3, FS_AddElement DEF TypeInv
  <2>5. QED
    BY <1>1, <2>1, <2>3, <2>4
<1>4. QED
  BY <1>2, <1>3

\* What RecordTopics leaves of the run.
LEMMA RecordTopicsEffect ==
    ASSUME TypeInv, RecordTopics
    PROVE  /\ ghost' \in Ghost /\ listed' \subseteq Topics
           /\ ghost'.run = ghost.run /\ ghost'.writer = ghost.writer
           /\ ~ghost'.disturbed =>
                 /\ ~ghost.disturbed
                 /\ listed' = listed \cup rep.topics
           /\ listed \subseteq listed'
<1>1. PICK failed \in SUBSET rep.topics :
        /\ listed' = listed \cup (rep.topics \ failed)
        /\ ghost' = [ghost EXCEPT !.faults = @ + Cardinality(failed),
                                  !.disturbed = @ \/ failed # {}]
  BY DEF RecordTopics
<1>2. ghost \in Ghost /\ rep.topics \subseteq Topics /\ listed \subseteq Topics
         /\ IsFiniteSet(rep.topics)
  BY TypeParts DEF TypeInv, Report
<1> DEFINE n == ghost.faults + Cardinality(failed)
           b == ghost.disturbed \/ failed # {}
<1>3. n \in Nat
  BY <1>2, FS_Subset, FS_CardinalityType DEF Ghost
<1>4. b \in BOOLEAN /\ (~b => ~ghost.disturbed /\ failed = {})
  BY <1>2 DEF Ghost
<1>5. ghost' = [ghost EXCEPT !.faults = n, !.disturbed = b]
  BY <1>1
<1> HIDE DEF n, b
<1>6. ghost' \in Ghost /\ ghost'.run = ghost.run /\ ghost'.writer = ghost.writer
         /\ ghost'.disturbed = b
  BY <1>2, <1>3, <1>4, <1>5 DEF Ghost
<1>7. b => ghost'.disturbed
  BY <1>6, Zenon
<1>8. QED
  BY <1>1, <1>2, <1>4, <1>6, <1>7

\* Mismatches are enrollments.
LEMMA MismatchesType == TypeOK => Mismatches \subseteq Enrollments
<1> SUFFICES ASSUME TypeOK PROVE Mismatches \subseteq Enrollments
  OBVIOUS
<1>1. msgs.bindings \subseteq Bindings
  BY TypeParts DEF Read
<1>2. \A b \in Bindings : b[1] \in Enrollments
  BY DEF Bindings
<1>3. QED
  BY <1>1, <1>2 DEF Mismatches

\* What Disable leaves of the run, when it fails and when it does not.
LEMMA DisableSteps ==
    ASSUME TypeInv, NEW e \in Enrollments, Disable(e)
    PROVE  /\ phase = "disable" /\ e \in todo /\ todo' = todo \ {e}
           /\ UNCHANGED <<src, bindings, pushCerts, listed, devices, phase, opts,
                          msgs, evidence, foretold>>
           /\ dst' \in [Enrollments -> Held] /\ rep' \in Report /\ ghost' \in Ghost
           /\ rep'.topics = rep.topics /\ rep'.skipped = rep.skipped
           /\ rep'.mismatched = rep.mismatched
           /\ ghost'.run = ghost.run /\ ghost'.writer = ghost.writer
           /\ \/ /\ UNCHANGED <<rep, ghost>>
                 /\ \A x \in Enrollments :
                      /\ dst'[x].route = dst[x].route /\ dst'[x].boot = dst[x].boot
                      /\ x \in Channels(e) => dst'[x].enabled = FALSE
                      /\ x \notin Channels(e) => dst'[x] = dst[x]
              \/ /\ dst' = dst /\ ghost'.disturbed
                 /\ rep'.undisabled = rep.undisabled \union {e}
<1>1. dst \in [Enrollments -> Held] /\ rep \in Report /\ ghost \in Ghost
  BY TypeParts DEF TypeInv
<1>2. /\ phase = "disable" /\ e \in todo /\ todo' = todo \ {e}
      /\ UNCHANGED <<src, bindings, pushCerts, listed, devices, phase, opts,
                     msgs, evidence, foretold>>
  BY DEF Disable
<1>3. CASE /\ UNCHANGED <<rep, ghost>>
           /\ dst' = [x \in Enrollments |->
                       IF x \in Channels(e) THEN [dst[x] EXCEPT !.enabled = FALSE]
                       ELSE dst[x]]
  BY <1>1, <1>2, <1>3, DisableEffect
<1>4. CASE /\ dst' = dst
           /\ rep' = [rep EXCEPT !.undisabled = @ \cup {e}]
           /\ ghost' = [Disturb EXCEPT !.faults = @ + 1]
  <2>1. rep.undisabled \cup {e} \in SUBSET Enrollments
    BY <1>1 DEF Report
  <2>2. /\ rep' \in Report /\ rep'.topics = rep.topics /\ rep'.skipped = rep.skipped
        /\ rep'.mismatched = rep.mismatched
        /\ rep'.undisabled = rep.undisabled \union {e}
    BY <1>1, <1>4, <2>1 DEF Report
  <2>3. ghost' \in Ghost /\ ghost'.disturbed = TRUE /\ ghost'.run = ghost.run
           /\ ghost'.writer = ghost.writer
    BY <1>1, <1>4, DisturbCounted
  <2>4. QED
    BY <1>1, <1>2, <1>4, <2>2, <2>3
<1>5. QED
  BY <1>3, <1>4, Zenon DEF Disable

\* What Verify leaves of the run.
LEMMA VerifySteps ==
    ASSUME TypeInv, Verify
    PROVE  /\ phase = "disable" /\ todo = {} /\ phase' = "topics"
           /\ UNCHANGED <<src, Destination, opts, todo, msgs, evidence, foretold>>
           /\ rep' \in Report /\ ghost' \in Ghost
           /\ rep'.topics = rep.topics /\ rep'.skipped = rep.skipped
           /\ rep'.undisabled = rep.undisabled
           /\ ghost'.run = ghost.run /\ ghost'.writer = ghost.writer
           /\ \/ rep'.mismatched = Mismatches /\ ghost' = ghost
              \/ rep'.mismatched = Enrollments /\ ghost'.disturbed
<1>1. rep \in Report /\ ghost \in Ghost /\ Mismatches \subseteq Enrollments
  BY TypeParts, MismatchesType DEF TypeInv
<1>2. \A S \in SUBSET Enrollments : rep' = [rep EXCEPT !.mismatched = S] =>
         /\ rep' \in Report /\ rep'.mismatched = S
         /\ rep'.topics = rep.topics /\ rep'.skipped = rep.skipped
         /\ rep'.undisabled = rep.undisabled
  BY <1>1 DEF Report
<1>3. /\ phase = "disable" /\ todo = {} /\ phase' = "topics"
      /\ UNCHANGED <<src, Destination, opts, todo, msgs, evidence, foretold>>
  BY DEF Verify
<1>4. CASE rep' = [rep EXCEPT !.mismatched = Mismatches] /\ UNCHANGED ghost
  BY <1>1, <1>2, <1>3, <1>4
<1>5. CASE /\ rep' = [rep EXCEPT !.mismatched = Enrollments]
           /\ ghost' = [Disturb EXCEPT !.faults = @ + 1]
  BY <1>1, <1>2, <1>3, <1>5, DisturbCounted
<1>6. QED
  BY <1>4, <1>5 DEF Verify

\* What a replay leaves of the run's report and bounds.
LEMMA ImportDeviceSteps ==
    ASSUME TypeInv, NEW d \in Devices, ImportDevice(d)
    PROVE  /\ phase = "devices" /\ d \in todo /\ todo' = todo \ {d}
           /\ UNCHANGED <<src, bindings, pushCerts, listed, phase, opts, msgs,
                          evidence, foretold>>
           /\ rep' \in Report /\ ghost' \in Ghost
           /\ rep'.topics = rep.topics /\ rep'.mismatched = rep.mismatched
           /\ rep'.undisabled = rep.undisabled
           /\ rep'.skipped = IF DeviceSkipped(msgs.messages[d])
                             THEN rep.skipped \union {d} ELSE rep.skipped
           /\ ghost'.run = ghost.run /\ ghost'.writer = ghost.writer
           /\ ghost'.disturbed = ghost.disturbed
<1>1. rep \in Report /\ ghost \in Ghost /\ d \in Enrollments
  BY TypeParts DEF TypeInv, Enrollments
<1>2. /\ phase = "devices" /\ d \in todo /\ todo' = todo \ {d}
      /\ UNCHANGED <<src, bindings, pushCerts, listed, phase, opts, msgs,
                     evidence, foretold>>
      /\ rep' = IF DeviceSkipped(msgs.messages[d]) THEN Skip(d) ELSE rep
  BY DEF ImportDevice
<1>3. ghost' = ghost \/ ghost' = [ghost EXCEPT !.faults = @ + 1]
  BY DEF ImportDevice
<1>4. /\ ghost' \in Ghost /\ ghost'.run = ghost.run /\ ghost'.writer = ghost.writer
      /\ ghost'.disturbed = ghost.disturbed
  BY <1>1, <1>3, FaultCounted, Zenon
<1>5. /\ rep' \in Report
      /\ rep'.topics = rep.topics /\ rep'.mismatched = rep.mismatched
      /\ rep'.undisabled = rep.undisabled
      /\ rep'.skipped = IF DeviceSkipped(msgs.messages[d])
                        THEN rep.skipped \union {d} ELSE rep.skipped
  BY <1>1, <1>2, SkipType
<1>6. QED
  BY <1>2, <1>4, <1>5

\* What ImportUser leaves of the run.
LEMMA ImportUserSteps ==
    ASSUME TypeInv, NEW u \in Users, ImportUser(u)
    PROVE  /\ phase = "users" /\ u \in todo /\ todo' = todo \ {u}
           /\ UNCHANGED <<src, bindings, pushCerts, listed, devices, phase, opts,
                          msgs, evidence, foretold, ghost>>
           /\ rep' \in Report
           /\ rep'.topics = rep.topics /\ rep'.mismatched = rep.mismatched
           /\ rep'.undisabled = rep.undisabled
           /\ rep'.skipped =
                IF Undecodable({msgs.messages[u].hello, msgs.messages[u].token})
                THEN rep.skipped \union {u} ELSE rep.skipped
<1>1. rep \in Report /\ u \in Enrollments
  BY TypeParts DEF TypeInv, Enrollments
<1>2. /\ phase = "users" /\ u \in todo /\ todo' = todo \ {u}
      /\ UNCHANGED <<src, bindings, pushCerts, listed, devices, phase, opts,
                     msgs, evidence, foretold, ghost>>
      /\ rep' = IF Undecodable({msgs.messages[u].hello, msgs.messages[u].token})
                THEN Skip(u) ELSE rep
  BY DEF ImportUser
<1>3. QED
  BY <1>1, <1>2, SkipType

\* What an end by a failure or a crash leaves of the run.
LEMMA StopSteps ==
    ASSUME TypeInv, Stop
    PROVE  /\ phase # "idle" /\ phase' = "idle" /\ todo' = {}
           /\ UNCHANGED <<src, bindings, pushCerts, listed, opts, msgs, rep,
                          evidence, foretold>>
           /\ ghost' \in Ghost /\ ghost'.disturbed
           /\ ghost'.run = ghost.run /\ ghost'.writer = ghost.writer
<1>1. ghost \in Ghost
  BY TypeParts DEF TypeInv
<1>2. ghost' = [Disturb EXCEPT !.faults = @ + 1]
  BY DEF Stop
<1>3. QED
  BY <1>1, <1>2, DisturbCounted DEF Stop

\* The source moves nothing of the run or the destination, and disturbs it.
LEMMA SourceSteps ==
    ASSUME TypeInv,
           \/ \E e \in Enrollments : SourceCheckIn(e)
           \/ \E d \in Devices : SourceCheckOut(d)
    PROVE  /\ UNCHANGED <<Destination, phase, opts, todo, msgs, rep, evidence>>
           /\ ghost' \in Ghost /\ ghost'.disturbed
           /\ ghost'.run = ghost.run /\ ghost'.writer = ghost.writer
<1>1. ghost \in Ghost
  BY TypeParts DEF TypeInv
<1>2. Disturb \in Ghost /\ Disturb.disturbed = TRUE
         /\ Disturb.run = ghost.run /\ Disturb.writer = ghost.writer
  BY <1>1 DEF Disturb, Ghost
<1>3. ghost' = [Disturb EXCEPT !.checkIns = @ + 1]
  BY DEF SourceCheckIn, SourceCheckOut
<1> HIDE DEF Disturb
<1>4. /\ ghost' \in Ghost /\ ghost'.disturbed = Disturb.disturbed
      /\ ghost'.run = ghost.run /\ ghost'.writer = ghost.writer
  <2>1. Disturb.checkIns + 1 \in Nat
    BY <1>2 DEF Ghost
  <2>2. QED
    BY <1>2, <1>3, <2>1 DEF Ghost
<1>5. UNCHANGED <<Destination, phase, opts, todo, msgs, rep, evidence>>
  BY DEF SourceCheckIn, SourceCheckOut
<1>6. QED
  BY <1>2, <1>4, <1>5, Zenon

\* The steps that only read the source and go to the next phase.
LEMMA ReadSteps ==
    ASSUME TypeInv, ReadDevices \/ ReadUsers \/ ReadBindings \/ ReadRows
    PROVE  /\ todo = {} /\ UNCHANGED <<src, Destination, opts, rep, evidence, ghost>>
           /\ foretold' \in [known : BOOLEAN, skipped : SUBSET Enrollments]
           /\ todo' \subseteq Enrollments \union Bindings
           /\ \/ ReadDevices /\ phase = "certs" /\ phase' = "devices" /\ todo' = Devices
              \/ ReadUsers /\ phase = "devices" /\ phase' = "users" /\ todo' = Users
              \/ /\ ReadBindings /\ phase = "users" /\ phase' = "bindings"
                 /\ todo' = src.bindings
              \/ ReadRows /\ phase = "bindings" /\ opts.dry /\ phase' = "idle"
              \/ /\ ReadRows /\ phase = "bindings" /\ ~opts.dry /\ phase' = "disable"
                 /\ todo' = {e \in Enrollments :
                                src.rows[e] # NoRow /\ ~src.rows[e].enabled}
<1>1. /\ rep \in Report /\ ghost \in Ghost /\ src.bindings \subseteq Bindings
      /\ foretold \in [known : BOOLEAN, skipped : SUBSET Enrollments]
  BY TypeParts DEF TypeInv, Source
<1>2. [known |-> ~ghost.disturbed, skipped |-> rep.skipped]
         \in [known : BOOLEAN, skipped : SUBSET Enrollments]
  BY <1>1 DEF Report, Ghost
<1>3. CASE ReadDevices \/ ReadUsers \/ ReadBindings
  BY <1>1, <1>3 DEF ReadDevices, ReadUsers, ReadBindings, Advance, Enrollments
<1>4. CASE ReadRows
  <2>1. foretold' = foretold \/
        foretold' = [known |-> ~ghost.disturbed, skipped |-> rep.skipped]
    BY <1>4 DEF ReadRows
  <2>2. foretold' \in [known : BOOLEAN, skipped : SUBSET Enrollments]
    BY <1>1, <1>2, <2>1, Zenon
  <2>3. QED
    BY <1>4, <2>2 DEF ReadRows
<1>5. QED
  BY <1>3, <1>4

\* Every step keeps the types.
LEMMA TypeNext == TypeInv /\ [Next]_vars => TypeInv'
<1> SUFFICES ASSUME TypeInv, [Next]_vars PROVE TypeInv'
  OBVIOUS
<1>1. /\ src \in Source /\ dst \in [Enrollments -> Held]
      /\ bindings \subseteq Bindings
      /\ pushCerts \subseteq Topics /\ listed \subseteq Topics
      /\ devices \subseteq Devices
      /\ phase \in {"idle", "certs", "devices", "users", "bindings",
                    "disable", "topics", "evidence"}
      /\ opts \in [dry : BOOLEAN, accepted : SUBSET Enrollments]
      /\ todo \subseteq Topics \cup Enrollments \cup Bindings
      /\ msgs \in Read /\ rep \in Report
      /\ evidence \in [run : Nat, ok : BOOLEAN, read : Read,
                       skipped : SUBSET Enrollments]
      /\ foretold \in [known : BOOLEAN, skipped : SUBSET Enrollments]
      /\ ghost \in Ghost /\ IsFiniteSet(rep.topics)
  BY TypeParts DEF TypeInv
<1> USE DEF Destination
<1>3. CASE \/ \E e \in Enrollments : SourceCheckIn(e)
           \/ \E d \in Devices : SourceCheckOut(d)
  BY <1>3, TypeSource
<1>4. ASSUME NEW dry \in BOOLEAN, NEW allowPending \in BOOLEAN,
             NEW force \in BOOLEAN, NEW accepted \in SUBSET Enrollments,
             Begin(dry, allowPending, force, accepted)
      PROVE  TypeInv'
  <2>1. EmptyReport.topics = {}
    BY DEF EmptyReport
  <2>2. /\ phase' = "certs"
        /\ opts' \in [dry : BOOLEAN, accepted : SUBSET Enrollments]
        /\ todo' = {t \in Topics : src.certs[t] # None}
        /\ rep' = EmptyReport /\ msgs' = NothingRead
        /\ ghost' \in Ghost
        /\ UNCHANGED <<src, Destination, evidence, foretold>>
    BY <1>4, BeginEffect
  <2>3. IsFiniteSet(rep'.topics)
    BY <2>1, <2>2, FS_EmptySet
  <2>4. msgs' \in Read /\ rep' \in Report
    BY <2>2, NothingReadType
  <2>5. todo' \subseteq Topics \cup Enrollments \cup Bindings
    BY <2>2
  <2>6. QED
    BY <1>1, <2>2, <2>3, <2>4, <2>5 DEF TypeInv, TypeOK, Source, Report, Ghost
<1>5. ASSUME NEW t \in Topics, StoreCert(t)
      PROVE  TypeInv'
  BY <1>1, <1>5, StoreCertEffect DEF TypeInv, TypeOK, Source, Report, Ghost
<1>6. CASE ReadDevices \/ ReadUsers \/ ReadBindings \/ ReadRows
  BY <1>1, <1>6, ReadSteps, ReadEffect DEF TypeInv, TypeOK, Source, Report, Ghost
<1>7. ASSUME NEW d \in Devices, ImportDevice(d) PROVE TypeInv'
  BY <1>1, <1>7, ImportDeviceSteps, ImportDeviceEffect
  DEF TypeInv, TypeOK, Source, Report, Ghost
<1>8. ASSUME NEW u \in Users, ImportUser(u) PROVE TypeInv'
  BY <1>1, <1>8, ImportUserSteps, ImportUserEffect
  DEF TypeInv, TypeOK, Source, Report, Ghost
<1>9. ASSUME NEW b \in Bindings, Associate(b) PROVE TypeInv'
  BY <1>1, <1>9 DEF Associate, Associated, TypeInv, TypeOK, Source, Report, Ghost
<1>10. ASSUME NEW e \in Enrollments, Disable(e) PROVE TypeInv'
  BY <1>1, <1>10, DisableSteps DEF TypeInv, TypeOK, Source, Report, Ghost
<1>11. CASE Verify
  BY <1>1, <1>11, VerifySteps DEF TypeInv, TypeOK, Source, Report, Ghost
<1>12. CASE RecordTopics
  BY <1>1, <1>12, RecordTopicsEffect
  DEF RecordTopics, TypeInv, TypeOK, Source, Report, Ghost
<1>13. CASE WriteEvidence
  <2>1. BuildEvidence \in [run : Nat, ok : BOOLEAN, read : Read,
                           skipped : SUBSET Enrollments]
    <3>1. Ok \in BOOLEAN
      BY DEF Ok
    <3> HIDE DEF Ok
    <3>2. \A b \in BOOLEAN :
            [run |-> ghost.run, ok |-> b, read |-> msgs, skipped |-> rep.skipped]
              \in [run : Nat, ok : BOOLEAN, read : Read, skipped : SUBSET Enrollments]
      BY <1>1 DEF Report, Ghost
    <3>3. QED
      BY <3>1, <3>2, Zenon DEF BuildEvidence
  <2>2. /\ phase' = "idle" /\ evidence' = BuildEvidence
        /\ UNCHANGED <<src, Destination, opts, todo, msgs, rep, foretold, ghost>>
    BY <1>13 DEF WriteEvidence
  <2>3. QED
    BY <1>1, <2>1, <2>2 DEF TypeInv, TypeOK, Source, Report, Ghost
<1>14. CASE Stop
  BY <1>1, <1>14, StopSteps, StopEffect DEF TypeInv, TypeOK, Source, Report, Ghost
<1>15. CASE UNCHANGED vars
  BY <1>1, <1>15 DEF vars, TypeInv, TypeOK, Source, Report, Ghost
<1>16. QED
  BY <1>3, <1>4, <1>5, <1>6, <1>7, <1>8, <1>9, <1>10, <1>11, <1>12, <1>13,
     <1>14, <1>15 DEF Next

\* Every reachable value has its type, whatever the source does meanwhile and
\* wherever a run of `cairn import` ends.
THEOREM TypeCorrect == Spec => []TypeOK
<1>1. TypeInv => TypeOK
  BY DEF TypeInv
<1>2. QED
  BY <1>1, TypeInit, TypeNext, PTL DEF Spec

-----------------------------------------------------------------------------
\* The run that writes is the last one that began.

Wrapping == {"disable", "topics", "evidence"}

RunInv ==
    /\ phase \in Wrapping => ~opts.dry
    /\ evidence.run <= ghost.run
    /\ phase # "idle" => /\ evidence.run < ghost.run
                         /\ ~opts.dry => ghost.writer = ghost.run

\* Every step keeps RunInv.
LEMMA RunNext == TypeInv /\ RunInv /\ [Next]_vars => RunInv'
<1> SUFFICES ASSUME TypeInv, RunInv, [Next]_vars PROVE RunInv'
  OBVIOUS
<1>0. evidence.run \in Nat /\ ghost.run \in Nat /\ ghost.writer \in Nat
  BY TypeParts DEF TypeInv, Ghost
<1> USE DEF RunInv, Wrapping
<1>1. CASE \/ \E e \in Enrollments : SourceCheckIn(e)
           \/ \E d \in Devices : SourceCheckOut(d)
  BY <1>0, <1>1, SourceSteps
<1>2. ASSUME NEW dry \in BOOLEAN, NEW allowPending \in BOOLEAN,
             NEW force \in BOOLEAN, NEW accepted \in SUBSET Enrollments,
             Begin(dry, allowPending, force, accepted)
      PROVE  RunInv'
  <2>1. /\ phase' = "certs" /\ opts'.dry = dry /\ evidence' = evidence
        /\ ghost'.run = ghost.run + 1
        /\ ~dry => ghost'.writer = ghost.run + 1
    BY <1>2, BeginEffect
  <2>2. evidence'.run <= ghost'.run /\ evidence'.run < ghost'.run
    BY <1>0, <2>1
  <2>3. ~opts'.dry => ghost'.writer = ghost'.run
    BY <2>1, Zenon
  <2>4. QED
    BY <2>1, <2>2, <2>3
<1>3. ASSUME NEW t \in Topics, StoreCert(t) PROVE RunInv'
  BY <1>0, <1>3, StoreCertEffect
<1>4. CASE ReadDevices \/ ReadUsers \/ ReadBindings \/ ReadRows
  BY <1>0, <1>4, ReadSteps
<1>5. ASSUME NEW d \in Devices, ImportDevice(d) PROVE RunInv'
  BY <1>0, <1>5, ImportDeviceSteps
<1>6. ASSUME NEW u \in Users, ImportUser(u) PROVE RunInv'
  BY <1>0, <1>6, ImportUserSteps
<1>7. ASSUME NEW b \in Bindings, Associate(b) PROVE RunInv'
  BY <1>0, <1>7 DEF Associate
<1>8. ASSUME NEW e \in Enrollments, Disable(e) PROVE RunInv'
  BY <1>0, <1>8, DisableSteps
<1>9. CASE Verify
  BY <1>0, <1>9, VerifySteps
<1>10. CASE RecordTopics
  BY <1>0, <1>10, RecordTopicsEffect DEF RecordTopics
<1>11. CASE WriteEvidence
  <2>1. phase' = "idle" /\ evidence'.run = ghost.run /\ ghost' = ghost
    BY <1>11 DEF WriteEvidence, BuildEvidence
  <2>2. QED
    BY <1>0, <2>1
<1>12. CASE Stop
  BY <1>0, <1>12, StopSteps
<1>13. CASE UNCHANGED vars
  BY <1>0, <1>13 DEF vars
<1>14. QED
  BY <1>1, <1>2, <1>3, <1>4, <1>5, <1>6, <1>7, <1>8, <1>9, <1>10, <1>11, <1>12,
     <1>13 DEF Next

-----------------------------------------------------------------------------
\* What a run may rely on about the source.

\* A token that decodes is never replaced by one that does not; nothing routes
\* in the destination but what the source sent such a token for; a device
\* whose Authenticate does not decode is never replayed.
SourceInv ==
    /\ Consistent(src.messages, src.rows)
    /\ \A e \in Enrollments :
          /\ msgs.messages[e].token \in Routes => src.messages[e].token \in Routes
          /\ dst[e].route # None \/ dst[e].enabled => src.messages[e].token \in Routes
    /\ \A d \in Devices :
          /\ src.messages[d].hello = Bad => dst[d].route = None
          /\ phase = "devices" => msgs.messages[d].hello = src.messages[d].hello

\* A replayed device, field by field.
LEMMA ReplayedFields ==
    ASSUME NEW m \in Messages
    PROVE  /\ Replayed(m).route = IF m.token \in Routes THEN m.token ELSE None
           /\ Replayed(m).enabled <=> m.token \in Routes
           /\ Replayed(m).boot <=> m.token # Bad /\ m.boot = Good
BY DEF Replayed

\* A replay cut short leaves what was there, or routes and enables only what
\* a token that decodes asked for.
LEMMA TornFields ==
    ASSUME NEW m \in Messages, NEW held \in Held, NEW x \in Torn(m, held)
    PROVE  \/ x = held
           \/ /\ x.route # None \/ x.enabled => m.token \in Routes
<1>1. \/ x \in {held, Nothing}
      \/ \E r \in {None, m.token} \cap (Routes \cup {None}) :
            \E b \in {m.token \in Routes, FALSE} :
               x = [route |-> r, enabled |-> b, boot |-> FALSE]
  BY SMT DEF Torn
<1>2. Nothing.route = None /\ ~Nothing.enabled
  BY DEF Nothing
<1>3. ASSUME NEW r \in {None, m.token} \cap (Routes \cup {None}),
             NEW b \in {m.token \in Routes, FALSE},
             x = [route |-> r, enabled |-> b, boot |-> FALSE]
      PROVE  x.route # None \/ x.enabled => m.token \in Routes
  <2>1. x.route = r /\ x.enabled = b
    BY <1>3
  <2>2. b => m.token \in Routes
    <3>1. \A c \in BOOLEAN : \A y \in {c, FALSE} : y => c
      OBVIOUS
    <3>2. (m.token \in Routes) \in BOOLEAN
      OBVIOUS
    <3>3. QED
      BY <3>1, <3>2, <1>3, Zenon
  <2>3. r # None => m.token \in Routes
    OBVIOUS
  <2>4. QED
    BY <2>1, <2>2, <2>3, Zenon
<1>4. QED
  BY <1>1, <1>2, <1>3, Zenon

\* A case of Consistent, without CASE.
LEMMA ConsistentRows ==
    ASSUME NEW M, NEW R
    PROVE  Consistent(M, R) <=>
             /\ \A e \in Enrollments :
                   /\ M[e].token = Absent => R[e] = NoRow
                   /\ M[e].token = Bad => R[e].route \in {None, 1}
                   /\ M[e].token \notin {Absent, Bad} => R[e].route = M[e].token
             /\ \A u \in Users : R[u].enabled => R[Parent[u]].enabled
<1>1. Absent # Bad
  BY DEF Absent, Bad
<1>2. \A e \in Enrollments :
        (CASE M[e].token = Absent -> R[e] = NoRow
            [] M[e].token = Bad    -> R[e].route \in {None, 1}
            [] OTHER               -> R[e].route = M[e].token)
        <=> /\ M[e].token = Absent => R[e] = NoRow
            /\ M[e].token = Bad => R[e].route \in {None, 1}
            /\ M[e].token \notin {Absent, Bad} => R[e].route = M[e].token
  BY <1>1
<1>3. QED
  BY <1>2 DEF Consistent

\* Every step keeps SourceInv.
LEMMA SourceNext == TypeInv /\ SourceInv /\ [Next]_vars => SourceInv'
<1> SUFFICES ASSUME TypeInv, SourceInv, [Next]_vars PROVE SourceInv'
  OBVIOUS
<1>0. /\ Devices \cap Users = {} /\ Devices \subseteq Enrollments
      /\ Users \subseteq Enrollments
      /\ \A u \in Users : Parent[u] \in Devices
  BY ImporterAssumption DEF Enrollments
<1>1. /\ \A e \in Enrollments : msgs.messages[e] \in Messages /\ dst[e] \in Held
      /\ \A e \in Enrollments : src.messages[e] \in Messages
      /\ \A e \in Enrollments : src.rows[e] \in {NoRow} \union Row
  BY TypeParts DEF TypeInv, Source, Read, Rows
<1>2. SourceInv <=>
        /\ \A e \in Enrollments :
              /\ src.messages[e].token = Absent => src.rows[e] = NoRow
              /\ src.messages[e].token = Bad => src.rows[e].route \in {None, 1}
              /\ src.messages[e].token \notin {Absent, Bad} =>
                    src.rows[e].route = src.messages[e].token
        /\ \A u \in Users : src.rows[u].enabled => src.rows[Parent[u]].enabled
        /\ \A e \in Enrollments :
              /\ msgs.messages[e].token \in Routes => src.messages[e].token \in Routes
              /\ dst[e].route # None \/ dst[e].enabled =>
                    src.messages[e].token \in Routes
        /\ \A d \in Devices :
              /\ src.messages[d].hello = Bad => dst[d].route = None
              /\ phase = "devices" => msgs.messages[d].hello = src.messages[d].hello
  BY ConsistentRows DEF SourceInv
<1> USE DEF Destination
<1>3. ASSUME NEW e \in Enrollments, SourceCheckIn(e) PROVE SourceInv'
  <2> DEFINE route == 2 + ghost.checkIns
  <2>1. /\ route \in Routes
        /\ src.messages[e].token # Absent
        /\ e \in Users => src.rows[Parent[e]].enabled
        /\ src'.messages[e].token = route
        /\ src'.messages[e].hello = src.messages[e].hello
        /\ src'.rows[e].enabled = TRUE /\ src'.rows[e].route = route
        /\ \A x \in Enrollments : x # e =>
              /\ src'.messages[x] = src.messages[x]
              /\ src'.rows[x] = src.rows[x]
        /\ UNCHANGED <<dst, msgs, phase>>
    BY <1>3, CheckInEffect, SourceSteps
  <2> HIDE DEF route
  <2>2. \A x \in Enrollments :
          /\ src'.messages[x].token = Absent => src'.rows[x] = NoRow
          /\ src'.messages[x].token = Bad => src'.rows[x].route \in {None, 1}
          /\ src'.messages[x].token \notin {Absent, Bad} =>
                src'.rows[x].route = src'.messages[x].token
          /\ msgs.messages[x].token \in Routes => src'.messages[x].token \in Routes
          /\ dst[x].route # None \/ dst[x].enabled => src'.messages[x].token \in Routes
          /\ src'.messages[x].hello = src.messages[x].hello
    BY <1>2, <2>1, RoutesType
  <2>3. ASSUME NEW u \in Users, src'.rows[u].enabled PROVE src'.rows[Parent[u]].enabled
    <3>1. CASE u = e
      BY <1>0, <2>1, <3>1
    <3>2. CASE Parent[u] = e
      BY <2>1, <3>2
    <3>3. CASE u # e /\ Parent[u] # e
      BY <1>0, <1>2, <2>1, <2>3, <3>3
    <3>4. QED
      BY <3>1, <3>2, <3>3
  <2>4. QED
    BY <1>0, <1>2, <2>1, <2>2, <2>3, ConsistentRows DEF SourceInv
<1>4. ASSUME NEW d \in Devices, SourceCheckOut(d) PROVE SourceInv'
  <2>1. /\ src'.messages = src.messages
        /\ \A x \in Enrollments :
             /\ src'.rows[x].route = src.rows[x].route
             /\ src'.rows[x] = src.rows[x] \/ src'.rows[x].enabled = FALSE
             /\ x \in Users /\ Parent[x] = d => src'.rows[x].enabled = FALSE
             /\ x # d /\ x \notin Users => src'.rows[x] = src.rows[x]
             /\ src.rows[x] = NoRow => src'.rows[x] = NoRow
        /\ UNCHANGED <<dst, msgs, phase>>
    BY <1>4, CheckOutEffect, SourceSteps
  <2>2. ASSUME NEW u \in Users, src'.rows[u].enabled PROVE src'.rows[Parent[u]].enabled
    <3>1. src'.rows[u] = src.rows[u] /\ Parent[u] # d
      BY <1>0, <2>1, <2>2
    <3>2. src'.rows[Parent[u]] = src.rows[Parent[u]]
      BY <1>0, <2>1, <3>1
    <3>3. QED
      BY <1>2, <2>2, <3>1, <3>2
  <2>3. QED
    BY <1>2, <2>1, <2>2, ConsistentRows DEF SourceInv
<1>5. CASE UNCHANGED <<src, dst, msgs>> /\ (phase' = "devices" => phase = "devices")
  BY <1>5 DEF SourceInv
<1>6. ASSUME NEW dry \in BOOLEAN, NEW allowPending \in BOOLEAN,
             NEW force \in BOOLEAN, NEW accepted \in SUBSET Enrollments,
             Begin(dry, allowPending, force, accepted)
      PROVE  SourceInv'
  <2>1. UNCHANGED <<src, dst>> /\ msgs' = NothingRead /\ phase' = "certs"
    BY <1>6, BeginEffect
  <2>2. \A e \in Enrollments : NothingRead.messages[e].token = Absent
    BY DEF NothingRead
  <2>3. QED
    BY <2>1, <2>2, RoutesType DEF SourceInv
<1>7. CASE ReadDevices \/ ReadUsers \/ ReadBindings \/ ReadRows
  <2>1. UNCHANGED <<src, dst>>
    BY <1>7, ReadSteps
  <2>2. \A e \in Enrollments :
           msgs'.messages[e] = msgs.messages[e] \/ msgs'.messages[e] = src.messages[e]
    BY <1>7, ReadEffect
  <2>3. phase' = "devices" =>
           \A d \in Devices : msgs'.messages[d].hello = src.messages[d].hello
    BY <1>7, ReadSteps, ReadEffect
  <2>4. QED
    BY <2>1, <2>2, <2>3 DEF SourceInv
<1>8. ASSUME NEW d \in Devices, ImportDevice(d) PROVE SourceInv'
  <2>1. /\ phase = "devices" /\ UNCHANGED <<src, msgs, phase>>
        /\ \A x \in Enrollments : x # d => dst'[x] = dst[x]
        /\ dst'[d] = dst[d] \/
              (msgs.messages[d].hello # Bad /\ dst'[d] = Replayed(msgs.messages[d]))
    BY <1>8, ImportDeviceSteps, ImportDeviceEffect
  <2>2. CASE dst'[d] = dst[d]
    <3>1. \A x \in Enrollments : dst'[x] = dst[x]
      BY <2>1, <2>2
    <3>2. QED
      BY <1>0, <2>1, <3>1 DEF SourceInv
  <2>3. CASE msgs.messages[d].hello # Bad /\ dst'[d] = Replayed(msgs.messages[d])
    <3>1. dst'[d].route # None => msgs.messages[d].token \in Routes
      BY <1>0, <1>1, <2>3, ReplayedFields
    <3>2. dst'[d].enabled => msgs.messages[d].token \in Routes
      BY <1>0, <1>1, <2>3, ReplayedFields, Zenon
    <3>3. \A x \in Enrollments :
             dst'[x].route # None \/ dst'[x].enabled => src.messages[x].token \in Routes
      BY <1>0, <2>1, <3>1, <3>2 DEF SourceInv
    <3>4. \A x \in Devices : src.messages[x].hello = Bad => dst'[x].route = None
      BY <1>0, <2>1, <2>3 DEF SourceInv
    <3>5. QED
      BY <2>1, <3>3, <3>4 DEF SourceInv
  <2>4. QED
    BY <2>1, <2>2, <2>3
<1>9. ASSUME NEW u \in Users, ImportUser(u) PROVE SourceInv'
  <2>1. /\ UNCHANGED <<src, msgs, phase>>
        /\ \A x \in Enrollments : x # u => dst'[x] = dst[x]
        /\ dst' = dst \/ msgs.messages[u].token \in Routes
    BY <1>9, ImportUserSteps, ImportUserEffect
  <2>2. QED
    BY <1>0, <2>1 DEF SourceInv
<1>10. ASSUME NEW e \in Enrollments, Disable(e) PROVE SourceInv'
  <2>1. /\ UNCHANGED <<src, msgs, phase>>
        /\ \A x \in Enrollments :
             /\ dst'[x].route = dst[x].route
             /\ dst'[x].enabled => dst[x].enabled
    BY <1>10, DisableSteps
  <2>2. QED
    BY <1>0, <2>1 DEF SourceInv
<1>11. CASE Stop
  <2>1. UNCHANGED <<src, msgs>> /\ phase' = "idle"
    BY <1>11, StopSteps
  <2>2. ASSUME NEW d \in Devices, phase = "devices", msgs.messages[d].hello = Good,
               dst'[d] \in Torn(msgs.messages[d], dst[d]),
               \A x \in Enrollments : x # d => dst'[x] = dst[x]
        PROVE  SourceInv'
    <3>1. \/ dst'[d] = dst[d]
          \/ dst'[d].route # None \/ dst'[d].enabled => msgs.messages[d].token \in Routes
      BY <1>0, <1>1, <2>2, TornFields
    <3>2. Good # Bad
      BY DEF Good, Bad
    <3>3. src.messages[d].hello # Bad
      BY <2>2, <3>2 DEF SourceInv
    <3>4. \A x \in Enrollments :
             dst'[x].route # None \/ dst'[x].enabled => src.messages[x].token \in Routes
      BY <1>0, <2>2, <3>1 DEF SourceInv
    <3>5. \A x \in Devices : src.messages[x].hello = Bad => dst'[x].route = None
      BY <1>0, <2>2, <3>3 DEF SourceInv
    <3>6. QED
      BY <2>1, <3>4, <3>5 DEF SourceInv
  <2>3. QED
    BY <1>5, <1>11, <2>1, <2>2, StopEffect
<1>12. CASE \E t \in Topics : StoreCert(t)
  BY <1>5, <1>12, StoreCertEffect
<1>13. CASE \/ \E b \in Bindings : Associate(b)
            \/ Verify \/ RecordTopics \/ WriteEvidence
  BY <1>5, <1>13 DEF Associate, Verify, RecordTopics, WriteEvidence
<1>14. CASE UNCHANGED vars
  BY <1>5, <1>14 DEF vars
<1>15. QED
  BY <1>3, <1>4, <1>6, <1>7, <1>8, <1>9, <1>10, <1>11, <1>12, <1>13, <1>14
  DEF Next

-----------------------------------------------------------------------------
\* What a run that writes has done, and what it still has to do.

\* A step outside the phases that follow "certs", or one of the steps of those.
LEMMA RunMoves ==
    ASSUME TypeInv, [Next]_vars
    PROVE  \/ phase' \in {"idle", "certs"}
           \/ UNCHANGED <<Destination, phase, opts, todo, msgs, rep>>
           \/ ReadDevices \/ ReadUsers \/ ReadBindings
           \/ ReadRows /\ ~opts.dry /\ phase' = "disable"
           \/ \E d \in Devices : ImportDevice(d)
           \/ \E u \in Users : ImportUser(u)
           \/ \E b \in Bindings : Associate(b)
           \/ \E e \in Enrollments : Disable(e)
           \/ Verify \/ RecordTopics
<1>1. CASE \/ \E e \in Enrollments : SourceCheckIn(e)
           \/ \E d \in Devices : SourceCheckOut(d)
  BY <1>1, SourceSteps
<1>2. CASE \E dry, allowPending, force \in BOOLEAN, accepted \in SUBSET Enrollments :
              Begin(dry, allowPending, force, accepted)
  BY <1>2 DEF Begin
<1>3. CASE \E t \in Topics : StoreCert(t)
  BY <1>3, StoreCertEffect
<1>4. CASE ReadRows
  BY <1>4, ReadSteps DEF ReadRows
<1>5. CASE WriteEvidence \/ Stop
  BY <1>5 DEF WriteEvidence, Stop
<1>6. CASE UNCHANGED vars
  BY <1>6 DEF vars, Destination
<1>7. QED
  BY <1>1, <1>2, <1>3, <1>4, <1>5, <1>6 DEF Next

\* The run is through with what it had to replay of e.
Done(e) == \/ phase = "devices" /\ e \in Devices \ todo
           \/ phase = "users" /\ e \notin todo
           \/ phase \in {"bindings"} \union Wrapping

\* The run leaves e enabled if it routes.
Wanted(e) == phase \in Wrapping => msgs.rows[e].enabled

\* A channel that was replayed is enabled if it routes, and a device has the
\* bootstrap token that was read unless it was skipped.  A user that routes
\* from an earlier run is replayed.
ReplayInv ==
    /\ phase = "devices" => todo \subseteq Devices
    /\ phase = "users" => todo \subseteq Users
    /\ phase \in {"devices", "users", "bindings"} \union Wrapping /\ ~opts.dry =>
        \A e \in Enrollments :
          /\ Done(e) /\ Wanted(e) /\ dst[e].route # None => dst[e].enabled
          /\ phase = "users" /\ e \in Users /\ dst[e].route # None =>
                msgs.messages[e].token \in Routes
          /\ e \in Devices /\ Done(e) /\ e \notin rep.skipped
                /\ msgs.messages[e].boot = Good => dst[e].boot

\* An enrollment the source has not enabled is still to be disabled, has been
\* reported, or is disabled; an enabled one is not to be disabled.
DisableInv ==
    phase \in Wrapping =>
        /\ \A u \in Users : msgs.rows[u].enabled => msgs.rows[Parent[u]].enabled
        /\ phase = "disable" =>
              \A e \in todo : e \in Enrollments /\ ~msgs.rows[e].enabled
        /\ \A e \in Enrollments :
              \/ msgs.rows[e].enabled
              \/ phase = "disable" /\ e \in todo
              \/ e \in rep.undisabled
              \/ ~dst[e].enabled

\* A disable does not reach an enrollment that was read as enabled.
LEMMA ChannelsEnabled ==
    ASSUME TypeInv, DisableInv, NEW x \in Enrollments, Disable(x),
           NEW e \in Enrollments, msgs.rows[e].enabled
    PROVE  e \notin Channels(x)
<1>1. phase = "disable" /\ x \in todo
  BY DEF Disable
<1>2. ~msgs.rows[x].enabled
  BY <1>1 DEF DisableInv, Wrapping
<1>3. QED
  BY <1>1, <1>2 DEF DisableInv, Wrapping, Channels

\* Every step keeps DisableInv.
LEMMA DisableNext ==
    TypeInv /\ SourceInv /\ DisableInv /\ [Next]_vars => DisableInv'
<1> SUFFICES ASSUME TypeInv, SourceInv, DisableInv, [Next]_vars PROVE DisableInv'
  OBVIOUS
<1> USE DEF Wrapping
<1>0. /\ Users \subseteq Enrollments
      /\ \A e \in Enrollments : src.rows[e] \in {NoRow} \union Row
  BY TypeParts DEF TypeInv, Source, Rows, Enrollments
<1>1. CASE phase' \in {"idle", "certs"}
  BY <1>1 DEF DisableInv
<1>2. CASE UNCHANGED <<Destination, phase, opts, todo, msgs, rep>>
  BY <1>2 DEF DisableInv, Destination
<1>3. CASE ReadDevices \/ ReadUsers \/ ReadBindings
  BY <1>3 DEF DisableInv, ReadDevices, ReadUsers, ReadBindings, Advance
<1>4. CASE ReadRows /\ ~opts.dry /\ phase' = "disable"
  <2>1. /\ msgs'.rows = src.rows /\ dst' = dst /\ rep' = rep
        /\ todo' = {e \in Enrollments : src.rows[e] # NoRow /\ ~src.rows[e].enabled}
    BY <1>4, ReadEffect, ReadSteps DEF Destination, ReadRows
  <2>2. \A u \in Users : src.rows[u].enabled => src.rows[Parent[u]].enabled
    BY ConsistentRows DEF SourceInv
  <2>3. ASSUME NEW e \in Enrollments, src.rows[e] = NoRow
        PROVE  ~dst[e].enabled
    <3>1. src.rows[e].route = None
      BY <2>3 DEF NoRow
    <3>2. src.messages[e].token \notin {Absent, Bad} =>
             src.rows[e].route = src.messages[e].token
      BY ConsistentRows DEF SourceInv
    <3>3. src.messages[e].token \notin Routes
      BY <3>1, <3>2, RoutesType
    <3>4. QED
      BY <3>3 DEF SourceInv
  <2>4. QED
    BY <1>4, <2>1, <2>2, <2>3 DEF DisableInv
<1>5. CASE \/ \E d \in Devices : ImportDevice(d)
           \/ \E u \in Users : ImportUser(u)
           \/ \E b \in Bindings : Associate(b)
  BY <1>5 DEF DisableInv, ImportDevice, ImportUser, Associate
<1>6. ASSUME NEW x \in Enrollments, Disable(x) PROVE DisableInv'
  <2>1. /\ phase = "disable" /\ phase' = "disable" /\ todo' = todo \ {x}
        /\ msgs' = msgs
    BY <1>6, DisableSteps
  <2>2. \A e \in Enrollments : dst'[e].enabled => dst[e].enabled
    BY <1>6, DisableSteps
  <2>3. rep.undisabled \subseteq rep'.undisabled
           /\ (x \in rep'.undisabled \/ ~dst'[x].enabled)
    BY <1>6, DisableSteps DEF Channels
  <2>4. QED
    BY <2>1, <2>2, <2>3 DEF DisableInv
<1>7. CASE Verify
  BY <1>7, VerifySteps DEF DisableInv, Destination
<1>8. CASE RecordTopics
  BY <1>8 DEF DisableInv, RecordTopics
<1>9. QED
  BY <1>1, <1>2, <1>3, <1>4, <1>5, <1>6, <1>7, <1>8, RunMoves

\* Every step keeps ReplayInv.
LEMMA ReplayNext ==
    TypeInv /\ SourceInv /\ DisableInv /\ ReplayInv /\ [Next]_vars => ReplayInv'
<1> SUFFICES ASSUME TypeInv, SourceInv, DisableInv, ReplayInv, [Next]_vars
             PROVE  ReplayInv'
  OBVIOUS
<1> USE DEF Wrapping, Done, Wanted
<1>0. /\ Devices \cap Users = {} /\ Enrollments = Devices \union Users
      /\ \A e \in Enrollments : msgs.messages[e] \in Messages
  BY ImporterAssumption, TypeParts DEF TypeInv, Read, Enrollments
<1>1. CASE phase' \in {"idle", "certs"}
  BY <1>1 DEF ReplayInv
<1>2. CASE UNCHANGED <<Destination, phase, opts, todo, msgs, rep>>
  BY <1>2 DEF ReplayInv, Destination
<1>3. CASE ReadDevices
  <2>1. phase' = "devices" /\ todo' = Devices
    BY <1>3 DEF ReadDevices, Advance
  <2>2. QED
    BY <1>0, <2>1 DEF ReplayInv
<1>4. CASE ReadUsers
  <2>1. /\ phase = "devices" /\ todo = {} /\ phase' = "users" /\ todo' = Users
        /\ UNCHANGED <<src, dst, opts, rep>>
    BY <1>4 DEF ReadUsers, Advance, Destination
  <2>2. /\ \A e \in Users : msgs'.messages[e] = src.messages[e]
        /\ \A e \in Devices : msgs'.messages[e] = msgs.messages[e]
    BY <1>4, ReadEffect
  <2>3. \A e \in Users : dst[e].route # None => msgs'.messages[e].token \in Routes
    BY <1>0, <2>2 DEF SourceInv
  <2>4. QED
    BY <1>0, <2>1, <2>2, <2>3 DEF ReplayInv
<1>5. CASE ReadBindings
  <2>1. /\ phase = "users" /\ todo = {} /\ phase' = "bindings"
        /\ UNCHANGED <<dst, opts, rep>> /\ msgs'.messages = msgs.messages
    BY <1>5, ReadEffect DEF ReadBindings, Advance, Destination
  <2>2. QED
    BY <1>0, <2>1 DEF ReplayInv
<1>6. CASE ReadRows /\ ~opts.dry /\ phase' = "disable"
  <2>1. /\ phase = "bindings" /\ UNCHANGED <<dst, opts, rep>>
        /\ msgs'.messages = msgs.messages
    BY <1>6, ReadEffect DEF ReadRows, Destination
  <2>2. QED
    BY <1>0, <1>6, <2>1 DEF ReplayInv
<1>7. ASSUME NEW d \in Devices, ImportDevice(d) PROVE ReplayInv'
  <2>1. /\ phase = "devices" /\ d \in todo /\ todo' = todo \ {d}
        /\ UNCHANGED <<src, phase, opts, msgs>>
        /\ \A x \in Enrollments : x # d => dst'[x] = dst[x]
        /\ rep'.skipped = IF DeviceSkipped(msgs.messages[d])
                          THEN rep.skipped \union {d} ELSE rep.skipped
    BY <1>7, ImportDeviceSteps, ImportDeviceEffect
  <2>2. ASSUME ~opts.dry, dst'[d].route # None PROVE dst'[d].enabled
    <3>1. CASE msgs.messages[d].hello = Bad
      BY <1>0, <1>7, <2>1, <2>2, <3>1, ImportDeviceEffect DEF SourceInv
    <3>2. CASE msgs.messages[d].hello # Bad
      <4>1. dst'[d] = Replayed(msgs.messages[d])
        BY <1>7, <2>2, <3>2, ImportDeviceEffect
      <4>2. msgs.messages[d].token \in Routes
        BY <1>0, <2>2, <4>1, ReplayedFields
      <4>3. QED
        BY <1>0, <4>1, <4>2, ReplayedFields, Zenon
    <3>3. QED
      BY <3>1, <3>2
  <2>3. ASSUME ~opts.dry, d \notin rep'.skipped, msgs.messages[d].boot = Good
        PROVE  dst'[d].boot
    <3>1. ~DeviceSkipped(msgs.messages[d])
      BY <2>1, <2>3
    <3>2. msgs.messages[d].hello # Bad /\ msgs.messages[d].token # Bad
      BY <3>1 DEF DeviceSkipped, Undecodable
    <3>3. dst'[d] = Replayed(msgs.messages[d])
      BY <1>7, <2>3, <3>2, ImportDeviceEffect
    <3>4. msgs.messages[d] \in Messages
      BY <1>0
    <3>5. Replayed(msgs.messages[d]).boot
      BY <2>3, <3>2, <3>4, ReplayedFields, Zenon
    <3>6. QED
      BY <3>3, <3>5, Zenon
  <2>4. ASSUME ~opts.dry, NEW e \in Enrollments, Done(e)'
        PROVE  /\ dst'[e].route # None => dst'[e].enabled
               /\ e \notin rep'.skipped /\ msgs.messages[e].boot = Good => dst'[e].boot
    <3>1. CASE e = d
      BY <2>2, <2>3, <2>4, <3>1
    <3>2. CASE e # d
      <4>1. dst'[e] = dst[e] /\ e \in Devices \ todo
        BY <2>1, <2>4, <3>2
      <4>2. rep.skipped \subseteq rep'.skipped
        BY <2>1
      <4>3. QED
        BY <2>1, <2>4, <4>1, <4>2 DEF ReplayInv
    <3>3. QED
      BY <3>1, <3>2
  <2>5. todo' \subseteq Devices
    BY <2>1 DEF ReplayInv
  <2>6. QED
    BY <2>1, <2>4, <2>5 DEF ReplayInv
<1>8. ASSUME NEW u \in Users, ImportUser(u) PROVE ReplayInv'
  <2>1. /\ phase = "users" /\ u \in todo /\ todo' = todo \ {u}
        /\ UNCHANGED <<phase, opts, msgs>>
        /\ \A x \in Enrollments : x # u => dst'[x] = dst[x]
        /\ rep.skipped \subseteq rep'.skipped
    BY <1>8, ImportUserSteps, ImportUserEffect
  <2>2. ASSUME ~opts.dry, dst'[u].route # None
        PROVE  dst'[u].enabled /\ msgs.messages[u].token \in Routes
    <3>1. CASE msgs.messages[u].token \in Routes
      BY <1>8, <2>2, <3>1, ImportUserEffect, Zenon
    <3>2. CASE msgs.messages[u].token \notin Routes
      BY <1>0, <1>8, <2>1, <2>2, <3>2, ImportUserEffect DEF ReplayInv
    <3>3. QED
      BY <3>1, <3>2
  <2>3. todo' \subseteq Users
    BY <2>1 DEF ReplayInv
  <2>4. ASSUME ~opts.dry, NEW e \in Enrollments
        PROVE  /\ e \notin todo' /\ dst'[e].route # None => dst'[e].enabled
               /\ e \in Users /\ dst'[e].route # None => msgs.messages[e].token \in Routes
               /\ e \in Devices /\ e \notin rep'.skipped
                    /\ msgs.messages[e].boot = Good => dst'[e].boot
    <3>1. CASE e = u
      BY <1>0, <2>2, <2>4, <3>1
    <3>2. CASE e # u
      <4>1. dst'[e] = dst[e] /\ (e \notin todo' => e \notin todo)
        BY <2>1, <3>2
      <4>2. e \in Devices => e \notin todo
        BY <1>0, <2>1 DEF ReplayInv
      <4>3. QED
        BY <2>1, <2>4, <4>1, <4>2 DEF ReplayInv
    <3>3. QED
      BY <3>1, <3>2
  <2>5. QED
    BY <2>1, <2>3, <2>4 DEF ReplayInv
<1>9. ASSUME NEW b \in Bindings, Associate(b) PROVE ReplayInv'
  <2>1. phase = "bindings" /\ UNCHANGED <<dst, phase, opts, msgs, rep>>
    BY <1>9 DEF Associate
  <2>2. QED
    BY <2>1 DEF ReplayInv
<1>10. ASSUME NEW x \in Enrollments, Disable(x) PROVE ReplayInv'
  <2>1. /\ phase = "disable" /\ UNCHANGED <<phase, opts, msgs>>
        /\ rep'.skipped = rep.skipped
    BY <1>10, DisableSteps
  <2>2. \A e \in Enrollments :
           /\ dst'[e].boot = dst[e].boot
           /\ msgs.rows[e].enabled => dst'[e] = dst[e]
    BY <1>10, DisableSteps, ChannelsEnabled
  <2>3. \A e \in Enrollments : dst[e].boot => dst'[e].boot
    BY <2>2, Zenon
  <2>4. QED
    BY <2>1, <2>2, <2>3 DEF ReplayInv
<1>11. CASE Verify
  <2>1. /\ phase = "disable" /\ phase' = "topics" /\ UNCHANGED <<dst, opts, msgs>>
        /\ rep'.skipped = rep.skipped
    BY <1>11, VerifySteps DEF Destination
  <2>2. QED
    BY <2>1 DEF ReplayInv
<1>12. CASE RecordTopics
  <2>1. /\ phase = "topics" /\ phase' = "evidence" /\ UNCHANGED <<dst, opts, msgs, rep>>
    BY <1>12 DEF RecordTopics
  <2>2. QED
    BY <2>1 DEF ReplayInv
<1>13. QED
  BY <1>1, <1>2, <1>3, <1>4, <1>5, <1>6, <1>7, <1>8, <1>9, <1>10, <1>11, <1>12,
     RunMoves

-----------------------------------------------------------------------------
\* The evidence.

\* A report without mismatches is true until the run ends.
VerifyInv ==
    phase \in {"topics", "evidence"} /\ rep.mismatched = {} => Mismatches = {}

\* Every step keeps VerifyInv.
LEMMA VerifyNext == TypeInv /\ VerifyInv /\ [Next]_vars => VerifyInv'
<1> SUFFICES ASSUME TypeInv, VerifyInv, [Next]_vars PROVE VerifyInv'
  OBVIOUS
<1>1. CASE Verify
  <2>1. Mismatches' = Mismatches
    BY <1>1, VerifySteps DEF Mismatches, Destination
  <2>2. Mismatches \subseteq Enrollments
    BY MismatchesType DEF TypeInv
  <2>3. QED
    BY <1>1, <2>1, <2>2, VerifySteps DEF VerifyInv
<1>2. CASE RecordTopics \/ UNCHANGED <<Destination, phase, opts, todo, msgs, rep>>
  <2>1. /\ Mismatches' = Mismatches /\ rep' = rep
        /\ phase' \in {"topics", "evidence"} => phase \in {"topics", "evidence"}
    BY <1>2 DEF RecordTopics, Mismatches, Destination
  <2>2. QED
    BY <2>1 DEF VerifyInv
<1>3. CASE phase' \notin {"topics", "evidence"}
  BY <1>3 DEF VerifyInv
<1>4. CASE \/ ReadDevices \/ ReadUsers \/ ReadBindings
           \/ ReadRows /\ ~opts.dry /\ phase' = "disable"
           \/ \E d \in Devices : ImportDevice(d)
           \/ \E u \in Users : ImportUser(u)
           \/ \E b \in Bindings : Associate(b)
           \/ \E e \in Enrollments : Disable(e)
  <2>1. phase' \notin {"topics", "evidence"}
    BY <1>4 DEF ReadDevices, ReadUsers, ReadBindings, Advance, ImportDevice,
                ImportUser, Associate, Disable
  <2>2. QED
    BY <1>3, <2>1
<1>5. QED
  BY <1>1, <1>2, <1>3, <1>4, RunMoves

\* What evidence that says ok promises of the destination.
Delivered(read, skipped) ==
    /\ \A e \in Enrollments :
          /\ dst[e].enabled = read.rows[e].enabled
          /\ read.rows[e].enabled => dst[e].route = read.rows[e].route
    /\ read.bindings \subseteq bindings
    /\ \A d \in Devices \ skipped :
          read.messages[d].boot = Good => dst[d].boot

\* A run whose verdict is ok has delivered what it read.
LEMMA OkDelivers ==
    ASSUME TypeInv, RunInv, ReplayInv, DisableInv, VerifyInv,
           phase = "evidence", Ok
    PROVE  Delivered(msgs, rep.skipped)
<1>1. /\ Mismatches = {} /\ rep.undisabled = {} /\ ~opts.dry
  BY DEF VerifyInv, Ok, RunInv, Wrapping
<1>2. /\ \A e \in Enrollments : msgs.rows[e] \in {NoRow} \union Row
      /\ \A e \in Enrollments : dst[e] \in Held
      /\ Devices \subseteq Enrollments
      /\ msgs.bindings \subseteq Bindings
  BY TypeParts DEF TypeInv, Read, Rows, Enrollments
<1>3. ASSUME NEW e \in Enrollments
      PROVE  /\ dst[e].enabled <=> msgs.rows[e].enabled
             /\ msgs.rows[e].enabled => dst[e].route = msgs.rows[e].route
  <2>1. msgs.rows[e].enabled => dst[e].route = msgs.rows[e].route
    BY <1>1 DEF Mismatches
  <2>2. msgs.rows[e].enabled => msgs.rows[e].route \in Routes
    <3>1. CASE msgs.rows[e] = NoRow
      <4>1. NoRow.enabled = FALSE
        BY DEF NoRow
      <4>2. QED
        BY <3>1, <4>1, Zenon
    <3>2. CASE msgs.rows[e] \in Row
      BY <3>2 DEF Row
    <3>3. QED
      BY <1>2, <3>1, <3>2
  <2>3. msgs.rows[e].enabled => dst[e].enabled
    BY <1>1, <2>1, <2>2, RoutesType DEF ReplayInv, Done, Wanted, Wrapping
  <2>4. ~msgs.rows[e].enabled => ~dst[e].enabled
    BY <1>1 DEF DisableInv, Wrapping
  <2>5. QED
    BY <2>1, <2>3, <2>4
<1>4. \A e \in Enrollments : dst[e].enabled = msgs.rows[e].enabled
  <2> SUFFICES ASSUME NEW e \in Enrollments
               PROVE  dst[e].enabled = msgs.rows[e].enabled
    OBVIOUS
  <2>1. dst[e].enabled \in BOOLEAN
    BY <1>2 DEF Held
  <2>2. msgs.rows[e].enabled \in BOOLEAN
    <3>1. NoRow.enabled \in BOOLEAN
      BY DEF NoRow
    <3>2. \A r \in Row : r.enabled \in BOOLEAN
      BY DEF Row
    <3>3. msgs.rows[e] = NoRow \/ msgs.rows[e] \in Row
      BY <1>2
    <3>4. QED
      BY <3>1, <3>2, <3>3, Zenon
  <2>3. \A p, q \in BOOLEAN : (p <=> q) => p = q
    OBVIOUS
  <2>4. QED
    BY <1>3, <2>1, <2>2, <2>3, Zenon
<1>5. msgs.bindings \subseteq bindings
  BY <1>1 DEF Mismatches
<1>6. \A d \in Devices \ rep.skipped : msgs.messages[d].boot = Good => dst[d].boot
  BY <1>1, <1>2 DEF ReplayInv, Done, Wrapping
<1>7. QED
  BY <1>3, <1>4, <1>5, <1>6, Zenon DEF Delivered

\* Every step keeps the promise of the evidence: it is of another run, or
\* nothing it is about moves, or WriteEvidence has just made it.
LEMMA HonestNext ==
    /\ TypeInv /\ RunInv /\ ReplayInv /\ DisableInv /\ VerifyInv
    /\ EvidenceHonest /\ [Next]_vars
    => EvidenceHonest'
<1> SUFFICES ASSUME TypeInv, RunInv, ReplayInv, DisableInv, VerifyInv,
                    EvidenceHonest, [Next]_vars
             PROVE  EvidenceHonest'
  OBVIOUS
<1>0. evidence.run \in Nat /\ ghost.run \in Nat /\ ghost.writer \in Nat
  BY TypeParts DEF TypeInv, Ghost
\* Nothing moves that the promise is about, or the promise is of another run.
<1>1. ASSUME evidence' = evidence, ghost'.writer = ghost.writer,
             UNCHANGED <<dst, bindings>>
      PROVE  EvidenceHonest'
  BY <1>1 DEF EvidenceHonest
<1>2. ASSUME evidence' = evidence, ghost'.writer = ghost.writer,
             phase # "idle", ~opts.dry
      PROVE  EvidenceHonest'
  BY <1>0, <1>2 DEF EvidenceHonest, RunInv
<1>3. CASE \/ \E e \in Enrollments : SourceCheckIn(e)
           \/ \E d \in Devices : SourceCheckOut(d)
  BY <1>1, <1>3, SourceSteps DEF Destination
<1>4. ASSUME NEW dry \in BOOLEAN, NEW allowPending \in BOOLEAN,
             NEW force \in BOOLEAN, NEW accepted \in SUBSET Enrollments,
             Begin(dry, allowPending, force, accepted)
      PROVE  EvidenceHonest'
  <2>1. /\ evidence' = evidence /\ UNCHANGED <<dst, bindings>>
        /\ dry => ghost'.writer = ghost.writer
        /\ ~dry => ghost'.writer = ghost.run + 1
    BY <1>4, BeginEffect DEF Destination
  <2>2. CASE dry
    BY <1>1, <2>1, <2>2
  <2>3. CASE ~dry
    BY <1>0, <2>1, <2>3 DEF EvidenceHonest, RunInv
  <2>4. QED
    BY <2>2, <2>3
<1>5. ASSUME NEW t \in Topics, StoreCert(t) PROVE EvidenceHonest'
  BY <1>1, <1>5, StoreCertEffect
<1>6. CASE ReadDevices \/ ReadUsers \/ ReadBindings \/ ReadRows
  BY <1>1, <1>6, ReadSteps DEF Destination
<1>7. ASSUME NEW d \in Devices, ImportDevice(d) PROVE EvidenceHonest'
  <2>1. /\ phase # "idle" /\ evidence' = evidence /\ bindings' = bindings
        /\ ghost'.writer = ghost.writer
        /\ opts.dry => dst' = dst
    BY <1>7, ImportDeviceSteps, ImportDeviceEffect
  <2>2. QED
    BY <1>1, <1>2, <2>1
<1>8. ASSUME NEW u \in Users, ImportUser(u) PROVE EvidenceHonest'
  <2>1. /\ phase # "idle" /\ evidence' = evidence /\ bindings' = bindings
        /\ ghost' = ghost
        /\ opts.dry => dst' = dst
    BY <1>8, ImportUserSteps, ImportUserEffect
  <2>2. QED
    BY <1>1, <1>2, <2>1
<1>9. ASSUME NEW b \in Bindings, Associate(b) PROVE EvidenceHonest'
  <2>1. /\ phase # "idle" /\ evidence' = evidence /\ dst' = dst /\ ghost' = ghost
        /\ opts.dry => bindings' = bindings
    BY <1>9 DEF Associate
  <2>2. QED
    BY <1>1, <1>2, <2>1
<1>10. ASSUME NEW e \in Enrollments, Disable(e) PROVE EvidenceHonest'
  <2>1. /\ phase = "disable" /\ evidence' = evidence
        /\ ghost'.writer = ghost.writer
    BY <1>10, DisableSteps
  <2>2. QED
    BY <1>2, <2>1 DEF RunInv, Wrapping
<1>11. CASE Verify
  BY <1>1, <1>11, VerifySteps DEF Destination
<1>12. CASE RecordTopics
  BY <1>1, <1>12, RecordTopicsEffect DEF RecordTopics
<1>13. CASE WriteEvidence
  <2>1. /\ phase = "evidence" /\ UNCHANGED <<dst, bindings>>
        /\ evidence'.read = msgs /\ evidence'.skipped = rep.skipped
    BY <1>13 DEF WriteEvidence, BuildEvidence, Destination
  <2>2. evidence'.ok => Ok
    <3>1. evidence'.ok = Ok
      BY <1>13 DEF WriteEvidence, BuildEvidence
    <3>2. QED
      BY <3>1, Zenon
  <2>3. Ok => Delivered(msgs, rep.skipped)
    BY <2>1, OkDelivers
  <2>4. Delivered(msgs, rep.skipped) => EvidenceHonest'
    BY <2>1 DEF EvidenceHonest, Delivered
  <2>5. ~evidence'.ok => EvidenceHonest'
    BY DEF EvidenceHonest
  <2>6. QED
    BY <2>2, <2>3, <2>4, <2>5, Zenon
<1>14. CASE Stop
  <2>1. /\ phase # "idle" /\ evidence' = evidence /\ bindings' = bindings
        /\ ghost'.writer = ghost.writer
        /\ opts.dry => dst' = dst
    BY <1>14, StopSteps, StopEffect
  <2>2. QED
    BY <1>1, <1>2, <2>1
<1>15. CASE UNCHANGED vars
  BY <1>1, <1>15 DEF vars, Destination
<1>16. QED
  BY <1>3, <1>4, <1>5, <1>6, <1>7, <1>8, <1>9, <1>10, <1>11, <1>12, <1>13, <1>14,
     <1>15 DEF Next

\* Before the first run there is nothing in the destination and no evidence.
LEMMA RunInit ==
    Init => /\ RunInv /\ SourceInv /\ ReplayInv /\ DisableInv /\ VerifyInv
            /\ EvidenceHonest
<1> SUFFICES ASSUME Init
             PROVE  /\ RunInv /\ SourceInv /\ ReplayInv /\ DisableInv /\ VerifyInv
                    /\ EvidenceHonest
  OBVIOUS
<1>1. /\ phase = "idle" /\ evidence.run = 0 /\ ~evidence.ok /\ ghost.run = 0
      /\ Consistent(src.messages, src.rows)
  BY DEF Init
<1>2. \A e \in Enrollments : dst[e].route = None /\ ~dst[e].enabled
  BY DEF Init, Nothing
<1>3. \A e \in Enrollments : msgs.messages[e].token = Absent
  BY DEF Init, NothingRead
<1>4. SourceInv
  BY <1>1, <1>2, <1>3, RoutesType DEF SourceInv, Enrollments
<1>5. RunInv /\ ReplayInv /\ DisableInv /\ VerifyInv /\ EvidenceHonest
  BY <1>1 DEF RunInv, ReplayInv, DisableInv, VerifyInv, EvidenceHonest, Wrapping
<1>6. QED
  BY <1>4, <1>5

\* An evidence file that says ok is true of the destination until another run
\* writes, however the source moved meanwhile and however earlier runs ended
\* (BuildEvidence after Verify).
THEOREM OkEvidenceIsTrue == Spec => []EvidenceHonest
<1> DEFINE IInv == /\ TypeInv /\ RunInv /\ SourceInv /\ ReplayInv /\ DisableInv
                   /\ VerifyInv /\ EvidenceHonest
<1>1. Init => IInv
  BY TypeInit, RunInit
<1>2. IInv /\ [Next]_vars => IInv'
  BY TypeNext, RunNext, SourceNext, ReplayNext, DisableNext, VerifyNext, HonestNext
<1>3. QED
  BY <1>1, <1>2, PTL DEF Spec

-----------------------------------------------------------------------------
\* A run that nothing disturbs.

Readable == \A e \in Enrollments : /\ src.messages[e].hello # Bad
                                   /\ src.messages[e].token # Bad
                                   /\ src.messages[e].boot # Bad

\* A source without bad messages is one every message of which decodes.
LEMMA CleanIsReadable == BadMessages(src.messages) = {} <=> Readable
<1>1. ASSUME BadMessages(src.messages) = {}, NEW e \in Enrollments,
             NEW f \in {"hello", "token", "boot"}
      PROVE  src.messages[e][f] # Bad
  <2>1. <<e, f>> \notin BadMessages(src.messages)
    BY <1>1
  <2>2. <<e, f>> \in Enrollments \X {"hello", "token", "boot"}
    OBVIOUS
  <2>3. QED
    BY <2>1, <2>2 DEF BadMessages
<1>2. ASSUME Readable, NEW m \in BadMessages(src.messages)
      PROVE  FALSE
  <2>1. /\ m[1] \in Enrollments /\ m[2] \in {"hello", "token", "boot"}
        /\ src.messages[m[1]][m[2]] = Bad
    BY DEF BadMessages
  <2>2. QED
    BY <1>2, <2>1 DEF Readable
<1>3. QED
  BY <1>1, <1>2 DEF Readable

\* Every certificate in the destination came from the source, and is in the
\* report of a run once that has copied the certificates.
CertInv ==
    LET certs == {t \in Topics : src.certs[t] # None}
    IN  /\ pushCerts \subseteq certs
        /\ phase = "certs" => /\ todo \subseteq certs
                              /\ certs \subseteq rep.topics \union todo
        /\ phase \notin {"idle", "certs"} => certs \subseteq rep.topics

\* The bindings read are there, or still to be copied.
BindInv ==
    ~opts.dry =>
        /\ phase = "bindings" => msgs.bindings \subseteq bindings \union todo
        /\ phase \in Wrapping => msgs.bindings \subseteq bindings

\* Every step keeps CertInv.
LEMMA CertNext == TypeInv /\ CertInv /\ [Next]_vars => CertInv'
<1> SUFFICES ASSUME TypeInv, CertInv, [Next]_vars PROVE CertInv'
  OBVIOUS
<1>1. CASE \/ \E e \in Enrollments : SourceCheckIn(e)
           \/ \E d \in Devices : SourceCheckOut(d)
  <2>1. src'.certs = src.certs
    BY <1>1, CheckInEffect, CheckOutEffect
  <2>2. UNCHANGED <<pushCerts, phase, rep, todo>>
    BY <1>1, SourceSteps DEF Destination
  <2>3. QED
    BY <2>1, <2>2 DEF CertInv
<1>2. ASSUME NEW dry \in BOOLEAN, NEW allowPending \in BOOLEAN,
             NEW force \in BOOLEAN, NEW accepted \in SUBSET Enrollments,
             Begin(dry, allowPending, force, accepted)
      PROVE  CertInv'
  <2>1. /\ phase' = "certs" /\ todo' = {t \in Topics : src.certs[t] # None}
        /\ UNCHANGED <<src, pushCerts>>
    BY <1>2, BeginEffect DEF Destination
  <2>2. QED
    BY <2>1 DEF CertInv
<1>3. ASSUME NEW t \in Topics, StoreCert(t) PROVE CertInv'
  <2>1. /\ phase = "certs" /\ phase' \in {"certs", "idle"} /\ src' = src
        /\ pushCerts' \subseteq pushCerts \union {t}
        /\ phase' = "certs" => todo' = todo \ {t} /\ rep'.topics = rep.topics \union {t}
    BY <1>3, StoreCertEffect
  <2>2. src.certs[t] # None
    BY <1>3, StoreCertEffect DEF CertInv
  <2>3. QED
    BY <2>1, <2>2 DEF CertInv
<1>4. CASE ReadDevices \/ ReadUsers \/ ReadBindings \/ ReadRows
  <2>1. /\ UNCHANGED <<src, pushCerts, rep>> /\ todo = {} /\ phase # "idle"
        /\ phase' # "certs"
    BY <1>4, ReadSteps DEF Destination
  <2>2. QED
    BY <2>1 DEF CertInv
<1>5. CASE \/ \E d \in Devices : ImportDevice(d)
           \/ \E u \in Users : ImportUser(u)
           \/ \E b \in Bindings : Associate(b)
           \/ \E e \in Enrollments : Disable(e)
           \/ Verify \/ RecordTopics \/ WriteEvidence
  <2>1. /\ UNCHANGED <<src, pushCerts>> /\ rep'.topics = rep.topics
        /\ phase \notin {"idle", "certs"} /\ phase' # "certs"
    <3>1. CASE \E d \in Devices : ImportDevice(d)
      BY <3>1, ImportDeviceSteps
    <3>2. CASE \E u \in Users : ImportUser(u)
      BY <3>2, ImportUserSteps
    <3>3. CASE \E e \in Enrollments : Disable(e)
      BY <3>3, DisableSteps
    <3>4. CASE Verify
      BY <3>4, VerifySteps DEF Destination
    <3>5. CASE \/ \E b \in Bindings : Associate(b)
               \/ RecordTopics \/ WriteEvidence
      BY <3>5 DEF Associate, RecordTopics, WriteEvidence, Destination
    <3>6. QED
      BY <1>5, <3>1, <3>2, <3>3, <3>4, <3>5
  <2>2. QED
    BY <2>1 DEF CertInv
<1>6. CASE Stop
  BY <1>6, StopSteps DEF CertInv
<1>7. CASE UNCHANGED vars
  BY <1>7 DEF CertInv, vars, Destination
<1>8. QED
  BY <1>1, <1>2, <1>3, <1>4, <1>5, <1>6, <1>7 DEF Next

\* Every step keeps BindInv.
LEMMA BindNext == TypeInv /\ BindInv /\ [Next]_vars => BindInv'
<1> SUFFICES ASSUME TypeInv, BindInv, [Next]_vars PROVE BindInv'
  OBVIOUS
<1> USE DEF Wrapping
<1>1. CASE phase' \in {"idle", "certs"}
  BY <1>1 DEF BindInv
<1>2. CASE UNCHANGED <<Destination, phase, opts, todo, msgs, rep>>
  BY <1>2 DEF BindInv, Destination
<1>3. CASE ReadDevices \/ ReadUsers \/ ReadBindings
  <2>1. phase' \in {"devices", "users"} \/ todo' = msgs'.bindings
    <3>1. CASE ReadDevices \/ ReadUsers
      BY <3>1 DEF ReadDevices, ReadUsers, Advance
    <3>2. CASE ReadBindings
      <4>1. msgs'.bindings = src.bindings
        BY <3>2, ReadEffect
      <4>2. todo' = src.bindings
        BY <3>2 DEF ReadBindings, Advance
      <4>3. QED
        BY <4>1, <4>2
    <3>3. QED
      BY <1>3, <3>1, <3>2
  <2>2. phase' \notin Wrapping
    BY <1>3 DEF ReadDevices, ReadUsers, ReadBindings, Advance
  <2>3. QED
    BY <2>1, <2>2 DEF BindInv
<1>4. CASE ReadRows /\ ~opts.dry /\ phase' = "disable"
  <2>1. /\ phase = "bindings" /\ todo = {} /\ msgs'.bindings = msgs.bindings
        /\ UNCHANGED <<opts, bindings>>
    BY <1>4, ReadEffect, ReadSteps DEF ReadRows, Destination
  <2>2. QED
    BY <1>4, <2>1 DEF BindInv
<1>5. CASE \/ \E d \in Devices : ImportDevice(d)
           \/ \E u \in Users : ImportUser(u)
  BY <1>5 DEF BindInv, ImportDevice, ImportUser
<1>6. ASSUME NEW b \in Bindings, Associate(b) PROVE BindInv'
  <2>1. /\ phase = "bindings" /\ todo' = todo \ {b}
        /\ UNCHANGED <<phase, opts, msgs>>
        /\ ~opts.dry => bindings' = bindings \union {b}
    BY <1>6 DEF Associate, Associated
  <2>2. QED
    BY <2>1 DEF BindInv
<1>7. ASSUME NEW e \in Enrollments, Disable(e) PROVE BindInv'
  BY <1>7 DEF BindInv, Disable
<1>8. CASE Verify \/ RecordTopics
  BY <1>8 DEF BindInv, Verify, RecordTopics, Destination
<1>9. QED
  BY <1>1, <1>2, <1>3, <1>4, <1>5, <1>6, <1>7, <1>8, RunMoves

\* A step that ends in an undisturbed run begins it, or is one of its own.
LEMMA Undisturbed ==
    ASSUME TypeInv, [Next]_vars, ~ghost'.disturbed, phase' # "idle"
    PROVE  /\ src' = src
           /\ \/ phase' = "certs" /\ rep' = EmptyReport
              \/ /\ ~ghost.disturbed /\ phase # "idle"
                 /\ phase' = "certs" => /\ rep'.skipped = rep.skipped
                                        /\ rep'.undisabled = rep.undisabled
<1>1. CASE \/ \E e \in Enrollments : SourceCheckIn(e)
           \/ \E d \in Devices : SourceCheckOut(d)
  BY <1>1, SourceSteps
<1>2. ASSUME NEW dry \in BOOLEAN, NEW allowPending \in BOOLEAN,
             NEW force \in BOOLEAN, NEW accepted \in SUBSET Enrollments,
             Begin(dry, allowPending, force, accepted)
      PROVE  src' = src /\ phase' = "certs" /\ rep' = EmptyReport
  BY <1>2, BeginEffect
<1>3. ASSUME NEW t \in Topics, StoreCert(t)
      PROVE  /\ src' = src /\ ghost' = ghost /\ phase # "idle"
             /\ rep'.skipped = rep.skipped /\ rep'.undisabled = rep.undisabled
  BY <1>3, StoreCertEffect
<1>4. CASE ReadDevices \/ ReadUsers \/ ReadBindings \/ ReadRows
  BY <1>4, ReadSteps
<1>5. ASSUME NEW d \in Devices, ImportDevice(d)
      PROVE  /\ src' = src /\ ghost'.disturbed = ghost.disturbed
             /\ phase = "devices" /\ phase' = "devices"
  BY <1>5, ImportDeviceSteps
<1>6. CASE \/ \E u \in Users : ImportUser(u)
           \/ \E b \in Bindings : Associate(b)
           \/ WriteEvidence
  BY <1>6 DEF ImportUser, Associate, WriteEvidence
<1>7. ASSUME NEW e \in Enrollments, Disable(e)
      PROVE  /\ src' = src /\ phase = "disable" /\ phase' = "disable"
             /\ ~ghost.disturbed
  BY <1>7, DisableSteps
<1>8. CASE Verify
  BY <1>8, VerifySteps
<1>9. CASE RecordTopics
  BY <1>9, RecordTopicsEffect DEF RecordTopics
<1>10. CASE Stop
  BY <1>10 DEF Stop
<1>11. CASE UNCHANGED vars
  BY <1>11 DEF vars
<1>12. QED
  BY <1>1, <1>2, <1>3, <1>4, <1>5, <1>6, <1>7, <1>8, <1>9, <1>10, <1>11 DEF Next

\* While nothing disturbs a run and the source can be read, the run has read
\* what the source holds, has skipped and missed nothing, and has given every
\* channel it replayed the route the source has of it.
CleanInv ==
    phase # "idle" /\ ~ghost.disturbed /\ Readable =>
        /\ rep.skipped = {} /\ rep.undisabled = {}
        /\ phase \notin {"certs"} =>
              \A d \in Devices : msgs.messages[d] = src.messages[d]
        /\ phase \notin {"certs", "devices"} =>
              \A u \in Users : msgs.messages[u] = src.messages[u]
        /\ phase \in Wrapping => msgs.rows = src.rows
        /\ ~opts.dry => \A e \in Enrollments :
              Done(e) /\ src.messages[e].token \in Routes =>
                 dst[e].route = src.messages[e].token
        /\ phase \in {"topics", "evidence"} => rep.mismatched = {}
        /\ phase = "evidence" => rep.topics \subseteq listed

\* Such a run finds no mismatch when it reads back.
LEMMA CleanVerifies ==
    ASSUME TypeInv, SourceInv, RunInv, BindInv, CleanInv, Readable,
           ~ghost.disturbed, phase = "disable"
    PROVE  Mismatches = {}
<1> USE DEF Wrapping
<1>1. ~opts.dry /\ msgs.rows = src.rows /\ msgs.bindings \subseteq bindings
  BY DEF RunInv, CleanInv, BindInv
<1>2. ASSUME NEW e \in Enrollments, src.rows[e].enabled
      PROVE  dst[e].route = src.rows[e].route
  <2>1. src.rows[e] # NoRow
    <3>1. ~NoRow.enabled
      BY DEF NoRow
    <3>2. QED
      BY <1>2, <3>1
  <2>2. src.messages[e] \in Messages
    BY TypeParts DEF TypeInv, Source
  <2>3. src.messages[e].token \in Routes
    BY <2>1, <2>2, ConsistentRows DEF SourceInv, Messages, Readable
  <2>4. src.rows[e].route = src.messages[e].token
    BY <2>3, RoutesType, ConsistentRows DEF SourceInv
  <2>5. QED
    BY <1>1, <2>3, <2>4 DEF CleanInv, Done
<1>3. QED
  BY <1>1, <1>2 DEF Mismatches

\* Every step keeps CleanInv.
LEMMA CleanNext ==
    /\ TypeInv /\ SourceInv /\ RunInv /\ BindInv /\ ReplayInv /\ CleanInv
    /\ [Next]_vars
    => CleanInv'
<1> SUFFICES ASSUME TypeInv, SourceInv, RunInv, BindInv, ReplayInv, CleanInv,
                    [Next]_vars, phase' # "idle", ~ghost'.disturbed, Readable'
             PROVE  CleanInv'
  BY DEF CleanInv
<1> USE DEF Wrapping, Done
<1>0. /\ Devices \cap Users = {} /\ Enrollments = Devices \union Users
      /\ \A e \in Enrollments : src.messages[e] \in Messages
  BY ImporterAssumption, TypeParts DEF TypeInv, Source, Enrollments
<1>1. src' = src /\ Readable
  BY Undisturbed DEF Readable
<1>2. CASE phase' = "certs" /\ rep' = EmptyReport
  BY <1>2 DEF CleanInv, EmptyReport
<1> SUFFICES ASSUME ~ghost.disturbed, phase # "idle",
                    phase' = "certs" => /\ rep'.skipped = rep.skipped
                                        /\ rep'.undisabled = rep.undisabled
             PROVE  CleanInv'
  BY <1>2, Undisturbed
<1>3. /\ rep.skipped = {} /\ rep.undisabled = {}
      /\ phase \notin {"certs"} =>
            \A d \in Devices : msgs.messages[d] = src.messages[d]
      /\ phase \notin {"certs", "devices"} =>
            \A u \in Users : msgs.messages[u] = src.messages[u]
      /\ phase \in Wrapping => msgs.rows = src.rows
      /\ ~opts.dry => \A e \in Enrollments :
            Done(e) /\ src.messages[e].token \in Routes =>
               dst[e].route = src.messages[e].token
      /\ phase \in {"topics", "evidence"} => rep.mismatched = {}
      /\ phase = "evidence" => rep.topics \subseteq listed
  BY <1>1 DEF CleanInv
<1>4. CASE phase' \in {"idle", "certs"}
  BY <1>3, <1>4 DEF CleanInv
<1>5. CASE UNCHANGED <<Destination, phase, opts, todo, msgs, rep>>
  BY <1>1, <1>3, <1>5 DEF CleanInv, Destination
<1>6. CASE ReadDevices
  <2>1. /\ phase' = "devices" /\ todo' = Devices /\ rep' = rep
        /\ \A d \in Devices : msgs'.messages[d] = src.messages[d]
    BY <1>6, ReadEffect DEF ReadDevices, Advance
  <2>2. QED
    BY <1>1, <1>3, <2>1 DEF CleanInv
<1>7. CASE ReadUsers
  <2>1. /\ phase = "devices" /\ todo = {} /\ phase' = "users" /\ todo' = Users
        /\ UNCHANGED <<dst, opts, rep>>
    BY <1>7 DEF ReadUsers, Advance, Destination
  <2>2. /\ \A e \in Users : msgs'.messages[e] = src.messages[e]
        /\ \A e \in Devices : msgs'.messages[e] = msgs.messages[e]
    BY <1>7, ReadEffect
  <2>3. QED
    BY <1>0, <1>1, <1>3, <2>1, <2>2 DEF CleanInv
<1>8. CASE ReadBindings
  <2>1. /\ phase = "users" /\ todo = {} /\ phase' = "bindings"
        /\ UNCHANGED <<dst, opts, rep>> /\ msgs'.messages = msgs.messages
    BY <1>8, ReadEffect DEF ReadBindings, Advance, Destination
  <2>2. QED
    BY <1>0, <1>1, <1>3, <2>1 DEF CleanInv
<1>9. CASE ReadRows /\ ~opts.dry /\ phase' = "disable"
  <2>1. /\ phase = "bindings" /\ UNCHANGED <<dst, opts, rep>>
        /\ msgs'.messages = msgs.messages /\ msgs'.rows = src.rows
    BY <1>9, ReadEffect DEF ReadRows, Destination
  <2>2. QED
    BY <1>0, <1>1, <1>3, <1>9, <2>1 DEF CleanInv
<1>10. ASSUME NEW d \in Devices, ImportDevice(d) PROVE CleanInv'
  <2>1. /\ phase = "devices" /\ phase' = "devices" /\ d \in todo
        /\ todo' = todo \ {d} /\ UNCHANGED <<opts, msgs>>
        /\ rep'.undisabled = rep.undisabled
        /\ rep'.skipped = IF DeviceSkipped(msgs.messages[d])
                          THEN rep.skipped \union {d} ELSE rep.skipped
        /\ \A x \in Enrollments : x # d => dst'[x] = dst[x]
    BY <1>10, ImportDeviceSteps, ImportDeviceEffect
  <2>2. msgs.messages[d] = src.messages[d] /\ d \in Enrollments
    BY <1>0, <1>3, <2>1
  <2>3. ~DeviceSkipped(msgs.messages[d])
    BY <1>1, <2>2 DEF Readable, DeviceSkipped, Undecodable
  <2>4. ~opts.dry => dst'[d] = Replayed(src.messages[d])
    BY <1>1, <1>10, <2>2, ImportDeviceEffect DEF Readable
  <2>5. ~opts.dry /\ src.messages[d].token \in Routes =>
           dst'[d].route = src.messages[d].token
    BY <1>0, <2>2, <2>4, ReplayedFields
  <2>6. QED
    BY <1>1, <1>3, <2>1, <2>3, <2>5 DEF CleanInv
<1>11. ASSUME NEW u \in Users, ImportUser(u) PROVE CleanInv'
  <2>1. /\ phase = "users" /\ phase' = "users" /\ u \in todo
        /\ todo' = todo \ {u} /\ UNCHANGED <<opts, msgs>>
        /\ rep'.undisabled = rep.undisabled
        /\ rep'.skipped =
              IF Undecodable({msgs.messages[u].hello, msgs.messages[u].token})
              THEN rep.skipped \union {u} ELSE rep.skipped
        /\ \A x \in Enrollments : x # u => dst'[x] = dst[x]
    BY <1>11, ImportUserSteps, ImportUserEffect
  <2>2. msgs.messages[u] = src.messages[u] /\ u \in Enrollments
    BY <1>0, <1>3, <2>1
  <2>3. ~Undecodable({msgs.messages[u].hello, msgs.messages[u].token})
    BY <1>1, <2>2 DEF Readable, Undecodable
  <2>4. ~opts.dry /\ src.messages[u].token \in Routes =>
           dst'[u].route = src.messages[u].token
    BY <1>11, <2>2, ImportUserEffect
  <2>5. QED
    BY <1>1, <1>3, <2>1, <2>3, <2>4 DEF CleanInv
<1>12. ASSUME NEW b \in Bindings, Associate(b) PROVE CleanInv'
  <2>1. phase = "bindings" /\ UNCHANGED <<dst, phase, opts, msgs, rep>>
    BY <1>12 DEF Associate
  <2>2. QED
    BY <1>1, <1>3, <2>1 DEF CleanInv
<1>13. ASSUME NEW e \in Enrollments, Disable(e) PROVE CleanInv'
  <2>1. /\ phase = "disable" /\ UNCHANGED <<phase, opts, msgs, rep>>
        /\ \A x \in Enrollments : dst'[x].route = dst[x].route
    BY <1>13, DisableSteps
  <2>2. QED
    BY <1>1, <1>3, <2>1 DEF CleanInv
<1>14. CASE Verify
  <2>1. /\ phase = "disable" /\ phase' = "topics" /\ UNCHANGED <<dst, opts, msgs>>
        /\ rep'.skipped = rep.skipped /\ rep'.undisabled = rep.undisabled
        /\ rep'.mismatched = Mismatches
    BY <1>14, VerifySteps DEF Destination
  <2>2. Mismatches = {}
    BY <1>1, <2>1, CleanVerifies
  <2>3. QED
    BY <1>1, <1>3, <2>1, <2>2 DEF CleanInv
<1>15. CASE RecordTopics
  <2>1. /\ phase = "topics" /\ phase' = "evidence" /\ UNCHANGED <<dst, opts, msgs, rep>>
        /\ listed' = listed \cup rep.topics
    BY <1>15, RecordTopicsEffect DEF RecordTopics
  <2>2. QED
    BY <1>1, <1>3, <2>1 DEF CleanInv
<1>16. QED
  BY <1>4, <1>5, <1>6, <1>7, <1>8, <1>9, <1>10, <1>11, <1>12, <1>13, <1>14, <1>15,
     RunMoves

\* A run that no failure and no check-in disturbs, of a source that can be
\* read, passes and lists the topic of every certificate it stored, whatever
\* the runs before it left (the whole of `cairn import`).
THEOREM UndisturbedRunsPass == Spec => []CleanRunsPass
<1> DEFINE IInv == /\ TypeInv /\ RunInv /\ SourceInv /\ ReplayInv /\ DisableInv
                   /\ CertInv /\ BindInv /\ CleanInv
<1>1. Init => IInv
  <2>1. Init => CertInv /\ BindInv /\ CleanInv
    BY DEF Init, CertInv, BindInv, CleanInv, Wrapping
  <2>2. QED
    BY <2>1, TypeInit, RunInit
<1>2. IInv /\ [Next]_vars => IInv'
  BY TypeNext, RunNext, SourceNext, ReplayNext, DisableNext, CertNext, BindNext,
     CleanNext
<1>3. IInv => CleanRunsPass
  BY CleanIsReadable DEF CleanInv, CertInv, CleanRunsPass, Ok
<1>4. QED
  BY <1>1, <1>2, <1>3, PTL DEF Spec
=============================================================================
