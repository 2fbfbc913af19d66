-------------------------- MODULE EnrollmentProofs --------------------------
(***************************************************************************)
(* Proofs about Enrollment, for any owners, handlers, commands and          *)
(* certificates and any bounds.                                            *)
(***************************************************************************)
EXTENDS Enrollment, FiniteSetTheorems, TLAPS

USE EnrollmentAssumption

\* A command that publishes a topic has its certificate at hand.
ImporterInv == \A i \in Importers : importer[i].pc \in {"topic", "expiry"} =>
                   importer[i].cert \in Certs

TypeInv == TypeOK /\ ImporterInv

-----------------------------------------------------------------------------
(***************************************************************************)
(* Types.                                                                  *)
(***************************************************************************)

\* Whole seconds of a time.
LEMMA SecondType == ASSUME NEW t \in Nat PROVE Second(t) \in Nat
  BY DEF Second

\* Locals of an idle handler and of an idle command have their type.
LEMMA IdleType == IdleRequest \in Request /\ IdleImporter \in Importer
  BY DEF IdleRequest, IdleImporter, Request, Importer, Listed

\* The row NewGrant makes is one of the table.
LEMMA NewGrantType ==
  ASSUME clock \in Nat, NEW o \in Owners, NEW n \in UsesInput, NEW h \in HoursInput
  PROVE  NewGrant(o, n, h) \in Grant
  <1>1. n \in Int /\ h \in Int
    OBVIOUS
  <1>2. OrDefault(n, DefaultUses) \in Nat /\ OrDefault(h, DefaultHours) \in Int
    BY <1>1 DEF OrDefault
  <1>3. Second(clock) + OrDefault(h, DefaultHours) * Hour \in Int
    BY <1>2, SecondType
  <1> QED
    BY <1>2, <1>3 DEF NewGrant, Grant

\* So is a row revoked at some second.
LEMMA RevokedType ==
  ASSUME NEW x \in Grant, NEW n \in Nat
  PROVE  [x EXCEPT !.revoked = n] \in Grant
  <1> DEFINE Times == Int \cup {None}
  <1>1. n \in Times
    OBVIOUS
  <1> HIDE DEF Times
  <1>2. Grant = [owner: Owners, expires: Int, max: Nat, used: Nat, revoked: Times]
    BY DEF Grant, Times
  <1> QED
    BY <1>1, <1>2

\* The types hold initially.
LEMMA TypeInit == Init => TypeInv
  <1> SUFFICES ASSUME Init PROVE TypeInv
    OBVIOUS
  <1>1. request \in [Requests -> Request] /\ importer \in [Importers -> Importer]
    BY IdleType DEF Init
  <1>2. grants \in Seq(Grant) /\ profiles \in Seq(Issued)
    BY DEF Init
  <1>3. TypeOK
    BY <1>1, <1>2 DEF Init, TypeOK
  <1>4. ImporterInv
    BY DEF Init, ImporterInv, IdleImporter
  <1> QED
    BY <1>3, <1>4 DEF TypeInv

\* Setting a command's locals keeps the types.
LEMMA AtInv ==
  ASSUME TypeInv, NEW i \in Importers, NEW local \in Importer, At(i, local),
         local.pc \in {"topic", "expiry"} => local.cert \in Certs
  PROVE  importer' \in [Importers -> Importer] /\ ImporterInv'
  <1>1. importer \in [Importers -> Importer]
    BY DEF TypeInv, TypeOK
  <1>2. importer' = [importer EXCEPT ![i] = local]
    BY DEF At
  <1>3. importer' \in [Importers -> Importer]
    BY <1>1, <1>2
  <1>4. \A j \in Importers : importer'[j] = IF j = i THEN local ELSE importer[j]
    BY <1>1, <1>2
  <1>5. ImporterInv'
    BY <1>4 DEF TypeInv, ImporterInv
  <1> QED
    BY <1>3, <1>5

\* The idle locals are such locals.
LEMMA AtIdle ==
  ASSUME TypeInv, NEW i \in Importers, At(i, IdleImporter)
  PROVE  importer' \in [Importers -> Importer] /\ ImporterInv'
  BY AtInv, IdleType DEF IdleImporter

\* The console's steps, the clock's and a crash keep the types.
LEMMA ConsoleType == TypeInv /\ (Console \/ Tick \/ Crash) => TypeInv'
  <1> SUFFICES ASSUME TypeInv, Console \/ Tick \/ Crash PROVE TypeInv'
    OBVIOUS
  <1> USE DEF TypeInv
  <1>1. CASE Tick
    BY <1>1, SMTT(30) DEF Tick, TypeOK, ImporterInv, serving, pushing
  <1>2. ASSUME NEW o \in Owners, NEW n \in UsesInput, NEW h \in HoursInput,
               CreateGrant(o, n, h)
        PROVE  TypeInv'
    <2>1. grants' \in Seq(Grant)
      BY <1>2, NewGrantType DEF CreateGrant, TypeOK
    <2> QED
      BY <1>2, <2>1, SMTT(30) DEF CreateGrant, TypeOK, ImporterInv, serving, pushing
  <1>3. ASSUME NEW g \in DOMAIN grants, RevokeGrant(g)
        PROVE  TypeInv'
    <2>0. Second(clock) \in Nat /\ grants \in Seq(Grant)
      BY SecondType DEF TypeOK
    <2>1. /\ Second(clock) \in Nat /\ grants \in Seq(Grant)
          /\ grants[g] \in Grant
      BY <2>0
    <2>2. [grants[g] EXCEPT !.revoked = Second(clock)] \in Grant
      BY <2>1, RevokedType
    <2>3. grants' = [grants EXCEPT ![g] = [grants[g] EXCEPT !.revoked = Second(clock)]]
      BY <1>3 DEF RevokeGrant
    <2>4. grants' \in Seq(Grant)
      BY <2>1, <2>2, <2>3
    <2> QED
      BY <1>3, <2>4, SMTT(30) DEF RevokeGrant, TypeOK, ImporterInv, serving, pushing
  <1>4. CASE Crash
    <2>1. request' \in [Requests -> Request]
      BY <1>4, IdleType DEF Crash
    <2> QED
      BY <1>4, <2>1, SMTT(30) DEF Crash, Fault, TypeOK, ImporterInv, pushing
  <1> QED
    BY <1>1, <1>2, <1>3, <1>4 DEF Console

\* The handlers' steps keep the types.
LEMMA HandleType ==
  ASSUME TypeInv, NEW r \in Requests, Handle(r)
  PROVE  TypeInv'
  <1> USE DEF TypeInv
  <1>0. /\ request \in [Requests -> Request] /\ grants \in Seq(Grant)
        /\ profiles \in Seq(Issued) /\ Second(clock) \in Nat
    BY SecondType DEF TypeOK
  <1>2. CASE ServeOpen(r)
    <2>1. [IdleRequest EXCEPT !.pc = "serve", !.at = Second(clock)] \in Request
      BY <1>0 DEF IdleRequest, Request
    <2>2. request' \in [Requests -> Request]
      BY <1>0, <1>2, <2>1 DEF ServeOpen
    <2> QED
      BY <1>2, <2>2, SMTT(30) DEF ServeOpen, Arrive, TypeOK, ImporterInv, pushing
  <1>3. ASSUME NEW g \in DOMAIN grants, RedeemGrant(r, g)
        PROVE  TypeInv'
    <2>1. grants[g] \in Grant /\ g \in Nat
      BY <1>0
    <2>2. [pc |-> "serve", grant |-> g, owner |-> grants[g].owner,
           at |-> Second(clock)] \in Request
      BY <1>0, <2>1 DEF Request, Grant
    <2>3. request' \in [Requests -> Request]
      BY <1>0, <1>3, <2>2 DEF RedeemGrant
    <2>4. [grants[g] EXCEPT !.used = @ + 1] \in Grant
      BY <2>1 DEF Grant
    <2>5. grants' = [grants EXCEPT ![g] = [grants[g] EXCEPT !.used = @ + 1]]
      BY <1>3 DEF RedeemGrant
    <2>6. grants' \in Seq(Grant)
      BY <1>0, <2>4, <2>5
    <2>7. /\ serves' = serves + 1
          /\ UNCHANGED <<clock, profiles, faults>>
          /\ UNCHANGED <<stored, setting, apnsTopics, importer, imports>>
      BY <1>3 DEF RedeemGrant, Arrive, pushing
    <2>8. serves \in Nat /\ serves' \in Nat
      BY <2>7 DEF TypeOK
    <2>9. TypeOK'
      BY <2>3, <2>6, <2>7, <2>8 DEF TypeOK
    <2>10. ImporterInv'
      BY <2>7 DEF ImporterInv
    <2> QED
      BY <2>9, <2>10
  <1>4. CASE NotReady(r) \/ ServeFails(r)
    <2>1. request' \in [Requests -> Request]
      BY <1>0, <1>4, IdleType DEF NotReady, ServeFails, Refuse
    <2> QED
      BY <1>4, <2>1, SMTT(30)
      DEF NotReady, ServeFails, Refuse, Fault, TypeOK, ImporterInv, pushing
  <1>5. CASE ServeProfile(r)
    <2>1. request' \in [Requests -> Request]
      BY <1>0, <1>5, IdleType DEF ServeProfile
    <2>2. setting.topic \in Topics
      BY <1>5 DEF ServeProfile, TypeOK
    <2>3. [grant |-> request[r].grant, owner |-> request[r].owner,
           at |-> request[r].at, topic |-> setting.topic] \in Issued
      BY <1>0, <2>2 DEF Request, Issued
    <2>4. profiles' \in Seq(Issued)
      BY <1>0, <1>5, <2>3 DEF ServeProfile
    <2> QED
      BY <1>5, <2>1, <2>4, SMTT(30) DEF ServeProfile, TypeOK, ImporterInv, pushing
  <1> QED
    BY <1>2, <1>3, <1>4, <1>5 DEF Handle

\* A certificate's row of apns_topics.
LEMMA MetaType == \A c \in Certs : Meta(c) \in Listed /\ c.topic \in Topics
  BY DEF Meta, Listed

\* The commands' steps keep the types.
LEMMA ImportType ==
  ASSUME TypeInv, NEW i \in Importers, Import(i)
  PROVE  TypeInv'
  <1> USE DEF TypeInv
  <1>0. importer[i] \in Importer
    BY DEF TypeOK
  <1> DEFINE m == importer[i]
  <1>a. /\ m.todo \subseteq Certs /\ m.cert \in Certs \cup {None}
        /\ m.meta \subseteq Listed
        /\ m.pc \in {"idle", "store", "topic", "expiry", "list"}
    BY <1>0 DEF Importer
  <1>1. ASSUME NEW c \in Certs, RunPushcertImport(i, c)
        PROVE  TypeInv'
    <2>1. [IdleImporter EXCEPT !.pc = "store", !.cert = c] \in Importer
      BY IdleType DEF Importer
    <2>2. importer' \in [Importers -> Importer] /\ ImporterInv'
      BY <1>1, <2>1, AtInv DEF RunPushcertImport, IdleImporter
    <2> QED
      BY <1>1, <2>2, SMTT(30) DEF RunPushcertImport, Start, TypeOK, console, serving
  <1>2. ASSUME NEW C \in SUBSET Certs, RunImport(i, C)
        PROVE  TypeInv'
    <2>1. [IdleImporter EXCEPT !.pc = "store", !.todo = C] \in Importer
      BY IdleType DEF Importer
    <2>2. importer' \in [Importers -> Importer] /\ ImporterInv'
      BY <1>2, <2>1, AtInv DEF RunImport, IdleImporter
    <2> QED
      BY <1>2, <2>2, SMTT(30) DEF RunImport, Start, TypeOK, console, serving
  <1>3. CASE StorePushCert(i)
    <2>1. m.cert \in Certs
      BY <1>3, <1>a DEF StorePushCert
    <2>2. {Meta(m.cert)} \subseteq Listed
      BY <2>1, MetaType
    <2>3. [m EXCEPT !.pc = "topic", !.meta = {Meta(m.cert)}] \in Importer
      BY <1>0, <2>2 DEF Importer
    <2>4. [m EXCEPT !.pc = "topic", !.meta = {Meta(m.cert)}].cert = m.cert
      BY <1>0 DEF Importer
    <2>5. importer' \in [Importers -> Importer] /\ ImporterInv'
      BY <1>3, <2>1, <2>3, <2>4, AtInv DEF StorePushCert
    <2> QED
      BY <1>3, <2>1, <2>5, SMTT(30) DEF StorePushCert, With, TypeOK, console, serving
  <1>4. ASSUME NEW c \in Certs, ImportPushCert(i, c)
        PROVE  TypeInv'
    <2>1. {Meta(c)} \subseteq Listed
      BY MetaType
    <2>2. /\ [m EXCEPT !.todo = @ \ {c}, !.meta = @ \cup {Meta(c)}] \in Importer
          /\ [m EXCEPT !.todo = @ \ {c}, !.meta = @ \cup {Meta(c)}].pc = m.pc
      BY <1>0, <2>1 DEF Importer
    <2>3. m.pc = "store"
      BY <1>4 DEF ImportPushCert
    <2>4. importer' \in [Importers -> Importer] /\ ImporterInv'
      BY <1>4, <2>2, <2>3, AtInv, AtIdle DEF ImportPushCert
    <2> QED
      BY <1>4, <2>4, SMTT(30) DEF ImportPushCert, With, TypeOK, console, serving
  <1>5. CASE ImportDevices(i)
    <2>1. [m EXCEPT !.pc = "list"] \in Importer /\ [m EXCEPT !.pc = "list"].pc = "list"
      BY <1>0 DEF Importer
    <2>2. importer' \in [Importers -> Importer] /\ ImporterInv'
      BY <1>5, <2>1, AtInv DEF ImportDevices
    <2> QED
      BY <1>5, <2>2, SMTT(30) DEF ImportDevices, TypeOK, console, serving
  <1>6. CASE SetTopic(i)
    <2>1. m.cert \in Certs
      BY <1>6 DEF SetTopic, ImporterInv
    <2>2. [m EXCEPT !.pc = "expiry"] \in Importer /\ [m EXCEPT !.pc = "expiry"].cert = m.cert
      BY <1>0 DEF Importer
    <2>3. importer' \in [Importers -> Importer] /\ ImporterInv'
      BY <1>6, <2>1, <2>2, AtInv DEF SetTopic
    <2>4. setting' \in [topic: Topics \cup {None}, until: Nat \cup {None}]
      BY <1>6, <2>1, MetaType DEF SetTopic, TypeOK
    <2> QED
      BY <1>6, <2>3, <2>4, SMTT(30) DEF SetTopic, TypeOK, console, serving
  <1>7. CASE SetNotAfter(i)
    <2>1. m.cert \in Certs
      BY <1>7 DEF SetNotAfter, ImporterInv
    <2>2. [m EXCEPT !.pc = "list"] \in Importer /\ [m EXCEPT !.pc = "list"].pc = "list"
      BY <1>0 DEF Importer
    <2>3. importer' \in [Importers -> Importer] /\ ImporterInv'
      BY <1>7, <2>1, <2>2, AtInv DEF SetNotAfter
    <2>4. setting' \in [topic: Topics \cup {None}, until: Nat \cup {None}]
      <3> DEFINE Times == Nat \cup {None}
      <3>1. m.cert.until \in Times
        BY <2>1
      <3> HIDE DEF Times
      <3>2. setting \in [topic: Topics \cup {None}, until: Times]
        BY DEF TypeOK, Times
      <3>3. setting' \in [topic: Topics \cup {None}, until: Times]
        BY <1>7, <3>1, <3>2 DEF SetNotAfter
      <3> QED
        BY <3>3 DEF Times
    <2> QED
      BY <1>7, <2>3, <2>4, SMTT(30) DEF SetNotAfter, Fault, TypeOK, console, serving
  <1>8. ASSUME NEW t \in m.meta, UpsertAPNSTopic(i, t)
        PROVE  TypeInv'
    <2>1. [m EXCEPT !.meta = @ \ {t}] \in Importer /\ [m EXCEPT !.meta = @ \ {t}].pc = m.pc
      BY <1>0 DEF Importer
    <2>2. m.pc = "list"
      BY <1>8 DEF UpsertAPNSTopic
    <2>3. \/ At(i, IdleImporter)
          \/ At(i, [m EXCEPT !.meta = @ \ {t}])
      BY <1>8 DEF UpsertAPNSTopic
    <2>4. importer' \in [Importers -> Importer] /\ ImporterInv'
      BY <2>1, <2>2, <2>3, AtInv, AtIdle
    <2>5. apnsTopics' \subseteq Listed
      BY <1>8, <1>a DEF UpsertAPNSTopic, TypeOK
    <2> QED
      BY <1>8, <2>4, <2>5, SMTT(30) DEF UpsertAPNSTopic, Fault, TypeOK, console, serving
  <1>9. CASE ImportEnds(i) \/ ImportStops(i)
    <2>1. importer' \in [Importers -> Importer] /\ ImporterInv'
      BY <1>9, AtIdle DEF ImportEnds, ImportStops
    <2> QED
      BY <1>9, <2>1, SMTT(30) DEF ImportEnds, ImportStops, Fault, TypeOK, console, serving
  <1> QED
    BY <1>1, <1>2, <1>3, <1>4, <1>5, <1>6, <1>7, <1>8, <1>9 DEF Import

\* Every step keeps the types.
LEMMA TypeStep == TypeInv /\ [Next]_vars => TypeInv'
  <1> SUFFICES ASSUME TypeInv, [Next]_vars PROVE TypeInv'
    OBVIOUS
  <1>1. CASE UNCHANGED vars
    BY <1>1, SMTT(30) DEF vars, TypeInv, TypeOK, ImporterInv
  <1>2. CASE Console \/ Tick \/ Crash
    BY <1>2, ConsoleType
  <1>3. ASSUME NEW r \in Requests, Handle(r) PROVE TypeInv'
    BY <1>3, HandleType
  <1>4. ASSUME NEW i \in Importers, Import(i) PROVE TypeInv'
    BY <1>4, ImportType
  <1> QED
    BY <1>1, <1>2, <1>3, <1>4 DEF Next

\* Every table of the enrollment side, and every handler and command, holds
\* values of its type in every reachable state.
THEOREM EnrollmentTypes == Spec => []TypeOK
  <1>1. Init => TypeInv
    BY TypeInit
  <1>2. TypeInv /\ [Next]_vars => TypeInv'
    BY TypeStep
  <1>3. TypeInv => TypeOK
    BY DEF TypeInv
  <1> QED
    BY <1>1, <1>2, <1>3, PTL DEF Spec

-----------------------------------------------------------------------------
(***************************************************************************)
(* Authorization: a redemption never leaves the terms of its grant, because *)
(* the terms it was checked against never change and the clock never goes   *)
(* back.                                                                   *)
(***************************************************************************)
Terms(x, gs) ==
    IF x.grant = 0
      THEN AllowOpen /\ x.owner = None
      ELSE /\ x.grant \in DOMAIN gs
           /\ x.owner = gs[x.grant].owner
           /\ x.at < gs[x.grant].expires
           /\ gs[x.grant].revoked # None => x.at <= gs[x.grant].revoked

\* What no step changes of a grant.
GrantsKept(gs, next, now) ==
    /\ DOMAIN gs \subseteq DOMAIN next
    /\ \A g \in DOMAIN gs :
          /\ next[g].owner = gs[g].owner
          /\ next[g].expires = gs[g].expires
          /\ next[g].max = gs[g].max /\ next[g].used >= gs[g].used
          /\ \/ next[g].revoked = gs[g].revoked
             \/ gs[g].revoked = None /\ next[g].revoked = now

Authorized(x, gs, now) == Terms(x, gs) /\ x.at <= now

\* Redemptions keep to their terms, and lie in the past.
AuthorizedInv ==
    /\ \A n \in DOMAIN profiles : Authorized(profiles[n], grants, Second(clock))
    /\ \A r \in Requests : request[r].pc = "serve" =>
          Authorized(request[r], grants, Second(clock))

AuthInv == TypeInv /\ AuthorizedInv

\* A step keeps every grant's terms, and time does not go back.
LEMMA GrantsStep ==
  ASSUME TypeInv, [Next]_vars
  PROVE  GrantsKept(grants, grants', Second(clock)) /\ Second(clock) <= Second(clock)'
  <1>0. /\ grants \in Seq(Grant) /\ clock \in Nat
        /\ \A g \in DOMAIN grants : grants[g].used \in Nat
    <2>1. grants \in Seq(Grant) /\ clock \in Nat
      BY DEF TypeInv, TypeOK
    <2>2. \A g \in DOMAIN grants : grants[g] \in Grant
      BY <2>1
    <2>3. \A x \in Grant : x.used \in Nat
      BY DEF Grant
    <2> QED
      BY <2>1, <2>2, <2>3
  <1>1. CASE UNCHANGED <<clock, grants>>
    BY <1>0, <1>1 DEF GrantsKept, Second
  <1>2. CASE Tick
    BY <1>0, <1>2 DEF Tick, GrantsKept, Second
  <1>3. ASSUME NEW o \in Owners, NEW n \in UsesInput, NEW h \in HoursInput,
               CreateGrant(o, n, h)
        PROVE  GrantsKept(grants, grants', Second(clock)) /\ Second(clock) <= Second(clock)'
    <2>1. NewGrant(o, n, h) \in Grant
      BY <1>0, NewGrantType
    <2>2. grants' = Append(grants, NewGrant(o, n, h)) /\ clock' = clock
      BY <1>3 DEF CreateGrant
    <2>3. /\ DOMAIN grants \subseteq DOMAIN grants'
          /\ \A g \in DOMAIN grants : grants'[g] = grants[g]
      BY <1>0, <2>1, <2>2
    <2> QED
      BY <1>0, <2>2, <2>3 DEF GrantsKept, Second
  <1>4. ASSUME NEW g \in DOMAIN grants, RevokeGrant(g)
        PROVE  GrantsKept(grants, grants', Second(clock)) /\ Second(clock) <= Second(clock)'
    <2>1. /\ grants[g].revoked = None /\ clock' = clock
          /\ grants' = [grants EXCEPT ![g].revoked = Second(clock)]
      BY <1>4 DEF RevokeGrant
    <2>2. /\ DOMAIN grants' = DOMAIN grants
          /\ \A k \in DOMAIN grants : k # g => grants'[k] = grants[k]
          /\ grants'[g] = [grants[g] EXCEPT !.revoked = Second(clock)]
          /\ grants[g] \in Grant
      BY <1>0, <2>1
    <2>3. /\ grants'[g].owner = grants[g].owner
          /\ grants'[g].expires = grants[g].expires
          /\ grants'[g].max = grants[g].max /\ grants'[g].used = grants[g].used
          /\ grants'[g].revoked = Second(clock)
      BY <2>2 DEF Grant
    <2> QED
      BY <1>0, <2>1, <2>2, <2>3 DEF GrantsKept, Second
  <1>5. ASSUME NEW r \in Requests, NEW g \in DOMAIN grants, RedeemGrant(r, g)
        PROVE  GrantsKept(grants, grants', Second(clock)) /\ Second(clock) <= Second(clock)'
    <2>1. clock' = clock /\ grants' = [grants EXCEPT ![g].used = @ + 1]
      BY <1>5 DEF RedeemGrant
    <2>2. /\ DOMAIN grants' = DOMAIN grants
          /\ \A k \in DOMAIN grants : k # g => grants'[k] = grants[k]
          /\ grants'[g] = [grants[g] EXCEPT !.used = @ + 1]
          /\ grants[g] \in Grant
      BY <1>0, <2>1
    <2>3. /\ grants'[g].owner = grants[g].owner
          /\ grants'[g].expires = grants[g].expires
          /\ grants'[g].max = grants[g].max /\ grants'[g].used = grants[g].used + 1
          /\ grants'[g].revoked = grants[g].revoked
      BY <2>2 DEF Grant
    <2>4. grants'[g].used >= grants[g].used
      BY <1>0, <2>3
    <2>5. \A k \in DOMAIN grants : k # g => grants'[k].used >= grants[k].used
      BY <1>0, <2>2
    <2>6. GrantsKept(grants, grants', Second(clock))
      BY <2>2, <2>3, <2>4, <2>5 DEF GrantsKept
    <2> QED
      BY <1>0, <2>1, <2>6, SecondType
  <1>6. CASE Next
    <2>1. ASSUME NEW r \in Requests, Handle(r)
          PROVE  \/ UNCHANGED <<clock, grants>>
                 \/ \E g \in DOMAIN grants : RedeemGrant(r, g)
      BY <2>1 DEF Handle, ServeOpen, NotReady, ServeFails, Refuse, ServeProfile
    <2>2. ASSUME NEW i \in Importers, Import(i)
          PROVE  UNCHANGED <<clock, grants>>
      BY <2>2 DEF Import, RunPushcertImport, ImportPushCert, RunImport, StorePushCert,
            ImportDevices, SetTopic, SetNotAfter, UpsertAPNSTopic, ImportEnds,
            ImportStops, console
    <2> QED
      BY <1>1, <1>2, <1>3, <1>4, <1>5, <1>6, <2>1, <2>2 DEF Next, Console, Crash
  <1>7. CASE UNCHANGED vars
    BY <1>1, <1>7 DEF vars
  <1> QED
    BY <1>6, <1>7

\* What is authorized stays authorized.
LEMMA AuthorizedKept ==
  ASSUME NEW x \in Request \cup Issued, NEW gs \in Seq(Grant), NEW next \in Seq(Grant),
         NEW now \in Nat, NEW later \in Nat,
         GrantsKept(gs, next, now), now <= later, Authorized(x, gs, now)
  PROVE  Authorized(x, next, later)
  <1>1. x.at \in Nat /\ x.grant \in Nat
    BY DEF Request, Issued
  <1>2. x.at <= later
    BY <1>1 DEF Authorized
  <1>3. CASE x.grant = 0
    BY <1>2, <1>3 DEF Authorized, Terms
  <1>4. CASE x.grant # 0
    <2> DEFINE g == x.grant
    <2>1. /\ g \in DOMAIN gs /\ g \in DOMAIN next
          /\ next[g].owner = gs[g].owner
          /\ next[g].expires = gs[g].expires
          /\ \/ next[g].revoked = gs[g].revoked
             \/ gs[g].revoked = None /\ next[g].revoked = now
      BY <1>4 DEF Authorized, Terms, GrantsKept
    <2>2. x.owner = next[g].owner /\ x.at < next[g].expires /\ x.at <= now
      BY <1>4, <2>1 DEF Authorized, Terms
    <2>3. next[g].revoked # None => x.at <= next[g].revoked
      BY <1>4, <2>1, <2>2 DEF Authorized, Terms
    <2> QED
      BY <1>2, <1>4, <2>1, <2>2, <2>3 DEF Authorized, Terms
  <1> QED
    BY <1>3, <1>4

\* How the handlers' locals and the profiles served may change in a step.
RequestsFrom(req, next, gs, now) ==
    \A r \in Requests : next[r].pc = "serve" =>
        next[r] = req[r] \/ Authorized(next[r], gs, now)

ProfilesFrom(ps, next, req) ==
    \/ next = ps
    \/ \E r \in Requests, t \in Topics :
         /\ req[r].pc = "serve"
         /\ next = Append(ps, [grant |-> req[r].grant, owner |-> req[r].owner,
                               at |-> req[r].at, topic |-> t])

\* Only a redemption, or the open route, makes a handler serve, and only a
\* handler that serves makes a profile.
LEMMA HandlersStep ==
  ASSUME TypeInv, TypeInv', [Next]_vars
  PROVE  /\ RequestsFrom(request, request', grants', Second(clock)')
         /\ ProfilesFrom(profiles, profiles', request)
  <1>0. /\ request \in [Requests -> Request] /\ grants \in Seq(Grant)
        /\ grants' \in Seq(Grant) /\ clock \in Nat
        /\ setting \in [topic: Topics \cup {None}, until: Nat \cup {None}]
    BY DEF TypeInv, TypeOK
  <1>1. CASE request' = request /\ profiles' = profiles
    BY <1>1 DEF RequestsFrom, ProfilesFrom
  <1>2. CASE profiles' = profiles /\ \E r \in Requests :
               request' = [request EXCEPT ![r] = IdleRequest]
    BY <1>0, <1>2 DEF RequestsFrom, ProfilesFrom, IdleRequest
  <1>3. ASSUME NEW r \in Requests, ServeOpen(r)
        PROVE  /\ RequestsFrom(request, request', grants', Second(clock)')
               /\ ProfilesFrom(profiles, profiles', request)
    <2> DEFINE x == [IdleRequest EXCEPT !.pc = "serve", !.at = Second(clock)]
    <2>1. /\ AllowOpen /\ profiles' = profiles /\ clock' = clock
          /\ request' = [request EXCEPT ![r] = x]
      BY <1>3 DEF ServeOpen
    <2>2. Authorized(x, grants', Second(clock)')
      BY <1>0, <2>1, SecondType DEF Authorized, Terms, IdleRequest
    <2> HIDE DEF x
    <2>3. \A k \in Requests : request'[k] = request[k] \/ request'[k] = x
      BY <1>0, <2>1
    <2> QED
      BY <2>1, <2>2, <2>3 DEF RequestsFrom, ProfilesFrom
  <1>4. ASSUME NEW r \in Requests, NEW g \in DOMAIN grants, RedeemGrant(r, g)
        PROVE  /\ RequestsFrom(request, request', grants', Second(clock)')
               /\ ProfilesFrom(profiles, profiles', request)
    <2> DEFINE x == [pc |-> "serve", grant |-> g, owner |-> grants[g].owner,
                     at |-> Second(clock)]
    <2>1. /\ profiles' = profiles /\ clock' = clock
          /\ grants' = [grants EXCEPT ![g].used = @ + 1]
          /\ grants[g].revoked = None /\ grants[g].expires > Second(clock)
          /\ request' = [request EXCEPT ![r] = x]
      BY <1>4 DEF RedeemGrant, Redeemable
    <2>2. /\ g \in DOMAIN grants' /\ g # 0 /\ grants[g] \in Grant
          /\ grants'[g] = [grants[g] EXCEPT !.used = @ + 1]
      BY <1>0, <2>1
    <2>3. /\ grants'[g].owner = grants[g].owner
          /\ grants'[g].expires = grants[g].expires
          /\ grants'[g].revoked = None
      BY <2>1, <2>2 DEF Grant
    <2>4. Second(clock) \in Nat /\ Second(clock)' = Second(clock)
      BY <1>0, <2>1, SecondType
    <2>5. /\ x.grant = g /\ x.owner = grants[g].owner
          /\ x.at = Second(clock)
      OBVIOUS
    <2> HIDE DEF x
    <2>6. Authorized(x, grants', Second(clock)')
      BY <2>1, <2>2, <2>3, <2>4, <2>5 DEF Authorized, Terms, Grant
    <2>7. \A k \in Requests : request'[k] = request[k] \/ request'[k] = x
      BY <1>0, <2>1
    <2> QED
      BY <2>1, <2>6, <2>7 DEF RequestsFrom, ProfilesFrom
  <1>5. ASSUME NEW r \in Requests, ServeProfile(r)
        PROVE  /\ RequestsFrom(request, request', grants', Second(clock)')
               /\ ProfilesFrom(profiles, profiles', request)
    <2>1. /\ request[r].pc = "serve" /\ setting.topic \in Topics
          /\ request' = [request EXCEPT ![r] = IdleRequest]
          /\ profiles' = Append(profiles, [grant |-> request[r].grant,
                 owner |-> request[r].owner, at |-> request[r].at,
                 topic |-> setting.topic])
      BY <1>0, <1>5 DEF ServeProfile
    <2>2. RequestsFrom(request, request', grants', Second(clock)')
      BY <1>0, <2>1 DEF RequestsFrom, IdleRequest
    <2> QED
      BY <2>1, <2>2 DEF ProfilesFrom
  <1>6. CASE Crash
    BY <1>6 DEF Crash, RequestsFrom, ProfilesFrom, IdleRequest
  <1>7. CASE Tick \/ Console
    BY <1>1, <1>7 DEF Tick, Console, CreateGrant, RevokeGrant, serving
  <1>8. ASSUME NEW r \in Requests, Handle(r)
        PROVE  /\ RequestsFrom(request, request', grants', Second(clock)')
               /\ ProfilesFrom(profiles, profiles', request)
    BY <1>2, <1>3, <1>4, <1>5, <1>8 DEF Handle, NotReady, ServeFails, Refuse
  <1>9. ASSUME NEW i \in Importers, Import(i)
        PROVE  request' = request /\ profiles' = profiles
    BY <1>9 DEF Import, RunPushcertImport, ImportPushCert, RunImport, StorePushCert,
          ImportDevices, SetTopic, SetNotAfter, UpsertAPNSTopic, ImportEnds,
          ImportStops, serving
  <1>10. CASE UNCHANGED vars
    BY <1>1, <1>10 DEF vars
  <1> QED
    BY <1>1, <1>6, <1>7, <1>8, <1>9, <1>10 DEF Next

\* Nothing is authorized or unauthorized initially.
LEMMA AuthInit == Init => AuthInv
  BY TypeInit DEF Init, AuthInv, AuthorizedInv, IdleRequest

\* Every step keeps what is served, or about to be, authorized.
LEMMA AuthStep == AuthInv /\ [Next]_vars => AuthInv'
  <1> SUFFICES ASSUME AuthInv, [Next]_vars PROVE AuthInv'
    OBVIOUS
  <1>1. TypeInv /\ TypeInv'
    BY TypeStep DEF AuthInv
  <1>2. /\ request \in [Requests -> Request] /\ request' \in [Requests -> Request]
        /\ profiles \in Seq(Issued) /\ profiles' \in Seq(Issued)
        /\ grants \in Seq(Grant) /\ grants' \in Seq(Grant)
        /\ Second(clock) \in Nat /\ Second(clock)' \in Nat
    BY <1>1, SecondType DEF TypeInv, TypeOK
  <1>3. GrantsKept(grants, grants', Second(clock)) /\ Second(clock) <= Second(clock)'
    BY <1>1, GrantsStep
  <1>4. \A x \in Request \cup Issued : Authorized(x, grants, Second(clock)) =>
            Authorized(x, grants', Second(clock)')
    BY <1>2, <1>3, AuthorizedKept
  <1>5. /\ RequestsFrom(request, request', grants', Second(clock)')
        /\ ProfilesFrom(profiles, profiles', request)
    BY <1>1, HandlersStep
  <1>6. \A r \in Requests : request[r].pc = "serve" =>
            Authorized(request[r], grants', Second(clock)')
    BY <1>2, <1>4 DEF AuthInv, AuthorizedInv
  <1>7. \A r \in Requests : request'[r].pc = "serve" =>
            Authorized(request'[r], grants', Second(clock)')
    BY <1>5, <1>6 DEF RequestsFrom
  <1>8. \A n \in DOMAIN profiles : Authorized(profiles[n], grants', Second(clock)')
    BY <1>2, <1>4 DEF AuthInv, AuthorizedInv
  <1>9. \A n \in DOMAIN profiles' : Authorized(profiles'[n], grants', Second(clock)')
    <2>1. CASE profiles' = profiles
      BY <1>8, <2>1
    <2>2. ASSUME NEW r \in Requests, NEW t \in Topics, request[r].pc = "serve",
                 profiles' = Append(profiles, [grant |-> request[r].grant,
                     owner |-> request[r].owner, at |-> request[r].at, topic |-> t])
          PROVE  \A n \in DOMAIN profiles' :
                     Authorized(profiles'[n], grants', Second(clock)')
      <3> DEFINE x == [grant |-> request[r].grant, owner |-> request[r].owner,
                       at |-> request[r].at, topic |-> t]
      <3>1. Authorized(x, grants', Second(clock)')
        BY <1>6, <2>2 DEF Authorized, Terms
      <3> HIDE DEF x
      <3>2. profiles' = Append(profiles, x)
        BY <2>2 DEF x
      <3>3. x \in Issued
        BY <1>2 DEF x, Request, Issued
      <3>4. \A n \in DOMAIN profiles' :
               \/ n \in DOMAIN profiles /\ profiles'[n] = profiles[n]
               \/ profiles'[n] = x
        BY <1>2, <3>2, <3>3
      <3> QED
        BY <1>8, <3>1, <3>4
    <2> QED
      BY <1>5, <2>1, <2>2 DEF ProfilesFrom
  <1> QED
    BY <1>1, <1>7, <1>9 DEF AuthInv, AuthorizedInv

\* Every profile served, or about to be, is bound to the owner of a grant that
\* was redeemed before its expiry and no later than its revocation, and without
\* enrollment.allow_open there is no other.
THEOREM ProfilesAlwaysAuthorized == Spec => []ProfilesAreAuthorized
  <1>1. Init => AuthInv
    BY AuthInit
  <1>2. AuthInv /\ [Next]_vars => AuthInv'
    BY AuthStep
  <1>3. AuthInv => ProfilesAreAuthorized
    BY DEF AuthInv, AuthorizedInv, Authorized, Terms, ProfilesAreAuthorized, WithinTerms
  <1> QED
    BY <1>1, <1>2, <1>3, PTL DEF Spec

-----------------------------------------------------------------------------
(***************************************************************************)
(* The console and the UPDATE agree on which links work.                   *)
(***************************************************************************)

\* Before the second of its expiry a grant has not expired.
LEMMA ExpiryRounds ==
  ASSUME NEW t \in Nat, NEW e \in Int, e > Second(t)
  PROVE  ~ (e * Fraction < t)
  BY DEF Second

\* A link that works is shown as active, at every instant of every second.
THEOREM WorkingLinksAreShown == Spec => []WorkingLinksAreActive
  <1>1. TypeInv => WorkingLinksAreActive
    <2> SUFFICES ASSUME TypeInv, NEW g \in DOMAIN grants, Redeemable(g)
                 PROVE  Status(g) = "active"
      BY DEF WorkingLinksAreActive
    <2>0. grants \in Seq(Grant) /\ clock \in Nat
      BY DEF TypeInv, TypeOK
    <2>1. grants[g] \in Grant
      BY <2>0
    <2>2. /\ grants[g].revoked = None
          /\ ~ (grants[g].used >= grants[g].max)
          /\ grants[g].expires > Second(clock)
          /\ grants[g].expires \in Int
      BY <2>1 DEF Redeemable, Grant
    <2>3. ~ (grants[g].expires * Fraction < clock)
      BY <2>0, <2>2, ExpiryRounds
    <2> QED
      BY <2>2, <2>3 DEF Status
  <1> QED
    BY <1>1, TypeInit, TypeStep, PTL DEF Spec

\* The time never goes back.
LEMMA ClockStep == TypeInv /\ [Next]_vars => clock' \in Nat /\ clock' >= clock
  <1> SUFFICES ASSUME TypeInv, [Next]_vars PROVE clock' \in Nat /\ clock' >= clock
    OBVIOUS
  <1>0. clock \in Nat
    BY DEF TypeInv, TypeOK
  <1>1. CASE Tick
    BY <1>0, <1>1 DEF Tick
  <1>2. CASE Console \/ Crash \/ UNCHANGED vars
    BY <1>0, <1>2 DEF Console, CreateGrant, RevokeGrant, Crash, vars
  <1>3. ASSUME NEW r \in Requests, Handle(r)
        PROVE  clock' = clock
    BY <1>3 DEF Handle, ServeOpen, RedeemGrant, NotReady, ServeFails, Refuse, ServeProfile
  <1>4. ASSUME NEW i \in Importers, Import(i)
        PROVE  clock' = clock
    BY <1>4 DEF Import, RunPushcertImport, ImportPushCert, RunImport, StorePushCert,
          ImportDevices, SetTopic, SetNotAfter, UpsertAPNSTopic, ImportEnds,
          ImportStops, console
  <1> QED
    BY <1>0, <1>1, <1>2, <1>3, <1>4 DEF Next

\* A grant the console shows as used, revoked or expired never becomes active
\* again, and a revoked one stays revoked (grants.go, Status): uses are only
\* counted up, a revocation is not taken back and the clock moves on.
THEOREM StatusesAreFinal == Spec => StatusIsFinal
  <1> DEFINE A == \A g \in DOMAIN grants :
                    /\ Status(g) # "active" => Status(g)' # "active"
                    /\ Status(g) = "revoked" => Status(g)' = "revoked"
  <1>1. ASSUME TypeInv, [Next]_vars, NEW g \in DOMAIN grants
        PROVE  /\ Status(g) # "active" => Status(g)' # "active"
               /\ Status(g) = "revoked" => Status(g)' = "revoked"
    <2>1. /\ grants \in Seq(Grant) /\ clock \in Nat /\ grants' \in Seq(Grant)
          /\ TypeInv'
      BY <1>1, TypeStep DEF TypeInv, TypeOK
    <2>2. /\ g \in DOMAIN grants'
          /\ grants'[g].expires = grants[g].expires
          /\ grants'[g].max = grants[g].max /\ grants'[g].used >= grants[g].used
          /\ \/ grants'[g].revoked = grants[g].revoked
             \/ grants[g].revoked = None /\ grants'[g].revoked = Second(clock)
      BY <1>1, GrantsStep DEF GrantsKept
    <2>3. clock' \in Nat /\ clock' >= clock
      BY <1>1, ClockStep
    <2>4. /\ grants[g] \in Grant /\ grants'[g] \in Grant
      BY <2>1, <2>2
    <2>5. /\ grants[g].used \in Nat /\ grants'[g].used \in Nat
          /\ grants[g].max \in Nat /\ grants[g].expires * Fraction \in Int
      BY <2>4 DEF Grant
    <2>6. grants[g].used >= grants[g].max => grants'[g].used >= grants'[g].max
      BY <2>2, <2>5
    <2>7. grants[g].expires * Fraction < clock => grants'[g].expires * Fraction < clock'
      BY <2>1, <2>2, <2>3, <2>5
    <2>8. grants[g].revoked # None => grants'[g].revoked # None
      BY <2>1, <2>2, SecondType
    <2>9. /\ Status(g) = "revoked" <=> grants[g].revoked # None
          /\ Status(g)' = "revoked" <=> grants'[g].revoked # None
      BY DEF Status
    <2>10. /\ Status(g) = "active" <=> /\ grants[g].revoked = None
                                      /\ ~(grants[g].used >= grants[g].max)
                                      /\ ~(grants[g].expires * Fraction < clock)
           /\ Status(g)' = "active" <=> /\ grants'[g].revoked = None
                                       /\ ~(grants'[g].used >= grants'[g].max)
                                       /\ ~(grants'[g].expires * Fraction < clock')
      BY DEF Status
    <2> QED
      BY <2>6, <2>7, <2>8, <2>9, <2>10
  <1>2. TypeInv /\ [Next]_vars => [A]_vars
    BY <1>1
  <1>3. Init => TypeInv
    BY TypeInit
  <1>4. TypeInv /\ [Next]_vars => TypeInv'
    BY TypeStep
  <1> QED
    BY <1>2, <1>3, <1>4, PTL DEF Spec, StatusIsFinal

-----------------------------------------------------------------------------
(***************************************************************************)
(* No double spend.  The counts are of finite sets; a redemption adds one    *)
(* handler and one use, and serving turns a handler into a profile.        *)
(***************************************************************************)
SpendInv == AuthInv /\ NoDoubleSpend

\* What a grant's row covers.
Covered(served, holding, row) ==
    /\ Cardinality(served) + Cardinality(holding) <= row.used
    /\ row.used <= row.max

\* The sets counted are finite.
LEMMA CountsAreFinite ==
  ASSUME TypeInv, NEW g
  PROVE  IsFiniteSet(Served(g)) /\ IsFiniteSet(Holding(g))
  <1>1. profiles \in Seq(Issued)
    BY DEF TypeInv, TypeOK
  <1>2. DOMAIN profiles = 1..Len(profiles) /\ Len(profiles) \in Int /\ 1 \in Int
    BY <1>1
  <1>3. IsFiniteSet(DOMAIN profiles)
    BY <1>2, FS_Interval
  <1>4. Served(g) \subseteq DOMAIN profiles /\ Holding(g) \subseteq Requests
    BY DEF Served, Holding
  <1> QED
    BY <1>3, <1>4, FS_Subset

\* A row stays covered when fewer handlers hold its uses.
LEMMA CoveredBySubset ==
  ASSUME NEW S, NEW H, IsFiniteSet(S), IsFiniteSet(H), NEW H2 \in SUBSET H,
         NEW x \in Grant, NEW y \in Grant, y.used = x.used, y.max = x.max,
         Covered(S, H, x)
  PROVE  Covered(S, H2, y)
  <1>1. Cardinality(H2) <= Cardinality(H) /\ IsFiniteSet(H2)
    BY FS_Subset
  <1>2. Cardinality(S) \in Nat /\ Cardinality(H) \in Nat /\ Cardinality(H2) \in Nat
    BY <1>1, FS_CardinalityType
  <1> QED
    BY <1>1, <1>2 DEF Covered, Grant

\* A row stays covered when a use is counted and a handler holds it.
LEMMA CoveredByUse ==
  ASSUME NEW S, NEW H, IsFiniteSet(S), IsFiniteSet(H), NEW r, r \notin H,
         NEW x \in Grant, NEW y \in Grant, y.used = x.used + 1, y.max = x.max,
         x.used < x.max, Covered(S, H, x)
  PROVE  Covered(S, H \cup {r}, y)
  <1>1. Cardinality(H \cup {r}) = Cardinality(H) + 1
    BY FS_AddElement
  <1>2. Cardinality(S) \in Nat /\ Cardinality(H) \in Nat
    BY FS_CardinalityType
  <1> QED
    BY <1>1, <1>2 DEF Covered, Grant

\* A row stays covered when a handler makes the profile its use is for.
LEMMA CoveredByServing ==
  ASSUME NEW S, NEW H, IsFiniteSet(S), IsFiniteSet(H), NEW r \in H, NEW n, n \notin S,
         NEW x \in Grant, Covered(S, H, x)
  PROVE  Covered(S \cup {n}, H \ {r}, x)
  <1>1. Cardinality(S \cup {n}) = Cardinality(S) + 1
    BY FS_AddElement
  <1>2. Cardinality(H \ {r}) = Cardinality(H) - 1
    BY FS_RemoveElement
  <1>3. Cardinality(S) \in Nat /\ Cardinality(H) \in Nat
    BY FS_CardinalityType
  <1> QED
    BY <1>1, <1>2, <1>3 DEF Covered, Grant

\* No grant, no use.
LEMMA SpendInit == Init => SpendInv
  BY AuthInit DEF Init, SpendInv, NoDoubleSpend

\* Every step keeps the uses covered.
LEMMA SpendStep == SpendInv /\ [Next]_vars => SpendInv'
  <1> SUFFICES ASSUME SpendInv, [Next]_vars PROVE SpendInv'
    OBVIOUS
  <1>1. AuthInv /\ AuthInv' /\ TypeInv /\ TypeInv'
    BY AuthStep DEF SpendInv, AuthInv
  <1>2. /\ request \in [Requests -> Request] /\ request' \in [Requests -> Request]
        /\ profiles \in Seq(Issued) /\ grants \in Seq(Grant) /\ grants' \in Seq(Grant)
    BY <1>1 DEF TypeInv, TypeOK
  <1>3. \A g \in DOMAIN grants : Covered(Served(g), Holding(g), grants[g])
    BY DEF SpendInv, NoDoubleSpend, Covered
  <1>4. \A g \in DOMAIN grants : /\ grants[g] \in Grant /\ g # 0
                                 /\ IsFiniteSet(Served(g)) /\ IsFiniteSet(Holding(g))
    BY <1>1, <1>2, CountsAreFinite
  <1> DEFINE Goal == \A g \in DOMAIN grants' : Covered(Served(g)', Holding(g)', grants'[g])
  <1>5. SUFFICES Goal
    BY <1>1 DEF SpendInv, NoDoubleSpend, Covered
  <1> HIDE DEF Goal
  \* Steps that end handlers and change no count.
  <1>6. ASSUME profiles' = profiles,
               \A r \in Requests : request'[r].pc = "serve" =>
                   request'[r] = request[r] \/ request'[r].grant = 0,
               DOMAIN grants' = DOMAIN grants,
               \A g \in DOMAIN grants : /\ grants'[g].used = grants[g].used
                                        /\ grants'[g].max = grants[g].max
        PROVE  Goal
    <2> SUFFICES ASSUME NEW g \in DOMAIN grants
                 PROVE  Covered(Served(g)', Holding(g)', grants'[g])
      BY <1>6 DEF Goal
    <2>1. Served(g)' = Served(g)
      BY <1>6 DEF Served
    <2>2. Holding(g)' \in SUBSET Holding(g)
      BY <1>4, <1>6 DEF Holding
    <2>3. grants'[g] \in Grant
      BY <1>2, <1>6
    <2> QED
      BY <1>3, <1>4, <1>6, <2>1, <2>2, <2>3, CoveredBySubset
  <1>7. ASSUME NEW o \in Owners, NEW n \in UsesInput, NEW h \in HoursInput,
               CreateGrant(o, n, h)
        PROVE  Goal
    <2>1. /\ grants' = Append(grants, NewGrant(o, n, h))
          /\ request' = request /\ profiles' = profiles
      BY <1>7 DEF CreateGrant, serving
    <2>2. NewGrant(o, n, h) \in Grant /\ NewGrant(o, n, h).used = 0
      BY <1>1, NewGrantType DEF TypeInv, TypeOK, NewGrant
    <2>n. PICK new \in Nat : new = Len(grants) + 1
      BY <1>2
    <2>3. /\ \A g \in DOMAIN grants : grants'[g] = grants[g]
          /\ grants'[new] = NewGrant(o, n, h)
          /\ \A g \in DOMAIN grants' : g \in DOMAIN grants \/ g = new
          /\ new \notin DOMAIN grants /\ new # 0
      BY <1>2, <2>1, <2>2, <2>n
    <2>4. \A g : Served(g)' = Served(g) /\ Holding(g)' = Holding(g)
      BY <2>1 DEF Served, Holding
    <2>5. /\ \A r \in Requests : request[r].pc = "serve" => request[r].grant # new
          /\ \A k \in DOMAIN profiles : profiles[k].grant # new
      BY <1>1, <2>3 DEF AuthInv, AuthorizedInv, Authorized, Terms
    <2>6. Served(new) = {} /\ Holding(new) = {}
      BY <2>5 DEF Served, Holding
    <2>7. Covered({}, {}, NewGrant(o, n, h))
      BY <2>2, FS_EmptySet DEF Covered, Grant
    <2>8. Covered(Served(new)', Holding(new)', grants'[new])
      BY <2>3, <2>4, <2>6, <2>7
    <2>9. \A g \in DOMAIN grants : Covered(Served(g)', Holding(g)', grants'[g])
      BY <1>3, <2>3, <2>4
    <2> QED
      BY <2>3, <2>8, <2>9 DEF Goal
  <1>8. ASSUME NEW g \in DOMAIN grants, RevokeGrant(g)
        PROVE  Goal
    <2>1. /\ grants' = [grants EXCEPT ![g].revoked = Second(clock)]
          /\ request' = request /\ profiles' = profiles
      BY <1>8 DEF RevokeGrant, serving
    <2>2. /\ DOMAIN grants' = DOMAIN grants
          /\ \A k \in DOMAIN grants : k # g => grants'[k] = grants[k]
          /\ grants'[g] = [grants[g] EXCEPT !.revoked = Second(clock)]
      BY <1>2, <2>1
    <2>3. grants'[g].used = grants[g].used /\ grants'[g].max = grants[g].max
      BY <1>4, <2>2 DEF Grant
    <2> QED
      BY <1>6, <2>1, <2>2, <2>3
  <1>9. ASSUME NEW r \in Requests, NEW g \in DOMAIN grants, RedeemGrant(r, g)
        PROVE  Goal
    <2> DEFINE x == [pc |-> "serve", grant |-> g, owner |-> grants[g].owner,
                     at |-> Second(clock)]
    <2>1. /\ grants' = [grants EXCEPT ![g].used = @ + 1]
          /\ request' = [request EXCEPT ![r] = x]
          /\ profiles' = profiles /\ request[r].pc = "idle"
          /\ grants[g].used < grants[g].max
      BY <1>9 DEF RedeemGrant, Arrive, Redeemable
    <2>2. /\ DOMAIN grants' = DOMAIN grants
          /\ \A k \in DOMAIN grants : k # g => grants'[k] = grants[k]
          /\ grants'[g] = [grants[g] EXCEPT !.used = @ + 1]
          /\ grants'[g] \in Grant
      BY <1>2, <2>1
    <2>3. grants'[g].used = grants[g].used + 1 /\ grants'[g].max = grants[g].max
      BY <1>4, <2>2 DEF Grant
    <2>4. x.pc = "serve" /\ x.grant = g
      OBVIOUS
    <2> HIDE DEF x
    <2>5. /\ \A k \in Requests : request'[k] = IF k = r THEN x ELSE request[k]
      BY <1>2, <2>1
    <2>6. \A k : Served(k)' = Served(k)
      BY <2>1 DEF Served
    <2>7. r \notin Holding(g) /\ Holding(g)' = Holding(g) \cup {r}
      BY <2>1, <2>4, <2>5 DEF Holding
    <2>8. \A k \in DOMAIN grants : k # g => Holding(k)' = Holding(k)
      BY <2>1, <2>4, <2>5 DEF Holding
    <2>9. Covered(Served(g)', Holding(g)', grants'[g])
      BY <1>3, <1>4, <2>1, <2>2, <2>3, <2>6, <2>7, CoveredByUse
    <2> QED
      BY <1>3, <2>2, <2>6, <2>8, <2>9 DEF Goal
  <1>10. ASSUME NEW r \in Requests, ServeProfile(r)
         PROVE  Goal
    <2>0. PICK g \in Nat, n \in Nat : g = request[r].grant /\ n = Len(profiles) + 1
      BY <1>2 DEF Request
    <2> DEFINE x == [grant |-> request[r].grant, owner |-> request[r].owner,
                     at |-> request[r].at, topic |-> setting.topic]
    <2>1. /\ request[r].pc = "serve" /\ setting.topic # None
          /\ request' = [request EXCEPT ![r] = IdleRequest]
          /\ profiles' = Append(profiles, x) /\ grants' = grants
      BY <1>10 DEF ServeProfile
    <2>2. x \in Issued /\ x.grant = g
      BY <1>1, <1>2, <2>0, <2>1 DEF TypeInv, TypeOK, Request, Issued
    <2> HIDE DEF x
    <2>3. /\ DOMAIN profiles' = DOMAIN profiles \cup {n} /\ n \notin DOMAIN profiles
          /\ \A k \in DOMAIN profiles : profiles'[k] = profiles[k]
          /\ profiles'[n] = x
      BY <1>2, <2>0, <2>1, <2>2
    <2>4. \A k \in Requests : request'[k] = IF k = r THEN IdleRequest ELSE request[k]
      BY <1>2, <2>1
    <2>5. /\ n \notin Served(g) /\ Served(g)' = Served(g) \cup {n}
      BY <2>2, <2>3 DEF Served
    <2>6. /\ r \in Holding(g) /\ Holding(g)' = Holding(g) \ {r}
      BY <2>0, <2>1, <2>4 DEF Holding, IdleRequest
    <2>7. \A k \in DOMAIN grants : k # g => Served(k)' = Served(k)
      BY <2>2, <2>3 DEF Served
    <2>8. \A k \in DOMAIN grants : k # g => Holding(k)' = Holding(k)
      BY <2>0, <2>1, <2>4 DEF Holding, IdleRequest
    <2>9. g \in DOMAIN grants => Covered(Served(g)', Holding(g)', grants[g])
      BY <1>3, <1>4, <2>5, <2>6, CoveredByServing
    <2> QED
      BY <1>3, <2>1, <2>7, <2>8, <2>9 DEF Goal
  <1>11. CASE Crash
    BY <1>6, <1>11 DEF Crash, IdleRequest
  <1>12. CASE Tick
    BY <1>6, <1>12 DEF Tick, serving
  <1>13. ASSUME NEW r \in Requests, ServeOpen(r)
         PROVE  Goal
    <2>1. /\ request' = [request EXCEPT ![r] = [IdleRequest EXCEPT
                            !.pc = "serve", !.at = Second(clock)]]
          /\ grants' = grants /\ profiles' = profiles
      BY <1>13 DEF ServeOpen
    <2>2. \A k \in Requests : request'[k] = request[k] \/ request'[k].grant = 0
      BY <1>2, <2>1 DEF IdleRequest
    <2> QED
      BY <1>6, <2>1, <2>2
  <1>14. ASSUME NEW r \in Requests, NotReady(r) \/ ServeFails(r)
         PROVE  Goal
    <2>1. /\ request' = [request EXCEPT ![r] = IdleRequest]
          /\ grants' = grants /\ profiles' = profiles
      BY <1>14 DEF NotReady, ServeFails, Refuse
    <2>2. \A k \in Requests : request'[k] = request[k] \/ request'[k].grant = 0
      BY <1>2, <2>1 DEF IdleRequest
    <2> QED
      BY <1>6, <2>1, <2>2
  <1>15. ASSUME NEW i \in Importers, Import(i)
         PROVE  Goal
    <2>1. request' = request /\ profiles' = profiles /\ grants' = grants
      BY <1>15 DEF Import, RunPushcertImport, ImportPushCert, RunImport, StorePushCert,
            ImportDevices, SetTopic, SetNotAfter, UpsertAPNSTopic, ImportEnds,
            ImportStops, serving, console
    <2> QED
      BY <1>6, <2>1
  <1>16. CASE UNCHANGED vars
    BY <1>6, <1>16 DEF vars
  <1>17. Goal
    BY <1>7, <1>8, <1>9, <1>10, <1>11, <1>12, <1>13, <1>14, <1>15, <1>16
       DEF Next, Console, Handle
  <1> QED
    BY <1>17 DEF Goal

\* However redemptions, revocations, failures and crashes interleave, a grant
\* never gives more profiles than the operator allowed.
THEOREM NeverDoubleSpent == Spec => []NoDoubleSpend
  <1>1. SpendInv => NoDoubleSpend
    BY DEF SpendInv
  <1> QED
    BY <1>1, SpendInit, SpendStep, PTL DEF Spec

-----------------------------------------------------------------------------
(***************************************************************************)
(* Topics.  A stored topic stays stored, so whatever publishes one only has *)
(* to have stored it first.                                                *)
(***************************************************************************)
Reach(certs) == {c.topic : c \in certs}

\* The topics a command is about to publish can be reached.
Publishes(local, T) ==
    /\ local.pc \in {"topic", "expiry"} => local.cert.topic \in T
    /\ \A t \in local.meta : t.topic \in T

CommandsReach(locals, T) == \A i \in Importers : Publishes(locals[i], T)

PublishedReach(ps, set, listed, T) ==
    /\ \A n \in DOMAIN ps : ps[n].topic \in T
    /\ set.topic # None => set.topic \in T
    /\ \A t \in listed : t.topic \in T

TopicInv == /\ TypeInv
            /\ CommandsReach(importer, Reach(stored))
            /\ PublishedReach(profiles, setting, apnsTopics, Reach(stored))

\* Nothing is published initially.
LEMMA TopicInit == Init => TopicInv
  BY TypeInit DEF Init, TopicInv, CommandsReach, Publishes, PublishedReach, IdleImporter

\* Storing a certificate keeps every topic and adds its own.
LEMMA StoringKeeps ==
  ASSUME NEW c, stored' = With(c)
  PROVE  Reach(stored) \subseteq Reach(stored') /\ c.topic \in Reach(stored')
  BY DEF With, Reach

\* A command that stores, or leaves the certificates alone, keeps every topic.
LEMMA ImportKeeps ==
  ASSUME NEW i \in Importers, Import(i)
  PROVE  Reach(stored) \subseteq Reach(stored')
  <1>1. stored' = stored \/ \E c : stored' = With(c)
    BY DEF Import, RunPushcertImport, ImportPushCert, RunImport, StorePushCert,
          ImportDevices, SetTopic, SetNotAfter, UpsertAPNSTopic, ImportEnds, ImportStops
  <1> QED
    BY <1>1, StoringKeeps

\* Setting a command's locals to ones that publish what can be reached.
LEMMA CommandAt ==
  ASSUME TopicInv, NEW T, Reach(stored) \subseteq T, NEW i \in Importers, NEW local,
         At(i, local), Publishes(local, T)
  PROVE  CommandsReach(importer', T)
  <1>1. importer \in [Importers -> Importer]
    BY DEF TopicInv, TypeInv, TypeOK
  <1>2. \A j \in Importers : importer'[j] = IF j = i THEN local ELSE importer[j]
    BY <1>1 DEF At
  <1>3. \A j \in Importers : Publishes(importer[j], T)
    BY DEF TopicInv, CommandsReach, Publishes
  <1> QED
    BY <1>2, <1>3 DEF CommandsReach

\* An idle command publishes nothing.
LEMMA IdlePublishes == \A T : Publishes(IdleImporter, T)
  BY DEF Publishes, IdleImporter

\* The commands keep every published topic stored.
LEMMA TopicImport ==
  ASSUME TopicInv, TypeInv', NEW i \in Importers, Import(i)
  PROVE  TopicInv'
  <1> DEFINE T == Reach(stored')
             m == importer[i]
  <1>1. Reach(stored) \subseteq T
    BY ImportKeeps
  <1>2. m \in Importer /\ Publishes(m, T)
    BY <1>1 DEF TopicInv, TypeInv, TypeOK, CommandsReach, Publishes
  <1>3. PublishedReach(profiles, setting, apnsTopics, T)
    BY <1>1 DEF TopicInv, PublishedReach
  <1>4. SUFFICES /\ CommandsReach(importer', T)
                 /\ PublishedReach(profiles', setting', apnsTopics', T)
    BY DEF TopicInv
  <1> HIDE DEF T
  <1>5. ASSUME NEW c \in Certs, RunPushcertImport(i, c)
        PROVE  CommandsReach(importer', T) /\ setting' = setting /\ apnsTopics' = apnsTopics
    <2>1. Publishes([IdleImporter EXCEPT !.pc = "store", !.cert = c], T)
      BY DEF Publishes, IdleImporter
    <2> QED
      BY <1>1, <1>5, <2>1, CommandAt DEF RunPushcertImport
  <1>6. ASSUME NEW C \in SUBSET Certs, RunImport(i, C)
        PROVE  CommandsReach(importer', T) /\ setting' = setting /\ apnsTopics' = apnsTopics
    <2>1. Publishes([IdleImporter EXCEPT !.pc = "store", !.todo = C], T)
      BY DEF Publishes, IdleImporter
    <2> QED
      BY <1>1, <1>6, <2>1, CommandAt DEF RunImport
  <1>7. CASE StorePushCert(i)
    <2>1. m.cert.topic \in T
      BY <1>7, StoringKeeps DEF StorePushCert, T
    <2>2. Publishes([m EXCEPT !.pc = "topic", !.meta = {Meta(m.cert)}], T)
      BY <1>2, <2>1 DEF Publishes, Meta, Importer
    <2>3. CommandsReach(importer', T)
      BY <1>1, <1>7, <2>2, CommandAt DEF StorePushCert
    <2> QED
      BY <1>3, <1>7, <2>3 DEF StorePushCert, serving
  <1>8. ASSUME NEW c \in Certs, ImportPushCert(i, c)
        PROVE  CommandsReach(importer', T) /\ setting' = setting /\ apnsTopics' = apnsTopics
    <2>1. CASE Valid(c)
      <3>1. c.topic \in T
        BY <1>8, <2>1, StoringKeeps DEF ImportPushCert, T
      <3>2. Publishes([m EXCEPT !.todo = @ \ {c}, !.meta = @ \cup {Meta(c)}], T)
        BY <1>2, <1>8, <3>1 DEF Publishes, Meta, Importer, ImportPushCert
      <3> QED
        BY <1>1, <1>8, <2>1, <3>2, CommandAt DEF ImportPushCert
    <2>2. CASE ~ Valid(c)
      BY <1>1, <1>8, <2>2, IdlePublishes, CommandAt DEF ImportPushCert
    <2> QED
      BY <2>1, <2>2
  <1>9. CASE ImportDevices(i)
    <2>1. Publishes([m EXCEPT !.pc = "list"], T)
      BY <1>2 DEF Publishes, Importer
    <2>2. CommandsReach(importer', T)
      BY <1>1, <1>9, <2>1, CommandAt DEF ImportDevices
    <2> QED
      BY <1>3, <1>9, <2>2 DEF ImportDevices, serving
  <1>10. CASE SetTopic(i)
    <2>1. m.cert.topic \in T
      BY <1>2, <1>10 DEF SetTopic, Publishes
    <2>2. Publishes([m EXCEPT !.pc = "expiry"], T)
      BY <1>2, <2>1 DEF Publishes, Importer
    <2>3. CommandsReach(importer', T)
      BY <1>1, <1>10, <2>2, CommandAt DEF SetTopic
    <2>4. setting'.topic = m.cert.topic
      BY <1>10 DEF SetTopic, TopicInv, TypeInv, TypeOK
    <2> QED
      BY <1>3, <1>10, <2>1, <2>3, <2>4 DEF SetTopic, PublishedReach, serving
  <1>11. CASE SetNotAfter(i)
    <2>1. Publishes([m EXCEPT !.pc = "list"], T)
      BY <1>2 DEF Publishes, Importer
    <2>2. CommandsReach(importer', T)
      BY <1>1, <1>11, <2>1, CommandAt DEF SetNotAfter
    <2>3. setting'.topic = setting.topic
      BY <1>11 DEF SetNotAfter, TopicInv, TypeInv, TypeOK
    <2> QED
      BY <1>3, <1>11, <2>2, <2>3 DEF SetNotAfter, PublishedReach, serving
  <1>12. ASSUME NEW t \in m.meta, UpsertAPNSTopic(i, t)
         PROVE  /\ CommandsReach(importer', T)
                /\ PublishedReach(profiles', setting', apnsTopics', T)
    <2>1. t.topic \in T
      BY <1>2 DEF Publishes
    <2>2. Publishes([m EXCEPT !.meta = @ \ {t}], T)
      BY <1>2 DEF Publishes, Importer
    <2>3. At(i, IdleImporter) \/ At(i, [m EXCEPT !.meta = @ \ {t}])
      BY <1>12 DEF UpsertAPNSTopic
    <2>4. CommandsReach(importer', T)
      BY <1>1, <2>2, <2>3, IdlePublishes, CommandAt
    <2> QED
      BY <1>3, <1>12, <2>1, <2>4 DEF UpsertAPNSTopic, PublishedReach, serving
  <1>13. CASE ImportEnds(i) \/ ImportStops(i)
    <2>1. CommandsReach(importer', T)
      BY <1>1, <1>13, IdlePublishes, CommandAt DEF ImportEnds, ImportStops
    <2> QED
      BY <1>3, <1>13, <2>1 DEF ImportEnds, ImportStops, serving
  <1>14. ASSUME NEW c \in Certs, RunPushcertImport(i, c) \/ ImportPushCert(i, c)
         PROVE  profiles' = profiles
    BY <1>14 DEF RunPushcertImport, ImportPushCert, serving
  <1>15. ASSUME NEW C \in SUBSET Certs, RunImport(i, C)
         PROVE  profiles' = profiles
    BY <1>15 DEF RunImport, serving
  <1> QED
    BY <1>3, <1>5, <1>6, <1>7, <1>8, <1>9, <1>10, <1>11, <1>12, <1>13, <1>14, <1>15
       DEF Import

\* Every step keeps every published topic stored.
LEMMA TopicStep == TopicInv /\ [Next]_vars => TopicInv'
  <1> SUFFICES ASSUME TopicInv, [Next]_vars PROVE TopicInv'
    OBVIOUS
  <1>1. TypeInv /\ TypeInv'
    BY TypeStep DEF TopicInv
  <1>2. CASE \E i \in Importers : Import(i)
    BY <1>1, <1>2, TopicImport
  <1>3. ASSUME NEW r \in Requests, ServeProfile(r)
        PROVE  TopicInv'
    <2> DEFINE x == [grant |-> request[r].grant, owner |-> request[r].owner,
                     at |-> request[r].at, topic |-> setting.topic]
    <2>1. /\ profiles' = Append(profiles, x) /\ setting.topic # None
          /\ UNCHANGED <<stored, setting, apnsTopics, importer>>
      BY <1>3 DEF ServeProfile, pushing
    <2>2. x.topic \in Reach(stored)
      BY <2>1 DEF TopicInv, PublishedReach
    <2>3. profiles \in Seq(Issued) /\ x \in Issued
      BY <1>1, <2>1 DEF TypeInv, TypeOK, Request, Issued
    <2> HIDE DEF x
    <2>4. \A n \in DOMAIN profiles' : profiles'[n].topic \in Reach(stored)
      <3>1. \A n \in DOMAIN profiles' :
               \/ n \in DOMAIN profiles /\ profiles'[n] = profiles[n]
               \/ profiles'[n] = x
        BY <2>1, <2>3
      <3> QED
        BY <2>2, <3>1 DEF TopicInv, PublishedReach
    <2>5. PublishedReach(profiles', setting', apnsTopics', Reach(stored'))
      BY <2>1, <2>4 DEF TopicInv, PublishedReach
    <2> QED
      BY <1>1, <2>1, <2>5 DEF TopicInv
  <1>4. CASE /\ ~ \E i \in Importers : Import(i)
             /\ ~ \E r \in Requests : ServeProfile(r)
    <2>1. UNCHANGED <<profiles, stored, setting, apnsTopics, importer>>
      BY <1>4 DEF Next, Tick, Console, CreateGrant, RevokeGrant, Crash, Handle, ServeOpen,
            RedeemGrant, NotReady, ServeFails, Refuse, pushing, serving, vars
    <2> QED
      BY <1>1, <2>1 DEF TopicInv
  <1> QED
    BY <1>2, <1>3, <1>4

\* Whatever the imports do, together, half way or on certificates that expire,
\* every topic in a profile, in the settings or on the dashboard is one whose
\* certificate is stored.
THEOREM TopicsAlwaysPushable == Spec => []TopicsArePushable
  <1>1. TopicInv => TopicsArePushable
    BY DEF TopicInv, PublishedReach, Reach, TopicsArePushable, Pushable
  <1> QED
    BY <1>1, TopicInit, TopicStep, PTL DEF Spec
=============================================================================
