--------------------------- MODULE AccountsProofs ---------------------------
(***************************************************************************)
(* Theorems about Accounts: types, the lockout, revoked and purged         *)
(* sessions, the cap, the abstract store Leases, the last admin and what   *)
(* outlives a credential, for any number of users, handlers and commands   *)
(* and any policy.                                                         *)
(***************************************************************************)
EXTENDS Accounts, FiniteSetTheorems, TLAPS

USE AccountsAssumption

-----------------------------------------------------------------------------
(***************************************************************************)
(* Types.  A handler past the login form knows its user, and past the      *)
(* password its role; a command at work knows its user.                    *)
(***************************************************************************)
LocalInv ==
    /\ \A r \in Requests :
          /\ request[r].pc \in {"verify", "rejected", "accepted", "create"} =>
                request[r].user \in Users
          /\ request[r].pc \in {"accepted", "create"} => request[r].role \in Roles
    /\ \A c \in Commands : command[c].pc # "idle" => command[c].user \in Users

TypeInv == TypeOK /\ LocalInv

\* Times are natural numbers, stored ones too.
LEMMA TimeType ==
  /\ \A t \in Nat : Stored(t) \in Nat
  /\ Ticks(Ttl) \in Nat /\ Ticks(MaxLifetime) \in Nat
  /\ Ticks(Window) \in Nat /\ Ticks(Lockout) \in Nat
  <1>1. \A t \in Nat : t % Fraction \in Nat /\ t % Fraction <= t
    <2> SUFFICES ASSUME NEW t \in Nat PROVE t % Fraction \in Nat /\ t % Fraction <= t
      OBVIOUS
    <2>1. Fraction \in Nat \ {0}
      OBVIOUS
    <2> QED
      BY <2>1, SMT
  <1>2. {Ttl, MaxLifetime, Window, Lockout, Fraction} \subseteq Nat
    OBVIOUS
  <1>3. \A a, b \in Nat : a * b \in Nat
    BY SMT
  <1> QED
    BY <1>1, <1>2, <1>3 DEF Stored, Ticks

LEMMA IdleType == IdleRequest \in Request /\ IdleCommand \in Command
  BY DEF IdleRequest, Request, IdleCommand, Command

LEMMA TypeInit == Init => TypeInv
  BY IdleType DEF Init, TypeInv, TypeOK, LocalInv, IdleRequest, IdleCommand

\* One handler's step, whatever its outcome.
LEMMA RequestType ==
  ASSUME TypeInv, NEW r \in Requests, NEW local \in Request,
         request' = [request EXCEPT ![r] = local], UNCHANGED command,
         local.pc \in {"verify", "rejected", "accepted", "create"} => local.user \in Users,
         local.pc \in {"accepted", "create"} => local.role \in Roles
  PROVE  request' \in [Requests -> Request] /\ LocalInv'
  BY DEF TypeInv, TypeOK, LocalInv

\* One command's step.
LEMMA CommandType ==
  ASSUME TypeInv, NEW c \in Commands, NEW local \in Command,
         command' = [command EXCEPT ![c] = local], UNCHANGED request,
         local.pc # "idle" => local.user \in Users
  PROVE  command' \in [Commands -> Command] /\ LocalInv'
  BY DEF TypeInv, TypeOK, LocalInv

\* A failure counted into an entry, or into none.
LEMMA CountedType ==
  ASSUME clock \in Nat, NEW e \in Entry \cup {None}
  PROVE  Counted(e) \in Entry
  <1>1. CASE e = None \/ clock - e.start > Ticks(Window)
    BY <1>1, TimeType DEF Counted, Entry
  <1>2. CASE ~(e = None \/ clock - e.start > Ticks(Window))
    BY <1>2, TimeType DEF Counted, Entry
  <1> QED
    BY <1>1, <1>2

\* Logging in keeps the types.
LEMMA LoginType ==
  ASSUME TypeInv, NEW r \in Requests,
         \/ \E u \in Users : \E p \in Typed(u) : Login(r, u, p)
         \/ Verify(r) \/ RecordFailure(r) \/ RecordSuccess(r)
  PROVE  TypeInv'
  <1> DEFINE m == request[r]
  <1>0. /\ m \in Request /\ accounts \in [Users -> Account \cup {None}]
        /\ throttle \in [Users -> Entry \cup {None}]
        /\ clock \in Nat /\ logins \in Nat /\ faults \in Nat
    BY DEF TypeInv, TypeOK
  <1>1. ASSUME NEW u \in Users, NEW p \in Typed(u), Login(r, u, p)
        PROVE  TypeInv'
    <2>1. p \in Nat
      BY <1>0 DEF Typed, Account
    <2>2. /\ Attempt(u, p) \in Request
          /\ Attempt(u, p).pc = "verify" /\ Attempt(u, p).user = u
      BY <2>1 DEF Attempt, IdleRequest, Request
    <2>3. request' \in [Requests -> Request] /\ LocalInv'
      BY <1>1, <2>2, RequestType DEF Login, admin
    <2>4. logins' = logins + 1 /\ logins' \in Nat
      BY <1>0, <1>1 DEF Login
    <2> QED
      BY <1>1, <2>3, <2>4, SMTT(30) DEF Login, admin, TypeInv, TypeOK
  <1>2. CASE Verify(r)
    <2>1. m.user \in Users
      BY <1>2 DEF Verify, TypeInv, LocalInv
    <2>2. Rejected(m.user) \in Request /\ Rejected(m.user).pc = "rejected"
          /\ Rejected(m.user).user = m.user
      BY <2>1 DEF Rejected, IdleRequest, Request
    <2>3. \A role \in Roles :
             /\ [m EXCEPT !.pc = "accepted", !.role = role] \in Request
             /\ [m EXCEPT !.pc = "accepted", !.role = role].user = m.user
             /\ [m EXCEPT !.pc = "accepted", !.role = role].role = role
      BY <1>0 DEF Request
    <2>4. UNCHANGED command
      BY <1>2 DEF Verify, admin
    <2> DEFINE accept(role) == [m EXCEPT !.pc = "accepted", !.role = role]
    <2>5. \/ request' = [request EXCEPT ![r] = Rejected(m.user)]
          \/ /\ accounts[m.user] # None
             /\ request' = [request EXCEPT ![r] = accept(accounts[m.user].role)]
      BY <1>2 DEF Verify
    <2>6. request' \in [Requests -> Request] /\ LocalInv'
      <3>1. CASE request' = [request EXCEPT ![r] = Rejected(m.user)]
        <4> DEFINE local == Rejected(m.user)
        <4>1. /\ local \in Request /\ local.pc = "rejected" /\ local.user \in Users
              /\ request' = [request EXCEPT ![r] = local]
          BY <2>1, <2>2, <3>1
        <4> HIDE DEF local
        <4> QED
          BY <2>4, <4>1, RequestType
      <3>2. CASE /\ accounts[m.user] # None
                 /\ request' = [request EXCEPT ![r] = accept(accounts[m.user].role)]
        <4> DEFINE local == accept(accounts[m.user].role)
        <4>1. accounts[m.user].role \in Roles
          BY <1>0, <2>1, <3>2 DEF Account
        <4>2. /\ local \in Request /\ local.pc = "accepted"
              /\ local.user \in Users /\ local.role \in Roles
          BY <2>1, <2>3, <4>1 DEF Request
        <4>3. request' = [request EXCEPT ![r] = local]
          BY <3>2
        <4> HIDE DEF local
        <4> QED
          BY <2>4, <4>2, <4>3, RequestType
      <3> QED
        BY <2>5, <3>1, <3>2
    <2>7. faults' \in Nat
      BY <1>0, <1>2 DEF Verify, Fault
    <2> QED
      BY <1>2, <2>6, <2>7, SMTT(30) DEF Verify, admin, TypeInv, TypeOK
  <1>3. CASE RecordFailure(r)
    <2>1. m.user \in Users
      BY <1>3 DEF RecordFailure, TypeInv, LocalInv
    <2>2. request' \in [Requests -> Request] /\ LocalInv'
      BY <1>3, IdleType, RequestType DEF RecordFailure, admin, IdleRequest
    <2>3. Counted(throttle[m.user]) \in Entry
      BY <1>0, <2>1, CountedType
    <2>4. throttle' \in [Users -> Entry \cup {None}]
      BY <1>0, <1>3, <2>3 DEF RecordFailure
    <2> QED
      BY <1>3, <2>2, <2>4, SMTT(30) DEF RecordFailure, admin, TypeInv, TypeOK
  <1>4. CASE RecordSuccess(r)
    <2> DEFINE local == [m EXCEPT !.pc = "create"]
    <2>1. /\ local \in Request /\ local.pc = "create"
          /\ local.user = m.user /\ local.role = m.role
      BY <1>0 DEF Request
    <2>2. m.user \in Users /\ m.role \in Roles
      BY <1>4 DEF RecordSuccess, TypeInv, LocalInv
    <2>3. request' = [request EXCEPT ![r] = local]
      BY <1>4 DEF RecordSuccess
    <2>4. request' \in [Requests -> Request] /\ LocalInv'
      BY <1>4, <2>1, <2>2, <2>3, RequestType DEF RecordSuccess, admin
    <2>5. throttle' \in [Users -> Entry \cup {None}]
      BY <1>0, <1>4 DEF RecordSuccess
    <2> QED
      BY <1>4, <2>4, <2>5, SMTT(30) DEF RecordSuccess, admin, TypeInv, TypeOK
  <1> QED
    BY <1>1, <1>2, <1>3, <1>4

\* Opening, renewing and deleting sessions keeps the types.
LEMMA SessionType ==
  ASSUME TypeInv, NEW r \in Requests,
         \/ CreateSession(r) \/ Renew(r) \/ Drop(r)
         \/ \E s \in sessions, logout \in BOOLEAN : Get(r, s, logout)
  PROVE  TypeInv'
  <1> DEFINE m == request[r]
  <1>0. /\ m \in Request /\ clock \in Nat /\ issued \in Nat /\ faults \in Nat
        /\ sessions \subseteq Session
    BY DEF TypeInv, TypeOK
  <1>1. CASE CreateSession(r)
    <2>1. m.user \in Users /\ m.role \in Roles /\ m.password \in Nat
      BY <1>0, <1>1 DEF CreateSession, TypeInv, LocalInv, Request
    <2>2. request' \in [Requests -> Request] /\ LocalInv'
      BY <1>1, IdleType, RequestType DEF CreateSession, admin, IdleRequest
    <2>3. issued' \in Nat /\ faults' \in Nat
      BY <1>0, <1>1 DEF CreateSession, Fault
    <2>4. Stored(clock) \in Nat /\ Stored(clock + Ticks(Ttl)) \in Nat
      BY <1>0, TimeType
    <2>5. [token |-> issued', user |-> m.user, role |-> m.role,
           password |-> m.password, fresh |-> Current(m.user, m.password),
           created |-> Stored(clock), expires |-> Stored(clock + Ticks(Ttl))] \in Session
      <3>1. Current(m.user, m.password) \in BOOLEAN
        BY DEF Current
      <3> QED
        BY <2>1, <2>3, <2>4, <3>1 DEF Session
    <2>6. sessions' \subseteq Session
      BY <1>0, <1>1, <2>5 DEF CreateSession
    <2> QED
      BY <1>1, <2>2, <2>3, <2>6, SMTT(30) DEF CreateSession, admin, TypeInv, TypeOK
  <1>2. CASE Renew(r)
    <2>1. m.expires \in Nat
      BY <1>0 DEF Request
    <2>2. \A s \in Session : [s EXCEPT !.expires = m.expires] \in Session
      BY <2>1 DEF Session
    <2>3. sessions' \subseteq Session
      BY <1>0, <1>2, <2>2 DEF Renew
    <2> DEFINE local == IF m.logout THEN [m EXCEPT !.pc = "drop"] ELSE IdleRequest
    <2>4. local \in Request /\ local.pc \in {"idle", "drop"}
      BY <1>0, IdleType DEF Request, IdleRequest
    <2>5. request' = [request EXCEPT ![r] = local]
      BY <1>2 DEF Renew, AfterRenew
    <2>6. UNCHANGED command
      BY <1>2 DEF Renew, admin
    <2>7. request' \in [Requests -> Request] /\ LocalInv'
      BY <2>4, <2>5, <2>6, RequestType
    <2>8. faults' \in Nat
      BY <1>0, <1>2 DEF Renew, Fault
    <2> QED
      BY <1>2, <2>3, <2>7, <2>8, SMTT(30) DEF Renew, admin, TypeInv, TypeOK
  <1>3. CASE Drop(r)
    <2>1. request' \in [Requests -> Request] /\ LocalInv'
      BY <1>3, IdleType, RequestType DEF Drop, admin, IdleRequest
    <2>2. faults' \in Nat /\ sessions' \subseteq Session
      BY <1>0, <1>3 DEF Drop, Fault
    <2> QED
      BY <1>3, <2>1, <2>2, SMTT(30) DEF Drop, admin, TypeInv, TypeOK
  <1>4. ASSUME NEW s \in sessions, NEW logout \in BOOLEAN, Get(r, s, logout)
        PROVE  TypeInv'
    <2>1. s \in Session
      BY <1>0
    <2>2. Slid(s) \in Nat
      BY <1>0, <2>1, TimeType DEF Slid, Cap, Session
    <2>3. Stored(Slid(s)) \in Nat
      BY <2>2, TimeType
    <2>4. \A pc \in {"drop", "renew"}, e \in Nat, out \in BOOLEAN :
             /\ Using(s, pc, e, out) \in Request
             /\ Using(s, pc, e, out).pc = pc
      BY <2>1 DEF Using, IdleRequest, Request, Session
    <2>5. \E pc \in {"drop", "renew"}, e \in Nat, out \in BOOLEAN :
             request' = [request EXCEPT ![r] = Using(s, pc, e, out)]
      BY <1>4, <2>3 DEF Get
    <2>6. UNCHANGED command
      BY <1>4 DEF Get, admin
    <2>7. request' \in [Requests -> Request] /\ LocalInv'
      BY <2>4, <2>5, <2>6, RequestType
    <2> QED
      BY <1>4, <2>7, SMTT(30) DEF Get, admin, TypeInv, TypeOK
  <1> QED
    BY <1>1, <1>2, <1>3, <1>4

\* The commands keep the types.
LEMMA AdministerType ==
  ASSUME TypeInv, NEW c \in Commands, Administer(c)
  PROVE  TypeInv'
  <1> DEFINE m == command[c]
  <1>0. /\ m \in Command /\ accounts \in [Users -> Account \cup {None}]
        /\ passwords \in Nat /\ faults \in Nat /\ sessions \subseteq Session
        /\ m.pc # "idle" => m.user \in Users
    BY DEF TypeInv, TypeOK, LocalInv
  <1>1. ASSUME NEW u \in Users, AdminPasswd(c, u)
        PROVE  TypeInv'
    <2>1. passwords' \in Nat \ {0}
      BY <1>0, <1>1 DEF AdminPasswd, NewPassword
    <2>2. accounts[u] \in Account
      BY <1>0, <1>1 DEF AdminPasswd
    <2>3. [accounts[u] EXCEPT !.password = passwords'] \in Account
      BY <2>1, <2>2 DEF Account
    <2>4. accounts' = [accounts EXCEPT ![u] = [accounts[u] EXCEPT !.password = passwords']]
      BY <1>1 DEF AdminPasswd
    <2>5. accounts' \in [Users -> Account \cup {None}]
      BY <1>0, <2>3, <2>4
    <2> DEFINE local == [m EXCEPT !.pc = "revoke", !.user = u]
    <2>6. local \in Command /\ local.user = u
      BY <1>0 DEF Command
    <2>7. command' \in [Commands -> Command] /\ LocalInv'
      <3>1. command' = [command EXCEPT ![c] = local] /\ UNCHANGED request
        BY <1>1 DEF AdminPasswd, console
      <3> HIDE DEF local
      <3> QED
        BY <2>6, <3>1, CommandType
    <2> QED
      BY <1>1, <2>1, <2>5, <2>7, SMTT(30) DEF AdminPasswd, console, TypeInv, TypeOK
  <1>2. ASSUME NEW u \in Users, AdminDel(c, u)
        PROVE  TypeInv'
    <2> DEFINE local == [m EXCEPT !.pc = IF accounts[u].role = "admin" THEN "count"
                                         ELSE "delete", !.user = u]
    <2>1. local \in Command /\ local.user = u
      BY <1>0 DEF Command
    <2>2. command' \in [Commands -> Command] /\ LocalInv'
      <3>1. command' = [command EXCEPT ![c] = local] /\ UNCHANGED request
        BY <1>2 DEF AdminDel, console
      <3> HIDE DEF local
      <3> QED
        BY <2>1, <3>1, CommandType
    <2> QED
      BY <1>2, <2>2, SMTT(30) DEF AdminDel, console, TypeInv, TypeOK
  <1>3. CASE CountAdmins(c)
    <2>1. /\ [m EXCEPT !.pc = "delete"] \in Command
          /\ [m EXCEPT !.pc = "delete"].user = m.user
      BY <1>0 DEF Command
    <2>2. \/ command' = [command EXCEPT ![c] = IdleCommand]
          \/ command' = [command EXCEPT ![c] = [m EXCEPT !.pc = "delete"]]
      BY <1>3 DEF CountAdmins
    <2>3. m.user \in Users /\ UNCHANGED request
      BY <1>0, <1>3 DEF CountAdmins, console
    <2>4. command' \in [Commands -> Command] /\ LocalInv'
      BY <2>1, <2>2, <2>3, IdleType, CommandType DEF IdleCommand
    <2> QED
      BY <1>3, <2>4, SMTT(30) DEF CountAdmins, console, TypeInv, TypeOK
  <1>4. CASE DeleteUser(c)
    <2> DEFINE local == [pc |-> "revoke", user |-> m.user, overtaken |-> FALSE]
    <2>1. m.user \in Users /\ local \in Command
      BY <1>0, <1>4 DEF DeleteUser, Command
    <2>2. command' = Overtaking(c, local) /\ UNCHANGED request
      BY <1>4 DEF DeleteUser, console
    <2>3. \A d \in Commands : command[d] \in Command
      BY DEF TypeInv, TypeOK
    <2>4. command' \in [Commands -> Command] /\ LocalInv'
      <3>1. \A d \in Commands : /\ command'[d] \in Command
                                /\ command'[d].pc # "idle" => command'[d].user \in Users
        <4> SUFFICES ASSUME NEW d \in Commands
                     PROVE  /\ command'[d] \in Command
                            /\ command'[d].pc # "idle" => command'[d].user \in Users
          OBVIOUS
        <4>1. CASE d = c
          BY <2>1, <2>2, <4>1 DEF Overtaking
        <4>2. CASE d # c
          <5> DEFINE late == command[d].overtaken \/ command[d].pc \in {"count", "delete"}
          <5>1. late \in BOOLEAN
            OBVIOUS
          <5>2. command'[d] = [command[d] EXCEPT !.overtaken = late]
            BY <2>2, <4>2 DEF Overtaking
          <5> HIDE DEF late
          <5>3. /\ command'[d] \in Command
                /\ command'[d].pc = command[d].pc /\ command'[d].user = command[d].user
            BY <2>3, <5>1, <5>2 DEF Command
          <5> QED
            BY <5>3 DEF TypeInv, LocalInv
        <4> QED
          BY <4>1, <4>2
      <3>2. command' = [d \in Commands |-> command'[d]]
        BY <2>2 DEF Overtaking
      <3> QED
        BY <2>2, <3>1, <3>2 DEF TypeInv, LocalInv
    <2>5. accounts' \in [Users -> Account \cup {None}]
      BY <1>0, <1>4 DEF DeleteUser
    <2>6. UNCHANGED <<clock, passwords, sessions, issued, faults, request, throttle, logins>>
      BY <1>4 DEF DeleteUser, console
    <2> QED
      BY <2>4, <2>5, <2>6, SMTT(30) DEF TypeInv, TypeOK
  <1>5. CASE DeleteByUsername(c) \/ CommandStops(c)
    <2>1. command' \in [Commands -> Command] /\ LocalInv'
      BY <1>5, IdleType, CommandType DEF DeleteByUsername, CommandStops, console, IdleCommand
    <2>2. sessions' \subseteq Session /\ faults' \in Nat
      BY <1>0, <1>5 DEF DeleteByUsername, CommandStops, Fault
    <2> QED
      BY <1>5, <2>1, <2>2, SMTT(30)
      DEF DeleteByUsername, CommandStops, console, TypeInv, TypeOK
  <1> QED
    BY <1>1, <1>2, <1>3, <1>4, <1>5 DEF Administer

\* So do the rest: a new account, the purge, the clock and a restart.
LEMMA OtherType ==
  ASSUME TypeInv,
         \/ \E u \in Users, role \in Roles : AdminAdd(u, role)
         \/ DeleteExpired \/ Tick \/ Crash
  PROVE  TypeInv'
  <1>1. ASSUME NEW u \in Users, NEW role \in Roles, AdminAdd(u, role)
        PROVE  TypeInv'
    <2>1. passwords' \in Nat \ {0}
      BY <1>1 DEF AdminAdd, NewPassword, TypeInv, TypeOK
    <2>2. [password |-> passwords', role |-> role] \in Account
      BY <2>1 DEF Account
    <2>3. accounts' \in [Users -> Account \cup {None}]
      BY <1>1, <2>2 DEF AdminAdd, TypeInv, TypeOK
    <2> QED
      BY <1>1, <2>1, <2>3, SMTT(30) DEF AdminAdd, console, TypeInv, TypeOK, LocalInv
  <1>2. CASE DeleteExpired
    BY <1>2, SMTT(30) DEF DeleteExpired, console, admin, TypeInv, TypeOK, LocalInv
  <1>3. CASE Tick
    BY <1>3, SMTT(30) DEF Tick, console, admin, TypeInv, TypeOK, LocalInv
  <1>4. CASE Crash
    <2>1. request' \in [Requests -> Request] /\ throttle' \in [Users -> Entry \cup {None}]
      BY <1>4, IdleType DEF Crash
    <2>2. LocalInv' /\ faults' \in Nat
      BY <1>4 DEF Crash, Fault, admin, IdleRequest, TypeInv, TypeOK, LocalInv
    <2> QED
      BY <1>4, <2>1, <2>2, SMTT(30) DEF Crash, admin, TypeInv, TypeOK
  <1> QED
    BY <1>1, <1>2, <1>3, <1>4

LEMMA TypeNext ==
  ASSUME TypeInv, [Next]_vars
  PROVE  TypeInv'
  <1>1. CASE UNCHANGED vars
    BY <1>1, SMTT(30) DEF vars, TypeInv, TypeOK, LocalInv
  <1>2. ASSUME NEW r \in Requests, Handle(r)
        PROVE  TypeInv'
    BY <1>2, LoginType, SessionType DEF Handle
  <1> QED
    BY <1>1, <1>2, AdministerType, OtherType DEF Next

THEOREM TypeInvariant == Spec => []TypeInv
  <1>1. TypeInv /\ UNCHANGED vars => TypeInv'
    BY TypeNext
  <1> QED
    BY TypeInit, TypeNext, PTL DEF Spec

\* Accounts, sessions, throttle entries and locals keep their types.
THEOREM TypeCorrect == Spec => []TypeOK
  <1>1. TypeInv => TypeOK
    BY DEF TypeInv
  <1> QED
    BY <1>1, TypeInvariant, PTL

-----------------------------------------------------------------------------
(***************************************************************************)
(* The throttle.                                                           *)
(***************************************************************************)
\* No step touches an entry but the records of a login's outcome and a
\* restart.
LEMMA ThrottleSteps ==
  ASSUME [Next]_vars
  PROVE  \/ throttle' = throttle
         \/ \E r \in Requests : RecordFailure(r) \/ RecordSuccess(r)
         \/ Crash
  <1>1. CASE UNCHANGED vars
    BY <1>1 DEF vars
  <1>2. ASSUME NEW r \in Requests, Handle(r)
        PROVE  throttle' = throttle \/ RecordFailure(r) \/ RecordSuccess(r)
    BY <1>2 DEF Handle, Login, Verify, CreateSession, Get, Renew, Drop
  <1>3. ASSUME NEW c \in Commands, Administer(c)
        PROVE  throttle' = throttle
    BY <1>3 DEF Administer, AdminPasswd, AdminDel, CountAdmins, DeleteUser,
                DeleteByUsername, CommandStops, console
  <1>4. ASSUME NEW u \in Users, NEW role \in Roles, AdminAdd(u, role)
        PROVE  throttle' = throttle
    BY <1>4 DEF AdminAdd, console
  <1>5. CASE DeleteExpired \/ Tick
    BY <1>5 DEF DeleteExpired, Tick, console
  <1> QED
    BY <1>1, <1>2, <1>3, <1>4, <1>5 DEF Next

\* A lockout is never extended, shortened or counted into: it is left alone,
\* or lifted by a success or a restart (RecordFailure, RecordSuccess).
THEOREM LockoutsKeepTheirTerm == Spec => LockoutsAreFixed
  <1>1. ASSUME [Next]_vars
        PROVE  [\A u \in Users : Locked(u) => throttle'[u] \in {throttle[u], None}]_vars
    <2> SUFFICES ASSUME NEW u \in Users, Locked(u)
                 PROVE  throttle'[u] \in {throttle[u], None}
      OBVIOUS
    <2>1. CASE Crash
      BY <2>1 DEF Crash
    <2>2. ASSUME NEW r \in Requests, RecordFailure(r)
          PROVE  throttle'[u] = throttle[u]
      BY <2>2 DEF RecordFailure
    <2>3. ASSUME NEW r \in Requests, RecordSuccess(r)
          PROVE  throttle'[u] \in {throttle[u], None}
      BY <2>3 DEF RecordSuccess
    <2> QED
      BY <1>1, <2>1, <2>2, <2>3, ThrottleSteps
  <1> QED
    BY <1>1, PTL DEF Spec, LockoutsAreFixed

\* A revoked token is not used again: no step adds a row but CreateSession,
\* whose token is new, and Renew changes only the expiry.
LEMMA SessionSteps ==
  ASSUME [Next]_vars
  PROVE  \/ sessions' \subseteq sessions
         \/ \E r \in Requests : CreateSession(r) \/ Renew(r)
  <1>1. CASE UNCHANGED vars
    BY <1>1 DEF vars
  <1>2. ASSUME NEW r \in Requests, Handle(r)
        PROVE  sessions' \subseteq sessions \/ CreateSession(r) \/ Renew(r)
    BY <1>2 DEF Handle, Login, Verify, RecordFailure, RecordSuccess, Get, Drop
  <1>3. ASSUME NEW c \in Commands, Administer(c)
        PROVE  sessions' \subseteq sessions
    BY <1>3 DEF Administer, AdminPasswd, AdminDel, CountAdmins, DeleteUser,
                DeleteByUsername, CommandStops
  <1>4. ASSUME NEW u \in Users, NEW role \in Roles, AdminAdd(u, role)
        PROVE  sessions' \subseteq sessions
    BY <1>4 DEF AdminAdd
  <1>5. CASE DeleteExpired \/ Tick \/ Crash
    BY <1>5 DEF DeleteExpired, Tick, Crash
  <1> QED
    BY <1>1, <1>2, <1>3, <1>4, <1>5 DEF Next

-----------------------------------------------------------------------------
(***************************************************************************)
(* Numbers: the clock and the counters are natural, so are an entry's      *)
(* fields, and a lockout ends a whole Lockout after its window began.      *)
(***************************************************************************)
EntryInv(e) ==
    /\ e \in Entry
    /\ e.start <= clock
    /\ e.failures >= MaxAttempts => e.until >= e.start + Ticks(Lockout)

LockInv ==
    /\ clock \in Nat /\ issued \in Nat
    /\ throttle \in [Users -> Entry \cup {None}]
    /\ \A u \in Users : throttle[u] # None => EntryInv(throttle[u])

LEMMA TicksNat == Ticks(Window) \in Nat /\ Ticks(Lockout) \in Nat
  <1>1. Window \in Nat /\ Lockout \in Nat /\ Fraction \in Nat
    OBVIOUS
  <1> QED
    BY <1>1, SMT DEF Ticks

\* A failure counted while the key is not locked out.
LEMMA CountedInv ==
  ASSUME clock \in Nat, NEW e \in Entry \cup {None}, e # None => EntryInv(e)
  PROVE  Counted(e) \in Entry /\ EntryInv(Counted(e))
  <1>1. CASE e = None \/ clock - e.start > Ticks(Window)
    BY <1>1, TicksNat DEF Counted, Entry, EntryInv
  <1>2. CASE ~(e = None \/ clock - e.start > Ticks(Window))
    BY <1>2, TicksNat DEF Counted, Entry, EntryInv
  <1> QED
    BY <1>1, <1>2

LEMMA LockInit == Init => LockInv
  BY DEF Init, LockInv

\* The clock and the token counter never go back.
LEMMA Monotone ==
  ASSUME LockInv, [Next]_vars
  PROVE  /\ clock' \in Nat /\ clock' >= clock
         /\ issued' \in Nat /\ issued' >= issued
  <1> USE DEF LockInv
  <1>1. CASE UNCHANGED vars
    BY <1>1 DEF vars
  <1>2. ASSUME NEW r \in Requests, Handle(r)
        PROVE  clock' = clock /\ (issued' = issued \/ issued' = issued + 1)
    BY <1>2 DEF Handle, Login, Verify, RecordFailure, RecordSuccess,
                CreateSession, Get, Renew, Drop
  <1>3. ASSUME NEW c \in Commands, Administer(c)
        PROVE  clock' = clock /\ issued' = issued
    BY <1>3 DEF Administer, AdminPasswd, AdminDel, CountAdmins, DeleteUser,
                DeleteByUsername, CommandStops
  <1>4. ASSUME NEW u \in Users, NEW role \in Roles, AdminAdd(u, role)
        PROVE  clock' = clock /\ issued' = issued
    BY <1>4 DEF AdminAdd
  <1>5. CASE DeleteExpired \/ Crash
    BY <1>5 DEF DeleteExpired, Crash
  <1>6. CASE Tick
    BY <1>6 DEF Tick
  <1> QED
    BY <1>1, <1>2, <1>3, <1>4, <1>5, <1>6 DEF Next

LEMMA LockNext ==
  ASSUME LockInv, [Next]_vars
  PROVE  LockInv'
  <1>1. clock \in Nat /\ clock' \in Nat /\ clock' >= clock /\ issued' \in Nat
    BY Monotone DEF LockInv
  <1>2. SUFFICES ASSUME TRUE
                 PROVE  /\ throttle' \in [Users -> Entry \cup {None}]
                        /\ \A u \in Users : throttle'[u] # None => EntryInv(throttle'[u])
    <2>1. ASSUME NEW e, EntryInv(e)
          PROVE  EntryInv(e)'
      BY <1>1, <2>1 DEF EntryInv, Entry, Ticks
    <2> QED
      BY <1>1, <2>1 DEF LockInv, EntryInv, Entry, Ticks
  <1>3. CASE throttle' = throttle
    BY <1>3 DEF LockInv
  <1>4. CASE Crash
    BY <1>4 DEF Crash
  <1>5. ASSUME NEW r \in Requests, RecordSuccess(r)
        PROVE  /\ throttle' \in [Users -> Entry \cup {None}]
               /\ \A u \in Users : throttle'[u] # None => EntryInv(throttle'[u])
    BY <1>5 DEF RecordSuccess, LockInv
  <1>6. ASSUME NEW r \in Requests, RecordFailure(r)
        PROVE  /\ throttle' \in [Users -> Entry \cup {None}]
               /\ \A u \in Users : throttle'[u] # None => EntryInv(throttle'[u])
    <2>1. \A u \in Users : Counted(throttle[u]) \in Entry /\ EntryInv(Counted(throttle[u]))
      BY CountedInv DEF LockInv
    <2>2. throttle' \in {throttle, [throttle EXCEPT ![request[r].user] =
                                      Counted(throttle[request[r].user])]}
      BY <1>6 DEF RecordFailure
    <2> QED
      BY <2>1, <2>2 DEF LockInv
  <1> QED
    BY <1>3, <1>4, <1>5, <1>6, ThrottleSteps

THEOREM LockoutInvariant == Spec => []LockInv
  <1>1. LockInv /\ UNCHANGED vars => LockInv'
    BY LockNext
  <1> QED
    BY LockInit, LockNext, PTL DEF Spec

\* Under every policy, even one whose lockout is shorter than its window, an entry
\* at the limit is locked out until a whole lockout has passed since its window
\* began, however failures of several logins interleave (RecordFailure).
THEOREM LockoutsAreServed == Spec => []LockoutServed
  <1>1. LockInv => LockoutServed
    <2> SUFFICES ASSUME LockInv, NEW u \in Users, throttle[u] # None,
                        throttle[u].failures >= MaxAttempts, ~Locked(u)
                 PROVE  clock >= throttle[u].start + Ticks(Lockout)
      BY DEF LockoutServed
    <2>1. /\ throttle[u].until \in Nat /\ throttle[u].start \in Nat /\ clock \in Nat
          /\ throttle[u].until >= throttle[u].start + Ticks(Lockout)
      BY DEF LockInv, EntryInv, Entry
    <2>2. clock >= throttle[u].until
      BY <2>1 DEF Locked
    <2> QED
      BY <2>1, <2>2, TicksNat
  <1> QED
    BY <1>1, LockoutInvariant, PTL

\* Logged out, revoked and purged sessions stay away, whatever handlers still
\* hold their tokens (SessionStore.Get, Delete, DeleteExpired).
THEOREM RevocationIsFinal == Spec => RevokedStaysRevoked
  <1>1. ASSUME TypeInv, [Next]_vars
        PROVE  [\A t \in 1..issued : (\A s \in sessions : s.token # t) =>
                   (\A s \in sessions' : s.token # t)]_vars
    <2> SUFFICES ASSUME NEW t \in 1..issued, \A s \in sessions : s.token # t
                 PROVE  \A s \in sessions' : s.token # t
      OBVIOUS
    <2>1. CASE sessions' \subseteq sessions
      BY <2>1
    <2>2. ASSUME NEW r \in Requests, CreateSession(r)
          PROVE  \A s \in sessions' : s.token # t
      <3>1. issued \in Nat
        BY <1>1 DEF TypeInv, TypeOK
      <3>2. ASSUME issued' = issued + 1,
                   NEW x, x.token = issued', sessions' = sessions \cup {x}
            PROVE  \A s \in sessions' : s.token # t
        BY <3>1, <3>2
      <3> QED
        BY <2>2, <3>1, <3>2 DEF CreateSession
    <2>3. ASSUME NEW r \in Requests, Renew(r)
          PROVE  \A s \in sessions' : s.token # t
      <3>1. \A s \in Session : [s EXCEPT !.expires = request[r].expires].token = s.token
        BY DEF Session
      <3>2. sessions \subseteq Session
        BY <1>1 DEF TypeInv, TypeOK
      <3>3. \/ sessions' = sessions
            \/ sessions' = {IF s.token = request[r].token
                              THEN [s EXCEPT !.expires = request[r].expires]
                              ELSE s : s \in sessions}
        BY <2>3 DEF Renew
      <3>4. ASSUME NEW s \in sessions
            PROVE  /\ s.token # t
                   /\ [s EXCEPT !.expires = request[r].expires].token # t
        BY <3>1, <3>2
      <3> QED
        BY <3>3, <3>4
    <2> QED
      BY <1>1, <2>1, <2>2, <2>3, SessionSteps
  <1> QED
    BY <1>1, TypeInvariant, PTL DEF Spec, RevokedStaysRevoked

-----------------------------------------------------------------------------
(***************************************************************************)
(* The store keeps its promise.  A token has one row at most, and what a   *)
(* handler is about to write to it was right when it read the row: the     *)
(* clock only advances, and the cap of a row never moves.                  *)
(***************************************************************************)
Pending(r) == request[r].pc = "renew"

LeaseInv ==
    /\ \A s \in sessions : s.token <= issued
    /\ \A s, t \in sessions : s.token = t.token => s = t
    /\ \A r \in Requests : Pending(r) =>
          /\ request[r].token <= issued
          /\ request[r].expires <= clock + Ticks(Ttl)
          /\ \A s \in sessions : s.token = request[r].token => request[r].expires <= Cap(s)

\* Every other step removes rows, or lets time pass, or concerns neither.
Quiet ==
    /\ issued' = issued
    /\ \/ clock' = clock /\ sessions' \subseteq sessions
       \/ clock' = clock + 1 /\ sessions' = sessions
    /\ \A r \in Requests : Pending(r)' => request'[r] = request[r]

LEMMA LeaseSteps ==
  ASSUME TypeInv, [Next]_vars
  PROVE  \/ Quiet
         \/ \E r \in Requests : CreateSession(r) \/ Renew(r)
         \/ \E r \in Requests, s \in sessions, logout \in BOOLEAN : Get(r, s, logout)
  <1>0. request \in [Requests -> Request]
    BY DEF TypeInv, TypeOK
  <1>1. CASE UNCHANGED vars
    BY <1>1 DEF vars, Quiet, Pending
  <1>2. ASSUME NEW r \in Requests, Handle(r)
        PROVE  \/ Quiet \/ CreateSession(r) \/ Renew(r)
               \/ \E s \in sessions, logout \in BOOLEAN : Get(r, s, logout)
    <2>1. ASSUME NEW local, request' = [request EXCEPT ![r] = local], local.pc # "renew"
          PROVE  \A q \in Requests : Pending(q)' => request'[q] = request[q]
      BY <1>0, <2>1 DEF Pending
    <2>2. ASSUME NEW u \in Users, NEW p \in Typed(u), Login(r, u, p)
          PROVE  Quiet
      <3>1. Attempt(u, p).pc # "renew"
        BY DEF Attempt, IdleRequest
      <3> QED
        BY <2>1, <2>2, <3>1 DEF Login, admin, Quiet
    <2>3. CASE Verify(r)
      <3>1. \A v : Rejected(v).pc # "renew"
        BY DEF Rejected, IdleRequest
      <3>2. \A role : [request[r] EXCEPT !.pc = "accepted", !.role = role].pc # "renew"
        BY <1>0 DEF Request
      <3>3. \E local : request' = [request EXCEPT ![r] = local] /\ local.pc # "renew"
        BY <2>3, <3>1, <3>2 DEF Verify
      <3> QED
        BY <2>1, <2>3, <3>3 DEF Verify, admin, Quiet
    <2>4. CASE RecordFailure(r)
      <3>1. IdleRequest.pc # "renew"
        BY DEF IdleRequest
      <3> QED
        BY <2>1, <2>4, <3>1 DEF RecordFailure, admin, Quiet
    <2>5. CASE RecordSuccess(r)
      <3>1. [request[r] EXCEPT !.pc = "create"].pc # "renew"
        BY <1>0 DEF Request
      <3> QED
        BY <2>1, <2>5, <3>1 DEF RecordSuccess, admin, Quiet
    <2>6. CASE Drop(r)
      <3>1. IdleRequest.pc # "renew"
        BY DEF IdleRequest
      <3> QED
        BY <2>1, <2>6, <3>1 DEF Drop, admin, Quiet
    <2> QED
      BY <1>2, <2>2, <2>3, <2>4, <2>5, <2>6 DEF Handle
  <1>3. ASSUME NEW c \in Commands, Administer(c)
        PROVE  Quiet
    BY <1>3 DEF Administer, AdminPasswd, AdminDel, CountAdmins, DeleteUser,
                DeleteByUsername, CommandStops, console, Quiet, Pending
  <1>4. ASSUME NEW u \in Users, NEW role \in Roles, AdminAdd(u, role)
        PROVE  Quiet
    BY <1>4 DEF AdminAdd, console, Quiet, Pending
  <1>5. CASE DeleteExpired \/ Tick
    BY <1>5 DEF DeleteExpired, Tick, console, Quiet, Pending
  <1>6. CASE Crash
    BY <1>6 DEF Crash, admin, Quiet, Pending, IdleRequest
  <1> QED
    BY <1>1, <1>2, <1>3, <1>4, <1>5, <1>6 DEF Next

LEMMA LeaseInit == Init => LeaseInv
  BY DEF Init, LeaseInv, Pending, IdleRequest

\* Cutting a time takes less than a second off it.
LEMMA StoredBounds ==
  ASSUME NEW t \in Nat
  PROVE  Stored(t) \in Nat /\ Stored(t) <= t /\ t - Stored(t) < Fraction
  <1>1. Fraction \in Nat \ {0}
    OBVIOUS
  <1>2. t % Fraction \in Nat /\ t % Fraction <= t /\ t % Fraction < Fraction
    BY <1>1, SMT
  <1> QED
    BY <1>1, <1>2 DEF Stored

LEMMA LeaseNext ==
  ASSUME TypeInv, LeaseInv, [Next]_vars
  PROVE  LeaseInv'
  <1>0. /\ issued \in Nat /\ clock \in Nat /\ sessions \subseteq Session
        /\ request \in [Requests -> Request] /\ Ticks(Ttl) \in Nat
        /\ Ticks(MaxLifetime) \in Nat
    BY TimeType DEF TypeInv, TypeOK
  <1>1. CASE Quiet
    <2>1. clock <= clock' /\ sessions' \subseteq sessions /\ issued' = issued
      BY <1>0, <1>1 DEF Quiet
    <2>2. ASSUME NEW r \in Requests, Pending(r)'
          PROVE  Pending(r) /\ request'[r] = request[r]
      BY <1>1, <2>2 DEF Quiet, Pending
    <2>3. \A r \in Requests : Pending(r) => request[r].expires \in Nat
      BY <1>0 DEF Request
    <2>4. \A r \in Requests : Pending(r)' => request'[r].expires <= clock' + Ticks(Ttl)
      <3> SUFFICES ASSUME NEW r \in Requests, Pending(r)'
                   PROVE  request[r].expires <= clock' + Ticks(Ttl)
        BY <2>2
      <3>1. request[r].expires <= clock + Ticks(Ttl) /\ request[r].expires \in Nat
        BY <2>2, <2>3 DEF LeaseInv
      <3>2. clock' \in Nat
        BY <1>0, <1>1 DEF Quiet
      <3> QED
        BY <1>0, <2>1, <3>1, <3>2
    <2> QED
      BY <2>1, <2>2, <2>4 DEF LeaseInv, Cap, Ticks
  <1>2. ASSUME NEW r \in Requests, CreateSession(r)
        PROVE  LeaseInv'
    <2>1. \A q \in Requests : Pending(q)' => q # r /\ request'[q] = request[q] /\ Pending(q)
      BY <1>0, <1>2 DEF CreateSession, Pending, IdleRequest
    <2>2. CASE UNCHANGED <<sessions, issued>>
      BY <1>2, <2>1, <2>2 DEF CreateSession, LeaseInv, Cap, Ticks
    <2>3. ASSUME NEW x, x.token = issued + 1, sessions' = sessions \cup {x}, issued' = issued + 1
          PROVE  LeaseInv'
      <3>1. \A s \in sessions : s.token \in Nat /\ s.token <= issued
        BY <1>0 DEF LeaseInv, Session
      <3>2. \A s \in sessions' : s.token <= issued'
        BY <1>0, <2>3, <3>1
      <3>3. \A s, t \in sessions' : s.token = t.token => s = t
        BY <1>0, <2>3, <3>1 DEF LeaseInv
      <3>4. ASSUME NEW q \in Requests, Pending(q)'
            PROVE  /\ request'[q].token <= issued'
                   /\ request'[q].expires <= clock' + Ticks(Ttl)
                   /\ \A s \in sessions' : s.token = request'[q].token =>
                                              request'[q].expires <= Cap(s)
        <4>1. Pending(q) /\ request'[q] = request[q] /\ clock' = clock
          BY <1>2, <2>1, <3>4 DEF CreateSession
        <4>2. request[q].token \in Nat /\ request[q].token <= issued
          BY <1>0, <4>1 DEF LeaseInv, Request
        <4>3. x.token # request[q].token
          BY <1>0, <2>3, <4>2
        <4> QED
          BY <1>0, <2>3, <4>1, <4>2, <4>3 DEF LeaseInv
      <3> QED
        BY <3>2, <3>3, <3>4 DEF LeaseInv, Cap, Ticks
    <2> QED
      BY <1>2, <2>2, <2>3 DEF CreateSession
  <1>3. ASSUME NEW r \in Requests, Renew(r)
        PROVE  LeaseInv'
    <2>1. \A q \in Requests : Pending(q)' => q # r /\ request'[q] = request[q] /\ Pending(q)
      BY <1>0, <1>3 DEF Renew, AfterRenew, Pending, IdleRequest, Request
    <2> DEFINE Written(s) == IF s.token = request[r].token
                               THEN [s EXCEPT !.expires = request[r].expires] ELSE s
    <2>2. \A s \in sessions : Written(s).token = s.token /\ Written(s).created = s.created
      BY <1>0 DEF Session
    <2>3. issued' = issued /\ clock' = clock
      BY <1>3 DEF Renew
    <2>4. \A x \in sessions' : \E s \in sessions :
             /\ x.token = s.token /\ x.created = s.created
             /\ \A t \in sessions' : t.token = x.token => t = x
      <3>1. CASE sessions' = sessions
        BY <3>1 DEF LeaseInv
      <3>2. CASE sessions' = {Written(s) : s \in sessions}
        <4>1. \A s, t \in sessions : Written(t).token = Written(s).token =>
                                      Written(t) = Written(s)
          BY <2>2 DEF LeaseInv
        <4> HIDE DEF Written
        <4> QED
          BY <2>2, <3>2, <4>1
      <3> QED
        BY <1>3, <3>1, <3>2 DEF Renew
    <2> QED
      BY <2>1, <2>3, <2>4 DEF LeaseInv, Cap, Ticks
  <1>4. ASSUME NEW r \in Requests, NEW s \in sessions, NEW logout \in BOOLEAN,
               Get(r, s, logout)
        PROVE  LeaseInv'
    <2>1. s \in Session /\ s.created \in Nat /\ s.expires \in Nat
      BY <1>0 DEF Session
    <2>2. Slid(s) \in Nat /\ Slid(s) <= clock + Ticks(Ttl) /\ Slid(s) <= Cap(s)
      BY <1>0, <2>1 DEF Slid, Cap
    <2>3. Stored(Slid(s)) \in Nat /\ Stored(Slid(s)) <= Slid(s)
      BY <2>2, StoredBounds
    <2>4. Stored(Slid(s)) <= clock + Ticks(Ttl) /\ Stored(Slid(s)) <= Cap(s)
      BY <1>0, <2>1, <2>2, <2>3 DEF Cap
    <2>5. UNCHANGED <<clock, sessions, issued>>
      BY <1>4 DEF Get
    <2>6. ASSUME NEW q \in Requests, Pending(q)'
          PROVE  \/ request'[q] = request[q] /\ Pending(q)
                 \/ request'[q].token = s.token /\ request'[q].expires = Stored(Slid(s))
      <3>1. \A pc \in {"drop", "renew"}, e \in Nat, out \in BOOLEAN :
               /\ Using(s, pc, e, out).pc = pc
               /\ Using(s, pc, e, out).token = s.token
               /\ Using(s, pc, e, out).expires = e
        BY <2>1 DEF Using, IdleRequest, Session
      <3>2. CASE q # r
        BY <1>0, <1>4, <2>6, <3>2 DEF Get, Pending
      <3>3. CASE q = r
        <4>1. \/ request'[r] = Using(s, "drop", 0, FALSE)
              \/ request'[r] = Using(s, "renew", Stored(Slid(s)), logout)
          BY <1>0, <1>4 DEF Get
        <4>2. Using(s, "drop", 0, FALSE).pc = "drop"
          BY <3>1
        <4>3. /\ Using(s, "renew", Stored(Slid(s)), logout).token = s.token
              /\ Using(s, "renew", Stored(Slid(s)), logout).expires = Stored(Slid(s))
          BY <2>3, <3>1
        <4>4. request'[r].pc = "renew"
          BY <2>6, <3>3 DEF Pending
        <4> QED
          BY <3>3, <4>1, <4>2, <4>3, <4>4
      <3> QED
        BY <3>2, <3>3
    <2>7. s.token <= issued /\ \A t \in sessions : t.token = s.token => t = s
      BY DEF LeaseInv
    <2> QED
      BY <2>4, <2>5, <2>6, <2>7 DEF LeaseInv, Cap, Ticks
  <1> QED
    BY <1>1, <1>2, <1>3, <1>4, LeaseSteps

THEOREM LeaseInvariant == Spec => [](TypeInv /\ LeaseInv)
  <1>1. ASSUME TypeInv, LeaseInv, [Next]_vars PROVE TypeInv' /\ LeaseInv'
    BY <1>1, TypeNext, LeaseNext
  <1> QED
    BY <1>1, TypeInit, LeaseInit, PTL DEF Spec

\* The store implements Leases: rows are leases, and every statement opens one,
\* extends one, ends some or changes none.
THEOREM StoreImplementsLeases == Spec => ImplementsLeases
  <1> DEFINE Held == {AsLease(s) : s \in sessions}
  <1>1. Init => Lease!Init
    BY DEF Init, Lease!Init
  <1>2. ASSUME TypeInv, LeaseInv, [Next]_vars
        PROVE  [Lease!Next]_(Lease!vars)
    <2>0. /\ issued \in Nat /\ clock \in Nat /\ sessions \subseteq Session
          /\ request \in [Requests -> Request] /\ Ticks(Ttl) \in Nat
          /\ Ticks(MaxLifetime) \in Nat
      BY <1>2, TimeType DEF TypeInv, TypeOK
    <2>1. CASE Quiet
      <3>1. Lease!End \/ Lease!Pass
        BY <2>1 DEF Quiet, Lease!End, Lease!Pass
      <3> QED
        BY <3>1 DEF Lease!Next
    <2>2. ASSUME NEW r \in Requests, CreateSession(r)
          PROVE  [Lease!Next]_(Lease!vars)
      <3> DEFINE m == request[r]
                 row == [token |-> issued', user |-> m.user, role |-> m.role,
                         password |-> m.password, fresh |-> Current(m.user, m.password),
                         created |-> Stored(clock),
                         expires |-> Stored(clock + Ticks(Ttl))]
      <3>1. CASE UNCHANGED <<sessions, issued>>
        BY <2>2, <3>1 DEF CreateSession, Lease!vars
      <3>2. CASE issued' = issued + 1 /\ sessions' = sessions \cup {row}
        <4>1. <<m.user, m.role>> \in Users \X Roles
          BY <1>2, <2>0, <2>2 DEF CreateSession, TypeInv, LocalInv
        <4>2. Stored(clock) \in Lease!About(clock)
          BY <2>0, StoredBounds DEF Lease!About
        <4>3. clock + Ticks(Ttl) \in Nat
          BY <2>0
        <4>4. Stored(clock + Ticks(Ttl)) \in Lease!About(clock + Ticks(Ttl))
          BY <4>3, StoredBounds DEF Lease!About
        <4>5. AsLease(row) = [id |-> issued', holder |-> <<m.user, m.role>>,
                              opened |-> Stored(clock),
                              until |-> Stored(clock + Ticks(Ttl))]
          BY DEF AsLease
        <4>6. Held' = Held \cup {AsLease(row)}
          <5> HIDE DEF row
          <5> QED
            BY <3>2 DEF AsLease
        <4>7. Lease!Open
          BY <2>2, <3>2, <4>1, <4>2, <4>4, <4>5, <4>6 DEF CreateSession, Lease!Open
        <4> QED
          BY <4>7 DEF Lease!Next
      <3> QED
        BY <2>2, <3>1, <3>2 DEF CreateSession
    <2>3. ASSUME NEW r \in Requests, Renew(r)
          PROVE  [Lease!Next]_(Lease!vars)
      <3> DEFINE m == request[r]
                 Written(s) == IF s.token = m.token THEN [s EXCEPT !.expires = m.expires] ELSE s
      <3>0. /\ m \in Request /\ m.expires \in Nat /\ Pending(r)
            /\ UNCHANGED <<clock, issued>>
        BY <2>0, <2>3 DEF Renew, Request, Pending
      <3>1. CASE sessions' = sessions
        BY <3>0, <3>1 DEF Lease!vars
      <3>2. ASSUME sessions' = {Written(s) : s \in sessions},
                   NEW s \in sessions, s.token = m.token
            PROVE  Lease!Next
        <4>1. \A t \in sessions : t # s => t.token # m.token
          BY <1>2, <3>2 DEF LeaseInv
        <4>2. Written(s) = [s EXCEPT !.expires = m.expires]
          BY <3>2
        <4>3. \A t \in sessions : t # s => Written(t) = t
          BY <4>1
        <4>4. AsLease(Written(s)) = [AsLease(s) EXCEPT !.until = m.expires]
          BY <2>0, <4>2 DEF AsLease, Session
        <4>5. \A t \in sessions : t # s => AsLease(t) # AsLease(s)
          <5>1. \A t : AsLease(t).id = t.token
            BY DEF AsLease
          <5> QED
            BY <3>2, <4>1, <5>1
        <4>6. Held' = (Held \ {AsLease(s)}) \cup {AsLease(Written(s))}
          <5>1. Held' = {AsLease(Written(t)) : t \in sessions}
            <6> HIDE DEF Written
            <6> QED
              BY <3>2 DEF AsLease
          <5> HIDE DEF Written
          <5> QED
            BY <4>3, <4>5, <5>1
        <4>7. m.expires \in 0..(clock + Ticks(Ttl)) /\ m.expires <= AsLease(s).opened + Ticks(MaxLifetime)
          <5>1. m.expires <= clock + Ticks(Ttl) /\ m.expires <= Cap(s)
            BY <1>2, <3>0, <3>2 DEF LeaseInv
          <5> QED
            BY <2>0, <3>0, <5>1 DEF AsLease, Cap
        <4>8. AsLease(s) \in Held /\ Lease!Extend(AsLease(s))
          <5> HIDE DEF Written
          <5> QED
            BY <3>0, <4>4, <4>6, <4>7 DEF Lease!Extend
        <4> QED
          BY <4>8 DEF Lease!Next
      <3>3. CASE \A s \in sessions : s.token # m.token
        <4>1. \A s \in sessions : Written(s) = s
          BY <3>3
        <4>2. sessions' = sessions
          <5>1. sessions' = sessions \/ sessions' = {Written(s) : s \in sessions}
            BY <2>3 DEF Renew
          <5> HIDE DEF Written
          <5> QED
            BY <4>1, <5>1
        <4> QED
          BY <3>1, <4>2
      <3> QED
        BY <2>3, <3>1, <3>2, <3>3 DEF Renew
    <2>4. ASSUME NEW r \in Requests, NEW s \in sessions, NEW logout \in BOOLEAN,
                 Get(r, s, logout)
          PROVE  [Lease!Next]_(Lease!vars)
      BY <2>4 DEF Get, Lease!vars
    <2> QED
      BY <1>2, <2>1, <2>2, <2>3, <2>4, LeaseSteps
  <1> QED
    BY <1>1, <1>2, LeaseInvariant, PTL DEF Spec, ImplementsLeases, Lease!Spec

LEMMA Division ==
  ASSUME NEW f \in Nat \ {0}, NEW x \in Nat
  PROVE  /\ x \div f \in Int /\ x % f \in Int
         /\ x = f * (x \div f) + (x % f) /\ 0 <= x % f /\ x % f < f
  <1>1. x \div f \in Int
    BY SMT
  <1>2. x % f \in Int /\ 0 <= x % f /\ x % f < f
    BY SMT
  <1>3. x = f * (x \div f) + (x % f)
    BY SMT
  <1> QED
    BY <1>1, <1>2, <1>3

\* A quotient and a remainder are unique.
LEMMA Unique ==
  ASSUME NEW f \in Nat \ {0}, NEW q \in Int, NEW p \in Int, NEW k \in Int,
         NEW a \in Int, NEW b \in Int,
         f * q + a + k * f = f * p + b, 0 <= a, a < f, 0 <= b, b < f
  PROVE  a = b
  <1> DEFINE d == p - q - k
  <1>1. d \in Int /\ f * d = f * p - f * q - k * f
    BY SMT
  <1>2. f * p \in Int /\ f * q \in Int /\ k * f \in Int /\ f * d \in Int
    BY SMT
  <1> HIDE DEF d
  <1>3. f * d = a - b
    BY <1>1, <1>2
  <1>4. d >= 1 => f * d >= f
    BY <1>1, SMT
  <1>5. d <= -1 => f * d <= -f
    BY <1>1, SMT
  <1>6. d = 0
    BY <1>1, <1>2, <1>3, <1>4, <1>5
  <1> QED
    BY <1>3, <1>6

\* Whole seconds later, the same fraction is cut.
LEMMA StoredShift ==
  ASSUME NEW t \in Nat
  PROVE  Stored(t + Ticks(Ttl)) = Stored(t) + Ticks(Ttl)
  <1> DEFINE F == Fraction
             u == t + Ttl * F
  <1>1. F \in Nat \ {0} /\ Ttl \in Nat /\ Ttl * F \in Nat /\ u \in Nat
    BY SMT
  <1> HIDE DEF F
  <1>2. /\ t \div F \in Int /\ t % F \in Int /\ t = F * (t \div F) + (t % F)
        /\ 0 <= t % F /\ t % F < F
    BY <1>1, Division
  <1> HIDE DEF u
  <1>3. /\ u \div F \in Int /\ u % F \in Int /\ u = F * (u \div F) + (u % F)
        /\ 0 <= u % F /\ u % F < F
    BY <1>1, Division
  <1> DEFINE q == t \div F
             p == u \div F
             a == t % F
             b == u % F
  <1>4. F * q + a + Ttl * F = F * p + b
    BY <1>2, <1>3 DEF u
  <1>5. q \in Int /\ p \in Int /\ a \in Int /\ b \in Int /\ 0 <= a /\ a < F /\ 0 <= b /\ b < F
    BY <1>2, <1>3
  <1>6. a = b
    <2> HIDE DEF q, p, a, b
    <2> QED
      BY <1>1, <1>4, <1>5, Unique
  <1>7. Stored(t) = t - a /\ Stored(u) = u - b
    BY DEF Stored, F
  <1> QED
    <2> HIDE DEF a, b
    <2> QED
      BY <1>1, <1>5, <1>6, <1>7 DEF Ticks, F, u

\* No session is extended past its cap, whatever rows handlers decided on: every
\* row keeps the expiry it was created with or one that its cap allows.
THEOREM RenewalsKeepTheCap == Spec => []RenewalsRespectCap
  <1>1. Init => RenewalsRespectCap
    BY DEF Init, RenewalsRespectCap
  <1>2. ASSUME TypeInv, LeaseInv, RenewalsRespectCap, [Next]_vars
        PROVE  RenewalsRespectCap'
    <2>0. clock \in Nat /\ sessions \subseteq Session
      BY <1>2 DEF TypeInv, TypeOK
    <2>1. CASE sessions' \subseteq sessions
      BY <1>2, <2>1 DEF RenewalsRespectCap, Cap, Ticks
    <2>2. ASSUME NEW r \in Requests, CreateSession(r)
          PROVE  RenewalsRespectCap'
      <3>1. ASSUME NEW x, x.created = Stored(clock), x.expires = Stored(clock + Ticks(Ttl)),
                   sessions' = sessions \cup {x}
            PROVE  RenewalsRespectCap'
        <4>1. x.expires = x.created + Ticks(Ttl)
          BY <2>0, <3>1, StoredShift
        <4> QED
          BY <1>2, <3>1, <4>1 DEF RenewalsRespectCap, Cap, Ticks
      <3> QED
        BY <1>2, <2>1, <2>2, <3>1 DEF CreateSession
    <2>3. ASSUME NEW r \in Requests, Renew(r)
          PROVE  RenewalsRespectCap'
      <3> DEFINE m == request[r]
                 Written(s) == IF s.token = m.token THEN [s EXCEPT !.expires = m.expires] ELSE s
      <3>1. ASSUME NEW s \in sessions
            PROVE  Written(s).expires <= Cap(Written(s)) \/
                   Written(s).expires = Written(s).created + Ticks(Ttl)
        <4>1. CASE s.token = m.token
          <5>1. m.expires <= Cap(s)
            BY <1>2, <2>3, <4>1 DEF LeaseInv, Pending, Renew
          <5>2. Written(s).expires = m.expires /\ Written(s).created = s.created
            BY <2>0, <4>1 DEF Session
          <5> QED
            BY <5>1, <5>2 DEF Cap
        <4>2. CASE s.token # m.token
          BY <1>2, <4>2 DEF RenewalsRespectCap
        <4> QED
          BY <4>1, <4>2
      <3>2. sessions' = sessions \/ sessions' = {Written(s) : s \in sessions}
        BY <2>3 DEF Renew
      <3> HIDE DEF Written
      <3> QED
        BY <2>1, <3>1, <3>2 DEF RenewalsRespectCap, Cap, Ticks
    <2> QED
      BY <1>2, <2>1, <2>2, <2>3, SessionSteps
  <1> QED
    BY <1>1, <1>2, LeaseInvariant, PTL DEF Spec

\* The hourly purge deletes no session that a request could still use: what it
\* compares is cut to whole seconds, and cutting the present never takes it past
\* an expiry that the present has not passed (DeleteExpired).
THEOREM PurgingSparesTheLiving == Spec => PurgeSparesLive
  <1>1. ASSUME TypeInv
        PROVE  DeleteExpired => \A s \in sessions : ~Dead(s) => s \in sessions'
    <2> SUFFICES ASSUME DeleteExpired, NEW s \in sessions, ~Dead(s)
                 PROVE  s \in sessions'
      OBVIOUS
    <2>1. clock \in Nat /\ s.expires \in Nat
      BY <1>1 DEF TypeInv, TypeOK, Session
    <2>2. Stored(clock) \in Nat /\ Stored(clock) <= clock
      BY <2>1, StoredBounds
    <2>3. clock <= s.expires
      BY <2>1 DEF Dead
    <2>4. s.expires >= Stored(clock)
      <3> DEFINE a == Stored(clock)
      <3>1. a \in Nat /\ a <= clock
        BY <2>2
      <3> HIDE DEF a
      <3>2. s.expires >= a
        BY <2>1, <2>3, <3>1
      <3> QED
        BY <3>2 DEF a
    <2> QED
      BY <2>4 DEF DeleteExpired
  <1> QED
    BY <1>1, TypeInvariant, PTL DEF PurgeSparesLive

-----------------------------------------------------------------------------
(***************************************************************************)
(* The last admin.                                                         *)
(***************************************************************************)
Deleting(c) == command[c].pc \in {"count", "delete"}

\* A command that no deletion has overtaken still finds the row it read; one about
\* to delete an admin leaves another.
Sound(c) ==
    /\ command[c].user \in Users
    /\ accounts[command[c].user] # None
    /\ command[c].pc = "delete" => \/ command[c].user \notin Admins
                                    \/ \E v \in Admins : v # command[c].user

DeletionInv ==
    \A c \in Commands : Deleting(c) /\ ~command[c].overtaken => Sound(c)

\* Accounts that exist go on existing, in their roles.
Kept == \A v \in Users : accounts[v] # None =>
            accounts'[v] # None /\ (v \in Admins' <=> v \in Admins)

LEMMA AdminsKept ==
  ASSUME Kept
  PROVE  Admins \subseteq Admins'
  BY DEF Kept, Admins

\* What keeps the accounts keeps what was true of a command it leaves alone.
LEMMA SoundKept ==
  ASSUME Kept, NEW d \in Commands, Sound(d), command'[d] = command[d]
  PROVE  Sound(d)'
  BY AdminsKept DEF Kept, Sound, Admins

\* So a step that keeps the accounts has to answer for its own command only.
LEMMA OneCommandMoves ==
  ASSUME DeletionInv, Kept, NEW c \in Commands,
         \A d \in Commands : d # c => command'[d] = command[d],
         Deleting(c)' /\ ~command'[c].overtaken => Sound(c)'
  PROVE  DeletionInv'
  <1> SUFFICES ASSUME NEW d \in Commands, Deleting(d)', ~command'[d].overtaken
               PROVE  Sound(d)'
    BY DEF DeletionInv
  <1>1. CASE d = c
    BY <1>1
  <1>2. CASE d # c
    <2>1. command'[d] = command[d]
      BY <1>2
    <2>2. Sound(d)
      BY <2>1 DEF DeletionInv, Deleting
    <2> QED
      BY <2>1, <2>2, SoundKept
  <1> QED
    BY <1>1, <1>2

\* More than one admin is one besides any user.
LEMMA AnotherAdmin ==
  ASSUME ~(Cardinality(Admins) <= 1), NEW u
  PROVE  \E v \in Admins : v # u
  <1> SUFFICES ASSUME \A v \in Admins : v = u
               PROVE  FALSE
    OBVIOUS
  <1>1. Admins = {} \/ Admins = {u}
    OBVIOUS
  <1>2. Cardinality({}) = 0 /\ Cardinality({u}) = 1
    BY FS_EmptySet, FS_Singleton
  <1>3. Cardinality(Admins) = 0 \/ Cardinality(Admins) = 1
    BY <1>1, <1>2
  <1> QED
    BY <1>3

\* Handlers and the rest leave accounts and commands alone.
LEMMA AccountSteps ==
  ASSUME [Next]_vars
  PROVE  \/ UNCHANGED <<accounts, command>>
         \/ \E c \in Commands : Administer(c)
         \/ \E u \in Users, role \in Roles : AdminAdd(u, role)
  <1>1. CASE UNCHANGED vars
    BY <1>1 DEF vars
  <1>2. ASSUME NEW r \in Requests, Handle(r)
        PROVE  UNCHANGED <<accounts, command>>
    BY <1>2 DEF Handle, Login, Verify, RecordFailure, RecordSuccess, CreateSession,
                Get, Renew, Drop, admin
  <1>3. CASE DeleteExpired \/ Tick \/ Crash
    BY <1>3 DEF DeleteExpired, Tick, Crash, admin
  <1> QED
    BY <1>1, <1>2, <1>3 DEF Next

LEMMA DeletionInit == Init => DeletionInv
  BY DEF Init, DeletionInv, Deleting, IdleCommand

\* A new account takes a free name; a new password keeps the role.
LEMMA AddKeeps ==
  ASSUME TypeInv, NEW u \in Users, NEW role \in Roles, AdminAdd(u, role)
  PROVE  Kept
  <1>1. /\ \A v \in Users : v # u => accounts'[v] = accounts[v]
        /\ accounts[u] = None
    BY DEF AdminAdd, TypeInv, TypeOK
  <1> QED
    BY <1>1 DEF Kept, Admins

LEMMA PasswdKeeps ==
  ASSUME TypeInv, NEW c \in Commands, NEW u \in Users, AdminPasswd(c, u)
  PROVE  /\ Kept
         /\ \A v \in Users : v # u => accounts'[v] = accounts[v]
  <1>0. accounts \in [Users -> Account \cup {None}] /\ passwords \in Nat
    BY DEF TypeInv, TypeOK
  <1>1. accounts[u] \in Account
    BY <1>0 DEF AdminPasswd
  <1>2. accounts' = [accounts EXCEPT ![u] = [accounts[u] EXCEPT !.password = passwords']]
    BY DEF AdminPasswd
  <1>3. passwords' \in Nat \ {0}
    BY <1>0 DEF AdminPasswd, NewPassword
  <1>4. [accounts[u] EXCEPT !.password = passwords'] \in Account
    BY <1>1, <1>3 DEF Account
  <1>5. accounts'[u] # None /\ accounts'[u].role = accounts[u].role
    BY <1>0, <1>1, <1>2, <1>4 DEF Account
  <1>6. \A v \in Users : v # u => accounts'[v] = accounts[v]
    BY <1>0, <1>2
  <1> QED
    BY <1>5, <1>6 DEF Kept, Admins

\* Whom a deletion of another command leaves behind is overtaken; without a
\* deletion the invariant is a matter of the command that moves.
LEMMA AdministerKeeps ==
  ASSUME TypeInv, DeletionInv, NEW c \in Commands, Administer(c)
  PROVE  /\ DeletionInv'
         /\ Admins # {} /\ Admins' = {} => command[c].pc = "delete" /\ command[c].overtaken
  <1> DEFINE m == command[c]
  <1>0. command \in [Commands -> Command] /\ accounts \in [Users -> Account \cup {None}]
    BY DEF TypeInv, TypeOK
  <1>1. ASSUME NEW local, local \in Command, command' = [command EXCEPT ![c] = local], Kept,
               local.pc \in {"count", "delete"} /\ ~local.overtaken => Sound(c)'
        PROVE  DeletionInv' /\ (Admins # {} => Admins' # {})
    <2>1. command'[c] = local /\ \A d \in Commands : d # c => command'[d] = command[d]
      BY <1>0, <1>1
    <2>2. DeletionInv'
      BY <1>1, <2>1, OneCommandMoves DEF Deleting
    <2> QED
      BY <1>1, <2>2, AdminsKept
  <1>2. ASSUME NEW u \in Users, AdminPasswd(c, u)
        PROVE  DeletionInv' /\ (Admins # {} => Admins' # {})
    <2> DEFINE local == [m EXCEPT !.pc = "revoke", !.user = u]
    <2>1. local \in Command /\ local.pc = "revoke"
      BY <1>0 DEF Command
    <2>2. command' = [command EXCEPT ![c] = local]
      BY <1>2 DEF AdminPasswd
    <2> HIDE DEF local
    <2> QED
      BY <1>1, <1>2, <2>1, <2>2, PasswdKeeps
  <1>3. ASSUME NEW u \in Users, AdminDel(c, u)
        PROVE  DeletionInv' /\ (Admins # {} => Admins' # {})
    <2> DEFINE local == [m EXCEPT !.pc = IF accounts[u].role = "admin" THEN "count"
                                         ELSE "delete", !.user = u]
    <2>1. /\ local \in Command /\ local.user = u
          /\ local.pc = "delete" => accounts[u].role # "admin"
      BY <1>0 DEF Command
    <2>2. command' = [command EXCEPT ![c] = local]
      BY <1>3 DEF AdminDel
    <2>3. accounts' = accounts /\ accounts[u] # None
      BY <1>3 DEF AdminDel
    <2>4. command'[c] = local
      BY <1>0, <2>2
    <2> HIDE DEF local
    <2>5. Kept
      BY <2>3 DEF Kept, Admins
    <2>6. Sound(c)'
      BY <2>1, <2>3, <2>4 DEF Sound, Admins
    <2> QED
      BY <1>1, <2>1, <2>2, <2>5, <2>6
  <1>4. CASE CountAdmins(c)
    <2>1. accounts' = accounts /\ m.pc = "count"
      BY <1>4 DEF CountAdmins
    <2>2. Kept
      BY <2>1 DEF Kept, Admins
    <2>3. CASE Cardinality(Admins) <= 1
      <3>1. command' = [command EXCEPT ![c] = IdleCommand]
        BY <1>4, <2>3 DEF CountAdmins
      <3>2. IdleCommand \in Command /\ IdleCommand.pc = "idle"
        BY DEF IdleCommand, Command
      <3> QED
        BY <1>1, <2>2, <3>1, <3>2
    <2>4. CASE ~(Cardinality(Admins) <= 1)
      <3> DEFINE local == [m EXCEPT !.pc = "delete"]
      <3>1. /\ local \in Command /\ local.user = m.user
            /\ local.overtaken = m.overtaken
        BY <1>0 DEF Command
      <3>2. command' = [command EXCEPT ![c] = local]
        BY <1>4, <2>4 DEF CountAdmins
      <3>3. command'[c] = local
        BY <1>0, <3>2
      <3> HIDE DEF local
      <3>4. ~local.overtaken => Sound(c)
        BY <2>1, <3>1 DEF DeletionInv, Deleting
      <3>5. \E v \in Admins' : v # m.user
        BY <2>1, <2>4, AnotherAdmin DEF Admins
      <3>6. ~local.overtaken => Sound(c)'
        BY <2>1, <3>1, <3>3, <3>4, <3>5 DEF Sound
      <3> QED
        BY <1>1, <2>2, <3>1, <3>2, <3>6
    <2> QED
      BY <2>3, <2>4
  <1>5. CASE DeleteUser(c)
    <2>1. m.pc = "delete"
      BY <1>5 DEF DeleteUser
    <2>2. DeletionInv'
      <3> SUFFICES ASSUME NEW d \in Commands, Deleting(d)', ~command'[d].overtaken
                   PROVE  FALSE
        BY DEF DeletionInv
      <3>1. CASE d = c
        BY <1>5, <3>1 DEF DeleteUser, Overtaking, Deleting
      <3>2. CASE d # c
        <4> DEFINE late == command[d].overtaken \/ command[d].pc \in {"count", "delete"}
        <4>1. command'[d] = [command[d] EXCEPT !.overtaken = late]
          BY <1>5, <3>2 DEF DeleteUser, Overtaking
        <4> HIDE DEF late
        <4>2. command'[d].pc = command[d].pc /\ command'[d].overtaken = late
          BY <1>0, <4>1 DEF Command
        <4>3. ~late /\ command[d].pc \in {"count", "delete"}
          BY <4>2 DEF Deleting
        <4> QED
          BY <4>3 DEF late
      <3> QED
        BY <3>1, <3>2
    <2>3. ASSUME ~m.overtaken
          PROVE  Admins # {} => Admins' # {}
      <3>1. \A v \in Users : v # m.user => accounts'[v] = accounts[v]
        BY <1>0, <1>5 DEF DeleteUser
      <3>2. \A v \in Users : v # m.user => (v \in Admins' <=> v \in Admins)
        BY <3>1 DEF Admins
      <3>3. Admins # {} => \E v \in Admins : v # m.user
        BY <2>1, <2>3 DEF DeletionInv, Deleting, Sound
      <3>4. Admins \subseteq Users
        BY DEF Admins
      <3> QED
        BY <3>2, <3>3, <3>4
    <2> QED
      BY <2>1, <2>2, <2>3
  <1>6. CASE DeleteByUsername(c) \/ CommandStops(c)
    <2>1. accounts' = accounts /\ command' = [command EXCEPT ![c] = IdleCommand]
      BY <1>6 DEF DeleteByUsername, CommandStops
    <2>2. Kept
      BY <2>1 DEF Kept, Admins
    <2>3. IdleCommand \in Command /\ IdleCommand.pc = "idle"
      BY DEF IdleCommand, Command
    <2> QED
      BY <1>1, <2>1, <2>2, <2>3
  <1> QED
    BY <1>2, <1>3, <1>4, <1>5, <1>6 DEF Administer

\* However many `cairn admin` commands run, and whatever rows and counts they read
\* before others changed them, the last admin falls only to a deletion that
\* another command's deletion has overtaken (DeleteUser).
THEOREM OnlyOverlapsRemoveTheLast == Spec => LastAdminFallsOnlyToOverlap
  <1> DEFINE Step == Admins # {} /\ Admins' = {} =>
                        \E c \in Commands : command[c].pc = "delete" /\ command[c].overtaken
  <1>1. ASSUME TypeInv, DeletionInv, [Next]_vars
        PROVE  DeletionInv' /\ Step
    <2>1. CASE UNCHANGED <<accounts, command>>
      <3>1. Admins' = Admins
        BY <2>1 DEF Admins
      <3>2. DeletionInv'
        BY <1>1, <2>1, <3>1 DEF DeletionInv, Deleting, Sound
      <3> QED
        BY <3>1, <3>2
    <2>2. ASSUME NEW c \in Commands, Administer(c)
          PROVE  DeletionInv' /\ Step
      BY <1>1, <2>2, AdministerKeeps
    <2>3. ASSUME NEW u \in Users, NEW role \in Roles, AdminAdd(u, role)
          PROVE  DeletionInv' /\ Step
      <3>1. Kept /\ command' = command
        BY <1>1, <2>3, AddKeeps DEF AdminAdd
      <3>2. DeletionInv'
        <4> SUFFICES ASSUME NEW d \in Commands, Deleting(d)', ~command'[d].overtaken
                     PROVE  Sound(d)'
          BY DEF DeletionInv
        <4>1. Sound(d)
          BY <1>1, <3>1 DEF DeletionInv, Deleting
        <4> QED
          BY <3>1, <4>1, SoundKept
      <3> QED
        BY <3>1, <3>2, AdminsKept
    <2> QED
      BY <1>1, <2>1, <2>2, <2>3, AccountSteps
  <1>2. ASSUME TypeInv, DeletionInv, [Next]_vars
        PROVE  [Step]_vars
    BY <1>1, <1>2
  <1> QED
    BY <1>1, <1>2, DeletionInit, TypeInvariant, PTL DEF Spec, LastAdminFallsOnlyToOverlap

-----------------------------------------------------------------------------
(***************************************************************************)
(* What outlives a credential.  A command that has changed one is at work  *)
(* on the sessions until they are gone, unless it fails.                   *)
(***************************************************************************)
Revoking(u) == \E c \in Commands : command[c].pc = "revoke" /\ command[c].user = u

Vouched(s) == s.fresh => Current(s.user, s.password) \/ Revoking(s.user)

LEMMA FaultsCount ==
  ASSUME TypeInv, [Next]_vars, faults' = 0
  PROVE  /\ faults = 0
         /\ ~Crash /\ \A c \in Commands : ~CommandStops(c)
  <1>0. faults \in Nat
    BY DEF TypeInv, TypeOK
  <1>1. ~Fault
    BY <1>0 DEF Fault
  <1>2. faults' = faults
    <2>1. CASE UNCHANGED vars
      BY <2>1 DEF vars
    <2>2. ASSUME NEW r \in Requests, Handle(r)
          PROVE  faults' = faults
      BY <1>1, <2>2 DEF Handle, Login, Verify, RecordFailure, RecordSuccess,
                        CreateSession, Get, Renew, Drop
    <2>3. ASSUME NEW c \in Commands, Administer(c)
          PROVE  faults' = faults
      BY <1>1, <2>3 DEF Administer, AdminPasswd, AdminDel, CountAdmins, DeleteUser,
                        DeleteByUsername, CommandStops
    <2>4. ASSUME NEW u \in Users, NEW role \in Roles, AdminAdd(u, role)
          PROVE  faults' = faults
      BY <2>4 DEF AdminAdd
    <2>5. CASE DeleteExpired \/ Tick \/ Crash
      BY <1>1, <2>5 DEF DeleteExpired, Tick, Crash
    <2> QED
      BY <2>1, <2>2, <2>3, <2>4, <2>5 DEF Next
  <1> QED
    BY <1>1, <1>2 DEF Crash, CommandStops

\* A step that starts from an idle or a counting command takes no revocation away.
LEMMA RevokingKept ==
  ASSUME TypeInv, NEW c \in Commands, command[c].pc # "revoke", NEW local,
         command' = [command EXCEPT ![c] = local], NEW u, Revoking(u)
  PROVE  Revoking(u)'
  BY DEF Revoking, TypeInv, TypeOK

LEMMA AdministerRevokes ==
  ASSUME TypeInv, NEW c \in Commands, Administer(c), ~CommandStops(c),
         \A s \in sessions : Vouched(s)
  PROVE  \A s \in sessions' : Vouched(s)'
  <1> SUFFICES ASSUME NEW s \in sessions', s.fresh
               PROVE  Current(s.user, s.password)' \/ Revoking(s.user)'
    BY DEF Vouched
  <1>0. /\ command \in [Commands -> Command] /\ sessions \subseteq Session
        /\ accounts \in [Users -> Account \cup {None}]
    BY DEF TypeInv, TypeOK
  <1>1. s \in sessions
    BY DEF Administer, AdminPasswd, AdminDel, CountAdmins, DeleteUser, DeleteByUsername,
           CommandStops
  <1>2. s.user \in Users /\ (Current(s.user, s.password) \/ Revoking(s.user))
    BY <1>0, <1>1 DEF Vouched, Session
  <1>3. ASSUME NEW u \in Users, AdminPasswd(c, u)
        PROVE  Current(s.user, s.password)' \/ Revoking(s.user)'
    <2> DEFINE local == [command[c] EXCEPT !.pc = "revoke", !.user = u]
    <2>1. command' = [command EXCEPT ![c] = local] /\ command[c].pc = "idle"
      BY <1>3 DEF AdminPasswd
    <2>2. local.pc = "revoke" /\ local.user = u
      BY <1>0 DEF Command
    <2> HIDE DEF local
    <2>3. CASE s.user = u
      BY <1>0, <2>1, <2>2, <2>3 DEF Revoking
    <2>4. CASE s.user # u
      <3>1. accounts'[s.user] = accounts[s.user]
        BY <1>2, <1>3, <2>4, PasswdKeeps
      <3> QED
        BY <1>2, <2>1, <3>1, RevokingKept DEF Current
    <2> QED
      BY <2>3, <2>4
  <1>4. ASSUME NEW u \in Users, AdminDel(c, u)
        PROVE  Current(s.user, s.password)' \/ Revoking(s.user)'
    <2>1. /\ command[c].pc = "idle" /\ accounts' = accounts
          /\ \E local : command' = [command EXCEPT ![c] = local]
      BY <1>4 DEF AdminDel
    <2> QED
      BY <1>2, <2>1, RevokingKept DEF Current
  <1>5. CASE CountAdmins(c)
    <2>1. /\ command[c].pc = "count" /\ accounts' = accounts
          /\ \E local : command' = [command EXCEPT ![c] = local]
      BY <1>5 DEF CountAdmins
    <2> QED
      BY <1>2, <2>1, RevokingKept DEF Current
  <1>6. CASE DeleteUser(c)
    <2>1. command'[c].pc = "revoke" /\ command'[c].user = command[c].user
      BY <1>6 DEF DeleteUser, Overtaking
    <2>2. CASE s.user = command[c].user
      BY <2>1, <2>2 DEF Revoking
    <2>3. CASE s.user # command[c].user
      <3>1. accounts'[s.user] = accounts[s.user]
        BY <1>0, <1>2, <1>6, <2>3 DEF DeleteUser
      <3>2. \A d \in Commands : d # c => /\ command'[d].pc = command[d].pc
                                          /\ command'[d].user = command[d].user
        <4> SUFFICES ASSUME NEW d \in Commands, d # c
                     PROVE  /\ command'[d].pc = command[d].pc
                            /\ command'[d].user = command[d].user
          OBVIOUS
        <4> DEFINE late == command[d].overtaken \/ command[d].pc \in {"count", "delete"}
        <4>1. command'[d] = [command[d] EXCEPT !.overtaken = late]
          BY <1>6 DEF DeleteUser, Overtaking
        <4> HIDE DEF late
        <4> QED
          BY <1>0, <4>1 DEF Command
      <3>3. command[c].pc # "revoke"
        BY <1>6 DEF DeleteUser
      <3>4. Revoking(s.user) => Revoking(s.user)'
        BY <3>2, <3>3 DEF Revoking
      <3> QED
        BY <1>2, <3>1, <3>4 DEF Current
    <2> QED
      BY <2>2, <2>3
  <1>7. CASE DeleteByUsername(c)
    <2>1. /\ s.user # command[c].user /\ accounts' = accounts
          /\ command' = [command EXCEPT ![c] = IdleCommand]
      BY <1>7 DEF DeleteByUsername
    <2>2. Revoking(s.user) => Revoking(s.user)'
      BY <1>0, <2>1 DEF Revoking
    <2> QED
      BY <1>2, <2>1, <2>2 DEF Current
  <1> QED
    BY <1>3, <1>4, <1>5, <1>6, <1>7 DEF Administer

LEMMA OutliveNext ==
  ASSUME TypeInv, OnlyLateLoginsOutlive, [Next]_vars
  PROVE  OnlyLateLoginsOutlive'
  <1>1. OnlyLateLoginsOutlive <=> (faults = 0 => \A s \in sessions : Vouched(s))
    BY DEF OnlyLateLoginsOutlive, Vouched, Revoking
  <1>2. OnlyLateLoginsOutlive' <=> (faults' = 0 => \A s \in sessions' : Vouched(s)')
    BY DEF OnlyLateLoginsOutlive, Vouched, Revoking
  <1> SUFFICES ASSUME faults' = 0
               PROVE  \A s \in sessions' : Vouched(s)'
    BY <1>2
  <1>3. \A s \in sessions : Vouched(s)
    BY <1>1, FaultsCount
  <1>4. ASSUME UNCHANGED <<accounts, command>>, NEW s, NEW t \in sessions,
               s.fresh = t.fresh, s.user = t.user, s.password = t.password
        PROVE  Vouched(s)'
    BY <1>3, <1>4 DEF Vouched, Current, Revoking
  <1>5. CASE UNCHANGED <<accounts, command>> /\ sessions' \subseteq sessions
    BY <1>4, <1>5
  <1>6. ASSUME NEW r \in Requests, CreateSession(r)
        PROVE  \A s \in sessions' : Vouched(s)'
    <2>1. UNCHANGED <<accounts, command>>
      BY <1>6 DEF CreateSession, admin
    <2> DEFINE m == request[r]
               Opened(token, created, expires) ==
                   [token |-> token, user |-> m.user, role |-> m.role,
                    password |-> m.password, fresh |-> Current(m.user, m.password),
                    created |-> created, expires |-> expires]
    <2>2. \A token, created, expires :
             Opened(token, created, expires).fresh =>
                Current(Opened(token, created, expires).user,
                        Opened(token, created, expires).password)
      BY Zenon
    <2>3. \A s \in sessions' : s \in sessions \/ (s.fresh => Current(s.user, s.password))
      <3>1. \/ sessions' = sessions
            \/ sessions' = sessions \cup
                  {Opened(issued', Stored(clock), Stored(clock + Ticks(Ttl)))}
        BY <1>6 DEF CreateSession
      <3> DEFINE x == Opened(issued', Stored(clock), Stored(clock + Ticks(Ttl)))
      <3>2. x.fresh => Current(x.user, x.password)
        BY <2>2, Zenon
      <3>3. sessions' = sessions \/ sessions' = sessions \cup {x}
        BY <3>1, Zenon
      <3> HIDE DEF x
      <3> QED
        BY <3>2, <3>3, Zenon
    <2>4. ASSUME NEW s \in sessions', s \notin sessions
          PROVE  Vouched(s)'
      <3>1. s.fresh => Current(s.user, s.password)
        BY <2>3, <2>4
      <3> QED
        BY <2>1, <3>1 DEF Vouched, Current
    <2> QED
      BY <1>4, <2>1, <2>4
  <1>7. ASSUME NEW r \in Requests, Renew(r)
        PROVE  \A s \in sessions' : Vouched(s)'
    <2>1. UNCHANGED <<accounts, command>>
      BY <1>7 DEF Renew, admin
    <2>2. sessions \subseteq Session
      BY DEF TypeInv, TypeOK
    <2> DEFINE Written(s) == IF s.token = request[r].token
                               THEN [s EXCEPT !.expires = request[r].expires] ELSE s
    <2>3. \A s \in sessions : /\ Written(s).fresh = s.fresh /\ Written(s).user = s.user
                              /\ Written(s).password = s.password
      BY <2>2 DEF Session
    <2>4. sessions' = sessions \/ sessions' = {Written(s) : s \in sessions}
      BY <1>7 DEF Renew
    <2> HIDE DEF Written
    <2>5. \A s \in sessions' : \E t \in sessions :
             s.fresh = t.fresh /\ s.user = t.user /\ s.password = t.password
      BY <2>3, <2>4
    <2> QED
      BY <1>4, <2>1, <2>5
  <1>8. ASSUME NEW c \in Commands, Administer(c)
        PROVE  \A s \in sessions' : Vouched(s)'
    BY <1>3, <1>8, FaultsCount, AdministerRevokes
  <1>9. ASSUME NEW u \in Users, NEW role \in Roles, AdminAdd(u, role)
        PROVE  \A s \in sessions' : Vouched(s)'
    <2>1. /\ \A v \in Users : v # u => accounts'[v] = accounts[v]
          /\ accounts[u] = None /\ command' = command /\ sessions' = sessions
      BY <1>9 DEF AdminAdd, TypeInv, TypeOK
    <2>2. \A s \in sessions : s.user \in Users
      BY DEF TypeInv, TypeOK, Session
    <2> QED
      BY <1>3, <2>1, <2>2 DEF Vouched, Current, Revoking
  <1> QED
    BY <1>5, <1>6, <1>7, <1>8, <1>9, AccountSteps, SessionSteps

\* While nothing fails, a session opened with a password that was the user's then
\* outlasts that password or account only until the command that changed it has
\* deleted the user's sessions (runAdminPasswd, runAdminDel).
THEOREM ChangedCredentialsAreRevoked == Spec => []OnlyLateLoginsOutlive
  <1>1. Init => OnlyLateLoginsOutlive
    BY DEF Init, OnlyLateLoginsOutlive
  <1>2. TypeInv /\ OnlyLateLoginsOutlive /\ [Next]_vars => OnlyLateLoginsOutlive'
    BY OutliveNext
  <1> QED
    BY <1>1, <1>2, TypeInvariant, PTL DEF Spec
=============================================================================
