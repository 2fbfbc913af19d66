------------------------------ MODULE Accounts ------------------------------
(***************************************************************************)
(* Local accounts, console sessions and the login throttle.                *)
(*                                                                         *)
(* Request handlers of the server and `cairn admin` commands, each a        *)
(* process of its own, work on app_users and app_sessions one SQL          *)
(* statement at a time.  The throttle is memory of the server process.     *)
(* Time is counted in ticks, Fraction of them a second: what the database  *)
(* stores is cut to whole seconds, what Go compares is not.                *)
(***************************************************************************)
EXTENDS Integers, FiniteSets, Sequences

CONSTANTS
    Users,          \* user names
    Requests,       \* handler goroutines
    Commands,       \* slots for `cairn admin` processes
    Ttl,            \* idle_timeout_mins, in seconds
    MaxLifetime,    \* max_lifetime_mins, in seconds
    MaxAttempts, Window, Lockout,   \* the throttle's policy, in seconds
    Fraction,       \* ticks per second
    MaxTime,        \* bound on the clock
    MaxInputs,      \* bound on logins and passwords ever set, together
    MaxFaults,      \* bound on failed calls, killed commands and crashes
    None

Roles == {"admin", "operator"}

\* A row of app_users; None stands for no row.
Account == [password: Nat \ {0}, role: Roles]

ASSUME AccountsAssumption ==
    /\ {Ttl, MaxLifetime, MaxAttempts, Fraction} \subseteq Nat \ {0}
    /\ {Window, Lockout, MaxTime, MaxInputs, MaxFaults} \subseteq Nat
    /\ None \notin Users \cup Account

VARIABLES
    clock,          \* the present, in ticks
    accounts,       \* app_users
    passwords,      \* how many passwords were ever set: each is a number
    sessions,       \* app_sessions
    issued,         \* how many tokens were ever drawn: each is a number
    throttle,       \* LoginThrottle.entries; the client address is fixed
    request,        \* what each handler holds
    command,        \* what each command holds
    logins, faults

vars == <<clock, accounts, passwords, sessions, issued, throttle, request,
          command, logins, faults>>

-----------------------------------------------------------------------------
\* password is the one the session was opened with, and fresh says whether it was
\* the user's when the row was inserted; the table has neither.
Session == [token: Nat, user: Users, role: Roles, password: Nat, fresh: BOOLEAN,
            created: Nat, expires: Nat]

Entry == [failures: Nat, start: Nat, until: Nat]

Request == [pc: {"idle", "verify", "rejected", "accepted", "create", "renew", "drop"},
            user: Users \cup {None}, password: Nat, role: Roles \cup {None},
            token: Nat, expires: Nat, logout: BOOLEAN]
IdleRequest == [pc |-> "idle", user |-> None, password |-> 0, role |-> None,
                token |-> 0, expires |-> 0, logout |-> FALSE]

\* overtaken: another command has deleted an account since this one began.
Command == [pc: {"idle", "count", "delete", "revoke"}, user: Users \cup {None},
            overtaken: BOOLEAN]
IdleCommand == [pc |-> "idle", user |-> None, overtaken |-> FALSE]

Init ==
    /\ clock = 0 /\ passwords = 0 /\ issued = 0 /\ logins = 0 /\ faults = 0
    /\ accounts = [u \in Users |-> None]
    /\ sessions = {}
    /\ throttle = [u \in Users |-> None]
    /\ request = [r \in Requests |-> IdleRequest]
    /\ command = [c \in Commands |-> IdleCommand]

\* A time as RFC 3339 or datetime('now') stores it.
Stored(t) == t - (t % Fraction)
Ticks(seconds) == seconds * Fraction

Fault == faults < MaxFaults /\ faults' = faults + 1

console == <<request, throttle, logins>>
admin   == <<accounts, passwords, command>>

-----------------------------------------------------------------------------
(***************************************************************************)
(* Logging in (handleLogin).                                               *)
(***************************************************************************)
Locked(u) == throttle[u] # None /\ clock < throttle[u].until

Attempt(u, p) ==
    [IdleRequest EXCEPT !.pc = "verify", !.user = u, !.password = p]

\* A login form: the throttle admits it or the handler answers 429, which
\* changes nothing.  The password is the user's present one or a wrong one (0);
\* whether it still is the present one when it is verified is open.
Login(r, u, p) ==
    /\ request[r].pc = "idle"
    /\ logins + passwords < MaxInputs
    /\ ~Locked(u)
    /\ request' = [request EXCEPT ![r] = Attempt(u, p)]
    /\ logins' = logins + 1
    /\ UNCHANGED <<clock, sessions, issued, throttle, faults, admin>>

Rejected(u) == [IdleRequest EXCEPT !.pc = "rejected", !.user = u]

VerifyWithoutRole(r) ==
    LET m == request[r]
        a == accounts[m.user]
    IN  /\ m.pc = "verify"
        /\ request' = [request EXCEPT ![r] =
                         IF a # None /\ a.password = m.password
                           THEN [@ EXCEPT !.pc = "accepted"] ELSE Rejected(m.user)]
        /\ UNCHANGED <<clock, sessions, issued, throttle, logins, faults, admin>>

\* LocalStore.Authenticate: the row is read once; hashing takes long after it.
Verify(r) ==
    LET m == request[r]
        a == accounts[m.user]
    IN  /\ m.pc = "verify"
        /\ \/ /\ a # None /\ a.password = m.password
              /\ request' = [request EXCEPT ![r] =
                              [@ EXCEPT !.pc = "accepted", !.role = a.role]]
              /\ UNCHANGED faults
           \/ /\ a # None => a.password # m.password
              /\ request' = [request EXCEPT ![r] = Rejected(m.user)]
              /\ UNCHANGED faults
           \/ /\ request' = [request EXCEPT ![r] = Rejected(m.user)]
              /\ Fault
        /\ UNCHANGED <<clock, sessions, issued, throttle, logins, admin>>

CountedPastLimit(e) ==
    LET fresh == e = None \/ clock - e.start > Ticks(Window)
        n     == IF fresh THEN 1 ELSE e.failures + 1
    IN  [failures |-> n,
         start    |-> IF fresh THEN clock ELSE e.start,
         until    |-> IF n > MaxAttempts THEN clock + Ticks(Lockout)
                      ELSE IF e = None THEN 0 ELSE e.until]

\* The entry after a failure now: failures in a window that starts with the
\* first one, and a lockout at MaxAttempts.
Counted(e) ==
    LET fresh == e = None \/ clock - e.start > Ticks(Window)
        n     == IF fresh THEN 1 ELSE e.failures + 1
    IN  [failures |-> n,
         start    |-> IF fresh THEN clock ELSE e.start,
         until    |-> IF n >= MaxAttempts THEN clock + Ticks(Lockout)
                      ELSE IF e = None THEN 0 ELSE e.until]

RecordFailureExtends(r) ==
    /\ request[r].pc = "rejected"
    /\ throttle' = [throttle EXCEPT ![request[r].user] = Counted(@)]
    /\ request' = [request EXCEPT ![r] = IdleRequest]
    /\ UNCHANGED <<clock, sessions, issued, logins, faults, admin>>

\* RecordFailure leaves an entry that is locked out as it is.
RecordFailure(r) ==
    LET u == request[r].user
    IN  /\ request[r].pc = "rejected"
        /\ throttle' = IF Locked(u) THEN throttle
                       ELSE [throttle EXCEPT ![u] = Counted(@)]
        /\ request' = [request EXCEPT ![r] = IdleRequest]
        /\ UNCHANGED <<clock, sessions, issued, logins, faults, admin>>

RecordSuccess(r) ==
    /\ request[r].pc = "accepted"
    /\ throttle' = [throttle EXCEPT ![request[r].user] = None]
    /\ request' = [request EXCEPT ![r].pc = "create"]
    /\ UNCHANGED <<clock, sessions, issued, logins, faults, admin>>

Current(u, password) == accounts[u] # None /\ accounts[u].password = password

CreateSessionForLife(r) ==
    LET m == request[r]
    IN  /\ m.pc = "create"
        /\ request' = [request EXCEPT ![r] = IdleRequest]
        /\ issued' = issued + 1
        /\ sessions' = sessions \cup
             {[token |-> issued', user |-> m.user, role |-> m.role,
               password |-> m.password, fresh |-> Current(m.user, m.password),
               created |-> Stored(clock),
               expires |-> Stored(clock + Ticks(MaxLifetime))]}
        /\ UNCHANGED <<clock, throttle, logins, faults, admin>>

\* SessionStore.Create; created_at is SQLite's clock at the same moment.
CreateSession(r) ==
    LET m == request[r]
    IN  /\ m.pc = "create"
        /\ request' = [request EXCEPT ![r] = IdleRequest]
        /\ \/ /\ issued' = issued + 1
              /\ sessions' = sessions \cup
                   {[token |-> issued', user |-> m.user, role |-> m.role,
                     password |-> m.password, fresh |-> Current(m.user, m.password),
                     created |-> Stored(clock),
                     expires |-> Stored(clock + Ticks(Ttl))]}
              /\ UNCHANGED faults
           \/ UNCHANGED <<sessions, issued>> /\ Fault
        /\ UNCHANGED <<clock, throttle, logins, admin>>

-----------------------------------------------------------------------------
(***************************************************************************)
(* A request with a session cookie (currentSession, SessionStore.Get).     *)
(***************************************************************************)
Cap(s)  == s.created + Ticks(MaxLifetime)
Dead(s) == clock > s.expires \/ clock > Cap(s)

SlidUncapped(s) == clock + Ticks(Ttl)

\* The expiry slides to now + ttl, never past the cap.
Slid(s) == LET e == clock + Ticks(Ttl) IN IF e > Cap(s) THEN Cap(s) ELSE e

Using(s, pc, expires, logout) ==
    [IdleRequest EXCEPT !.pc = pc, !.token = s.token, !.expires = expires,
                        !.logout = logout]

\* The row is read; what the handler does next was decided by that row.  A
\* logout needs a valid session for its CSRF token, and deletes it in the end.
Get(r, s, logout) ==
    /\ request[r].pc = "idle"
    /\ \/ /\ Dead(s)
          /\ request' = [request EXCEPT ![r] = Using(s, "drop", 0, FALSE)]
       \/ /\ ~Dead(s) /\ Slid(s) > s.expires
          /\ request' = [request EXCEPT ![r] =
                           Using(s, "renew", Stored(Slid(s)), logout)]
       \/ /\ ~Dead(s) /\ Slid(s) <= s.expires /\ logout
          /\ request' = [request EXCEPT ![r] = Using(s, "drop", 0, FALSE)]
    /\ UNCHANGED <<clock, sessions, issued, throttle, logins, faults, admin>>

AfterRenew(r) ==
    request' = [request EXCEPT ![r] =
                  IF @.logout THEN [@ EXCEPT !.pc = "drop"] ELSE IdleRequest]

\* The UPDATE of expires_at; its error is ignored.
Renew(r) ==
    LET m == request[r]
    IN  /\ m.pc = "renew"
        /\ \/ /\ sessions' = {IF s.token = m.token
                                THEN [s EXCEPT !.expires = m.expires] ELSE s : s \in sessions}
              /\ UNCHANGED faults
           \/ UNCHANGED sessions /\ Fault
        /\ AfterRenew(r)
        /\ UNCHANGED <<clock, issued, throttle, logins, admin>>

\* SessionStore.Delete, whose error is ignored.
Drop(r) ==
    /\ request[r].pc = "drop"
    /\ \/ /\ sessions' = {s \in sessions : s.token # request[r].token}
          /\ UNCHANGED faults
       \/ UNCHANGED sessions /\ Fault
    /\ request' = [request EXCEPT ![r] = IdleRequest]
    /\ UNCHANGED <<clock, issued, throttle, logins, admin>>

DeleteExpiredEarly ==
    /\ sessions' = {s \in sessions : s.expires > Stored(clock)}
    /\ UNCHANGED <<clock, issued, faults, console, admin>>

\* The hourly DeleteExpired, at any time: it compares stored times.
DeleteExpired ==
    /\ sessions' = {s \in sessions : s.expires >= Stored(clock)}
    /\ UNCHANGED <<clock, issued, faults, console, admin>>

-----------------------------------------------------------------------------
(***************************************************************************)
(* `cairn admin` commands.                                                 *)
(***************************************************************************)
NewPassword == logins + passwords < MaxInputs /\ passwords' = passwords + 1

\* runAdminAdd: the primary key refuses a second account of that name.
AdminAdd(u, role) ==
    /\ accounts[u] = None
    /\ NewPassword
    /\ accounts' = [accounts EXCEPT ![u] = [password |-> passwords', role |-> role]]
    /\ UNCHANGED <<clock, sessions, issued, command, faults, console>>

\* runAdminPasswd: the password first, the sessions in a second statement.
AdminPasswd(c, u) ==
    /\ command[c].pc = "idle"
    /\ accounts[u] # None
    /\ NewPassword
    /\ accounts' = [accounts EXCEPT ![u].password = passwords']
    /\ command' = [command EXCEPT ![c].pc = "revoke", ![c].user = u]
    /\ UNCHANGED <<clock, sessions, issued, faults, console>>

\* runAdminDel reads the role: for an admin it counts the admins next.
AdminDel(c, u) ==
    /\ command[c].pc = "idle"
    /\ accounts[u] # None
    /\ command' = [command EXCEPT
                      ![c].pc = IF accounts[u].role = "admin" THEN "count" ELSE "delete",
                      ![c].user = u]
    /\ UNCHANGED <<clock, accounts, passwords, sessions, issued, faults, console>>

Admins == {u \in Users : accounts[u] # None /\ accounts[u].role = "admin"}

CountAdminsAllowingNone(c) ==
    /\ command[c].pc = "count"
    /\ command' = [command EXCEPT ![c] = IF Cardinality(Admins) < 1 THEN IdleCommand
                                         ELSE [@ EXCEPT !.pc = "delete"]]
    /\ UNCHANGED <<clock, accounts, passwords, sessions, issued, faults, console>>

\* DeleteUser refuses to delete the last admin.
CountAdmins(c) ==
    /\ command[c].pc = "count"
    /\ command' = [command EXCEPT ![c] = IF Cardinality(Admins) <= 1 THEN IdleCommand
                                         ELSE [@ EXCEPT !.pc = "delete"]]
    /\ UNCHANGED <<clock, accounts, passwords, sessions, issued, faults, console>>

\* Command c has deleted an account; the others that have read it may be wrong now.
Overtaking(c, next) ==
    [d \in Commands |->
        IF d = c THEN next
        ELSE [command[d] EXCEPT !.overtaken = @ \/ command[d].pc \in {"count", "delete"}]]

DeleteUserOnly(c) ==
    /\ command[c].pc = "delete"
    /\ accounts' = [accounts EXCEPT ![command[c].user] = None]
    /\ command' = Overtaking(c, IdleCommand)
    /\ UNCHANGED <<clock, passwords, sessions, issued, faults, console>>

\* The DELETE of the row, whoever has changed or deleted it since it was read.
DeleteUser(c) ==
    /\ command[c].pc = "delete"
    /\ accounts' = [accounts EXCEPT ![command[c].user] = None]
    /\ command' = Overtaking(c, [pc |-> "revoke", user |-> command[c].user, overtaken |-> FALSE])
    /\ UNCHANGED <<clock, passwords, sessions, issued, faults, console>>

\* The sessions of the user, after a new password and after a deletion.
DeleteByUsername(c) ==
    /\ command[c].pc = "revoke"
    /\ sessions' = {s \in sessions : s.user # command[c].user}
    /\ command' = [command EXCEPT ![c] = IdleCommand]
    /\ UNCHANGED <<clock, accounts, passwords, issued, faults, console>>

\* A command's statement fails, or the command is killed before it.
CommandStops(c) ==
    /\ command[c].pc # "idle"
    /\ command' = [command EXCEPT ![c] = IdleCommand]
    /\ Fault
    /\ UNCHANGED <<clock, accounts, passwords, sessions, issued, console>>

-----------------------------------------------------------------------------
Tick == /\ clock < MaxTime
        /\ clock' = clock + 1
        /\ UNCHANGED <<sessions, issued, faults, console, admin>>

\* The server stops and starts again: the throttle is empty.
Crash == /\ Fault
         /\ throttle' = [u \in Users |-> None]
         /\ request' = [r \in Requests |-> IdleRequest]
         /\ UNCHANGED <<clock, sessions, issued, logins, admin>>

Typed(u) == {0} \cup IF accounts[u] = None THEN {} ELSE {accounts[u].password}

Handle(r) == \/ \E u \in Users : \E p \in Typed(u) : Login(r, u, p)
             \/ Verify(r) \/ RecordFailure(r) \/ RecordSuccess(r) \/ CreateSession(r)
             \/ \E s \in sessions, logout \in BOOLEAN : Get(r, s, logout)
             \/ Renew(r) \/ Drop(r)

Administer(c) == \/ \E u \in Users : AdminPasswd(c, u) \/ AdminDel(c, u)
                 \/ CountAdmins(c) \/ DeleteUser(c) \/ DeleteByUsername(c)
                 \/ CommandStops(c)

Next == \/ \E r \in Requests : Handle(r)
        \/ \E c \in Commands : Administer(c)
        \/ \E u \in Users, role \in Roles : AdminAdd(u, role)
        \/ DeleteExpired
        \/ Tick
        \/ Crash

Spec == Init /\ [][Next]_vars

-----------------------------------------------------------------------------
(***************************************************************************)
(* Properties.                                                             *)
(***************************************************************************)
\* Type invariant: the tables and locals hold what the code writes.
TypeOK ==
    /\ {clock, passwords, issued, logins, faults} \subseteq Nat
    /\ accounts \in [Users -> Account \cup {None}]
    /\ sessions \subseteq Session
    /\ throttle \in [Users -> Entry \cup {None}]
    /\ request \in [Requests -> Request]
    /\ command \in [Commands -> Command]

\* Under every policy, reaching the limit costs a lockout: while an entry is at
\* the limit, logins are refused, or a whole lockout has passed since its window
\* began.  Where the lockout does not outlast the window the count is then still
\* at the limit, and the next failure locks out again at once (RecordFailure).
LockoutServed ==
    \A u \in Users :
        (throttle[u] # None /\ throttle[u].failures >= MaxAttempts) =>
            Locked(u) \/ clock >= throttle[u].start + Ticks(Lockout)

\* A lockout is for a fixed duration: failures of logins that were under way
\* neither extend nor count into it; only a login that was already under way
\* and succeeds, or a restart, ends it early (LoginThrottle).
LockoutsAreFixed ==
    [][\A u \in Users : Locked(u) => throttle'[u] \in {throttle[u], None}]_vars

\* No session is extended past the absolute cap, though handlers decide on
\* rows they read before others renewed or revoked them (SessionStore.Get).
RenewalsRespectCap ==
    \A s \in sessions : s.expires <= Cap(s) \/ s.expires = s.created + Ticks(Ttl)

\* A session that was logged out, revoked or purged never comes back, whatever
\* handlers still hold its token.
RevokedStaysRevoked ==
    [][\A t \in 1..issued : (\A s \in sessions : s.token # t) =>
          (\A s \in sessions' : s.token # t)]_vars

\* The hourly purge removes no session that a request could still use, though
\* it compares times cut to seconds (DeleteExpired).
PurgeSparesLive ==
    [][DeleteExpired => \A s \in sessions : ~Dead(s) => s \in sessions']_vars

\* What "refuses to remove the last admin" (DeleteUser) comes to, for statements
\* of several commands: whatever they read and count, the last admin falls only to
\* a deletion that another command's deletion has overtaken.
LastAdminFallsOnlyToOverlap ==
    [][Admins # {} /\ Admins' = {} =>
          \E c \in Commands : command[c].pc = "delete" /\ command[c].overtaken]_vars

\* Two forms that the code does not keep: "It refuses to remove the last admin"
\* (local.go) where deletions overlap, and "a fresh window then starts on the next
\* failure" (throttle.go) where the lockout does not outlast the window.
AdminRemains == [][Admins # {} => Admins' # {}]_vars
FreshWindowStarts ==
    \A u \in Users :
        (throttle[u] # None /\ throttle[u].failures >= MaxAttempts) =>
            Locked(u) \/ clock - throttle[u].start > Ticks(Window)

\* What the store promises (Leases): a token stands for one user and role from
\* its creation until it ends, is extended only by a use and only up to the cap,
\* and never comes back, however statements of handlers and commands interleave.
AsLease(s) == [id |-> s.token, holder |-> <<s.user, s.role>>,
               opened |-> s.created, until |-> s.expires]

Lease == INSTANCE Leases WITH
    Holders <- Users \X Roles, Idle <- Ticks(Ttl), Longest <- Ticks(MaxLifetime),
    Grain <- Fraction, now <- clock, held <- {AsLease(s) : s \in sessions},
    issued <- issued

ImplementsLeases == Lease!Spec

\* What "invalidate the user's existing sessions" (admin.go) comes to: while
\* nothing fails, a session whose password was still the user's when it was opened
\* outlasts that password or account only until the command that changed it is
\* done.  All that remains are logins that open their session later than that.
OnlyLateLoginsOutlive ==
    faults = 0 =>
        \A s \in sessions :
            s.fresh /\ ~Current(s.user, s.password) =>
                \E c \in Commands : command[c].pc = "revoke" /\ command[c].user = s.user

\* Once its commands are done, no session was opened with a password that has
\* been replaced or an account that is gone (DeleteByUsername).
NoSessionOutlivesCredential ==
    (\A c \in Commands : command[c].pc = "idle") =>
        \A s \in sessions : /\ accounts[s.user] # None
                             /\ accounts[s.user].password = s.password
=============================================================================
