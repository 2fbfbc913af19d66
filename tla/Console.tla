------------------------------- MODULE Console -------------------------------
(***************************************************************************)
(* Signing in to the console, and what is recorded of what is done there.  *)
(*                                                                         *)
(* A request runs in a goroutine of its own and sees the cookies its        *)
(* browser had when it was sent; the cookies it sets reach the browser with *)
(* the response, or never.  Between two reads of a request the session may  *)
(* be gone: it expired, was logged out, or `cairn admin` revoked it.        *)
(* A request opens at most one session and starts at most one sign-on, so   *)
(* the request itself stands for the token, the CSRF token, the state and   *)
(* the nonce it draws.  The throttle and the life of sessions are Accounts'.*)
(***************************************************************************)
EXTENDS Integers, FiniteSets

CONSTANTS
    Requests,       \* requests ever sent: the bound on the behaviour
    Browsers,
    Users,          \* user names, of accounts and of directory entries alike
    Groups,         \* groups of the directory and of the group claim
    LocalRole,      \* role of each local account, None for no account
    Directory,      \* groups of each user who has an entry
    GroupRoles,     \* the mapping group_roles, None for a group it lacks
    DefaultRole,    \* default_role
    MinRoles,       \* the least roles that the routes sent ask for
    NumServers,     \* ldap.servers; 0 when LDAP is disabled
    None

ASSUME ConsoleAssumption ==
    /\ NumServers \in Nat
    /\ DefaultRole \in {"user", "operator", "admin"}
    /\ MinRoles \subseteq {"operator", "admin"}
    /\ LocalRole \in [Users -> {"user", "operator", "admin", None}]
    /\ DOMAIN Directory \subseteq Users
    /\ \A u \in DOMAIN Directory : Directory[u] \subseteq Groups
    /\ GroupRoles \in [Groups -> {"user", "operator", "admin", None}]
    /\ None \notin Users \cup Requests \cup Browsers \cup {"user", "operator", "admin"}
    /\ None \notin [user: Users, provider: {"local", "ldap", "oidc"},
                     role: {"user", "operator", "admin"}]
    /\ None \notin [user: Users, spent: BOOLEAN]

VARIABLES
    jar,            \* the cookies of each browser
    sessions,       \* app_sessions, by token
    opened,         \* every session there ever was
    codes,          \* the codes the identity provider has given out, by flow
    request,        \* what each request holds
    changes,        \* what the handlers changed: who did it in which request
    log             \* audit_log

vars == <<jar, sessions, opened, codes, request, changes, log>>

-----------------------------------------------------------------------------
Roles == {"user", "operator", "admin"}
Providers == {"local", "ldap", "oidc"}
Cookie == Requests \cup {None}

Identity == [user: Users, provider: Providers, role: Roles]
LogRow == [request: Requests, user: Users \cup {None}, provider: Providers \cup {None}]

Passwords == {"local", "directory", "wrong"}
Kinds == {"none", "login", "logout", "change", "sso", "callback"}
Request ==
    [pc: {"idle", "exchange", "create", "csrf", "act", "drop", "audit", "respond", "done"},
     kind: Kinds, browser: Browsers \cup {None},
     session: Cookie, flow: Cookie,         \* the cookies it came with
     user: Users \cup {None}, password: Passwords \cup {"none"},
     failed: BOOLEAN, form: Cookie, state: Cookie,
     identity: Identity \cup {None},
     sets: [session: {"keep", "set", "clear"}, flow: {"keep", "set", "clear"}]]

Idle ==
    [pc |-> "idle", kind |-> "none", browser |-> None, session |-> None,
     flow |-> None, user |-> None, password |-> "none",
     failed |-> FALSE, form |-> None, state |-> None,
     identity |-> None, sets |-> [session |-> "keep", flow |-> "keep"]]

Init ==
    /\ jar = [b \in Browsers |-> [session |-> None, flow |-> None]]
    /\ sessions = [t \in Requests |-> None]
    /\ opened = [t \in Requests |-> None]
    /\ codes = [f \in Requests |-> None]
    /\ request = [r \in Requests |-> Idle]
    /\ changes = {}
    /\ log = {}

rows == <<sessions, opened, codes, changes, log>>

\* What is left of a request when it is over: how it signed in, or that it began
\* a sign-on.
Over(q) ==
    IF q.sets.session = "set" \/ q.kind = "sso"
      THEN [q EXCEPT !.pc = "done", !.session = None, !.flow = None, !.form = None,
                     !.identity = None]
      ELSE [Idle EXCEPT !.pc = "done"]

\* The request goes on at pc p.
To(r, p) == request' = [request EXCEPT ![r].pc = p]

\* A request of browser b, with the cookies b has now.
Sent(b, kind) ==
    [Idle EXCEPT !.kind = kind, !.browser = b,
                 !.session = jar[b].session, !.flow = jar[b].flow]

Rank(role) == CASE role = "admin" -> 3 [] role = "operator" -> 2
                [] role = "user" -> 1 [] OTHER -> 0
AtLeast(role, min) == Rank(role) >= Rank(min)

\* The session of a cookie, as one read finds it.
Live(t) == t # None /\ sessions[t] # None

-----------------------------------------------------------------------------
(***************************************************************************)
(* POST /login: the directory's servers in turn, then the local store.     *)
(* A check of credentials is answered by an identity or by None.           *)
(***************************************************************************)
GroupsOf(u) == IF u \in DOMAIN Directory THEN Directory[u] ELSE {}

MapRoleOfAnyGroup(groups) ==
    LET granted == {DefaultRole} \cup ({GroupRoles[g] : g \in Groups} \ {None})
    IN  CHOOSE role \in granted : \A other \in granted : AtLeast(role, other)

\* The highest role a mapped group grants, or the default.
MapRole(groups) ==
    LET granted == {DefaultRole} \cup ({GroupRoles[g] : g \in groups} \ {None})
    IN  CHOOSE role \in granted : \A other \in granted : AtLeast(role, other)

Identified(u, provider, role) == [user |-> u, provider |-> provider, role |-> role]

\* The identity the directory gives, and the one the claims of an ID token give.
LdapIdentity(u) == Identified(u, "ldap", MapRole(GroupsOf(u)))
ClaimedIdentity(u) == Identified(u, "oidc", MapRole(GroupsOf(u)))

\* One server finds the entry and binds as it, or not; or dialling, the service
\* bind or the search fails, or the filter matches several entries.
ServerSays(u, p) ==
    {"fails", IF u \in DOMAIN Directory /\ p = "directory" THEN "accepts" ELSE "rejects"}

\* The first server that does not fail decides.
Decides(answers) ==
    LET healthy == {i \in 1 .. NumServers : answers[i] # "fails"}
    IN  IF healthy = {} THEN "fails"
        ELSE answers[CHOOSE i \in healthy : \A j \in healthy : i <= j]

MovesOnUnlessRejected(answer) == answer = "fails"
\* Whatever is not a success moves on to the next provider.
MovesOn(answer) == answer # "accepts"

MatchesAnyone(u, p) == p = "local"
Matches(u, p) == LocalRole[u] # None /\ p = "local"

\* The chain's answer; a failure is that of the local store's database.
Answer(u, p, answer, fault) ==
    IF ~MovesOn(answer)
      THEN IF answer = "accepts" THEN LdapIdentity(u) ELSE None
      ELSE IF Matches(u, p) /\ ~fault THEN Identified(u, "local", LocalRole[u]) ELSE None

\* A locked out attempt is answered at once.
LockedOut(r, b, u, p) ==
    /\ request[r].pc = "idle"
    /\ request' = [request EXCEPT ![r] =
                     [Sent(b, "login") EXCEPT !.pc = "audit", !.user = u,
                                              !.password = p, !.failed = TRUE]]
    /\ UNCHANGED <<jar, rows>>

PostLogin(r, b, u, p) ==
    /\ request[r].pc = "idle"
    /\ \E answers \in [1 .. NumServers -> ServerSays(u, p)], fault \in BOOLEAN :
          LET id == Answer(u, p, Decides(answers), fault)
          IN  request' = [request EXCEPT ![r] =
                [Sent(b, "login") EXCEPT !.pc = IF id = None THEN "audit" ELSE "create",
                    !.user = u, !.password = p, !.identity = id,
                    !.failed = id = None /\ fault]]
    /\ UNCHANGED <<jar, rows>>

-----------------------------------------------------------------------------
(***************************************************************************)
(* Single sign-on: the redirect to the identity provider, its answer, and  *)
(* the callback.  Browsers reload, restore and forward callback addresses. *)
(***************************************************************************)
GetOIDCLogin(r, b) ==
    /\ request[r].pc = "idle"
    /\ request' = [request EXCEPT ![r] =
                     [Sent(b, "sso") EXCEPT !.pc = "respond",
                        !.sets.flow = IF Live(jar[b].session) THEN "keep" ELSE "set"]]
    /\ UNCHANGED <<jar, rows>>

\* The browser follows the redirect and somebody signs in there (external).
Authorize(f, u) ==
    /\ request[f].pc = "done" /\ request[f].kind = "sso" /\ request[f].sets.flow = "set"
    /\ codes[f] = None
    /\ codes' = [codes EXCEPT ![f] = [user |-> u, spent |-> FALSE]]
    /\ UNCHANGED <<jar, sessions, opened, request, changes, log>>

StateGiven(b, f) == f # None
\* The state of the address is that of the flow cookie.
StateMatches(b, f) == jar[b].flow = f

\* Any address the provider ever redirected to; without a code, or with the
\* provider's error, nothing but the cookies changes.
GetOIDCCallback(r, b, f) ==
    LET returned(pc) == [Sent(b, "callback") EXCEPT !.pc = pc, !.state = f, !.sets.flow = "clear"]
    IN  /\ request[r].pc = "idle"
        /\ codes[f] # None
        /\ \/ /\ StateMatches(b, f)
              /\ request' = [request EXCEPT ![r] = returned("exchange")]
           \/ request' = [request EXCEPT ![r] = returned("respond")]
        /\ UNCHANGED <<jar, rows>>

\* The identity provider honours a code once; the ID token repeats the nonce.
Exchange(r) ==
    LET f == request[r].state
    IN  /\ request[r].pc = "exchange"
        /\ \/ /\ ~codes[f].spent
              /\ codes' = [codes EXCEPT ![f].spent = TRUE]
              /\ \/ request' = [request EXCEPT ![r].pc = "create",
                       ![r].identity = ClaimedIdentity(codes[f].user)]
                 \/ To(r, "respond")
           \/ To(r, "respond") /\ UNCHANGED codes
        /\ UNCHANGED <<jar, sessions, opened, changes, log>>

\* Both ways of signing in end here; only the form's is audited.
CreateSession(r) ==
    LET next == IF request[r].kind = "login" THEN "audit" ELSE "respond"
    IN  /\ request[r].pc = "create"
        /\ \/ /\ sessions' = [sessions EXCEPT ![r] = request[r].identity]
              /\ opened' = [opened EXCEPT ![r] = request[r].identity]
              /\ request' = [request EXCEPT ![r].pc = next, ![r].sets.session = "set"]
           \/ /\ request' = [request EXCEPT ![r].pc = next, ![r].failed = TRUE]
              /\ UNCHANGED <<sessions, opened>>
        /\ UNCHANGED <<jar, codes, changes, log>>

-----------------------------------------------------------------------------
(***************************************************************************)
(* A form of the console: the role check and the CSRF check each read the   *)
(* session, the handler acts as the first of them found it.                *)
(***************************************************************************)
\* The page a form was on, as its CSRF token tells; None stands for no token and
\* for a page of another origin.
Forms == {None} \cup {t \in Requests : opened[t] # None}

\* requireRole: no session, or a read that fails, redirects; a low role is 403.
PostChange(r, b, min, form) ==
    LET t == jar[b].session
        posted == [Sent(b, "change") EXCEPT !.form = form]
    IN  /\ request[r].pc = "idle"
        /\ \/ /\ Live(t) /\ AtLeast(sessions[t].role, min)
              /\ request' = [request EXCEPT ![r] =
                               [posted EXCEPT !.pc = "csrf", !.identity = sessions[t]]]
           \/ request' = [request EXCEPT ![r] = [posted EXCEPT !.pc = "audit"]]
        /\ UNCHANGED <<jar, rows>>

\* Logout asks for no role, and without a cookie only clears it.
PostLogout(r, b, form) ==
    LET posted == [Sent(b, "logout") EXCEPT !.form = form]
    IN  /\ request[r].pc = "idle"
        /\ request' = [request EXCEPT ![r] =
                         IF posted.session = None
                           THEN [posted EXCEPT !.pc = "audit", !.sets.session = "clear"]
                           ELSE [posted EXCEPT !.pc = "csrf"]]
        /\ UNCHANGED <<jar, rows>>

FormMatches(r) == Live(request[r].session) /\ request[r].form = request[r].session

CheckCSRF(r) ==
    /\ request[r].pc = "csrf"
    /\ \/ /\ FormMatches(r)
          /\ To(r, IF request[r].kind = "logout" THEN "drop" ELSE "act")
       \/ To(r, "audit")
    /\ UNCHANGED <<jar, rows>>

\* The handler: a group, a profile, a grant, a command; or it fails.
Act(r) ==
    /\ request[r].pc = "act"
    /\ \/ changes' = changes \cup {[request |-> r, user |-> request[r].identity.user]}
       \/ UNCHANGED changes
    /\ To(r, "audit")
    /\ UNCHANGED <<jar, sessions, opened, codes, log>>

\* Logout clears the cookie even if the row stays.
Drop(r) ==
    /\ request[r].pc = "drop"
    /\ \/ sessions' = [sessions EXCEPT ![request[r].session] = None]
       \/ UNCHANGED sessions
    /\ request' = [request EXCEPT ![r].pc = "audit", ![r].sets.session = "clear"]
    /\ UNCHANGED <<jar, opened, codes, changes, log>>

-----------------------------------------------------------------------------
\* Row(user, provider) of the audited request; a provider comes only from a session.
Row(r, actor) == [request |-> r, user |-> actor.user, provider |-> actor.provider]

\* The username field of the form of any audited request.  Only this read uses it,
\* outside /login, so it is chosen here rather than when the form is sent.
FormActors(r) ==
    [user: IF request[r].kind = "login" THEN {request[r].user} ELSE Users \cup {None},
     provider: {None}]

SessionActor(t) == [user |-> sessions[t].user, provider |-> sessions[t].provider]

ActorsFormFirst(r) ==
    IF Live(request[r].session)
      THEN {[actor EXCEPT !.provider = sessions[request[r].session].provider] :
               actor \in FormActors(r)}
      ELSE FormActors(r)

\* audited: who acted is read again when the handler is through.  Where that
\* finds no session, or fails, it is whom the form names, with no provider.
ActorsOf(r) ==
    FormActors(r) \cup
      (IF Live(request[r].session) THEN {SessionActor(request[r].session)} ELSE {})

Audit(r) ==
    /\ request[r].pc = "audit"
    /\ \/ /\ \E actor \in ActorsOf(r) : log' = log \cup {Row(r, actor)}
          /\ To(r, "respond")
       \/ /\ request' = [request EXCEPT ![r].pc = "respond", ![r].failed = TRUE]
          /\ UNCHANGED log
    /\ UNCHANGED <<jar, sessions, opened, codes, changes>>

Kept(old, sets, r) ==
    CASE sets = "keep" -> old [] sets = "set" -> r [] sets = "clear" -> None

\* The response arrives with its cookies, or the browser has gone on.
Respond(r) ==
    LET q == request[r]
    IN  /\ q.pc = "respond"
        /\ \/ /\ jar' = [jar EXCEPT ![q.browser] =
                            [session |-> Kept(@.session, q.sets.session, r),
                             flow    |-> Kept(@.flow, q.sets.flow, r)]]
              /\ request' = [request EXCEPT ![r] = Over(q)]
           \/ /\ request' = [request EXCEPT ![r] = [Over(q) EXCEPT !.sets = Idle.sets]]
              /\ UNCHANGED jar
        /\ UNCHANGED rows

\* A session expires or is revoked; a browser drops the ten-minute cookie.
SessionEnds(t) ==
    /\ sessions[t] # None
    /\ sessions' = [sessions EXCEPT ![t] = None]
    /\ UNCHANGED <<jar, opened, codes, request, changes, log>>

CookieExpires(b) ==
    /\ jar[b].flow # None
    /\ jar' = [jar EXCEPT ![b].flow = None]
    /\ UNCHANGED <<rows, request>>

\* The server stops: its requests end where they are.
InFlight == {r \in Requests : request[r].pc \notin {"idle", "done"}}
Crash ==
    /\ InFlight # {}
    /\ request' = [r \in Requests |-> IF r \in InFlight
                     THEN [Over(request[r]) EXCEPT !.sets = Idle.sets]
                     ELSE request[r]]
    /\ UNCHANGED <<jar, rows>>

Step(r) ==
    \/ Exchange(r) \/ CreateSession(r)
    \/ CheckCSRF(r) \/ Act(r) \/ Drop(r)
    \/ Audit(r) \/ Respond(r)

Send(r, b) ==
    \/ \E u \in Users, p \in Passwords : PostLogin(r, b, u, p) \/ LockedOut(r, b, u, p)
    \/ GetOIDCLogin(r, b)
    \/ \E f \in Requests : GetOIDCCallback(r, b, f)
    \/ \E form \in Forms :
          PostLogout(r, b, form) \/ \E min \in MinRoles : PostChange(r, b, min, form)

Next ==
    \/ \E r \in Requests : Step(r) \/ \E b \in Browsers : Send(r, b)
    \/ \E f \in Requests, u \in Users : Authorize(f, u)
    \/ \E t \in Requests : SessionEnds(t)
    \/ \E b \in Browsers : CookieExpires(b)
    \/ Crash

Spec == Init /\ [][Next]_vars

-----------------------------------------------------------------------------
TypeOK ==
    /\ jar \in [Browsers -> [session: Cookie, flow: Cookie]]
    /\ sessions \in [Requests -> Identity \cup {None}]
    /\ opened \in [Requests -> Identity \cup {None}]
    /\ codes \in [Requests -> [user: Users, spent: BOOLEAN] \cup {None}]
    /\ request \in [Requests -> Request]
    /\ changes \subseteq [request: Requests, user: Users]
    /\ log \subseteq LogRow

\* No implicit privilege, over the three ways in: whoever signs in without a
\* local account has the default role or one that a group of theirs is mapped
\* to, and an account's role comes only with the account's own password.
NoImplicitPrivilege ==
    \A r \in Requests : opened[r] # None =>
       LET s == opened[r]
       IN  IF s.provider = "local"
             THEN request[r].password = "local" /\ s.role = LocalRole[s.user]
             ELSE \/ s.role = DefaultRole
                  \/ \E g \in GroupsOf(s.user) : GroupRoles[g] = s.role

\* The local store is the break-glass: whatever the directory's servers do, the
\* right local password is turned away only by the lockout or the database.
BreakGlass ==
    \A r \in Requests :
       LET q == request[r]
       IN  /\ q.kind = "login" /\ q.password = "local"
           /\ LocalRole[q.user] # None
           /\ q.pc \in {"audit", "respond"} /\ opened[r] = None
           => q.failed

\* A sign-on ends in the browser that began it, for the one who signed in
\* there, and in one session at most, however often its callback is requested.
FlowsBound ==
    \A r \in Requests : opened[r] # None /\ request[r].kind = "callback" =>
       LET f == request[r].state
       IN  /\ request[f].browser = request[r].browser
           /\ codes[f].user = opened[r].user
           /\ \A other \in Requests \ {r} :
                 opened[other] # None => request[other].state # f

\* A row of the log that carries a provider vouches for its name: it lays no change
\* at another's door, whatever the form says and whichever sessions end or are
\* opened between the handler and audited's own read.  A row without a provider
\* holds what the form says, which may be anybody's name.
VouchedRowsNameTheActor ==
    \A row \in log, c \in changes :
       row.request = c.request /\ row.provider # None => row.user = c.user

\* "every sign-in/sign-out is recorded": once the browser is in, a row says so.
SignInsRecorded ==
    \A r \in Requests :
       /\ request[r].pc = "done" /\ ~request[r].failed
       /\ request[r].sets.session = "set"
       => \E row \in log : row.request = r
=============================================================================
