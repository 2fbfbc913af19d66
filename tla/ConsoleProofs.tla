---------------------------- MODULE ConsoleProofs ----------------------------
(***************************************************************************)
(* Theorems about Console, for any number of requests, browsers, users and *)
(* groups and any directory, mapping and number of servers.                *)
(***************************************************************************)
EXTENDS Console, TLAPS

\* What a request can hold where it stands.
WellFormed(q) ==
    /\ q.pc = "idle" => q.kind = "none"
    /\ q.pc = "exchange" => q.kind = "callback"
    /\ q.pc = "create" => q.kind \in {"login", "callback"} /\ q.identity # None
    /\ q.pc = "csrf" => q.kind \in {"change", "logout"}
    /\ q.pc = "act" => q.kind = "change"
    /\ q.pc = "drop" => q.kind = "logout"
    /\ q.pc = "audit" => q.kind \in {"login", "change", "logout"}
    /\ q.kind = "change" /\ q.pc \in {"csrf", "act"} => q.identity # None
    /\ q.kind = "change" => q.user = None
    /\ q.kind = "callback" => q.state \in Requests
    /\ q.kind # "callback" => q.state = None
    /\ q.sets.session = "set" => q.kind \in {"login", "callback"}
    /\ q.sets.flow = "set" => q.kind = "sso"
    /\ q.pc \notin {"idle", "done"} => q.browser \in Browsers

\* A code is given out for a flow that has begun.
TypeInv ==
    /\ TypeOK
    /\ \A r \in Requests : WellFormed(request[r])
    /\ \A r \in Requests : request[r].kind = "callback" => codes[request[r].state] # None
    /\ \A f \in Requests : codes[f] # None => request[f].pc = "done" /\ request[f].kind = "sso"

-----------------------------------------------------------------------------
(***************************************************************************)
(* Roles: the highest of those granted, and what the chain answers.        *)
(***************************************************************************)
\* s may be the session of someone who gave password p.
Entitled(s, p) ==
    IF s.provider = "local"
      THEN p = "local" /\ s.role = LocalRole[s.user]
      ELSE s.role = DefaultRole \/ \E g \in GroupsOf(s.user) : GroupRoles[g] = s.role

LEMMA HighestRole ==
  ASSUME NEW granted \in SUBSET Roles, granted # {}
  PROVE  (CHOOSE role \in granted : \A other \in granted : AtLeast(role, other)) \in granted
  <1>1. \E role \in granted : \A other \in granted : AtLeast(role, other)
    <2>1. Rank("admin") = 3 /\ Rank("operator") = 2 /\ Rank("user") = 1
      BY DEF Rank
    <2>2. CASE "admin" \in granted
      BY <2>1, <2>2 DEF AtLeast, Roles
    <2>3. CASE "admin" \notin granted /\ "operator" \in granted
      BY <2>1, <2>3 DEF AtLeast, Roles
    <2>4. CASE granted = {"user"}
      BY <2>1, <2>4 DEF AtLeast
    <2> QED
      BY <2>2, <2>3, <2>4 DEF Roles
  <1> QED
    BY <1>1

LEMMA MapRoleGranted ==
  ASSUME ConsoleAssumption, NEW groups \in SUBSET Groups
  PROVE  /\ MapRole(groups) \in Roles
         /\ \/ MapRole(groups) = DefaultRole
            \/ \E g \in groups : GroupRoles[g] = MapRole(groups)
  <1> DEFINE granted == {DefaultRole} \cup ({GroupRoles[g] : g \in groups} \ {None})
  <1>1. granted \subseteq Roles /\ granted # {}
    BY DEF ConsoleAssumption, Roles
  <1>2. MapRole(groups) \in granted
    BY <1>1, HighestRole DEF MapRole
  <1> QED
    BY <1>1, <1>2

LEMMA MappedIdentity ==
  ASSUME ConsoleAssumption, NEW u \in Users
  PROVE  /\ LdapIdentity(u) \in Identity /\ ClaimedIdentity(u) \in Identity
         /\ LdapIdentity(u).user = u /\ ClaimedIdentity(u).user = u
         /\ \A p : Entitled(LdapIdentity(u), p) /\ Entitled(ClaimedIdentity(u), p)
  <1>1. GroupsOf(u) \subseteq Groups
    BY DEF GroupsOf, ConsoleAssumption
  <1>2. /\ MapRole(GroupsOf(u)) \in Roles
        /\ \/ MapRole(GroupsOf(u)) = DefaultRole
           \/ \E g \in GroupsOf(u) : GroupRoles[g] = MapRole(GroupsOf(u))
    BY <1>1, MapRoleGranted
  <1>3. \A provider \in {"ldap", "oidc"} :
           LET id == Identified(u, provider, MapRole(GroupsOf(u)))
           IN  id \in Identity /\ id.user = u /\ \A p : Entitled(id, p)
    BY <1>2 DEF Identified, Identity, Providers, Entitled
  <1> QED
    BY <1>3 DEF LdapIdentity, ClaimedIdentity

LEMMA ClaimedRole ==
  ASSUME ConsoleAssumption, NEW u \in Users
  PROVE  ClaimedIdentity(u) \in Identity
  BY MappedIdentity

LEMMA NoneIsNoIdentity == ConsoleAssumption => None \notin Identity
  BY DEF ConsoleAssumption, Identity, Providers, Roles

\* The chain: an identity it answers is one the password is good for, and the
\* right local password is refused only by a failing database, if the
\* directory did not accept it.
LEMMA AnswerGranted ==
  ASSUME ConsoleAssumption, NEW u \in Users, NEW p, NEW answer, NEW fault \in BOOLEAN
  PROVE  LET id == Answer(u, p, answer, fault)
         IN  /\ id \in Identity \cup {None}
             /\ id # None => Entitled(id, p)
             /\ p = "local" /\ LocalRole[u] # None /\ id = None => fault
  <1>1. CASE answer = "accepts"
    <2>1. Answer(u, p, answer, fault) = LdapIdentity(u)
      BY <1>1 DEF Answer, MovesOn
    <2> QED
      BY <2>1, MappedIdentity, NoneIsNoIdentity
  <1>2. CASE answer # "accepts" /\ Matches(u, p) /\ ~fault
    <2> DEFINE id == Identified(u, "local", LocalRole[u])
    <2>1. Answer(u, p, answer, fault) = id
      BY <1>2 DEF Answer, MovesOn
    <2>2. LocalRole[u] \in Roles /\ p = "local"
      BY <1>2 DEF Matches, ConsoleAssumption, Roles
    <2>3. id \in Identity /\ Entitled(id, p)
      BY <2>2 DEF Identified, Identity, Providers, Entitled
    <2> QED
      BY <2>1, <2>3, NoneIsNoIdentity
  <1>3. CASE answer # "accepts" /\ ~(Matches(u, p) /\ ~fault)
    <2>1. Answer(u, p, answer, fault) = None
      BY <1>3 DEF Answer, MovesOn
    <2> QED
      BY <1>3, <2>1 DEF Matches
  <1> QED
    BY <1>1, <1>2, <1>3

-----------------------------------------------------------------------------
(***************************************************************************)
(* What a step does to the request that takes it, field by field.          *)
(***************************************************************************)
\* The request r is q from now on.
Becomes(r, q) == q \in Request /\ request' = [request EXCEPT ![r] = q]

\* The fields that a request is sent with, and keeps until it is over.
SameCall(q, o) ==
    /\ q.kind = o.kind /\ q.browser = o.browser /\ q.session = o.session
    /\ q.user = o.user /\ q.password = o.password /\ q.form = o.form /\ q.state = o.state

LEMMA IdleType == Idle \in Request
  <1>1. [session |-> "keep", flow |-> "keep"]
          \in [session: {"keep", "set", "clear"}, flow: {"keep", "set", "clear"}]
    OBVIOUS
  <1> QED
    BY <1>1 DEF Idle, Request, Kinds, Cookie

LEMMA SentFields ==
  ASSUME TypeOK, NEW b \in Browsers, NEW kind \in Kinds
  PROVE  LET q == Sent(b, kind)
         IN  /\ q \in Request
             /\ q.pc = "idle" /\ q.kind = kind /\ q.browser = b
             /\ q.session = jar[b].session /\ q.flow = jar[b].flow
             /\ q.user = None /\ q.password = "none"
             /\ q.form = None /\ q.state = None /\ q.identity = None
             /\ q.sets = Idle.sets /\ q.sets.session = "keep" /\ q.sets.flow = "keep"
  <1>1. jar[b].session \in Cookie /\ jar[b].flow \in Cookie
    BY DEF TypeOK
  <1>2. /\ Idle.pc = "idle" /\ Idle.kind = "none" /\ Idle.user = None
        /\ Idle.password = "none" /\ Idle.failed = FALSE /\ Idle.form = None
        /\ Idle.state = None /\ Idle.identity = None
        /\ Idle.sets.session = "keep" /\ Idle.sets.flow = "keep"
    BY DEF Idle
  <1> QED
    BY <1>1, <1>2, IdleType DEF Sent, Request

LEMMA ToFields ==
  ASSUME TypeOK, NEW r \in Requests, NEW p \in {"create", "respond", "drop", "act", "audit"},
         To(r, p)
  PROVE  \E q : /\ Becomes(r, q) /\ SameCall(q, request[r])
                /\ q.pc = p /\ q.failed = request[r].failed
                /\ q.identity = request[r].identity /\ q.sets = request[r].sets
  <1> DEFINE q == [request[r] EXCEPT !.pc = p]
  <1>1. request[r] \in Request
    BY DEF TypeOK
  <1>2. /\ q \in Request /\ SameCall(q, request[r])
        /\ q.pc = p /\ q.failed = request[r].failed
        /\ q.identity = request[r].identity /\ q.sets = request[r].sets
    BY <1>1 DEF Request, SameCall
  <1>3. request' = [request EXCEPT ![r] = q]
    BY DEF TypeOK, To
  <1> QED
    BY <1>2, <1>3 DEF Becomes

\* Over keeps how the request signed in, or what it began, or nothing.
Ends(q, o) ==
    /\ q.pc = "done"
    /\ q.sets \in {o.sets, Idle.sets}
    /\ \/ /\ o.sets.session = "set" \/ o.kind = "sso"
          /\ q.kind = o.kind /\ q.browser = o.browser /\ q.user = o.user
          /\ q.password = o.password /\ q.state = o.state
       \/ /\ ~(o.sets.session = "set" \/ o.kind = "sso")
          /\ q.kind = "none" /\ q.user = None /\ q.state = None
          /\ q.sets = Idle.sets

LEMMA OverFields ==
  ASSUME NEW o \in Request
  PROVE  /\ Over(o) \in Request /\ Ends(Over(o), o)
         /\ [Over(o) EXCEPT !.sets = Idle.sets] \in Request
         /\ Ends([Over(o) EXCEPT !.sets = Idle.sets], o)
  <1> DEFINE q == Over(o)
             lost == [q EXCEPT !.sets = Idle.sets]
  <1>1. /\ Idle.kind = "none" /\ Idle.user = None /\ Idle.state = None
        /\ Idle.sets \in [session: {"keep", "set", "clear"}, flow: {"keep", "set", "clear"}]
    BY IdleType DEF Idle, Request
  <1>2. q \in Request
    <2>1. [o EXCEPT !.pc = "done", !.session = None, !.flow = None, !.form = None,
                    !.identity = None] \in Request
      BY DEF Request, Cookie
    <2>2. [Idle EXCEPT !.pc = "done"] \in Request
      BY IdleType DEF Request
    <2> QED
      BY <2>1, <2>2 DEF Over
  <1>3. Ends(q, o)
    <2>1. CASE o.sets.session = "set" \/ o.kind = "sso"
      <3>1. q = [o EXCEPT !.pc = "done", !.session = None, !.flow = None, !.form = None,
                          !.identity = None]
        BY <2>1 DEF Over
      <3> HIDE DEF q
      <3>2. /\ q.pc = "done" /\ q.sets = o.sets
            /\ q.kind = o.kind /\ q.browser = o.browser /\ q.user = o.user
            /\ q.password = o.password /\ q.state = o.state
        BY <3>1 DEF Request
      <3> QED
        BY <2>1, <3>2 DEF Ends
    <2>2. CASE ~(o.sets.session = "set" \/ o.kind = "sso")
      <3>1. q = [Idle EXCEPT !.pc = "done"]
        BY <2>2 DEF Over
      <3> HIDE DEF q
      <3>2. /\ q.pc = "done" /\ q.sets = Idle.sets /\ q.kind = "none"
            /\ q.user = None /\ q.state = None
        BY <1>1, <3>1, IdleType DEF Request
      <3> QED
        BY <2>2, <3>2 DEF Ends
    <2> QED
      BY <2>1, <2>2
  <1> HIDE DEF q
  <1>4. lost \in Request
    BY <1>1, <1>2 DEF Request
  <1>5. /\ lost.sets = Idle.sets /\ lost.pc = q.pc /\ lost.kind = q.kind
        /\ lost.browser = q.browser /\ lost.user = q.user
        /\ lost.password = q.password /\ lost.state = q.state
    BY <1>2 DEF Request
  <1>6. Ends(lost, o)
    BY <1>3, <1>5 DEF Ends
  <1> QED
    BY <1>2, <1>3, <1>4, <1>6 DEF q

LEMMA RespondFields ==
  ASSUME TypeOK, NEW r \in Requests, Respond(r)
  PROVE  \E q : Becomes(r, q) /\ Ends(q, request[r])
  <1>1. request[r] \in Request
    BY DEF TypeOK
  <1>2. \/ request' = [request EXCEPT ![r] = Over(request[r])]
        \/ request' = [request EXCEPT ![r] = [Over(request[r]) EXCEPT !.sets = Idle.sets]]
    BY DEF Respond
  <1> QED
    BY <1>1, <1>2, OverFields DEF Becomes

LEMMA CreateFields ==
  ASSUME TypeOK, NEW r \in Requests, CreateSession(r)
  PROVE  \E q : /\ Becomes(r, q) /\ SameCall(q, request[r])
                /\ q.pc = IF request[r].kind = "login" THEN "audit" ELSE "respond"
                /\ \/ /\ sessions' = [sessions EXCEPT ![r] = request[r].identity]
                      /\ opened' = [opened EXCEPT ![r] = request[r].identity]
                      /\ q.sets.session = "set" /\ q.sets.flow = request[r].sets.flow
                   \/ /\ q.failed /\ q.sets = request[r].sets
                      /\ sessions' = sessions /\ opened' = opened
  <1> DEFINE o == request[r]
             next == IF o.kind = "login" THEN "audit" ELSE "respond"
             in == [o EXCEPT !.pc = next, !.sets.session = "set"]
             out == [o EXCEPT !.pc = next, !.failed = TRUE]
  <1>1. o \in Request /\ next \in {"audit", "respond"}
    BY DEF TypeOK
  <1>2. \/ /\ sessions' = [sessions EXCEPT ![r] = o.identity]
           /\ opened' = [opened EXCEPT ![r] = o.identity]
           /\ request' = [request EXCEPT ![r] = in]
        \/ /\ request' = [request EXCEPT ![r] = out]
           /\ sessions' = sessions /\ opened' = opened
    BY DEF CreateSession, TypeOK
  <1> HIDE DEF next
  <1>3. in \in Request
    BY <1>1 DEF Request
  <1>4. /\ SameCall(in, o) /\ in.pc = next
        /\ in.sets.session = "set" /\ in.sets.flow = o.sets.flow
    BY <1>1 DEF Request, SameCall
  <1>5. \A v \in BOOLEAN : [o EXCEPT !.pc = next, !.failed = v] \in Request
    BY <1>1 DEF Request
  <1>6. SameCall(out, o) /\ out.pc = next /\ out.failed /\ out.sets = o.sets
    BY <1>1 DEF Request, SameCall
  <1> HIDE DEF in, out
  <1>7. in \in Request /\ out \in Request
    BY <1>3, <1>5 DEF out
  <1> QED
    BY <1>2, <1>4, <1>6, <1>7 DEF Becomes, next

LEMMA ExchangeFields ==
  ASSUME TypeInv, ConsoleAssumption, NEW r \in Requests, Exchange(r)
  PROVE  \E q : /\ Becomes(r, q) /\ SameCall(q, request[r])
                /\ q.failed = request[r].failed /\ q.sets = request[r].sets
                /\ \/ /\ ~codes[request[r].state].spent
                      /\ codes' = [codes EXCEPT ![request[r].state].spent = TRUE]
                      /\ \/ /\ q.pc = "create"
                            /\ q.identity = ClaimedIdentity(codes[request[r].state].user)
                         \/ q.pc = "respond"
                   \/ codes' = codes /\ q.pc = "respond"
  <1> DEFINE o == request[r]
             id == ClaimedIdentity(codes[o.state].user)
             in == [o EXCEPT !.pc = "create", !.identity = id]
  <1>1. o \in Request
    BY DEF TypeOK, TypeInv
  <1>2. \/ /\ ~codes[o.state].spent
           /\ codes' = [codes EXCEPT ![o.state].spent = TRUE]
           /\ request' = [request EXCEPT ![r] = in] \/ To(r, "respond")
        \/ To(r, "respond") /\ codes' = codes
    BY DEF Exchange, TypeOK, TypeInv
  <1>3. id \in Identity
    <2>1. o.state \in Requests /\ codes[o.state] # None
      BY DEF TypeInv, WellFormed, Exchange
    <2>2. codes[o.state].user \in Users
      BY <2>1 DEF TypeInv, TypeOK
    <2> QED
      BY <2>2, ClaimedRole
  <1> HIDE DEF id
  <1>4. in \in Request /\ SameCall(in, o) /\ in.pc = "create" /\ in.identity = id
        /\ in.failed = o.failed /\ in.sets = o.sets
    BY <1>1, <1>3 DEF Request, SameCall
  <1>5. CASE To(r, "respond")
    BY <1>2, <1>5, ToFields DEF id, TypeInv
  <1> HIDE DEF in
  <1>6. CASE ~To(r, "respond")
    BY <1>2, <1>4, <1>6 DEF Becomes, id
  <1> QED
    BY <1>5, <1>6

LEMMA DropFields ==
  ASSUME TypeOK, NEW r \in Requests, Drop(r)
  PROVE  \E q : /\ Becomes(r, q) /\ SameCall(q, request[r])
                /\ q.pc = "audit" /\ q.sets.session = "clear"
                /\ q.sets.flow = request[r].sets.flow
  <1> DEFINE o == request[r]
             q == [o EXCEPT !.pc = "audit", !.sets.session = "clear"]
  <1>1. o \in Request /\ request' = [request EXCEPT ![r] = q]
    BY DEF TypeOK, Drop
  <1>2. q \in Request
    BY <1>1 DEF Request
  <1>3. /\ SameCall(q, o) /\ q.pc = "audit" /\ q.sets.session = "clear"
        /\ q.sets.flow = o.sets.flow
    BY <1>1 DEF Request, SameCall
  <1> HIDE DEF q
  <1> QED
    BY <1>1, <1>2, <1>3 DEF Becomes

LEMMA AuditFields ==
  ASSUME TypeOK, NEW r \in Requests, Audit(r)
  PROVE  \E q : /\ Becomes(r, q) /\ SameCall(q, request[r])
                /\ q.pc = "respond" /\ q.sets = request[r].sets
                /\ request[r].failed => q.failed
  <1> DEFINE o == request[r]
             q == [o EXCEPT !.pc = "respond", !.failed = TRUE]
  <1>1. o \in Request
    BY DEF TypeOK
  <1>2. CASE To(r, "respond")
    BY <1>2, ToFields
  <1>3. CASE request' = [request EXCEPT ![r] = q]
    <2>1. \A v \in BOOLEAN : [o EXCEPT !.pc = "respond", !.failed = v] \in Request
      BY <1>1 DEF Request
    <2>2. SameCall(q, o) /\ q.pc = "respond" /\ q.failed /\ q.sets = o.sets
      BY <1>1 DEF Request, SameCall
    <2>3. q \in Request
      BY <2>1
    <2> HIDE DEF q
    <2> QED
      BY <1>3, <2>2, <2>3 DEF Becomes
  <1>4. To(r, "respond") \/ request' = [request EXCEPT ![r] = q]
    BY DEF Audit, TypeOK
  <1> QED
    BY <1>2, <1>3, <1>4

-----------------------------------------------------------------------------
\* What a request is sent with.
LEMMA AttemptType ==
  ASSUME NEW s \in Request, NEW pc \in {"audit", "create"}, NEW u \in Users,
         NEW p \in Passwords, NEW id \in Identity \cup {None}
  PROVE  \A v \in BOOLEAN : [s EXCEPT !.pc = pc, !.user = u, !.password = p,
                                     !.identity = id, !.failed = v] \in Request
  BY DEF Request

LEMMA LoginFields ==
  ASSUME TypeOK, ConsoleAssumption,
         NEW r \in Requests, NEW b \in Browsers, NEW u \in Users, NEW p \in Passwords,
         PostLogin(r, b, u, p) \/ LockedOut(r, b, u, p)
  PROVE  \E q : /\ Becomes(r, q) /\ q.kind = "login" /\ q.browser = b
                /\ q.user = u /\ q.password = p /\ q.state = None /\ q.sets = Idle.sets
                /\ \/ /\ q.pc = "create" /\ q.identity \in Identity
                      /\ Entitled(q.identity, p)
                   \/ /\ q.pc = "audit"
                      /\ p = "local" /\ LocalRole[u] # None => q.failed
  <1>a. PICK s : s = Sent(b, "login")
    OBVIOUS
  <1>0. "login" \in Kinds
    BY DEF Kinds
  <1>1. /\ s \in Request /\ s.kind = "login" /\ s.browser = b
        /\ s.state = None /\ s.sets = Idle.sets
    BY ONLY TypeOK, b \in Browsers, <1>0, <1>a, SentFields
  <1>2. CASE LockedOut(r, b, u, p)
    <2> DEFINE q == [s EXCEPT !.pc = "audit", !.user = u, !.password = p, !.failed = TRUE]
    <2>1. request' = [request EXCEPT ![r] = q]
      BY <1>2, <1>a DEF LockedOut
    <2>2. \A v \in BOOLEAN : [s EXCEPT !.pc = "audit", !.user = u, !.password = p,
                                       !.failed = v] \in Request
      BY <1>1 DEF Request
    <2>3. /\ q.kind = "login" /\ q.browser = b /\ q.user = u /\ q.password = p
          /\ q.state = None /\ q.sets = Idle.sets /\ q.pc = "audit" /\ q.failed
      BY <1>1 DEF Request
    <2>4. q \in Request
      BY <2>2
    <2> HIDE DEF q
    <2> QED
      BY <2>1, <2>3, <2>4 DEF Becomes
  <1>3. CASE PostLogin(r, b, u, p)
    <2>1. PICK answers \in [1 .. NumServers -> ServerSays(u, p)], fault \in BOOLEAN :
            LET id == Answer(u, p, Decides(answers), fault)
            IN  request' = [request EXCEPT ![r] =
                  [s EXCEPT !.pc = IF id = None THEN "audit" ELSE "create",
                            !.user = u, !.password = p, !.identity = id,
                            !.failed = id = None /\ fault]]
      BY <1>3, <1>a DEF PostLogin
    <2> DEFINE id == Answer(u, p, Decides(answers), fault)
               pc == IF id = None THEN "audit" ELSE "create"
               bad == id = None /\ fault
               q == [s EXCEPT !.pc = pc, !.user = u, !.password = p, !.identity = id,
                              !.failed = bad]
    <2>2. /\ id \in Identity \cup {None}
          /\ id # None => Entitled(id, p)
          /\ p = "local" /\ LocalRole[u] # None /\ id = None => fault
      BY AnswerGranted
    <2>3. request' = [request EXCEPT ![r] = q]
      BY <2>1
    <2>4. pc \in {"audit", "create"} /\ bad \in BOOLEAN
      OBVIOUS
    <2>5. /\ pc = "create" => id # None
          /\ pc = "audit" => id = None
          /\ id = None /\ fault => bad
      OBVIOUS
    <2> HIDE DEF id, pc, bad
    <2>6. q \in Request
      <3>1. id \in Identity \cup {None}
        BY <2>2
      <3> QED
        BY <1>1, <2>4, <3>1, AttemptType
    <2>7. /\ q.kind = "login" /\ q.browser = b /\ q.user = u /\ q.password = p
          /\ q.state = None /\ q.sets = Idle.sets /\ q.pc = pc /\ q.identity = id
      BY <1>1 DEF Request
    <2>8. bad => q.failed
      BY <1>1 DEF Request
    <2> HIDE DEF q
    <2> QED
      BY <2>2, <2>3, <2>4, <2>5, <2>6, <2>7, <2>8 DEF Becomes
  <1> QED
    BY <1>2, <1>3

LEMMA SsoFields ==
  ASSUME TypeOK, NEW r \in Requests, NEW b \in Browsers, GetOIDCLogin(r, b)
  PROVE  \E q : /\ Becomes(r, q) /\ q.kind = "sso" /\ q.browser = b /\ q.state = None
                /\ q.user = None /\ q.pc = "respond" /\ q.sets.session = "keep"
  <1>a. PICK s : s = Sent(b, "sso")
    OBVIOUS
  <1> DEFINE kept == IF Live(jar[b].session) THEN "keep" ELSE "set"
             q == [s EXCEPT !.pc = "respond", !.sets.flow = kept]
  <1>0. "sso" \in Kinds
    BY DEF Kinds
  <1>1. /\ s \in Request /\ s.kind = "sso" /\ s.browser = b
        /\ s.state = None /\ s.user = None /\ s.sets.session = "keep"
    BY <1>0, <1>a, SentFields
  <1>2. kept \in {"keep", "set"}
    OBVIOUS
  <1>3. request' = [request EXCEPT ![r] = q]
    BY <1>a DEF GetOIDCLogin
  <1> HIDE DEF kept
  <1>4. q \in Request
    BY <1>1, <1>2 DEF Request
  <1>5. /\ q.kind = "sso" /\ q.browser = b /\ q.state = None
        /\ q.user = None /\ q.pc = "respond" /\ q.sets.session = "keep"
    BY <1>1 DEF Request
  <1> HIDE DEF q
  <1> QED
    BY <1>3, <1>4, <1>5 DEF Becomes

LEMMA CallbackFields ==
  ASSUME TypeOK, NEW r \in Requests, NEW b \in Browsers, NEW f \in Requests,
         GetOIDCCallback(r, b, f)
  PROVE  \E q : /\ Becomes(r, q) /\ q.kind = "callback" /\ q.browser = b /\ q.state = f
                /\ q.user = None /\ q.sets.session = "keep" /\ q.sets.flow = "clear"
                /\ (q.pc = "exchange" /\ jar[b].flow = f) \/ q.pc = "respond"
  <1>1. PICK pc \in {"exchange", "respond"} :
           /\ pc = "exchange" => jar[b].flow = f
           /\ request' = [request EXCEPT ![r] =
                [Sent(b, "callback") EXCEPT !.pc = pc, !.state = f, !.sets.flow = "clear"]]
    BY DEF GetOIDCCallback, StateMatches
  <1>a. PICK s : s = Sent(b, "callback")
    OBVIOUS
  <1> DEFINE q == [s EXCEPT !.pc = pc, !.state = f, !.sets.flow = "clear"]
  <1>0. "callback" \in Kinds
    BY DEF Kinds
  <1>2. /\ s \in Request /\ s.kind = "callback" /\ s.browser = b
        /\ s.user = None /\ s.sets.session = "keep"
    BY <1>0, <1>a, SentFields
  <1>3. request' = [request EXCEPT ![r] = q]
    BY <1>1, <1>a
  <1>4. q \in Request
    BY <1>2 DEF Request, Cookie
  <1>5. /\ q.kind = "callback" /\ q.browser = b /\ q.state = f /\ q.pc = pc
        /\ q.user = None /\ q.sets.session = "keep" /\ q.sets.flow = "clear"
    BY <1>2 DEF Request
  <1> HIDE DEF q
  <1> QED
    BY <1>1, <1>3, <1>4, <1>5 DEF Becomes

LEMMA ChangeFields ==
  ASSUME TypeOK, NEW r \in Requests, NEW b \in Browsers, NEW form \in Cookie,
         NEW min \in MinRoles, PostChange(r, b, min, form)
  PROVE  \E q : /\ Becomes(r, q) /\ q.kind = "change" /\ q.browser = b /\ q.state = None
                /\ q.user = None /\ q.sets = Idle.sets
                /\ \/ /\ q.pc = "csrf" /\ Live(q.session)
                      /\ q.identity = sessions[q.session]
                   \/ q.pc = "audit"
  <1>a. PICK s : s = Sent(b, "change")
    OBVIOUS
  <1> DEFINE t == jar[b].session
             in == [s EXCEPT !.form = form, !.pc = "csrf", !.identity = sessions[t]]
             out == [s EXCEPT !.form = form, !.pc = "audit"]
  <1>0. "change" \in Kinds
    BY DEF Kinds
  <1>1. /\ s \in Request /\ s.kind = "change" /\ s.browser = b /\ s.state = None
        /\ s.user = None /\ s.sets = Idle.sets /\ s.session = t
    BY <1>0, <1>a, SentFields
  <1>2. \/ Live(t) /\ request' = [request EXCEPT ![r] = in]
        \/ request' = [request EXCEPT ![r] = out]
    BY <1>1, <1>a DEF PostChange, Request
  <1>3. CASE Live(t) /\ request' = [request EXCEPT ![r] = in]
    <2>1. sessions[t] \in Identity
      BY <1>3 DEF Live, TypeOK, Cookie
    <2>2. in \in Request
      BY <1>1, <2>1 DEF Request
    <2>3. /\ in.kind = "change" /\ in.browser = b /\ in.state = None
          /\ in.user = None /\ in.sets = Idle.sets /\ in.session = t
          /\ in.pc = "csrf" /\ in.identity = sessions[t]
      BY <1>1 DEF Request
    <2> HIDE DEF in
    <2> QED
      BY <1>3, <2>2, <2>3 DEF Becomes
  <1>4. CASE request' = [request EXCEPT ![r] = out]
    <2>1. out \in Request
      BY <1>1 DEF Request
    <2>2. /\ out.kind = "change" /\ out.browser = b /\ out.state = None
          /\ out.user = None /\ out.sets = Idle.sets /\ out.pc = "audit"
      BY <1>1 DEF Request
    <2> HIDE DEF out
    <2> QED
      BY <1>4, <2>1, <2>2 DEF Becomes
  <1> QED
    BY <1>2, <1>3, <1>4

LEMMA LogoutFields ==
  ASSUME TypeOK, NEW r \in Requests, NEW b \in Browsers, NEW form \in Cookie,
         PostLogout(r, b, form)
  PROVE  \E q : /\ Becomes(r, q) /\ q.kind = "logout" /\ q.browser = b /\ q.state = None
                /\ q.user = None /\ q.sets.session # "set" /\ q.sets.flow = "keep"
                /\ q.pc \in {"csrf", "audit"}
  <1>a. PICK s : s = Sent(b, "logout")
    OBVIOUS
  <1> DEFINE in == [s EXCEPT !.form = form, !.pc = "csrf"]
             out == [s EXCEPT !.form = form, !.pc = "audit", !.sets.session = "clear"]
  <1>0. "logout" \in Kinds
    BY DEF Kinds
  <1>1. /\ s \in Request /\ s.kind = "logout" /\ s.browser = b /\ s.state = None
        /\ s.user = None /\ s.sets.session = "keep" /\ s.sets.flow = "keep"
    BY ONLY TypeOK, b \in Browsers, <1>0, <1>a, SentFields
  <1>2. \/ request' = [request EXCEPT ![r] = in]
        \/ request' = [request EXCEPT ![r] = out]
    BY <1>1, <1>a DEF PostLogout, Request
  <1>3. in \in Request
    BY <1>1 DEF Request
  <1>4. out \in Request
    BY <1>1 DEF Request
  <1>5. /\ in.kind = "logout" /\ in.browser = b /\ in.state = None /\ in.user = None
        /\ in.sets.session # "set" /\ in.sets.flow = "keep" /\ in.pc = "csrf"
    BY <1>1 DEF Request
  <1>6. /\ out.kind = "logout" /\ out.browser = b /\ out.state = None /\ out.user = None
        /\ out.sets.session # "set" /\ out.sets.flow = "keep" /\ out.pc = "audit"
    BY <1>1 DEF Request
  <1> HIDE DEF in, out
  <1> QED
    BY <1>2, <1>3, <1>4, <1>5, <1>6 DEF Becomes

-----------------------------------------------------------------------------
(***************************************************************************)
(* Types.                                                                  *)
(***************************************************************************)
LEMMA TypeInit == Init => TypeInv
  <1> SUFFICES ASSUME Init PROVE TypeInv
    OBVIOUS
  <1>1. /\ Idle.pc = "idle" /\ Idle.kind = "none" /\ Idle.state = None /\ Idle.user = None
        /\ Idle.sets.session = "keep" /\ Idle.sets.flow = "keep"
    BY DEF Idle
  <1>2. \A r \in Requests : request[r] = Idle
    BY DEF Init
  <1>3. TypeOK
    BY IdleType DEF Init, TypeOK, Cookie
  <1>4. WellFormed(Idle)
    BY <1>1 DEF WellFormed
  <1> QED
    BY <1>1, <1>2, <1>3, <1>4 DEF Init, TypeInv

\* A request that is not over takes a step to a well-formed q.
LEMMA TypeStep ==
  ASSUME TypeInv, NEW r \in Requests, request[r].pc # "done",
         NEW q, Becomes(r, q), WellFormed(q),
         q.kind = "callback" => codes[q.state] # None,
         \A f \in Requests : codes'[f] # None <=> codes[f] # None
  PROVE  /\ request' \in [Requests -> Request]
         /\ \A n \in Requests : WellFormed(request[n])'
         /\ \A n \in Requests : (request[n].kind = "callback" => codes[request[n].state] # None)'
         /\ \A f \in Requests :
               (codes[f] # None => request[f].pc = "done" /\ request[f].kind = "sso")'
  <1>1. /\ request \in [Requests -> Request] /\ q \in Request
        /\ request' = [request EXCEPT ![r] = q]
    BY DEF TypeInv, TypeOK, Becomes
  <1>2. /\ request' \in [Requests -> Request] /\ request'[r] = q
        /\ \A n \in Requests \ {r} : request'[n] = request[n]
    BY <1>1
  <1>3. \A n \in Requests : WellFormed(request'[n])
    BY <1>2 DEF TypeInv
  <1>4. ASSUME NEW n \in Requests, request'[n].kind = "callback"
        PROVE  codes'[request'[n].state] # None
    <2>1. codes[request'[n].state] # None
      BY <1>2, <1>4 DEF TypeInv
    <2>2. request'[n].state \in Requests
      BY <1>3, <1>4 DEF WellFormed
    <2> QED
      BY <2>1, <2>2
  <1>5. ASSUME NEW f \in Requests, codes'[f] # None
        PROVE  request'[f].pc = "done" /\ request'[f].kind = "sso"
    <2>1. request[f].pc = "done" /\ request[f].kind = "sso"
      BY <1>5 DEF TypeInv
    <2> QED
      BY <1>2, <2>1
  <1> QED
    BY <1>2, <1>3, <1>4, <1>5 DEF WellFormed

LEMMA EndsWellFormed ==
  ASSUME NEW o \in Request, WellFormed(o), NEW q, Ends(q, o)
  PROVE  /\ WellFormed(q)
         /\ q.kind = "callback" => o.kind = "callback" /\ q.state = o.state
  <1>1. Idle.sets.session = "keep" /\ Idle.sets.flow = "keep"
    BY DEF Idle
  <1> QED
    BY <1>1 DEF Ends, WellFormed

LEMMA TypeNext ==
  ASSUME TypeInv, ConsoleAssumption, [Next]_vars
  PROVE  TypeInv'
  <1>0. TypeOK
    BY DEF TypeInv
  <1>i. Idle.sets.session = "keep" /\ Idle.sets.flow = "keep"
    BY DEF Idle
  <1>w. ASSUME NEW r \in Requests
        PROVE  /\ request[r] \in Request /\ WellFormed(request[r])
               /\ request[r].kind = "callback" =>
                     request[r].state \in Requests /\ codes[request[r].state] # None
    BY DEF TypeInv, TypeOK, WellFormed
  \* A step that leaves the tables but codes alone, or keeps them typed.
  <1>s. ASSUME NEW r \in Requests, request[r].pc # "done", NEW q, Becomes(r, q), WellFormed(q),
               q.kind = "callback" => codes[q.state] # None,
               codes' = codes, jar' \in [Browsers -> [session: Cookie, flow: Cookie]],
               sessions' \in [Requests -> Identity \cup {None}],
               opened' \in [Requests -> Identity \cup {None}],
               changes' \subseteq [request: Requests, user: Users],
               log' \subseteq LogRow
        PROVE  TypeInv'
    BY <1>s, <1>0, TypeStep DEF TypeInv, TypeOK
  <1>q. ASSUME NEW r \in Requests, request[r].pc # "done", NEW q, Becomes(r, q), WellFormed(q),
               q.kind = "callback" => codes[q.state] # None,
               UNCHANGED <<jar, rows>>
        PROVE  TypeInv'
    BY <1>q, <1>s, <1>0 DEF TypeOK, rows
  <1>1. ASSUME NEW r \in Requests, NEW b \in Browsers, Send(r, b)
        PROVE  TypeInv'
    <2>1. ASSUME NEW u \in Users, NEW p \in Passwords, PostLogin(r, b, u, p) \/ LockedOut(r, b, u, p)
          PROVE  TypeInv'
      <3>1. PICK q : /\ Becomes(r, q) /\ q.kind = "login" /\ q.browser = b /\ q.state = None
                     /\ q.sets = Idle.sets
                     /\ \/ q.pc = "create" /\ q.identity \in Identity
                        \/ q.pc = "audit"
        BY <1>0, <2>1, LoginFields
      <3>2. WellFormed(q)
        BY <1>i, <3>1, NoneIsNoIdentity DEF WellFormed
      <3> QED
        BY <1>q, <2>1, <3>1, <3>2 DEF PostLogin, LockedOut
    <2>2. ASSUME GetOIDCLogin(r, b) PROVE TypeInv'
      <3>1. PICK q : /\ Becomes(r, q) /\ q.kind = "sso" /\ q.browser = b /\ q.state = None
                     /\ q.pc = "respond" /\ q.sets.session = "keep"
        BY <1>0, <2>2, SsoFields
      <3>2. WellFormed(q)
        BY <3>1 DEF WellFormed
      <3> QED
        BY <1>q, <2>2, <3>1, <3>2 DEF GetOIDCLogin
    <2>3. ASSUME NEW f \in Requests, GetOIDCCallback(r, b, f) PROVE TypeInv'
      <3>1. PICK q : /\ Becomes(r, q) /\ q.kind = "callback" /\ q.browser = b /\ q.state = f
                     /\ q.pc \in {"exchange", "respond"}
                     /\ q.sets.session = "keep" /\ q.sets.flow = "clear"
        BY <1>0, <2>3, CallbackFields
      <3>2. WellFormed(q)
        BY <3>1 DEF WellFormed
      <3>3. codes[f] # None
        BY <2>3 DEF GetOIDCCallback
      <3> QED
        BY <1>q, <2>3, <3>1, <3>2, <3>3 DEF GetOIDCCallback
    <2>4. ASSUME NEW form \in Forms, PostLogout(r, b, form) PROVE TypeInv'
      <3>1. PICK q : /\ Becomes(r, q) /\ q.kind = "logout" /\ q.browser = b /\ q.state = None
                     /\ q.sets.session # "set" /\ q.sets.flow = "keep"
                     /\ q.pc \in {"csrf", "audit"}
        BY <1>0, <2>4, LogoutFields DEF Forms, Cookie
      <3>2. WellFormed(q)
        BY <3>1 DEF WellFormed
      <3> QED
        BY <1>q, <2>4, <3>1, <3>2 DEF PostLogout
    <2>5. ASSUME NEW form \in Forms, NEW min \in MinRoles, PostChange(r, b, min, form)
          PROVE  TypeInv'
      <3>1. PICK q : /\ Becomes(r, q) /\ q.kind = "change" /\ q.browser = b /\ q.state = None
                     /\ q.user = None /\ q.sets = Idle.sets
                     /\ \/ q.pc = "csrf" /\ Live(q.session) /\ q.identity = sessions[q.session]
                        \/ q.pc = "audit"
        BY <1>0, <2>5, ChangeFields DEF Forms, Cookie
      <3>2. WellFormed(q)
        BY <1>i, <3>1 DEF WellFormed, Live
      <3> QED
        BY <1>q, <2>5, <3>1, <3>2 DEF PostChange
    <2> QED
      BY <1>1, <2>1, <2>2, <2>3, <2>4, <2>5 DEF Send
  <1>2. ASSUME NEW r \in Requests, Exchange(r) PROVE TypeInv'
    <2> DEFINE f == request[r].state
    <2>1. PICK q : /\ Becomes(r, q) /\ SameCall(q, request[r]) /\ q.sets = request[r].sets
                   /\ \/ /\ codes' = [codes EXCEPT ![f].spent = TRUE]
                         /\ \/ q.pc = "create" /\ q.identity = ClaimedIdentity(codes[f].user)
                            \/ q.pc = "respond"
                      \/ codes' = codes /\ q.pc = "respond"
      BY <1>2, ExchangeFields
    <2>2. request[r].kind = "callback" /\ request[r].pc = "exchange"
      BY <1>2, <1>w DEF Exchange, WellFormed
    <2>3. f \in Requests /\ codes[f] # None
      BY <1>w, <2>2
    <2>4. codes \in [Requests -> [user: Users, spent: BOOLEAN] \cup {None}]
          /\ codes[f] \in [user: Users, spent: BOOLEAN]
      BY <1>0, <2>3 DEF TypeOK
    <2>5. ClaimedIdentity(codes[f].user) \in Identity
      BY <2>4, ClaimedRole
    <2>6. WellFormed(q)
      BY <1>w, <2>1, <2>2, <2>5, NoneIsNoIdentity DEF WellFormed, SameCall
    <2>7. /\ codes' \in [Requests -> [user: Users, spent: BOOLEAN] \cup {None}]
          /\ \A n \in Requests : codes'[n] # None <=> codes[n] # None
      <3>1. CASE codes' = codes
        BY <2>4, <3>1
      <3>2. CASE codes' = [codes EXCEPT ![f].spent = TRUE]
        <4>1. \A v \in BOOLEAN : [codes[f] EXCEPT !.spent = v] \in [user: Users, spent: BOOLEAN]
          BY <2>4
        <4>2. PICK c \in [user: Users, spent: BOOLEAN] : codes' = [codes EXCEPT ![f] = c]
          BY <3>2, <4>1
        <4>3. c # None
          BY DEF ConsoleAssumption
        <4> QED
          BY <2>3, <2>4, <4>2, <4>3
      <3> QED
        BY <2>1, <3>1, <3>2
    <2>8. q.kind = "callback" /\ q.state = f
      BY <2>1, <2>2 DEF SameCall
    <2>9. UNCHANGED <<jar, sessions, opened, changes, log>>
      BY <1>2 DEF Exchange
    <2> HIDE DEF f
    <2> QED
      BY <1>0, <2>1, <2>2, <2>3, <2>6, <2>7, <2>8, <2>9, TypeStep DEF TypeInv, TypeOK
  <1>3. ASSUME NEW r \in Requests, CreateSession(r) PROVE TypeInv'
    <2>1. PICK q : /\ Becomes(r, q) /\ SameCall(q, request[r])
                   /\ q.pc = IF request[r].kind = "login" THEN "audit" ELSE "respond"
                   /\ \/ /\ sessions' = [sessions EXCEPT ![r] = request[r].identity]
                         /\ opened' = [opened EXCEPT ![r] = request[r].identity]
                         /\ q.sets.session = "set" /\ q.sets.flow = request[r].sets.flow
                      \/ /\ q.sets = request[r].sets
                         /\ sessions' = sessions /\ opened' = opened
      BY <1>0, <1>3, CreateFields
    <2>2. request[r].pc = "create"
      BY <1>3 DEF CreateSession
    <2>3. WellFormed(q)
      BY <1>w, <2>1, <2>2 DEF WellFormed, SameCall
    <2>4. request[r].identity \in Identity \cup {None}
      BY <1>w DEF Request
    <2>5. /\ sessions' \in [Requests -> Identity \cup {None}]
          /\ opened' \in [Requests -> Identity \cup {None}]
      BY <1>0, <2>1, <2>4 DEF TypeOK
    <2>6. q.kind = "callback" => codes[q.state] # None
      BY <1>w, <2>1 DEF SameCall
    <2>7. UNCHANGED <<jar, codes, changes, log>>
      BY <1>3 DEF CreateSession
    <2> QED
      BY <1>0, <1>s, <2>1, <2>2, <2>3, <2>5, <2>6, <2>7 DEF TypeOK
  <1>4. ASSUME NEW r \in Requests, NEW p \in {"drop", "act", "audit", "respond"}, To(r, p),
               request[r].pc \in {"csrf", "act", "audit"},
               p = "drop" => request[r].kind = "logout",
               p = "act" => request[r].kind = "change" /\ request[r].pc = "csrf",
               p = "audit" => request[r].pc \in {"csrf", "act"},
               UNCHANGED <<jar, sessions, opened, codes>>,
               changes' \subseteq [request: Requests, user: Users],
               log' \subseteq LogRow
        PROVE  TypeInv'
    <2>1. PICK q : /\ Becomes(r, q) /\ SameCall(q, request[r])
                   /\ q.pc = p /\ q.failed = request[r].failed
                   /\ q.identity = request[r].identity /\ q.sets = request[r].sets
      BY <1>0, <1>4, ToFields
    <2>2. WellFormed(q)
      BY <1>4, <1>w, <2>1 DEF WellFormed, SameCall
    <2>3. q.kind = "callback" => codes[q.state] # None
      BY <1>w, <2>1 DEF SameCall
    <2> QED
      BY <1>0, <1>s, <1>4, <2>1, <2>2, <2>3 DEF TypeOK
  <1>5. ASSUME NEW r \in Requests, CheckCSRF(r) PROVE TypeInv'
    <2>1. request[r].pc = "csrf" /\ request[r].kind \in {"change", "logout"}
      BY <1>5, <1>w DEF CheckCSRF, WellFormed
    <2>2. PICK p \in {"drop", "act", "audit"} :
             /\ To(r, p)
             /\ p = "drop" => request[r].kind = "logout"
             /\ p = "act" => request[r].kind = "change"
      BY <1>5, <2>1 DEF CheckCSRF
    <2> QED
      BY <1>0, <1>4, <1>5, <2>1, <2>2 DEF CheckCSRF, rows, TypeOK
  <1>6. ASSUME NEW r \in Requests, Act(r) PROVE TypeInv'
    <2>1. /\ request[r].pc = "act" /\ request[r].identity \in Identity
      BY <1>6, <1>w DEF Act, WellFormed, Request
    <2>2. changes' \subseteq [request: Requests, user: Users]
      BY <1>0, <1>6, <2>1 DEF Act, TypeOK, Identity
    <2> QED
      BY <1>0, <1>4, <1>6, <2>1, <2>2 DEF Act, TypeOK
  <1>7. ASSUME NEW r \in Requests, Drop(r) PROVE TypeInv'
    <2>1. PICK q : /\ Becomes(r, q) /\ SameCall(q, request[r])
                   /\ q.pc = "audit" /\ q.sets.session = "clear"
                   /\ q.sets.flow = request[r].sets.flow
      BY <1>0, <1>7, DropFields
    <2>2. request[r].pc = "drop" /\ request[r].kind = "logout"
      BY <1>7, <1>w DEF Drop, WellFormed
    <2>3. WellFormed(q)
      BY <1>w, <2>1, <2>2 DEF WellFormed, SameCall
    <2>4. sessions' \in [Requests -> Identity \cup {None}]
      BY <1>0, <1>7 DEF Drop, TypeOK
    <2>5. q.kind # "callback"
      BY <2>1, <2>2 DEF SameCall
    <2>6. UNCHANGED <<jar, opened, codes, changes, log>>
      BY <1>7 DEF Drop
    <2> QED
      BY <1>0, <1>s, <2>1, <2>2, <2>3, <2>4, <2>5, <2>6 DEF TypeOK
  <1>8. ASSUME NEW r \in Requests, Audit(r) PROVE TypeInv'
    <2>1. PICK q : /\ Becomes(r, q) /\ SameCall(q, request[r])
                   /\ q.pc = "respond" /\ q.sets = request[r].sets
      BY <1>0, <1>8, AuditFields
    <2>2. request[r].pc = "audit"
      BY <1>8 DEF Audit
    <2>3. WellFormed(q)
      BY <1>w, <2>1, <2>2 DEF WellFormed, SameCall
    <2>4. ActorsOf(r) \subseteq [user: Users \cup {None}, provider: Providers \cup {None}]
      <3>1. FormActors(r) \subseteq [user: Users \cup {None}, provider: Providers \cup {None}]
        BY <1>w DEF FormActors, Request
      <3>2. Live(request[r].session) => sessions[request[r].session] \in Identity
        BY <1>0, <1>w DEF Live, TypeOK, Request, Cookie
      <3> QED
        BY <3>1, <3>2 DEF ActorsOf, SessionActor, Identity
    <2>5. log' \subseteq LogRow
      BY <1>0, <1>8, <2>4 DEF Audit, Row, TypeOK, LogRow
    <2>6. q.kind = "callback" => codes[q.state] # None
      BY <1>w, <2>1 DEF SameCall
    <2>7. UNCHANGED <<jar, sessions, opened, codes, changes>>
      BY <1>8 DEF Audit
    <2> QED
      BY <1>0, <1>s, <2>1, <2>2, <2>3, <2>5, <2>6, <2>7 DEF TypeOK
  <1>9. ASSUME NEW r \in Requests, Respond(r) PROVE TypeInv'
    <2>1. PICK q : Becomes(r, q) /\ Ends(q, request[r])
      BY <1>0, <1>9, RespondFields
    <2>2. request[r].pc = "respond"
      BY <1>9 DEF Respond
    <2>3. WellFormed(q) /\ (q.kind = "callback" => codes[q.state] # None)
      BY <1>w, <2>1, EndsWellFormed
    <2>4. jar' \in [Browsers -> [session: Cookie, flow: Cookie]]
      <3>1. \A old \in Cookie, sets \in {"keep", "set", "clear"} : Kept(old, sets, r) \in Cookie
        BY DEF Kept, Cookie
      <3>2. request[r].browser \in Browsers
        BY <1>w, <2>2 DEF WellFormed
      <3> QED
        <4>1. /\ jar[request[r].browser] \in [session: Cookie, flow: Cookie]
              /\ request[r].sets.session \in {"keep", "set", "clear"}
              /\ request[r].sets.flow \in {"keep", "set", "clear"}
          BY <1>0, <1>w, <3>2 DEF TypeOK, Request
        <4>2. PICK c \in [session: Cookie, flow: Cookie] :
                 jar' = [jar EXCEPT ![request[r].browser] = c] \/ jar' = jar
          BY <1>9, <3>1, <4>1 DEF Respond
        <4> QED
          BY <1>0, <4>2 DEF TypeOK
    <2>5. UNCHANGED rows
      BY <1>9 DEF Respond
    <2> QED
      BY <1>0, <1>s, <2>1, <2>2, <2>3, <2>4, <2>5 DEF TypeOK, rows
  <1>10. ASSUME NEW f \in Requests, NEW u \in Users, Authorize(f, u) PROVE TypeInv'
    <2> DEFINE c == [user |-> u, spent |-> FALSE]
    <2>1. c \in [user: Users, spent: BOOLEAN]
      OBVIOUS
    <2>2. /\ codes' = [codes EXCEPT ![f] = c]
          /\ UNCHANGED <<jar, sessions, opened, request, changes, log>>
          /\ request[f].pc = "done" /\ request[f].kind = "sso"
      BY <1>10 DEF Authorize
    <2> HIDE DEF c
    <2>3. c # None
      BY <2>1 DEF ConsoleAssumption
    <2>4. TypeOK'
      BY <1>0, <2>1, <2>2 DEF TypeOK
    <2>5. codes'[f] = c /\ \A n \in Requests \ {f} : codes'[n] = codes[n]
      BY <1>0, <2>2 DEF TypeOK
    <2> QED
      BY <1>w, <2>2, <2>3, <2>4, <2>5 DEF TypeInv, WellFormed
  <1>11. ASSUME NEW t \in Requests, SessionEnds(t) PROVE TypeInv'
    BY <1>11 DEF SessionEnds, TypeInv, TypeOK, WellFormed
  <1>12. ASSUME NEW b \in Browsers, CookieExpires(b) PROVE TypeInv'
    BY <1>12 DEF CookieExpires, TypeInv, TypeOK, WellFormed, rows, Cookie
  <1>13. ASSUME Crash PROVE TypeInv'
    <2>1. ASSUME NEW r \in Requests
          PROVE  /\ request'[r] \in Request
                 /\ Ends(request'[r], request[r]) \/ request'[r] = request[r]
                 /\ request[r].pc = "done" => request'[r] = request[r]
      BY <1>13, <1>w, OverFields DEF Crash, InFlight
    <2>2. request' \in [Requests -> Request]
      BY <1>13, <2>1 DEF Crash
    <2>3. UNCHANGED <<jar, sessions, opened, codes, changes, log>>
      BY <1>13 DEF Crash, rows
    <2>4. ASSUME NEW r \in Requests
          PROVE  /\ WellFormed(request'[r])
                 /\ request'[r].kind = "callback" => codes[request'[r].state] # None
      BY <1>w, <2>1, EndsWellFormed
    <2>5. TypeOK'
      BY <1>0, <2>2, <2>3 DEF TypeOK
    <2> QED
      BY <2>1, <2>3, <2>4, <2>5 DEF TypeInv, WellFormed
  <1>14. CASE UNCHANGED vars
    BY <1>14 DEF vars, TypeInv, TypeOK, WellFormed
  <1> QED
    BY <1>1, <1>2, <1>3, <1>5, <1>6, <1>7, <1>8, <1>9, <1>10, <1>11, <1>12, <1>13, <1>14
    DEF Next, Step

LEMMA TypeAlways == Spec => []TypeInv
  <1>1. TypeInv /\ [Next]_vars => TypeInv'
    BY TypeNext, ConsoleAssumption
  <1> QED
    BY <1>1, TypeInit, PTL DEF Spec

\* Every variable holds what its type says, in every reachable state: who acted
\* in a change is a user, and no absent session or code is ever used.
THEOREM TypeCorrect == Spec => []TypeOK
  BY TypeAlways, PTL DEF TypeInv

-----------------------------------------------------------------------------
(***************************************************************************)
(* What any step does to one request, and to the tables.                   *)
(***************************************************************************)
\* A request that was not there is sent, in one of the five ways.
Begins(q) ==
    \/ /\ q.kind = "login" /\ q.state = None
       /\ \/ q.pc = "create" /\ Entitled(q.identity, q.password)
          \/ /\ q.pc = "audit"
             /\ q.password = "local" /\ LocalRole[q.user] # None => q.failed
    \/ q.kind = "sso" /\ q.pc = "respond"
    \/ /\ q.kind = "callback"
       /\ (q.pc = "exchange" /\ jar[q.browser].flow = q.state) \/ q.pc = "respond"
    \/ /\ q.kind = "change"
       /\ \/ q.pc = "csrf" /\ Live(q.session) /\ q.identity = sessions[q.session]
          \/ q.pc = "audit"
    \/ q.kind = "logout" /\ q.pc \in {"csrf", "audit"}

\* The step o -> q of request r that is in progress.
Exchanges(q, o) ==
    /\ o.pc = "exchange" /\ SameCall(q, o)
    /\ \/ q.pc = "respond"
       \/ /\ q.pc = "create" /\ q.identity = ClaimedIdentity(codes[o.state].user)
          /\ ~codes[o.state].spent
          /\ codes' = [codes EXCEPT ![o.state].spent = TRUE]

Creates(r, q, o) ==
    /\ o.pc = "create" /\ SameCall(q, o)
    /\ q.pc = IF o.kind = "login" THEN "audit" ELSE "respond"
    /\ \/ opened' = [opened EXCEPT ![r] = o.identity] /\ q.sets.session = "set"
       \/ q.failed /\ opened' = opened

Handles(q, o) ==
    /\ o.pc \in {"csrf", "act", "drop"} /\ SameCall(q, o)
    /\ q.pc \in {"act", "drop", "audit"}
    /\ q.pc = "act" => o.pc = "csrf" /\ q.identity = o.identity

Audits(q, o) ==
    /\ o.pc = "audit" /\ SameCall(q, o)
    /\ q.pc = "respond" /\ q.sets = o.sets
    /\ o.failed => q.failed

Moves(r) ==
    LET o == request[r]
        q == request'[r]
    IN  \/ q = o
        \/ o.pc = "idle" /\ Begins(q)
        \/ Exchanges(q, o)
        \/ Creates(r, q, o)
        \/ Handles(q, o)
        \/ Audits(q, o)
        \/ o.pc \notin {"idle", "done"} /\ Ends(q, o)

\* A session is only ever opened by a request at "create"; a code is given once,
\* and what is spent stays spent.
Grows ==
    /\ \A t \in Requests :
          \/ opened'[t] = opened[t]
          \/ request[t].pc = "create" /\ Creates(t, request'[t], request[t])
    /\ \A f \in Requests : codes[f] # None =>
          /\ codes'[f] # None /\ codes'[f].user = codes[f].user
          /\ codes[f].spent => codes'[f].spent
    /\ \A t \in Requests :
          \/ sessions'[t] \in {sessions[t], None}
          \/ sessions'[t] = opened'[t]

LEMMA OneMoves ==
  ASSUME TypeInv, NEW r \in Requests, NEW q, Becomes(r, q)
  PROVE  /\ request'[r] = q
         /\ \A n \in Requests \ {r} : request'[n] = request[n]
  BY DEF TypeInv, TypeOK, Becomes

LEMMA AnyStep ==
  ASSUME TypeInv, ConsoleAssumption, [Next]_vars
  PROVE  /\ \A r \in Requests : Moves(r)
         /\ Grows
  <1>0. TypeOK
    BY DEF TypeInv
  <1>q. ASSUME UNCHANGED <<sessions, opened, codes>>
        PROVE  Grows
    BY <1>q DEF Grows
  <1>1. ASSUME NEW r \in Requests, NEW b \in Browsers, Send(r, b)
        PROVE  (\A n \in Requests : Moves(n)) /\ UNCHANGED <<sessions, opened, codes>>
    <2>s. ASSUME NEW q, Becomes(r, q), request[r].pc = "idle", Begins(q)
          PROVE  \A n \in Requests : Moves(n)
      BY <2>s, OneMoves DEF Moves
    <2>1. ASSUME NEW u \in Users, NEW p \in Passwords, PostLogin(r, b, u, p) \/ LockedOut(r, b, u, p)
          PROVE  (\A n \in Requests : Moves(n)) /\ UNCHANGED <<sessions, opened, codes>>
      <3>1. PICK q : /\ Becomes(r, q) /\ q.kind = "login" /\ q.browser = b
                     /\ q.user = u /\ q.password = p /\ q.state = None
                     /\ \/ q.pc = "create" /\ Entitled(q.identity, p)
                        \/ /\ q.pc = "audit"
                           /\ p = "local" /\ LocalRole[u] # None => q.failed
        BY <1>0, <2>1, LoginFields
      <3>2. Begins(q)
        BY <3>1 DEF Begins
      <3> QED
        BY <2>1, <2>s, <3>1, <3>2 DEF PostLogin, LockedOut, rows
    <2>2. ASSUME GetOIDCLogin(r, b)
          PROVE  (\A n \in Requests : Moves(n)) /\ UNCHANGED <<sessions, opened, codes>>
      <3>1. PICK q : Becomes(r, q) /\ q.kind = "sso" /\ q.pc = "respond"
        BY <1>0, <2>2, SsoFields
      <3> QED
        BY <2>2, <2>s, <3>1 DEF Begins, GetOIDCLogin, rows
    <2>3. ASSUME NEW f \in Requests, GetOIDCCallback(r, b, f)
          PROVE  (\A n \in Requests : Moves(n)) /\ UNCHANGED <<sessions, opened, codes>>
      <3>1. PICK q : /\ Becomes(r, q) /\ q.kind = "callback" /\ q.browser = b /\ q.state = f
                     /\ (q.pc = "exchange" /\ jar[b].flow = f) \/ q.pc = "respond"
        BY <1>0, <2>3, CallbackFields
      <3>2. Begins(q)
        BY <3>1 DEF Begins
      <3> QED
        BY <2>3, <2>s, <3>1, <3>2 DEF GetOIDCCallback, rows
    <2>4. ASSUME NEW form \in Forms, PostLogout(r, b, form)
          PROVE  (\A n \in Requests : Moves(n)) /\ UNCHANGED <<sessions, opened, codes>>
      <3>1. PICK q : Becomes(r, q) /\ q.kind = "logout" /\ q.pc \in {"csrf", "audit"}
        BY <1>0, <2>4, LogoutFields DEF Forms, Cookie
      <3> QED
        BY <2>4, <2>s, <3>1 DEF Begins, PostLogout, rows
    <2>5. ASSUME NEW form \in Forms, NEW min \in MinRoles, PostChange(r, b, min, form)
          PROVE  (\A n \in Requests : Moves(n)) /\ UNCHANGED <<sessions, opened, codes>>
      <3>1. PICK q : /\ Becomes(r, q) /\ q.kind = "change"
                     /\ \/ q.pc = "csrf" /\ Live(q.session) /\ q.identity = sessions[q.session]
                        \/ q.pc = "audit"
        BY <1>0, <2>5, ChangeFields DEF Forms, Cookie
      <3> QED
        BY <2>5, <2>s, <3>1 DEF Begins, PostChange, rows
    <2> QED
      BY <1>1, <2>1, <2>2, <2>3, <2>4, <2>5 DEF Send
  <1>2. ASSUME NEW r \in Requests, Exchange(r)
        PROVE  (\A n \in Requests : Moves(n)) /\ Grows
    <2> DEFINE f == request[r].state
    <2>1. PICK q : /\ Becomes(r, q) /\ SameCall(q, request[r])
                   /\ \/ /\ ~codes[f].spent
                         /\ codes' = [codes EXCEPT ![f].spent = TRUE]
                         /\ \/ q.pc = "create" /\ q.identity = ClaimedIdentity(codes[f].user)
                            \/ q.pc = "respond"
                      \/ codes' = codes /\ q.pc = "respond"
      BY <1>2, ExchangeFields
    <2>2. request[r].pc = "exchange" /\ UNCHANGED <<sessions, opened>>
      BY <1>2 DEF Exchange
    <2>3. Exchanges(q, request[r])
      BY <2>1, <2>2 DEF Exchanges
    <2>4. \A n \in Requests : Moves(n)
      BY <2>1, <2>3, OneMoves DEF Moves
    <2>5. ASSUME NEW n \in Requests, codes[n] # None
          PROVE  /\ codes'[n] # None /\ codes'[n].user = codes[n].user
                 /\ codes[n].spent => codes'[n].spent
      <3>0. codes \in [Requests -> [user: Users, spent: BOOLEAN] \cup {None}]
            /\ codes[n] \in [user: Users, spent: BOOLEAN]
        BY <1>0, <2>5 DEF TypeOK
      <3>1. CASE codes' = codes
        BY <2>5, <3>1
      <3>2. CASE codes' = [codes EXCEPT ![f].spent = TRUE]
        <4> DEFINE c == [codes[f] EXCEPT !.spent = TRUE]
        <4>1. codes' = [codes EXCEPT ![f] = c]
          BY <3>2
        <4>2. ASSUME f = n
              PROVE  c \in [user: Users, spent: BOOLEAN] /\ c.user = codes[n].user /\ c.spent
          <5>1. \A v \in BOOLEAN : [codes[f] EXCEPT !.spent = v] \in [user: Users, spent: BOOLEAN]
            BY <3>0, <4>2
          <5>2. c \in [user: Users, spent: BOOLEAN]
            BY <5>1
          <5> QED
            BY <3>0, <4>2, <5>2
        <4> HIDE DEF c
        <4>3. c \in [user: Users, spent: BOOLEAN] => c # None
          BY DEF ConsoleAssumption
        <4> QED
          BY <2>5, <3>0, <4>1, <4>2, <4>3
      <3> QED
        BY <2>1, <3>1, <3>2
    <2> QED
      BY <2>2, <2>4, <2>5 DEF Grows
  <1>3. ASSUME NEW r \in Requests, CreateSession(r)
        PROVE  (\A n \in Requests : Moves(n)) /\ Grows
    <2>1. PICK q : /\ Becomes(r, q) /\ SameCall(q, request[r])
                   /\ q.pc = IF request[r].kind = "login" THEN "audit" ELSE "respond"
                   /\ \/ /\ sessions' = [sessions EXCEPT ![r] = request[r].identity]
                         /\ opened' = [opened EXCEPT ![r] = request[r].identity]
                         /\ q.sets.session = "set"
                      \/ q.failed /\ sessions' = sessions /\ opened' = opened
      BY <1>0, <1>3, CreateFields
    <2>2. request[r].pc = "create" /\ UNCHANGED codes
      BY <1>3 DEF CreateSession
    <2>3. Creates(r, q, request[r])
      BY <2>1, <2>2 DEF Creates
    <2>4. \A n \in Requests : Moves(n)
      BY <2>1, <2>3, OneMoves DEF Moves
    <2>5. /\ \A t \in Requests \ {r} : opened'[t] = opened[t] /\ sessions'[t] = sessions[t]
          /\ sessions'[r] \in {sessions[r], opened'[r]}
          /\ request'[r] = q
      BY <1>0, <2>1, OneMoves DEF TypeOK
    <2> QED
      BY <2>2, <2>3, <2>4, <2>5 DEF Grows
  <1>4. ASSUME NEW r \in Requests, CheckCSRF(r)
        PROVE  (\A n \in Requests : Moves(n)) /\ UNCHANGED <<sessions, opened, codes>>
    <2>1. PICK p \in {"drop", "act", "audit"} : To(r, p)
      BY <1>4 DEF CheckCSRF
    <2>2. PICK q : /\ Becomes(r, q) /\ SameCall(q, request[r])
                   /\ q.pc = p /\ q.identity = request[r].identity
      BY <1>0, <2>1, ToFields
    <2>3. Handles(q, request[r])
      BY <1>4, <2>2 DEF Handles, CheckCSRF
    <2> QED
      BY <1>4, <2>2, <2>3, OneMoves DEF Moves, CheckCSRF, rows
  <1>5. ASSUME NEW r \in Requests, Act(r)
        PROVE  (\A n \in Requests : Moves(n)) /\ UNCHANGED <<sessions, opened, codes>>
    <2>2. PICK q : /\ Becomes(r, q) /\ SameCall(q, request[r]) /\ q.pc = "audit"
      BY <1>0, <1>5, ToFields DEF Act
    <2>3. Handles(q, request[r])
      BY <1>5, <2>2 DEF Handles, Act
    <2> QED
      BY <1>5, <2>2, <2>3, OneMoves DEF Moves, Act
  <1>6. ASSUME NEW r \in Requests, Drop(r)
        PROVE  (\A n \in Requests : Moves(n)) /\ Grows
    <2>2. PICK q : /\ Becomes(r, q) /\ SameCall(q, request[r]) /\ q.pc = "audit"
      BY <1>0, <1>6, DropFields
    <2>3. Handles(q, request[r])
      BY <1>6, <2>2 DEF Handles, Drop
    <2>4. \A n \in Requests : Moves(n)
      BY <2>2, <2>3, OneMoves DEF Moves
    <2>5. \A t \in Requests : sessions'[t] \in {sessions[t], None}
      BY <1>0, <1>6 DEF Drop, TypeOK
    <2>6. UNCHANGED <<opened, codes>>
      BY <1>6 DEF Drop
    <2> QED
      BY <2>4, <2>5, <2>6 DEF Grows
  <1>7. ASSUME NEW r \in Requests, Audit(r)
        PROVE  (\A n \in Requests : Moves(n)) /\ UNCHANGED <<sessions, opened, codes>>
    <2>2. PICK q : /\ Becomes(r, q) /\ SameCall(q, request[r])
                   /\ q.pc = "respond" /\ q.sets = request[r].sets
                   /\ request[r].failed => q.failed
      BY <1>0, <1>7, AuditFields
    <2>3. Audits(q, request[r])
      BY <1>7, <2>2 DEF Audits, Audit
    <2> QED
      BY <1>7, <2>2, <2>3, OneMoves DEF Moves, Audit
  <1>8. ASSUME NEW r \in Requests, Respond(r)
        PROVE  (\A n \in Requests : Moves(n)) /\ UNCHANGED <<sessions, opened, codes>>
    <2>1. PICK q : Becomes(r, q) /\ Ends(q, request[r])
      BY <1>0, <1>8, RespondFields
    <2> QED
      BY <1>8, <2>1, OneMoves DEF Moves, Respond, rows
  <1>9. ASSUME NEW f \in Requests, NEW u \in Users, Authorize(f, u)
        PROVE  (\A n \in Requests : Moves(n)) /\ Grows
    <2>1. \A n \in Requests : codes[n] # None => codes'[n] = codes[n]
      BY <1>0, <1>9 DEF Authorize, TypeOK
    <2> QED
      BY <1>9, <2>1 DEF Authorize, Moves, Grows
  <1>10. ASSUME NEW t \in Requests, SessionEnds(t)
         PROVE  (\A n \in Requests : Moves(n)) /\ Grows
    <2>1. \A n \in Requests : sessions'[n] \in {sessions[n], None}
      BY <1>0, <1>10 DEF SessionEnds, TypeOK
    <2> QED
      BY <1>10, <2>1 DEF SessionEnds, Moves, Grows
  <1>11. ASSUME NEW b \in Browsers, CookieExpires(b)
         PROVE  (\A n \in Requests : Moves(n)) /\ UNCHANGED <<sessions, opened, codes>>
    BY <1>11 DEF CookieExpires, Moves, rows
  <1>12. ASSUME Crash
         PROVE  (\A n \in Requests : Moves(n)) /\ UNCHANGED <<sessions, opened, codes>>
    <2>1. ASSUME NEW r \in Requests
          PROVE  Moves(r)
      <3>1. CASE r \in InFlight
        <4>1. request'[r] = [Over(request[r]) EXCEPT !.sets = Idle.sets]
          BY <1>12, <3>1 DEF Crash
        <4>2. Ends(request'[r], request[r])
          BY <1>0, <4>1, OverFields DEF TypeOK
        <4> QED
          BY <3>1, <4>2 DEF Moves, InFlight
      <3>2. CASE r \notin InFlight
        BY <1>12, <3>2 DEF Crash, Moves
      <3> QED
        BY <3>1, <3>2
    <2> QED
      BY <1>12, <2>1 DEF Crash, rows
  <1>13. CASE UNCHANGED vars
    BY <1>13, <1>q DEF vars, Moves
  <1> QED
    BY <1>q, <1>1, <1>2, <1>3, <1>4, <1>5, <1>6, <1>7, <1>8, <1>9, <1>10, <1>11, <1>12, <1>13
    DEF Next, Step

-----------------------------------------------------------------------------
(***************************************************************************)
(* Who may sign in, and as what.                                           *)
(***************************************************************************)
\* Between the check of the credentials and the session an identity is held
\* that the password was good for; a session stands for the request that
\* opened it, which keeps its password until it is over and after.
PrivilegeInv ==
    \A r \in Requests :
       LET q == request[r]
       IN  /\ q.pc = "create" => Entitled(q.identity, q.password)
           /\ opened[r] # None =>
                 /\ q.pc \in {"audit", "respond", "done"}
                 /\ q.kind \in {"login", "callback"}
                 /\ q.pc # "done" => q.sets.session = "set"
                 /\ Entitled(opened[r], q.password)

LEMMA PrivilegeInit == Init => PrivilegeInv
  BY DEF Init, PrivilegeInv, Idle

LEMMA PrivilegeNext ==
  ASSUME TypeInv, ConsoleAssumption, PrivilegeInv, [Next]_vars
  PROVE  PrivilegeInv'
  <1>0. (\A r \in Requests : Moves(r)) /\ Grows
    BY AnyStep
  <1> SUFFICES ASSUME NEW r \in Requests
               PROVE  LET q == request'[r]
                      IN  /\ q.pc = "create" => Entitled(q.identity, q.password)
                          /\ opened'[r] # None =>
                                /\ q.pc \in {"audit", "respond", "done"}
                                /\ q.kind \in {"login", "callback"}
                                /\ q.pc # "done" => q.sets.session = "set"
                                /\ Entitled(opened'[r], q.password)
    BY DEF PrivilegeInv, Entitled
  <1> DEFINE o == request[r]
             q == request'[r]
  <1>1. /\ WellFormed(o)
        /\ o.pc = "create" => Entitled(o.identity, o.password)
        /\ opened[r] # None =>
              /\ o.pc \in {"audit", "respond", "done"}
              /\ o.kind \in {"login", "callback"}
              /\ o.pc # "done" => o.sets.session = "set"
              /\ Entitled(opened[r], o.password)
    BY DEF PrivilegeInv, TypeInv
  <1>2. \/ opened'[r] = opened[r]
        \/ o.pc = "create" /\ Creates(r, q, o)
    BY <1>0 DEF Grows
  <1>3. CASE q = o
    BY <1>1, <1>2, <1>3 DEF Creates
  <1>4. CASE o.pc = "idle" /\ Begins(q)
    BY <1>1, <1>2, <1>4 DEF Begins
  <1>5. CASE Exchanges(q, o)
    <2>1. q.pc = "create" => Entitled(q.identity, q.password)
      <3>1. o.kind = "callback"
        BY <1>1, <1>5 DEF WellFormed, Exchanges
      <3>2. codes[o.state].user \in Users
        BY <3>1 DEF TypeInv, TypeOK, WellFormed
      <3> QED
        BY <1>5, <3>2, MappedIdentity DEF Exchanges
    <2>2. opened'[r] = None
      BY <1>1, <1>2, <1>5 DEF Exchanges
    <2> QED
      BY <2>1, <2>2
  <1>6. CASE Creates(r, q, o)
    <2>1. opened[r] = None /\ o.kind \in {"login", "callback"}
      BY <1>1, <1>6 DEF Creates, WellFormed
    <2>2. CASE opened' = opened
      BY <1>6, <2>1, <2>2 DEF Creates
    <2>3. CASE opened' = [opened EXCEPT ![r] = o.identity] /\ q.sets.session = "set"
      <3>1. opened'[r] = o.identity
        BY <2>3 DEF TypeInv, TypeOK
      <3> QED
        BY <1>1, <1>6, <2>1, <2>3, <3>1 DEF Creates, SameCall
    <2> QED
      BY <1>6, <2>2, <2>3 DEF Creates
  <1>7. CASE Handles(q, o)
    BY <1>1, <1>2, <1>7 DEF Handles, WellFormed
  <1>8. CASE Audits(q, o)
    BY <1>1, <1>2, <1>8 DEF Audits, SameCall
  <1>9. CASE o.pc \notin {"idle", "done"} /\ Ends(q, o)
    <2>1. q.pc = "done"
      BY <1>9 DEF Ends
    <2>2. opened'[r] = opened[r]
      BY <1>2, <2>1 DEF Creates
    <2>3. ASSUME opened[r] # None
          PROVE  q.kind = o.kind /\ q.password = o.password
      BY <1>1, <1>9, <2>3 DEF Ends
    <2> QED
      BY <1>1, <2>1, <2>2, <2>3
  <1> HIDE DEF o, q
  <1> QED
    BY <1>0, <1>3, <1>4, <1>5, <1>6, <1>7, <1>8, <1>9 DEF Moves, o, q

LEMMA PrivilegeAlways == Spec => []PrivilegeInv
  <1>1. TypeInv /\ PrivilegeInv /\ [Next]_vars => PrivilegeInv'
    BY PrivilegeNext, ConsoleAssumption
  <1> QED
    BY <1>1, PrivilegeInit, TypeAlways, PTL DEF Spec

\* Whoever signs in, by whichever of the three providers, holds the role that
\* MapRole or the account gives, whatever the directory and the mapping are and
\* however many servers there are, and an account's role costs its password.
THEOREM NoPrivilegeUnearned == Spec => []NoImplicitPrivilege
  <1>1. PrivilegeInv => NoImplicitPrivilege
    BY DEF PrivilegeInv, NoImplicitPrivilege, Entitled
  <1> QED
    BY <1>1, PrivilegeAlways, PTL

LEMMA BreakGlassNext ==
  ASSUME TypeInv, ConsoleAssumption, BreakGlass, [Next]_vars
  PROVE  BreakGlass'
  <1>0. (\A r \in Requests : Moves(r)) /\ Grows
    BY AnyStep
  <1> SUFFICES ASSUME NEW r \in Requests,
                      request'[r].kind = "login", request'[r].password = "local",
                      LocalRole[request'[r].user] # None,
                      request'[r].pc \in {"audit", "respond"}, opened'[r] = None
               PROVE  request'[r].failed
    BY DEF BreakGlass
  <1> DEFINE o == request[r]
             q == request'[r]
  <1>1. /\ WellFormed(o)
        /\ o.kind = "login" /\ o.password = "local" /\ LocalRole[o.user] # None
           /\ o.pc \in {"audit", "respond"} /\ opened[r] = None
           => o.failed
    BY DEF BreakGlass, TypeInv
  <1>2. \/ opened[r] = None
        \/ Creates(r, q, o)
    BY <1>0 DEF Grows
  <1>3. CASE q = o
    BY <1>1, <1>2, <1>3 DEF Creates
  <1>4. CASE o.pc = "idle" /\ Begins(q)
    BY <1>4 DEF Begins
  <1>5. CASE Exchanges(q, o)
    BY <1>1, <1>5 DEF Exchanges, WellFormed, SameCall
  <1>6. CASE Creates(r, q, o)
    <2>1. o.identity # None
      BY <1>1, <1>6 DEF Creates, WellFormed
    <2>2. opened' = [opened EXCEPT ![r] = o.identity] => opened'[r] # None
      BY <2>1 DEF TypeInv, TypeOK
    <2> QED
      BY <1>6, <2>2 DEF Creates
  <1>7. CASE Handles(q, o)
    BY <1>1, <1>7 DEF Handles, WellFormed, SameCall
  <1>8. CASE Audits(q, o)
    BY <1>1, <1>2, <1>8 DEF Audits, SameCall, Creates
  <1>9. CASE o.pc \notin {"idle", "done"} /\ Ends(q, o)
    BY <1>9 DEF Ends
  <1> HIDE DEF o, q
  <1> QED
    BY <1>0, <1>3, <1>4, <1>5, <1>6, <1>7, <1>8, <1>9 DEF Moves, o, q

\* Neither an outage of the directory nor what it answers keeps out whoever has
\* a local account and its password: a refusal is the lockout's or the
\* database's, for any number of servers and any mixture of their answers.
THEOREM LocalStoreBreaksGlass == Spec => []BreakGlass
  <1>1. Init => BreakGlass
    BY DEF Init, BreakGlass, Idle
  <1>2. TypeInv /\ BreakGlass /\ [Next]_vars => BreakGlass'
    BY BreakGlassNext, ConsoleAssumption
  <1> QED
    BY <1>1, <1>2, TypeAlways, PTL DEF Spec

-----------------------------------------------------------------------------
(***************************************************************************)
(* The flow of a sign-on, from the browser that began it and back.         *)
(***************************************************************************)
\* A callback that has spent the code of its flow.
Spender(r) ==
    /\ request[r].kind = "callback"
    /\ request[r].pc = "create" \/ opened[r] # None

\* A flow cookie is in the browser whose request drew it. A callback that goes
\* to the provider is of the browser its flow was begun in; one that has spent
\* the code holds the code's user, and no two of them spent the same.
FlowInv ==
    /\ \A b \in Browsers : jar[b].flow # None =>
          /\ request[jar[b].flow].kind = "sso"
          /\ request[jar[b].flow].browser = b
          /\ request[jar[b].flow].pc = "done"
    /\ \A r \in Requests : request[r].kind = "callback" =>
          LET q == request[r]
          IN  /\ q.pc \in {"exchange", "create"} \/ opened[r] # None =>
                    request[q.state].browser = q.browser
              /\ q.pc = "create" =>
                    codes[q.state].spent /\ q.identity.user = codes[q.state].user
              /\ opened[r] # None =>
                    codes[q.state].spent /\ opened[r].user = codes[q.state].user
    /\ \A r, other \in Requests :
          Spender(r) /\ Spender(other) /\ r # other => request[r].state # request[other].state

LEMMA FlowInit == Init => FlowInv
  BY DEF Init, FlowInv, Spender, Idle

\* A browser gains a flow cookie only with the response to its own sign-on.
LEMMA FlowCookie ==
  ASSUME TypeInv, ConsoleAssumption, [Next]_vars, NEW b \in Browsers
  PROVE  \/ jar'[b].flow \in {jar[b].flow, None}
         \/ \E r \in Requests :
               /\ jar'[b].flow = r /\ request[r].kind = "sso"
               /\ request'[r].kind = "sso" /\ request'[r].browser = b
               /\ request'[r].pc = "done"
  <1>0. TypeOK /\ jar \in [Browsers -> [session: Cookie, flow: Cookie]]
    BY DEF TypeInv, TypeOK
  <1>1. ASSUME NEW r \in Requests, Respond(r), jar' # jar
        PROVE  \/ jar'[b].flow \in {jar[b].flow, None}
               \/ /\ jar'[b].flow = r /\ request[r].kind = "sso"
                  /\ request'[r].kind = "sso" /\ request'[r].browser = b
                  /\ request'[r].pc = "done"
    <2> DEFINE o == request[r]
               c == [session |-> Kept(jar[o.browser].session, o.sets.session, r),
                     flow    |-> Kept(jar[o.browser].flow, o.sets.flow, r)]
    <2>1. o \in Request /\ WellFormed(o) /\ o.pc = "respond" /\ o.browser \in Browsers
      BY <1>1 DEF TypeInv, TypeOK, WellFormed, Respond
    <2>2. /\ jar' = [jar EXCEPT ![o.browser] = c]
          /\ request' = [request EXCEPT ![r] = Over(o)]
      BY <1>0, <1>1, <2>1 DEF Respond
    <2>3. request'[r] = Over(o) /\ Ends(Over(o), o)
      BY <2>1, <2>2, OverFields DEF TypeInv, TypeOK
    <2>4. c.flow \in {jar[o.browser].flow, None} \/ (c.flow = r /\ o.sets.flow = "set")
      <3>1. \A old, sets : sets \in {"keep", "set", "clear"} =>
               \/ Kept(old, sets, r) \in {old, None}
               \/ Kept(old, sets, r) = r /\ sets = "set"
        BY DEF Kept
      <3>2. o.sets.flow \in {"keep", "set", "clear"}
        BY <2>1 DEF Request
      <3> QED
        BY <3>1, <3>2
    <2> HIDE DEF c
    <2>5. CASE b # o.browser
      BY <1>0, <2>2, <2>5
    <2>6. CASE b = o.browser
      <3>1. jar'[b] = c
        BY <1>0, <2>2, <2>6
      <3>2. o.sets.flow = "set" => o.kind = "sso"
        BY <2>1 DEF WellFormed
      <3>3. o.kind = "sso" =>
              request'[r].kind = "sso" /\ request'[r].browser = b /\ request'[r].pc = "done"
        BY <2>3, <2>6 DEF Ends
      <3> QED
        BY <2>4, <2>6, <3>1, <3>2, <3>3
    <2> QED
      BY <2>5, <2>6
  <1>2. ASSUME NEW d \in Browsers, CookieExpires(d)
        PROVE  jar'[b].flow \in {jar[b].flow, None}
    BY <1>0, <1>2 DEF CookieExpires
  <1>3. \/ jar' = jar
        \/ \E r \in Requests : Respond(r) /\ jar' # jar
        \/ \E d \in Browsers : CookieExpires(d)
    <2>1. ASSUME NEW r \in Requests, NEW d \in Browsers, Send(r, d)
          PROVE  jar' = jar
      BY <2>1 DEF Send, PostLogin, LockedOut, GetOIDCLogin, GetOIDCCallback, PostLogout,
                  PostChange
    <2>2. ASSUME NEW r \in Requests, Step(r), ~Respond(r)
          PROVE  jar' = jar
      BY <2>2 DEF Step, Exchange, CreateSession, CheckCSRF, Act, Drop, Audit
    <2> QED
      BY <2>1, <2>2 DEF Next, Authorize, SessionEnds, Crash, vars
  <1> QED
    BY <1>1, <1>2, <1>3

\* Only a crash takes more than one request a step further.
LEMMA OneAtATime ==
  ASSUME TypeInv, ConsoleAssumption, [Next]_vars,
         NEW r \in Requests, NEW other \in Requests, r # other,
         request'[r] # request[r], request'[other] # request[other]
  PROVE  request'[r].pc = "done" /\ request'[other].pc = "done"
  <1>0. request \in [Requests -> Request]
    BY DEF TypeInv, TypeOK
  <1>1. ASSUME NEW n \in Requests, \E q : request' = [request EXCEPT ![n] = q]
        PROVE  FALSE
    BY <1>0, <1>1
  <1>2. ASSUME NEW n \in Requests, NEW b \in Browsers, Send(n, b)
        PROVE  FALSE
    BY <1>1, <1>2 DEF Send, PostLogin, LockedOut, GetOIDCLogin, GetOIDCCallback, PostLogout,
                      PostChange
  <1>3. ASSUME NEW n \in Requests, Step(n)
        PROVE  FALSE
    <2>1. CASE Exchange(n)
      BY <1>1, <2>1, ExchangeFields DEF Becomes
    <2>2. CASE CreateSession(n)
      BY <1>1, <2>2, CreateFields DEF Becomes, TypeInv
    <2>3. CASE \E p \in {"drop", "act", "audit"} : To(n, p)
      BY <1>1, <2>3, ToFields DEF Becomes, TypeInv
    <2>4. CASE Drop(n)
      BY <1>1, <2>4, DropFields DEF Becomes, TypeInv
    <2>5. CASE Audit(n)
      BY <1>1, <2>5, AuditFields DEF Becomes, TypeInv
    <2>6. CASE Respond(n)
      BY <1>1, <2>6, RespondFields DEF Becomes, TypeInv
    <2> QED
      BY <1>3, <2>1, <2>2, <2>3, <2>4, <2>5, <2>6 DEF Step, CheckCSRF, Act
  <1>4. CASE Crash
    <2>1. /\ r \in InFlight /\ request'[r] = [Over(request[r]) EXCEPT !.sets = Idle.sets]
          /\ other \in InFlight
          /\ request'[other] = [Over(request[other]) EXCEPT !.sets = Idle.sets]
      BY <1>4 DEF Crash
    <2> QED
      BY <1>0, <2>1, OverFields DEF Ends
  <1>5. CASE request' = request
    BY <1>5
  <1> QED
    BY <1>2, <1>3, <1>4, <1>5 DEF Next, Authorize, SessionEnds, CookieExpires, vars

LEMMA FlowNext ==
  ASSUME TypeInv, TypeInv', ConsoleAssumption, PrivilegeInv, FlowInv, [Next]_vars
  PROVE  FlowInv'
  <1>0. (\A r \in Requests : Moves(r)) /\ Grows
    BY AnyStep
  <1>d. ASSUME NEW f \in Requests, request[f].pc = "done"
        PROVE  request'[f] = request[f]
    BY <1>0, <1>d DEF Moves, Exchanges, Creates, Handles, Audits
  \* The flow of a callback is over, so it stays as it is.
  <1>f. ASSUME NEW r \in Requests, request[r].kind = "callback"
        PROVE  LET f == request[r].state
               IN  /\ f \in Requests /\ request'[f] = request[f] /\ codes[f] # None
                   /\ codes'[f].user = codes[f].user /\ (codes[f].spent => codes'[f].spent)
    <2>1. request[r].state \in Requests /\ codes[request[r].state] # None
      BY <1>f DEF TypeInv, WellFormed
    <2> QED
      BY <1>0, <1>d, <2>1 DEF TypeInv, Grows
  <1>1. ASSUME NEW b \in Browsers, jar'[b].flow # None
        PROVE  /\ request'[jar'[b].flow].kind = "sso"
               /\ request'[jar'[b].flow].browser = b
               /\ request'[jar'[b].flow].pc = "done"
    <2>1. CASE jar'[b].flow = jar[b].flow
      <3>1. jar[b].flow \in Requests
        BY <1>1, <2>1 DEF TypeInv, TypeOK, Cookie
      <3> QED
        BY <1>1, <1>d, <2>1, <3>1 DEF FlowInv
    <2> QED
      BY <1>1, <2>1, FlowCookie
  \* What a callback's step may do, and where it leaves it.
  <1>2. ASSUME NEW r \in Requests, request'[r].kind = "callback"
        PROVE  /\ request'[r].pc \in {"exchange", "create"} \/ opened'[r] # None =>
                      request'[request'[r].state].browser = request'[r].browser
               /\ request'[r].pc = "create" =>
                      /\ codes'[request'[r].state].spent
                      /\ request'[r].identity.user = codes'[request'[r].state].user
               /\ opened'[r] # None =>
                      /\ codes'[request'[r].state].spent
                      /\ opened'[r].user = codes'[request'[r].state].user
               /\ Spender(r)' =>
                      \/ Spender(r) /\ request'[r].state = request[r].state
                      \/ /\ ~codes[request'[r].state].spent /\ request'[r] # request[r]
                         /\ request'[r].pc = "create"
    <2> DEFINE o == request[r]
               q == request'[r]
               f == o.state
    <2>o. opened'[r] = opened[r] \/ (o.pc = "create" /\ Creates(r, q, o))
      BY ONLY <1>0, r \in Requests DEF Grows
    <2>k. q.kind = "callback"
      BY <1>2
    <2>p. opened[r] # None => o.pc \in {"audit", "respond", "done"}
      BY DEF PrivilegeInv
    <2>i. ASSUME o.kind = "callback"
          PROVE  /\ o.pc \in {"exchange", "create"} \/ opened[r] # None =>
                       request[f].browser = o.browser
                 /\ o.pc = "create" =>
                       codes[f].spent /\ o.identity.user = codes[f].user
                 /\ opened[r] # None =>
                       codes[f].spent /\ opened[r].user = codes[f].user
                 /\ f \in Requests /\ request'[f] = request[f]
                 /\ codes'[f].user = codes[f].user /\ (codes[f].spent => codes'[f].spent)
      BY <2>i, <1>f DEF FlowInv
    <2>1. CASE q = o
      BY <1>2, <2>1, <2>i, <2>o DEF Spender, Creates
    <2>2. CASE o.pc = "idle" /\ Begins(q)
      <3>1. opened'[r] = None
        BY <2>2, <2>o, <2>p
      <3>2. q.pc = "respond" \/ (q.pc = "exchange" /\ jar[q.browser].flow = q.state)
        BY ONLY <2>k, <2>2 DEF Begins
      <3>3. ASSUME q.pc = "exchange"
            PROVE  request'[q.state].browser = q.browser
        <4>1. q.browser \in Browsers /\ q.state \in Requests
          BY <1>2, <3>3 DEF TypeInv, WellFormed
        <4>2. request[q.state].browser = q.browser /\ request[q.state].pc = "done"
          BY <3>2, <3>3, <4>1 DEF FlowInv, ConsoleAssumption
        <4> QED
          BY <1>d, <4>1, <4>2
      <3> QED
        BY <3>1, <3>2, <3>3 DEF Spender
    <2>3. CASE Exchanges(q, o)
      <3>1. /\ opened'[r] = None /\ o.kind = "callback" /\ q.state = f
            /\ q.browser = o.browser
            /\ q.pc \in {"create", "respond"} /\ o.pc = "exchange"
        BY <1>2, <2>3, <2>o, <2>p DEF Exchanges, SameCall
      <3>2. ASSUME q.pc = "create"
            PROVE  codes'[f].spent /\ q.identity.user = codes'[f].user
        <4>1. codes[f] \in [user: Users, spent: BOOLEAN] /\ codes' = [codes EXCEPT ![f].spent = TRUE]
          BY <1>f, <2>3, <3>1, <3>2 DEF Exchanges, TypeInv, TypeOK
        <4>2. codes'[f].spent
          BY <2>i, <3>1, <4>1 DEF TypeInv, TypeOK
        <4>3. q.identity.user = codes[f].user
          BY <2>3, <3>2, <4>1, MappedIdentity DEF Exchanges
        <4> QED
          BY <2>i, <3>1, <4>2, <4>3
      <3>3. q.pc = "create" => ~codes[f].spent
        BY <2>3 DEF Exchanges
      <3>4. ~Spender(r)' \/ q.pc = "create"
        BY <3>1 DEF Spender
      <3> QED
        BY <2>i, <3>1, <3>2, <3>3, <3>4
    <2>4. CASE Creates(r, q, o)
      <3>1. /\ o.kind = "callback" /\ q.state = f /\ q.browser = o.browser
            /\ q.pc = "respond" /\ o.pc = "create" /\ opened[r] = None
        BY <1>2, <2>4, <2>p DEF Creates, SameCall
      <3>2. opened'[r] \in {None, o.identity}
        BY <2>4, <3>1 DEF Creates, TypeInv, TypeOK
      <3> QED
        BY <2>i, <3>1, <3>2 DEF Spender
    <2>5. CASE Handles(q, o)
      BY <1>2, <2>5 DEF Handles, SameCall, TypeInv, WellFormed
    <2>6. CASE Audits(q, o)
      <3>1. o.kind # "callback"
        BY <2>6 DEF Audits, TypeInv, WellFormed
      <3> QED
        BY <1>2, <2>6, <3>1 DEF Audits, SameCall
    <2>7. CASE o.pc \notin {"idle", "done"} /\ Ends(q, o)
      <3>1. o.kind = "callback" /\ q.state = f /\ q.browser = o.browser /\ q.pc = "done"
        BY <1>2, <2>7 DEF Ends
      <3>2. opened'[r] = opened[r]
        BY <2>o, <3>1 DEF Creates
      <3> QED
        BY <2>i, <3>1, <3>2 DEF Spender
    <2> HIDE DEF o, q, f
    <2> QED
      BY <1>0, <2>1, <2>2, <2>3, <2>4, <2>5, <2>6, <2>7 DEF Moves, o, q, f
  \* A code is honoured once, so the second spender finds it spent.
  <1>3. ASSUME NEW r \in Requests, NEW other \in Requests, r # other,
               Spender(r)', Spender(other)'
        PROVE  request'[r].state # request'[other].state
    <2>1. ASSUME NEW n \in Requests, Spender(n)
          PROVE  codes[request[n].state].spent
      BY <2>1 DEF Spender, FlowInv
    <2>2. ASSUME NEW n \in Requests, Spender(n)'
          PROVE  \/ Spender(n) /\ request'[n].state = request[n].state
                 \/ /\ ~codes[request'[n].state].spent
                    /\ request'[n].pc = "create" /\ request'[n] # request[n]
      <3>1. request'[n].kind = "callback"
        BY <2>2 DEF Spender
      <3> QED
        BY <1>2, <2>2, <3>1
    <2>3. ASSUME Spender(r), Spender(other)
          PROVE  request[r].state # request[other].state
      BY <1>3, <2>3 DEF FlowInv
    <2>4. ASSUME request'[r] # request[r], request'[other] # request[other]
          PROVE  ~(request'[r].pc = "create" /\ request'[other].pc = "create")
      BY <1>3, <2>4, OneAtATime
    <2>5. CASE request'[r] = request[r] \/ request'[other] = request[other]
      <3>1. \/ Spender(r) /\ request'[r].state = request[r].state
            \/ ~codes[request'[r].state].spent /\ request'[r] # request[r]
        BY <1>3, <2>2
      <3>2. \/ Spender(other) /\ request'[other].state = request[other].state
            \/ ~codes[request'[other].state].spent /\ request'[other] # request[other]
        BY <1>3, <2>2
      <3> QED
        BY <2>1, <2>3, <2>5, <3>1, <3>2
    <2>6. CASE request'[r] # request[r] /\ request'[other] # request[other]
      BY <1>3, <2>1, <2>2, <2>3, <2>4, <2>6
    <2> QED
      BY <2>5, <2>6
  <1> QED
    BY <1>1, <1>2, <1>3 DEF FlowInv, Spender

LEMMA FlowAlways == Spec => []FlowInv
  <1>1. TypeInv /\ TypeInv' /\ PrivilegeInv /\ FlowInv /\ [Next]_vars => FlowInv'
    BY FlowNext, ConsoleAssumption
  <1> QED
    BY <1>1, FlowInit, TypeAlways, PrivilegeAlways, PTL DEF Spec

\* A single sign-on ends in the browser that began it, as the user who signed
\* in at the provider, and in one session at most, however many callbacks there
\* are and wherever the browsers send them.
THEOREM SignOnsAreBound == Spec => []FlowsBound
  <1>1. TypeInv /\ PrivilegeInv /\ FlowInv => FlowsBound
    <2> SUFFICES ASSUME TypeInv, PrivilegeInv, FlowInv, NEW r \in Requests,
                        opened[r] # None, request[r].kind = "callback"
                 PROVE  LET f == request[r].state
                        IN  /\ request[f].browser = request[r].browser
                            /\ codes[f].user = opened[r].user
                            /\ \A other \in Requests \ {r} :
                                  opened[other] # None => request[other].state # f
      BY DEF FlowsBound
    <2>1. /\ request[request[r].state].browser = request[r].browser
          /\ codes[request[r].state].user = opened[r].user
      BY DEF FlowInv
    <2>2. ASSUME NEW other \in Requests \ {r}, opened[other] # None
          PROVE  request[other].state # request[r].state
      <3>1. CASE request[other].kind = "callback"
        BY <2>2, <3>1 DEF FlowInv, Spender
      <3>2. CASE request[other].kind # "callback"
        <4>1. request[other].state = None /\ request[r].state \in Requests
          BY <3>2 DEF TypeInv, WellFormed
        <4> QED
          BY <4>1, ConsoleAssumption DEF ConsoleAssumption
      <3> QED
        BY <3>1, <3>2
    <2> QED
      BY <2>1, <2>2
  <1> QED
    BY <1>1, TypeAlways, PrivilegeAlways, FlowAlways, PTL

-----------------------------------------------------------------------------
(***************************************************************************)
(* Who changed what, and what the log says of it.                          *)
(***************************************************************************)
\* The handler acts as a session that was there at the role check, and the
\* cookie of the request still names that session when the row is written: it
\* may be gone by then, but it has not become anybody else's.
ChangeInv ==
    /\ \A t \in Requests : sessions[t] # None => sessions[t] = opened[t]
    /\ \A r \in Requests :
          LET q == request[r]
          IN  q.kind = "change" /\ q.pc \in {"csrf", "act"} =>
                 /\ q.session \in Requests /\ opened[q.session] # None
                 /\ q.identity = opened[q.session]
    /\ \A c \in changes :
          LET q == request[c.request]
          IN  /\ q.pc \in {"audit", "respond", "done"}
              /\ q.pc = "audit" =>
                    /\ q.kind = "change"
                    /\ q.session \in Requests /\ opened[q.session] # None
                    /\ opened[q.session].user = c.user
    /\ \A row \in log : request[row.request].pc \in {"respond", "done"}
    /\ VouchedRowsNameTheActor

LEMMA ChangeInit == Init => ChangeInv
  BY DEF Init, ChangeInv, VouchedRowsNameTheActor, Idle

\* Only a handler adds to the changes and only audited adds to the log.
LEMMA Recorded ==
  ASSUME TypeInv, ConsoleAssumption, [Next]_vars
  PROVE  \/ changes' = changes /\ log' = log
         \/ \E r \in Requests :
               /\ request[r].pc = "act" /\ request'[r].pc = "audit"
               /\ SameCall(request'[r], request[r])
               /\ changes' = changes \cup {[request |-> r, user |-> request[r].identity.user]}
               /\ log' = log
         \/ \E r \in Requests : \E u \in ActorsOf(r) :
               /\ request[r].pc = "audit" /\ request'[r].pc = "respond"
               /\ log' = log \cup {Row(r, u)}
               /\ changes' = changes
  <1>1. ASSUME NEW r \in Requests, NEW b \in Browsers, Send(r, b)
        PROVE  changes' = changes /\ log' = log
    BY <1>1 DEF Send, PostLogin, LockedOut, GetOIDCLogin, GetOIDCCallback, PostLogout,
                PostChange, rows
  <1>2. ASSUME NEW r \in Requests, Act(r), changes' # changes
        PROVE  /\ request[r].pc = "act" /\ request'[r].pc = "audit"
               /\ SameCall(request'[r], request[r])
               /\ changes' = changes \cup {[request |-> r, user |-> request[r].identity.user]}
               /\ log' = log
    <2>1. PICK q : Becomes(r, q) /\ SameCall(q, request[r]) /\ q.pc = "audit"
      BY <1>2, ToFields DEF Act, TypeInv
    <2> QED
      BY <1>2, <2>1, OneMoves DEF Act
  <1>3. ASSUME NEW r \in Requests, Audit(r), log' # log
        PROVE  \E u \in ActorsOf(r) :
                  /\ request[r].pc = "audit" /\ request'[r].pc = "respond"
                  /\ log' = log \cup {Row(r, u)}
                  /\ changes' = changes
    <2>1. PICK q : Becomes(r, q) /\ q.pc = "respond"
      BY <1>3, AuditFields DEF TypeInv
    <2> QED
      BY <1>3, <2>1, OneMoves DEF Audit
  <1>4. ASSUME NEW r \in Requests, Step(r),
               ~(Act(r) /\ changes' # changes), ~(Audit(r) /\ log' # log)
        PROVE  changes' = changes /\ log' = log
    BY <1>4 DEF Step, Exchange, CreateSession, CheckCSRF, Act, Drop, Audit, Respond, rows
  <1> QED
    BY <1>1, <1>2, <1>3, <1>4 DEF Next, Authorize, SessionEnds, CookieExpires, Crash, rows, vars

LEMMA ChangeNext ==
  ASSUME TypeInv, ConsoleAssumption, PrivilegeInv, ChangeInv, [Next]_vars
  PROVE  ChangeInv'
  <1>0. (\A r \in Requests : Moves(r)) /\ Grows
    BY AnyStep
  <1>t. /\ \A r \in Requests : request[r] \in Request /\ WellFormed(request[r])
        /\ changes \subseteq [request: Requests, user: Users]
        /\ log \subseteq LogRow
    BY DEF TypeInv, TypeOK
  <1>o. ASSUME NEW t \in Requests, opened[t] # None
        PROVE  opened'[t] = opened[t]
    BY <1>0, <1>o DEF Grows, PrivilegeInv
  <1>1. ASSUME NEW t \in Requests, sessions'[t] # None
        PROVE  sessions'[t] = opened'[t]
    BY <1>0, <1>1, <1>o DEF Grows, ChangeInv
  <1>2. ASSUME NEW r \in Requests,
               request'[r].kind = "change", request'[r].pc \in {"csrf", "act"}
        PROVE  /\ request'[r].session \in Requests /\ opened'[request'[r].session] # None
               /\ request'[r].identity = opened'[request'[r].session]
    <2> DEFINE o == request[r]
               q == request'[r]
    <2>1. ASSUME o.kind = "change", o.pc \in {"csrf", "act"},
                 q.session = o.session, q.identity = o.identity
          PROVE  /\ q.session \in Requests /\ opened'[q.session] # None
                 /\ q.identity = opened'[q.session]
      BY <1>o, <2>1 DEF ChangeInv
    <2>2. CASE q = o
      BY <1>2, <2>1, <2>2
    <2>3. CASE o.pc = "idle" /\ Begins(q)
      <3>1. Live(q.session) /\ q.identity = sessions[q.session]
        BY <1>2, <2>3 DEF Begins
      <3>2. q.session \in Requests
        <4>1. request' \in [Requests -> Request]
          BY TypeNext DEF TypeInv, TypeOK
        <4> QED
          BY <3>1, <4>1 DEF Live, Request, Cookie
      <3>3. sessions[q.session] # None /\ sessions[q.session] = opened[q.session]
        BY <3>1, <3>2 DEF Live, ChangeInv
      <3> QED
        BY <1>o, <3>1, <3>2, <3>3
    <2>4. CASE Handles(q, o)
      <3>1. q.pc = "act"
        BY <1>2, <2>4 DEF Handles
      <3> QED
        BY <1>2, <2>1, <2>4, <3>1 DEF Handles, SameCall
    <2>5. CASE Exchanges(q, o) \/ Creates(r, q, o) \/ Audits(q, o) \/ Ends(q, o)
      BY <1>2, <2>5 DEF Exchanges, Creates, Audits, Ends
    <2> HIDE DEF o, q
    <2> QED
      BY <1>0, <2>2, <2>3, <2>4, <2>5 DEF Moves, o, q
  \* Past its handler a request only goes on to its end.
  <1>e. ASSUME NEW r \in Requests, request[r].pc \in {"audit", "respond", "done"}
        PROVE  /\ request'[r].pc \in {"audit", "respond", "done"}
               /\ request'[r].pc = "audit" => request'[r] = request[r]
               /\ request[r].pc # "audit" => request'[r].pc \in {"respond", "done"}
    BY <1>0, <1>e DEF Moves, Exchanges, Creates, Handles, Audits, Ends
  <1>3. ASSUME NEW c \in changes'
        PROVE  /\ request'[c.request].pc \in {"audit", "respond", "done"}
               /\ request'[c.request].pc = "audit" =>
                     /\ request'[c.request].kind = "change"
                     /\ request'[c.request].session \in Requests
                     /\ opened'[request'[c.request].session] # None
                     /\ opened'[request'[c.request].session].user = c.user
    <2>1. CASE c \in changes
      <3>1. c.request \in Requests
        BY <1>t, <2>1
      <3> QED
        BY <1>e, <1>o, <2>1, <3>1 DEF ChangeInv
    <2>2. CASE c \notin changes
      <3>1. PICK r \in Requests :
              /\ request[r].pc = "act" /\ request'[r].pc = "audit"
              /\ SameCall(request'[r], request[r])
              /\ changes' = changes \cup {[request |-> r, user |-> request[r].identity.user]}
        BY <1>3, <2>2, Recorded
      <3>2. c.request = r /\ c.user = request[r].identity.user
        BY <1>3, <2>2, <3>1
      <3>3. request[r].kind = "change"
        BY <1>t, <3>1 DEF WellFormed
      <3>4. /\ request[r].session \in Requests /\ opened[request[r].session] # None
            /\ request[r].identity = opened[request[r].session]
        BY <3>1, <3>3 DEF ChangeInv
      <3>5. request'[r].kind = "change" /\ request'[r].session = request[r].session
        BY <3>1, <3>3 DEF SameCall
      <3> QED
        BY <1>o, <3>1, <3>2, <3>4, <3>5
    <2> QED
      BY <2>1, <2>2
  <1>4. ASSUME NEW row \in log'
        PROVE  request'[row.request].pc \in {"respond", "done"}
    <2>1. CASE row \in log
      <3>1. row.request \in Requests
        BY <1>t, <2>1 DEF LogRow
      <3> QED
        BY <1>e, <2>1, <3>1 DEF ChangeInv
    <2>2. CASE row \notin log
      BY <1>4, <2>2, Recorded DEF Row
    <2> QED
      BY <2>1, <2>2
  <1>5. ASSUME NEW row \in log', NEW c \in changes', row.request = c.request, row.provider # None
        PROVE  row.user = c.user
    <2>1. CASE row \in log /\ c \in changes
      BY <1>5, <2>1 DEF ChangeInv, VouchedRowsNameTheActor
    <2>2. CASE row \notin log
      <3>1. PICK r \in Requests : \E u \in ActorsOf(r) :
              /\ request[r].pc = "audit" /\ log' = log \cup {Row(r, u)} /\ changes' = changes
        BY <1>5, <2>2, Recorded
      <3>u. PICK u \in ActorsOf(r) : log' = log \cup {Row(r, u)} /\ changes' = changes
        BY <3>1
      <3>2. /\ row.request = r /\ row.user = u.user /\ row.provider = u.provider
            /\ c \in changes /\ c.request = r
        BY <1>5, <2>2, <3>u DEF Row
      <3>3. /\ request[r].session \in Requests /\ opened[request[r].session].user = c.user
        BY <3>1, <3>2 DEF ChangeInv
      <3>4. u \notin FormActors(r)
        BY <1>5, <3>2 DEF FormActors
      <3>5. Live(request[r].session) /\ u.user = sessions[request[r].session].user
        BY <3>4 DEF ActorsOf, SessionActor
      <3> QED
        BY <3>2, <3>3, <3>5 DEF ChangeInv, Live
    <2>3. CASE c \notin changes /\ row \in log
      <3>1. PICK r \in Requests :
              /\ request[r].pc = "act"
              /\ changes' = changes \cup {[request |-> r, user |-> request[r].identity.user]}
        BY <1>5, <2>3, Recorded
      <3>2. row.request = r
        BY <1>5, <2>3, <3>1
      <3> QED
        BY <2>3, <3>1, <3>2 DEF ChangeInv
    <2> QED
      BY <2>1, <2>2, <2>3
  <1> QED
    BY <1>1, <1>2, <1>3, <1>4, <1>5 DEF ChangeInv, VouchedRowsNameTheActor

\* Between the role check, the handler and the audit row the session may end,
\* and with it what vouches for the name: a row with a provider still names who
\* made the change, one without a provider names whoever the form did.
THEOREM VouchedRowsAreTrue == Spec => []VouchedRowsNameTheActor
  <1>1. TypeInv /\ PrivilegeInv /\ ChangeInv /\ [Next]_vars => ChangeInv'
    BY ChangeNext, ConsoleAssumption
  <1>2. ChangeInv => VouchedRowsNameTheActor
    BY DEF ChangeInv
  <1> QED
    BY <1>1, <1>2, ChangeInit, TypeAlways, PrivilegeAlways, PTL DEF Spec
=============================================================================
