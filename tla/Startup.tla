------------------------------- MODULE Startup -------------------------------
(***************************************************************************)
(* From cairn.toml to a serving process.                                   *)
(*                                                                         *)
(* `cairn init` checks its flags, and writes those it knows how to write;   *)
(* an operator may write any file.  `cairn serve` loads the file, checks it *)
(* and then goes through the packages one by one, each of which uses some  *)
(* settings and relies on something outside: a file, a port, an identity    *)
(* provider.  A setting is present or empty; what it says is left out.      *)
(***************************************************************************)
EXTENDS Integers, FiniteSets

CONSTANTS
    Files,      \* the configurations an operator may have written
    Env,        \* settings that CAIRN_* variables of the server's unit give
    None

Settings ==
    {"public_url", "listen", "acme_email", "tls_files", "path", "dsn",
     "import_files", "scep_url", "ca_chain_file", "challenge",
     "signing_cert", "signing_key", "servers", "base_dn", "bind_dn",
     "bind_secret", "issuer_url", "client_id", "client_secret", "allow_open"}

Config ==
    [tls: {"acme", "files", "proxy"}, driver: {"sqlite", "mysql"},
     ca: {"generate", "import", "external"}, ldap: BOOLEAN, oidc: BOOLEAN,
     given: SUBSET Settings]

ASSUME StartupAssumption ==
    /\ Files \subseteq Config
    /\ Env \subseteq {"public_url", "listen", "path"}
    /\ None \notin Config

VARIABLES
    config,     \* cairn.toml
    byInit,     \* cairn.toml is as `cairn init` wrote it
    broken,     \* what is unavailable outside, None if nothing
    pc,         \* how far `cairn serve` is
    ended,      \* why the last one ended
    printed     \* `cairn init` has told where to enroll

vars == <<config, byInit, broken, pc, ended, printed>>

-----------------------------------------------------------------------------
Steps == {"secrets", "validate", "open", "pki", "auth", "oidc", "listen"}
Outside == {"dsn", "challenge", "bind_secret", "client_secret", "database",
            "signing", "import_files", "ca_chain_file", "ldap_ca", "issuer",
            "tls_files", "port"}

Init ==
    /\ config \in Files \cup {None}
    /\ byInit = FALSE
    /\ broken \in Outside \cup {None}
    /\ pc = "down" /\ ended = "never"
    /\ printed = FALSE

Has(c, s) == s \in c.given
Embedded(c) == c.ca \in {"generate", "import"}
Signs(c) == Has(c, "signing_cert") \/ Has(c, "signing_key")

\* Load: defaults, the file, the environment.
Loaded(c) == [c EXCEPT !.given = @ \cup Env]

-----------------------------------------------------------------------------
(***************************************************************************)
(* Validate.                                                               *)
(***************************************************************************)
TLSNeeds(c) == IF c.tls = "acme" THEN {"acme_email"}
               ELSE IF c.tls = "files" THEN {"tls_files"} ELSE {}

StorageNeeds(c) == IF c.driver = "sqlite" THEN {"path"} ELSE {"dsn"}

CANeedsButChain(c) == IF c.ca = "import" THEN {"import_files"}
                      ELSE IF c.ca = "external" THEN {"scep_url"} ELSE {}
CANeeds(c) == IF c.ca = "import" THEN {"import_files"}
              ELSE IF c.ca = "external" THEN {"scep_url", "ca_chain_file"} ELSE {}

SigningNeeds(c) == IF Signs(c) THEN {"signing_cert", "signing_key"} ELSE {}

LDAPNeeds(c) == IF c.ldap THEN {"servers", "base_dn", "bind_dn", "bind_secret"} ELSE {}
OIDCNeeds(c) == IF c.oidc THEN {"issuer_url", "client_id", "client_secret"} ELSE {}

Required(c) ==
    {"public_url", "listen"} \cup TLSNeeds(c) \cup StorageNeeds(c) \cup CANeeds(c)
        \cup SigningNeeds(c) \cup LDAPNeeds(c) \cup OIDCNeeds(c)

Validates(c) == Required(c) \subseteq c.given

\* resolveSecrets: which references are followed; those of a provider that is
\* not enabled are not.
Referenced(c) ==
    c.given \cap ({"dsn", "challenge"}
                     \cup (IF c.ldap THEN {"bind_secret"} ELSE {})
                     \cup (IF c.oidc THEN {"client_secret"} ELSE {}))

-----------------------------------------------------------------------------
(***************************************************************************)
(* cairn init.                                                             *)
(***************************************************************************)
\* Its flags: no TLS files among them, no secret, no provider.
Flags == [tls: {"acme", "files", "proxy"}, ca: {"generate", "import", "external"},
          given: SUBSET {"acme_email", "import_files", "scep_url", "ca_chain_file"}]

FromFlags(f) ==
    [tls |-> f.tls, driver |-> "sqlite", ca |-> f.ca, ldap |-> FALSE, oidc |-> FALSE,
     given |-> f.given \cup {"public_url", "listen", "path"}]

\* renderTOML writes the settings of the modes chosen; what is left out is read
\* back as the default, which is empty but for these two.
RenderedTLSOnly(c) ==
    [c EXCEPT !.given = (@ \cap ({"public_url"} \cup TLSNeeds(c))) \cup {"listen", "path"}]
\* The same with the name of another Go driver.
RenderedDriver(c) == [RenderedTLSOnly(c) EXCEPT !.driver = "sqlite3"]
Rendered(c) ==
    [c EXCEPT !.given = (@ \cap ({"public_url"} \cup TLSNeeds(c) \cup CANeeds(c)))
                            \cup {"listen", "path"}]

\* The configuration is written last; the database and the CA come before it.
RunInit(f) ==
    /\ config = None
    /\ Validates(FromFlags(f))
    /\ broken # "database"
    /\ broken = "import_files" => f.ca # "import"
    /\ config' = Rendered(FromFlags(f))
    /\ byInit' = TRUE
    /\ printed' = TRUE
    /\ UNCHANGED <<broken, pc, ended>>

-----------------------------------------------------------------------------
(***************************************************************************)
(* cairn serve: the settings each step uses, and what it relies on.        *)
(***************************************************************************)
Uses(step, c) ==
    CASE step \in {"secrets", "validate"} -> {}
      [] step = "open"   -> {"path"}
      [] step = "pki"    -> SigningNeeds(c) \cup {"public_url"} \cup
                            (CASE c.ca = "generate" -> {}
                               [] c.ca = "import"   -> {"import_files"}
                               [] c.ca = "external" -> {"scep_url", "ca_chain_file"})
      [] step = "auth"   -> LDAPNeeds(c)
      [] step = "oidc"   -> OIDCNeeds(c)
      [] step = "listen" -> {"listen"} \cup
                            (IF c.tls = "files" THEN {"tls_files"} ELSE {})

ReliesOn(step, c) ==
    CASE step = "secrets" -> Referenced(c)
      [] step = "validate" -> {}
      [] step = "open"   -> {"database"}
      [] step = "pki"    -> (IF Signs(c) THEN {"signing"} ELSE {}) \cup
                            (CASE c.ca = "generate" -> {}
                               [] c.ca = "import"   -> {"import_files"}
                               [] c.ca = "external" -> {"ca_chain_file"})
      [] step = "auth"   -> IF c.ldap THEN {"ldap_ca"} ELSE {}
      [] step = "oidc"   -> IF c.oidc THEN {"issuer"} ELSE {}
      [] step = "listen" -> {"port"} \cup (IF c.tls = "files" THEN {"tls_files"} ELSE {})

After == [secrets |-> "validate", validate |-> "open", open |-> "pki", pki |-> "auth",
          auth |-> "oidc", oidc |-> "listen", listen |-> "serving"]

\* Only SQLite is there; Validate accepts the other drivers.
Refuses(step, c) ==
    \/ step = "validate" /\ ~Validates(c)
    \/ step = "open" /\ c.driver # "sqlite"

Start ==
    /\ pc = "down" /\ config # None
    /\ pc' = "secrets"
    /\ UNCHANGED <<config, byInit, broken, ended, printed>>

Ends(why) == /\ pc' = "down" /\ ended' = why
             /\ UNCHANGED <<config, byInit, broken, printed>>

StepStops ==
    LET c == Loaded(config)
    IN  /\ pc \in Steps
        /\ \/ Refuses(pc, c) /\ Ends("refused")
           \/ ~(Uses(pc, c) \subseteq c.given) /\ ~Refuses(pc, c) /\ Ends("missing")
           \/ broken \in ReliesOn(pc, c) /\ ~Refuses(pc, c)
                 /\ Ends(IF pc = "oidc" THEN "provider" ELSE "outside")

StepDone ==
    LET c == Loaded(config)
    IN  /\ pc \in Steps
        /\ ~Refuses(pc, c)
        /\ Uses(pc, c) \subseteq c.given
        /\ broken \notin ReliesOn(pc, c)
        /\ pc' = After[pc]
        /\ UNCHANGED <<config, byInit, broken, ended, printed>>

\* A running process is stopped or crashes; nothing it relied on is needed again.
Stop == pc = "serving" /\ Ends("signal")

\* Something outside breaks or is repaired.
Outage(what) ==
    /\ broken = None /\ broken' = what
    /\ UNCHANGED <<config, byInit, pc, ended, printed>>
Repair ==
    /\ broken # None /\ broken' = None
    /\ UNCHANGED <<config, byInit, pc, ended, printed>>

Serve == Start \/ StepStops \/ StepDone

Next ==
    \/ \E f \in Flags : RunInit(f)
    \/ Serve \/ Stop
    \/ \E what \in Outside : Outage(what)
    \/ Repair

\* The service manager starts the server again, and a process that runs goes on.
Spec == Init /\ [][Next]_vars /\ WF_vars(Serve)

-----------------------------------------------------------------------------
TypeOK ==
    /\ config \in Config \cup {None}
    /\ byInit \in BOOLEAN /\ printed \in BOOLEAN
    /\ broken \in Outside \cup {None}
    /\ pc \in Steps \cup {"down", "serving"}
    /\ ended \in {"never", "refused", "missing", "provider", "outside", "signal"}

\* What Validate lets through is complete: no package comes upon an empty setting
\* it needs, whatever the modes, after others have already been opened.
NothingMissing == ended # "missing"

\* What init writes, serve accepts: if nothing outside stays broken, a server
\* with that file serves, whatever went wrong before.
InitLeadsToServing ==
    <>[](byInit /\ broken = None) => []<>(pc = "serving")

\* "Local accounts are always enabled (they are the break-glass path)": no
\* startup ends because an identity provider does not answer.
LocalAlwaysEnabled == ended # "provider"

\* init "prints the enrollment URL": with the file it wrote, that address serves
\* profiles.
PrintedURLEnrolls ==
    pc = "serving" /\ printed => Has(Loaded(config), "allow_open")
=============================================================================
