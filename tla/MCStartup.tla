------------------------------ MODULE MCStartup ------------------------------
EXTENDS Startup

\* For every choice of modes: exactly what Validate asks for, or all settings,
\* each with at most one left out.
MCFiles ==
    UNION { LET c == [tls |-> t, driver |-> d, ca |-> a, ldap |-> l, oidc |-> o, given |-> {}]
                full == [c EXCEPT !.given = Settings]
            IN  {full} \cup {[full EXCEPT !.given = @ \ {s}] : s \in Settings}
                  \cup {[c EXCEPT !.given = Required(c) \ {s}] : s \in Settings}
            : t \in {"acme", "files", "proxy"}, d \in {"sqlite", "mysql"},
              a \in {"generate", "import", "external"}, l \in BOOLEAN, o \in BOOLEAN }
=============================================================================
