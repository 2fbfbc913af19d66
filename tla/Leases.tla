------------------------------- MODULE Leases --------------------------------
(***************************************************************************)
(* What the session store promises, without handlers, commands or          *)
(* statements: a lease is opened once for one holder, may be extended while *)
(* it is held, and is gone for good once it ends.                          *)
(***************************************************************************)
EXTENDS Integers

CONSTANTS
    Holders,    \* who a lease can belong to
    Idle,       \* a lease runs this long from its last use ...
    Longest,    \* ... and an extension never passes this age
    Grain       \* times are kept to within less than this

VARIABLES now, held, issued

vars == <<now, held, issued>>

Init == now = 0 /\ held = {} /\ issued = 0

\* The moments that are kept for t.
About(t) == {m \in 0..t : t - m < Grain}

Open ==
    /\ issued' = issued + 1
    /\ \E h \in Holders, opened \in About(now), until \in About(now + Idle) :
          held' = held \cup {[id |-> issued', holder |-> h, opened |-> opened,
                              until |-> until]}
    /\ UNCHANGED now

\* A use extends a lease that is still held, whoever decided on it when; the
\* holder and the age stay what they are.
Extend(lease) ==
    /\ \E until \in 0..(now + Idle) :
          /\ until <= lease.opened + Longest
          /\ held' = (held \ {lease}) \cup {[lease EXCEPT !.until = until]}
    /\ UNCHANGED <<now, issued>>

\* Leases end: by logout, revocation or purge.
End == held' \subseteq held /\ UNCHANGED <<now, issued>>

Pass == now' = now + 1 /\ UNCHANGED <<held, issued>>

Next == Open \/ (\E lease \in held : Extend(lease)) \/ End \/ Pass

Spec == Init /\ [][Next]_vars
=============================================================================
