----------------------------- MODULE MCImporter -----------------------------
(***************************************************************************)
(* A small source for model checking Importer: the first device has one    *)
(* user, and a certificate it renewed.                                     *)
(***************************************************************************)
EXTENDS Importer

CONSTANTS d1, d2, u1, h1, h2

UserParent  == [u \in {u1} |-> d1]
Renewed     == {{<<d1, h1>>, <<d1, h2>>}}
=============================================================================
