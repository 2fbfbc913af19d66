---------------------------- MODULE MCAccounts -----------------------------
(***************************************************************************)
(* Symmetry for model checking Accounts: users, handlers and commands are  *)
(* interchangeable.                                                        *)
(***************************************************************************)
EXTENDS Accounts, TLC

Symmetry == Permutations(Users) \cup Permutations(Requests)
            \cup Permutations(Commands)
=============================================================================
