----------------------------- MODULE MCAccounts -----------------------------
(* Accounts for model checking. *)
EXTENDS Accounts, TLC

OneRole == {{x} : x \in Roles}

Symmetry == Permutations(Sessions) \cup Permutations(Requests)
=============================================================================
