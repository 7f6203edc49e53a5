----------------------------- MODULE MCUserSync -----------------------------
(* Small instances of UserSync. *)
EXTENDS UserSync, TLC

MCSymmetry ==
    Permutations(Users) \cup Permutations(Configs \ (Rejected \cup Invalid))
=============================================================================
