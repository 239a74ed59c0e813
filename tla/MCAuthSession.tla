---------------------------- MODULE MCAuthSession ----------------------------
(* Symmetry for TLC's runs of AuthSession. *)
EXTENDS AuthSession, TLC

Symmetry == Permutations(Workers) \cup Permutations(Instances)
===============================================================================
