---------------------------- MODULE MCUserAvatar ----------------------------
(* Instances of UserAvatar for TLC. *)
EXTENDS UserAvatar, TLC

Symmetry == Permutations(Upload)

=============================================================================
