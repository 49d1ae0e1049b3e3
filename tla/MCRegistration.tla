--------------------------- MODULE MCRegistration ---------------------------
(* Instances of Registration for TLC. *)
EXTENDS Registration, TLC

Symmetry == Permutations(Request) \cup Permutations(Username)
              \cup Permutations(Email)

=============================================================================
