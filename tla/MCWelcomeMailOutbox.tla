------------------------ MODULE MCWelcomeMailOutbox ------------------------
(* Instances of WelcomeMailOutbox for TLC. *)
EXTENDS WelcomeMailOutbox, TLC

\* Instances and lease owners are interchangeable; rows are not (created_at).
Symmetry == Permutations(Relay) \cup Permutations(Lease)

=============================================================================
