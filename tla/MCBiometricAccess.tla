-------------------------- MODULE MCBiometricAccess --------------------------
(* Instances of BiometricAccess for TLC. *)
EXTENDS BiometricAccess, TLC

Symmetry == Permutations(KeyPairs) \cup Permutations(Callers)

=============================================================================
