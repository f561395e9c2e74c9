------------------------------ MODULE MCKrunc ------------------------------
(* Instances of Krunc for TLC. *)
EXTENDS Krunc, TLC

CONSTANTS c1, c2

\* Status words: exit(0), exit(1), killed by SIGKILL, krunc_exit(-EINVAL).
EINVAL == -22
StatusWords == {0, 256, 9, EINVAL}

Symmetry == Permutations(Callers)
=============================================================================
