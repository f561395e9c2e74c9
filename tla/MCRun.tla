------------------------------- MODULE MCRun -------------------------------
(* An instance of KruncRun for TLC. *)
EXTENDS KruncRun

\* exit(0), exit(3), SIGKILL, krunc_exit(-EINVAL), krunc_exit(-EPERM).
MCWords == {0, 768, 9, -22, -1}
=============================================================================
