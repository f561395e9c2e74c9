------------------------------- MODULE MCCli -------------------------------
(* Instances of KruncCli for TLC. *)
EXTENDS KruncCli, TLC

CONSTANTS p1, p2, a, b

Plain(cmds) == [cmd : cmds, maps : {FALSE}, limits : {TRUE}, mode : {"none"}]

Create(withMaps, withLimits, annotation) ==
    [cmd |-> "create", maps |-> withMaps, limits |-> withLimits, mode |-> annotation]

\* Bundles with id maps and the guard, plain ones, and one without limits and
\* with a bad annotation; run's bundles do not ask for the guard, whose key
\* run_lifecycle does not return.
MCRequests ==
    Plain({"run", "start", "state", "delete"}) \cup
        {Create(TRUE, TRUE, "kill"), Create(FALSE, FALSE, "bad")}

\* Two guarded containers are created and started.
GuardedRequests ==
    Plain({"start"}) \cup [cmd : {"create"}, maps : {FALSE}, limits : {TRUE}, mode : {"block"}]

MCSymmetry == Permutations(Procs) \cup Permutations(Ids)
=============================================================================
