--------------------------- MODULE OciLifecycle ---------------------------
(***************************************************************************)
(* What krunc promises of one container's life, whoever drives it and in   *)
(* whatever order: the states that ioctl STATE reports (ST_CREATED,        *)
(* ST_RUNNING, ST_STOPPED) and when the program of the container may run.  *)
(* A created container runs nothing until it is started; a container       *)
(* discarded before its start never runs anything; stopped is final.       *)
(***************************************************************************)
CONSTANT Containers

VARIABLES
    status,    \* status[c]: where c is in the OCI lifecycle
    program    \* program[c]: "unloaded", "running" or "ended"

lifeVars == <<status, program>>

LifeTypeOK ==
    /\ status \in [Containers -> {"absent", "created", "running", "stopped"}]
    /\ program \in [Containers -> {"unloaded", "running", "ended"}]

LifeInit ==
    /\ status = [c \in Containers |-> "absent"]
    /\ program = [c \in Containers |-> "unloaded"]

\* The container's init exists and waits.
Create(c) ==
    /\ status[c] = "absent"
    /\ status' = [status EXCEPT ![c] = "created"]
    /\ UNCHANGED program

\* A one-shot container is running from the beginning.
Run(c) ==
    /\ status[c] = "absent"
    /\ status' = [status EXCEPT ![c] = "running"]
    /\ UNCHANGED program

Start(c) ==
    /\ status[c] = "created"
    /\ status' = [status EXCEPT ![c] = "running"]
    /\ UNCHANGED program

\* The container's program gets its first instruction.
Exec(c) ==
    /\ status[c] = "running"
    /\ program[c] = "unloaded"
    /\ program' = [program EXCEPT ![c] = "running"]
    /\ UNCHANGED status

\* The init of a running container ends, in its program or in its setup.
Stop(c) ==
    /\ status[c] = "running"
    /\ status' = [status EXCEPT ![c] = "stopped"]
    /\ program' = [program EXCEPT ![c] =
                        IF program[c] = "running" THEN "ended" ELSE "unloaded"]

\* A created container is torn down without having run.
Discard(c) ==
    /\ status[c] = "created"
    /\ status' = [status EXCEPT ![c] = "stopped"]
    /\ UNCHANGED program

LifeNext ==
    \E c \in Containers :
        Create(c) \/ Run(c) \/ Start(c) \/ Exec(c) \/ Stop(c) \/ Discard(c)

LifeSpec == LifeInit /\ [][LifeNext]_lifeVars
=============================================================================
