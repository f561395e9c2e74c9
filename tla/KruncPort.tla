----------------------------- MODULE KruncPort -----------------------------
(***************************************************************************)
(* /dev/krunc as its clients see it: what each ioctl does to a kernel      *)
(* container and what it answers, and nothing of how.  The CLI is modelled *)
(* against this interface (KruncCli, KruncRun take its actions), and       *)
(* krunc.ko, with its handlers in several steps, its gate and its exit     *)
(* capture, is shown to implement it (Krunc's RefinesPort).                *)
(***************************************************************************)
CONSTANT Kids   \* kernel container ids

VARIABLES
    dom,        \* dom[k]: "absent", "created", "running" or "deleted"
    alive       \* kernel containers whose init has not ended

portVars == <<dom, alive>>

\* The containers an ioctl finds; it answers ENOENT for the others.
Exists(k) == dom[k] \in {"created", "running"}

PortInit ==
    /\ dom = [k \in Kids |-> "absent"]
    /\ alive = {}

\* ioctl CREATE: the init is there, and waits.
Create(k) ==
    /\ dom[k] = "absent"
    /\ dom' = [dom EXCEPT ![k] = "created"]
    /\ alive' = alive \cup {k}

\* The text `run`: no gate, so the init may even have ended already.
RunOneShot(k) ==
    /\ dom[k] = "absent"
    /\ dom' = [dom EXCEPT ![k] = "running"]
    /\ alive' \in {alive, alive \cup {k}}

\* ioctl START, of a container started before too.
Start(k) ==
    /\ Exists(k)
    /\ dom' = [dom EXCEPT ![k] = "running"]
    /\ UNCHANGED alive

\* The lifecycle state ioctl STATE answers.
Answer(k) ==
    IF dom[k] = "created" THEN "created" ELSE IF k \in alive THEN "running" ELSE "stopped"

\* ioctl DELETE: the container is gone at once, its init a little later.
Delete(k) ==
    /\ Exists(k)
    /\ dom' = [dom EXCEPT ![k] = "deleted"]
    /\ UNCHANGED alive

\* A created container's init does not end; a started one's may, by itself or
\* by ioctl KILL, and a deleted one's does.
InitEnds(k) ==
    /\ k \in alive
    /\ dom[k] \in {"running", "deleted"}
    /\ alive' = alive \ {k}
    /\ UNCHANGED dom

PortNext ==
    \E k \in Kids : Create(k) \/ RunOneShot(k) \/ Start(k) \/ Delete(k) \/ InitEnds(k)

PortSpec == PortInit /\ [][PortNext]_portVars
=============================================================================
