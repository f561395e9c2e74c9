------------------------------ MODULE KruncCli ------------------------------
(***************************************************************************)
(* The krunc command: each invocation is a process of its own that drives  *)
(* /dev/krunc, the cgroup file system, the krunc-bpf helper and the state  *)
(* files under --root.  Processes share all of these and nothing orders    *)
(* them; each call into one of them is a step.  A process may be killed    *)
(* between any two steps (Crash).                                          *)
(*                                                                         *)
(* krunc.ko appears as the interface KruncPort, which Krunc implements.    *)
(* `kill` changes nothing the CLI keeps and is the environment's InitEnds  *)
(* here; `list` only reads.                                                *)
(***************************************************************************)
EXTENDS Naturals

CONSTANTS
    Procs,     \* processes running the krunc command
    Ids,       \* container ids; no two configs name the same cgroupsPath
    Kids,      \* 1..n: kernel container ids; a bound on creates
    Requests,  \* what the processes are asked: records of Request
    Faults,    \* the calls that may fail
    Serial,    \* TRUE: the engine issues one command at a time for an id
    Crashes    \* TRUE: processes may be killed

\* A command line and what its bundle's config.json says: whether it has id
\* maps and resource limits, and its org.krunc.bpf-lsm annotation.
Request == [cmd : {"create", "run", "start", "state", "delete"},
            maps : BOOLEAN, limits : BOOLEAN,
            mode : {"none", "block", "kill", "bad"}]

ASSUME CliAssumption ==
    /\ Kids \subseteq Nat \ {0}
    /\ Requests \subseteq Request
    /\ Serial \in BOOLEAN
    /\ Crashes \in BOOLEAN

VARIABLES
    file,      \* file[id]: <root>/<id>/state.json, or NoState
    dom,       \* dom[k]: kernel container k
    alive,     \* kernel containers whose init has not ended
    member,    \* member[k]: the cgroup the init of k is in, or Unplaced
    owner,     \* owner[k]: the id k was created for
    asked,     \* asked[k]: the bpf-lsm annotation k was created with
    cgdir,     \* cgdir[id]: the inode generation of id's cgroup directory, or 0
    gens,      \* gens[id]: generations given out; inodes are not reused
    guarded,   \* the keys of the pinned BPF map: cgroups, as <<id, generation>>
    mapPinned, \* the map is pinned in bpffs
    attached,  \* every LSM program is attached
    pc,        \* pc[p]: the next call of process p
    req,       \* req[p]: its request
    cid,       \* cid[p]: the container id it is about
    loc,       \* loc[p]: its State value
    dirty,     \* dirty[id]: what interrupted commands left behind (history)
    skipped,   \* kernel containers a delete passed over (history)
    leaked     \* keys that a delete could not take off the map (history)

cvars == <<file, dom, alive, member, owner, asked, cgdir, gens, guarded, mapPinned,
           attached, pc, req, cid, loc, dirty, skipped, leaked>>
kernelVars == <<dom, alive, member, owner, asked>>

Port == INSTANCE KruncPort

hostVars == <<cgdir, gens, guarded, mapPinned, attached>>
history == <<dirty, skipped, leaked>>

NoState == [kid |-> 0, status |-> "none", cgroup |-> FALSE, guard |-> FALSE]
Unplaced == <<"root", 0>>
Idle == [cmd |-> "none", maps |-> FALSE, limits |-> FALSE, mode |-> "none"]

\* A file that save_state has truncated and not written: it exists, and
\* load_state refuses it.
Torn == [NoState EXCEPT !.status = "torn"]

Busy(id) == \E p \in Procs : pc[p] # "idle" /\ cid[p] = id
Cgroup(id) == <<id, cgdir[id]>>

\* A call may fail if it is one of Faults.
Results(call) == IF call \in Faults THEN {TRUE, FALSE} ELSE {TRUE}

\* Go on to the call next with the State st; "idle" is the process's exit, by
\* die() or at the command's end.
GotoWith(p, next, st) ==
    /\ pc' = [pc EXCEPT ![p] = next]
    /\ req' = [req EXCEPT ![p] = IF next = "idle" THEN Idle ELSE @]
    /\ cid' = [cid EXCEPT ![p] = IF next = "idle" THEN "none" ELSE @]
    /\ loc' = [loc EXCEPT ![p] = IF next = "idle" THEN NoState ELSE st]

Goto(p, next) == GotoWith(p, next, loc[p])

-----------------------------------------------------------------------------
(* Starting a command.                                                     *)

\* create and run die if the state file exists, the others if it does not or
\* if load_state cannot read it; all but delete die here too, with nothing
\* changed, if the device cannot be opened.
Begin(p) ==
    /\ pc[p] = "idle"
    /\ \E r \in Requests, id \in Ids :
        /\ Serial => ~Busy(id)
        /\ IF r.cmd \in {"create", "run"} THEN file[id] = NoState
           ELSE file[id] \notin {NoState, Torn}
        /\ req' = [req EXCEPT ![p] = r]
        /\ cid' = [cid EXCEPT ![p] = id]
        /\ loc' = [loc EXCEPT ![p] = file[id]]
        /\ pc' = [pc EXCEPT ![p] = IF r.cmd = "run" THEN "create" ELSE r.cmd]
    /\ UNCHANGED file /\ UNCHANGED history
    /\ UNCHANGED kernelVars
    /\ UNCHANGED hostVars

-----------------------------------------------------------------------------
(* create_from_bundle, for create and run.                                 *)

\* ioctl CREATE: a paused kernel container in the root cgroup.
DevCreate(p) ==
    /\ pc[p] = "create"
    /\ \E k \in Kids :
        /\ \A j \in Kids : dom[j] = "absent" => k <= j
        /\ Port!Create(k)
        /\ owner' = [owner EXCEPT ![k] = cid[p]]
        /\ asked' = [asked EXCEPT ![k] = req[p].mode]
        /\ GotoWith(p, "maps", [NoState EXCEPT !.kid = k, !.status = "created"])
    /\ UNCHANGED <<file, member>> /\ UNCHANGED history
    /\ UNCHANGED hostVars

\* Mutant: failing id maps end the command without the teardown.
IdMapsNoTeardown(p) ==
    /\ pc[p] = "maps"
    /\ \E ok \in Results("maps") : Goto(p, IF req[p].maps => ok THEN "cgroup" ELSE "idle")
    /\ UNCHANGED file /\ UNCHANGED history
    /\ UNCHANGED kernelVars
    /\ UNCHANGED hostVars

\* write_id_maps; a failure tears the container down.
IdMaps(p) ==
    /\ pc[p] = "maps"
    /\ \E ok \in Results("maps") : Goto(p, IF req[p].maps => ok THEN "cgroup" ELSE "undo")
    /\ UNCHANGED file /\ UNCHANGED history
    /\ UNCHANGED kernelVars
    /\ UNCHANGED hostVars

\* dev.delete(kid), any error ignored.
IoctlDelete(k) == IF Port!Exists(k) THEN Port!Delete(k) ELSE UNCHANGED <<dom, alive>>

\* ... and die, on the error paths.
Undo(p) ==
    /\ pc[p] = "undo"
    /\ IoctlDelete(loc[p].kid)
    /\ Goto(p, "idle")
    /\ UNCHANGED <<file, member, owner, asked>> /\ UNCHANGED history
    /\ UNCHANGED hostVars

\* Cgroup::create, when there are limits: the directory is made, or found;
MakeCgroup(p) ==
    /\ pc[p] = "cgroup"
    /\ \E ok \in Results("mkdir") :
        IF req[p].limits /\ ok
        THEN LET gen == IF cgdir[cid[p]] = 0 THEN gens[cid[p]] + 1 ELSE cgdir[cid[p]]
             IN /\ cgdir' = [cgdir EXCEPT ![cid[p]] = gen]
                /\ gens' = [gens EXCEPT ![cid[p]] = IF gen > @ THEN gen ELSE @]
                /\ Goto(p, "limits")
        ELSE Goto(p, "mode") /\ UNCHANGED <<cgdir, gens>>
    /\ UNCHANGED <<file, guarded, mapPinned, attached>> /\ UNCHANGED history
    /\ UNCHANGED kernelVars

\* ... the limits are written; one that cannot be leaves the directory, but no
\* cgroup for the rest of the command;
SetLimits(p) ==
    /\ pc[p] = "limits"
    /\ \E ok \in Results("limits") :
        GotoWith(p, IF ok THEN "place" ELSE "mode", [loc[p] EXCEPT !.cgroup = ok])
    /\ UNCHANGED file /\ UNCHANGED history
    /\ UNCHANGED kernelVars
    /\ UNCHANGED hostVars

\* ... and place: a failure is only a warning.
Place(p) ==
    /\ pc[p] = "place"
    /\ \E ok \in Results("place") :
        member' = IF ok /\ cgdir[cid[p]] # 0
                  THEN [member EXCEPT ![loc[p].kid] = Cgroup(cid[p])] ELSE member
    /\ Goto(p, "mode")
    /\ UNCHANGED <<file, dom, alive, owner, asked>> /\ UNCHANGED history
    /\ UNCHANGED hostVars

\* bpf_lsm_mode: an unknown mode dies without teardown, a mode without a cgroup
\* with it.
GuardMode(p) ==
    /\ pc[p] = "mode"
    /\ LET mode == req[p].mode
       IN Goto(p, IF mode = "bad" THEN "idle"
                  ELSE IF mode = "none" THEN "save"
                  ELSE IF loc[p].cgroup THEN "init" ELSE "undo")
    /\ UNCHANGED file /\ UNCHANGED history
    /\ UNCHANGED kernelVars
    /\ UNCHANGED hostVars

-----------------------------------------------------------------------------
(* krunc-bpf, run by bpflsm::arm and disarm as a child process.            *)

\* cmd_init: nothing to do if the map is pinned; else load the object.
BpfInit(p) ==
    /\ pc[p] = "init"
    /\ Goto(p, IF mapPinned THEN "guard" ELSE "pin")
    /\ UNCHANGED file /\ UNCHANGED history
    /\ UNCHANGED kernelVars
    /\ UNCHANGED hostVars

\* ... pin its map, which fails if another process has done so by now;
BpfPin(p) ==
    /\ pc[p] = "pin"
    /\ mapPinned' = TRUE
    /\ Goto(p, IF mapPinned THEN "undo" ELSE "attach")
    /\ UNCHANGED <<file, cgdir, gens, guarded, attached>> /\ UNCHANGED history
    /\ UNCHANGED kernelVars

\* ... and attach and pin the programs one by one.
BpfAttach(p) ==
    /\ pc[p] = "attach"
    /\ \E ok \in Results("attach") :
        /\ attached' = (attached \/ ok)
        /\ Goto(p, IF ok THEN "guard" ELSE "undo")
    /\ UNCHANGED <<file, cgdir, gens, guarded, mapPinned>> /\ UNCHANGED history
    /\ UNCHANGED kernelVars

\* Mutant: a container that cannot be guarded is created all the same.
BpfGuardOptional(p) ==
    /\ pc[p] = "guard"
    /\ \E ok \in Results("guard") :
        /\ guarded' = IF ok THEN guarded \cup {Cgroup(cid[p])} ELSE guarded
        /\ leaked' = IF ok THEN leaked \ {Cgroup(cid[p])} ELSE leaked
        /\ GotoWith(p, "save", [loc[p] EXCEPT !.guard = ok])
    /\ UNCHANGED <<file, dirty, skipped, cgdir, gens, mapPinned, attached>>
    /\ UNCHANGED kernelVars

\* cmd_guard: add the cgroup's inode to the map; it fails on a full map, or if
\* the directory is gone.  A key left from before is this container's now.
BpfGuard(p) ==
    /\ pc[p] = "guard"
    /\ \E ok \in Results("guard") :
        IF ok /\ cgdir[cid[p]] # 0
        THEN /\ guarded' = guarded \cup {Cgroup(cid[p])}
             /\ leaked' = leaked \ {Cgroup(cid[p])}
             /\ GotoWith(p, "save", [loc[p] EXCEPT !.guard = TRUE])
        ELSE /\ UNCHANGED <<guarded, leaked>>
             /\ Goto(p, "undo")
    /\ UNCHANGED <<file, dirty, skipped, cgdir, gens, mapPinned, attached>>
    /\ UNCHANGED kernelVars

-----------------------------------------------------------------------------
(* State files, start, state, and the rest of run.                         *)

\* save_state: make the directory and open the file, which truncates it;
OpenState(p) ==
    /\ pc[p] = "save"
    /\ file' = [file EXCEPT ![cid[p]] = Torn]
    /\ Goto(p, "write")
    /\ UNCHANGED history
    /\ UNCHANGED kernelVars
    /\ UNCHANGED hostVars

\* ... and write it.  create ends here; run goes on to start and then to wait.
SaveState(p) ==
    /\ pc[p] = "write"
    /\ file' = [file EXCEPT ![cid[p]] = loc[p]]
    /\ Goto(p, IF req[p].cmd # "run" THEN "idle"
               ELSE IF loc[p].status = "created" THEN "start" ELSE "wait")
    /\ UNCHANGED history
    /\ UNCHANGED kernelVars
    /\ UNCHANGED hostVars

\* ioctl START; ENOENT is fatal.
IoctlStart(p, st) ==
    /\ pc[p] = "start"
    /\ IF Port!Exists(loc[p].kid)
       THEN Port!Start(loc[p].kid) /\ GotoWith(p, "save", st)
       ELSE UNCHANGED <<dom, alive>> /\ Goto(p, "idle")
    /\ UNCHANGED <<file, member, owner, asked>> /\ UNCHANGED history
    /\ UNCHANGED hostVars

\* Mutant: the status to be saved is not updated.
DevStartStale(p) == IoctlStart(p, loc[p])

\* do_start, and the start of run_lifecycle.
DevStart(p) == IoctlStart(p, [loc[p] EXCEPT !.status = "running"])

\* ioctl STATE; on an error the old state is printed and not saved.
DevState(p) ==
    /\ pc[p] = "state"
    /\ GotoWith(p, IF Port!Exists(loc[p].kid) THEN "save" ELSE "idle",
                   [loc[p] EXCEPT !.status = Port!Answer(loc[p].kid)])
    /\ UNCHANGED file /\ UNCHANGED history
    /\ UNCHANGED kernelVars
    /\ UNCHANGED hostVars

\* wait_for_exit, then the deletion, unless --keep.
WaitForExit(p) ==
    /\ pc[p] = "wait"
    /\ loc[p].kid \notin alive
    /\ \E keep \in BOOLEAN : Goto(p, IF keep THEN "idle" ELSE "delete")
    /\ UNCHANGED file /\ UNCHANGED history
    /\ UNCHANGED kernelVars
    /\ UNCHANGED hostVars

-----------------------------------------------------------------------------
(* do_delete, and the same at the end of run.                              *)

\* Device::open and ioctl DELETE, the errors of both ignored.  run_lifecycle
\* has the device open.
OpenAndDelete(p) ==
    \E opened \in IF req[p].cmd = "delete" THEN Results("open") ELSE {TRUE} :
        IF opened THEN IoctlDelete(loc[p].kid) /\ UNCHANGED skipped
        ELSE skipped' = skipped \cup {loc[p].kid} /\ UNCHANGED <<dom, alive>>

\* Mutant: delete, like run, never un-guards.
DevDeleteKeepsGuard(p) ==
    /\ pc[p] = "delete"
    /\ OpenAndDelete(p)
    /\ Goto(p, "rmdir")
    /\ UNCHANGED <<file, member, owner, asked, dirty, leaked>>
    /\ UNCHANGED hostVars

\* The delete goes on whatever came of it; run goes straight to the cgroup.
DevDelete(p) ==
    /\ pc[p] = "delete"
    /\ OpenAndDelete(p)
    /\ Goto(p, IF req[p].cmd = "delete" /\ loc[p].guard /\ loc[p].cgroup
               THEN "disarm" ELSE "rmdir")
    /\ UNCHANGED <<file, member, owner, asked, dirty, leaked>>
    /\ UNCHANGED hostVars

\* cmd_unguard resolves the cgroup by its directory; a failure is ignored, and
\* leaves the key in the map.
Disarm(p) ==
    /\ pc[p] = "disarm"
    /\ \E ok \in Results("unguard") :
        /\ guarded' = IF ok THEN guarded \ {Cgroup(cid[p])} ELSE guarded
        /\ leaked' = IF ok THEN leaked \ {Cgroup(cid[p])}
                     ELSE leaked \cup (guarded \cap {Cgroup(cid[p])})
    /\ Goto(p, "rmdir")
    /\ UNCHANGED <<file, dirty, skipped, cgdir, gens, mapPinned, attached>>
    /\ UNCHANGED kernelVars

\* cgroup::remove: rmdir, which fails while a live task is in the cgroup, and
\* may for other reasons (the container made cgroups below it).
RemoveCgroup(p) ==
    /\ pc[p] = "rmdir"
    /\ \E ok \in Results("rmdir") :
        cgdir' = IF ok /\ loc[p].cgroup /\ \A k \in alive : member[k] # Cgroup(cid[p])
                 THEN [cgdir EXCEPT ![cid[p]] = 0] ELSE cgdir
    /\ Goto(p, "rmstate")
    /\ UNCHANGED <<file, gens, guarded, mapPinned, attached>> /\ UNCHANGED history
    /\ UNCHANGED kernelVars

\* remove_dir_all(state_dir), any error ignored.  With the file goes what an
\* interrupted command left, if there was a file to find it by; a file that
\* stays is that of an interrupted delete.
RemoveState(p) ==
    /\ pc[p] = "rmstate"
    /\ \E ok \in Results("rmstate") :
        /\ file' = IF ok THEN [file EXCEPT ![cid[p]] = NoState] ELSE file
        /\ dirty' = [dirty EXCEPT ![cid[p]] =
                        IF @ = "lost" THEN "lost" ELSE IF ok THEN "no" ELSE "half"]
    /\ Goto(p, "idle")
    /\ UNCHANGED <<skipped, leaked>>
    /\ UNCHANGED kernelVars
    /\ UNCHANGED hostVars

-----------------------------------------------------------------------------
(* The environment.                                                        *)

\* The init of a started or deleted container ends.
InitEnds(k) ==
    /\ Port!InitEnds(k)
    /\ UNCHANGED <<file, member, owner, asked, pc, req, cid, loc>> /\ UNCHANGED history
    /\ UNCHANGED hostVars

\* The process is killed, or dies of a save_state that fails (a full disk).
\* Before its first save a create leaves a container no state file names, and a
\* save cut short one that no command can load; otherwise a file is left to
\* delete it by; and between the parts of a command nothing is amiss.
Crash(p) ==
    /\ Crashes
    /\ pc[p] # "idle"
    /\ dirty' = [dirty EXCEPT ![cid[p]] =
                    IF pc[p] \in {"create", "start", "state", "wait", "delete"} THEN @
                    ELSE IF @ = "lost" \/ file[cid[p]] \in {NoState, Torn} THEN "lost"
                    ELSE "half"]
    /\ Goto(p, "idle")
    /\ UNCHANGED <<file, skipped, leaked>>
    /\ UNCHANGED kernelVars
    /\ UNCHANGED hostVars

ProcStep(p) ==
    \/ Begin(p)
    \/ DevCreate(p) \/ IdMaps(p) \/ Undo(p)
    \/ MakeCgroup(p) \/ SetLimits(p) \/ Place(p) \/ GuardMode(p)
    \/ BpfInit(p) \/ BpfPin(p) \/ BpfAttach(p) \/ BpfGuard(p)
    \/ OpenState(p) \/ SaveState(p) \/ DevStart(p) \/ DevState(p) \/ WaitForExit(p)
    \/ DevDelete(p) \/ Disarm(p) \/ RemoveCgroup(p) \/ RemoveState(p)
    \/ Crash(p)

CliInit ==
    /\ file = [id \in Ids |-> NoState]
    /\ Port!PortInit
    /\ member = [k \in Kids |-> Unplaced]
    /\ owner = [k \in Kids |-> "none"]
    /\ asked = [k \in Kids |-> "none"]
    /\ cgdir = [id \in Ids |-> 0]
    /\ gens = [id \in Ids |-> 0]
    /\ guarded = {}
    /\ mapPinned = FALSE
    /\ attached = FALSE
    /\ pc = [p \in Procs |-> "idle"]
    /\ req = [p \in Procs |-> Idle]
    /\ cid = [p \in Procs |-> "none"]
    /\ loc = [p \in Procs |-> NoState]
    /\ dirty = [id \in Ids |-> "no"]
    /\ skipped = {} /\ leaked = {}

CliNext == (\E p \in Procs : ProcStep(p)) \/ (\E k \in Kids : InitEnds(k))

CliSpec == CliInit /\ [][CliNext]_cvars

-----------------------------------------------------------------------------
(* Properties.                                                             *)

\* No kernel container is left without a way to delete it: it is named by the
\* state file of its id, or a command is still at work on it, through every
\* error path of create, and again once a `delete` has followed an interrupted
\* command.  The exceptions are a create killed before it saved, a save cut
\* short (the file is rewritten in place), an unknown annotation, and a delete
\* that could not open the device and removed the state file all the same.
NoOrphan ==
    \A k \in Kids \ skipped :
        Port!Exists(k) /\ asked[k] # "bad" /\ dirty[owner[k]] # "lost" =>
            \/ file[owner[k]].kid = k
            \/ \E p \in Procs : pc[p] # "idle" /\ loc[p].kid = k

\* Between commands the state file says what krunc.ko says: the container
\* exists, and is "created" in one exactly if it is in the other, whatever a
\* delete of the id before it could not do.
FileMatchesKernel ==
    \A id \in Ids :
        file[id] # NoState /\ dirty[id] = "no" /\ ~Busy(id) =>
            dom[file[id].kid] = IF file[id].status = "created" THEN "created" ELSE "running"

\* A container whose bundle asks for the guard is in a guarded cgroup from
\* before its start until its deletion, unless it could not be placed in one,
\* even when an earlier container of its id was passed over by its delete and
\* still runs in the same directory.  Such a container itself is disarmed.
GuardArmed ==
    \A k \in Kids \ skipped :
        dom[k] = "running" /\ asked[k] \in {"block", "kill"} /\ member[k] # Unplaced
            => member[k] \in guarded

\* A key of the guarded map is of a container that still is one: the map, of a
\* fixed size, is used up only by the keys whose removal failed.
GuardsReturned ==
    \A g \in guarded \ leaked :
        \/ Busy(g[1])
        \/ dirty[g[1]] # "no"
        \/ file[g[1]].guard /\ g = Cgroup(g[1])

\* The guard applies only to containers that asked for it: a started container
\* is in a guarded cgroup only if its bundle has the annotation, though a cgroup
\* directory that could not be removed is found again by the next create.  The
\* exceptions are a directory whose key could not be removed either, and a
\* container that its delete passed over, in a directory it shares with the next.
GuardScoped ==
    \A k \in Kids \ skipped :
        dom[k] = "running" /\ dirty[owner[k]] # "lost" /\ member[k] \in guarded \ leaked
            => asked[k] \in {"block", "kill"}

\* The policy is in force when the program of a guarded container runs: the
\* hooks are attached as well.
GuardEnforced ==
    \A k \in Kids :
        dom[k] = "running" /\ asked[k] \in {"block", "kill"}
            => member[k] \in guarded /\ attached
=============================================================================
