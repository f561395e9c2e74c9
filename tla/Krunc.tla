------------------------------- MODULE Krunc -------------------------------
(***************************************************************************)
(* krunc.ko: the container registry, the two-phase create/start gate and   *)
(* the two control planes of /dev/krunc (ioctl and text), composed with    *)
(* the exit-capture table of krunc_helper.ko (ExitWatch) and with the      *)
(* tasks of the host kernel.                                               *)
(*                                                                         *)
(* Threads of user space (Callers) run the handlers.  A handler is one     *)
(* step where REGISTRY's mutex covers all it does, and several where other *)
(* threads or the init itself can run in between: spawn clones, then       *)
(* watches, then registers; kill_container reads the pid, unlocks, then    *)
(* signals; the text `kill` signals, then prunes the registry; and         *)
(* delete_container holds the mutex, but neither the tasks nor the watch   *)
(* table, between its signal and its unwatch.                              *)
(*                                                                         *)
(* A handler that returns an error without having changed anything         *)
(* (ENOENT, ESRCH, EINVAL, EFAULT, a failed clone) is a stuttering step    *)
(* and has no action.                                                      *)
(***************************************************************************)
EXTENDS ExitWatch

CONSTANTS
    Callers,     \* threads issuing commands on /dev/krunc
    NoCaller,    \* the holder of a free mutex
    Tasks,       \* host tasks, numbered as they are created; a bound on clones
    NoTask,
    NoWord,      \* Option::None of Container.exit_status
    UserWords,   \* status words a program can end with by itself
    SetupError,  \* the word of krunc_exit(-errno) when the setup fails
    Ops,         \* the commands callers issue
    Recycle,     \* TRUE: the pid of a reaped task may be given out again
    AllocFails   \* TRUE: growing the registry may fail with ENOMEM

SIGKILL == 9

ASSUME KruncAssumption ==
    /\ NoCaller \notin Callers
    /\ Tasks \subseteq Nat
    /\ Pids \subseteq Nat
    /\ NoTask \notin Tasks
    /\ NoWord \notin Words
    /\ UserWords \subseteq Words
    /\ SIGKILL \in Words
    /\ SetupError \in Words
    /\ Recycle \in BOOLEAN
    /\ AllocFails \in BOOLEAN

VARIABLES
    phase,      \* phase[t]: how far task t is
    kind,       \* kind[t]: cloned paused, cloned one-shot, or a host task
    pidOf,      \* pidOf[t]: its host-visible pid
    action,     \* action[t]: ContainerControl.action shared with t's init
    killed,     \* tasks with SIGKILL pending
    ran,        \* tasks that have executed a userspace instruction
    exitWord,   \* exitWord[t]: the word t passed to do_exit
    registry,   \* REGISTRY, as the set of its entries
    nextId,     \* NEXT_ID
    lock,       \* the thread in delete_container, holding REGISTRY's mutex
    pc,         \* pc[c]: the rest of the handler caller c is in
    mine,       \* mine[c]: the task caller c has cloned (spawn's ctrl)
    ident,      \* ident[c]: spawn's and delete_container's id
    target      \* target[c]: the pid in a local variable of the handler

taskVars == <<phase, kind, pidOf, action, killed, ran, exitWord>>
callVars == <<pc, mine, ident, target>>
vars == <<slots, numWatched, phase, kind, pidOf, action, killed, ran, exitWord,
          registry, nextId, lock, pc, mine, ident, target>>

Phases == {"unborn", "gate", "setup", "user", "exiting", "zombie", "reaped"}
Steps == {"idle", "watch", "push", "signal", "retain", "unwatch"}

Entry == [id : Nat \ {0}, pid : Pids, task : Tasks, started : BOOLEAN,
          exit : Words \cup {NoWord}]

\* struct Container.ctrl is Some exactly for a paused clone.
Paused(t) == kind[t] = "paused"

-----------------------------------------------------------------------------
(* Host tasks (external), as krunc_helper.c uses them.                     *)

\* A pid is taken from clone to reap.
Present(t) == phase[t] \notin {"unborn", "reaped"}
Holders(p) == {t \in Tasks : Present(t) /\ pidOf[t] = p}

\* The next task to be created.
IsNextTask(t) ==
    /\ phase[t] = "unborn"
    /\ \A u \in Tasks : phase[u] = "unborn" => t <= u

\* The kernel gives out pids in increasing order until the pid space wraps
\* (Recycle), and then any pid whose task has been reaped.
Unused == {p \in Pids : \A t \in Tasks : pidOf[t] # p}
NextPids ==
    IF Recycle THEN {p \in Pids : Holders(p) = {}}
    ELSE {p \in Unused : \A q \in Unused : p <= q}

\* krunc_kill(p, SIGKILL): pending for the live task numbered p, without
\* effect on one past do_exit (a zombie still has its pid, so it is found).
KillSet(p) == killed \cup {t \in Holders(p) : phase[t] \in {"gate", "setup", "user"}}

\* Mutant: a liveness probe by kill(p, 0), which a zombie answers.
ProbeBySignal(p) == IF Holders(p) = {} THEN "gone" ELSE "alive"

\* krunc_task_exit_status: 1, 0 and -1.
Probe(p) ==
    IF Holders(p) = {} THEN "gone"
    ELSE IF \E t \in Holders(p) : phase[t] # "zombie" THEN "alive"
    ELSE "zombie"

\* is_alive: kill(p, 0) finds a task, dead or alive.
IsAlive(p) == Holders(p) # {}

\* do_exit(w): the kprobe runs on entry, before the task shows as a zombie.
DoExit(t, w) ==
    /\ phase' = [phase EXCEPT ![t] = "exiting"]
    /\ exitWord' = [exitWord EXCEPT ![t] = w]
    /\ ExitHook(pidOf[t], w)
    /\ UNCHANGED <<kind, pidOf, action, killed, ran, registry, nextId, lock>>
    /\ UNCHANGED callVars

Move(t, from, to) ==
    /\ phase[t] = from
    /\ phase' = [phase EXCEPT ![t] = to]
    /\ UNCHANGED <<kind, pidOf, action, killed, exitWord, registry, nextId, lock>>
    /\ UNCHANGED watchVars
    /\ UNCHANGED callVars

-----------------------------------------------------------------------------
(* container_entry, the task's own steps.                                  *)

\* Mutant: the gate loop is left on any action but DOOM.
PassGateUnlessDoomed(t) ==
    /\ action[t] # "DOOM"
    /\ Move(t, "gate", "setup")
    /\ UNCHANGED ran

\* Mutant: a pending signal keeps the released init asleep.
PassGateUnsignalled(t) ==
    /\ action[t] = "START"
    /\ t \notin killed
    /\ Move(t, "gate", "setup")
    /\ UNCHANGED ran

\* The gate loop sees ACT_START.  While it sees ACT_WAIT it sleeps in msleep,
\* uninterruptible, and a pending SIGKILL is not looked at.
PassGate(t) ==
    /\ action[t] = "START"
    /\ Move(t, "gate", "setup")
    /\ UNCHANGED ran

\* The gate loop sees ACT_DOOM: krunc_exit(0).
DoomedExit(t) ==
    /\ phase[t] = "gate"
    /\ action[t] = "DOOM"
    /\ DoExit(t, 0)

\* Setup and krunc_execve succeed; the task enters its program.
Exec(t) ==
    /\ Move(t, "setup", "user")
    /\ ran' = ran \cup {t}

\* A fatal setup error, or execve failing: krunc_exit(rc).
SetupFails(t) ==
    /\ phase[t] = "setup"
    /\ DoExit(t, SetupError)

\* The program ends by itself, or by a signal it handles.
ProgramExits(t) ==
    /\ phase[t] = "user"
    /\ \E w \in UserWords : DoExit(t, w)

\* SIGKILL is delivered on the way back to user mode.
Dies(t) ==
    /\ phase[t] = "user"
    /\ t \in killed
    /\ DoExit(t, SIGKILL)

\* exit_notify() makes it a zombie; wait() by its (new) parent reaps it.
BecomesZombie(t) == Move(t, "exiting", "zombie") /\ UNCHANGED ran
IsReaped(t) == Move(t, "zombie", "reaped") /\ UNCHANGED ran

\* A host process krunc did not create takes a recycled pid.
HostFork(t) ==
    /\ Recycle
    /\ IsNextTask(t)
    /\ \E p \in NextPids :
        /\ \E u \in Tasks : phase[u] = "reaped" /\ pidOf[u] = p
        /\ pidOf' = [pidOf EXCEPT ![t] = p]
    /\ phase' = [phase EXCEPT ![t] = "user"]
    /\ kind' = [kind EXCEPT ![t] = "host"]
    /\ ran' = ran \cup {t}
    /\ UNCHANGED <<action, killed, exitWord, registry, nextId, lock>>
    /\ UNCHANGED watchVars
    /\ UNCHANGED callVars

TaskStep(t) ==
    \/ PassGate(t)
    \/ DoomedExit(t)
    \/ Exec(t)
    \/ SetupFails(t)
    \/ ProgramExits(t)
    \/ Dies(t)
    \/ BecomesZombie(t)
    \/ IsReaped(t)
    \/ HostFork(t)

-----------------------------------------------------------------------------
(* The handlers.                                                           *)

Return(c) ==
    /\ pc' = [pc EXCEPT ![c] = "idle"]
    /\ mine' = [mine EXCEPT ![c] = NoTask]
    /\ ident' = [ident EXCEPT ![c] = 0]
    /\ target' = [target EXCEPT ![c] = NoPid]

\* spawn, first part: krunc_spawn clones the init.  ioctl CREATE clones it
\* paused, with a control block in ACT_WAIT; the text `run` does not.
SpawnClone(c, k) ==
    /\ pc[c] = "idle"
    /\ k \in Ops
    /\ \E t \in Tasks, p \in NextPids :
        /\ IsNextTask(t)
        /\ phase' = [phase EXCEPT ![t] = IF k = "create" THEN "gate" ELSE "setup"]
        /\ kind' = [kind EXCEPT ![t] = IF k = "create" THEN "paused" ELSE "oneshot"]
        /\ pidOf' = [pidOf EXCEPT ![t] = p]
        /\ mine' = [mine EXCEPT ![c] = t]
        /\ target' = [target EXCEPT ![c] = p]
    /\ pc' = [pc EXCEPT ![c] = "watch"]
    /\ UNCHANGED <<action, killed, ran, exitWord, registry, nextId, lock, ident>>
    /\ UNCHANGED watchVars

\* Mutant: NEXT_ID is read before the watch and not advanced.
SpawnWatchStaleId(c) ==
    /\ pc[c] = "watch"
    /\ WatchPid(target[c])
    /\ ident' = [ident EXCEPT ![c] = nextId]
    /\ pc' = [pc EXCEPT ![c] = "push"]
    /\ UNCHANGED <<registry, nextId, lock, mine, target>>
    /\ UNCHANGED taskVars

\* spawn, second part: NEXT_ID.fetch_add, and krunc_watch_pid, whose result
\* is ignored.
SpawnWatch(c) ==
    /\ pc[c] = "watch"
    /\ WatchPid(target[c])
    /\ ident' = [ident EXCEPT ![c] = nextId]
    /\ nextId' = nextId + 1
    /\ pc' = [pc EXCEPT ![c] = "push"]
    /\ UNCHANGED <<registry, lock, mine, target>>
    /\ UNCHANGED taskVars

\* Mutant: spawn registers every container as started.
NewEntryStarted(c) ==
    [id |-> ident[c], pid |-> target[c], task |-> mine[c], started |-> TRUE,
     exit |-> NoWord]

NewEntry(c) ==
    [id |-> ident[c], pid |-> target[c], task |-> mine[c],
     started |-> ~Paused(mine[c]), exit |-> NoWord]

\* spawn, last part: REGISTRY.lock().push, or its ENOMEM.
SpawnPush(c) ==
    /\ pc[c] = "push"
    /\ lock = NoCaller
    /\ registry' = registry \cup {NewEntry(c)}
    /\ Return(c)
    /\ UNCHANGED <<nextId, lock>>
    /\ UNCHANGED taskVars
    /\ UNCHANGED watchVars

SpawnPushFails(c) ==
    /\ AllocFails
    /\ pc[c] = "push"
    /\ lock = NoCaller
    /\ Return(c)
    /\ UNCHANGED <<registry, nextId, lock>>
    /\ UNCHANGED taskVars
    /\ UNCHANGED watchVars

\* start_container: release the gate and mark the entry, under the mutex; no
\* test of whether the container was started before.
StartContainer(e) ==
    /\ "start" \in Ops
    /\ lock = NoCaller
    /\ e \in registry
    /\ action' = IF Paused(e.task) THEN [action EXCEPT ![e.task] = "START"] ELSE action
    /\ registry' = (registry \ {e}) \cup {[e EXCEPT !.started = TRUE]}
    /\ UNCHANGED <<phase, kind, pidOf, killed, ran, exitWord, nextId, lock>>
    /\ UNCHANGED watchVars
    /\ UNCHANGED callVars

\* container_state's (and render_status's) state of an entry.
ReplyState(e) ==
    IF ~e.started THEN "CREATED"
    ELSE IF Probe(e.pid) = "alive" THEN "RUNNING"
    ELSE "STOPPED"

\* Mutant: a word already cached is looked up again, the zombie's alone.
ObservedExitZombieOnly(e) ==
    IF ReplyState(e) # "STOPPED" THEN e.exit
    ELSE IF Probe(e.pid) = "zombie"
         THEN exitWord[CHOOSE t \in Holders(e.pid) : TRUE]
         ELSE NoWord

\* container_state's exit_status after the call: kept once cached, else the
\* word the kprobe captured, else that of a zombie not yet reaped.
ObservedExit(e) ==
    IF ReplyState(e) # "STOPPED" \/ e.exit # NoWord THEN e.exit
    ELSE IF Captured(e.pid) THEN CapturedWord(e.pid)
    ELSE IF Probe(e.pid) = "zombie"
         THEN exitWord[CHOOSE t \in Holders(e.pid) : TRUE]
         ELSE NoWord

\* The word ioctl STATE returns: exit_status.unwrap_or(0).
ReplyStatus(e) == IF ObservedExit(e) = NoWord THEN 0 ELSE ObservedExit(e)

\* container_state: the reply is ReplyState and ReplyStatus; the entry's
\* cached word is what the call changes.
ContainerState(e) ==
    /\ "state" \in Ops
    /\ lock = NoCaller
    /\ e \in registry
    /\ registry' = (registry \ {e}) \cup {[e EXCEPT !.exit = ObservedExit(e)]}
    /\ UNCHANGED <<nextId, lock>>
    /\ UNCHANGED taskVars
    /\ UNCHANGED watchVars
    /\ UNCHANGED callVars

\* ioctl KILL: no signal means SIGKILL.
EffectiveSignal(sig) == IF sig # 0 THEN sig ELSE SIGKILL

\* kill_container up to the unlock: the pid is in a local.  A signal other
\* than SIGKILL only reaches the program, which reacts by ProgramExits.
KillLookup(c, e, sig) ==
    /\ "kill" \in Ops
    /\ pc[c] = "idle"
    /\ lock = NoCaller
    /\ e \in registry
    /\ EffectiveSignal(sig) = SIGKILL
    /\ pc' = [pc EXCEPT ![c] = "signal"]
    /\ target' = [target EXCEPT ![c] = e.pid]
    /\ UNCHANGED <<registry, nextId, lock, mine, ident>>
    /\ UNCHANGED taskVars
    /\ UNCHANGED watchVars

\* kill_container's krunc_kill, on whatever has the pid by now.
KillSignal(c) ==
    /\ pc[c] = "signal"
    /\ killed' = KillSet(target[c])
    /\ Return(c)
    /\ UNCHANGED <<phase, kind, pidOf, action, ran, exitWord, registry, nextId, lock>>
    /\ UNCHANGED watchVars

\* Mutant: every container is torn down through its gate.
DeleteActionAlwaysDoom(e) == [action EXCEPT ![e.task] = "DOOM"]

\* Mutant: a container that was never started is left at its gate.
DeleteActionNone(e) == action

\* What delete_container stores in the control block.
DeleteAction(e) ==
    IF ~e.started /\ Paused(e.task) THEN [action EXCEPT ![e.task] = "DOOM"] ELSE action

\* Mutant: a started container is not signalled.
DeleteKilledNone(e) == killed

\* Whom delete_container sends SIGKILL.
DeleteKilled(e) == IF e.started /\ IsAlive(e.pid) THEN KillSet(e.pid) ELSE killed

\* delete_container: doom a container that was never started, SIGKILL one
\* that was and whose pid exists.  The mutex stays held.
DeleteBegin(c, e) ==
    /\ "delete" \in Ops
    /\ pc[c] = "idle"
    /\ lock = NoCaller
    /\ e \in registry
    /\ lock' = c
    /\ action' = DeleteAction(e)
    /\ killed' = DeleteKilled(e)
    /\ pc' = [pc EXCEPT ![c] = "unwatch"]
    /\ ident' = [ident EXCEPT ![c] = e.id]
    /\ target' = [target EXCEPT ![c] = e.pid]
    /\ UNCHANGED <<phase, kind, pidOf, ran, exitWord, registry, nextId, mine>>
    /\ UNCHANGED watchVars

\* delete_container's end: krunc_unwatch_pid, remove the entry, unlock.
DeleteEnd(c) ==
    /\ pc[c] = "unwatch"
    /\ UnwatchPid(target[c])
    /\ registry' = {e \in registry : e.id # ident[c]}
    /\ lock' = NoCaller
    /\ Return(c)
    /\ UNCHANGED nextId
    /\ UNCHANGED taskVars

\* Text `kill <pid>`: SIGKILL to any pid that exists, krunc's or not.
TextKill(c, p) ==
    /\ "textkill" \in Ops
    /\ pc[c] = "idle"
    /\ Holders(p) # {}
    /\ killed' = KillSet(p)
    /\ pc' = [pc EXCEPT ![c] = "retain"]
    /\ target' = [target EXCEPT ![c] = p]
    /\ UNCHANGED <<phase, kind, pidOf, action, ran, exitWord, registry, nextId, lock,
                   mine, ident>>
    /\ UNCHANGED watchVars

\* Text `kill`, second part: REGISTRY.lock().retain.
TextRetain(c) ==
    /\ pc[c] = "retain"
    /\ lock = NoCaller
    /\ registry' = {e \in registry : e.pid # target[c]}
    /\ Return(c)
    /\ UNCHANGED <<nextId, lock>>
    /\ UNCHANGED taskVars
    /\ UNCHANGED watchVars

CallerStep(c) ==
    \/ \E k \in {"create", "run"} : SpawnClone(c, k)
    \/ SpawnWatch(c)
    \/ SpawnPush(c)
    \/ SpawnPushFails(c)
    \/ \E e \in registry, sig \in {0, SIGKILL} : KillLookup(c, e, sig)
    \/ KillSignal(c)
    \/ \E e \in registry : DeleteBegin(c, e)
    \/ DeleteEnd(c)
    \/ \E p \in Pids : TextKill(c, p)
    \/ TextRetain(c)

Init ==
    /\ WatchInit
    /\ phase = [t \in Tasks |-> "unborn"]
    /\ kind = [t \in Tasks |-> "none"]
    /\ pidOf = [t \in Tasks |-> NoPid]
    /\ action = [t \in Tasks |-> "WAIT"]
    /\ killed = {}
    /\ ran = {}
    /\ exitWord = [t \in Tasks |-> NoWord]
    /\ registry = {}
    /\ nextId = 1
    /\ lock = NoCaller
    /\ pc = [c \in Callers |-> "idle"]
    /\ mine = [c \in Callers |-> NoTask]
    /\ ident = [c \in Callers |-> 0]
    /\ target = [c \in Callers |-> NoPid]

Next ==
    \/ \E t \in Tasks : TaskStep(t)
    \/ \E c \in Callers : CallerStep(c)
    \/ \E e \in registry : StartContainer(e) \/ ContainerState(e)

Spec == Init /\ [][Next]_vars

-----------------------------------------------------------------------------
(* Properties.                                                             *)

Dead(t) == phase[t] \in {"exiting", "zombie", "reaped"}
Registered(t) == \E e \in registry : e.task = t
Spawning(t) == \E c \in Callers : mine[c] = t

TypeOK ==
    /\ WatchTypeOK
    /\ phase \in [Tasks -> Phases]
    /\ kind \in [Tasks -> {"none", "paused", "oneshot", "host"}]
    /\ pidOf \in [Tasks -> Pids \cup {NoPid}]
    /\ action \in [Tasks -> {"WAIT", "START", "DOOM"}]
    /\ killed \subseteq Tasks
    /\ ran \subseteq Tasks
    /\ exitWord \in [Tasks -> Words \cup {NoWord}]
    /\ registry \subseteq Entry
    /\ nextId \in Nat \ {0}
    /\ lock \in Callers \cup {NoCaller}
    /\ pc \in [Callers -> Steps]
    /\ mine \in [Callers -> Tasks \cup {NoTask}]
    /\ ident \in [Callers -> Nat]
    /\ target \in [Callers -> Pids \cup {NoPid}]

\* No init of a created container is past its gate before start_container has
\* released it, and the init of one deleted before its start never executes
\* an instruction of the container's program, whatever kill, delete and text
\* commands race with it.
NoRunBeforeStart ==
    \A t \in Tasks :
        Paused(t) /\ (phase[t] \in {"setup", "user"} \/ t \in ran) => action[t] = "START"

\* Outside delete_container's critical section an entry's `started` says what
\* its control block says: delete decides by `started` whether to doom the
\* gate or to signal, so a disagreement would leave an init at the gate or
\* doom one that runs.
StartedIsReleased ==
    \A e \in registry :
        Paused(e.task) /\ (\A c \in Callers : pc[c] = "unwatch" => ident[c] # e.id)
            => action[e.task] = IF e.started THEN "START" ELSE "WAIT"

\* start and delete decide a gate once: no later command of any thread turns a
\* released container into a doomed one, or revives a doomed one.
GateDecidedOnce ==
    [][\A t \in Tasks : action[t] # "WAIT" => action'[t] = action[t]]_vars

\* An init blocked at its gate can still be released or doomed by someone: it
\* is registered or about to be.  A failing registry allocation and the text
\* `kill`, which prunes entries without touching their gates, are the two
\* exceptions the code has.
NoStrandedInit ==
    "textkill" \notin Ops /\ ~AllocFails =>
        \A t \in Tasks :
            phase[t] = "gate" /\ action[t] = "WAIT" => Registered(t) \/ Spawning(t)

\* Two containers never answer to the same id, and none is the one a
\* thread in spawn is about to hand out.
IdsDistinct ==
    /\ \A e, f \in registry : e.id = f.id => e = f
    /\ \A e \in registry : e.id < nextId
    /\ \A c \in Callers : pc[c] = "push" => /\ ident[c] < nextId
                                            /\ \A e \in registry : e.id # ident[c]

\* While pids are not recycled, what ioctl STATE says of a container is true:
\* STOPPED only of an init past do_exit, RUNNING only of one not yet reaped.
ReportsTruth ==
    ~Recycle =>
        \A e \in registry :
            /\ ReplyState(e) = "STOPPED" => phase[e.task] \in {"zombie", "reaped"}
            /\ ReplyState(e) = "RUNNING" => ~(phase[e.task] \in {"zombie", "reaped"})

\* The exit status of a created container is never lost and never another's:
\* while its pid has a slot and pids are not recycled, a STOPPED reply carries
\* the word its init passed to do_exit, though it was reaped long before.
ExitWordExact ==
    ~Recycle =>
        \A e \in registry :
            Paused(e.task) /\ InUseFor(e.pid) # {} /\ ReplyState(e) = "STOPPED"
                => ReplyStatus(e) = exitWord[e.task]

\* Without a text `kill` every slot in use belongs to a registered container or
\* to one being spawned: delete returns what create took, so only live
\* containers count against KRUNC_MAX_WATCH.
NoSlotLeak ==
    "textkill" \notin Ops /\ ~AllocFails =>
        \A i \in InUse :
            \/ \E e \in registry : e.pid = slots[i].pid
            \/ \E c \in Callers : pc[c] = "push" /\ target[c] = slots[i].pid

-----------------------------------------------------------------------------
(* Liveness.  The scheduler runs every runnable task and every thread in a *)
(* handler, and msleep(10) ends, so each of these steps is weakly fair; a  *)
(* program need not end, and nobody need issue a command.                  *)

Fairness ==
    /\ \A t \in Tasks :
        /\ WF_vars(PassGate(t))
        /\ WF_vars(DoomedExit(t))
        /\ WF_vars(Exec(t) \/ SetupFails(t))
        /\ WF_vars(Dies(t))
        /\ WF_vars(BecomesZombie(t))
    /\ \A c \in Callers :
        /\ WF_vars(SpawnWatch(c))
        /\ WF_vars(SpawnPush(c))
        /\ WF_vars(KillSignal(c))
        /\ WF_vars(DeleteEnd(c))
        /\ WF_vars(TextRetain(c))

FairSpec == Spec /\ Fairness

\* An init krunc cloned and no longer lists is eventually dead: delete, of a
\* created or of a started container, leaves nothing running behind.
TornDownStops ==
    \A t \in Tasks :
        (kind[t] \in {"paused", "oneshot"} /\ ~Registered(t) /\ ~Spawning(t)) ~> Dead(t)

\* A released init that was sent SIGKILL, before or after its release, ends.
KilledStops ==
    \A t \in Tasks : (t \in killed /\ ~(Paused(t) /\ action[t] = "WAIT")) ~> Dead(t)

-----------------------------------------------------------------------------
(* Refinement: the life of the container of task t.                        *)

LifeStatus(t) ==
    IF kind[t] \in {"none", "host"} THEN "absent"
    ELSE IF Dead(t) THEN "stopped"
    ELSE IF phase[t] = "gate" /\ action[t] # "START" THEN "created"
    ELSE "running"

LifeProgram(t) ==
    IF kind[t] \in {"none", "host"} \/ t \notin ran THEN "unloaded"
    ELSE IF Dead(t) THEN "ended" ELSE "running"

Life == INSTANCE OciLifecycle WITH
            Containers <- Tasks,
            status <- [t \in Tasks |-> LifeStatus(t)],
            program <- [t \in Tasks |-> LifeProgram(t)]

\* krunc.ko implements the OCI lifecycle, whatever its callers do.
RefinesLifecycle == Life!LifeSpec

-----------------------------------------------------------------------------
(* Refinement: /dev/krunc as its clients see it.                           *)

EntryOf(t) == CHOOSE e \in registry : e.task = t

\* A container exists from the push to the registry until delete_container has
\* taken the mutex; in between it is what ioctl STATE answers.
PortDom(t) ==
    IF kind[t] \in {"none", "host"} \/ Spawning(t) THEN "absent"
    ELSE IF \/ ~Registered(t)
            \/ \E c \in Callers : pc[c] = "unwatch" /\ ident[c] = EntryOf(t).id THEN "deleted"
    ELSE IF ReplyState(EntryOf(t)) = "CREATED" THEN "created" ELSE "running"

\* While it exists its init is alive if STATE does not answer STOPPED.
PortAlive(t) ==
    CASE PortDom(t) = "absent" -> FALSE
      [] PortDom(t) = "deleted" -> phase[t] \notin {"zombie", "reaped"}
      [] OTHER -> ReplyState(EntryOf(t)) # "STOPPED"

Port == INSTANCE KruncPort WITH
            Kids <- Tasks,
            dom <- [t \in Tasks |-> PortDom(t)],
            alive <- {t \in Tasks : PortAlive(t)}

\* While pids are not recycled and allocations do not fail, krunc.ko implements
\* the interface its clients are modelled against: each ioctl takes effect at
\* one moment, and STATE's answers go from created to running to stopped and
\* never back, whatever runs in between.
RefinesPort == Port!PortSpec
=============================================================================
