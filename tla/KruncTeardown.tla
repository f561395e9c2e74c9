--------------------------- MODULE KruncTeardown ---------------------------
(***************************************************************************)
(* What delete_container gives back, for every value of the constants, as  *)
(* long as neither the text `kill` nor a failing registry allocation drops *)
(* a container without it: no init is left at a gate nobody can open, and  *)
(* no watch slot stays taken.                                              *)
(***************************************************************************)
EXTENDS KruncProofs

Clean == "textkill" \notin Ops /\ ~AllocFails

\* Nobody is in the text `kill` when it is never issued.
NoTextKill == Clean => \A c \in Callers : pc[c] # "retain"

\* The entry that delete_container is about to remove is the one whose slots
\* it frees, and its gate, if it has one, is decided.
DeletingOK ==
    \A c \in Callers, e \in registry :
        pc[c] = "unwatch" /\ ident[c] = e.id =>
            /\ e.pid = target[c]
            /\ Paused(e.task) => action[e.task] # "WAIT"

TearInv ==
    /\ RefInv
    /\ NoTextKill
    /\ DeletingOK
    /\ NoStrandedInit
    /\ NoSlotLeak

-----------------------------------------------------------------------------
\* The slots in use after the kprobe, and their pids, are those before it.
LEMMA ExitHookKeepsPids ==
    ASSUME WatchTypeOK, NEW p, NEW w, ExitHook(p, w)
    PROVE  InUse' = InUse /\ \A i \in InUse : slots'[i].pid = slots[i].pid
<1>1. CASE numWatched # 0 /\ ArmedFor(p) # {}
  <2> DEFINE f == FirstSlot(ArmedFor(p))
  <2>1. f \in ArmedFor(p)
    BY <1>1, FirstSlotIn DEF ArmedFor
  <2>2. slots' = [slots EXCEPT ![f].st = "exited", ![f].code = w]
    BY <1>1 DEF ExitHook
  <2>3. f \in Slots /\ slots[f].st = "armed"
    BY <2>1 DEF ArmedFor
  <2> HIDE DEF f
  <2> QED
    BY <2>2, <2>3 DEF InUse, WatchTypeOK, Slot
<1>2. CASE ~(numWatched # 0 /\ ArmedFor(p) # {})
  BY <1>2 DEF ExitHook, InUse
<1> QED
  BY <1>1, <1>2

\* krunc_watch_pid adds at most one slot, of the pid it was called with.
LEMMA WatchPidAdds ==
    ASSUME WatchTypeOK, NEW p \in Pids, WatchPid(p)
    PROVE  \A i \in InUse' : \/ slots'[i].pid = p
                             \/ i \in InUse /\ slots'[i].pid = slots[i].pid
<1>1. CASE FreeSlots = {}
  BY <1>1 DEF WatchPid, watchVars, InUse
<1>2. CASE FreeSlots # {}
  BY <1>2 DEF WatchPid, WatchTypeOK, InUse
<1> QED
  BY <1>1, <1>2

\* krunc_unwatch_pid leaves the slots of other pids, and none of this one's.
LEMMA UnwatchPidLeaves ==
    ASSUME WatchTypeOK, NEW p, UnwatchPid(p)
    PROVE  \A i \in InUse' : /\ i \in InUse
                             /\ slots'[i].pid = slots[i].pid
                             /\ slots[i].pid # p
  BY DEF UnwatchPid, WatchTypeOK, InUse, InUseFor, FreeSlot

\* The steps of tasks: no gate is closed again, no slot changes its pid.
LEMMA TaskTear ==
    ASSUME TearInv, NEW t \in Tasks, TaskStep(t)
    PROVE  NoTextKill' /\ DeletingOK' /\ NoStrandedInit' /\ NoSlotLeak'
<1> USE DEF TearInv, RefInv, IndInv
<1>1. Frame
  BY TaskStepFrame
<1>2. NoTextKill'
  BY <1>1 DEF Frame, NoTextKill
<1>3. DeletingOK'
  BY <1>1 DEF Frame, DeletingOK, EntriesOK, Paused, TypeOK, Entry
<1>4. \A u \in Tasks : phase'[u] = "gate" => phase[u] = "gate"
  <2>1. CASE HostFork(t)
    BY <2>1 DEF HostFork, TypeOK
  <2>2. CASE ~HostFork(t)
    BY <2>2 DEF TaskStep, PassGate, DoomedExit, Exec, SetupFails, ProgramExits, Dies,
                BecomesZombie, IsReaped, Move, DoExit, TypeOK
  <2> QED
    BY <2>1, <2>2
<1>5. NoStrandedInit'
  BY <1>1, <1>4 DEF Frame, NoStrandedInit, Registered, Spawning
<1>6. InUse' = InUse /\ \A i \in InUse : slots'[i].pid = slots[i].pid
  <2>1. ASSUME NEW w, DoExit(t, w)
        PROVE  InUse' = InUse /\ \A i \in InUse : slots'[i].pid = slots[i].pid
    BY <2>1, ExitHookKeepsPids DEF DoExit, TypeOK
  <2>2. ASSUME UNCHANGED watchVars
        PROVE  InUse' = InUse /\ \A i \in InUse : slots'[i].pid = slots[i].pid
    BY <2>2 DEF watchVars, InUse
  <2> QED
    BY <2>1, <2>2 DEF TaskStep, PassGate, DoomedExit, Exec, SetupFails, ProgramExits,
                      Dies, BecomesZombie, IsReaped, HostFork, Move
<1>7. NoSlotLeak'
  BY <1>1, <1>6 DEF Frame, NoSlotLeak
<1> QED
  BY <1>2, <1>3, <1>5, <1>7

\* spawn: the task is its thread's until it is registered, and so is its slot.
LEMMA SpawnTear ==
    ASSUME TearInv, NEW c \in Callers,
           \/ \E k \in {"create", "run"} : SpawnClone(c, k)
           \/ SpawnWatch(c)
           \/ SpawnPush(c)
           \/ SpawnPushFails(c)
    PROVE  NoTextKill' /\ DeletingOK' /\ NoStrandedInit' /\ NoSlotLeak'
<1> USE DEF TearInv, RefInv, IndInv
<1>1. CASE \E k \in {"create", "run"} : SpawnClone(c, k)
  <2>1. PICK k \in {"create", "run"}, t \in Tasks, p \in NextPids :
          /\ IsNextTask(t)
          /\ phase' = [phase EXCEPT ![t] = IF k = "create" THEN "gate" ELSE "setup"]
          /\ kind' = [kind EXCEPT ![t] = IF k = "create" THEN "paused" ELSE "oneshot"]
          /\ mine' = [mine EXCEPT ![c] = t]
          /\ target' = [target EXCEPT ![c] = p]
    BY <1>1 DEF SpawnClone
  <2>2. /\ pc[c] = "idle"
        /\ pc' = [pc EXCEPT ![c] = "watch"]
        /\ UNCHANGED <<action, registry, ident, slots, numWatched>>
    BY <1>1 DEF SpawnClone, watchVars
  <2>3. mine[c] \notin Tasks
    BY <2>2 DEF CallersOK
  <2>4. NoTextKill'
    BY <2>2 DEF NoTextKill, TypeOK
  <2>5. DeletingOK'
    <3>1. \A e \in registry : e.task # t /\ e.task \in Tasks
      BY <2>1 DEF IsNextTask, EntriesOK, TypeOK, Entry
    <3>2. \A e \in registry : Paused(e.task)' = Paused(e.task)
      BY <2>1, <3>1 DEF Paused, TypeOK
    <3> QED
      BY <2>1, <2>2, <3>2 DEF DeletingOK, TypeOK
  <2>6. NoStrandedInit'
    <3>1. \A u \in Tasks : Spawning(u) => Spawning(u)'
      BY <2>1, <2>3 DEF Spawning, TypeOK
    <3>2. Spawning(t)'
      BY <2>1 DEF Spawning, TypeOK
    <3> QED
      BY <2>1, <2>2, <3>1, <3>2 DEF NoStrandedInit, Registered, TypeOK
  <2>7. NoSlotLeak'
    <3>1. InUse' = InUse
      BY <2>2 DEF InUse
    <3>2. \A d \in Callers : pc[d] = "push" => pc'[d] = "push" /\ target'[d] = target[d]
      BY <2>1, <2>2 DEF TypeOK
    <3> QED
      BY <2>2, <3>1, <3>2 DEF NoSlotLeak
  <2> QED
    BY <2>4, <2>5, <2>6, <2>7
<1>2. CASE SpawnWatch(c)
  <2> USE <1>2 DEF SpawnWatch, taskVars
  <2>1. target[c] \in Pids
    BY DEF CallersOK
  <2>2. \A i \in InUse' : slots'[i].pid = target[c] \/ (i \in InUse /\ slots'[i].pid = slots[i].pid)
    BY <2>1, WatchPidAdds DEF TypeOK
  <2>3. NoTextKill'
    BY DEF NoTextKill, TypeOK
  <2>4. DeletingOK'
    BY DEF DeletingOK, Paused, TypeOK
  <2>5. NoStrandedInit'
    BY DEF NoStrandedInit, Registered, Spawning
  <2>6. NoSlotLeak'
    <3> SUFFICES ASSUME Clean, NEW i \in InUse'
                 PROVE  \/ \E e \in registry' : e.pid = slots'[i].pid
                        \/ \E d \in Callers : pc'[d] = "push" /\ target'[d] = slots'[i].pid
      BY DEF NoSlotLeak, Clean
    <3>1. CASE slots'[i].pid = target[c]
      BY <3>1 DEF TypeOK
    <3>2. CASE i \in InUse /\ slots'[i].pid = slots[i].pid
      BY <3>2 DEF NoSlotLeak, Clean, TypeOK
    <3> QED
      BY <2>2, <3>1, <3>2
  <2> QED
    BY <2>3, <2>4, <2>5, <2>6
<1>3. CASE SpawnPush(c)
  <2> USE <1>3 DEF SpawnPush, Return, taskVars
  <2>1. \A d \in Callers : pc[d] # "unwatch"
    BY KruncAssumption DEF CallersOK
  <2>2. NewEntry(c).task = mine[c] /\ NewEntry(c).pid = target[c]
    BY DEF NewEntry
  <2>3. NoTextKill'
    BY DEF NoTextKill, TypeOK
  <2>4. DeletingOK'
    BY <2>1 DEF DeletingOK, TypeOK
  <2>5. NoStrandedInit'
    BY <2>2 DEF NoStrandedInit, Registered, Spawning, TypeOK
  <2>6. NoSlotLeak'
    BY <2>2 DEF NoSlotLeak, InUse, watchVars, TypeOK
  <2> QED
    BY <2>3, <2>4, <2>5, <2>6
<1>4. CASE SpawnPushFails(c)
  <2> USE <1>4 DEF SpawnPushFails, Return, taskVars
  <2>1. NoTextKill' /\ NoStrandedInit' /\ NoSlotLeak'
    BY DEF NoTextKill, Clean, NoStrandedInit, NoSlotLeak
  <2>2. DeletingOK'
    BY DEF DeletingOK, Paused, TypeOK
  <2> QED
    BY <2>1, <2>2
<1> QED
  BY <1>1, <1>2, <1>3, <1>4

\* start_container and container_state replace an entry by one of the same
\* container; start_container opens a gate.
LEMMA EntryTear ==
    ASSUME TearInv, NEW e \in registry, StartContainer(e) \/ ContainerState(e)
    PROVE  NoTextKill' /\ DeletingOK' /\ NoStrandedInit' /\ NoSlotLeak'
<1> USE DEF TearInv, RefInv, IndInv
<1>1. /\ UNCHANGED <<phase, kind, slots, pc, mine, ident, target>>
      /\ \A d \in Callers : pc[d] # "unwatch"
  BY KruncAssumption DEF StartContainer, ContainerState, CallersOK, callVars, taskVars, watchVars
<1>2. PICK s : /\ registry' = (registry \ {e}) \cup {s}
               /\ s.task = e.task
               /\ s.pid = e.pid
  <2>1. e \in Entry
    BY DEF TypeOK
  <2>2. CASE StartContainer(e)
    <3> DEFINE s == [e EXCEPT !.started = TRUE]
    <3>1. s.task = e.task /\ s.pid = e.pid
      BY <2>1 DEF Entry
    <3>2. registry' = (registry \ {e}) \cup {s}
      BY <2>2 DEF StartContainer
    <3> HIDE DEF s
    <3> QED
      BY <3>1, <3>2
  <2>3. CASE ContainerState(e)
    <3> DEFINE s == [e EXCEPT !.exit = ObservedExit(e)]
    <3>1. s.task = e.task /\ s.pid = e.pid
      BY <2>1 DEF Entry
    <3>2. registry' = (registry \ {e}) \cup {s}
      BY <2>3 DEF ContainerState
    <3> HIDE DEF s
    <3> QED
      BY <3>1, <3>2
  <2> QED
    BY <2>2, <2>3
<1>3. \A u \in Tasks : action'[u] = "WAIT" => action[u] = "WAIT"
  BY DEF StartContainer, ContainerState, taskVars, TypeOK
<1>4. NoTextKill' /\ DeletingOK'
  BY <1>1 DEF NoTextKill, DeletingOK
<1>5. NoStrandedInit'
  BY <1>1, <1>2, <1>3 DEF NoStrandedInit, Registered, Spawning
<1>6. NoSlotLeak'
  BY <1>1, <1>2 DEF NoSlotLeak, InUse
<1> QED
  BY <1>4, <1>5, <1>6

\* kill_container and the text `kill`.
LEMMA KillTear ==
    ASSUME TearInv, NEW c \in Callers,
           \/ \E e \in registry, sig \in {0, SIGKILL} : KillLookup(c, e, sig)
           \/ KillSignal(c)
           \/ \E p \in Pids : TextKill(c, p)
           \/ TextRetain(c)
    PROVE  NoTextKill' /\ DeletingOK' /\ NoStrandedInit' /\ NoSlotLeak'
<1> USE DEF TearInv, RefInv, IndInv
<1>1. /\ UNCHANGED <<phase, kind, action, slots>>
      /\ registry' \subseteq registry
      /\ \A d \in Callers : d # c => pc'[d] = pc[d] /\ mine'[d] = mine[d]
                                     /\ ident'[d] = ident[d] /\ target'[d] = target[d]
      /\ pc[c] \notin {"watch", "push", "unwatch"}
      /\ pc'[c] \in {"idle", "signal", "retain"}
  BY DEF KillLookup, KillSignal, TextKill, TextRetain, Return, taskVars, watchVars, TypeOK
<1>2. Clean => registry' = registry /\ pc'[c] # "retain"
  BY DEF Clean, NoTextKill, KillLookup, KillSignal, TextKill, TextRetain, Return, TypeOK
<1>3. NoTextKill'
  BY <1>1, <1>2 DEF NoTextKill, Clean
<1>4. DeletingOK'
  BY <1>1 DEF DeletingOK, Paused
<1>5. NoStrandedInit'
  <2>1. \A u \in Tasks : Spawning(u) => Spawning(u)'
    BY <1>1 DEF Spawning, CallersOK
  <2> QED
    BY <1>1, <1>2, <2>1 DEF NoStrandedInit, Clean, Registered
<1>6. NoSlotLeak'
  BY <1>1, <1>2 DEF NoSlotLeak, Clean, InUse
<1> QED
  BY <1>3, <1>4, <1>5, <1>6

\* delete_container, first half: it decides the gate of the entry.
LEMMA DeleteBeginTear ==
    ASSUME TearInv, NEW c \in Callers, NEW e \in registry, DeleteBegin(c, e)
    PROVE  NoTextKill' /\ DeletingOK' /\ NoStrandedInit' /\ NoSlotLeak'
<1> USE DEF TearInv, RefInv, IndInv, DeleteBegin
<1>1. \A d \in Callers : pc[d] # "unwatch"
  BY KruncAssumption DEF CallersOK
<1>2. e.task \in Tasks
  BY DEF TypeOK, Entry
<1>3. Paused(e.task) => action'[e.task] # "WAIT"
  BY <1>1, <1>2 DEF StartedIsReleased, DeleteAction, TypeOK
<1>4. \A u \in Tasks : action'[u] = "WAIT" => action[u] = "WAIT"
  BY DEF DeleteAction, TypeOK
<1>5. NoTextKill'
  BY DEF NoTextKill, TypeOK
<1>6. DeletingOK'
  <2> SUFFICES ASSUME NEW d \in Callers, NEW f \in registry,
                      pc'[d] = "unwatch", ident'[d] = f.id
               PROVE  /\ f.pid = target'[d]
                      /\ Paused(f.task)' => action'[f.task] # "WAIT"
    BY DEF DeletingOK
  <2>1. d = c /\ f = e
    BY <1>1 DEF IdsOK, IdsDistinct, TypeOK
  <2> QED
    BY <1>3, <2>1 DEF Paused, TypeOK
<1>7. NoStrandedInit'
  BY <1>4 DEF NoStrandedInit, Registered, Spawning
<1>8. NoSlotLeak'
  BY DEF NoSlotLeak, InUse, watchVars, TypeOK
<1> QED
  BY <1>5, <1>6, <1>7, <1>8

\* delete_container, second half: it removes that entry and frees its slots.
LEMMA DeleteEndTear ==
    ASSUME TearInv, NEW c \in Callers, DeleteEnd(c)
    PROVE  NoTextKill' /\ DeletingOK' /\ NoStrandedInit' /\ NoSlotLeak'
<1> USE DEF TearInv, RefInv, IndInv, DeleteEnd, Return, taskVars
<1>1. \A i \in InUse' : i \in InUse /\ slots'[i].pid = slots[i].pid /\ slots[i].pid # target[c]
  BY UnwatchPidLeaves DEF TypeOK
<1>2. \A e \in registry : e \notin registry' =>
        e.pid = target[c] /\ (Paused(e.task) => action[e.task] # "WAIT")
  BY DEF DeletingOK
<1>3. mine[c] \notin Tasks
  BY DEF CallersOK
<1>4. NoTextKill'
  BY DEF NoTextKill, TypeOK
<1>5. DeletingOK'
  BY DEF DeletingOK, Paused, TypeOK
<1>6. NoStrandedInit'
  <2>1. \A u \in Tasks : Spawning(u) => Spawning(u)'
    BY <1>3 DEF Spawning, TypeOK
  <2> QED
    BY <1>2, <2>1 DEF NoStrandedInit, Registered, PhasesOK, Paused
<1>7. NoSlotLeak'
  BY <1>1, <1>2 DEF NoSlotLeak, TypeOK
<1> QED
  BY <1>4, <1>5, <1>6, <1>7

-----------------------------------------------------------------------------
\* The two teardown properties and what they rest on are invariant.
LEMMA TearInvariance == Spec => []TearInv
<1>1. Init => TearInv
  <2> SUFFICES ASSUME Init
               PROVE  TearInv
    OBVIOUS
  <2>1. RefInv
    BY InitInv DEF RefInv, Init, PhasesOK
  <2>2. NoTextKill /\ DeletingOK /\ NoStrandedInit
    BY DEF Init, NoTextKill, DeletingOK, NoStrandedInit
  <2>3. NoSlotLeak
    BY DEF Init, WatchInit, NoSlotLeak, InUse, FreeSlot
  <2> QED
    BY <2>1, <2>2, <2>3 DEF TearInv
<1>2. TearInv /\ [Next]_vars => TearInv'
  <2> SUFFICES ASSUME TearInv, [Next]_vars
               PROVE  TearInv'
    OBVIOUS
  <2>1. RefInv'
    BY StepInv, PhasesStep DEF TearInv, RefInv
  <2> DEFINE Goal == NoTextKill' /\ DeletingOK' /\ NoStrandedInit' /\ NoSlotLeak'
  <2>2. ASSUME UNCHANGED vars
        PROVE  Goal
    <3> USE <2>2 DEF vars, TearInv
    <3>1. NoTextKill' /\ DeletingOK'
      BY DEF NoTextKill, DeletingOK, Paused
    <3>2. NoStrandedInit'
      BY DEF NoStrandedInit, Registered, Spawning
    <3>3. NoSlotLeak'
      BY DEF NoSlotLeak, InUse
    <3> QED
      BY <3>1, <3>2, <3>3
  <2>3. ASSUME NEW t \in Tasks, TaskStep(t)
        PROVE  Goal
    BY <2>3, TaskTear
  <2>4. ASSUME NEW e \in registry, StartContainer(e) \/ ContainerState(e)
        PROVE  Goal
    BY <2>4, EntryTear
  <2>5. ASSUME NEW c \in Callers, CallerStep(c)
        PROVE  Goal
    <3>1. CASE \/ \E k \in {"create", "run"} : SpawnClone(c, k)
               \/ SpawnWatch(c)
               \/ SpawnPush(c)
               \/ SpawnPushFails(c)
      BY <3>1, SpawnTear
    <3>2. CASE \/ \E e \in registry, sig \in {0, SIGKILL} : KillLookup(c, e, sig)
               \/ KillSignal(c)
               \/ \E p \in Pids : TextKill(c, p)
               \/ TextRetain(c)
      BY <3>2, KillTear
    <3>3. CASE \E e \in registry : DeleteBegin(c, e)
      BY <3>3, DeleteBeginTear
    <3>4. CASE DeleteEnd(c)
      BY <3>4, DeleteEndTear
    <3> QED
      BY <2>5, <3>1, <3>2, <3>3, <3>4 DEF CallerStep
  <2>6. Goal
    BY <2>2, <2>3, <2>4, <2>5 DEF Next
  <2> QED
    BY <2>1, <2>6 DEF TearInv
<1> QED
  BY <1>1, <1>2, PTL DEF Spec

\* Without text `kill`s and failing allocations an init blocked at its gate is
\* always known to somebody who can release or doom it.
THEOREM NoneStranded == Spec => []NoStrandedInit
<1>1. TearInv => NoStrandedInit
  BY DEF TearInv
<1> QED
  BY <1>1, TearInvariance, PTL

\* Under the same conditions, and whether pids are recycled or not, delete
\* returns every watch slot that create took.
THEOREM SlotsReturned == Spec => []NoSlotLeak
<1>1. TearInv => NoSlotLeak
  BY DEF TearInv
<1> QED
  BY <1>1, TearInvariance, PTL
=============================================================================
