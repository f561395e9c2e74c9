-------------------------- MODULE KruncPortProofs --------------------------
(***************************************************************************)
(* What /dev/krunc answers, for every number of callers, tasks, pids and   *)
(* watch slots: as long as the kernel does not recycle pids, STATE tells   *)
(* the truth about the init, and the exit word is the init's own; and      *)
(* krunc.ko implements KruncPort, the interface its clients are modelled   *)
(* against.                                                                *)
(*                                                                         *)
(* The module remembers a pid, not a task.  The argument is that each of   *)
(* its memories of a pid (entry, local of spawn, watch slot) is of one     *)
(* task, the only one that ever had the pid.                               *)
(***************************************************************************)
EXTENDS KruncTeardown

\* A gate nobody has decided still holds its init.
GateHeld == \A t \in Tasks : Paused(t) /\ action[t] = "WAIT" => phase[t] = "gate"

\* A task past do_exit has a status word.
WordsOK == \A t \in Tasks : Dead(t) => exitWord[t] \in Words

\* A pid is of one task for ever, and what entries and the threads in spawn
\* remember is the pid of their own task.
PidsOK ==
    ~Recycle =>
        /\ \A t \in Tasks : phase[t] # "unborn" <=> pidOf[t] \in Pids
        /\ \A t, u \in Tasks : pidOf[t] \in Pids /\ pidOf[t] = pidOf[u] => t = u
        /\ \A e \in registry : e.pid = pidOf[e.task]
        /\ \A c \in Callers : mine[c] \in Tasks => target[c] = pidOf[mine[c]]

\* What a slot says of the task whose pid it holds: "exited" with the task's
\* word, or "armed" before the exit of an init that waited to be watched.
SlotTells(i, t) ==
    /\ slots[i].st = "exited" => Dead(t) /\ slots[i].code = exitWord[t]
    /\ slots[i].st = "armed" /\ Paused(t) => ~Dead(t)

\* Each pid has at most one slot, none before it is watched.
SlotsOK ==
    ~Recycle =>
        /\ \A i \in InUse : \E t \in Tasks : phase[t] # "unborn" /\ pidOf[t] = slots[i].pid
        /\ \A i, j \in InUse : slots[i].pid = slots[j].pid => i = j
        /\ \A c \in Callers : pc[c] = "watch" => InUseFor(target[c]) = {}
        /\ \A i \in InUse, t \in Tasks : slots[i].pid = pidOf[t] => SlotTells(i, t)

\* A word cached in an entry is the init's.
CacheOK ==
    ~Recycle =>
        \A e \in registry : e.exit # NoWord => Dead(e.task) /\ e.exit = exitWord[e.task]

TruthInv ==
    /\ RefInv
    /\ GateHeld
    /\ WordsOK
    /\ PidsOK
    /\ SlotsOK
    /\ CacheOK

-----------------------------------------------------------------------------
(* What follows from the invariant.                                        *)

\* The pid of an entry leads to its task and to no other.
LEMMA EntryHolder ==
    ASSUME TruthInv, ~Recycle, NEW e \in registry
    PROVE  /\ e.task \in Tasks
           /\ phase[e.task] # "unborn"
           /\ Holders(e.pid) = IF phase[e.task] = "reaped" THEN {} ELSE {e.task}
<1>1. e.task \in Tasks /\ phase[e.task] # "unborn"
  BY DEF TruthInv, RefInv, IndInv, TypeOK, Entry, EntriesOK
<1>2. e.pid = pidOf[e.task] /\ pidOf[e.task] \in Pids
  BY <1>1 DEF TruthInv, PidsOK
<1>3. \A t \in Tasks : pidOf[t] = e.pid => t = e.task
  BY <1>1, <1>2 DEF TruthInv, PidsOK
<1> QED
  BY <1>1, <1>2, <1>3 DEF Holders, Present

\* What STATE answers, in terms of the task instead of its pid.
LEMMA AnswerOf ==
    ASSUME TruthInv, ~Recycle, NEW e \in registry
    PROVE  ReplyState(e) = IF ~e.started THEN "CREATED"
                           ELSE IF phase[e.task] \in {"zombie", "reaped"} THEN "STOPPED"
                           ELSE "RUNNING"
<1>1. CASE phase[e.task] = "reaped"
  BY <1>1, EntryHolder DEF ReplyState, Probe
<1>2. CASE phase[e.task] # "reaped"
  <2>1. Holders(e.pid) = {e.task}
    BY <1>2, EntryHolder
  <2>2. Probe(e.pid) = IF phase[e.task] # "zombie" THEN "alive" ELSE "zombie"
    BY <2>1 DEF Probe
  <2> QED
    BY <1>2, <2>2 DEF ReplyState
<1> QED
  BY <1>1, <1>2

\* The word STATE finds, if any, is the init's.
LEMMA ObservedIsOwn ==
    ASSUME TruthInv, ~Recycle, NEW e \in registry, ObservedExit(e) # NoWord
    PROVE  Dead(e.task) /\ ObservedExit(e) = exitWord[e.task]
<1>1. e.task \in Tasks /\ e.pid = pidOf[e.task]
  BY EntryHolder DEF TruthInv, PidsOK
<1>2. CASE ReplyState(e) # "STOPPED" \/ e.exit # NoWord
  BY <1>2 DEF ObservedExit, TruthInv, CacheOK
<1>3. CASE ReplyState(e) = "STOPPED" /\ e.exit = NoWord /\ Captured(e.pid)
  <2> DEFINE f == FirstSlot(ExitedFor(e.pid))
  <2>1. f \in ExitedFor(e.pid)
    BY <1>3, FirstSlotIn DEF Captured, ExitedFor
  <2>2. ObservedExit(e) = slots[f].code
    BY <1>3 DEF ObservedExit, CapturedWord
  <2> HIDE DEF f
  <2>3. f \in InUse /\ slots[f].pid = e.pid /\ slots[f].st = "exited"
    BY <2>1 DEF ExitedFor, InUse
  <2>4. SlotTells(f, e.task)
    BY <1>1, <2>3 DEF TruthInv, SlotsOK
  <2> QED
    BY <2>2, <2>3, <2>4 DEF SlotTells
<1>4. CASE ReplyState(e) = "STOPPED" /\ e.exit = NoWord /\ ~Captured(e.pid)
  <2>1. Probe(e.pid) = "zombie" /\ ObservedExit(e) = exitWord[CHOOSE t \in Holders(e.pid) : TRUE]
    BY <1>4 DEF ObservedExit
  <2>2. Holders(e.pid) # {} /\ \A t \in Holders(e.pid) : phase[t] = "zombie"
    BY <2>1 DEF Probe
  <2>3. Holders(e.pid) = {e.task}
    BY <2>2, EntryHolder
  <2> QED
    BY <2>1, <2>2, <2>3 DEF Dead
<1> QED
  BY <1>2, <1>3, <1>4

\* While a paused init has a slot, STATE finds its word as soon as it says
\* STOPPED.
LEMMA ObservedIsThere ==
    ASSUME TruthInv, ~Recycle, NEW e \in registry,
           Paused(e.task), InUseFor(e.pid) # {}, ReplyState(e) = "STOPPED"
    PROVE  ObservedExit(e) # NoWord
<1>1. e.task \in Tasks /\ e.pid = pidOf[e.task]
  BY EntryHolder DEF TruthInv, PidsOK
<1>2. Dead(e.task)
  BY AnswerOf DEF Dead
<1>3. PICK i \in InUse : slots[i].pid = e.pid
  BY DEF InUseFor, InUse
<1>4. slots[i].st = "exited"
  <2>1. slots[i].st \in {"armed", "exited"}
    BY DEF InUse, TruthInv, RefInv, IndInv, TypeOK, WatchTypeOK, Slot
  <2> QED
    BY <1>1, <1>2, <1>3, <2>1 DEF TruthInv, SlotsOK, SlotTells
<1>5. Captured(e.pid)
  BY <1>3, <1>4 DEF Captured, ExitedFor, InUse
<1>6. CapturedWord(e.pid) \in Words
  BY <1>5, CapturedWordType DEF TruthInv, RefInv, IndInv, TypeOK
<1> QED
  BY <1>5, <1>6, KruncAssumption DEF ObservedExit

-----------------------------------------------------------------------------
(* The steps preserve the invariant.                                       *)

\* What a step of a task that exists does: it passes do_exit, with a word and
\* from a decided gate if it has one, or goes on without passing it.
Exits(t) ==
    /\ phase[t] \in {"gate", "setup", "user"}
    /\ \E w \in Words : DoExit(t, w)

GoesOn(t) ==
    /\ UNCHANGED <<kind, pidOf, action, exitWord, registry, slots, numWatched>>
    /\ UNCHANGED callVars
    /\ phase[t] # "unborn"
    /\ \E q \in Phases \ {"unborn"} :
        /\ phase' = [phase EXCEPT ![t] = q]
        /\ Dead(t) <=> q \in {"exiting", "zombie", "reaped"}

\* A task that is no fork of the host exits or goes on, and never past a gate on WAIT.
LEMMA TaskMoves ==
    ASSUME TruthInv, NEW t \in Tasks, TaskStep(t)
    PROVE  \/ HostFork(t)
           \/ (Exits(t) \/ GoesOn(t)) /\ (Paused(t) => action[t] # "WAIT")
<1> USE DEF TruthInv, RefInv, IndInv, PhasesOK, NoRunBeforeStart, GateHeld
<1>1. CASE PassGate(t) \/ Exec(t)
  <2>1. /\ phase[t] \in {"gate", "setup"}
        /\ \E q \in {"setup", "user"} : phase' = [phase EXCEPT ![t] = q]
        /\ UNCHANGED <<kind, pidOf, action, exitWord, registry, slots, numWatched>>
        /\ UNCHANGED callVars
    BY <1>1 DEF PassGate, Exec, Move, watchVars
  <2>2. GoesOn(t)
    BY <2>1 DEF GoesOn, Phases, Dead
  <2>3. Paused(t) => action[t] # "WAIT"
    BY <1>1 DEF PassGate, Exec, Move
  <2> QED
    BY <2>2, <2>3
<1>2. CASE BecomesZombie(t) \/ IsReaped(t)
  BY <1>2 DEF BecomesZombie, IsReaped, Move, GoesOn, Phases, Dead, watchVars
<1>3. CASE DoomedExit(t)
  BY <1>3, WatchAssumption DEF DoomedExit, Exits
<1>4. CASE SetupFails(t)
  BY <1>4, KruncAssumption DEF SetupFails, Exits
<1>5. CASE ProgramExits(t) \/ Dies(t)
  BY <1>5, KruncAssumption DEF ProgramExits, Dies, Exits
<1> QED
  BY <1>1, <1>2, <1>3, <1>4, <1>5 DEF TaskStep

\* The kprobe finds the slot armed for the task, and leaves the others alone.
LEMMA ExitHookMarks ==
    ASSUME WatchTypeOK, WatchCounted, NEW p, NEW w \in Words, ExitHook(p, w),
           \A i, j \in InUse : slots[i].pid = slots[j].pid => i = j
    PROVE  \A i \in InUse :
                /\ slots'[i].pid = slots[i].pid
                /\ slots[i].pid # p => slots'[i] = slots[i]
                /\ slots[i].pid = p /\ slots[i].st = "armed"
                        => slots'[i].st = "exited" /\ slots'[i].code = w
                /\ slots[i].st = "exited" => slots'[i] = slots[i]
<1> SUFFICES ASSUME NEW i \in InUse
             PROVE  /\ slots'[i].pid = slots[i].pid
                    /\ slots[i].pid # p => slots'[i] = slots[i]
                    /\ slots[i].pid = p /\ slots[i].st = "armed"
                            => slots'[i].st = "exited" /\ slots'[i].code = w
                    /\ slots[i].st = "exited" => slots'[i] = slots[i]
  OBVIOUS
<1>1. numWatched # 0
  BY SlotSets, FS_EmptySet DEF WatchCounted
<1>2. CASE ArmedFor(p) # {}
  <2> DEFINE f == FirstSlot(ArmedFor(p))
  <2>1. f \in ArmedFor(p)
    BY <1>2, FirstSlotIn DEF ArmedFor
  <2>2. slots' = [slots EXCEPT ![f].st = "exited", ![f].code = w]
    BY <1>1, <1>2 DEF ExitHook
  <2> HIDE DEF f
  <2>3. f \in InUse /\ slots[f].pid = p /\ slots[f].st = "armed" /\ f \in Slots
    BY <2>1 DEF ArmedFor, InUse
  <2>4. i # f => slots'[i] = slots[i]
    BY <2>2 DEF WatchTypeOK, InUse
  <2>5. i # f => slots[i].pid # p
    BY <2>3
  <2>6. slots[f] \in Slot
    BY <2>3 DEF WatchTypeOK
  <2>7. slots'[f].pid = p /\ slots'[f].st = "exited" /\ slots'[f].code = w
    BY <2>2, <2>3, <2>6 DEF WatchTypeOK, Slot
  <2> QED
    BY <2>3, <2>4, <2>5, <2>7
<1>3. CASE ArmedFor(p) = {}
  BY <1>3 DEF ExitHook, ArmedFor, InUse
<1> QED
  BY <1>2, <1>3

\* The steps of the tasks.
LEMMA TaskTruth ==
    ASSUME TruthInv, NEW t \in Tasks, TaskStep(t)
    PROVE  GateHeld' /\ WordsOK' /\ PidsOK' /\ SlotsOK' /\ CacheOK'
<1> USE DEF TruthInv, RefInv, IndInv
<1>1. CASE HostFork(t)
  <2>1. Recycle
    BY <1>1 DEF HostFork
  <2>2. GateHeld' /\ WordsOK'
    BY <1>1 DEF HostFork, GateHeld, WordsOK, Paused, Dead, TypeOK
  <2> QED
    BY <2>1, <2>2 DEF PidsOK, SlotsOK, CacheOK
<1>2. CASE GoesOn(t) /\ (Paused(t) => action[t] # "WAIT")
  <2> USE <1>2 DEF GoesOn, callVars
  <2>1. \A u \in Tasks : Dead(u)' <=> Dead(u)
    BY DEF Dead, TypeOK
  <2>2. \A u \in Tasks : phase'[u] = "unborn" <=> phase[u] = "unborn"
    BY DEF TypeOK
  <2>3. GateHeld'
    BY DEF GateHeld, Paused, TypeOK
  <2>4. WordsOK'
    BY <2>1 DEF WordsOK
  <2>5. PidsOK'
    BY <2>2 DEF PidsOK
  <2>6. SlotsOK'
    <3>1. InUse' = InUse /\ \A p : InUseFor(p)' = InUseFor(p)
      BY DEF InUse, InUseFor
    <3>2. \A i \in InUse, u \in Tasks : SlotTells(i, u)' <=> SlotTells(i, u)
      BY <2>1 DEF SlotTells, Paused
    <3> QED
      BY <2>2, <3>1, <3>2 DEF SlotsOK
  <2>7. CacheOK'
    BY <2>1 DEF CacheOK, TypeOK, Entry
  <2> QED
    BY <2>3, <2>4, <2>5, <2>6, <2>7
<1>3. CASE Exits(t) /\ (Paused(t) => action[t] # "WAIT")
  <2>1. PICK w \in Words : DoExit(t, w)
    BY <1>3 DEF Exits
  <2> USE <2>1 DEF DoExit, callVars
  <2>2. /\ Dead(t)' /\ exitWord'[t] = w /\ ~Dead(t) /\ phase[t] # "unborn"
        /\ \A u \in Tasks : u # t => (Dead(u)' <=> Dead(u)) /\ exitWord'[u] = exitWord[u]
        /\ \A u \in Tasks : phase'[u] = "unborn" <=> phase[u] = "unborn"
    BY <1>3 DEF Exits, Dead, TypeOK
  <2>3. GateHeld'
    BY <1>3 DEF GateHeld, Paused, TypeOK
  <2>4. WordsOK'
    BY <2>2 DEF WordsOK
  <2>5. PidsOK'
    BY <2>2 DEF PidsOK
  <2>6. SlotsOK'
    <3> SUFFICES ASSUME ~Recycle
                 PROVE  SlotsOK'
      BY DEF SlotsOK
    <3>1. InUse' = InUse
      BY ExitHookKeepsPids DEF TypeOK
    <3>2. \A i \in InUse :
                /\ slots'[i].pid = slots[i].pid
                /\ slots[i].pid # pidOf[t] => slots'[i] = slots[i]
                /\ slots[i].pid = pidOf[t] /\ slots[i].st = "armed"
                        => slots'[i].st = "exited" /\ slots'[i].code = w
                /\ slots[i].st = "exited" => slots'[i] = slots[i]
      BY ExitHookMarks DEF SlotsOK, TypeOK
    <3>3. \A p : InUseFor(p)' = InUseFor(p)
      BY <3>1, <3>2 DEF InUse, InUseFor
    <3>4. ASSUME NEW i \in InUse, NEW u \in Tasks, slots[i].pid = pidOf[u]
          PROVE  SlotTells(i, u)'
      <4>1. SlotTells(i, u)
        BY <3>4 DEF SlotsOK
      <4>2. CASE u = t
        <5>1. slots[i].st \in {"armed", "exited"}
          BY DEF InUse, TypeOK, WatchTypeOK, Slot
        <5> QED
          BY <2>2, <3>2, <3>4, <4>1, <4>2, <5>1 DEF SlotTells
      <4>3. CASE u # t
        <5>1. slots[i].pid # pidOf[t]
          <6>1. pidOf[t] \in Pids
            BY <2>2 DEF PidsOK
          <6> QED
            BY <3>4, <4>3, <6>1 DEF PidsOK
        <5> QED
          BY <2>2, <3>2, <4>1, <4>3, <5>1 DEF SlotTells, Paused
      <4> QED
        BY <4>2, <4>3
    <3> QED
      BY <2>2, <3>1, <3>2, <3>3, <3>4 DEF SlotsOK
  <2>7. CacheOK'
    BY <2>2 DEF CacheOK, TypeOK, Entry
  <2> QED
    BY <2>3, <2>4, <2>5, <2>6, <2>7
<1> QED
  BY <1>1, <1>2, <1>3, TaskMoves

\* krunc_spawn: without recycling the clone gets a pid that no task has had, so
\* neither an entry nor a slot knows it.
LEMMA CloneTruth ==
    ASSUME TruthInv, NEW c \in Callers, NEW k \in {"create", "run"}, SpawnClone(c, k)
    PROVE  GateHeld' /\ WordsOK' /\ PidsOK' /\ SlotsOK' /\ CacheOK'
<1> USE DEF TruthInv, RefInv, IndInv
<1>1. PICK t \in Tasks, p \in NextPids :
        /\ IsNextTask(t)
        /\ phase' = [phase EXCEPT ![t] = IF k = "create" THEN "gate" ELSE "setup"]
        /\ kind' = [kind EXCEPT ![t] = IF k = "create" THEN "paused" ELSE "oneshot"]
        /\ pidOf' = [pidOf EXCEPT ![t] = p]
        /\ mine' = [mine EXCEPT ![c] = t]
        /\ target' = [target EXCEPT ![c] = p]
  BY DEF SpawnClone
<1>2. /\ pc' = [pc EXCEPT ![c] = "watch"]
      /\ UNCHANGED <<action, exitWord, registry, slots, numWatched>>
  BY DEF SpawnClone, watchVars
<1>3. /\ phase[t] = "unborn" /\ ~Dead(t) /\ ~Dead(t)'
      /\ \A u \in Tasks : u # t => /\ Dead(u)' <=> Dead(u)
                                   /\ Paused(u)' <=> Paused(u)
                                   /\ pidOf'[u] = pidOf[u]
                                   /\ phase'[u] = phase[u]
  BY <1>1 DEF IsNextTask, Dead, Paused, TypeOK
<1>4. \A e \in registry : e.task # t /\ e.task \in Tasks
  BY <1>3 DEF EntriesOK, TypeOK, Entry
<1>5. GateHeld'
  BY <1>1, <1>2 DEF GateHeld, Paused, TypeOK
<1>6. WordsOK'
  BY <1>2, <1>3 DEF WordsOK
<1>7. CacheOK'
  BY <1>2, <1>3, <1>4 DEF CacheOK
<1>8. ASSUME ~Recycle
      PROVE  PidsOK' /\ SlotsOK'
  <2>1. p \in Pids /\ \A u \in Tasks : pidOf[u] # p
    BY <1>1, <1>8 DEF NextPids, Unused
  <2>2. pidOf'[t] = p /\ phase'[t] # "unborn"
    BY <1>1 DEF TypeOK
  <2>3. \A d \in Callers : d # c => /\ mine'[d] = mine[d]
                                    /\ target'[d] = target[d]
                                    /\ pc'[d] = pc[d]
    BY <1>1, <1>2 DEF TypeOK
  <2>4. mine'[c] = t /\ target'[c] = p
    BY <1>1 DEF TypeOK
  <2>5. \A d \in Callers : mine[d] # t
    BY <1>3 DEF SpawnsOK
  <2>6. PidsOK'
    <3>1. \A u \in Tasks : phase'[u] # "unborn" <=> pidOf'[u] \in Pids
      BY <1>3, <1>8, <2>1, <2>2 DEF PidsOK
    <3>2. \A u, v \in Tasks : pidOf'[u] \in Pids /\ pidOf'[u] = pidOf'[v] => u = v
      BY <1>3, <1>8, <2>1, <2>2 DEF PidsOK
    <3>3. \A e \in registry : e.pid = pidOf'[e.task]
      BY <1>3, <1>4, <1>8 DEF PidsOK
    <3>4. \A d \in Callers : mine'[d] \in Tasks => target'[d] = pidOf'[mine'[d]]
      BY <1>3, <1>8, <2>2, <2>3, <2>4, <2>5 DEF PidsOK
    <3> QED
      BY <1>2, <3>1, <3>2, <3>3, <3>4 DEF PidsOK
  <2>7. SlotsOK'
    <3>1. InUse' = InUse /\ \A q : InUseFor(q)' = InUseFor(q)
      BY <1>2 DEF InUse, InUseFor
    <3>2. \A i \in InUse : slots[i].pid # p
      BY <1>8, <2>1 DEF SlotsOK
    <3>3. \A i \in InUse : \E u \in Tasks : phase'[u] # "unborn" /\ pidOf'[u] = slots[i].pid
      BY <1>3, <1>8 DEF SlotsOK
    <3>4. InUseFor(p) = {}
      BY <3>2 DEF InUseFor, InUse
    <3>5. \A i \in InUse, u \in Tasks : slots[i].pid = pidOf'[u] => SlotTells(i, u)'
      BY <1>2, <1>3, <1>8, <2>2, <3>2 DEF SlotsOK, SlotTells
    <3>6. \A d \in Callers : pc'[d] = "watch" => InUseFor(target'[d]) = {}
      BY <1>8, <2>3, <2>4, <3>4 DEF SlotsOK
    <3>7. \A i, j \in InUse : slots[i].pid = slots[j].pid => i = j
      BY <1>8 DEF SlotsOK
    <3> QED
      BY <1>2, <3>1, <3>3, <3>5, <3>6, <3>7 DEF SlotsOK
  <2> QED
    BY <2>6, <2>7
<1> QED
  BY <1>5, <1>6, <1>7, <1>8 DEF PidsOK, SlotsOK

\* krunc_watch_pid arms the first slot of the pid, and if the init is a paused
\* one, it is still at its gate.
LEMMA WatchTruth ==
    ASSUME TruthInv, NEW c \in Callers, SpawnWatch(c)
    PROVE  GateHeld' /\ WordsOK' /\ PidsOK' /\ SlotsOK' /\ CacheOK'
<1> USE DEF TruthInv, RefInv, IndInv, SpawnWatch, taskVars
<1>1. GateHeld' /\ WordsOK'
  BY DEF GateHeld, WordsOK, Paused, Dead
<1>2. PidsOK' /\ CacheOK'
  BY DEF PidsOK, CacheOK, Dead
<1>3. ASSUME ~Recycle
      PROVE  SlotsOK'
  <2> DEFINE t == mine[c]
             p == target[c]
             f == FirstSlot(FreeSlots)
  <2>1. /\ t \in Tasks /\ p \in Pids /\ p = pidOf[t] /\ phase[t] # "unborn"
        /\ action[t] = "WAIT" /\ InUseFor(p) = {}
    BY <1>3 DEF CallersOK, SpawnsOK, PidsOK, SlotsOK
  <2>2. Paused(t) => ~Dead(t)
    BY <2>1 DEF GateHeld, Dead
  <2>3. CASE FreeSlots = {}
    <3>1. slots' = slots
      BY <2>3 DEF WatchPid, watchVars
    <3>2. InUse' = InUse /\ \A q : InUseFor(q)' = InUseFor(q)
      BY <3>1 DEF InUse, InUseFor
    <3> QED
      BY <1>3, <3>1, <3>2 DEF SlotsOK, SlotTells, Dead, Paused, TypeOK
  <2>4. CASE FreeSlots # {}
    <3>1. f \in FreeSlots
      BY <2>4, FirstSlotIn DEF FreeSlots
    <3>2. slots' = [slots EXCEPT ![f] = [st |-> "armed", pid |-> p, code |-> 0]]
      BY <2>4 DEF WatchPid
    <3> HIDE DEF f
    <3>3. /\ f \in Slots /\ slots'[f].st = "armed" /\ slots'[f].pid = p
          /\ InUse' = InUse \cup {f}
          /\ \A i \in InUse : slots'[i] = slots[i] /\ slots[i].pid # p
      BY <2>1, <3>1, <3>2 DEF FreeSlots, InUse, InUseFor, TypeOK, WatchTypeOK
    <3>4. (\A d \in Callers : pc[d] = "watch" => InUseFor(target[d]) = {})'
      <4> SUFFICES ASSUME NEW d \in Callers, pc'[d] = "watch"
                   PROVE  InUseFor(target[d])' = {}
        OBVIOUS
      <4>1. d # c /\ pc[d] = "watch"
        BY DEF TypeOK
      <4>2. mine[d] \in Tasks /\ mine[d] # t
        BY <2>1, <4>1 DEF CallersOK, SpawnsOK
      <4>3. target[d] # p
        BY <1>3, <2>1, <4>2 DEF PidsOK
      <4>4. InUseFor(target[d]) = {}
        BY <1>3, <4>1 DEF SlotsOK
      <4> QED
        <5>1. \A i \in Slots : slots'[i].st # "free" => slots'[i].pid # target[d]
          BY <3>3, <4>3, <4>4 DEF InUseFor, InUse
        <5> QED
          BY <5>1 DEF InUseFor
    <3>5. \A i \in InUse', u \in Tasks : slots'[i].pid = pidOf[u] => SlotTells(i, u)'
      <4> SUFFICES ASSUME NEW i \in InUse', NEW u \in Tasks, slots'[i].pid = pidOf[u]
                   PROVE  SlotTells(i, u)'
        OBVIOUS
      <4>1. CASE i = f
        <5>1. u = t
          BY <1>3, <2>1, <3>3, <4>1 DEF PidsOK
        <5> QED
          BY <2>2, <3>3, <4>1, <5>1 DEF SlotTells, Dead, Paused
      <4>2. CASE i \in InUse
        <5>1. SlotTells(i, u) /\ slots'[i] = slots[i]
          BY <1>3, <3>3, <4>2 DEF SlotsOK
        <5> QED
          BY <5>1 DEF SlotTells, Dead, Paused
      <4> QED
        BY <3>3, <4>1, <4>2
    <3>6. \A i \in InUse' : \E u \in Tasks : phase[u] # "unborn" /\ pidOf[u] = slots'[i].pid
      BY <1>3, <2>1, <3>3 DEF SlotsOK
    <3>7. \A i, j \in InUse' : slots'[i].pid = slots'[j].pid => i = j
      BY <1>3, <3>3 DEF SlotsOK
    <3> QED
      BY <3>4, <3>5, <3>6, <3>7 DEF SlotsOK
  <2> QED
    BY <2>3, <2>4
<1> QED
  BY <1>1, <1>2, <1>3 DEF SlotsOK

\* What the other steps of the handlers have in common: no task moves, no gate
\* is closed again, slots are given up at most, and the one new entry is of the
\* task that the thread has cloned.
LEMMA HandlerMoves ==
    ASSUME TruthInv, NEW c \in Callers, CallerStep(c),
           ~SpawnWatch(c), ~ \E k \in {"create", "run"} : SpawnClone(c, k)
    PROVE  /\ UNCHANGED <<phase, kind, pidOf, exitWord>>
           /\ \A u \in Tasks : action'[u] = "WAIT" => action[u] = "WAIT"
           /\ \A e \in registry' :
                \/ e \in registry
                \/ e.exit = NoWord /\ mine[c] \in Tasks /\ e.task = mine[c] /\ e.pid = target[c]
           /\ \A d \in Callers : d # c => /\ pc'[d] = pc[d]
                                          /\ mine'[d] = mine[d]
                                          /\ target'[d] = target[d]
           /\ mine'[c] \notin Tasks /\ pc'[c] # "watch"
           /\ \A i \in InUse' : i \in InUse /\ slots'[i] = slots[i]
<1> USE DEF TruthInv, RefInv, IndInv
<1>1. CASE SpawnPush(c) \/ SpawnPushFails(c)
  BY <1>1, KruncAssumption
  DEF SpawnPush, SpawnPushFails, Return, NewEntry, taskVars, watchVars, CallersOK, TypeOK, InUse
<1>2. CASE \/ \E e \in registry, sig \in {0, SIGKILL} : KillLookup(c, e, sig)
           \/ KillSignal(c)
           \/ \E p \in Pids : TextKill(c, p)
           \/ TextRetain(c)
  BY <1>2, KruncAssumption
  DEF KillLookup, KillSignal, TextKill, TextRetain, Return, taskVars, watchVars, CallersOK,
      TypeOK, InUse
<1>3. CASE \E e \in registry : DeleteBegin(c, e)
  <2>1. PICK e \in registry : DeleteBegin(c, e)
    BY <1>3
  <2>2. \A u \in Tasks : action'[u] = "WAIT" => action[u] = "WAIT"
    BY <2>1 DEF DeleteBegin, DeleteAction, TypeOK
  <2> QED
    BY <2>1, <2>2 DEF DeleteBegin, watchVars, CallersOK, TypeOK, InUse
<1>4. CASE DeleteEnd(c)
  <2>1. \A i \in InUse' : i \in InUse /\ slots'[i] = slots[i]
    BY <1>4 DEF DeleteEnd, UnwatchPid, InUse, InUseFor, FreeSlot
  <2> QED
    BY <1>4, <2>1, KruncAssumption DEF DeleteEnd, Return, taskVars, CallersOK, TypeOK
<1> QED
  BY <1>1, <1>2, <1>3, <1>4 DEF CallerStep

\* The ioctls other than a create decide no gate wrongly and keep words and slots.
LEMMA HandlerTruth ==
    ASSUME TruthInv, NEW c \in Callers, CallerStep(c),
           ~SpawnWatch(c), ~ \E k \in {"create", "run"} : SpawnClone(c, k)
    PROVE  GateHeld' /\ WordsOK' /\ PidsOK' /\ SlotsOK' /\ CacheOK'
<1> USE HandlerMoves DEF TruthInv, RefInv, IndInv
<1>1. \A u \in Tasks : (Dead(u)' <=> Dead(u)) /\ (Paused(u)' <=> Paused(u))
  BY DEF Dead, Paused
<1>2. GateHeld' /\ WordsOK'
  BY <1>1 DEF GateHeld, WordsOK
<1>3. PidsOK'
  BY DEF PidsOK
<1>4. ASSUME ~Recycle
      PROVE  SlotsOK'
  <2>1. \A i \in InUse' : \E t \in Tasks : phase'[t] # "unborn" /\ pidOf'[t] = slots'[i].pid
    BY <1>4 DEF SlotsOK
  <2>2. \A i, j \in InUse' : slots'[i].pid = slots'[j].pid => i = j
    BY <1>4 DEF SlotsOK
  <2>3. (\A d \in Callers : pc[d] = "watch" => InUseFor(target[d]) = {})'
    BY <1>4 DEF SlotsOK, InUseFor, InUse
  <2>4. \A i \in InUse', u \in Tasks : slots'[i].pid = pidOf'[u] => SlotTells(i, u)'
    BY <1>1, <1>4 DEF SlotsOK, SlotTells
  <2> QED
    BY <2>1, <2>2, <2>3, <2>4 DEF SlotsOK
<1>5. CacheOK'
  BY <1>1 DEF CacheOK, TypeOK, Entry
<1> QED
  BY <1>2, <1>3, <1>4, <1>5 DEF SlotsOK

\* start_container and container_state replace an entry by one of the same
\* task; the word the latter caches is the init's.
LEMMA EntryTruth ==
    ASSUME TruthInv, NEW e \in registry, StartContainer(e) \/ ContainerState(e)
    PROVE  GateHeld' /\ WordsOK' /\ PidsOK' /\ SlotsOK' /\ CacheOK'
<1> USE DEF TruthInv, RefInv, IndInv
<1>1. UNCHANGED <<phase, kind, pidOf, exitWord, slots, numWatched, pc, mine, target>>
  BY DEF StartContainer, ContainerState, callVars, taskVars, watchVars
<1>2. \A u \in Tasks : action'[u] = "WAIT" => action[u] = "WAIT"
  BY DEF StartContainer, ContainerState, taskVars, TypeOK
<1>3. PICK s : /\ registry' = (registry \ {e}) \cup {s}
               /\ s.task = e.task /\ s.pid = e.pid
               /\ s.exit = e.exit \/ s.exit = ObservedExit(e)
  <2>1. e \in Entry
    BY DEF TypeOK
  <2>2. CASE StartContainer(e)
    <3> DEFINE s == [e EXCEPT !.started = TRUE]
    <3>1. s.task = e.task /\ s.pid = e.pid /\ s.exit = e.exit
      BY <2>1 DEF Entry
    <3>2. registry' = (registry \ {e}) \cup {s}
      BY <2>2 DEF StartContainer
    <3> HIDE DEF s
    <3> QED
      BY <3>1, <3>2
  <2>3. CASE ContainerState(e)
    <3> DEFINE s == [e EXCEPT !.exit = ObservedExit(e)]
    <3>1. s.task = e.task /\ s.pid = e.pid /\ s.exit = ObservedExit(e)
      BY <2>1 DEF Entry
    <3>2. registry' = (registry \ {e}) \cup {s}
      BY <2>3 DEF ContainerState
    <3> HIDE DEF s
    <3> QED
      BY <3>1, <3>2
  <2> QED
    BY <2>2, <2>3
<1>4. \A u : (Dead(u)' <=> Dead(u)) /\ (Paused(u)' <=> Paused(u))
  BY <1>1 DEF Dead, Paused
<1>5. GateHeld' /\ WordsOK'
  BY <1>1, <1>2, <1>4 DEF GateHeld, WordsOK
<1>6. PidsOK'
  BY <1>1, <1>3 DEF PidsOK
<1>7. SlotsOK'
  <2>1. InUse' = InUse /\ \A p : InUseFor(p)' = InUseFor(p)
    BY <1>1 DEF InUse, InUseFor
  <2> QED
    BY <1>1, <1>4, <2>1 DEF SlotsOK, SlotTells
<1>8. CacheOK'
  <2>1. ~Recycle /\ s.exit # NoWord => Dead(e.task) /\ s.exit = exitWord[e.task]
    BY <1>3, ObservedIsOwn DEF CacheOK
  <2> QED
    BY <1>1, <1>3, <1>4, <2>1 DEF CacheOK
<1> QED
  BY <1>5, <1>6, <1>7, <1>8

\* Every step of krunc.ko, its callers and its inits preserves TruthInv.
LEMMA TruthStep == TruthInv /\ [Next]_vars => TruthInv'
<1> SUFFICES ASSUME TruthInv, [Next]_vars
             PROVE  TruthInv'
  OBVIOUS
<1> DEFINE Goal == GateHeld' /\ WordsOK' /\ PidsOK' /\ SlotsOK' /\ CacheOK'
<1>1. RefInv'
  BY StepInv, PhasesStep DEF TruthInv, RefInv
<1>2. ASSUME NEW t \in Tasks, TaskStep(t)
      PROVE  Goal
  BY <1>2, TaskTruth
<1>3. ASSUME NEW c \in Callers, CallerStep(c)
      PROVE  Goal
  BY <1>3, CloneTruth, WatchTruth, HandlerTruth
<1>4. ASSUME NEW e \in registry, StartContainer(e) \/ ContainerState(e)
      PROVE  Goal
  BY <1>4, EntryTruth
<1>5. ASSUME UNCHANGED vars
      PROVE  Goal
  <2> USE <1>5 DEF vars, TruthInv
  <2>1. GateHeld' /\ WordsOK'
    BY DEF GateHeld, WordsOK, Paused, Dead
  <2>2. PidsOK' /\ CacheOK'
    BY DEF PidsOK, CacheOK, Dead
  <2>3. SlotsOK'
    BY DEF SlotsOK, SlotTells, InUse, InUseFor, Paused, Dead
  <2> QED
    BY <2>1, <2>2, <2>3
<1>6. Goal
  BY <1>2, <1>3, <1>4, <1>5 DEF Next
<1> QED
  BY <1>1, <1>6 DEF TruthInv

\* The invariant holds when krunc.ko is loaded.
LEMMA TruthInit == Init => TruthInv
<1> SUFFICES ASSUME Init
             PROVE  TruthInv
  OBVIOUS
<1>1. RefInv
  BY InitInv DEF RefInv, Init, PhasesOK
<1>2. GateHeld /\ WordsOK /\ CacheOK
  BY DEF Init, GateHeld, WordsOK, CacheOK, Paused, Dead
<1>3. PidsOK
  BY KruncAssumption, WatchAssumption DEF Init, PidsOK
<1>4. InUse = {}
  BY DEF Init, WatchInit, InUse, FreeSlot
<1>5. SlotsOK
  BY <1>4 DEF Init, SlotsOK
<1> QED
  BY <1>1, <1>2, <1>3, <1>5 DEF TruthInv

\* TruthInv is an invariant.
LEMMA TruthInvariance == Spec => []TruthInv
  BY TruthInit, TruthStep, PTL DEF Spec

-----------------------------------------------------------------------------
\* While pids are not recycled STATE says STOPPED only of an init past do_exit
\* and RUNNING only of one not yet a zombie, in every race with the exit, the
\* reaping and other commands.
THEOREM TellsTruth == Spec => []ReportsTruth
<1>1. TruthInv => ReportsTruth
  BY AnswerOf DEF ReportsTruth
<1> QED
  BY <1>1, TruthInvariance, PTL

\* ... and the exit status it gives for a created container that has a watch
\* slot is the word of its own init, however long ago that was reaped.
THEOREM ExitWordKept == Spec => []ExitWordExact
<1>1. TruthInv => ExitWordExact
  <2> SUFFICES ASSUME TruthInv, ~Recycle, NEW e \in registry,
                      Paused(e.task), InUseFor(e.pid) # {}, ReplyState(e) = "STOPPED"
               PROVE  ReplyStatus(e) = exitWord[e.task]
    BY DEF ExitWordExact
  <2> QED
    BY ObservedIsThere, ObservedIsOwn DEF ReplyStatus
<1> QED
  BY <1>1, TruthInvariance, PTL

-----------------------------------------------------------------------------
(* Krunc implements KruncPort.                                             *)

\* Only a container with a gate is ever listed as not started.
OneShotStarted == \A e \in registry : ~Paused(e.task) => e.started

\* Without recycling every task is an init that krunc.ko cloned.
KindsOK ==
    ~Recycle => \A t \in Tasks : phase[t] # "unborn" => kind[t] \in {"paused", "oneshot"}

PortInv == TruthInv /\ OneShotStarted /\ KindsOK

\* The mapping in terms of the task: neither the entry chosen nor the pid
\* probed matters.
Deleting(e) == \E c \in Callers : pc[c] = "unwatch" /\ ident[c] = e.id
Unseen(t) == kind[t] \in {"none", "host"} \/ Spawning(t)
Listed(t) == \E e \in registry : e.task = t /\ ~Deleting(e)
HasStarted(t) == \E e \in registry : e.task = t /\ e.started
Over(t) == phase[t] \in {"zombie", "reaped"}

View(t) ==
    IF Unseen(t) THEN "absent"
    ELSE IF ~Listed(t) THEN "deleted"
    ELSE IF HasStarted(t) THEN "running" ELSE "created"
Lives(t) == ~Unseen(t) /\ ~Over(t)

\* An init that STATE calls created waits at its gate.
LEMMA CreatedWaits ==
    ASSUME PortInv, NEW t \in Tasks, View(t) = "created"
    PROVE  phase[t] = "gate"
<1>1. PICK e \in registry : e.task = t /\ ~Deleting(e)
  BY DEF View, Listed
<1>2. ~e.started
  BY <1>1 DEF View, HasStarted
<1>3. Paused(t)
  BY <1>1, <1>2 DEF PortInv, OneShotStarted
<1>4. action[t] = "WAIT"
  BY <1>1, <1>2, <1>3 DEF PortInv, TruthInv, RefInv, IndInv, StartedIsReleased, Deleting
<1> QED
  BY <1>3, <1>4 DEF PortInv, TruthInv, GateHeld

\* What the refinement mapping says of t is what the registry and the task say.
LEMMA PortView ==
    ASSUME PortInv, ~Recycle, NEW t \in Tasks
    PROVE  PortDom(t) = View(t) /\ (PortAlive(t) <=> Lives(t))
<1>1. CASE Unseen(t)
  BY <1>1 DEF Unseen, View, Lives, PortDom, PortAlive
<1>2. CASE ~Unseen(t) /\ ~Registered(t)
  BY <1>2 DEF Unseen, View, Lives, Over, PortDom, PortAlive, Registered, Listed
<1>3. CASE ~Unseen(t) /\ Registered(t)
  <2> DEFINE e == EntryOf(t)
  <2>1. e \in registry /\ e.task = t
    BY <1>3 DEF EntryOf, Registered
  <2>2. \A f \in registry : f.task = t => f = e
    BY <2>1 DEF PortInv, TruthInv, RefInv, IndInv, EntriesOK
  <2>3. ReplyState(e) = IF ~e.started THEN "CREATED" ELSE IF Over(t) THEN "STOPPED" ELSE "RUNNING"
    BY <2>1, AnswerOf DEF PortInv, Over
  <2>4. PortDom(t) = IF Deleting(e) THEN "deleted"
                     ELSE IF ReplyState(e) = "CREATED" THEN "created" ELSE "running"
    BY <1>3 DEF PortDom, Unseen, Deleting
  <2>5. PortAlive(t) <=> IF Deleting(e) THEN ~Over(t) ELSE ReplyState(e) # "STOPPED"
    BY <2>4 DEF PortAlive, Over
  <2> HIDE DEF e
  <2>6. (Listed(t) <=> ~Deleting(e)) /\ (HasStarted(t) <=> e.started)
    BY <2>1, <2>2, Zenon DEF Listed, HasStarted
  <2>7. PortDom(t) = View(t)
    BY <1>3, <2>3, <2>4, <2>6 DEF View
  <2>8. ~Deleting(e) /\ ~e.started => ~Over(t)
    BY <1>3, <2>6, CreatedWaits DEF View, Over
  <2> QED
    BY <1>3, <2>3, <2>5, <2>7, <2>8 DEF Lives
<1> QED
  BY <1>1, <1>2, <1>3

ViewOK ==
    PortInv /\ ~Recycle =>
        \A t \in Tasks : PortDom(t) = View(t) /\ (PortAlive(t) <=> Lives(t))

\* ... now and in the next state.
LEMMA PortViews == ViewOK /\ ViewOK'
<1>1. ViewOK
  BY PortView DEF ViewOK
<1> QED
  BY <1>1, PTL

\* What clients see of t is what it was.
Same(t) == View(t)' = View(t) /\ (Lives(t)' <=> Lives(t))

\* A step that changes what clients see of no container is a stutter of the port.
LEMMA PortStutter ==
    ASSUME PortInv, PortInv', ~Recycle, \A u \in Tasks : Same(u)
    PROVE  UNCHANGED Port!portVars
<1>1. \A u \in Tasks : PortDom(u)' = PortDom(u) /\ (PortAlive(u)' <=> PortAlive(u))
  BY PortViews DEF ViewOK, Same
<1>2. {u \in Tasks : PortAlive(u)}' = {u \in Tasks : PortAlive(u)}
  BY <1>1
<1>3. [u \in Tasks |-> PortDom(u)]' = [u \in Tasks |-> PortDom(u)]
  BY <1>1
<1> QED
  BY <1>2, <1>3 DEF Port!portVars

\* A step that changes what clients see of one container is a step of the port.
LEMMA PortStep ==
    ASSUME PortInv, PortInv', ~Recycle, NEW k \in Tasks, \A u \in Tasks : u # k => Same(u),
           \/ View(k) = "absent" /\ View(k)' = "created" /\ Lives(k)'
           \/ View(k) = "absent" /\ View(k)' = "running"
           \/ /\ View(k) \in {"created", "running"}
              /\ View(k)' \in {"running", "deleted"}
              /\ Lives(k)' <=> Lives(k)
           \/ /\ View(k) \in {"running", "deleted"} /\ View(k)' = View(k)
              /\ Lives(k) /\ ~Lives(k)'
    PROVE  Port!PortNext
<1> DEFINE D == [t \in Tasks |-> PortDom(t)]
           A == {t \in Tasks : PortAlive(t)}
<1>1. \A u \in Tasks : u # k => PortDom(u)' = PortDom(u) /\ (PortAlive(u)' <=> PortAlive(u))
  BY PortViews DEF ViewOK, Same
<1>2. PortDom(k) = View(k) /\ (PortAlive(k) <=> Lives(k))
  BY PortViews DEF ViewOK
<1>3. PortDom(k)' = View(k)' /\ (PortAlive(k)' <=> Lives(k)')
  BY PortViews DEF ViewOK
<1>4. D' = [D EXCEPT ![k] = View(k)'] /\ D[k] = View(k)
  BY <1>1, <1>2, <1>3
<1>5. A' = IF Lives(k)' THEN A \cup {k} ELSE A \ {k}
  BY <1>1, <1>3
<1>6. k \in A <=> Lives(k)
  BY <1>2
<1>7. View(k) = "absent" => ~Lives(k)
  BY DEF View, Lives
<1> HIDE DEF D, A
<1>8. CASE View(k) = "absent" /\ View(k)' = "created" /\ Lives(k)'
  <2>1. Port!Create(k)
    BY <1>4, <1>5, <1>8 DEF Port!Create, D, A
  <2> QED
    BY <2>1 DEF Port!PortNext
<1>9. CASE View(k) = "absent" /\ View(k)' = "running"
  <2>1. A' \in {A, A \cup {k}}
    BY <1>5, <1>6, <1>7, <1>9
  <2>2. Port!RunOneShot(k)
    BY <1>4, <1>9, <2>1 DEF Port!RunOneShot, D, A
  <2> QED
    BY <2>2 DEF Port!PortNext
<1>10. CASE /\ View(k) \in {"created", "running"}
            /\ View(k)' \in {"running", "deleted"}
            /\ Lives(k)' <=> Lives(k)
  <2>1. A' = A
    BY <1>5, <1>6, <1>10
  <2>2. Port!Start(k) \/ Port!Delete(k)
    BY <1>4, <1>10, <2>1 DEF Port!Start, Port!Delete, Port!Exists, D, A
  <2> QED
    BY <2>2 DEF Port!PortNext
<1>11. CASE /\ View(k) \in {"running", "deleted"} /\ View(k)' = View(k)
            /\ Lives(k) /\ ~Lives(k)'
  <2>1. D' = D
    BY <1>4, <1>11 DEF D
  <2>2. Port!InitEnds(k)
    BY <1>4, <1>5, <1>6, <1>11, <2>1 DEF Port!InitEnds, D, A
  <2> QED
    BY <2>2 DEF Port!PortNext
<1> QED
  BY <1>8, <1>9, <1>10, <1>11

-----------------------------------------------------------------------------
(* The steps.                                                              *)

\* Every step keeps the invariant of the refinement.
LEMMA PortInvStep == PortInv /\ [Next]_vars => PortInv'
<1> SUFFICES ASSUME PortInv, [Next]_vars
             PROVE  PortInv'
  OBVIOUS
<1> USE DEF PortInv, TruthInv, RefInv, IndInv
<1>1. TruthInv'
  BY TruthStep
<1>2. ASSUME NEW t \in Tasks, TaskStep(t)
      PROVE  OneShotStarted' /\ KindsOK'
  <2>1. Frame
    BY <1>2, TaskStepFrame
  <2>2. OneShotStarted'
    BY <2>1 DEF Frame, OneShotStarted, Paused, EntriesOK, TypeOK, Entry
  <2>3. ~Recycle => \A u \in Tasks : phase'[u] # "unborn" => phase[u] # "unborn"
    BY <1>2, TaskMoves DEF Exits, GoesOn, DoExit, HostFork, TypeOK
  <2>4. KindsOK'
    BY <2>1, <2>3 DEF Frame, KindsOK
  <2> QED
    BY <2>2, <2>4
<1>3. ASSUME NEW c \in Callers, CallerStep(c)
      PROVE  OneShotStarted' /\ KindsOK'
  <2>1. CASE \E k \in {"create", "run"} : SpawnClone(c, k)
    <3>1. PICK t \in Tasks :
            /\ IsNextTask(t)
            /\ phase' = [phase EXCEPT ![t] = phase'[t]]
            /\ \E q \in {"paused", "oneshot"} : kind' = [kind EXCEPT ![t] = q]
            /\ registry' = registry
      BY <2>1 DEF SpawnClone, TypeOK
    <3>2. \A e \in registry : e.task \in Tasks /\ e.task # t
      BY <3>1 DEF EntriesOK, IsNextTask, TypeOK, Entry
    <3>3. OneShotStarted'
      BY <3>1, <3>2 DEF OneShotStarted, Paused, TypeOK
    <3>4. KindsOK'
      BY <3>1 DEF KindsOK, TypeOK
    <3> QED
      BY <3>3, <3>4
  <2>2. CASE ~ \E k \in {"create", "run"} : SpawnClone(c, k)
    <3>1. UNCHANGED <<phase, kind>>
      BY <1>3, <2>2, CallersMoveNoTask
    <3>2. \A e \in registry' : e \in registry \/ e = NewEntry(c)
      BY <1>3, <2>2 DEF CallerStep, SpawnWatch, SpawnPush, SpawnPushFails, KillLookup,
                        KillSignal, DeleteBegin, DeleteEnd, TextKill, TextRetain
    <3>3. ~Paused(NewEntry(c).task) => NewEntry(c).started
      BY DEF NewEntry
    <3> QED
      BY <3>1, <3>2, <3>3 DEF OneShotStarted, KindsOK, Paused
  <2> QED
    BY <2>1, <2>2
<1>4. ASSUME NEW e \in registry, StartContainer(e) \/ ContainerState(e)
      PROVE  OneShotStarted' /\ KindsOK'
  <2>1. UNCHANGED <<phase, kind>>
    BY <1>4 DEF StartContainer, ContainerState, taskVars
  <2>2. e \in Entry
    BY DEF TypeOK
  <2>3. CASE StartContainer(e)
    BY <2>1, <2>2, <2>3 DEF StartContainer, OneShotStarted, KindsOK, Paused, Entry
  <2>4. CASE ContainerState(e)
    BY <2>1, <2>2, <2>4 DEF ContainerState, OneShotStarted, KindsOK, Paused, Entry
  <2> QED
    BY <1>4, <2>3, <2>4
<1>5. ASSUME UNCHANGED vars
      PROVE  OneShotStarted' /\ KindsOK'
  BY <1>5 DEF vars, OneShotStarted, KindsOK, Paused
<1>6. OneShotStarted' /\ KindsOK'
  BY <1>2, <1>3, <1>4, <1>5 DEF Next
<1> QED
  BY <1>1, <1>6

\* What clients see depends on the kinds, the registry, the threads in spawn
\* and in delete, and on which inits are over.
LEMMA SameView ==
    ASSUME NEW u \in Tasks, kind'[u] = kind[u], Spawning(u)' <=> Spawning(u),
           registry' = registry, \A e \in registry : Deleting(e)' <=> Deleting(e)
    PROVE  View(u)' = View(u) /\ (Unseen(u)' <=> Unseen(u))
  BY DEF View, Unseen, Listed, HasStarted

\* A task's steps: clients see the init end when it becomes a zombie.
LEMMA TaskPort ==
    ASSUME PortInv, PortInv', ~Recycle, NEW t \in Tasks, TaskStep(t)
    PROVE  [Port!PortNext]_(Port!portVars)
<1> USE DEF PortInv, TruthInv, RefInv, IndInv
<1>1. ~HostFork(t)
  BY DEF HostFork
<1>2. UNCHANGED <<kind, registry, pc, mine, ident>>
  BY <1>1, TaskMoves DEF Exits, GoesOn, DoExit, callVars
<1>3. \A u \in Tasks : View(u)' = View(u) /\ (Unseen(u)' <=> Unseen(u))
  BY <1>2, SameView DEF Spawning, Deleting
<1>4. \A u \in Tasks : u # t => (Over(u)' <=> Over(u))
  BY <1>1, TaskMoves DEF Exits, GoesOn, DoExit, Over, TypeOK
<1>5. \A u \in Tasks : u # t => Same(u)
  BY <1>3, <1>4 DEF Same, Lives
<1>6. CASE Same(t)
  BY <1>5, <1>6, PortStutter
<1>7. CASE ~Same(t)
  <2>1. ~Unseen(t) /\ (Over(t)' # Over(t))
    BY <1>3, <1>7 DEF Same, Lives
  <2>2. BecomesZombie(t)
    BY <1>1, <2>1 DEF TaskStep, PassGate, DoomedExit, Exec, SetupFails, ProgramExits, Dies,
                      IsReaped, Move, DoExit, Over, TypeOK
  <2>3. phase[t] = "exiting" /\ ~Over(t) /\ Over(t)'
    BY <2>2 DEF BecomesZombie, Move, Over, TypeOK
  <2>4. View(t) # "created"
    BY <2>3, CreatedWaits
  <2>5. View(t) \in {"running", "deleted"}
    BY <2>1, <2>4 DEF View
  <2>6. Lives(t) /\ ~Lives(t)'
    BY <2>1, <2>3 DEF Lives
  <2> QED
    BY <1>3, <1>5, <2>5, <2>6, PortStep
<1> QED
  BY <1>6, <1>7

\* A thread that leaves the registry, and the task it may have in spawn, alone
\* is not seen.
LEMMA ThreadUnseen ==
    ASSUME PortInv, PortInv', ~Recycle, NEW c \in Callers,
           UNCHANGED <<phase, kind, registry>>,
           \A d \in Callers : d # c => pc'[d] = pc[d] /\ mine'[d] = mine[d] /\ ident'[d] = ident[d],
           mine'[c] = mine[c] \/ (mine[c] \notin Tasks /\ mine'[c] \notin Tasks),
           pc[c] # "unwatch" /\ pc'[c] # "unwatch"
    PROVE  UNCHANGED Port!portVars
<1>1. \A u \in Tasks : Spawning(u)' <=> Spawning(u)
  BY DEF Spawning
<1>2. \A e \in registry : Deleting(e)' <=> Deleting(e)
  BY DEF Deleting
<1>3. \A u \in Tasks : Same(u)
  BY <1>1, <1>2, SameView DEF Same, Lives, Over
<1> QED
  BY <1>3, PortStutter

\* spawn shows its container when it registers it.
LEMMA SpawnPort ==
    ASSUME PortInv, PortInv', ~Recycle, NEW c \in Callers, SpawnPush(c)
    PROVE  [Port!PortNext]_(Port!portVars)
<1> USE DEF PortInv, TruthInv, RefInv, IndInv
<1>1. PICK k \in Tasks : k = mine[c]
  BY DEF SpawnPush, CallersOK
<1>2. Spawning(k) /\ phase[k] # "unborn"
  BY <1>1 DEF SpawnsOK, Spawning
<1>3. PICK n : n = NewEntry(c)
  OBVIOUS
<1>4. /\ registry' = registry \cup {n}
      /\ UNCHANGED <<phase, kind, action>>
      /\ mine' = [mine EXCEPT ![c] = NoTask]
  BY <1>3 DEF SpawnPush, Return, taskVars
<1>5. n.task = k /\ (n.started <=> ~Paused(k))
  BY <1>1, <1>3 DEF NewEntry
<1>6. \A e \in registry : e.task # k
  BY <1>1 DEF SpawnsOK
<1>7. \A e \in registry' : ~Deleting(e) /\ ~Deleting(e)'
  <2>1. \A d \in Callers : pc[d] # "unwatch"
    BY KruncAssumption DEF SpawnPush, CallersOK
  <2> QED
    BY <2>1 DEF Deleting, SpawnPush, Return, TypeOK
<1>8. \A u \in Tasks : u # k => (Spawning(u)' <=> Spawning(u))
  BY <1>1, <1>4, KruncAssumption DEF Spawning, TypeOK
<1>9. ~Spawning(k)'
  BY <1>1, <1>4, KruncAssumption DEF Spawning, SpawnsOK, TypeOK
<1>10. \A u \in Tasks : u # k => Same(u)
  <2> SUFFICES ASSUME NEW u \in Tasks, u # k
               PROVE  Same(u)
    OBVIOUS
  <2>1. Unseen(u)' <=> Unseen(u)
    BY <1>4, <1>8 DEF Unseen
  <2>2. Listed(u)' <=> Listed(u)
    BY <1>4, <1>5, <1>7 DEF Listed
  <2>3. HasStarted(u)' <=> HasStarted(u)
    BY <1>4, <1>5 DEF HasStarted
  <2> QED
    BY <1>4, <2>1, <2>2, <2>3 DEF Same, View, Lives, Over
<1>11. View(k) = "absent"
  BY <1>2 DEF View, Unseen
<1>12. ~Unseen(k)' /\ Listed(k)'
  BY <1>2, <1>4, <1>5, <1>7, <1>9 DEF Unseen, Listed, KindsOK
<1>13. HasStarted(k)' <=> ~Paused(k)
  BY <1>4, <1>5, <1>6 DEF HasStarted
<1>14. Paused(k) => ~Over(k)'
  <2>1. Paused(k) => phase[k] = "gate"
    BY <1>1 DEF SpawnsOK, GateHeld
  <2> QED
    BY <1>4, <2>1 DEF Over
<1> QED
  BY <1>2, <1>10, <1>11, <1>12, <1>13, <1>14, PortStep DEF View, Lives

\* start_container and container_state: the first is START, the second does
\* not change what it answers.
LEMMA EntryPort ==
    ASSUME PortInv, PortInv', ~Recycle, NEW e \in registry,
           StartContainer(e) \/ ContainerState(e)
    PROVE  [Port!PortNext]_(Port!portVars)
<1> USE DEF PortInv, TruthInv, RefInv, IndInv
<1>1. UNCHANGED <<phase, kind, pc, mine, ident>>
  BY DEF StartContainer, ContainerState, taskVars, callVars
<1>2. e.task \in Tasks /\ phase[e.task] # "unborn"
  BY EntryHolder
<1>3. PICK s : /\ registry' = (registry \ {e}) \cup {s}
               /\ s.task = e.task /\ s.id = e.id
               /\ (StartContainer(e) /\ s.started) \/ s.started = e.started
  <2>1. e \in Entry
    BY DEF TypeOK
  <2>2. CASE StartContainer(e)
    <3> DEFINE s == [e EXCEPT !.started = TRUE]
    <3>1. s.task = e.task /\ s.id = e.id /\ s.started
      BY <2>1 DEF Entry
    <3>2. registry' = (registry \ {e}) \cup {s}
      BY <2>2 DEF StartContainer
    <3> HIDE DEF s
    <3> QED
      BY <2>2, <3>1, <3>2
  <2>3. CASE ContainerState(e)
    <3> DEFINE s == [e EXCEPT !.exit = ObservedExit(e)]
    <3>1. s.task = e.task /\ s.id = e.id /\ s.started = e.started
      BY <2>1 DEF Entry
    <3>2. registry' = (registry \ {e}) \cup {s}
      BY <2>3 DEF ContainerState
    <3> HIDE DEF s
    <3> QED
      BY <3>1, <3>2
  <2> QED
    BY <2>2, <2>3
<1>4. \A d \in Callers : pc[d] # "unwatch"
  BY KruncAssumption DEF StartContainer, ContainerState, CallersOK
<1>5. \A f : ~Deleting(f) /\ ~Deleting(f)'
  BY <1>1, <1>4 DEF Deleting
<1>6. \A u \in Tasks : (Unseen(u)' <=> Unseen(u)) /\ (Over(u)' <=> Over(u))
  BY <1>1 DEF Unseen, Over, Spawning
<1>7. \A u \in Tasks : Listed(u)' <=> Listed(u)
  BY <1>3, <1>5 DEF Listed
<1>8. \A u \in Tasks : u # e.task => (HasStarted(u)' <=> HasStarted(u))
  BY <1>3 DEF HasStarted
<1>9. \A u \in Tasks : u # e.task => Same(u)
  BY <1>6, <1>7, <1>8 DEF Same, View, Lives
<1>10. (HasStarted(e.task) <=> e.started) /\ (HasStarted(e.task)' <=> s.started)
  <2>1. \A f \in registry : f.task = e.task => f = e
    BY DEF EntriesOK
  <2> QED
    BY <1>3, <2>1 DEF HasStarted
<1>11. ~Unseen(e.task) /\ Listed(e.task)
  BY <1>2, <1>5 DEF Unseen, Listed, Spawning, SpawnsOK, KindsOK
<1>12. CASE s.started
  BY <1>2, <1>6, <1>7, <1>9, <1>10, <1>11, <1>12, PortStep DEF View, Lives
<1>13. CASE s.started = e.started
  <2>1. Same(e.task)
    BY <1>2, <1>6, <1>7, <1>10, <1>13 DEF Same, View, Lives
  <2> QED
    BY <1>9, <2>1, PortStutter
<1> QED
  BY <1>3, <1>12, <1>13

\* The clone is not seen until it is registered.
LEMMA ClonePort ==
    ASSUME PortInv, PortInv', ~Recycle, NEW c \in Callers,
           \E k \in {"create", "run"} : SpawnClone(c, k)
    PROVE  UNCHANGED Port!portVars
<1> USE DEF PortInv, TruthInv, RefInv, IndInv
<1>1. PICK t \in Tasks :
        /\ IsNextTask(t)
        /\ \A u \in Tasks : u # t => phase'[u] = phase[u] /\ kind'[u] = kind[u]
        /\ mine' = [mine EXCEPT ![c] = t]
  BY DEF SpawnClone, TypeOK
<1>2. /\ pc[c] = "idle" /\ pc' = [pc EXCEPT ![c] = "watch"]
      /\ UNCHANGED <<registry, ident>>
  BY DEF SpawnClone
<1>3. mine[c] \notin Tasks
  BY <1>2 DEF CallersOK
<1>4. \A u \in Tasks : u # t => (Spawning(u)' <=> Spawning(u))
  BY <1>1, <1>3 DEF Spawning, TypeOK
<1>5. \A e \in registry : Deleting(e)' <=> Deleting(e)
  BY <1>2 DEF Deleting, TypeOK
<1>6. \A u \in Tasks : u # t => Same(u)
  <2> SUFFICES ASSUME NEW u \in Tasks, u # t
               PROVE  Same(u)
    OBVIOUS
  <2>1. kind'[u] = kind[u] /\ phase'[u] = phase[u]
    BY <1>1 DEF TypeOK
  <2> QED
    BY <1>2, <1>4, <1>5, <2>1, SameView DEF Same, Lives, Over
<1>7. Unseen(t)
  BY <1>1 DEF Unseen, UnbornOK, IsNextTask
<1>8. Unseen(t)'
  BY <1>1 DEF Unseen, Spawning, TypeOK
<1>9. Same(t)
  BY <1>7, <1>8 DEF Same, View, Lives
<1> QED
  BY <1>6, <1>9, PortStutter

\* A container that stops being listed while nothing else changes is deleted.
LEMMA Disappears ==
    ASSUME PortInv, PortInv', ~Recycle, NEW e \in registry, ~Deleting(e),
           UNCHANGED <<phase, kind>>,
           \A u \in Tasks : Spawning(u)' <=> Spawning(u),
           \A u \in Tasks : u # e.task => /\ Listed(u)' <=> Listed(u)
                                          /\ HasStarted(u)' <=> HasStarted(u),
           ~Listed(e.task)'
    PROVE  Port!PortNext
<1> USE DEF PortInv, TruthInv, RefInv, IndInv
<1>1. e.task \in Tasks /\ phase[e.task] # "unborn"
  BY EntryHolder
<1>2. \A u \in Tasks : (Unseen(u)' <=> Unseen(u)) /\ (Over(u)' <=> Over(u))
  BY DEF Unseen, Over
<1>3. \A u \in Tasks : u # e.task => Same(u)
  BY <1>2 DEF Same, View, Lives
<1>4. ~Unseen(e.task)
  BY <1>1 DEF Unseen, Spawning, SpawnsOK, KindsOK
<1>5. Listed(e.task)
  BY DEF Listed
<1> QED
  BY <1>1, <1>2, <1>3, <1>4, <1>5, PortStep DEF View, Lives

\* delete_container is seen when it takes the mutex.
LEMMA DeletePort ==
    ASSUME PortInv, PortInv', ~Recycle, NEW c \in Callers, NEW e \in registry,
           DeleteBegin(c, e)
    PROVE  Port!PortNext
<1> USE DEF PortInv, TruthInv, RefInv, IndInv
<1>1. UNCHANGED <<phase, kind, registry, mine>>
  BY DEF DeleteBegin
<1>2. \A d \in Callers : pc[d] # "unwatch"
  BY KruncAssumption DEF DeleteBegin, CallersOK
<1>3. \A f \in registry : ~Deleting(f) /\ (Deleting(f)' <=> f.id = e.id)
  BY <1>2 DEF Deleting, DeleteBegin, TypeOK
<1>4. \A f \in registry : Deleting(f)' <=> f = e
  BY <1>3 DEF IdsOK, IdsDistinct
<1>5. \A u \in Tasks : Spawning(u)' <=> Spawning(u)
  BY <1>1 DEF Spawning
<1>6. \A u \in Tasks : HasStarted(u)' <=> HasStarted(u)
  BY <1>1 DEF HasStarted
<1>7. \A u \in Tasks : u # e.task => (Listed(u)' <=> Listed(u))
  BY <1>1, <1>3, <1>4 DEF Listed
<1>8. ~Listed(e.task)'
  <2>1. \A f \in registry : f.task = e.task => f = e
    BY DEF EntriesOK
  <2> QED
    BY <1>1, <1>4, <2>1 DEF Listed
<1> QED
  BY <1>1, <1>3, <1>5, <1>6, <1>7, <1>8, Disappears

\* ... and its end, which removes the entry, is not.
LEMMA DeleteEndPort ==
    ASSUME PortInv, PortInv', ~Recycle, NEW c \in Callers, DeleteEnd(c)
    PROVE  UNCHANGED Port!portVars
<1> USE DEF PortInv, TruthInv, RefInv, IndInv
<1>1. /\ UNCHANGED <<phase, kind>>
      /\ registry' = {e \in registry : e.id # ident[c]}
      /\ pc[c] = "unwatch"
      /\ pc' = [pc EXCEPT ![c] = "idle"]
      /\ mine' = [mine EXCEPT ![c] = NoTask]
  BY DEF DeleteEnd, Return, taskVars
<1>2. lock = c /\ mine[c] \notin Tasks
  BY <1>1 DEF CallersOK
<1>3. \A d \in Callers : pc[d] = "unwatch" <=> d = c
  BY <1>2 DEF CallersOK
<1>4. \A e \in registry : Deleting(e) <=> e.id = ident[c]
  BY <1>3 DEF Deleting
<1>5. \A e : ~Deleting(e)'
  BY <1>1, <1>3 DEF Deleting, TypeOK
<1>6. \A u \in Tasks : Spawning(u)' <=> Spawning(u)
  BY <1>1, <1>2, KruncAssumption DEF Spawning, TypeOK
<1>7. \A u \in Tasks : Listed(u)' <=> Listed(u)
  BY <1>1, <1>4, <1>5 DEF Listed
<1>8. \A u \in Tasks : Listed(u) => (HasStarted(u)' <=> HasStarted(u))
  BY <1>1, <1>4 DEF Listed, HasStarted, EntriesOK
<1>9. \A u \in Tasks : Same(u)
  BY <1>1, <1>6, <1>7, <1>8 DEF Same, View, Lives, Unseen, Over
<1> QED
  BY <1>9, PortStutter

\* The text `kill` deletes, for its clients, the container of the pid.
LEMMA RetainPort ==
    ASSUME PortInv, PortInv', ~Recycle, NEW c \in Callers, TextRetain(c)
    PROVE  [Port!PortNext]_(Port!portVars)
<1> USE DEF PortInv, TruthInv, RefInv, IndInv
<1>1. /\ UNCHANGED <<phase, kind>>
      /\ registry' = {e \in registry : e.pid # target[c]}
      /\ pc[c] = "retain"
      /\ pc' = [pc EXCEPT ![c] = "idle"]
      /\ mine' = [mine EXCEPT ![c] = NoTask]
  BY DEF TextRetain, Return, taskVars
<1>2. \A d \in Callers : pc[d] # "unwatch"
  BY KruncAssumption DEF TextRetain, CallersOK
<1>3. \A e : ~Deleting(e) /\ ~Deleting(e)'
  BY <1>1, <1>2 DEF Deleting, TypeOK
<1>4. mine[c] \notin Tasks
  BY <1>1 DEF CallersOK
<1>5. \A u \in Tasks : Spawning(u)' <=> Spawning(u)
  BY <1>1, <1>4, KruncAssumption DEF Spawning, TypeOK
<1>6. CASE registry' = registry
  <2>1. \A u \in Tasks : Same(u)
    BY <1>1, <1>3, <1>5, <1>6, SameView DEF Same, Lives, Over
  <2> QED
    BY <2>1, PortStutter
<1>7. CASE registry' # registry
  <2>1. PICK e \in registry : e.pid = target[c]
    BY <1>1, <1>7
  <2>2. \A f \in registry : f.pid = target[c] <=> f = e
    <3>1. \A f \in registry : f.task \in Tasks /\ f.pid = pidOf[f.task] /\ f.pid \in Pids
      BY DEF PidsOK, TypeOK, Entry
    <3> QED
      BY <2>1, <3>1 DEF PidsOK, EntriesOK
  <2>3. registry' = registry \ {e}
    BY <1>1, <2>2
  <2>4. \A u \in Tasks : u # e.task => /\ Listed(u)' <=> Listed(u)
                                       /\ HasStarted(u)' <=> HasStarted(u)
    BY <1>3, <2>3 DEF Listed, HasStarted
  <2>5. ~Listed(e.task)'
    BY <2>3 DEF Listed, EntriesOK
  <2> QED
    BY <1>1, <1>3, <1>5, <2>4, <2>5, Disappears
<1> QED
  BY <1>6, <1>7

\* krunc.ko implements /dev/krunc as its clients are modelled against it, for
\* every number of callers, tasks, pids and watch slots and with the text
\* plane used or not, as long as pids are not recycled and the registry can
\* grow.
THEOREM PortRefinement ==
    ASSUME ~Recycle, ~AllocFails
    PROVE  Spec => RefinesPort
<1>1. Init => PortInv /\ Port!PortInit
  <2> SUFFICES ASSUME Init
               PROVE  PortInv /\ Port!PortInit
    OBVIOUS
  <2>1. PortInv
    BY TruthInit DEF Init, PortInv, OneShotStarted, KindsOK
  <2>2. \A t \in Tasks : PortDom(t) = "absent" /\ ~PortAlive(t)
    BY DEF Init, PortDom, PortAlive
  <2> QED
    BY <2>1, <2>2 DEF Port!PortInit
<1>2. ASSUME PortInv, PortInv', [Next]_vars
      PROVE  [Port!PortNext]_(Port!portVars)
  <2> USE <1>2
  <2>1. ASSUME NEW c \in Callers, CallerStep(c)
        PROVE  [Port!PortNext]_(Port!portVars)
    <3>1. CASE SpawnWatch(c)
      BY <3>1, ThreadUnseen DEF SpawnWatch, taskVars, PortInv, TruthInv, RefInv, IndInv, TypeOK
    <3>2. CASE \/ \E e \in registry, sig \in {0, SIGKILL} : KillLookup(c, e, sig)
               \/ KillSignal(c)
               \/ \E p \in Pids : TextKill(c, p)
      <4>1. mine[c] \notin Tasks
        BY <3>2 DEF KillLookup, KillSignal, TextKill, PortInv, TruthInv, RefInv, IndInv, CallersOK
      <4> QED
        BY <3>2, <4>1, ThreadUnseen, KruncAssumption
        DEF KillLookup, KillSignal, TextKill, Return, taskVars, PortInv, TruthInv, RefInv,
            IndInv, TypeOK
    <3>3. ~SpawnPushFails(c)
      BY DEF SpawnPushFails
    <3> QED
      BY <2>1, <3>1, <3>2, <3>3, ClonePort, SpawnPort, DeletePort, DeleteEndPort, RetainPort
      DEF CallerStep
  <2>2. CASE UNCHANGED vars
    <3>1. \A u \in Tasks : Same(u)
      BY <2>2, SameView DEF vars, Same, Lives, Over, Spawning, Deleting
    <3> QED
      BY <3>1, PortStutter
  <2> QED
    BY <2>1, <2>2, TaskPort, EntryPort DEF Next
<1> QED
  BY <1>1, <1>2, PortInvStep, PTL DEF Spec, RefinesPort, Port!PortSpec
=============================================================================
