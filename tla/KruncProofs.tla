---------------------------- MODULE KruncProofs ----------------------------
(***************************************************************************)
(* The gate and registry invariants of Krunc for every number of callers,  *)
(* tasks, pids and watch slots, with pids recycled or not and registry     *)
(* allocations failing or not.                                             *)
(*                                                                         *)
(* No invariant of Krunc is inductive alone.  Whether delete may doom a    *)
(* gate is read off the entry's `started`, so NoRunBeforeStart needs that  *)
(* `started` and the gate agree; that needs one entry per task, so that    *)
(* nobody else opens the gate; that needs the tasks in spawn to be fresh   *)
(* and registered by their own thread only.                                *)
(***************************************************************************)
EXTENDS Krunc, FiniteSetTheorems, TLAPS

-----------------------------------------------------------------------------
(* The exit-capture table: what a call of ExitWatch does to the type of    *)
(* the slots and to the count of those in use, for a table of any size.    *)

\* Well-foundedness of the naturals: a scan over a nonempty set of slot
\* indices stops, and at one of them.
LEMMA FirstSlotIn ==
    ASSUME NEW S, S \subseteq Slots, S # {}
    PROVE  FirstSlot(S) \in S
<1> DEFINE R == OpToRel(<, Nat)
<1>1. S \subseteq Nat
  BY WatchAssumption DEF Slots
<1>2. \E x \in S : \A y \in S : ~ (<<y, x>> \in R)
  <2>1. IsWellFoundedOn(R, Nat)
    BY NatLessThanWellFounded
  <2> HIDE DEF R
  <2> QED
    BY <1>1, <2>1, WFMin
<1>3. \E x \in S : \A y \in S : x <= y
  <2>1. PICK x \in S : \A y \in S : ~ (<<y, x>> \in R)
    BY <1>2
  <2>2. ASSUME NEW y \in S
        PROVE  x <= y
    <3>1. ~ (y < x)
      BY <1>1, <2>1 DEF OpToRel
    <3> QED
      BY <1>1, <3>1
  <2> QED
    BY <2>2
<1> QED
  BY <1>3 DEF FirstSlot

\* The sets of slots the operations scan lie in a finite table.
LEMMA SlotSets ==
    /\ IsFiniteSet(Slots)
    /\ IsFiniteSet(InUse)
    /\ Cardinality(InUse) \in Nat
<1>1. IsFiniteSet(Slots)
  BY FS_Interval, WatchAssumption DEF Slots
<1>2. InUse \in SUBSET Slots
  BY DEF InUse
<1>3. IsFiniteSet(InUse)
  BY <1>1, <1>2, FS_Subset
<1> QED
  BY <1>1, <1>3, FS_CardinalityType

\* The empty table counts no slots.
LEMMA WatchInitOK ==
    WatchInit => WatchTypeOK /\ WatchCounted
<1> SUFFICES ASSUME WatchInit
             PROVE  WatchTypeOK /\ WatchCounted
  OBVIOUS
<1>1. WatchTypeOK
  BY WatchAssumption DEF WatchInit, WatchTypeOK, FreeSlot, Slot
<1>2. InUse = {}
  BY DEF WatchInit, InUse, FreeSlot
<1> QED
  BY <1>1, <1>2, FS_EmptySet DEF WatchInit, WatchCounted

\* krunc_watch_pid arms one slot and counts it, or finds the table full.
LEMMA WatchPidOK ==
    ASSUME WatchTypeOK, WatchCounted, NEW p \in Pids, WatchPid(p)
    PROVE  WatchTypeOK' /\ WatchCounted'
<1>1. CASE FreeSlots = {}
  BY <1>1 DEF WatchPid, watchVars, WatchTypeOK, WatchCounted, InUse
<1>2. CASE FreeSlots # {}
  <2> DEFINE f == FirstSlot(FreeSlots)
  <2>1. f \in FreeSlots
    BY <1>2, FirstSlotIn DEF FreeSlots
  <2>2. /\ f \in Slots
        /\ slots[f].st = "free"
    BY <2>1 DEF FreeSlots
  <2>3. /\ slots' = [slots EXCEPT ![f] = [st |-> "armed", pid |-> p, code |-> 0]]
        /\ numWatched' = numWatched + 1
    BY <1>2 DEF WatchPid
  <2> HIDE DEF f
  <2>4. WatchTypeOK'
    BY <2>2, <2>3, WatchAssumption DEF WatchTypeOK, Slot
  <2>5. InUse' = InUse \cup {f}
    BY <2>2, <2>3 DEF InUse, WatchTypeOK
  <2>6. f \notin InUse
    BY <2>2 DEF InUse
  <2> QED
    BY <2>3, <2>4, <2>5, <2>6, SlotSets, FS_AddElement DEF WatchCounted
<1> QED
  BY <1>1, <1>2

\* krunc_unwatch_pid frees the slots of a pid and takes each off the count,
\* which cannot go below zero.
LEMMA UnwatchPidOK ==
    ASSUME WatchTypeOK, WatchCounted, NEW p \in Pids, UnwatchPid(p)
    PROVE  WatchTypeOK' /\ WatchCounted'
<1>1. slots' \in [Slots -> Slot]
  BY WatchAssumption DEF WatchTypeOK, UnwatchPid, FreeSlot, Slot
<1>2. InUse' = InUse \ InUseFor(p)
  BY <1>1 DEF WatchTypeOK, UnwatchPid, InUse, InUseFor, FreeSlot
<1>3. InUse \cap InUseFor(p) = InUseFor(p)
  BY DEF InUse, InUseFor
<1>4. /\ IsFiniteSet(InUse')
      /\ Cardinality(InUse') = Cardinality(InUse) - Cardinality(InUseFor(p))
  BY <1>2, <1>3, SlotSets, FS_Difference
<1>5. Cardinality(InUse') \in Nat
  BY <1>4, FS_CardinalityType
<1> QED
  BY <1>1, <1>4, <1>5 DEF UnwatchPid, WatchTypeOK, WatchCounted

\* The kprobe on do_exit changes neither which slots are in use nor the count.
LEMMA ExitHookOK ==
    ASSUME WatchTypeOK, WatchCounted, NEW p, NEW w \in Words, ExitHook(p, w)
    PROVE  WatchTypeOK' /\ WatchCounted'
<1>1. CASE numWatched # 0 /\ ArmedFor(p) # {}
  <2> DEFINE f == FirstSlot(ArmedFor(p))
  <2>1. f \in ArmedFor(p)
    BY <1>1, FirstSlotIn DEF ArmedFor
  <2>2. /\ f \in Slots
        /\ slots[f].st = "armed"
    BY <2>1 DEF ArmedFor
  <2>3. /\ slots' = [slots EXCEPT ![f].st = "exited", ![f].code = w]
        /\ numWatched' = numWatched
    BY <1>1 DEF ExitHook
  <2> HIDE DEF f
  <2>4. WatchTypeOK'
    BY <2>2, <2>3 DEF WatchTypeOK, Slot
  <2>5. InUse' = InUse
    BY <2>2, <2>3 DEF InUse, WatchTypeOK, Slot
  <2> QED
    BY <2>3, <2>4, <2>5 DEF WatchCounted
<1>2. CASE ~(numWatched # 0 /\ ArmedFor(p) # {})
  BY <1>2 DEF ExitHook, WatchTypeOK, WatchCounted, InUse
<1> QED
  BY <1>1, <1>2

\* What krunc_get_exit_code returns is a status word.
LEMMA CapturedWordType ==
    ASSUME WatchTypeOK, NEW p, Captured(p)
    PROVE  CapturedWord(p) \in Words
<1>1. FirstSlot(ExitedFor(p)) \in Slots
  BY FirstSlotIn DEF Captured, ExitedFor
<1> QED
  BY <1>1 DEF CapturedWord, WatchTypeOK, Slot

-----------------------------------------------------------------------------
(* The inductive invariant of the module, part by part.                    *)

\* The locals of a handler are what its pc says: a cloned task between clone
\* and push, a pid while one is needed, the mutex in delete's second half.
CallersOK ==
    \A c \in Callers :
        /\ pc[c] \in {"watch", "push"} <=> mine[c] \in Tasks
        /\ pc[c] # "idle" => target[c] \in Pids
        /\ pc[c] = "push" => ident[c] # 0
        /\ pc[c] = "unwatch" <=> lock = c

\* A task not yet cloned has no history.
UnbornOK ==
    \A t \in Tasks :
        phase[t] = "unborn" => kind[t] = "none" /\ action[t] = "WAIT" /\ t \notin ran

\* A task in spawn is its thread's alone and its gate is untouched.
SpawnsOK ==
    \A c \in Callers : mine[c] \in Tasks =>
        /\ phase[mine[c]] # "unborn"
        /\ action[mine[c]] = "WAIT"
        /\ \A e \in registry : e.task # mine[c]
        /\ \A d \in Callers : d # c => mine[d] # mine[c]

\* Every entry is of an existing task of its own.
EntriesOK ==
    /\ \A e \in registry : phase[e.task] # "unborn"
    /\ \A e, f \in registry : e.task = f.task => e = f

\* Ids are distinct, those about to be registered included.
IdsOK ==
    /\ IdsDistinct
    /\ \A c, d \in Callers :
        pc[c] = "push" /\ pc[d] = "push" /\ ident[c] = ident[d] => c = d

IndInv ==
    /\ TypeOK
    /\ WatchCounted
    /\ CallersOK
    /\ UnbornOK
    /\ SpawnsOK
    /\ EntriesOK
    /\ IdsOK
    /\ StartedIsReleased
    /\ NoRunBeforeStart

-----------------------------------------------------------------------------
\* Before the first command there is nothing to get wrong.
LEMMA InitInv == Init => IndInv
<1> SUFFICES ASSUME Init
             PROVE  IndInv
  OBVIOUS
<1>1. WatchTypeOK /\ WatchCounted
  BY WatchInitOK DEF Init
<1>2. TypeOK
  BY <1>1, KruncAssumption DEF Init, TypeOK, Phases, Steps, Entry
<1>3. CallersOK
  BY KruncAssumption DEF Init, CallersOK
<1>4. UnbornOK /\ EntriesOK
  BY DEF Init, UnbornOK, EntriesOK
<1>5. SpawnsOK
  BY KruncAssumption DEF Init, SpawnsOK
<1>6. IdsOK
  BY DEF Init, IdsOK, IdsDistinct
<1>7. StartedIsReleased /\ NoRunBeforeStart
  BY DEF Init, StartedIsReleased, NoRunBeforeStart, Paused
<1> QED
  BY <1>1, <1>2, <1>3, <1>4, <1>5, <1>6, <1>7 DEF IndInv

\* A step of a task leaves the registry and the handlers alone, opens no gate,
\* and gives a kind and a first phase to a task that had none only.
Frame ==
    /\ UNCHANGED <<action, registry, nextId, lock, pc, mine, ident, target>>
    /\ \A u \in Tasks : phase[u] # "unborn" => /\ phase'[u] # "unborn"
                                               /\ kind'[u] = kind[u]
    /\ \A u \in Tasks : phase'[u] = "unborn" => /\ phase[u] = "unborn"
                                                /\ kind'[u] = kind[u]
                                                /\ u \in ran' => u \in ran

\* The type of the state after each step of a task, and its frame.
LEMMA TaskStepFrame ==
    ASSUME IndInv, NEW t \in Tasks, TaskStep(t)
    PROVE  TypeOK' /\ WatchCounted' /\ Frame
<1> USE DEF IndInv
<1>1. ASSUME NEW w \in Words, DoExit(t, w), phase[t] # "unborn"
      PROVE  TypeOK' /\ WatchCounted' /\ Frame
  <2>1. WatchTypeOK' /\ WatchCounted'
    BY <1>1, ExitHookOK DEF DoExit, TypeOK
  <2>2. TypeOK'
    BY <1>1, <2>1 DEF DoExit, TypeOK, Phases, callVars
  <2>3. Frame
    BY <1>1 DEF DoExit, Frame, TypeOK, callVars
  <2> QED
    BY <2>1, <2>2, <2>3
<1>2. ASSUME NEW from \in Phases, NEW to \in Phases, Move(t, from, to),
             from # "unborn", to # "unborn", ran' \in {ran, ran \cup {t}}
      PROVE  TypeOK' /\ WatchCounted' /\ Frame
  <2>1. WatchTypeOK' /\ WatchCounted'
    BY <1>2 DEF Move, TypeOK, watchVars, WatchTypeOK, WatchCounted, InUse
  <2>2. TypeOK'
    BY <1>2, <2>1 DEF Move, TypeOK, callVars
  <2>3. Frame
    BY <1>2 DEF Move, Frame, TypeOK, callVars
  <2> QED
    BY <2>1, <2>2, <2>3
<1>3. CASE PassGate(t)
  BY <1>2, <1>3 DEF PassGate, Phases
<1>4. CASE DoomedExit(t)
  BY <1>1, <1>4, WatchAssumption DEF DoomedExit
<1>5. CASE Exec(t)
  BY <1>2, <1>5 DEF Exec, Phases
<1>6. CASE SetupFails(t)
  BY <1>1, <1>6, KruncAssumption DEF SetupFails
<1>7. CASE ProgramExits(t)
  BY <1>1, <1>7, KruncAssumption DEF ProgramExits
<1>8. CASE Dies(t)
  BY <1>1, <1>8, KruncAssumption DEF Dies
<1>9. CASE BecomesZombie(t)
  BY <1>2, <1>9 DEF BecomesZombie, Phases
<1>10. CASE IsReaped(t)
  BY <1>2, <1>10 DEF IsReaped, Phases
<1>11. CASE HostFork(t)
  <2>1. WatchTypeOK' /\ WatchCounted'
    BY <1>11 DEF HostFork, TypeOK, watchVars, WatchTypeOK, WatchCounted, InUse
  <2>2. PICK p \in NextPids : pidOf' = [pidOf EXCEPT ![t] = p]
    BY <1>11 DEF HostFork
  <2>3. p \in Pids
    BY <2>2 DEF NextPids, Unused
  <2>4. TypeOK'
    BY <1>11, <2>1, <2>2, <2>3 DEF HostFork, TypeOK, Phases, callVars
  <2>5. Frame
    BY <1>11 DEF HostFork, IsNextTask, Frame, TypeOK, callVars
  <2> QED
    BY <2>1, <2>4, <2>5
<1> QED
  BY <1>3, <1>4, <1>5, <1>6, <1>7, <1>8, <1>9, <1>10, <1>11 DEF TaskStep

\* No step of a task, an init's own or the host's, breaks the invariant: an
\* init leaves its gate for its setup only on ACT_START.
LEMMA TaskStepInv ==
    ASSUME IndInv, NEW t \in Tasks, TaskStep(t)
    PROVE  IndInv'
<1> USE DEF IndInv
<1>1. TypeOK' /\ WatchCounted' /\ Frame
  BY TaskStepFrame
<1>2. CallersOK'
  BY <1>1 DEF Frame, CallersOK
<1>3. UnbornOK'
  BY <1>1 DEF Frame, UnbornOK
<1>4. SpawnsOK'
  BY <1>1 DEF Frame, SpawnsOK, TypeOK
<1>5. EntriesOK'
  BY <1>1 DEF Frame, EntriesOK, TypeOK, Entry
<1>6. IdsOK'
  BY <1>1 DEF Frame, IdsOK, IdsDistinct
<1>7. StartedIsReleased'
  BY <1>1 DEF Frame, StartedIsReleased, EntriesOK, Paused, TypeOK, Entry
<1>8. NoRunBeforeStart'
  <2> USE DEF NoRunBeforeStart, Paused, TypeOK
  <2>1. CASE PassGate(t)
    BY <2>1 DEF PassGate, Move
  <2>2. CASE Exec(t)
    BY <2>2 DEF Exec, Move
  <2>3. CASE HostFork(t)
    BY <2>3, <1>1 DEF HostFork
  <2>4. CASE BecomesZombie(t) \/ IsReaped(t)
    BY <2>4 DEF BecomesZombie, IsReaped, Move
  <2>5. CASE DoomedExit(t) \/ SetupFails(t) \/ ProgramExits(t) \/ Dies(t)
    BY <2>5 DEF DoomedExit, SetupFails, ProgramExits, Dies, DoExit
  <2> QED
    BY <2>1, <2>2, <2>3, <2>4, <2>5 DEF TaskStep
<1> QED
  BY <1>1, <1>2, <1>3, <1>4, <1>5, <1>6, <1>7, <1>8

-----------------------------------------------------------------------------
\* A step that does not call krunc_helper's table keeps it as it was.
LEMMA WatchSame ==
    ASSUME WatchTypeOK, WatchCounted, UNCHANGED watchVars
    PROVE  WatchTypeOK' /\ WatchCounted'
  BY DEF watchVars, WatchTypeOK, WatchCounted, InUse

\* krunc_spawn: the clone is a task nobody knows yet.
LEMMA SpawnCloneInv ==
    ASSUME IndInv, NEW c \in Callers, NEW k \in {"create", "run"}, SpawnClone(c, k)
    PROVE  IndInv'
<1> USE DEF IndInv
<1>1. PICK t \in Tasks, p \in NextPids :
        /\ IsNextTask(t)
        /\ phase' = [phase EXCEPT ![t] = IF k = "create" THEN "gate" ELSE "setup"]
        /\ kind' = [kind EXCEPT ![t] = IF k = "create" THEN "paused" ELSE "oneshot"]
        /\ pidOf' = [pidOf EXCEPT ![t] = p]
        /\ mine' = [mine EXCEPT ![c] = t]
        /\ target' = [target EXCEPT ![c] = p]
  BY DEF SpawnClone
<1>2. /\ pc[c] = "idle"
      /\ pc' = [pc EXCEPT ![c] = "watch"]
      /\ UNCHANGED <<action, killed, ran, exitWord, registry, nextId, lock, ident>>
      /\ UNCHANGED watchVars
  BY DEF SpawnClone
<1>3. p \in Pids
  BY <1>1 DEF NextPids, Unused
<1>4. /\ phase[t] = "unborn"
      /\ t \notin ran
      /\ action[t] = "WAIT"
  BY <1>1 DEF IsNextTask, UnbornOK
<1>5. WatchTypeOK' /\ WatchCounted'
  BY <1>2, WatchSame DEF TypeOK
<1>6. TypeOK'
  BY <1>1, <1>2, <1>3, <1>5 DEF TypeOK, Phases, Steps
<1>7. CallersOK'
  BY <1>1, <1>2, <1>3 DEF CallersOK, TypeOK
<1>8. UnbornOK'
  BY <1>1, <1>2, <1>4 DEF UnbornOK, TypeOK
<1>9. SpawnsOK'
  BY <1>1, <1>2, <1>4 DEF SpawnsOK, EntriesOK, TypeOK, Entry
<1>10. EntriesOK'
  BY <1>1, <1>2 DEF EntriesOK, TypeOK, Entry
<1>11. IdsOK'
  BY <1>2 DEF IdsOK, IdsDistinct, TypeOK
<1>12. StartedIsReleased'
  BY <1>1, <1>2, <1>4 DEF StartedIsReleased, EntriesOK, Paused, TypeOK, Entry
<1>13. NoRunBeforeStart'
  BY <1>1, <1>2, <1>4 DEF NoRunBeforeStart, Paused, TypeOK
<1> QED
  BY <1>5, <1>6, <1>7, <1>8, <1>9, <1>10, <1>11, <1>12, <1>13

\* NEXT_ID and krunc_watch_pid: the id is above all that are in use.
LEMMA SpawnWatchInv ==
    ASSUME IndInv, NEW c \in Callers, SpawnWatch(c)
    PROVE  IndInv'
<1> USE DEF IndInv, SpawnWatch, taskVars
<1>1. target[c] \in Pids
  BY DEF CallersOK
<1>2. WatchTypeOK' /\ WatchCounted'
  BY <1>1, WatchPidOK DEF TypeOK
<1>3. TypeOK'
  BY <1>2 DEF TypeOK, Steps
<1>4. CallersOK'
  BY DEF CallersOK, TypeOK
<1>5. UnbornOK' /\ SpawnsOK' /\ EntriesOK'
  BY DEF UnbornOK, SpawnsOK, EntriesOK
<1>6. IdsOK'
  BY DEF IdsOK, IdsDistinct, TypeOK, Entry
<1>7. StartedIsReleased'
  BY DEF StartedIsReleased, Paused, TypeOK, Entry
<1>8. NoRunBeforeStart'
  BY DEF NoRunBeforeStart, Paused
<1> QED
  BY <1>2, <1>3, <1>4, <1>5, <1>6, <1>7, <1>8

\* The end of spawn: the entry says `started` exactly when there is no gate.
LEMMA SpawnPushInv ==
    ASSUME IndInv, NEW c \in Callers, SpawnPush(c)
    PROVE  IndInv'
<1> USE DEF IndInv, SpawnPush, Return, taskVars
<1>1. /\ mine[c] \in Tasks
      /\ target[c] \in Pids
      /\ ident[c] \in Nat \ {0}
  BY DEF CallersOK, TypeOK
<1>2. NewEntry(c) \in Entry
  BY <1>1 DEF NewEntry, Entry, Paused
<1>3. WatchTypeOK' /\ WatchCounted'
  BY WatchSame DEF TypeOK
<1>4. TypeOK'
  BY <1>2, <1>3, KruncAssumption DEF TypeOK, Steps
<1>5. CallersOK'
  BY KruncAssumption DEF CallersOK, TypeOK
<1>6. UnbornOK'
  BY DEF UnbornOK
<1>7. SpawnsOK'
  BY <1>1, KruncAssumption DEF SpawnsOK, NewEntry, TypeOK
<1>8. EntriesOK'
  BY <1>1 DEF EntriesOK, SpawnsOK, NewEntry
<1>9. IdsOK'
  BY <1>1 DEF IdsOK, IdsDistinct, NewEntry, TypeOK, Entry
<1>10. StartedIsReleased'
  <2> SUFFICES ASSUME NEW e \in registry', Paused(e.task)',
                      \A d \in Callers : pc'[d] = "unwatch" => ident'[d] # e.id
               PROVE  action'[e.task] = IF e.started THEN "START" ELSE "WAIT"
    BY DEF StartedIsReleased
  <2>1. CASE e = NewEntry(c)
    BY <1>1, <2>1 DEF SpawnsOK, NewEntry, Paused
  <2>2. CASE e \in registry
    <3>1. \A d \in Callers : pc[d] = "unwatch" => ident[d] # e.id
      BY DEF TypeOK
    <3> QED
      BY <2>2, <3>1 DEF StartedIsReleased, Paused
  <2> QED
    BY <2>1, <2>2
<1>11. NoRunBeforeStart'
  BY DEF NoRunBeforeStart, Paused
<1> QED
  BY <1>3, <1>4, <1>5, <1>6, <1>7, <1>8, <1>9, <1>10, <1>11

\* ENOMEM at the end of spawn: the handler forgets the task.
LEMMA SpawnPushFailsInv ==
    ASSUME IndInv, NEW c \in Callers, SpawnPushFails(c)
    PROVE  IndInv'
<1> USE DEF IndInv, SpawnPushFails, Return, taskVars
<1>1. WatchTypeOK' /\ WatchCounted'
  BY WatchSame DEF TypeOK
<1>2. TypeOK'
  BY <1>1, KruncAssumption DEF TypeOK, Steps
<1>3. CallersOK'
  BY KruncAssumption DEF CallersOK, TypeOK
<1>4. UnbornOK' /\ EntriesOK'
  BY DEF UnbornOK, EntriesOK
<1>5. SpawnsOK'
  BY KruncAssumption DEF SpawnsOK, TypeOK
<1>6. IdsOK'
  BY DEF IdsOK, IdsDistinct, TypeOK
<1>7. StartedIsReleased'
  BY DEF StartedIsReleased, Paused, TypeOK
<1>8. NoRunBeforeStart'
  BY DEF NoRunBeforeStart, Paused
<1> QED
  BY <1>1, <1>2, <1>3, <1>4, <1>5, <1>6, <1>7, <1>8

-----------------------------------------------------------------------------
\* start_container: it finds a gate nobody has decided, or one it opened
\* before.
LEMMA StartContainerInv ==
    ASSUME IndInv, NEW e \in registry, StartContainer(e)
    PROVE  IndInv'
<1> USE DEF IndInv, StartContainer, callVars
<1> DEFINE s == [e EXCEPT !.started = TRUE]
<1>1. /\ e \in Entry
      /\ s \in Entry
      /\ s.id = e.id
      /\ s.task = e.task
      /\ s.started
  BY DEF TypeOK, Entry
<1>2. registry' = (registry \ {e}) \cup {s}
  OBVIOUS
<1> HIDE DEF s
<1>3. WatchTypeOK' /\ WatchCounted'
  BY WatchSame DEF TypeOK
<1>4. e.task \in Tasks
  BY <1>1 DEF Entry
<1>5. action' \in [Tasks -> {"WAIT", "START", "DOOM"}]
  BY <1>4 DEF TypeOK
<1>6. TypeOK'
  BY <1>1, <1>2, <1>3, <1>5 DEF TypeOK
<1>7. CallersOK'
  BY DEF CallersOK
<1>8. UnbornOK'
  BY <1>4 DEF UnbornOK, EntriesOK, TypeOK
<1>9. SpawnsOK'
  BY <1>1, <1>2, <1>4 DEF SpawnsOK, TypeOK
<1>10. EntriesOK'
  BY <1>1, <1>2 DEF EntriesOK
<1>11. IdsOK'
  BY <1>1, <1>2 DEF IdsOK, IdsDistinct
<1>12. StartedIsReleased'
  <2> SUFFICES ASSUME NEW f \in registry', Paused(f.task)',
                      \A d \in Callers : pc'[d] = "unwatch" => ident'[d] # f.id
               PROVE  action'[f.task] = IF f.started THEN "START" ELSE "WAIT"
    BY DEF StartedIsReleased
  <2>1. CASE f = s
    BY <1>1, <1>4, <2>1 DEF Paused, TypeOK
  <2>2. CASE f \in registry \ {e}
    <3>1. f.task # e.task /\ f.task \in Tasks
      BY <2>2 DEF EntriesOK, TypeOK, Entry
    <3>2. action'[f.task] = action[f.task]
      BY <1>4, <3>1 DEF TypeOK
    <3> QED
      BY <2>2, <3>2 DEF StartedIsReleased, Paused
  <2> QED
    BY <1>2, <2>1, <2>2
<1>13. NoRunBeforeStart'
  BY <1>4 DEF NoRunBeforeStart, Paused, TypeOK
<1> QED
  BY <1>3, <1>6, <1>7, <1>8, <1>9, <1>10, <1>11, <1>12, <1>13

\* The word container_state leaves in an entry is a status word or none.
LEMMA ObservedExitType ==
    ASSUME TypeOK, NEW e \in registry
    PROVE  ObservedExit(e) \in Words \cup {NoWord}
<1>1. CASE ReplyState(e) # "STOPPED" \/ e.exit # NoWord
  BY <1>1 DEF ObservedExit, TypeOK, Entry
<1>2. CASE ~(ReplyState(e) # "STOPPED" \/ e.exit # NoWord) /\ Captured(e.pid)
  BY <1>2, CapturedWordType DEF ObservedExit, TypeOK
<1>3. CASE ~(ReplyState(e) # "STOPPED" \/ e.exit # NoWord) /\ ~Captured(e.pid)
  <2>1. CASE Probe(e.pid) = "zombie"
    <3>1. Holders(e.pid) # {}
      BY <2>1 DEF Probe
    <3>2. (CHOOSE t \in Holders(e.pid) : TRUE) \in Tasks
      BY <3>1 DEF Holders
    <3> QED
      BY <1>3, <2>1, <3>2 DEF ObservedExit, TypeOK
  <2>2. CASE Probe(e.pid) # "zombie"
    BY <1>3, <2>2 DEF ObservedExit
  <2> QED
    BY <2>1, <2>2
<1> QED
  BY <1>1, <1>2, <1>3

\* container_state changes nothing but the cached word.
LEMMA ContainerStateInv ==
    ASSUME IndInv, NEW e \in registry, ContainerState(e)
    PROVE  IndInv'
<1> USE DEF IndInv, ContainerState, callVars, taskVars
<1> DEFINE s == [e EXCEPT !.exit = ObservedExit(e)]
<1>1. ObservedExit(e) \in Words \cup {NoWord}
  BY ObservedExitType
<1>2. /\ e \in Entry
      /\ s \in Entry
      /\ s.id = e.id
      /\ s.task = e.task
      /\ s.started = e.started
  BY <1>1 DEF TypeOK, Entry
<1>3. registry' = (registry \ {e}) \cup {s}
  OBVIOUS
<1> HIDE DEF s
<1>4. WatchTypeOK' /\ WatchCounted'
  BY WatchSame DEF TypeOK
<1>5. TypeOK'
  BY <1>2, <1>3, <1>4 DEF TypeOK
<1>6. CallersOK' /\ UnbornOK'
  BY DEF CallersOK, UnbornOK
<1>7. SpawnsOK'
  BY <1>2, <1>3 DEF SpawnsOK
<1>8. EntriesOK'
  BY <1>2, <1>3 DEF EntriesOK
<1>9. IdsOK'
  BY <1>2, <1>3 DEF IdsOK, IdsDistinct
<1>10. StartedIsReleased'
  BY <1>2, <1>3 DEF StartedIsReleased, Paused
<1>11. NoRunBeforeStart'
  BY DEF NoRunBeforeStart, Paused
<1> QED
  BY <1>4, <1>5, <1>6, <1>7, <1>8, <1>9, <1>10, <1>11

-----------------------------------------------------------------------------
\* The handlers' steps that only signal or look up, kill_container's and the
\* first half of the text `kill`: the gates and the registry are not theirs.
LEMMA SignalInv ==
    ASSUME IndInv, NEW c \in Callers,
           \/ \E e \in registry, sig \in {0, SIGKILL} : KillLookup(c, e, sig)
           \/ KillSignal(c)
           \/ \E p \in Pids : TextKill(c, p)
    PROVE  IndInv'
<1> USE DEF IndInv
<1>1. /\ UNCHANGED <<phase, kind, pidOf, action, ran, exitWord, registry, nextId, lock>>
      /\ UNCHANGED watchVars
      /\ \A d \in Callers : d # c => /\ pc'[d] = pc[d]
                                     /\ mine'[d] = mine[d]
                                     /\ ident'[d] = ident[d]
                                     /\ target'[d] = target[d]
      /\ pc'[c] \in {"idle", "signal", "retain"}
      /\ pc[c] \in {"idle", "signal"}
      /\ mine'[c] \notin Tasks
      /\ pc'[c] # "idle" => target'[c] \in Pids
  BY KruncAssumption DEF KillLookup, KillSignal, TextKill, Return, taskVars, CallersOK,
                         TypeOK, Entry
<1>2. killed' \subseteq Tasks
  BY DEF KillLookup, KillSignal, TextKill, KillSet, Holders, taskVars, TypeOK
<1>3. /\ pc' \in [Callers -> Steps]
      /\ mine' \in [Callers -> Tasks \cup {NoTask}]
      /\ ident' \in [Callers -> Nat]
      /\ target' \in [Callers -> Pids \cup {NoPid}]
  BY DEF KillLookup, KillSignal, TextKill, Return, TypeOK, Steps, Entry
<1>4. WatchTypeOK' /\ WatchCounted'
  BY <1>1, WatchSame DEF TypeOK
<1>5. TypeOK'
  BY <1>1, <1>2, <1>3, <1>4 DEF TypeOK
<1>6. CallersOK'
  BY <1>1 DEF CallersOK
<1>7. UnbornOK' /\ EntriesOK'
  BY <1>1 DEF UnbornOK, EntriesOK
<1>8. SpawnsOK'
  BY <1>1 DEF SpawnsOK, CallersOK
<1>9. IdsOK'
  BY <1>1 DEF IdsOK, IdsDistinct
<1>10. StartedIsReleased'
  <2>1. \A d \in Callers : pc[d] = "unwatch" => pc'[d] = "unwatch" /\ ident'[d] = ident[d]
    BY <1>1
  <2> QED
    BY <1>1, <2>1 DEF StartedIsReleased, Paused
<1>11. NoRunBeforeStart'
  BY <1>1 DEF NoRunBeforeStart, Paused
<1> QED
  BY <1>4, <1>5, <1>6, <1>7, <1>8, <1>9, <1>10, <1>11

\* delete_container: a gate it dooms was still waiting, because the entry says
\* so and nobody else has an entry of that task.
LEMMA DeleteBeginInv ==
    ASSUME IndInv, NEW c \in Callers, NEW e \in registry, DeleteBegin(c, e)
    PROVE  IndInv'
<1> USE DEF IndInv, DeleteBegin
<1>1. e \in Entry /\ e.task \in Tasks /\ e.pid \in Pids /\ e.id \in Nat
  BY DEF TypeOK, Entry
<1>2. \A d \in Callers : pc[d] # "unwatch"
  BY KruncAssumption DEF CallersOK
<1>3. \A u \in Tasks : action'[u] # action[u] =>
            u = e.task /\ ~e.started /\ Paused(u) /\ action[u] = "WAIT"
  BY <1>1, <1>2 DEF DeleteAction, StartedIsReleased, TypeOK
<1>4. WatchTypeOK' /\ WatchCounted'
  BY WatchSame DEF TypeOK
<1>5. action' \in [Tasks -> {"WAIT", "START", "DOOM"}] /\ killed' \subseteq Tasks
  BY DEF DeleteAction, DeleteKilled, KillSet, Holders, TypeOK
<1>6. TypeOK'
  BY <1>1, <1>4, <1>5 DEF TypeOK, Steps
<1>7. CallersOK'
  BY <1>1, <1>2 DEF CallersOK, TypeOK
<1>8. UnbornOK'
  BY <1>1, <1>3 DEF UnbornOK, EntriesOK
<1>9. SpawnsOK'
  BY <1>1, <1>3 DEF SpawnsOK
<1>10. EntriesOK'
  BY DEF EntriesOK
<1>11. IdsOK'
  BY DEF IdsOK, IdsDistinct, TypeOK
<1>12. StartedIsReleased'
  <2> SUFFICES ASSUME NEW f \in registry, Paused(f.task),
                      \A d \in Callers : pc'[d] = "unwatch" => ident'[d] # f.id
               PROVE  action'[f.task] = IF f.started THEN "START" ELSE "WAIT"
    BY DEF StartedIsReleased, Paused
  <2>1. f.id # e.id
    BY DEF TypeOK
  <2>2. f.task # e.task /\ f.task \in Tasks
    BY <2>1 DEF EntriesOK, TypeOK, Entry
  <2>3. action'[f.task] = action[f.task]
    BY <1>3, <2>2
  <2> QED
    BY <1>2, <2>3 DEF StartedIsReleased
<1>13. NoRunBeforeStart'
  BY <1>3 DEF NoRunBeforeStart, Paused
<1> QED
  BY <1>4, <1>6, <1>7, <1>8, <1>9, <1>10, <1>11, <1>12, <1>13

\* The end of delete_container: the one entry whose gate may be doomed goes.
LEMMA DeleteEndInv ==
    ASSUME IndInv, NEW c \in Callers, DeleteEnd(c)
    PROVE  IndInv'
<1> USE DEF IndInv, DeleteEnd, Return, taskVars
<1>1. WatchTypeOK' /\ WatchCounted'
  BY UnwatchPidOK DEF TypeOK, CallersOK
<1>2. TypeOK'
  BY <1>1, KruncAssumption DEF TypeOK, Steps
<1>3. CallersOK'
  BY KruncAssumption DEF CallersOK, TypeOK
<1>4. UnbornOK' /\ EntriesOK'
  BY DEF UnbornOK, EntriesOK
<1>5. SpawnsOK'
  BY KruncAssumption DEF SpawnsOK, TypeOK
<1>6. IdsOK'
  BY DEF IdsOK, IdsDistinct, TypeOK
<1>7. StartedIsReleased'
  <2>1. \A f \in registry', d \in Callers :
            (pc'[d] = "unwatch" => ident'[d] # f.id) =>
                (pc[d] = "unwatch" => ident[d] # f.id)
    BY DEF TypeOK
  <2> QED
    BY <2>1 DEF StartedIsReleased, Paused
<1>8. NoRunBeforeStart'
  BY DEF NoRunBeforeStart, Paused
<1> QED
  BY <1>1, <1>2, <1>3, <1>4, <1>5, <1>6, <1>7, <1>8

\* The end of the text `kill`: entries go, none changes.
LEMMA TextRetainInv ==
    ASSUME IndInv, NEW c \in Callers, TextRetain(c)
    PROVE  IndInv'
<1> USE DEF IndInv, TextRetain, Return, taskVars
<1>1. WatchTypeOK' /\ WatchCounted'
  BY WatchSame DEF TypeOK
<1>2. TypeOK'
  BY <1>1, KruncAssumption DEF TypeOK, Steps
<1>3. CallersOK'
  BY KruncAssumption DEF CallersOK, TypeOK
<1>4. UnbornOK' /\ EntriesOK'
  BY DEF UnbornOK, EntriesOK
<1>5. SpawnsOK'
  BY KruncAssumption DEF SpawnsOK, TypeOK
<1>6. IdsOK'
  BY DEF IdsOK, IdsDistinct, TypeOK
<1>7. StartedIsReleased'
  BY DEF StartedIsReleased, Paused, TypeOK
<1>8. NoRunBeforeStart'
  BY DEF NoRunBeforeStart, Paused
<1> QED
  BY <1>1, <1>2, <1>3, <1>4, <1>5, <1>6, <1>7, <1>8

\* Doing nothing preserves everything.
LEMMA StutterInv ==
    ASSUME IndInv, UNCHANGED vars
    PROVE  IndInv'
<1> USE DEF IndInv, vars
<1>1. WatchTypeOK' /\ WatchCounted'
  BY WatchSame DEF TypeOK, watchVars
<1>2. TypeOK'
  BY <1>1 DEF TypeOK
<1>3. CallersOK' /\ UnbornOK' /\ SpawnsOK' /\ EntriesOK'
  BY DEF CallersOK, UnbornOK, SpawnsOK, EntriesOK
<1>4. IdsOK'
  BY DEF IdsOK, IdsDistinct
<1>5. StartedIsReleased' /\ NoRunBeforeStart'
  BY DEF StartedIsReleased, NoRunBeforeStart, Paused
<1> QED
  BY <1>1, <1>2, <1>3, <1>4, <1>5

\* Every step of krunc.ko, its callers and its inits preserves IndInv.
LEMMA StepInv == IndInv /\ [Next]_vars => IndInv'
<1> SUFFICES ASSUME IndInv, [Next]_vars
             PROVE  IndInv'
  OBVIOUS
<1>1. ASSUME NEW t \in Tasks, TaskStep(t)
      PROVE  IndInv'
  BY <1>1, TaskStepInv
<1>2. ASSUME NEW c \in Callers, CallerStep(c)
      PROVE  IndInv'
  <2>1. CASE \E k \in {"create", "run"} : SpawnClone(c, k)
    BY <2>1, SpawnCloneInv
  <2>2. CASE SpawnWatch(c)
    BY <2>2, SpawnWatchInv
  <2>3. CASE SpawnPush(c)
    BY <2>3, SpawnPushInv
  <2>4. CASE SpawnPushFails(c)
    BY <2>4, SpawnPushFailsInv
  <2>5. CASE \/ \E e \in registry, sig \in {0, SIGKILL} : KillLookup(c, e, sig)
             \/ KillSignal(c)
             \/ \E p \in Pids : TextKill(c, p)
    BY <2>5, SignalInv
  <2>6. CASE \E e \in registry : DeleteBegin(c, e)
    BY <2>6, DeleteBeginInv
  <2>7. CASE DeleteEnd(c)
    BY <2>7, DeleteEndInv
  <2>8. CASE TextRetain(c)
    BY <2>8, TextRetainInv
  <2> QED
    BY <1>2, <2>1, <2>2, <2>3, <2>4, <2>5, <2>6, <2>7, <2>8 DEF CallerStep
<1>3. ASSUME NEW e \in registry, StartContainer(e) \/ ContainerState(e)
      PROVE  IndInv'
  BY <1>3, StartContainerInv, ContainerStateInv
<1>4. CASE UNCHANGED vars
  BY <1>4, StutterInv
<1> QED
  BY <1>1, <1>2, <1>3, <1>4 DEF Next

-----------------------------------------------------------------------------
\* The inductive invariant holds throughout.
THEOREM Invariance == Spec => []IndInv
  BY InitInv, StepInv, PTL DEF Spec

\* Every variable keeps its type; with it, krunc_num_watched never underflows.
THEOREM TypeCorrect == Spec => []TypeOK
<1>1. IndInv => TypeOK
  BY DEF IndInv
<1> QED
  BY <1>1, Invariance, PTL

\* krunc_num_watched is the number of slots in use, so the kprobe's lock-free
\* test never skips an armed slot.
THEOREM WatchCountExact == Spec => []WatchCounted
<1>1. IndInv => WatchCounted
  BY DEF IndInv
<1> QED
  BY <1>1, Invariance, PTL

\* No init passes its gate, and no program runs, before start_container; the
\* program of a container deleted before its start never runs.
THEOREM GateSafety == Spec => []NoRunBeforeStart
<1>1. IndInv => NoRunBeforeStart
  BY DEF IndInv
<1> QED
  BY <1>1, Invariance, PTL

\* `started` and the control block agree whenever delete may read them.
THEOREM StartedAgrees == Spec => []StartedIsReleased
<1>1. IndInv => StartedIsReleased
  BY DEF IndInv
<1> QED
  BY <1>1, Invariance, PTL

\* No two containers share an id, however many threads are in spawn.
THEOREM IdsUnique == Spec => []IdsDistinct
<1>1. IndInv => IdsDistinct
  BY DEF IndInv, IdsOK
<1> QED
  BY <1>1, Invariance, PTL

\* A gate is decided once: start_container never revives a doomed init and
\* delete_container never dooms a released one.
THEOREM GateMonotone == Spec => GateDecidedOnce
<1> DEFINE Keeps == \A t \in Tasks : action[t] # "WAIT" => action'[t] = action[t]
<1>1. ASSUME IndInv, [Next]_vars
      PROVE  [Keeps]_vars
  <2> USE <1>1 DEF IndInv
  <2>1. ASSUME NEW t \in Tasks, TaskStep(t)
        PROVE  Keeps
    BY <2>1, TaskStepFrame DEF Frame
  <2>2. ASSUME NEW c \in Callers, CallerStep(c)
        PROVE  Keeps
    <3>1. CASE \E e \in registry : DeleteBegin(c, e)
      <4>1. PICK e \in registry : DeleteBegin(c, e)
        BY <3>1
      <4>2. \A d \in Callers : pc[d] # "unwatch"
        BY <4>1, KruncAssumption DEF DeleteBegin, CallersOK
      <4>3. e.task \in Tasks
        BY DEF TypeOK, Entry
      <4> QED
        BY <4>1, <4>2, <4>3 DEF DeleteBegin, DeleteAction, StartedIsReleased, TypeOK
    <3>2. CASE ~ \E e \in registry : DeleteBegin(c, e)
      BY <2>2, <3>2 DEF CallerStep, SpawnClone, SpawnWatch, SpawnPush, SpawnPushFails,
                        KillLookup, KillSignal, DeleteEnd, TextKill, TextRetain, taskVars
    <3> QED
      BY <3>1, <3>2
  <2>3. ASSUME NEW e \in registry, StartContainer(e)
        PROVE  Keeps
    <3>1. \A d \in Callers : pc[d] # "unwatch"
      BY <2>3, KruncAssumption DEF StartContainer, CallersOK
    <3>2. e.task \in Tasks
      BY DEF TypeOK, Entry
    <3> QED
      BY <2>3, <3>1, <3>2 DEF StartContainer, StartedIsReleased, TypeOK
  <2>4. ASSUME NEW e \in registry, ContainerState(e)
        PROVE  Keeps
    BY <2>4 DEF ContainerState, taskVars
  <2> QED
    BY <2>1, <2>2, <2>3, <2>4 DEF Next
<1> QED
  BY <1>1, Invariance, PTL DEF Spec, GateDecidedOnce

-----------------------------------------------------------------------------
\* How far a task is tells what cloned it and whether its program has run.
PhasesOK ==
    \A t \in Tasks :
        /\ phase[t] = "gate" => kind[t] = "paused" /\ t \notin ran
        /\ phase[t] = "setup" => kind[t] \in {"paused", "oneshot"} /\ t \notin ran
        /\ phase[t] = "user" => t \in ran

RefInv == IndInv /\ PhasesOK

\* A step of krunc.ko's callers moves no task, but for the one clone.
LEMMA CallersMoveNoTask ==
    ASSUME NEW c \in Callers, CallerStep(c),
           ~ \E k \in {"create", "run"} : SpawnClone(c, k)
    PROVE  UNCHANGED <<phase, kind, ran>>
  BY DEF CallerStep, SpawnWatch, SpawnPush, SpawnPushFails, KillLookup, KillSignal,
         DeleteBegin, DeleteEnd, TextKill, TextRetain, taskVars

\* PhasesOK is inductive relative to IndInv.
LEMMA PhasesStep == RefInv /\ [Next]_vars => PhasesOK'
<1> SUFFICES ASSUME RefInv, [Next]_vars
             PROVE  PhasesOK'
  OBVIOUS
<1> USE DEF RefInv, IndInv, PhasesOK
<1>1. ASSUME NEW t \in Tasks, TaskStep(t)
      PROVE  PhasesOK'
  <2>1. CASE DoomedExit(t) \/ SetupFails(t) \/ ProgramExits(t) \/ Dies(t)
    BY <2>1 DEF DoomedExit, SetupFails, ProgramExits, Dies, DoExit, TypeOK
  <2>2. CASE PassGate(t) \/ Exec(t) \/ BecomesZombie(t) \/ IsReaped(t)
    BY <2>2 DEF PassGate, Exec, BecomesZombie, IsReaped, Move, TypeOK
  <2>3. CASE HostFork(t)
    BY <2>3 DEF HostFork, IsNextTask, TypeOK
  <2> QED
    BY <1>1, <2>1, <2>2, <2>3 DEF TaskStep
<1>2. ASSUME NEW c \in Callers, CallerStep(c)
      PROVE  PhasesOK'
  <2>1. CASE \E k \in {"create", "run"} : SpawnClone(c, k)
    BY <2>1 DEF SpawnClone, IsNextTask, UnbornOK, TypeOK
  <2>2. CASE ~ \E k \in {"create", "run"} : SpawnClone(c, k)
    BY <1>2, <2>2, CallersMoveNoTask
  <2> QED
    BY <2>1, <2>2
<1>3. ASSUME NEW e \in registry, StartContainer(e) \/ ContainerState(e)
      PROVE  PhasesOK'
  BY <1>3 DEF StartContainer, ContainerState, taskVars
<1>4. CASE UNCHANGED vars
  BY <1>4 DEF vars
<1> QED
  BY <1>1, <1>2, <1>3, <1>4 DEF Next

\* The strengthened invariant.
LEMMA RefInvariance == Spec => []RefInv
<1>1. Init => RefInv
  BY InitInv DEF RefInv, Init, PhasesOK
<1>2. RefInv /\ [Next]_vars => RefInv'
  BY StepInv, PhasesStep DEF RefInv
<1> QED
  BY <1>1, <1>2, PTL DEF Spec

-----------------------------------------------------------------------------
(* Krunc implements OciLifecycle: under the mapping LifeStatus/LifeProgram *)
(* each step of Krunc is a step of one container's life or none.           *)

\* What a step must leave alone in the lives of all containers but t's.
Elsewhere(t) ==
    \A u \in Tasks : u # t => LifeStatus(u)' = LifeStatus(u) /\ LifeProgram(u)' = LifeProgram(u)

\* A step that changes no life is a stuttering step of OciLifecycle.
LEMMA LifeStutter ==
    ASSUME \A u \in Tasks : LifeStatus(u)' = LifeStatus(u) /\ LifeProgram(u)' = LifeProgram(u)
    PROVE  UNCHANGED Life!lifeVars
  BY DEF Life!lifeVars

\* A step of one life is a step of OciLifecycle.
LEMMA LifeStep ==
    ASSUME NEW t \in Tasks, Elsewhere(t),
           <<LifeStatus(t), LifeProgram(t), LifeStatus(t)', LifeProgram(t)'>> \in
               { <<"absent", "unloaded", "created", "unloaded">>,
                 <<"absent", "unloaded", "running", "unloaded">>,
                 <<"created", "unloaded", "running", "unloaded">>,
                 <<"running", "unloaded", "running", "running">>,
                 <<"running", "running", "stopped", "ended">>,
                 <<"running", "unloaded", "stopped", "unloaded">>,
                 <<"created", "unloaded", "stopped", "unloaded">> }
    PROVE  Life!LifeNext
<1>1. CASE LifeStatus(t) = "absent" /\ LifeStatus(t)' = "created"
  <2>1. Life!Create(t)
    BY <1>1 DEF Life!Create, Elsewhere
  <2> QED
    BY <2>1 DEF Life!LifeNext
<1>2. CASE LifeStatus(t) = "absent" /\ LifeStatus(t)' = "running"
  <2>1. Life!Run(t)
    BY <1>2 DEF Life!Run, Elsewhere
  <2> QED
    BY <2>1 DEF Life!LifeNext
<1>3. CASE LifeStatus(t) = "created" /\ LifeStatus(t)' = "running"
  <2>1. Life!Start(t)
    BY <1>3 DEF Life!Start, Elsewhere
  <2> QED
    BY <2>1 DEF Life!LifeNext
<1>4. CASE LifeStatus(t) = "running" /\ LifeStatus(t)' = "running"
  <2>1. Life!Exec(t)
    BY <1>4 DEF Life!Exec, Elsewhere
  <2> QED
    BY <2>1 DEF Life!LifeNext
<1>5. CASE LifeStatus(t) = "running" /\ LifeStatus(t)' = "stopped"
  <2>1. Life!Stop(t)
    BY <1>5 DEF Life!Stop, Elsewhere
  <2> QED
    BY <2>1 DEF Life!LifeNext
<1>6. CASE LifeStatus(t) = "created" /\ LifeStatus(t)' = "stopped"
  <2>1. Life!Discard(t)
    BY <1>6 DEF Life!Discard, Elsewhere
  <2> QED
    BY <2>1 DEF Life!LifeNext
<1> QED
  BY <1>1, <1>2, <1>3, <1>4, <1>5, <1>6

\* The steps of a task: its exec and its exit are steps of its life, a doomed
\* exit a discard; leaving the gate, becoming a zombie, being reaped and the
\* whole life of a host process are not seen.
LEMMA TaskStepMaps ==
    ASSUME RefInv, NEW t \in Tasks, TaskStep(t)
    PROVE  [Life!LifeNext]_(Life!lifeVars)
<1> USE DEF RefInv, IndInv, PhasesOK, TypeOK, LifeStatus, LifeProgram, Dead
<1>1. CASE PassGate(t)
  BY <1>1, LifeStutter DEF PassGate, Move
<1>2. CASE BecomesZombie(t) \/ IsReaped(t)
  BY <1>2, LifeStutter DEF BecomesZombie, IsReaped, Move
<1>3. CASE HostFork(t)
  <2>1. kind[t] = "none"
    BY <1>3 DEF HostFork, IsNextTask, UnbornOK
  <2> QED
    BY <1>3, <2>1, LifeStutter DEF HostFork
<1>4. CASE Exec(t)
  <2>1. Elsewhere(t)
    BY <1>4 DEF Exec, Move, Elsewhere
  <2>2. /\ LifeStatus(t) = "running" /\ LifeProgram(t) = "unloaded"
        /\ LifeStatus(t)' = "running" /\ LifeProgram(t)' = "running"
    BY <1>4 DEF Exec, Move
  <2> QED
    BY <2>1, <2>2, LifeStep
<1>5. CASE DoomedExit(t)
  <2>1. Elsewhere(t)
    BY <1>5 DEF DoomedExit, DoExit, Elsewhere
  <2>2. /\ LifeStatus(t) = "created" /\ LifeProgram(t) = "unloaded"
        /\ LifeStatus(t)' = "stopped" /\ LifeProgram(t)' = "unloaded"
    BY <1>5 DEF DoomedExit, DoExit
  <2> QED
    BY <2>1, <2>2, LifeStep
<1>6. CASE SetupFails(t)
  <2>1. Elsewhere(t)
    BY <1>6 DEF SetupFails, DoExit, Elsewhere
  <2>2. /\ LifeStatus(t) = "running" /\ LifeProgram(t) = "unloaded"
        /\ LifeStatus(t)' = "stopped" /\ LifeProgram(t)' = "unloaded"
    BY <1>6 DEF SetupFails, DoExit
  <2> QED
    BY <2>1, <2>2, LifeStep
<1>7. CASE ProgramExits(t) \/ Dies(t)
  <2>1. PICK w : phase[t] = "user" /\ DoExit(t, w)
    BY <1>7 DEF ProgramExits, Dies
  <2>2. Elsewhere(t)
    BY <2>1 DEF DoExit, Elsewhere
  <2>3. CASE kind[t] \in {"none", "host"}
    BY <2>1, <2>3, LifeStutter DEF DoExit
  <2>4. CASE kind[t] \in {"paused", "oneshot"}
    <3>1. /\ LifeStatus(t) = "running" /\ LifeProgram(t) = "running"
          /\ LifeStatus(t)' = "stopped" /\ LifeProgram(t)' = "ended"
      BY <2>1, <2>4 DEF DoExit
    <3> QED
      BY <2>2, <3>1, LifeStep
  <2> QED
    BY <2>3, <2>4
<1> QED
  BY <1>1, <1>2, <1>3, <1>4, <1>5, <1>6, <1>7 DEF TaskStep

\* The steps of the handlers: only clone is a step of a life, because dooming a
\* gate that waits does not show before the init exits.
LEMMA CallerStepMaps ==
    ASSUME RefInv, NEW c \in Callers, CallerStep(c)
    PROVE  [Life!LifeNext]_(Life!lifeVars)
<1> USE DEF RefInv, IndInv, PhasesOK, TypeOK, LifeStatus, LifeProgram, Dead
<1>1. CASE \E k \in {"create", "run"} : SpawnClone(c, k)
  <2>1. PICK k \in {"create", "run"}, t \in Tasks :
          /\ IsNextTask(t)
          /\ phase' = [phase EXCEPT ![t] = IF k = "create" THEN "gate" ELSE "setup"]
          /\ kind' = [kind EXCEPT ![t] = IF k = "create" THEN "paused" ELSE "oneshot"]
          /\ UNCHANGED <<action, ran>>
    BY <1>1 DEF SpawnClone
  <2>2. kind[t] = "none" /\ action[t] = "WAIT" /\ t \notin ran
    BY <2>1 DEF IsNextTask, UnbornOK
  <2>3. Elsewhere(t)
    BY <2>1 DEF Elsewhere
  <2>4. /\ LifeStatus(t) = "absent" /\ LifeProgram(t) = "unloaded"
        /\ LifeStatus(t)' \in {"created", "running"} /\ LifeProgram(t)' = "unloaded"
    BY <2>1, <2>2
  <2> QED
    BY <2>3, <2>4, LifeStep
<1>2. CASE ~ \E k \in {"create", "run"} : SpawnClone(c, k)
  <2>1. UNCHANGED <<phase, kind, ran>>
    BY <1>2, CallersMoveNoTask
  <2>2. \A t \in Tasks : action'[t] = "START" <=> action[t] = "START"
    <3>1. CASE \E e \in registry : DeleteBegin(c, e)
      <4>1. PICK e \in registry : DeleteBegin(c, e)
        BY <3>1
      <4>2. \A d \in Callers : pc[d] # "unwatch"
        BY <4>1, KruncAssumption DEF DeleteBegin, CallersOK
      <4>3. e.task \in Tasks
        BY DEF Entry
      <4> QED
        BY <4>1, <4>2, <4>3 DEF DeleteBegin, DeleteAction, StartedIsReleased
    <3>2. CASE ~ \E e \in registry : DeleteBegin(c, e)
      BY <1>2, <3>2 DEF CallerStep, SpawnWatch, SpawnPush, SpawnPushFails, KillLookup,
                        KillSignal, DeleteEnd, TextKill, TextRetain, taskVars
    <3> QED
      BY <3>1, <3>2
  <2> QED
    BY <2>1, <2>2, LifeStutter
<1> QED
  BY <1>1, <1>2

\* start_container starts a life that waits and leaves any other as it is.
LEMMA StartMaps ==
    ASSUME RefInv, NEW e \in registry, StartContainer(e)
    PROVE  [Life!LifeNext]_(Life!lifeVars)
<1> USE DEF RefInv, IndInv, PhasesOK, TypeOK, LifeStatus, LifeProgram, Dead
<1>1. e.task \in Tasks
  BY DEF Entry
<1>2. \A d \in Callers : pc[d] # "unwatch"
  BY KruncAssumption DEF StartContainer, CallersOK
<1>3. UNCHANGED <<phase, kind, ran>>
  BY DEF StartContainer
<1>4. Elsewhere(e.task)
  BY <1>1, <1>3 DEF StartContainer, Elsewhere
<1>5. CASE phase[e.task] = "gate" /\ action[e.task] = "WAIT"
  <2>1. /\ LifeStatus(e.task) = "created" /\ LifeProgram(e.task) = "unloaded"
        /\ LifeStatus(e.task)' = "running" /\ LifeProgram(e.task)' = "unloaded"
    BY <1>1, <1>3, <1>5 DEF StartContainer, Paused
  <2> QED
    BY <1>1, <1>4, <2>1, LifeStep
<1>6. CASE ~(phase[e.task] = "gate" /\ action[e.task] = "WAIT")
  <2>1. phase[e.task] = "gate" => action'[e.task] = action[e.task]
    BY <1>1, <1>2, <1>6 DEF StartContainer, StartedIsReleased
  <2>2. /\ LifeStatus(e.task)' = LifeStatus(e.task)
        /\ LifeProgram(e.task)' = LifeProgram(e.task)
    BY <1>1, <1>3, <2>1
  <2> QED
    BY <1>4, <2>2, LifeStutter DEF Elsewhere
<1> QED
  BY <1>5, <1>6

-----------------------------------------------------------------------------
\* krunc.ko implements the OCI lifecycle: whatever its callers, its inits and
\* the host do, every container lives by OciLifecycle.
THEOREM Refinement == Spec => RefinesLifecycle
<1>1. Init => Life!LifeInit
  BY DEF Init, Life!LifeInit, LifeStatus, LifeProgram
<1>2. ASSUME RefInv, [Next]_vars
      PROVE  [Life!LifeNext]_(Life!lifeVars)
  <2>1. CASE UNCHANGED vars
    BY <2>1, LifeStutter DEF vars, LifeStatus, LifeProgram, Dead
  <2>2. ASSUME NEW e \in registry, ContainerState(e)
        PROVE  [Life!LifeNext]_(Life!lifeVars)
    BY <2>2, LifeStutter DEF ContainerState, taskVars, LifeStatus, LifeProgram, Dead
  <2> QED
    BY <1>2, <2>1, <2>2, TaskStepMaps, CallerStepMaps, StartMaps DEF Next
<1> QED
  BY <1>1, <1>2, RefInvariance, PTL DEF Spec, RefinesLifecycle, Life!LifeSpec

=============================================================================
