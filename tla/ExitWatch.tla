----------------------------- MODULE ExitWatch -----------------------------
(***************************************************************************)
(* The exit-status capture table of krunc_helper.ko: KRUNC_MAX_WATCH slots *)
(* guarded by a spinlock.  krunc.ko arms a slot for the pid of every init  *)
(* it clones, a kprobe on do_exit() records the status word of a watched   *)
(* task, `state` reads it back and `delete` frees the slot.                *)
(*                                                                         *)
(* in_use and exited are one field, st: "free" is !in_use, "armed" is      *)
(* in_use && !exited, "exited" is in_use && exited.  Every reader tests    *)
(* in_use first and krunc_watch_pid overwrites all fields, so what a freed *)
(* slot still holds is never seen and a freed slot is kept as FreeSlot.    *)
(* Each operation runs under krunc_watch_lock and is one step.             *)
(***************************************************************************)
EXTENDS Integers, FiniteSets

CONSTANTS
    Pids,      \* host-visible pids
    NoPid,     \* the pid field of a slot that never held one
    Words,     \* wait(2)-style status words
    MaxWatch   \* KRUNC_MAX_WATCH

ASSUME WatchAssumption ==
    /\ MaxWatch \in Nat \ {0}
    /\ NoPid \notin Pids
    /\ 0 \in Words

VARIABLES
    slots,       \* krunc_watch[]
    numWatched   \* krunc_num_watched

watchVars == <<slots, numWatched>>

Slots == 1..MaxWatch

Slot == [st : {"free", "armed", "exited"}, pid : Pids \cup {NoPid}, code : Words]

FreeSlot == [st |-> "free", pid |-> NoPid, code |-> 0]

\* The slot a scan from index 0 stops at, among those of S.
FirstSlot(S) == CHOOSE i \in S : \A j \in S : i <= j

FreeSlots == {i \in Slots : slots[i].st = "free"}
InUse == {i \in Slots : slots[i].st # "free"}
InUseFor(p) == {i \in Slots : slots[i].st # "free" /\ slots[i].pid = p}
ArmedFor(p) == {i \in Slots : slots[i].st = "armed" /\ slots[i].pid = p}
ExitedFor(p) == {i \in Slots : slots[i].st = "exited" /\ slots[i].pid = p}

WatchInit ==
    /\ slots = [i \in Slots |-> FreeSlot]
    /\ numWatched = 0

-----------------------------------------------------------------------------
\* Mutant: the counter is not incremented when a slot is taken.
WatchPidUncounted(p) ==
    /\ IF FreeSlots # {}
       THEN slots' = [slots EXCEPT ![FirstSlot(FreeSlots)] =
                        [st |-> "armed", pid |-> p, code |-> 0]]
       ELSE UNCHANGED slots
    /\ UNCHANGED numWatched

\* krunc_watch_pid: take the first free slot, or -ENOSPC and nothing changes.
WatchPid(p) ==
    \/ /\ FreeSlots # {}
       /\ slots' = [slots EXCEPT ![FirstSlot(FreeSlots)] =
                        [st |-> "armed", pid |-> p, code |-> 0]]
       /\ numWatched' = numWatched + 1
    \/ /\ FreeSlots = {}
       /\ UNCHANGED watchVars

\* Mutant: a slot whose task has exited stays in use.
UnwatchPidArmed(p) ==
    /\ slots' = [i \in Slots |-> IF i \in ArmedFor(p) THEN FreeSlot ELSE slots[i]]
    /\ numWatched' = numWatched - Cardinality(ArmedFor(p))

\* krunc_unwatch_pid: free every slot of the pid, one decrement for each.
UnwatchPid(p) ==
    /\ slots' = [i \in Slots |-> IF i \in InUseFor(p) THEN FreeSlot ELSE slots[i]]
    /\ numWatched' = numWatched - Cardinality(InUseFor(p))

\* krunc_get_exit_code: whether the pid has a captured word, and which.
Captured(p) == ExitedFor(p) # {}
CapturedWord(p) == slots[FirstSlot(ExitedFor(p))].code

\* krunc_do_exit_pre, the kprobe on do_exit(w) of the task numbered p: nothing
\* when no slot is in use (the lock-free fast path) or none is armed for p.
ExitHook(p, w) ==
    /\ IF numWatched # 0 /\ ArmedFor(p) # {}
       THEN slots' = [slots EXCEPT ![FirstSlot(ArmedFor(p))].st = "exited",
                                   ![FirstSlot(ArmedFor(p))].code = w]
       ELSE UNCHANGED slots
    /\ UNCHANGED numWatched

-----------------------------------------------------------------------------
WatchTypeOK ==
    /\ slots \in [Slots -> Slot]
    /\ numWatched \in Nat

\* krunc_num_watched counts the slots in use.  The kprobe trusts it: a zero
\* while a slot is armed would make it skip the exit the slot waits for.
WatchCounted == numWatched = Cardinality(InUse)
=============================================================================
