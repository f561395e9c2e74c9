--------------------------- MODULE KruncCliProofs ---------------------------
(***************************************************************************)
(* What the krunc command keeps, for any number of processes, containers   *)
(* and requests, whichever calls fail and wherever a process is killed, as *)
(* long as the engine issues one command at a time for an id (Serial).     *)
(*                                                                         *)
(* The invariant says what each process may rely on at each of its calls   *)
(* (ProcOK), what a state file tells of an id (IdOK), and that a kernel    *)
(* container is named by something that can delete it (KidOK).  A process  *)
(* only ever touches what belongs to its id, so all of it is stated, and   *)
(* proved, id by id.                                                       *)
(***************************************************************************)
EXTENDS KruncCli, TLAPS

\* run_lifecycle does not return the key of the guarded map, so the keys are
\* returned if the bundles given to `run` do not ask for the guard.
RunsPlain == \A r \in Requests : r.cmd = "run" => r.mode \notin {"block", "kill"}

-----------------------------------------------------------------------------
(* Types.                                                                  *)

Statuses == {"none", "torn", "created", "running", "stopped"}
StateRec == [kid : Kids \cup {0}, status : Statuses, cgroup : BOOLEAN, guard : BOOLEAN]
Modes == {"none", "block", "kill", "bad"}
EarlyPCs == {"maps", "cgroup", "limits", "place"}
CreatePCs == EarlyPCs \cup {"mode", "init", "pin", "attach", "guard", "undo"}
BpfPCs == {"init", "pin", "attach", "guard"}
SavePCs == {"save", "write"}
LoadedPCs == {"start", "state", "wait", "delete"}
RemovePCs == {"disarm", "rmdir", "rmstate"}
PCs == {"idle", "create"} \cup CreatePCs \cup SavePCs \cup LoadedPCs \cup RemovePCs

CliTypeOK ==
    /\ file \in [Ids -> StateRec]
    /\ dom \in [Kids -> {"absent", "created", "running", "deleted"}]
    /\ owner \in [Kids -> Ids \cup {"none"}]
    /\ asked \in [Kids -> Modes]
    /\ member \in [Kids -> {Unplaced} \cup (Ids \X Nat)]
    /\ cgdir \in [Ids -> Nat] /\ gens \in [Ids -> Nat]
    /\ pc \in [Procs -> PCs]
    /\ req \in [Procs -> Request \cup {Idle}]
    /\ cid \in [Procs -> Ids \cup {"none"}]
    /\ loc \in [Procs -> StateRec]
    /\ dirty \in [Ids -> {"no", "half", "lost"}]

-----------------------------------------------------------------------------
(* The invariant.                                                          *)

Asks(k) == asked[k] \in {"block", "kill"}
Armed(k) == k \notin skipped /\ member[k] # Unplaced => member[k] \in guarded

\* A container that no delete has passed over, and that exists, or runs.
Held(k) == Port!Exists(k) /\ k \notin skipped
Runs(k) == dom[k] = "running" /\ k \notin skipped

\* The keys that are not left over from a delete that could not remove them.
Keys == guarded \ leaked

\* A State value that names a container of id, and is right on its guard.
Names(st, id) ==
    /\ st.kid \in Kids /\ dom[st.kid] # "absent" /\ owner[st.kid] = id
    /\ asked[st.kid] # "bad"
    /\ st.guard <=> Asks(st.kid)
    /\ st.guard => st.cgroup
    /\ st.status \in {"created", "running", "stopped"}

\* ... and on its lifecycle.
Matches(st) == dom[st.kid] = IF st.status = "created" THEN "created" ELSE "running"

Loaded(id) == file[id] \notin {NoState, Torn}
AtWork(p, id, where) == cid[p] = id /\ pc[p] \in where

\* One command at a time for an id.
OneEach == \A p, q \in Procs : pc[p] # "idle" /\ pc[q] # "idle" /\ cid[p] = cid[q] => p = q

\* What the process relies on while it creates,
Creating(p) ==
    /\ file[cid[p]] = NoState
    /\ req[p].cmd \in {"create", "run"}
    /\ pc[p] = "create" => loc[p] = NoState
    /\ pc[p] \in CreatePCs =>
        /\ loc[p].kid \in Kids /\ dom[loc[p].kid] = "created" /\ owner[loc[p].kid] = cid[p]
        /\ asked[loc[p].kid] = req[p].mode
        /\ loc[p].status = "created" /\ ~loc[p].guard
        /\ member[loc[p].kid] \in {Unplaced, Cgroup(cid[p])}
        /\ pc[p] \in EarlyPCs => member[loc[p].kid] = Unplaced
    /\ pc[p] \in BpfPCs => req[p].mode \in {"block", "kill"} /\ loc[p].cgroup

\* ... saves what it found or did,
Saving(p) ==
    /\ Names(loc[p], cid[p]) /\ Matches(loc[p])
    /\ loc[p].guard => Armed(loc[p].kid)
    /\ pc[p] = "save" =>
        \/ file[cid[p]] = NoState
        \/ Loaded(cid[p]) /\ file[cid[p]].kid = loc[p].kid
    /\ pc[p] = "write" =>
        /\ file[cid[p]] = Torn
        /\ \A k \in Kids : Runs(k) /\ owner[k] = cid[p] => k = loc[p].kid

\* ... and once it has loaded the file, deleting at the end.
Holding(p) ==
    /\ Loaded(cid[p]) /\ loc[p] = file[cid[p]]
    /\ pc[p] = "wait" => req[p].cmd = "run"
    /\ pc[p] = "delete" => req[p].cmd \in {"delete", "run"}
    /\ pc[p] \in RemovePCs => dom[loc[p].kid] = "deleted" \/ loc[p].kid \in skipped
    /\ RunsPlain /\ pc[p] \in {"rmdir", "rmstate"} /\ dirty[cid[p]] # "lost" =>
        \A g \in Keys : g[1] # cid[p]

ProcOK(p) ==
    pc[p] # "idle" =>
        /\ cid[p] \in Ids /\ req[p] \in Requests
        /\ pc[p] \in {"create"} \cup CreatePCs => Creating(p)
        /\ pc[p] \in SavePCs => Saving(p)
        /\ pc[p] \in LoadedPCs \cup RemovePCs => Holding(p)
        /\ pc[p] \in SavePCs \cup LoadedPCs /\ req[p].cmd = "run" => asked[loc[p].kid] = req[p].mode

\* The keys of id in the guarded map are its container's.
KeysOK(id) ==
    \A g \in Keys :
        g[1] = id /\ dirty[id] # "lost" =>
            /\ g = Cgroup(id)
            /\ file[id].guard \/ \E p \in Procs : AtWork(p, id, SavePCs) /\ loc[p].guard

IdOK(id) ==
    /\ Loaded(id) => Names(file[id], id)
    /\ file[id] = Torn => dirty[id] = "lost" \/ \E p \in Procs : AtWork(p, id, {"write"})
    /\ (/\ Loaded(id) /\ dirty[id] = "no"
        /\ \A p \in Procs : ~AtWork(p, id, {"save"} \cup RemovePCs)) => Matches(file[id])
    /\ Loaded(id) /\ file[id].guard /\ Port!Exists(file[id].kid) => Armed(file[id].kid)
    /\ RunsPlain => KeysOK(id)

KidOK(k) ==
    /\ dom[k] = "absent" => member[k] = Unplaced
    /\ dom[k] # "absent" => /\ owner[k] \in Ids
                            /\ member[k] = Unplaced \/ member[k][1] = owner[k]
    /\ Held(k) /\ asked[k] # "bad" /\ dirty[owner[k]] # "lost" =>
        \/ file[owner[k]].kid = k
        \/ \E p \in Procs : pc[p] # "idle" /\ cid[p] = owner[k] /\ loc[p].kid = k
    /\ Runs(k) =>
        /\ file[owner[k]].kid = k \/ file[owner[k]] = Torn
        /\ Asks(k) => Armed(k)

CliInv ==
    /\ CliTypeOK
    /\ OneEach
    /\ \A p \in Procs : ProcOK(p)
    /\ \A id \in Ids : IdOK(id)
    /\ \A k \in Kids : KidOK(k)
    /\ \A g \in guarded : g[1] \in Ids /\ g[2] # 0

-----------------------------------------------------------------------------
(* A step stays within its id.                                             *)

\* No other process is at work on id.
Alone(p, id) == \A q \in Procs : q # p /\ pc[q] # "idle" => cid[q] # id

Kept(k) ==
    /\ dom'[k] = dom[k] /\ owner'[k] = owner[k]
    /\ asked'[k] = asked[k] /\ member'[k] = member[k]
    /\ k \in skipped' <=> k \in skipped

\* A step of p leaves alone what is not p's or id's.
Local(p, id) ==
    /\ \A q \in Procs : q # p => /\ pc'[q] = pc[q] /\ req'[q] = req[q]
                                 /\ cid'[q] = cid[q] /\ loc'[q] = loc[q]
    /\ pc[p] # "idle" => cid[p] = id
    /\ pc'[p] # "idle" => cid'[p] = id
    /\ \A j \in Ids : j # id => file'[j] = file[j] /\ cgdir'[j] = cgdir[j] /\ dirty'[j] = dirty[j]
    /\ \A k \in Kids : \/ Kept(k)
                       \/ owner'[k] = id /\ (dom[k] = "absent" \/ owner[k] = id)
    /\ \A g : g[1] # id => (g \in guarded' <=> g \in guarded) /\ (g \in leaked' <=> g \in leaked)

\* So the processes at work on other ids find everything as it was,
LEMMA OtherProcs ==
    ASSUME CliInv, NEW p \in Procs, NEW id \in Ids, Alone(p, id), Local(p, id),
           NEW q \in Procs, q # p
    PROVE  ProcOK(q)'
<1> SUFFICES ASSUME pc'[q] # "idle"
             PROVE  ProcOK(q)'
  BY DEF ProcOK
<1> DEFINE j == cid[q]
           k == loc[q].kid
<1>1. /\ pc'[q] = pc[q] /\ req'[q] = req[q] /\ cid'[q] = cid[q] /\ loc'[q] = loc[q]
      /\ j \in Ids /\ j # id /\ pc[q] # "idle" /\ pc[q] \in PCs
  BY DEF Local, Alone, CliInv, ProcOK, CliTypeOK
<1>2. file'[j] = file[j] /\ cgdir'[j] = cgdir[j] /\ dirty'[j] = dirty[j]
  BY <1>1 DEF Local
<1>3. ProcOK(q)
  BY DEF CliInv
<1>4. Loaded(j) => Names(file[j], j)
  BY <1>1 DEF CliInv, IdOK, Keys
<1>5. pc[q] # "create" => k \in Kids /\ dom[k] # "absent" /\ owner[k] = j
  <2>1. CASE pc[q] \in CreatePCs
    BY <1>1, <1>3, <2>1 DEF ProcOK, Creating, EarlyPCs
  <2>2. CASE pc[q] \in SavePCs
    BY <1>1, <1>3, <2>2 DEF ProcOK, Saving, Runs, Names
  <2>3. CASE pc[q] \in LoadedPCs \cup RemovePCs
    BY <1>1, <1>3, <1>4, <2>3 DEF ProcOK, Holding, Keys, Names
  <2> QED
    BY <1>1, <2>1, <2>2, <2>3 DEF PCs
<1>6. pc[q] # "create" => Kept(k)
  BY <1>1, <1>5 DEF Local
<1>7. \A g : g[1] = j => (g \in guarded' <=> g \in guarded) /\ (g \in leaked' <=> g \in leaked)
  BY <1>1 DEF Local
<1>8. pc[q] \in {"create"} \cup CreatePCs => Creating(q)'
  BY <1>1, <1>2, <1>3, <1>6 DEF ProcOK, Creating, EarlyPCs, Kept, Cgroup, CreatePCs, BpfPCs
<1>9. ASSUME pc[q] \in SavePCs
      PROVE  Saving(q)'
  <2>1. Saving(q) /\ Kept(k)
    BY <1>1, <1>3, <1>6, <1>9 DEF ProcOK, SavePCs
  <2>2. (Names(loc[q], j) /\ Matches(loc[q]))'
    BY <1>1, <2>1 DEF Saving, Runs, Names, Matches, Kept, Asks
  <2>3. (loc[q].guard => Armed(k))'
    <3>1. member[k] = Unplaced \/ member[k][1] = j
      BY <1>5, <1>9 DEF CliInv, KidOK, Held, Runs, SavePCs
    <3> QED
      BY <1>1, <1>7, <2>1, <3>1 DEF Saving, Runs, Armed, Kept
  <2>4. ASSUME NEW x \in Kids, Runs(x)', owner'[x] = j, pc[q] = "write"
        PROVE  x = k
    <3>1. Kept(x)
      BY <1>1, <2>4 DEF Local
    <3> QED
      BY <2>1, <2>4, <3>1 DEF Saving, Runs, Kept
  <2> QED
    BY <1>1, <1>2, <2>1, <2>2, <2>3, <2>4 DEF Saving, Runs, Loaded
<1>10. ASSUME pc[q] \in LoadedPCs \cup RemovePCs
       PROVE  Holding(q)'
  <2>1. Holding(q) /\ Kept(k)
    BY <1>1, <1>3, <1>6, <1>10 DEF ProcOK, LoadedPCs, RemovePCs
  <2> QED
    BY <1>1, <1>2, <1>7, <2>1 DEF Holding, Keys, Loaded, Kept, RunsPlain
<1>11. pc[q] \in SavePCs \cup LoadedPCs /\ req[q].cmd = "run" => asked'[k] = req[q].mode
  BY <1>1, <1>3, <1>6 DEF ProcOK, Kept, SavePCs, LoadedPCs
<1> QED
  BY <1>1, <1>3, <1>8, <1>9, <1>10, <1>11 DEF ProcOK

\* ... other ids keep what their files say,
LEMMA OtherIds ==
    ASSUME CliInv, NEW p \in Procs, NEW id \in Ids, Alone(p, id), Local(p, id),
           NEW j \in Ids, j # id
    PROVE  IdOK(j)'
<1> DEFINE k == file[j].kid
<1>1. file'[j] = file[j] /\ cgdir'[j] = cgdir[j] /\ dirty'[j] = dirty[j] /\ IdOK(j)
  BY DEF Local, CliInv
<1>2. \A q \in Procs, W \in SUBSET (PCs \ {"idle"}) : AtWork(q, j, W)' <=> AtWork(q, j, W)
  BY DEF Local, AtWork
<1>3. Loaded(j) => Names(file[j], j) /\ Kept(k)
  BY <1>1 DEF IdOK, Keys, Names, Local
<1>4. (Loaded(j) => Names(file[j], j))'
  BY <1>1, <1>3 DEF Loaded, Names, Kept, Asks
<1>5. (file[j] = Torn => dirty[j] = "lost" \/ \E q \in Procs : AtWork(q, j, {"write"}))'
  <2>1. {"write"} \in SUBSET (PCs \ {"idle"})
    BY DEF PCs, SavePCs
  <2> QED
    BY <1>1, <1>2, <2>1 DEF IdOK, Keys
<1>6. ((/\ Loaded(j) /\ dirty[j] = "no"
        /\ \A q \in Procs : ~AtWork(q, j, {"save"} \cup RemovePCs)) => Matches(file[j]))'
  <2>1. {"save"} \cup RemovePCs \in SUBSET (PCs \ {"idle"})
    BY DEF PCs, SavePCs, RemovePCs
  <2> QED
    BY <1>1, <1>2, <1>3, <2>1 DEF IdOK, Keys, Loaded, Matches, Kept, RemovePCs
<1>7. (Loaded(j) /\ file[j].guard /\ Port!Exists(k) => Armed(k))'
  <2> SUFFICES ASSUME Loaded(j), file[j].guard, Port!Exists(k)'
               PROVE  Armed(k)'
    BY <1>1 DEF Loaded
  <2>1. Kept(k) /\ Armed(k)
    BY <1>1, <1>3 DEF IdOK, Keys, Port!Exists, Kept
  <2>2. member[k] = Unplaced \/ member[k][1] = j
    BY <1>3 DEF CliInv, KidOK, Held, Runs, Names
  <2> QED
    BY <1>1, <2>1, <2>2 DEF Local, Armed, Kept
<1>8. (RunsPlain => KeysOK(j))'
  <2>1. SavePCs \in SUBSET (PCs \ {"idle"})
    BY DEF PCs, SavePCs
  <2>2. \A q \in Procs : AtWork(q, j, SavePCs) => loc'[q] = loc[q] /\ AtWork(q, j, SavePCs)'
    BY <1>2, <2>1 DEF Local, AtWork, SavePCs
  <2>3. \A g \in Keys' : g[1] = j => g \in Keys
    BY DEF Local, Keys
  <2> QED
    BY <1>1, <2>2, <2>3 DEF IdOK, Keys, KeysOK, Cgroup, RunsPlain
<1> QED
  BY <1>4, <1>5, <1>6, <1>7, <1>8 DEF IdOK, Keys

\* ... and their containers can still be deleted.
LEMMA OtherKids ==
    ASSUME CliInv, NEW p \in Procs, NEW id \in Ids, Alone(p, id), Local(p, id),
           NEW k \in Kids, owner'[k] # id
    PROVE  KidOK(k)'
<1>1. Kept(k) /\ KidOK(k)
  BY DEF Local, CliInv
<1>2. CASE dom[k] = "absent"
  BY <1>1, <1>2 DEF KidOK, Held, Runs, Kept, Port!Exists
<1>3. CASE dom[k] # "absent"
  <2> DEFINE j == owner[k]
  <2>1. j \in Ids /\ j # id /\ owner'[k] = j
    BY <1>1, <1>3 DEF KidOK, Held, Runs, Kept
  <2>2. file'[j] = file[j] /\ dirty'[j] = dirty[j]
    BY <2>1 DEF Local
  <2>3. \A q \in Procs : pc[q] # "idle" /\ cid[q] = j =>
            pc'[q] # "idle" /\ cid'[q] = j /\ loc'[q] = loc[q]
    BY <2>1 DEF Local
  <2>4. member[k] = Unplaced \/ member[k][1] = j
    BY <1>1, <1>3 DEF KidOK, Held, Runs
  <2>5. Armed(k) => Armed(k)'
    BY <1>1, <2>1, <2>4 DEF Local, Armed, Kept
  <2> HIDE DEF j
  <2>6. /\ j = owner[k] /\ dom'[k] = dom[k] /\ member'[k] = member[k] /\ asked'[k] = asked[k]
        /\ k \in skipped' <=> k \in skipped
    BY <1>1 DEF Kept, j
  <2>7. (Runs(k) => /\ file[owner[k]].kid = k \/ file[owner[k]] = Torn
                    /\ Asks(k) => Armed(k))'
    BY <1>1, <2>1, <2>2, <2>5, <2>6 DEF KidOK, Held, Runs, Asks
  <2>8. (Held(k) /\ asked[k] # "bad" /\ dirty[owner[k]] # "lost" =>
            \/ file[owner[k]].kid = k
            \/ \E q \in Procs : pc[q] # "idle" /\ cid[q] = owner[k] /\ loc[q].kid = k)'
    BY <1>1, <2>1, <2>2, <2>3, <2>6 DEF KidOK, Held, Runs, Port!Exists
  <2> QED
    BY <1>3, <2>1, <2>4, <2>6, <2>7, <2>8 DEF KidOK, Held, Runs
<1> QED
  BY <1>2, <1>3

\* What is left to show of a step is what it does to its own id.
LEMMA OwnId ==
    ASSUME CliInv, NEW p \in Procs, NEW id \in Ids, Alone(p, id), Local(p, id),
           CliTypeOK', ProcOK(p)', IdOK(id)',
           \A k \in Kids : owner'[k] = id => KidOK(k)',
           \A g \in guarded' : g[1] \in Ids /\ g[2] # 0
    PROVE  CliInv'
<1>1. OneEach'
  BY DEF CliInv, OneEach, Alone, Local
<1>2. \A q \in Procs : ProcOK(q)'
  BY OtherProcs
<1>3. \A j \in Ids : IdOK(j)'
  BY OtherIds
<1>4. \A k \in Kids : KidOK(k)'
  BY OtherKids
<1> QED
  BY <1>1, <1>2, <1>3, <1>4 DEF CliInv

-----------------------------------------------------------------------------
(* The process goes on.                                                    *)

\* The next call of p, and what the other processes keep.
Goes(p, next, st) ==
    /\ \A q \in Procs : q # p => /\ pc'[q] = pc[q] /\ req'[q] = req[q]
                                 /\ cid'[q] = cid[q] /\ loc'[q] = loc[q]
    /\ pc'[p] = next
    /\ next # "idle" => req'[p] = req[p] /\ cid'[p] = cid[p] /\ loc'[p] = st
    /\ pc' \in [Procs -> PCs] /\ req' \in [Procs -> Request \cup {Idle}]
    /\ cid' \in [Procs -> Ids \cup {"none"}] /\ loc' \in [Procs -> StateRec]

\* GotoWith is that.
LEMMA GotoGoes ==
    ASSUME CliInv, NEW p \in Procs, NEW next \in PCs, NEW st \in StateRec, GotoWith(p, next, st)
    PROVE  Goes(p, next, st)
<1>1. NoState \in StateRec
  BY DEF NoState, StateRec, Statuses
<1>2. Idle \in Request \cup {Idle} /\ "none" \in Ids \cup {"none"}
  OBVIOUS
<1>3. /\ pc \in [Procs -> PCs] /\ req \in [Procs -> Request \cup {Idle}]
      /\ cid \in [Procs -> Ids \cup {"none"}] /\ loc \in [Procs -> StateRec]
  BY DEF CliInv, CliTypeOK
<1> QED
  BY <1>1, <1>2, <1>3 DEF GotoWith, Goes

\* A process at work is alone on its id.
LEMMA WorksAlone ==
    ASSUME CliInv, NEW p \in Procs, pc[p] # "idle"
    PROVE  /\ cid[p] \in Ids /\ Alone(p, cid[p]) /\ ProcOK(p) /\ IdOK(cid[p])
           /\ loc[p] \in StateRec /\ file[cid[p]] \in StateRec
  BY DEF CliInv, ProcOK, Alone, OneEach, CliTypeOK

\* A call that changes nothing but where the process is, and its State.
LEMMA QuietStep ==
    ASSUME CliInv, NEW p \in Procs, NEW next \in PCs, NEW st, Goes(p, next, st),
           pc[p] \notin {"idle"} \cup SavePCs \cup RemovePCs,
           UNCHANGED <<file, dirty, skipped, leaked, cgdir, gens, guarded>>,
           UNCHANGED <<dom, member, owner, asked>>,
           ProcOK(p)',
           next # "idle" => st.kid = loc[p].kid,
           next = "idle" => \/ file[cid[p]].kid = loc[p].kid
                            \/ loc[p].kid \notin Kids
                            \/ asked[loc[p].kid] = "bad"
    PROVE  CliInv'
<1>0. PICK id \in Ids : id = cid[p]
  BY WorksAlone
<1>1. Alone(p, id) /\ ProcOK(p) /\ IdOK(id)
  BY <1>0, WorksAlone
<1>2. Local(p, id)
  BY <1>0 DEF Local, Kept, Goes
<1>3. CliTypeOK'
  BY DEF CliInv, CliTypeOK, Goes
<1>4. \A q \in Procs : AtWork(q, id, SavePCs \cup RemovePCs) => FALSE
  BY <1>0, <1>1 DEF AtWork, Alone, SavePCs, RemovePCs
<1>5. IdOK(id)'
  <2>1. (Loaded(id) => Names(file[id], id))'
    BY <1>1 DEF IdOK, Keys, Loaded, Names, Asks, Goes
  <2>2. file[id] = Torn => dirty[id] = "lost"
    BY <1>1, <1>4 DEF IdOK, Keys, AtWork, SavePCs
  <2>3. Loaded(id) /\ dirty[id] = "no" => Matches(file[id])
    BY <1>1, <1>4 DEF IdOK, Keys, AtWork, SavePCs
  <2>4. RunsPlain => \A g \in Keys : g[1] = id /\ dirty[id] # "lost" =>
                        g = Cgroup(id) /\ file[id].guard
    BY <1>1, <1>4 DEF IdOK, Keys, KeysOK, AtWork
  <2> QED
    BY <1>1, <2>1, <2>2, <2>3, <2>4
        DEF IdOK, Keys, KeysOK, Loaded, Matches, Port!Exists, Armed, RunsPlain, Cgroup
<1>6. ASSUME NEW k \in Kids, owner'[k] = id
      PROVE  KidOK(k)'
  <2>1. KidOK(k)
    BY DEF CliInv
  <2>2. Held(k) /\ asked[k] # "bad" /\ dirty[id] # "lost" =>
            \/ file[id].kid = k
            \/ \E q \in Procs : pc'[q] # "idle" /\ cid'[q] = id /\ loc'[q].kid = k
    <3> SUFFICES ASSUME Held(k), asked[k] # "bad", dirty[id] # "lost", file[id].kid # k
                 PROVE  pc'[p] # "idle" /\ cid'[p] = id /\ loc'[p].kid = k
      OBVIOUS
    <3>1. PICK q \in Procs : pc[q] # "idle" /\ cid[q] = id /\ loc[q].kid = k
      BY <1>6, <2>1 DEF KidOK, Held, Runs
    <3>2. q = p
      BY <1>1, <3>1 DEF Alone
    <3> QED
      BY <1>0, <3>1, <3>2 DEF Goes
  <2> QED
    BY <1>6, <2>1, <2>2 DEF KidOK, Held, Runs, Port!Exists, Asks, Armed
<1>7. \A g \in guarded' : g[1] \in Ids /\ g[2] # 0
  BY DEF CliInv
<1> QED
  BY <1>1, <1>2, <1>3, <1>5, <1>6, <1>7, OwnId

-----------------------------------------------------------------------------
(* The calls that change nothing the others see.                           *)

\* Begin: the engine has issued no other command for the id.
LEMMA BeginStep ==
    ASSUME CliInv, Serial, NEW p \in Procs, Begin(p)
    PROVE  CliInv'
<1>1. PICK r \in Requests, id \in Ids :
        /\ ~Busy(id)
        /\ IF r.cmd \in {"create", "run"} THEN file[id] = NoState
           ELSE file[id] \notin {NoState, Torn}
        /\ req' = [req EXCEPT ![p] = r]
        /\ cid' = [cid EXCEPT ![p] = id]
        /\ loc' = [loc EXCEPT ![p] = file[id]]
        /\ pc' = [pc EXCEPT ![p] = IF r.cmd = "run" THEN "create" ELSE r.cmd]
  BY DEF Begin
<1>2. /\ pc[p] = "idle" /\ UNCHANGED <<file, dirty, skipped, leaked, cgdir, gens, guarded>>
      /\ UNCHANGED <<dom, member, owner, asked>>
  BY DEF Begin, kernelVars, history, hostVars
<1>3. CliTypeOK /\ IdOK(id)
  BY DEF CliInv
<1>4. /\ r \in Request
      /\ (IF r.cmd = "run" THEN "create" ELSE r.cmd) \in {"create", "start", "state", "delete"}
      /\ "create" \in PCs /\ "start" \in PCs /\ "state" \in PCs /\ "delete" \in PCs
  BY CliAssumption DEF Request, PCs, LoadedPCs
<1>5. /\ pc'[p] = IF r.cmd = "run" THEN "create" ELSE r.cmd
      /\ cid'[p] = id /\ req'[p] = r /\ loc'[p] = file[id]
      /\ \A q \in Procs : q # p => /\ pc'[q] = pc[q] /\ req'[q] = req[q]
                                   /\ cid'[q] = cid[q] /\ loc'[q] = loc[q]
  BY <1>1, <1>3 DEF CliTypeOK
<1>6. Alone(p, id) /\ Local(p, id)
  BY <1>1, <1>2, <1>5 DEF Alone, Busy, Local, Kept
<1>7. CliTypeOK'
  <2>1. /\ pc' \in [Procs -> PCs] /\ req' \in [Procs -> Request \cup {Idle}]
        /\ cid' \in [Procs -> Ids \cup {"none"}] /\ loc' \in [Procs -> StateRec]
    BY <1>1, <1>3, <1>4 DEF CliTypeOK
  <2> QED
    BY <1>2, <1>3, <2>1 DEF CliTypeOK
<1>8. ProcOK(p)'
  <2>1. CASE pc'[p] = "create"
    <3>1. r.cmd \in {"create", "run"}
      BY <1>4, <1>5, <2>1
    <3> QED
      BY <1>1, <1>2, <1>5, <2>1, <3>1
          DEF ProcOK, Creating, EarlyPCs, CreatePCs, SavePCs, LoadedPCs, RemovePCs, BpfPCs
  <2>2. CASE pc'[p] \in {"start", "state", "delete"}
    <3>1. Loaded(id) /\ r.cmd = pc'[p] /\ r.cmd # "run"
      BY <1>1, <1>4, <1>5, <2>2 DEF Loaded
    <3>2. Holding(p)'
      BY <1>2, <1>5, <2>2, <3>1 DEF Holding, Keys, Loaded, RemovePCs
    <3> QED
      BY <1>5, <2>2, <3>1, <3>2 DEF ProcOK, CreatePCs, EarlyPCs, SavePCs
  <2> QED
    BY <1>4, <1>5, <2>1, <2>2
<1>9. \A q \in Procs : pc[q] # "idle" => cid[q] # id
  BY <1>1 DEF Busy
<1>10. IdOK(id)'
  <2>1. file[id] = Torn => dirty[id] = "lost"
    BY <1>3, <1>9 DEF IdOK, Keys, AtWork
  <2>2. Loaded(id) /\ dirty[id] = "no" => Matches(file[id])
    BY <1>3, <1>9 DEF IdOK, Keys, AtWork, RemovePCs
  <2>3. RunsPlain => \A g \in Keys : g[1] = id /\ dirty[id] # "lost" =>
                        g = Cgroup(id) /\ file[id].guard
    BY <1>3, <1>9 DEF IdOK, Keys, KeysOK, AtWork, SavePCs
  <2> QED
    BY <1>2, <1>3, <2>1, <2>2, <2>3
        DEF IdOK, Keys, KeysOK, Loaded, Names, Asks, Matches, Port!Exists, Armed, RunsPlain, Cgroup
<1>11. ASSUME NEW k \in Kids, owner'[k] = id
       PROVE  KidOK(k)'
  <2>1. KidOK(k)
    BY DEF CliInv
  <2>2. Held(k) /\ asked[k] # "bad" /\ dirty[id] # "lost" => file[id].kid = k
    BY <1>2, <1>9, <1>11, <2>1 DEF KidOK, Held, Runs
  <2> QED
    BY <1>2, <1>11, <2>1, <2>2 DEF KidOK, Held, Runs, Port!Exists, Asks, Armed
<1>12. \A g \in guarded' : g[1] \in Ids /\ g[2] # 0
  BY <1>2 DEF CliInv
<1> QED
  BY <1>6, <1>7, <1>8, <1>10, <1>11, <1>12, OwnId

\* What a process may assume while it creates.
LEMMA InCreate ==
    ASSUME CliInv, NEW p \in Procs, pc[p] \in CreatePCs
    PROVE  /\ cid[p] \in Ids /\ req[p] \in Requests /\ Creating(p)
           /\ loc[p] \in StateRec /\ req[p].mode \in Modes
<1>1. ProcOK(p) /\ pc[p] # "idle"
  BY DEF CliInv, CreatePCs, EarlyPCs
<1>2. req[p] \in Request
  BY <1>1, CliAssumption DEF ProcOK
<1> QED
  BY <1>1, <1>2 DEF ProcOK, CliInv, CliTypeOK, Request, Modes

\* ... and goes on creating.
LEMMA CreateGoes ==
    ASSUME CliInv, NEW p \in Procs, pc[p] \in CreatePCs, NEW next \in CreatePCs,
           next \in EarlyPCs => pc[p] \in EarlyPCs,
           next \in BpfPCs => req[p].mode \in {"block", "kill"} /\ loc[p].cgroup,
           GotoWith(p, next, loc[p]),
           UNCHANGED <<file, dirty, skipped, leaked, cgdir, gens, guarded>>,
           UNCHANGED <<dom, member, owner, asked>>
    PROVE  CliInv'
<1>1. next \in PCs /\ loc[p] \in StateRec
  BY InCreate DEF PCs
<1>2. Goes(p, next, loc[p])
  BY <1>1, GotoGoes
<1>3. ProcOK(p)'
  <2>1. cid[p] \in Ids /\ req[p] \in Requests /\ Creating(p)
    BY InCreate
  <2>2. next # "idle" /\ next # "create"
    BY DEF CreatePCs, EarlyPCs
  <2>3. pc'[p] = next /\ req'[p] = req[p] /\ cid'[p] = cid[p] /\ loc'[p] = loc[p]
    BY <1>2, <2>2 DEF Goes
  <2>4. Creating(p)'
    BY <2>1, <2>2, <2>3 DEF Creating, EarlyPCs, Cgroup
  <2> QED
    BY <2>1, <2>3, <2>4 DEF ProcOK, CreatePCs, EarlyPCs, SavePCs, LoadedPCs, RemovePCs
<1>4. pc[p] \notin {"idle"} \cup SavePCs \cup RemovePCs /\ next # "idle"
  BY DEF CreatePCs, EarlyPCs, SavePCs, RemovePCs
<1> QED
  BY <1>1, <1>2, <1>3, <1>4, QuietStep

\* The id maps, krunc-bpf's init and its steps.
LEMMA CreateSteps ==
    ASSUME CliInv, NEW p \in Procs, IdMaps(p) \/ BpfInit(p) \/ BpfPin(p) \/ BpfAttach(p)
    PROVE  CliInv'
<1>1. PICK next \in {"cgroup", "undo", "guard", "pin", "attach"} :
        /\ GotoWith(p, next, loc[p])
        /\ pc[p] \in {"maps", "init", "pin", "attach"}
        /\ next \in BpfPCs => pc[p] \in BpfPCs
        /\ next = "cgroup" => pc[p] = "maps"
  BY DEF IdMaps, BpfInit, BpfPin, BpfAttach, Goto, BpfPCs
<1>2. /\ UNCHANGED <<file, dirty, skipped, leaked, cgdir, gens, guarded>>
      /\ UNCHANGED <<dom, member, owner, asked>>
  BY DEF IdMaps, BpfInit, BpfPin, BpfAttach, kernelVars, history, hostVars
<1>3. pc[p] \in CreatePCs /\ next \in CreatePCs
  BY <1>1 DEF CreatePCs, EarlyPCs
<1>4. next \in BpfPCs => req[p].mode \in {"block", "kill"} /\ loc[p].cgroup
  BY <1>1, <1>3, InCreate DEF Creating, EarlyPCs
<1>5. next \in EarlyPCs => pc[p] \in EarlyPCs
  BY <1>1 DEF EarlyPCs
<1> QED
  BY <1>1, <1>2, <1>3, <1>4, <1>5, CreateGoes

\* bpf_lsm_mode: a container without the annotation is complete here.
LEMMA GuardModeStep ==
    ASSUME CliInv, NEW p \in Procs, GuardMode(p)
    PROVE  CliInv'
<1>1. /\ pc[p] = "mode"
      /\ UNCHANGED <<file, dirty, skipped, leaked, cgdir, gens, guarded>>
      /\ UNCHANGED <<dom, member, owner, asked>>
  BY DEF GuardMode, kernelVars, history, hostVars
<1>2. pc[p] \in CreatePCs
  BY <1>1 DEF CreatePCs, EarlyPCs
<1>3. /\ cid[p] \in Ids /\ req[p] \in Requests /\ Creating(p)
      /\ loc[p] \in StateRec /\ req[p].mode \in Modes
  BY <1>2, InCreate
<1>4. CASE req[p].mode = "bad"
  <2>1. Goes(p, "idle", loc[p]) /\ "idle" \in PCs
    BY <1>3, <1>4, GotoGoes DEF GuardMode, Goto, PCs
  <2>2. ProcOK(p)'
    BY <2>1 DEF ProcOK, Goes
  <2>3. asked[loc[p].kid] = "bad"
    BY <1>2, <1>3, <1>4 DEF Creating, EarlyPCs
  <2> QED
    BY <1>1, <2>1, <2>2, <2>3, QuietStep DEF SavePCs, RemovePCs
<1>5. CASE req[p].mode = "none"
  <2>1. Goes(p, "save", loc[p]) /\ "save" \in PCs
    BY <1>3, <1>5, GotoGoes DEF GuardMode, Goto, PCs, SavePCs
  <2>2. pc'[p] = "save" /\ req'[p] = req[p] /\ cid'[p] = cid[p] /\ loc'[p] = loc[p]
    BY <2>1 DEF Goes
  <2>3. ProcOK(p)'
    <3>1. Names(loc[p], cid[p]) /\ Matches(loc[p]) /\ ~loc[p].guard /\ file[cid[p]] = NoState
      BY <1>2, <1>3, <1>5 DEF Creating, EarlyPCs, Names, Matches, Asks
    <3>2. Saving(p)'
      BY <1>1, <2>2, <3>1 DEF Saving, Runs, Names, Matches, Asks
    <3> QED
      BY <1>1, <1>2, <1>3, <1>5, <2>2, <3>2
          DEF ProcOK, Creating, EarlyPCs, CreatePCs, SavePCs, LoadedPCs, RemovePCs
  <2> QED
    BY <1>1, <2>1, <2>3, QuietStep DEF SavePCs, RemovePCs
<1>6. CASE req[p].mode \in {"block", "kill"}
  <2>1. PICK next \in {"init", "undo"} :
          GotoWith(p, next, loc[p]) /\ (next = "init" => loc[p].cgroup)
    BY <1>6 DEF GuardMode, Goto
  <2> QED
    BY <1>1, <1>2, <1>6, <2>1, CreateGoes DEF CreatePCs, EarlyPCs, BpfPCs
<1> QED
  BY <1>3, <1>4, <1>5, <1>6 DEF Modes

\* What a process may assume once it has loaded the file.
LEMMA InHold ==
    ASSUME CliInv, NEW p \in Procs, pc[p] \in LoadedPCs \cup RemovePCs
    PROVE  /\ cid[p] \in Ids /\ req[p] \in Requests /\ Holding(p)
           /\ Names(loc[p], cid[p]) /\ loc[p] \in StateRec
           /\ pc[p] \in LoadedPCs /\ req[p].cmd = "run" => asked[loc[p].kid] = req[p].mode
<1>1. ProcOK(p) /\ pc[p] # "idle"
  BY DEF CliInv, LoadedPCs, RemovePCs
<1>2. cid[p] \in Ids /\ Holding(p)
  BY <1>1 DEF ProcOK
<1>3. IdOK(cid[p])
  BY <1>2 DEF CliInv
<1> QED
  BY <1>1, <1>2, <1>3 DEF ProcOK, Holding, Keys, IdOK, CliInv, CliTypeOK

\* The process ends, or goes on with what it loaded.
LEMMA HoldGoes ==
    ASSUME CliInv, NEW p \in Procs, pc[p] \in LoadedPCs, NEW next \in {"idle", "delete"},
           next = "delete" => req[p].cmd = "run", GotoWith(p, next, loc[p]),
           UNCHANGED <<file, dirty, skipped, leaked, cgdir, gens, guarded>>,
           UNCHANGED <<dom, member, owner, asked>>
    PROVE  CliInv'
<1>1. next \in PCs
  BY DEF PCs, LoadedPCs
<1>2. /\ cid[p] \in Ids /\ req[p] \in Requests /\ Holding(p) /\ loc[p] \in StateRec
      /\ req[p].cmd = "run" => asked[loc[p].kid] = req[p].mode
  BY InHold
<1>3. Goes(p, next, loc[p])
  BY <1>1, <1>2, GotoGoes
<1>4. ProcOK(p)'
  <2>1. CASE next = "idle"
    BY <1>3, <2>1 DEF Goes, ProcOK
  <2>2. CASE next = "delete"
    <3>1. pc'[p] = "delete" /\ req'[p] = req[p] /\ cid'[p] = cid[p] /\ loc'[p] = loc[p]
      BY <1>3, <2>2 DEF Goes
    <3>2. Holding(p)'
      BY <1>2, <2>2, <3>1 DEF Holding, Keys, Loaded, RemovePCs
    <3> QED
      BY <1>2, <3>1, <3>2 DEF ProcOK, CreatePCs, EarlyPCs, SavePCs
  <2> QED
    BY <2>1, <2>2
<1>5. file[cid[p]].kid = loc[p].kid
  BY <1>2 DEF Holding, Keys
<1>6. pc[p] \notin {"idle"} \cup SavePCs \cup RemovePCs
  BY DEF LoadedPCs, SavePCs, RemovePCs
<1> QED
  BY <1>1, <1>3, <1>4, <1>5, <1>6, QuietStep

\* run's wait ends.
LEMMA WaitStep ==
    ASSUME CliInv, NEW p \in Procs, WaitForExit(p)
    PROVE  CliInv'
<1>1. /\ pc[p] = "wait" /\ \E next \in {"idle", "delete"} : GotoWith(p, next, loc[p])
      /\ UNCHANGED <<file, dirty, skipped, leaked, cgdir, gens, guarded>>
      /\ UNCHANGED <<dom, member, owner, asked>>
  BY DEF WaitForExit, Goto, kernelVars, history, hostVars
<1>2. req[p].cmd = "run" /\ pc[p] \in LoadedPCs
  BY <1>1, InHold DEF Holding, Keys, LoadedPCs
<1> QED
  BY <1>1, <1>2, HoldGoes

\* ioctl STATE: what is to be saved is what krunc.ko said.
LEMMA DevStateStep ==
    ASSUME CliInv, NEW p \in Procs, DevState(p)
    PROVE  CliInv'
<1> DEFINE k == loc[p].kid
           st == [loc[p] EXCEPT !.status = Port!Answer(k)]
<1>1. /\ pc[p] = "state" /\ pc[p] \in LoadedPCs
      /\ UNCHANGED <<file, dirty, skipped, leaked, cgdir, gens, guarded>>
      /\ UNCHANGED <<dom, member, owner, asked>>
  BY DEF DevState, kernelVars, history, hostVars, LoadedPCs
<1>2. /\ cid[p] \in Ids /\ req[p] \in Requests /\ Holding(p)
      /\ Names(loc[p], cid[p]) /\ loc[p] \in StateRec
      /\ req[p].cmd = "run" => asked[k] = req[p].mode
  BY <1>1, InHold
<1>3. /\ st \in StateRec /\ st.kid = k /\ st.guard = loc[p].guard /\ st.cgroup = loc[p].cgroup
      /\ st.status = Port!Answer(k) /\ st.status \in {"created", "running", "stopped"}
  BY <1>2 DEF StateRec, Statuses, Port!Answer
<1>4. file[cid[p]].kid = k /\ Loaded(cid[p]) /\ file[cid[p]].guard = loc[p].guard
  BY <1>2 DEF Holding, Keys
<1>5. pc[p] \notin {"idle"} \cup SavePCs \cup RemovePCs
  BY <1>1 DEF SavePCs, RemovePCs
<1> HIDE DEF st
<1>6. CASE ~Port!Exists(k)
  <2>1. GotoWith(p, "idle", st) /\ "idle" \in PCs
    BY <1>6 DEF DevState, st, PCs
  <2>2. Goes(p, "idle", st)
    BY <1>3, <2>1, GotoGoes
  <2>3. ProcOK(p)'
    BY <2>2 DEF ProcOK, Goes
  <2> QED
    BY <1>1, <1>4, <1>5, <2>1, <2>2, <2>3, QuietStep
<1>7. CASE Port!Exists(k)
  <2>1. GotoWith(p, "save", st) /\ "save" \in PCs
    BY <1>7 DEF DevState, st, PCs, SavePCs
  <2>2. Goes(p, "save", st)
    BY <1>3, <2>1, GotoGoes
  <2>3. pc'[p] = "save" /\ req'[p] = req[p] /\ cid'[p] = cid[p] /\ loc'[p] = st
    BY <2>2 DEF Goes
  <2>4. Names(st, cid[p]) /\ Matches(st)
    BY <1>2, <1>3, <1>7 DEF Names, Matches, Port!Answer, Port!Exists
  <2>5. st.guard => Armed(k)
    BY <1>2, <1>3, <1>4, <1>7 DEF CliInv, IdOK, Keys
  <2>6. Saving(p)'
    BY <1>1, <1>3, <1>4, <2>3, <2>4, <2>5 DEF Saving, Runs, Names, Matches, Asks, Armed, Loaded
  <2>7. ProcOK(p)'
    BY <1>1, <1>2, <1>3, <2>3, <2>6 DEF ProcOK, CreatePCs, EarlyPCs, SavePCs, LoadedPCs, RemovePCs
  <2> QED
    BY <1>1, <1>3, <1>5, <2>1, <2>2, <2>7, QuietStep
<1> QED
  BY <1>6, <1>7

-----------------------------------------------------------------------------
(* The calls of create.                                                    *)

\* ioctl CREATE: a kernel container no file and no process knows.
LEMMA DevCreateStep ==
    ASSUME CliInv, NEW p \in Procs, DevCreate(p)
    PROVE  CliInv'
<1>0. PICK id \in Ids : id = cid[p] /\ pc[p] = "create"
  BY WorksAlone DEF DevCreate
<1>1. /\ Alone(p, id) /\ ProcOK(p) /\ IdOK(id) /\ Creating(p) /\ req[p] \in Requests
      /\ file[id] = NoState /\ req[p] \in Request
  BY <1>0, WorksAlone, CliAssumption DEF ProcOK, Creating, EarlyPCs
<1>2. PICK k \in Kids :
        /\ dom[k] = "absent" /\ dom' = [dom EXCEPT ![k] = "created"]
        /\ owner' = [owner EXCEPT ![k] = id]
        /\ asked' = [asked EXCEPT ![k] = req[p].mode]
        /\ GotoWith(p, "maps", [NoState EXCEPT !.kid = k, !.status = "created"])
  BY <1>0 DEF DevCreate, Port!Create
<1>3. PICK st \in StateRec : /\ st = [NoState EXCEPT !.kid = k, !.status = "created"]
                             /\ st.kid = k /\ st.status = "created" /\ ~st.guard
  <2>1. NoState \in StateRec /\ ~NoState.guard
    BY DEF NoState, StateRec, Statuses
  <2>2. LET st == [NoState EXCEPT !.kid = k, !.status = "created"]
        IN st \in StateRec /\ st.kid = k /\ st.status = "created" /\ st.guard = NoState.guard
    BY <2>1 DEF StateRec, Statuses
  <2> QED
    BY <2>1, <2>2
<1>4. UNCHANGED <<file, dirty, skipped, leaked, cgdir, gens, guarded, member>>
  BY DEF DevCreate, hostVars, history
<1>5. "maps" \in PCs /\ Goes(p, "maps", st)
  BY <1>2, <1>3, GotoGoes DEF PCs, CreatePCs, EarlyPCs
<1>6. pc'[p] = "maps" /\ req'[p] = req[p] /\ cid'[p] = id /\ loc'[p] = st
  BY <1>0, <1>5 DEF Goes
<1>7. /\ dom'[k] = "created" /\ owner'[k] = id /\ asked'[k] = req[p].mode
      /\ member'[k] = Unplaced
      /\ \A x \in Kids : x # k => Kept(x)
  BY <1>2, <1>4 DEF Kept, CliInv, CliTypeOK, KidOK, Held, Runs
<1>8. Local(p, id)
  BY <1>0, <1>2, <1>4, <1>5, <1>7 DEF Local, Goes
<1>9. CliTypeOK'
  BY <1>1, <1>2, <1>4, <1>5 DEF CliInv, CliTypeOK, Goes, Request, Modes
<1>10. ProcOK(p)'
  <2>1. Creating(p)'
    BY <1>0, <1>1, <1>3, <1>4, <1>6, <1>7 DEF Creating, EarlyPCs, BpfPCs
  <2> QED
    BY <1>1, <1>6, <2>1 DEF ProcOK, CreatePCs, EarlyPCs, SavePCs, LoadedPCs, RemovePCs
<1>11. \A q \in Procs : pc'[q] # "idle" /\ cid'[q] = id => q = p
  BY <1>1, <1>5 DEF Alone, Goes
<1>12. IdOK(id)'
  <2>1. file'[id] = NoState /\ ~Loaded(id)' /\ NoState # Torn /\ ~NoState.guard
    BY <1>1, <1>4 DEF Loaded, NoState, Torn
  <2>2. \A q \in Procs : ~AtWork(q, id, SavePCs)
    BY <1>0, <1>1 DEF AtWork, Alone, SavePCs
  <2>3. RunsPlain => \A g \in Keys : ~(g[1] = id /\ dirty[id] # "lost")
    BY <1>1, <2>1, <2>2 DEF IdOK, Keys, KeysOK
  <2> QED
    BY <1>4, <2>1, <2>3 DEF IdOK, Keys, KeysOK, RunsPlain
<1>13. ASSUME NEW x \in Kids, owner'[x] = id
       PROVE  KidOK(x)'
  <2>1. CASE x = k
    BY <1>3, <1>6, <1>7, <2>1 DEF KidOK, Held, Runs
  <2>2. CASE x # k
    <3>1. KidOK(x) /\ Kept(x) /\ loc[p].kid # x
      <4>1. loc[p].kid = 0
        BY <1>0, <1>1 DEF Creating, EarlyPCs, NoState
      <4> QED
        BY <1>7, <2>2, <4>1, CliAssumption DEF CliInv
    <3>2. ~(Held(x) /\ asked[x] # "bad" /\ dirty[id] # "lost")
      <4>1. file[owner[x]].kid # x /\ owner[x] = id
        BY <1>1, <1>13, <3>1, CliAssumption DEF NoState, Kept
      <4> QED
        BY <1>0, <1>1, <3>1, <4>1 DEF KidOK, Held, Runs, Alone
    <3> QED
      BY <1>4, <1>13, <3>1, <3>2 DEF KidOK, Held, Runs, Kept, Port!Exists, Asks, Armed
  <2> QED
    BY <2>1, <2>2
<1>14. \A g \in guarded' : g[1] \in Ids /\ g[2] # 0
  BY <1>4 DEF CliInv
<1> QED
  BY <1>1, <1>8, <1>9, <1>10, <1>12, <1>13, <1>14, OwnId

\* While an id has no file none of its containers runs, and only the one its
\* process is at work on is left.
LEMMA NoFile ==
    ASSUME CliInv, NEW p \in Procs, pc[p] # "idle", file[cid[p]] = NoState,
           NEW k \in Kids, owner[k] = cid[p]
    PROVE  /\ ~Runs(k)
           /\ Held(k) /\ asked[k] # "bad" /\ dirty[cid[p]] # "lost" => loc[p].kid = k
<1>1. KidOK(k) /\ NoState.kid # k /\ NoState # Torn
  BY CliAssumption DEF CliInv, NoState, Torn
<1>2. Alone(p, cid[p])
  BY WorksAlone
<1> QED
  BY <1>1, <1>2 DEF KidOK, Held, Runs, Alone

\* ... and its keys, if any, are of a lost container.
LEMMA NoFileNoKeys ==
    ASSUME CliInv, NEW p \in Procs, pc[p] \in CreatePCs, RunsPlain,
           NEW g \in Keys, g[1] = cid[p]
    PROVE  dirty[cid[p]] = "lost"
<1>1. /\ pc[p] # "idle" /\ cid[p] \in Ids /\ file[cid[p]] = NoState
      /\ Alone(p, cid[p]) /\ IdOK(cid[p])
  BY InCreate, WorksAlone DEF Creating, EarlyPCs, CreatePCs
<1>2. \A q \in Procs : ~AtWork(q, cid[p], SavePCs)
  BY <1>1 DEF AtWork, Alone, SavePCs, CreatePCs, EarlyPCs
<1> QED
  BY <1>1, <1>2 DEF IdOK, Keys, KeysOK, NoState

\* The teardown of a create that fails.
LEMMA UndoStep ==
    ASSUME CliInv, NEW p \in Procs, Undo(p)
    PROVE  CliInv'
<1>0. pc[p] = "undo" /\ pc[p] \in CreatePCs
  BY DEF Undo, CreatePCs, EarlyPCs
<1>1. PICK id \in Ids : id = cid[p]
  BY <1>0, InCreate
<1>2. /\ Alone(p, id) /\ IdOK(id) /\ Creating(p) /\ loc[p] \in StateRec
      /\ file[id] = NoState
  BY <1>0, <1>1, WorksAlone, InCreate DEF Creating, EarlyPCs
<1>3. PICK k \in Kids : k = loc[p].kid /\ dom[k] = "created" /\ owner[k] = id
  BY <1>0, <1>1, <1>2 DEF Creating, EarlyPCs
<1>4. /\ dom' = [dom EXCEPT ![k] = "deleted"] /\ GotoWith(p, "idle", loc[p])
      /\ UNCHANGED <<file, dirty, skipped, leaked, cgdir, gens, guarded, member, owner, asked>>
  BY <1>3 DEF Undo, IoctlDelete, Port!Exists, Port!Delete, Goto, hostVars, history
<1>5. "idle" \in PCs /\ Goes(p, "idle", loc[p])
  BY <1>2, <1>4, GotoGoes DEF PCs
<1>6. dom'[k] = "deleted" /\ \A x \in Kids : x # k => Kept(x)
  BY <1>4 DEF Kept, CliInv, CliTypeOK
<1>7. Local(p, id)
  BY <1>1, <1>3, <1>4, <1>5, <1>6 DEF Local, Goes
<1>8. CliTypeOK' /\ ProcOK(p)'
  BY <1>4, <1>5 DEF CliInv, CliTypeOK, Goes, ProcOK
<1>9. IdOK(id)'
  <2>1. file'[id] = NoState /\ ~Loaded(id)' /\ NoState # Torn
    BY <1>2, <1>4 DEF Loaded, NoState, Torn
  <2>2. RunsPlain => \A g \in Keys : ~(g[1] = id /\ dirty[id] # "lost")
    BY <1>0, <1>1, NoFileNoKeys
  <2> QED
    BY <1>4, <2>1, <2>2 DEF IdOK, Keys, KeysOK, RunsPlain
<1>10. ASSUME NEW x \in Kids, owner'[x] = id
       PROVE  KidOK(x)'
  <2>1. KidOK(x) /\ owner[x] = id
    BY <1>4, <1>10 DEF CliInv
  <2>2. CASE x = k
    BY <1>3, <1>4, <1>6, <2>1, <2>2 DEF KidOK, Held, Runs, Port!Exists
  <2>3. CASE x # k
    <3>1. ~(Held(x) /\ asked[x] # "bad" /\ dirty[id] # "lost") /\ ~Runs(x)
      BY <1>0, <1>1, <1>2, <1>3, <2>1, <2>3, NoFile
    <3> QED
      BY <1>4, <1>6, <2>1, <2>3, <3>1 DEF KidOK, Held, Runs, Kept, Port!Exists
  <2> QED
    BY <2>2, <2>3
<1>11. \A g \in guarded' : g[1] \in Ids /\ g[2] # 0
  BY <1>4 DEF CliInv
<1> QED
  BY <1>2, <1>7, <1>8, <1>9, <1>10, <1>11, OwnId

\* The directory: a new generation, or the one found.
LEMMA MakeCgroupStep ==
    ASSUME CliInv, NEW p \in Procs, MakeCgroup(p)
    PROVE  CliInv'
<1>0. pc[p] = "cgroup" /\ pc[p] \in CreatePCs /\ pc[p] \in EarlyPCs
  BY DEF MakeCgroup, CreatePCs, EarlyPCs
<1>1. PICK id \in Ids : id = cid[p]
  BY <1>0, InCreate
<1>2. /\ Alone(p, id) /\ IdOK(id) /\ Creating(p) /\ loc[p] \in StateRec
      /\ file[id] = NoState /\ req[p] \in Requests
  BY <1>0, <1>1, WorksAlone, InCreate DEF Creating
<1>3. PICK k \in Kids : k = loc[p].kid /\ dom[k] = "created" /\ owner[k] = id
                         /\ member[k] = Unplaced
  BY <1>0, <1>1, <1>2 DEF Creating
<1>4. UNCHANGED <<file, dirty, skipped, leaked, guarded, dom, member, owner, asked>>
  BY DEF MakeCgroup, kernelVars, history
<1>5. CASE GotoWith(p, "mode", loc[p]) /\ UNCHANGED <<cgdir, gens>>
  BY <1>0, <1>4, <1>5, CreateGoes DEF CreatePCs, EarlyPCs, BpfPCs
<1>6. CASE /\ GotoWith(p, "limits", loc[p]) /\ cgdir' \in [Ids -> Nat] /\ gens' \in [Ids -> Nat]
           /\ \A j \in Ids : j # id => cgdir'[j] = cgdir[j]
  <2>1. "limits" \in PCs /\ Goes(p, "limits", loc[p])
    BY <1>2, <1>6, GotoGoes DEF PCs, CreatePCs, EarlyPCs
  <2>2. pc'[p] = "limits" /\ req'[p] = req[p] /\ cid'[p] = id /\ loc'[p] = loc[p]
    BY <1>1, <2>1 DEF Goes
  <2>3. Local(p, id)
    BY <1>1, <1>4, <1>6, <2>1, <2>2 DEF Local, Goes, Kept
  <2>4. CliTypeOK'
    BY <1>4, <1>6, <2>1 DEF CliInv, CliTypeOK, Goes
  <2>5. ProcOK(p)'
    <3>1. Creating(p)'
      BY <1>0, <1>1, <1>2, <1>3, <1>4, <2>2 DEF Creating, BpfPCs
    <3> QED
      BY <1>2, <2>2, <3>1 DEF ProcOK, CreatePCs, EarlyPCs, SavePCs, LoadedPCs, RemovePCs
  <2>6. IdOK(id)'
    <3>1. file'[id] = NoState /\ ~Loaded(id)' /\ NoState # Torn
      BY <1>2, <1>4 DEF Loaded, NoState, Torn
    <3>2. RunsPlain => \A g \in Keys : ~(g[1] = id /\ dirty[id] # "lost")
      BY <1>0, <1>1, NoFileNoKeys
    <3> QED
      BY <1>4, <3>1, <3>2 DEF IdOK, Keys, KeysOK, RunsPlain
  <2>7. ASSUME NEW x \in Kids, owner'[x] = id
        PROVE  KidOK(x)'
    <3>1. /\ KidOK(x) /\ owner[x] = id /\ ~Runs(x)
          /\ Held(x) /\ asked[x] # "bad" /\ dirty[id] # "lost" => k = x
      BY <1>0, <1>1, <1>2, <1>3, <1>4, <2>7, NoFile DEF CliInv
    <3>2. pc'[p] # "idle" /\ cid'[p] = id /\ loc'[p].kid = k
      BY <1>3, <2>2
    <3> QED
      BY <1>4, <3>1, <3>2 DEF KidOK, Held, Runs, Port!Exists
  <2>8. \A g \in guarded' : g[1] \in Ids /\ g[2] # 0
    BY <1>4 DEF CliInv
  <2> QED
    BY <1>2, <2>3, <2>4, <2>5, <2>6, <2>7, <2>8, OwnId
<1>7. cgdir \in [Ids -> Nat] /\ gens \in [Ids -> Nat]
  BY DEF CliInv, CliTypeOK
<1> QED
  BY <1>1, <1>5, <1>6, <1>7 DEF MakeCgroup, Goto

\* The limits decide whether the State has a cgroup.
LEMMA SetLimitsStep ==
    ASSUME CliInv, NEW p \in Procs, SetLimits(p)
    PROVE  CliInv'
<1>0. pc[p] = "limits" /\ pc[p] \in CreatePCs /\ pc[p] \in EarlyPCs
  BY DEF SetLimits, CreatePCs, EarlyPCs
<1>1. PICK ok \in BOOLEAN, next \in {"place", "mode"} :
        GotoWith(p, next, [loc[p] EXCEPT !.cgroup = ok])
  BY DEF SetLimits, Results
<1>2. /\ UNCHANGED <<file, dirty, skipped, leaked, cgdir, gens, guarded>>
      /\ UNCHANGED <<dom, member, owner, asked>>
  BY DEF SetLimits, kernelVars, hostVars, history
<1>3. /\ cid[p] \in Ids /\ req[p] \in Requests /\ Creating(p) /\ loc[p] \in StateRec
  BY <1>0, InCreate
<1>4. PICK st \in StateRec : /\ st = [loc[p] EXCEPT !.cgroup = ok] /\ st.kid = loc[p].kid
                             /\ st.status = loc[p].status /\ st.guard = loc[p].guard
  <2>1. LET st == [loc[p] EXCEPT !.cgroup = ok]
        IN /\ st \in StateRec /\ st.kid = loc[p].kid
           /\ st.status = loc[p].status /\ st.guard = loc[p].guard
    BY <1>3 DEF StateRec
  <2> QED
    BY <2>1
<1>5. next \in PCs /\ next \in CreatePCs /\ next \notin BpfPCs /\ next # "idle"
  BY DEF PCs, CreatePCs, EarlyPCs, BpfPCs
<1>6. Goes(p, next, st)
  BY <1>1, <1>4, <1>5, GotoGoes
<1>7. pc'[p] = next /\ req'[p] = req[p] /\ cid'[p] = cid[p] /\ loc'[p] = st
  BY <1>5, <1>6 DEF Goes
<1>8. ProcOK(p)'
  <2>1. Creating(p)'
    BY <1>0, <1>2, <1>3, <1>4, <1>5, <1>7 DEF Creating, Cgroup
  <2> QED
    BY <1>3, <1>7, <2>1 DEF ProcOK, CreatePCs, EarlyPCs, SavePCs, LoadedPCs, RemovePCs
<1>9. pc[p] \notin {"idle"} \cup SavePCs \cup RemovePCs
  BY <1>0 DEF SavePCs, RemovePCs
<1> QED
  BY <1>2, <1>4, <1>5, <1>6, <1>8, <1>9, QuietStep

\* The init is in the directory of its id, or in none.
LEMMA PlaceStep ==
    ASSUME CliInv, NEW p \in Procs, Place(p)
    PROVE  CliInv'
<1>0. pc[p] = "place" /\ pc[p] \in CreatePCs /\ pc[p] \in EarlyPCs
  BY DEF Place, CreatePCs, EarlyPCs
<1>1. PICK id \in Ids : id = cid[p]
  BY <1>0, InCreate
<1>2. /\ Alone(p, id) /\ IdOK(id) /\ Creating(p) /\ loc[p] \in StateRec
      /\ file[id] = NoState /\ req[p] \in Requests
  BY <1>0, <1>1, WorksAlone, InCreate DEF Creating
<1>3. PICK k \in Kids : k = loc[p].kid /\ dom[k] = "created" /\ owner[k] = id
                         /\ member[k] = Unplaced
  BY <1>0, <1>1, <1>2 DEF Creating
<1>4. /\ UNCHANGED <<file, dirty, skipped, leaked, cgdir, gens, guarded, dom, owner, asked>>
      /\ GotoWith(p, "mode", loc[p])
  BY DEF Place, Goto, hostVars, history
<1>5. member' \in [Kids -> {Unplaced} \cup (Ids \X Nat)]
      /\ member'[k] \in {Unplaced, Cgroup(id)} /\ \A x \in Kids : x # k => member'[x] = member[x]
  <2>1. member \in [Kids -> {Unplaced} \cup (Ids \X Nat)] /\ Cgroup(id) \in Ids \X Nat
    BY DEF CliInv, CliTypeOK, Cgroup
  <2>2. member' = [member EXCEPT ![k] = Cgroup(id)] \/ member' = member
    BY <1>1, <1>3 DEF Place
  <2> QED
    BY <1>3, <2>1, <2>2
<1>6. "mode" \in PCs /\ Goes(p, "mode", loc[p])
  BY <1>2, <1>4, GotoGoes DEF PCs, CreatePCs
<1>7. pc'[p] = "mode" /\ req'[p] = req[p] /\ cid'[p] = id /\ loc'[p] = loc[p]
  BY <1>1, <1>6 DEF Goes
<1>8. \A x \in Kids : x # k => Kept(x)
  BY <1>4, <1>5 DEF Kept
<1>9. Local(p, id)
  BY <1>1, <1>3, <1>4, <1>6, <1>7, <1>8 DEF Local, Goes
<1>10. CliTypeOK'
  BY <1>4, <1>5, <1>6 DEF CliInv, CliTypeOK, Goes
<1>11. ProcOK(p)'
  <2>1. Creating(p)'
    BY <1>0, <1>1, <1>2, <1>3, <1>4, <1>5, <1>7 DEF Creating, EarlyPCs, BpfPCs, Cgroup
  <2> QED
    BY <1>2, <1>7, <2>1 DEF ProcOK, CreatePCs, EarlyPCs, SavePCs, LoadedPCs, RemovePCs
<1>12. IdOK(id)'
  <2>1. file'[id] = NoState /\ ~Loaded(id)' /\ NoState # Torn
    BY <1>2, <1>4 DEF Loaded, NoState, Torn
  <2>2. RunsPlain => \A g \in Keys : ~(g[1] = id /\ dirty[id] # "lost")
    BY <1>0, <1>1, NoFileNoKeys
  <2> QED
    BY <1>4, <2>1, <2>2 DEF IdOK, Keys, KeysOK, RunsPlain
<1>13. ASSUME NEW x \in Kids, owner'[x] = id
       PROVE  KidOK(x)'
  <2>1. /\ KidOK(x) /\ owner[x] = id /\ ~Runs(x)
        /\ Held(x) /\ asked[x] # "bad" /\ dirty[id] # "lost" => k = x
    BY <1>0, <1>1, <1>2, <1>3, <1>4, <1>13, NoFile DEF CliInv
  <2>2. CASE x = k
    <3>1. member'[k] = Unplaced \/ member'[k][1] = id
      BY <1>5 DEF Cgroup
    <3>2. pc'[p] # "idle" /\ cid'[p] = id /\ loc'[p].kid = k
      BY <1>3, <1>7
    <3> QED
      BY <1>3, <1>4, <1>13, <2>2, <3>1, <3>2 DEF KidOK, Held, Runs, Port!Exists
  <2>3. CASE x # k
    BY <1>4, <1>8, <2>1, <2>3 DEF KidOK, Held, Runs, Kept, Port!Exists
  <2> QED
    BY <2>2, <2>3
<1>14. \A g \in guarded' : g[1] \in Ids /\ g[2] # 0
  BY <1>4 DEF CliInv
<1> QED
  BY <1>2, <1>9, <1>10, <1>11, <1>12, <1>13, <1>14, OwnId

\* The guard: the key is the container's, whose State now says so.
LEMMA BpfGuardStep ==
    ASSUME CliInv, NEW p \in Procs, BpfGuard(p)
    PROVE  CliInv'
<1>0. pc[p] = "guard" /\ pc[p] \in CreatePCs /\ pc[p] \in BpfPCs
  BY DEF BpfGuard, CreatePCs, EarlyPCs, BpfPCs
<1>1. PICK id \in Ids : id = cid[p]
  BY <1>0, InCreate
<1>2. /\ Alone(p, id) /\ IdOK(id) /\ Creating(p) /\ loc[p] \in StateRec
      /\ file[id] = NoState /\ req[p] \in Requests
  BY <1>0, <1>1, WorksAlone, InCreate DEF Creating, EarlyPCs
<1>3. PICK k \in Kids : k = loc[p].kid
  BY <1>0, <1>2 DEF Creating, EarlyPCs
<1>4. /\ dom[k] = "created" /\ owner[k] = id /\ asked[k] = req[p].mode
      /\ req[p].mode \in {"block", "kill"} /\ loc[p].cgroup /\ loc[p].status = "created"
      /\ member[k] \in {Unplaced, Cgroup(id)}
  BY <1>0, <1>1, <1>2, <1>3 DEF Creating, EarlyPCs
<1>5. /\ UNCHANGED <<file, dirty, skipped, cgdir, gens>> /\ UNCHANGED <<dom, member, owner, asked>>
  BY DEF BpfGuard, kernelVars, history
<1>6. CASE UNCHANGED <<guarded, leaked>> /\ GotoWith(p, "undo", loc[p])
  BY <1>0, <1>5, <1>6, CreateGoes DEF CreatePCs, EarlyPCs, BpfPCs
<1>7. CASE /\ cgdir[id] # 0 /\ guarded' = guarded \cup {Cgroup(id)}
           /\ leaked' = leaked \ {Cgroup(id)}
           /\ GotoWith(p, "save", [loc[p] EXCEPT !.guard = TRUE])
  <2>1. PICK st \in StateRec : /\ st = [loc[p] EXCEPT !.guard = TRUE] /\ st.kid = k
                               /\ st.status = "created" /\ st.guard /\ st.cgroup
    <3>1. LET st == [loc[p] EXCEPT !.guard = TRUE]
          IN /\ st \in StateRec /\ st.kid = loc[p].kid /\ st.cgroup = loc[p].cgroup
             /\ st.status = loc[p].status /\ st.guard = TRUE
      BY <1>2 DEF StateRec
    <3> QED
      BY <1>3, <1>4, <3>1
  <2>2. "save" \in PCs /\ Goes(p, "save", st)
    BY <1>7, <2>1, GotoGoes DEF PCs, SavePCs
  <2>3. pc'[p] = "save" /\ req'[p] = req[p] /\ cid'[p] = id /\ loc'[p] = st
    BY <1>1, <2>2 DEF Goes
  <2>4. Local(p, id)
    BY <1>1, <1>5, <1>7, <2>2, <2>3 DEF Local, Goes, Kept, Cgroup
  <2>5. CliTypeOK'
    BY <1>5, <2>2 DEF CliInv, CliTypeOK, Goes
  <2>6. ProcOK(p)'
    <3>1. (Names(loc[p], cid[p]) /\ Matches(loc[p]) /\ Armed(loc[p].kid))'
      BY <1>4, <1>5, <1>7, <2>1, <2>3 DEF Names, Matches, Asks, Armed
    <3>2. Saving(p)'
      BY <1>2, <1>5, <2>3, <3>1 DEF Saving, Runs
    <3> QED
      BY <1>2, <1>4, <1>5, <2>1, <2>3, <3>2
          DEF ProcOK, CreatePCs, EarlyPCs, SavePCs, LoadedPCs, RemovePCs
  <2>7. IdOK(id)'
    <3>1. file'[id] = NoState /\ ~Loaded(id)' /\ NoState # Torn
      BY <1>2, <1>5 DEF Loaded, NoState, Torn
    <3>2. RunsPlain => \A g \in Keys : ~(g[1] = id /\ dirty[id] # "lost")
      BY <1>0, <1>1, NoFileNoKeys
    <3>3. AtWork(p, id, SavePCs)' /\ loc'[p].guard /\ Cgroup(id)' = Cgroup(id)
      BY <1>5, <2>1, <2>3 DEF AtWork, SavePCs, Cgroup
    <3>4. RunsPlain => KeysOK(id)'
      BY <1>5, <1>7, <3>2, <3>3 DEF KeysOK, Keys
    <3> QED
      BY <3>1, <3>4 DEF IdOK, Keys, RunsPlain
  <2>8. ASSUME NEW x \in Kids, owner'[x] = id
        PROVE  KidOK(x)'
    <3>1. /\ KidOK(x) /\ owner[x] = id /\ ~Runs(x)
          /\ Held(x) /\ asked[x] # "bad" /\ dirty[id] # "lost" => k = x
      BY <1>0, <1>1, <1>2, <1>3, <1>5, <2>8, NoFile DEF CliInv
    <3>2. pc'[p] # "idle" /\ cid'[p] = id /\ loc'[p].kid = k
      BY <2>1, <2>3
    <3> QED
      BY <1>5, <3>1, <3>2 DEF KidOK, Held, Runs, Port!Exists
  <2>9. \A g \in guarded' : g[1] \in Ids /\ g[2] # 0
    BY <1>7 DEF CliInv, Cgroup
  <2> QED
    BY <1>2, <2>4, <2>5, <2>6, <2>7, <2>8, <2>9, OwnId
<1> QED
  BY <1>1, <1>6, <1>7 DEF BpfGuard, Goto

-----------------------------------------------------------------------------
(* The state file.                                                         *)

\* What a process may assume while it saves.
LEMMA InSave ==
    ASSUME CliInv, NEW p \in Procs, pc[p] \in SavePCs
    PROVE  /\ cid[p] \in Ids /\ req[p] \in Requests /\ Saving(p) /\ loc[p] \in StateRec
           /\ req[p].cmd = "run" => asked[loc[p].kid] = req[p].mode
<1>1. ProcOK(p) /\ pc[p] # "idle"
  BY DEF CliInv, SavePCs
<1> QED
  BY <1>1 DEF ProcOK, CliInv, CliTypeOK

\* Opening the file truncates it; what it said, the process still knows.
LEMMA OpenStateStep ==
    ASSUME CliInv, NEW p \in Procs, OpenState(p)
    PROVE  CliInv'
<1>0. pc[p] = "save" /\ pc[p] \in SavePCs
  BY DEF OpenState, SavePCs
<1>1. PICK id \in Ids : id = cid[p]
  BY <1>0, InSave
<1>2. /\ Alone(p, id) /\ IdOK(id) /\ Saving(p) /\ loc[p] \in StateRec /\ req[p] \in Requests
      /\ req[p].cmd = "run" => asked[loc[p].kid] = req[p].mode
  BY <1>0, <1>1, WorksAlone, InSave
<1>3. PICK k \in Kids : k = loc[p].kid /\ Names(loc[p], id) /\ owner[k] = id
  BY <1>1, <1>2 DEF Saving, Runs, Names
<1>4. /\ file' = [file EXCEPT ![id] = Torn] /\ GotoWith(p, "write", loc[p])
      /\ UNCHANGED <<dirty, skipped, leaked, cgdir, gens, guarded, dom, member, owner, asked>>
  BY <1>1 DEF OpenState, Goto, kernelVars, history, hostVars
<1>5. "write" \in PCs /\ Goes(p, "write", loc[p])
  BY <1>2, <1>4, GotoGoes DEF PCs, SavePCs
<1>6. pc'[p] = "write" /\ req'[p] = req[p] /\ cid'[p] = id /\ loc'[p] = loc[p]
  BY <1>1, <1>5 DEF Goes
<1>7. file'[id] = Torn /\ \A j \in Ids : j # id => file'[j] = file[j]
  BY <1>4 DEF CliInv, CliTypeOK
<1>8. Local(p, id)
  BY <1>1, <1>4, <1>5, <1>6, <1>7 DEF Local, Goes, Kept
<1>9. CliTypeOK'
  <2>1. Torn \in StateRec
    BY DEF Torn, NoState, StateRec, Statuses
  <2> QED
    BY <1>4, <1>5, <2>1 DEF CliInv, CliTypeOK, Goes
<1>10. file[id] = NoState \/ file[id].kid = k
  BY <1>0, <1>1, <1>2, <1>3 DEF Saving, Runs
<1>11. \A x \in Kids : Runs(x) /\ owner[x] = id => x = k
  <2> SUFFICES ASSUME NEW x \in Kids, Runs(x), owner[x] = id
               PROVE  x = k
    OBVIOUS
  <2>1. file[id].kid = x \/ file[id] = Torn
    BY DEF CliInv, KidOK, Held, Runs
  <2>2. file[id] # NoState
    BY <1>0, <1>1, NoFile
  <2>3. file[id] # Torn
    BY <1>0, <1>1, <1>2, <2>2 DEF Saving, Runs, Loaded
  <2> QED
    BY <1>10, <2>1, <2>2, <2>3
<1>12. ProcOK(p)'
  <2>1. Saving(p)'
    BY <1>0, <1>1, <1>2, <1>3, <1>4, <1>6, <1>7, <1>11 DEF Saving, Runs, Names, Matches, Asks, Armed
  <2> QED
    BY <1>2, <1>4, <1>6, <2>1 DEF ProcOK, CreatePCs, EarlyPCs, SavePCs, LoadedPCs, RemovePCs
<1>13. IdOK(id)'
  <2>1. AtWork(p, id, {"write"})' /\ AtWork(p, id, SavePCs)' /\ ~Loaded(id)'
    BY <1>6, <1>7 DEF AtWork, SavePCs, Loaded
  <2>2. ASSUME RunsPlain, NEW g \in Keys, g[1] = id, dirty[id] # "lost"
        PROVE  g = Cgroup(id) /\ loc[p].guard
    <3>1. /\ g = Cgroup(id)
          /\ file[id].guard \/ \E q \in Procs : AtWork(q, id, SavePCs) /\ loc[q].guard
      BY <1>2, <2>2 DEF IdOK, Keys, KeysOK
    <3>2. CASE file[id].guard
      <4>1. Loaded(id) /\ file[id].kid = k
        BY <1>0, <1>1, <1>2, <1>3, <3>2 DEF Saving, Runs, NoState
      <4> QED
        BY <1>2, <1>3, <3>1, <3>2, <4>1 DEF IdOK, Keys, Names
    <3>3. CASE \E q \in Procs : AtWork(q, id, SavePCs) /\ loc[q].guard
      BY <1>2, <3>1, <3>3 DEF AtWork, Alone, SavePCs
    <3> QED
      BY <3>1, <3>2, <3>3
  <2>3. RunsPlain => KeysOK(id)'
    BY <1>4, <1>6, <2>1, <2>2 DEF KeysOK, Keys, Cgroup
  <2> QED
    BY <2>1, <2>3 DEF IdOK, Keys, RunsPlain
<1>14. ASSUME NEW x \in Kids, owner'[x] = id
       PROVE  KidOK(x)'
  <2>1. KidOK(x) /\ owner[x] = id
    BY <1>4, <1>14 DEF CliInv
  <2>2. Held(x) /\ asked[x] # "bad" /\ dirty[id] # "lost" => x = k
    <3> SUFFICES ASSUME Held(x), asked[x] # "bad", dirty[id] # "lost"
                 PROVE  x = k
      OBVIOUS
    <3>1. file[id].kid = x \/ \E q \in Procs : pc[q] # "idle" /\ cid[q] = id /\ loc[q].kid = x
      BY <2>1 DEF KidOK, Held, Runs
    <3>2. NoState.kid # x
      BY CliAssumption DEF NoState
    <3> QED
      BY <1>2, <1>3, <1>10, <3>1, <3>2 DEF Alone
  <2>3. pc'[p] # "idle" /\ cid'[p] = id /\ loc'[p].kid = k
    BY <1>3, <1>6
  <2> QED
    BY <1>4, <1>7, <2>1, <2>2, <2>3 DEF KidOK, Held, Runs, Port!Exists, Asks, Armed
<1>15. \A g \in guarded' : g[1] \in Ids /\ g[2] # 0
  BY <1>4 DEF CliInv
<1> QED
  BY <1>2, <1>8, <1>9, <1>12, <1>13, <1>14, <1>15, OwnId

\* The file says what the process knows.
LEMMA SaveStateStep ==
    ASSUME CliInv, NEW p \in Procs, SaveState(p)
    PROVE  CliInv'
<1>0. pc[p] = "write" /\ pc[p] \in SavePCs
  BY DEF SaveState, SavePCs
<1>1. PICK id \in Ids : id = cid[p]
  BY <1>0, InSave
<1>2. /\ Alone(p, id) /\ IdOK(id) /\ Saving(p) /\ loc[p] \in StateRec /\ req[p] \in Requests
      /\ req[p].cmd = "run" => asked[loc[p].kid] = req[p].mode
  BY <1>0, <1>1, WorksAlone, InSave
<1>3. PICK k \in Kids : k = loc[p].kid /\ Names(loc[p], id) /\ owner[k] = id
  BY <1>1, <1>2 DEF Saving, Runs, Names
<1>4. PICK next \in {"idle", "start", "wait"} :
        /\ GotoWith(p, next, loc[p])
        /\ next # "idle" => req[p].cmd = "run"
  BY DEF SaveState, Goto
<1>5. /\ file' = [file EXCEPT ![id] = loc[p]]
      /\ UNCHANGED <<dirty, skipped, leaked, cgdir, gens, guarded, dom, member, owner, asked>>
  BY <1>1 DEF SaveState, kernelVars, history, hostVars
<1>6. next \in PCs /\ Goes(p, next, loc[p])
  BY <1>2, <1>4, GotoGoes DEF PCs, LoadedPCs
<1>7. file'[id] = loc[p] /\ \A j \in Ids : j # id => file'[j] = file[j]
  BY <1>5 DEF CliInv, CliTypeOK
<1>8. pc'[p] = next /\ (next # "idle" => req'[p] = req[p] /\ cid'[p] = id /\ loc'[p] = loc[p])
  BY <1>1, <1>6 DEF Goes
<1>9. Local(p, id)
  BY <1>1, <1>5, <1>6, <1>7, <1>8 DEF Local, Goes, Kept
<1>10. CliTypeOK'
  BY <1>2, <1>5, <1>6 DEF CliInv, CliTypeOK, Goes
<1>11. Loaded(id)' /\ Names(file[id], id)' /\ Matches(file[id])'
  <2>1. loc[p] \notin {NoState, Torn}
    BY <1>3 DEF Names, NoState, Torn
  <2> QED
    BY <1>1, <1>2, <1>3, <1>5, <1>7, <2>1 DEF Loaded, Names, Matches, Asks, Saving, Runs
<1>12. ProcOK(p)'
  <2>1. CASE next = "idle"
    BY <1>8, <2>1 DEF ProcOK
  <2>2. CASE next # "idle"
    <3>1. Holding(p)'
      BY <1>4, <1>7, <1>8, <1>11, <2>2 DEF Holding, Keys, RemovePCs
    <3> QED
      BY <1>2, <1>4, <1>5, <1>8, <2>2, <3>1 DEF ProcOK, CreatePCs, EarlyPCs, SavePCs
  <2> QED
    BY <2>1, <2>2
<1>13. IdOK(id)'
  <2>1. file'[id] # Torn
    BY <1>11 DEF Loaded
  <2>2. (file[id].guard => Armed(file[id].kid))'
    BY <1>2, <1>5, <1>7 DEF Saving, Runs, Armed
  <2>3. ASSUME RunsPlain, NEW g \in Keys, g[1] = id, dirty[id] # "lost"
        PROVE  g = Cgroup(id) /\ loc[p].guard
    <3>1. /\ g = Cgroup(id)
          /\ file[id].guard \/ \E q \in Procs : AtWork(q, id, SavePCs) /\ loc[q].guard
      BY <1>2, <2>3 DEF IdOK, Keys, KeysOK
    <3>2. ~file[id].guard
      BY <1>0, <1>1, <1>2 DEF Saving, Runs, Torn, NoState
    <3> QED
      BY <1>2, <3>1, <3>2 DEF AtWork, Alone, SavePCs
  <2>4. RunsPlain => KeysOK(id)'
    BY <1>5, <1>7, <2>3 DEF KeysOK, Keys, Cgroup
  <2> QED
    BY <1>11, <2>1, <2>2, <2>4 DEF IdOK, Keys, RunsPlain
<1>14. ASSUME NEW x \in Kids, owner'[x] = id
       PROVE  KidOK(x)'
  <2>1. KidOK(x) /\ owner[x] = id
    BY <1>5, <1>14 DEF CliInv
  <2>2. Held(x) /\ asked[x] # "bad" /\ dirty[id] # "lost" => x = k
    <3> SUFFICES ASSUME Held(x), asked[x] # "bad", dirty[id] # "lost"
                 PROVE  x = k
      OBVIOUS
    <3>1. file[id].kid = x \/ \E q \in Procs : pc[q] # "idle" /\ cid[q] = id /\ loc[q].kid = x
      BY <2>1 DEF KidOK, Held, Runs
    <3>2. file[id].kid # x
      BY <1>0, <1>1, <1>2, CliAssumption DEF Saving, Runs, Torn, NoState
    <3> QED
      BY <1>2, <1>3, <3>1, <3>2 DEF Alone
  <2>3. Runs(x) => x = k
    BY <1>0, <1>1, <1>2, <1>3, <2>1 DEF Saving, Runs
  <2>4. file'[id].kid = k
    BY <1>3, <1>7
  <2> QED
    BY <1>5, <1>14, <2>1, <2>2, <2>3, <2>4 DEF KidOK, Held, Runs, Port!Exists, Asks, Armed
<1>15. \A g \in guarded' : g[1] \in Ids /\ g[2] # 0
  BY <1>5 DEF CliInv
<1> QED
  BY <1>2, <1>9, <1>10, <1>12, <1>13, <1>14, <1>15, OwnId

-----------------------------------------------------------------------------
(* start and delete.                                                       *)

\* A container named by the loaded file is the only one of its id that runs,
\* and the only one that is left unless something was lost.
LEMMA OnlyLoaded ==
    ASSUME CliInv, NEW p \in Procs, pc[p] \in LoadedPCs \cup RemovePCs,
           NEW k \in Kids, owner[k] = cid[p],
           \/ Runs(k)
           \/ Held(k) /\ asked[k] # "bad" /\ dirty[cid[p]] # "lost"
    PROVE  k = loc[p].kid
<1>1. /\ cid[p] \in Ids /\ Loaded(cid[p]) /\ loc[p] = file[cid[p]] /\ pc[p] # "idle"
      /\ Alone(p, cid[p])
  BY InHold, WorksAlone DEF Holding, Keys, LoadedPCs, RemovePCs
<1>2. KidOK(k) /\ file[cid[p]] # Torn
  BY <1>1 DEF CliInv, Loaded
<1> QED
  BY <1>1, <1>2 DEF KidOK, Held, Runs, Alone

\* ioctl START: the program is in its guarded cgroup, if it asks for one.
LEMMA DevStartStep ==
    ASSUME CliInv, NEW p \in Procs, DevStart(p)
    PROVE  CliInv'
<1>0. pc[p] = "start" /\ pc[p] \in LoadedPCs
  BY DEF DevStart, IoctlStart, LoadedPCs
<1>1. PICK id \in Ids : id = cid[p]
  BY <1>0, InHold
<1>2. /\ Alone(p, id) /\ IdOK(id) /\ Holding(p) /\ loc[p] \in StateRec /\ req[p] \in Requests
      /\ req[p].cmd = "run" => asked[loc[p].kid] = req[p].mode
      /\ Names(loc[p], id) /\ loc[p] = file[id] /\ Loaded(id)
  BY <1>0, <1>1, WorksAlone, InHold DEF Holding, Keys
<1>3. PICK k \in Kids : k = loc[p].kid /\ owner[k] = id
  BY <1>2 DEF Names
<1>4. UNCHANGED <<file, dirty, skipped, leaked, cgdir, gens, guarded, member, owner, asked>>
  BY DEF DevStart, IoctlStart, hostVars, history
<1>5. CASE ~Port!Exists(k)
  <2>1. UNCHANGED dom /\ GotoWith(p, "idle", loc[p])
    BY <1>3, <1>5 DEF DevStart, IoctlStart, Goto
  <2> QED
    BY <1>0, <1>4, <2>1, HoldGoes
<1>6. CASE Port!Exists(k)
  <2>1. /\ dom' = [dom EXCEPT ![k] = "running"]
        /\ GotoWith(p, "save", [loc[p] EXCEPT !.status = "running"])
    BY <1>3, <1>6 DEF DevStart, IoctlStart, Port!Start
  <2>2. PICK st \in StateRec : /\ st = [loc[p] EXCEPT !.status = "running"] /\ st.kid = k
                               /\ st.status = "running" /\ st.guard = loc[p].guard
                               /\ st.cgroup = loc[p].cgroup
    <3>1. LET st == [loc[p] EXCEPT !.status = "running"]
          IN /\ st \in StateRec /\ st.kid = loc[p].kid /\ st.cgroup = loc[p].cgroup
             /\ st.status = "running" /\ st.guard = loc[p].guard
      BY <1>2 DEF StateRec, Statuses
    <3> QED
      BY <1>3, <3>1
  <2>3. "save" \in PCs /\ Goes(p, "save", st)
    BY <2>1, <2>2, GotoGoes DEF PCs, SavePCs
  <2>4. pc'[p] = "save" /\ req'[p] = req[p] /\ cid'[p] = id /\ loc'[p] = st
    BY <1>1, <2>3 DEF Goes
  <2>5. dom'[k] = "running" /\ \A x \in Kids : x # k => Kept(x)
    BY <1>4, <2>1 DEF Kept, CliInv, CliTypeOK
  <2>6. Local(p, id)
    BY <1>1, <1>3, <1>4, <2>3, <2>4, <2>5 DEF Local, Goes
  <2>7. CliTypeOK'
    BY <1>4, <2>1, <2>3 DEF CliInv, CliTypeOK, Goes
  <2>8. loc[p].guard => Armed(k)
    BY <1>2, <1>3, <1>6 DEF IdOK, Keys
  <2>9. ProcOK(p)'
    <3>1. (Names(loc[p], cid[p]) /\ Matches(loc[p]))'
      BY <1>2, <1>3, <1>4, <2>2, <2>4, <2>5 DEF Names, Matches, Asks
    <3>2. Saving(p)'
      BY <1>2, <1>3, <1>4, <2>2, <2>4, <2>8, <3>1 DEF Saving, Runs, Armed, Loaded
    <3> QED
      BY <1>2, <1>3, <1>4, <2>2, <2>4, <3>2
          DEF ProcOK, CreatePCs, EarlyPCs, SavePCs, LoadedPCs, RemovePCs
  <2>10. IdOK(id)'
    <3>1. Loaded(id)' /\ Names(file[id], id)'
      BY <1>2, <1>3, <1>4, <2>5 DEF Loaded, Names, Asks
    <3>2. AtWork(p, id, {"save"} \cup RemovePCs)' /\ file'[id] # Torn
      BY <1>2, <1>4, <2>4 DEF AtWork, Loaded
    <3>3. (file[id].guard => Armed(file[id].kid))'
      BY <1>2, <1>3, <1>4, <2>8 DEF Armed
    <3>4. RunsPlain => KeysOK(id)'
      <4>1. \A q \in Procs : ~AtWork(q, id, SavePCs)
        BY <1>0, <1>1, <1>2 DEF AtWork, Alone, SavePCs
      <4> QED
        BY <1>2, <1>4, <4>1 DEF IdOK, Keys, KeysOK, Cgroup
    <3> QED
      BY <3>1, <3>2, <3>3, <3>4 DEF IdOK, Keys, RunsPlain
  <2>11. ASSUME NEW x \in Kids, owner'[x] = id
         PROVE  KidOK(x)'
    <3>1. KidOK(x) /\ owner[x] = id /\ KidOK(k)
      BY <1>4, <2>11 DEF CliInv
    <3>2. CASE x = k
      <4>1. file'[id].kid = k /\ (Asks(k) => Armed(k))
        BY <1>2, <1>3, <1>4, <2>8 DEF Names
      <4> QED
        BY <1>3, <1>4, <1>6, <2>5, <3>1, <3>2, <4>1 DEF KidOK, Held, Runs, Port!Exists, Asks, Armed
    <3>3. CASE x # k
      <4>1. ~Runs(x) /\ ~(Held(x) /\ asked[x] # "bad" /\ dirty[id] # "lost")
        BY <1>0, <1>1, <1>3, <3>1, <3>3, OnlyLoaded
      <4> QED
        BY <1>4, <2>5, <3>1, <3>3, <4>1 DEF KidOK, Held, Runs, Kept, Port!Exists
    <3> QED
      BY <3>2, <3>3
  <2>12. \A g \in guarded' : g[1] \in Ids /\ g[2] # 0
    BY <1>4 DEF CliInv
  <2> QED
    BY <1>2, <2>6, <2>7, <2>9, <2>10, <2>11, <2>12, OwnId
<1> QED
  BY <1>5, <1>6

\* ioctl DELETE: from here on the file names a container that is gone.
LEMMA DevDeleteStep ==
    ASSUME CliInv, NEW p \in Procs, DevDelete(p)
    PROVE  CliInv'
<1>0. pc[p] = "delete" /\ pc[p] \in LoadedPCs
  BY DEF DevDelete, LoadedPCs
<1>1. PICK id \in Ids : id = cid[p]
  BY <1>0, InHold
<1>2. /\ Alone(p, id) /\ IdOK(id) /\ Holding(p) /\ loc[p] \in StateRec /\ req[p] \in Requests
      /\ req[p].cmd = "run" => asked[loc[p].kid] = req[p].mode
      /\ Names(loc[p], id) /\ loc[p] = file[id] /\ Loaded(id)
      /\ req[p].cmd \in {"delete", "run"}
  BY <1>0, <1>1, WorksAlone, InHold DEF Holding, Keys
<1>3. PICK k \in Kids : k = loc[p].kid /\ owner[k] = id /\ dom[k] # "absent"
  BY <1>2 DEF Names
<1>4. UNCHANGED <<file, dirty, leaked, cgdir, gens, guarded, member, owner, asked>>
  BY DEF DevDelete, hostVars
<1>5. PICK next \in {"disarm", "rmdir"} :
        /\ GotoWith(p, next, loc[p])
        /\ next = "rmdir" => ~(req[p].cmd = "delete" /\ loc[p].guard /\ loc[p].cgroup)
  BY DEF DevDelete, Goto
<1>6. next \in PCs /\ next \in RemovePCs /\ next # "idle" /\ Goes(p, next, loc[p])
  BY <1>2, <1>5, GotoGoes DEF PCs, RemovePCs
<1>7. pc'[p] = next /\ req'[p] = req[p] /\ cid'[p] = id /\ loc'[p] = loc[p]
  BY <1>1, <1>6 DEF Goes
<1>8. /\ dom' \in [Kids -> {"absent", "created", "running", "deleted"}]
      /\ dom'[k] = "deleted" \/ k \in skipped'
      /\ dom'[k] # "absent"
      /\ \A x \in Kids : x # k => Kept(x)
  <2>0. dom \in [Kids -> {"absent", "created", "running", "deleted"}]
    BY DEF CliInv, CliTypeOK
  <2>1. CASE dom' = [dom EXCEPT ![k] = "deleted"] /\ UNCHANGED skipped
    BY <1>4, <2>0, <2>1 DEF Kept
  <2>2. CASE UNCHANGED dom /\ UNCHANGED skipped /\ ~Port!Exists(k)
    <3>1. dom[k] = "deleted"
      BY <1>3, <2>0, <2>2 DEF Port!Exists
    <3> QED
      BY <1>4, <2>0, <2>2, <3>1 DEF Kept
  <2>3. CASE UNCHANGED dom /\ skipped' = skipped \cup {k}
    BY <1>3, <1>4, <2>0, <2>3 DEF Kept
  <2> QED
    BY <1>3, <2>1, <2>2, <2>3 DEF DevDelete, OpenAndDelete, IoctlDelete, Port!Delete
<1>9. Local(p, id)
  BY <1>1, <1>3, <1>4, <1>6, <1>7, <1>8 DEF Local, Goes
<1>10. CliTypeOK'
  BY <1>4, <1>6, <1>8 DEF CliInv, CliTypeOK, Goes
<1>11. \A q \in Procs : ~AtWork(q, id, SavePCs)
  BY <1>0, <1>1, <1>2 DEF AtWork, Alone, SavePCs
<1>12. ASSUME RunsPlain, next = "rmdir", dirty[id] # "lost", NEW g \in Keys
       PROVE  g[1] # id
  <2>1. loc[p].guard => loc[p].cgroup /\ req[p].cmd = "run" /\ Asks(k)
    BY <1>2, <1>3, <1>5, <1>12 DEF Names
  <2>2. ~loc[p].guard
    BY <1>2, <1>3, <1>12, <2>1 DEF RunsPlain, Asks
  <2> QED
    BY <1>2, <1>11, <1>12, <2>2 DEF IdOK, Keys, KeysOK
<1>13. ProcOK(p)'
  <2>1. Holding(p)'
    BY <1>2, <1>3, <1>4, <1>5, <1>7, <1>8, <1>12 DEF Holding, Keys, Loaded, RunsPlain
  <2> QED
    BY <1>2, <1>5, <1>7, <2>1 DEF ProcOK, CreatePCs, EarlyPCs, SavePCs, LoadedPCs
<1>14. IdOK(id)'
  <2>1. Loaded(id)' /\ Names(file[id], id)'
    BY <1>2, <1>3, <1>4, <1>8 DEF Loaded, Names, Asks
  <2>2. AtWork(p, id, {"save"} \cup RemovePCs)' /\ file'[id] # Torn
    BY <1>2, <1>4, <1>6, <1>7 DEF AtWork, Loaded, RemovePCs
  <2>3. (Port!Exists(file[id].kid) => Armed(file[id].kid))'
    BY <1>2, <1>3, <1>4, <1>8 DEF Port!Exists, Armed
  <2>4. RunsPlain => KeysOK(id)'
    BY <1>2, <1>4, <1>11 DEF IdOK, Keys, KeysOK, Cgroup
  <2> QED
    BY <2>1, <2>2, <2>3, <2>4 DEF IdOK, Keys, RunsPlain
<1>15. ASSUME NEW x \in Kids, owner'[x] = id
       PROVE  KidOK(x)'
  <2>1. KidOK(x) /\ owner[x] = id
    BY <1>4, <1>15 DEF CliInv
  <2>2. CASE x = k
    BY <1>3, <1>4, <1>8, <2>1, <2>2 DEF KidOK, Held, Runs, Port!Exists
  <2>3. CASE x # k
    <3>1. ~Runs(x) /\ ~(Held(x) /\ asked[x] # "bad" /\ dirty[id] # "lost")
      BY <1>0, <1>1, <1>3, <2>1, <2>3, OnlyLoaded
    <3> QED
      BY <1>4, <1>8, <2>1, <2>3, <3>1 DEF KidOK, Held, Runs, Kept, Port!Exists
  <2> QED
    BY <2>2, <2>3
<1>16. \A g \in guarded' : g[1] \in Ids /\ g[2] # 0
  BY <1>4 DEF CliInv
<1> QED
  BY <1>2, <1>9, <1>10, <1>13, <1>14, <1>15, <1>16, OwnId

\* What is left of an id's containers while it is being removed.
LEMMA RemovedKids ==
    ASSUME CliInv, NEW p \in Procs, pc[p] \in RemovePCs,
           UNCHANGED <<dom, member, owner, asked, skipped>>,
           dirty'[cid[p]] # "lost" => dirty[cid[p]] # "lost",
           NEW k \in Kids, owner'[k] = cid[p]
    PROVE  KidOK(k)'
<1>1. Holding(p) /\ KidOK(k)
  BY InHold DEF CliInv
<1>2. dom[loc[p].kid] = "deleted" \/ loc[p].kid \in skipped
  BY <1>1 DEF Holding, Keys
<1>3. ~Runs(k) /\ ~(Held(k) /\ asked[k] # "bad" /\ dirty[cid[p]] # "lost")
  BY <1>2, OnlyLoaded DEF Held, Runs, Port!Exists
<1> QED
  BY <1>1, <1>3 DEF KidOK, Held, Runs, Port!Exists

\* The key is returned before the directory it stands for is removed,
LEMMA DisarmStep ==
    ASSUME CliInv, NEW p \in Procs, Disarm(p)
    PROVE  CliInv'
<1>0. pc[p] = "disarm" /\ pc[p] \in RemovePCs
  BY DEF Disarm, RemovePCs
<1>1. PICK id \in Ids : id = cid[p]
  BY <1>0, InHold
<1>2. /\ Alone(p, id) /\ IdOK(id) /\ Holding(p) /\ loc[p] \in StateRec /\ req[p] \in Requests
      /\ loc[p] = file[id] /\ Loaded(id) /\ (dom[loc[p].kid] = "deleted" \/ loc[p].kid \in skipped)
  BY <1>0, <1>1, WorksAlone, InHold DEF Holding, Keys, RemovePCs
<1>3. /\ UNCHANGED <<file, dirty, skipped, cgdir, gens>> /\ UNCHANGED <<dom, member, owner, asked>>
      /\ Keys' = Keys \ {Cgroup(id)} /\ GotoWith(p, "rmdir", loc[p])
      /\ \A g : g # Cgroup(id) => (g \in guarded' <=> g \in guarded) /\ (g \in leaked' <=> g \in leaked)
      /\ guarded' \subseteq guarded
  BY <1>1 DEF Disarm, Goto, kernelVars, Keys
<1>4. "rmdir" \in PCs /\ Goes(p, "rmdir", loc[p])
  BY <1>2, <1>3, GotoGoes DEF PCs, RemovePCs
<1>5. pc'[p] = "rmdir" /\ req'[p] = req[p] /\ cid'[p] = id /\ loc'[p] = loc[p]
  BY <1>1, <1>4 DEF Goes
<1>6. Local(p, id)
  BY <1>1, <1>3, <1>4, <1>5 DEF Local, Goes, Kept, Cgroup
<1>7. CliTypeOK'
  BY <1>3, <1>4 DEF CliInv, CliTypeOK, Goes
<1>8. RunsPlain /\ dirty[id] # "lost" => \A g \in Keys' : g[1] # id
  BY <1>2, <1>3 DEF IdOK, Keys, KeysOK
<1>9. ProcOK(p)'
  <2>1. Holding(p)'
    BY <1>1, <1>2, <1>3, <1>5, <1>8 DEF Holding, Keys, Loaded, RunsPlain
  <2> QED
    BY <1>2, <1>5, <2>1 DEF ProcOK, CreatePCs, EarlyPCs, SavePCs, LoadedPCs
<1>10. IdOK(id)'
  <2>1. AtWork(p, id, {"save"} \cup RemovePCs)' /\ file'[id] # Torn
    BY <1>2, <1>3, <1>5 DEF AtWork, Loaded, RemovePCs
  <2>2. (Port!Exists(file[id].kid) => Armed(file[id].kid))'
    BY <1>2, <1>3 DEF Port!Exists, Armed
  <2>3. RunsPlain => KeysOK(id)'
    BY <1>3, <1>8 DEF KeysOK, Keys
  <2> QED
    BY <1>2, <1>3, <2>1, <2>2, <2>3 DEF IdOK, Keys, RunsPlain, Loaded, Names, Asks
<1>11. \A k \in Kids : owner'[k] = id => KidOK(k)'
  BY <1>0, <1>1, <1>3, RemovedKids
<1>12. \A g \in guarded' : g[1] \in Ids /\ g[2] # 0
  BY <1>3 DEF CliInv
<1> QED
  BY <1>2, <1>6, <1>7, <1>9, <1>10, <1>11, <1>12, OwnId

\* ... the directory, if nothing is in it any more,
LEMMA RemoveCgroupStep ==
    ASSUME CliInv, NEW p \in Procs, RemoveCgroup(p)
    PROVE  CliInv'
<1>0. pc[p] = "rmdir" /\ pc[p] \in RemovePCs
  BY DEF RemoveCgroup, RemovePCs
<1>1. PICK id \in Ids : id = cid[p]
  BY <1>0, InHold
<1>2. /\ Alone(p, id) /\ IdOK(id) /\ Holding(p) /\ loc[p] \in StateRec /\ req[p] \in Requests
      /\ loc[p] = file[id] /\ Loaded(id) /\ (dom[loc[p].kid] = "deleted" \/ loc[p].kid \in skipped)
      /\ RunsPlain /\ dirty[id] # "lost" => \A g \in Keys : g[1] # id
  BY <1>0, <1>1, WorksAlone, InHold DEF Holding, Keys, RemovePCs
<1>3. /\ UNCHANGED <<file, dirty, skipped, leaked, gens, guarded>> /\ UNCHANGED <<dom, member, owner, asked>>
      /\ GotoWith(p, "rmstate", loc[p])
  BY DEF RemoveCgroup, Goto, kernelVars, history
<1>4. cgdir' \in [Ids -> Nat] /\ \A j \in Ids : j # id => cgdir'[j] = cgdir[j]
  BY <1>1 DEF RemoveCgroup, CliInv, CliTypeOK
<1>5. "rmstate" \in PCs /\ Goes(p, "rmstate", loc[p])
  BY <1>2, <1>3, GotoGoes DEF PCs, RemovePCs
<1>6. pc'[p] = "rmstate" /\ req'[p] = req[p] /\ cid'[p] = id /\ loc'[p] = loc[p]
  BY <1>1, <1>5 DEF Goes
<1>7. Local(p, id)
  BY <1>1, <1>3, <1>4, <1>5, <1>6 DEF Local, Goes, Kept
<1>8. CliTypeOK'
  BY <1>3, <1>4, <1>5 DEF CliInv, CliTypeOK, Goes
<1>9. ProcOK(p)'
  <2>1. Holding(p)'
    BY <1>1, <1>2, <1>3, <1>6 DEF Holding, Keys, Loaded, RunsPlain
  <2> QED
    BY <1>2, <1>6, <2>1 DEF ProcOK, CreatePCs, EarlyPCs, SavePCs, LoadedPCs
<1>10. IdOK(id)'
  <2>1. AtWork(p, id, {"save"} \cup RemovePCs)' /\ file'[id] # Torn
    BY <1>2, <1>3, <1>6 DEF AtWork, Loaded, RemovePCs
  <2>2. (Port!Exists(file[id].kid) => Armed(file[id].kid))'
    BY <1>2, <1>3 DEF Port!Exists, Armed
  <2>3. RunsPlain => KeysOK(id)'
    BY <1>2, <1>3 DEF KeysOK, Keys
  <2> QED
    BY <1>2, <1>3, <2>1, <2>2, <2>3 DEF IdOK, Keys, RunsPlain, Loaded, Names, Asks
<1>11. \A k \in Kids : owner'[k] = id => KidOK(k)'
  BY <1>0, <1>1, <1>3, RemovedKids
<1>12. \A g \in guarded' : g[1] \in Ids /\ g[2] # 0
  BY <1>3 DEF CliInv
<1> QED
  BY <1>2, <1>7, <1>8, <1>9, <1>10, <1>11, <1>12, OwnId

\* ... and the file last.
LEMMA RemoveStateStep ==
    ASSUME CliInv, NEW p \in Procs, RemoveState(p)
    PROVE  CliInv'
<1>0. pc[p] = "rmstate" /\ pc[p] \in RemovePCs
  BY DEF RemoveState, RemovePCs
<1>1. PICK id \in Ids : id = cid[p]
  BY <1>0, InHold
<1>2. /\ Alone(p, id) /\ IdOK(id) /\ loc[p] \in StateRec
      /\ loc[p] = file[id] /\ Loaded(id) /\ (dom[loc[p].kid] = "deleted" \/ loc[p].kid \in skipped)
      /\ RunsPlain /\ dirty[id] # "lost" => \A g \in Keys : g[1] # id
  BY <1>0, <1>1, WorksAlone, InHold DEF Holding, RemovePCs
<1>3. PICK ok \in BOOLEAN :
        /\ file' = IF ok THEN [file EXCEPT ![id] = NoState] ELSE file
        /\ dirty' = [dirty EXCEPT ![id] =
                        IF @ = "lost" THEN "lost" ELSE IF ok THEN "no" ELSE "half"]
  BY <1>1 DEF RemoveState, Results
<1>4. /\ UNCHANGED <<skipped, leaked, cgdir, gens, guarded>>
      /\ UNCHANGED <<dom, member, owner, asked>>
      /\ GotoWith(p, "idle", loc[p])
  BY DEF RemoveState, Goto, kernelVars, hostVars
<1>5. "idle" \in PCs /\ Goes(p, "idle", loc[p])
  BY <1>2, <1>4, GotoGoes DEF PCs
<1>6. /\ file'[id] = (IF ok THEN NoState ELSE file[id])
      /\ dirty'[id] = "lost" <=> dirty[id] = "lost"
      /\ ~ok => dirty'[id] # "no"
      /\ \A j \in Ids : j # id => file'[j] = file[j] /\ dirty'[j] = dirty[j]
  BY <1>3 DEF CliInv, CliTypeOK
<1>7. Local(p, id)
  BY <1>1, <1>4, <1>5, <1>6 DEF Local, Goes, Kept
<1>8. CliTypeOK' /\ ProcOK(p)'
  <2>1. NoState \in StateRec
    BY DEF NoState, StateRec, Statuses
  <2>2. CliTypeOK'
    BY <1>3, <1>4, <1>5, <2>1 DEF CliInv, CliTypeOK, Goes
  <2> QED
    BY <1>5, <2>2 DEF Goes, ProcOK
<1>9. IdOK(id)'
  <2>1. file'[id] # Torn
    BY <1>2, <1>6 DEF Loaded, NoState, Torn
  <2>2. RunsPlain => KeysOK(id)'
    BY <1>2, <1>4, <1>6 DEF KeysOK, Keys
  <2>3. CASE ok
    <3>1. ~Loaded(id)'
      BY <1>6, <2>3 DEF Loaded
    <3> QED
      BY <2>1, <2>2, <3>1 DEF IdOK, RunsPlain
  <2>4. CASE ~ok
    <3>1. file'[id] = file[id] /\ dirty'[id] # "no"
      BY <1>6, <2>4
    <3>2. (Loaded(id) => Names(file[id], id))'
      BY <1>2, <1>4, <3>1 DEF IdOK, Loaded, Names, Asks
    <3>3. (Port!Exists(file[id].kid) => Armed(file[id].kid))'
      BY <1>2, <1>4, <3>1 DEF Port!Exists, Armed
    <3> QED
      BY <2>1, <2>2, <3>1, <3>2, <3>3 DEF IdOK, RunsPlain
  <2> QED
    BY <2>3, <2>4
<1>10. \A k \in Kids : owner'[k] = id => KidOK(k)'
  BY <1>0, <1>1, <1>4, <1>6, RemovedKids
<1>11. \A g \in guarded' : g[1] \in Ids /\ g[2] # 0
  BY <1>4 DEF CliInv
<1> QED
  BY <1>2, <1>7, <1>8, <1>9, <1>10, <1>11, OwnId

-----------------------------------------------------------------------------
(* A process is killed.                                                    *)

\* A kill between two calls: the id has a file to delete it by, or is lost.
LEMMA CrashStep ==
    ASSUME CliInv, NEW p \in Procs, Crash(p)
    PROVE  CliInv'
<1>0. /\ pc[p] # "idle" /\ GotoWith(p, "idle", loc[p]) /\ UNCHANGED file
      /\ UNCHANGED <<skipped, leaked, cgdir, gens, guarded>> /\ UNCHANGED <<dom, member, owner, asked>>
  BY DEF Crash, Goto, kernelVars, history, hostVars
<1>1. PICK id \in Ids : id = cid[p]
  BY <1>0, WorksAlone
<1>2. Alone(p, id) /\ IdOK(id) /\ ProcOK(p) /\ loc[p] \in StateRec /\ pc[p] \in PCs
  BY <1>0, <1>1, WorksAlone DEF CliInv, CliTypeOK
<1>3. "idle" \in PCs /\ Goes(p, "idle", loc[p])
  BY <1>0, <1>2, GotoGoes DEF PCs
<1>4. ProcOK(p)'
  BY <1>3 DEF ProcOK, Goes
<1>5. CASE pc[p] \in {"create"} \cup LoadedPCs
  <2>1. UNCHANGED dirty
    <3>1. dirty' = [dirty EXCEPT ![id] = dirty[id]]
      BY <1>1, <1>5 DEF Crash, LoadedPCs
    <3> QED
      BY <3>1 DEF CliInv, CliTypeOK
  <2>2. CASE pc[p] = "create"
    <3>1. loc[p].kid \notin Kids
      BY <1>2, <2>2, CliAssumption DEF ProcOK, Creating, EarlyPCs, NoState
    <3> QED
      BY <1>0, <1>3, <1>4, <2>1, <2>2, <3>1, QuietStep DEF SavePCs, RemovePCs
  <2>3. CASE pc[p] \in LoadedPCs
    BY <1>0, <2>1, <2>3, HoldGoes
  <2> QED
    BY <1>5, <2>2, <2>3
<1>6. CASE pc[p] \in CreatePCs \cup SavePCs \cup RemovePCs
  <2>1. dirty' = [dirty EXCEPT ![id] =
                    IF @ = "lost" \/ file[id] \in {NoState, Torn} THEN "lost" ELSE "half"]
    BY <1>1, <1>6 DEF Crash, CreatePCs, EarlyPCs, SavePCs, RemovePCs
  <2>2. /\ dirty'[id] = "lost" \/ (dirty[id] # "lost" /\ Loaded(id) /\ dirty'[id] = "half")
        /\ file[id] = Torn => dirty'[id] = "lost"
        /\ \A j \in Ids : j # id => dirty'[j] = dirty[j]
    BY <2>1 DEF CliInv, CliTypeOK, Loaded
  <2>3. Local(p, id)
    BY <1>0, <1>1, <1>3, <2>2 DEF Local, Goes, Kept
  <2>4. CliTypeOK'
    BY <1>0, <1>3, <2>1 DEF CliInv, CliTypeOK, Goes
  <2>5. Loaded(id) => /\ pc[p] \notin CreatePCs /\ pc[p] # "write"
                      /\ file[id].kid = loc[p].kid
                      /\ pc[p] \in SavePCs => Names(loc[p], id)
    <3>1. CASE pc[p] \in CreatePCs
      BY <1>0, <1>1, <1>2, <3>1 DEF ProcOK, Creating, EarlyPCs, Loaded
    <3>2. CASE pc[p] \in SavePCs
      BY <1>0, <1>1, <1>2, <3>2 DEF ProcOK, Saving, Runs, Loaded, SavePCs, CreatePCs, EarlyPCs
    <3>3. CASE pc[p] \in RemovePCs
      BY <1>0, <1>1, <1>2, <3>3 DEF ProcOK, Holding, Keys, SavePCs, CreatePCs, EarlyPCs, RemovePCs
    <3> QED
      BY <1>6, <3>1, <3>2, <3>3
  <2>6. IdOK(id)'
    <3>1. (Loaded(id) => Names(file[id], id))'
      BY <1>0, <1>2 DEF IdOK, Keys, Loaded, Names, Asks
    <3>2. (Loaded(id) /\ file[id].guard /\ Port!Exists(file[id].kid) => Armed(file[id].kid))'
      BY <1>0, <1>2 DEF IdOK, Keys, Loaded, Port!Exists, Armed
    <3>3. dirty'[id] # "no" /\ (file'[id] = Torn => dirty'[id] = "lost")
      BY <1>0, <2>2
    <3>4. ASSUME RunsPlain, NEW g \in Keys, g[1] = id, dirty'[id] # "lost"
          PROVE  g = Cgroup(id) /\ file[id].guard
      <4>1. Loaded(id) /\ dirty[id] # "lost"
        BY <2>2, <3>4
      <4>2. /\ g = Cgroup(id)
            /\ file[id].guard \/ \E q \in Procs : AtWork(q, id, SavePCs) /\ loc[q].guard
        BY <1>2, <3>4, <4>1 DEF IdOK, Keys, KeysOK
      <4>3. ASSUME NEW q \in Procs, AtWork(q, id, SavePCs), loc[q].guard
            PROVE  file[id].guard
        <5>1. q = p
          BY <1>2, <4>3 DEF AtWork, Alone, SavePCs
        <5> QED
          BY <1>2, <2>5, <4>1, <4>3, <5>1 DEF AtWork, Names, IdOK, Keys
      <4> QED
        BY <4>2, <4>3
    <3>5. RunsPlain => KeysOK(id)'
      BY <1>0, <3>4 DEF KeysOK, Keys, Cgroup
    <3> QED
      BY <3>1, <3>2, <3>3, <3>5 DEF IdOK, Keys, RunsPlain
  <2>7. ASSUME NEW x \in Kids, owner'[x] = id
        PROVE  KidOK(x)'
    <3>1. KidOK(x) /\ owner[x] = id
      BY <1>0, <2>7 DEF CliInv
    <3>2. Held(x) /\ asked[x] # "bad" /\ dirty'[id] # "lost" => file[id].kid = x
      BY <1>2, <2>2, <2>5, <3>1 DEF KidOK, Held, Runs, Alone
    <3> QED
      BY <1>0, <3>1, <3>2 DEF KidOK, Held, Runs, Port!Exists, Asks, Armed
  <2>8. \A g \in guarded' : g[1] \in Ids /\ g[2] # 0
    BY <1>0 DEF CliInv
  <2> QED
    BY <1>2, <1>4, <2>3, <2>4, <2>6, <2>7, <2>8, OwnId
<1> QED
  BY <1>0, <1>2, <1>5, <1>6 DEF PCs

-----------------------------------------------------------------------------
(* All steps, and the properties.                                          *)

\* Nothing of the invariant is about which inits are alive.
LEMMA UnchangedInv ==
    ASSUME CliInv, UNCHANGED <<file, dirty, skipped, leaked, cgdir, gens, guarded>>,
           UNCHANGED <<dom, member, owner, asked>>, UNCHANGED <<pc, req, cid, loc>>
    PROVE  CliInv'
<1>1. CliTypeOK' /\ OneEach' /\ \A g \in guarded' : g[1] \in Ids /\ g[2] # 0
  BY DEF CliInv, CliTypeOK, OneEach
<1>2. \A k \in Kids : Kept(k)
  BY DEF Kept
<1>3. ASSUME NEW p \in Procs
      PROVE  ProcOK(p)'
  <2>1. ProcOK(p) /\ (Creating(p) => Creating(p)')
    BY DEF CliInv, Creating, EarlyPCs, Cgroup
  <2>2. Saving(p) => Saving(p)'
    BY DEF Saving, Runs, Names, Matches, Armed, Asks, Loaded
  <2>3. Holding(p) => Holding(p)'
    BY DEF Holding, Keys, Loaded, RunsPlain
  <2> QED
    BY <2>1, <2>2, <2>3 DEF ProcOK
<1>4. ASSUME NEW id \in Ids
      PROVE  IdOK(id)'
  <2>1. IdOK(id) /\ (KeysOK(id) => KeysOK(id)')
    BY DEF CliInv, KeysOK, Keys, Cgroup, AtWork
  <2> QED
    BY <2>1 DEF IdOK, Keys, Names, Matches, Armed, Asks, Loaded, AtWork, RunsPlain, Port!Exists
<1>5. ASSUME NEW k \in Kids
      PROVE  KidOK(k)'
  <2>1. KidOK(k)
    BY DEF CliInv
  <2> QED
    BY <2>1 DEF KidOK, Held, Runs, Port!Exists, Asks, Armed
<1> QED
  BY <1>1, <1>3, <1>4, <1>5 DEF CliInv

\* The invariant holds before the first command.
LEMMA CliInitInv == CliInit => CliInv
<1> SUFFICES ASSUME CliInit
             PROVE  CliInv
  OBVIOUS
<1>1. CliTypeOK
  <2>1. NoState \in StateRec /\ "idle" \in PCs
    BY DEF NoState, StateRec, Statuses, PCs
  <2> QED
    BY <2>1 DEF CliInit, CliTypeOK, Port!PortInit, Modes
<1>2. ASSUME NEW id \in Ids
      PROVE  IdOK(id)
  <2>1. ~Loaded(id) /\ file[id] # Torn
    BY DEF CliInit, Loaded, NoState, Torn
  <2> QED
    BY <2>1 DEF CliInit, IdOK, Keys, KeysOK
<1>3. ASSUME NEW k \in Kids
      PROVE  KidOK(k)
  BY DEF CliInit, KidOK, Held, Runs, Port!PortInit, Port!Exists
<1> QED
  BY <1>1, <1>2, <1>3 DEF CliInit, CliInv, OneEach, ProcOK

\* Every step keeps it, if the engine issues one command at a time for an id.
LEMMA CliStep ==
    ASSUME Serial
    PROVE  CliInv /\ [CliNext]_cvars => CliInv'
<1> SUFFICES ASSUME CliInv, [CliNext]_cvars
             PROVE  CliInv'
  OBVIOUS
<1>1. ASSUME NEW p \in Procs, ProcStep(p)
      PROVE  CliInv'
  <2>1. CASE Begin(p)
    BY <2>1, BeginStep
  <2>2. CASE DevCreate(p)
    BY <2>2, DevCreateStep
  <2>3. CASE IdMaps(p) \/ BpfInit(p) \/ BpfPin(p) \/ BpfAttach(p)
    BY <2>3, CreateSteps
  <2>4. CASE Undo(p)
    BY <2>4, UndoStep
  <2>5. CASE MakeCgroup(p)
    BY <2>5, MakeCgroupStep
  <2>18. CASE SetLimits(p)
    BY <2>18, SetLimitsStep
  <2>19. CASE Place(p)
    BY <2>19, PlaceStep
  <2>6. CASE GuardMode(p)
    BY <2>6, GuardModeStep
  <2>7. CASE BpfGuard(p)
    BY <2>7, BpfGuardStep
  <2>8. CASE OpenState(p)
    BY <2>8, OpenStateStep
  <2>9. CASE SaveState(p)
    BY <2>9, SaveStateStep
  <2>10. CASE DevStart(p)
    BY <2>10, DevStartStep
  <2>11. CASE DevState(p)
    BY <2>11, DevStateStep
  <2>12. CASE WaitForExit(p)
    BY <2>12, WaitStep
  <2>13. CASE DevDelete(p)
    BY <2>13, DevDeleteStep
  <2>14. CASE Disarm(p)
    BY <2>14, DisarmStep
  <2>15. CASE RemoveCgroup(p)
    BY <2>15, RemoveCgroupStep
  <2>16. CASE RemoveState(p)
    BY <2>16, RemoveStateStep
  <2>17. CASE Crash(p)
    BY <2>17, CrashStep
  <2> QED
    BY <1>1, <2>1, <2>2, <2>3, <2>4, <2>5, <2>6, <2>7, <2>8, <2>9, <2>10, <2>11, <2>12,
       <2>13, <2>14, <2>15, <2>16, <2>17, <2>18, <2>19 DEF ProcStep
<1>2. ASSUME NEW k \in Kids, InitEnds(k)
      PROVE  CliInv'
  BY <1>2, UnchangedInv DEF InitEnds, Port!InitEnds, hostVars, history
<1>3. CASE UNCHANGED cvars
  BY <1>3, UnchangedInv DEF cvars
<1> QED
  BY <1>1, <1>2, <1>3 DEF CliNext

\* CliInv is an invariant.
LEMMA CliInvariance ==
    ASSUME Serial
    PROVE  CliSpec => []CliInv
  BY CliInitInv, CliStep, PTL DEF CliSpec

\* No kernel container is left without a way to delete it, through every error
\* path of create and every kill of a process that leaves a file to find it by,
\* unless its own delete could not open the device.
THEOREM Deletable ==
    ASSUME Serial
    PROVE  CliSpec => []NoOrphan
<1>1. CliInv => NoOrphan
  BY DEF CliInv, KidOK, Held, NoOrphan
<1> QED
  BY <1>1, CliInvariance, PTL

\* Between commands the state file says what krunc.ko says.
THEOREM FilesTrue ==
    ASSUME Serial
    PROVE  CliSpec => []FileMatchesKernel
<1>1. CliInv => FileMatchesKernel
  <2> SUFFICES ASSUME CliInv, NEW id \in Ids, file[id] # NoState, dirty[id] = "no", ~Busy(id)
               PROVE  Matches(file[id])
    BY DEF FileMatchesKernel, Matches
  <2>1. IdOK(id)
    BY DEF CliInv
  <2>2. \A p \in Procs : ~AtWork(p, id, {"write"}) /\ ~AtWork(p, id, {"save"} \cup RemovePCs)
    BY DEF AtWork, Busy, RemovePCs
  <2> QED
    BY <2>1, <2>2 DEF IdOK, Keys, Loaded
<1> QED
  BY <1>1, CliInvariance, PTL

\* A container that asks for the guard runs only in a guarded cgroup, unless it
\* could not be placed in one or its delete could not open the device; that
\* holds through kills of the commands too.
THEOREM RunsGuarded ==
    ASSUME Serial
    PROVE  CliSpec => []GuardArmed
<1>1. CliInv => GuardArmed
  BY DEF CliInv, KidOK, Held, Runs, GuardArmed, Asks, Armed
<1> QED
  BY <1>1, CliInvariance, PTL

\* The keys of the guarded map are those of containers that exist and those a
\* failing krunc-bpf has left, if the bundles of `run` do not ask for the guard.
THEOREM KeysReturned ==
    ASSUME Serial, RunsPlain
    PROVE  CliSpec => []GuardsReturned
<1>1. CliInv => GuardsReturned
  <2> SUFFICES ASSUME CliInv, NEW g \in Keys, ~Busy(g[1]), dirty[g[1]] = "no"
               PROVE  file[g[1]].guard /\ g = Cgroup(g[1])
    BY DEF GuardsReturned, Keys
  <2>1. IdOK(g[1])
    BY DEF CliInv, Keys
  <2>2. \A p \in Procs : ~AtWork(p, g[1], SavePCs)
    BY DEF AtWork, Busy, SavePCs
  <2> QED
    BY <2>1, <2>2 DEF IdOK, Keys, KeysOK
<1> QED
  BY <1>1, CliInvariance, PTL

\* A started container is guarded only if its bundle asks for it, though its
\* cgroup directory may be one that an earlier container of its id left, unless
\* that one's key could not be removed or its own delete passed it over.
THEOREM OnlyAsked ==
    ASSUME Serial, RunsPlain
    PROVE  CliSpec => []GuardScoped
<1>1. CliInv => GuardScoped
  <2> SUFFICES ASSUME CliInv, NEW k \in Kids, Runs(k),
                      dirty[owner[k]] # "lost", member[k] \in Keys
               PROVE  Asks(k)
    BY DEF GuardScoped, Asks, Runs, Keys
  <2> DEFINE id == owner[k]
  <2>1. KidOK(k) /\ member[k][2] # 0
    BY DEF CliInv, Keys
  <2>2. id \in Ids /\ member[k][1] = id /\ (file[id].kid = k \/ file[id] = Torn)
    BY <2>1 DEF KidOK, Held, Runs, Unplaced
  <2>3. IdOK(id)
    BY <2>2 DEF CliInv
  <2>4. file[id].guard \/ \E p \in Procs : AtWork(p, id, SavePCs) /\ loc[p].guard
    BY <2>2, <2>3 DEF IdOK, Keys, KeysOK
  <2>5. CASE file[id].guard
    <3>1. Loaded(id)
      BY <2>5 DEF Loaded, NoState, Torn
    <3> QED
      BY <2>2, <2>3, <2>5, <3>1 DEF IdOK, Keys, Names, Loaded
  <2>6. ASSUME NEW p \in Procs, AtWork(p, id, SavePCs), loc[p].guard
        PROVE  Asks(k)
    <3>1. Saving(p) /\ cid[p] = id
      BY <2>6, InSave DEF AtWork
    <3>2. loc[p].kid = k
      <4>1. CASE pc[p] = "write"
        BY <3>1, <4>1 DEF Saving, Runs
      <4>2. CASE pc[p] = "save"
        <5>1. file[id] # NoState
          BY <2>2, CliAssumption DEF NoState, Torn
        <5> QED
          BY <2>2, <3>1, <4>2, <5>1 DEF Saving, Runs, Loaded
      <4> QED
        BY <2>6, <4>1, <4>2 DEF AtWork, SavePCs
    <3> QED
      BY <2>6, <3>1, <3>2 DEF Saving, Runs, Names
  <2> QED
    BY <2>4, <2>5, <2>6
<1> QED
  BY <1>1, CliInvariance, PTL
=============================================================================
