# A TLA+ model of krunc

krunc is an OCI container runtime whose privileged part is a Linux kernel
module. This directory models it: the life of a container in the module, the
setup of a container in kernel context, the command line's bookkeeping around
both, `krunc run` with its terminal relay, and the way from a config.json
through the binary spec to the container. TLC checks small instances, TLAPS
proves every safety property for every instance. Paths below are relative to the
repository (`src/` in PROJECT.json).

## The system

| part | source | state it keeps | operations |
|---|---|---|---|
| registry and lifecycle | `module/krunc.rs` | `REGISTRY` (under a mutex), `NEXT_ID`, one control word per paused container | ioctls CREATE, START, STATE, KILL, DELETE; text `run`, `kill`; reading the list |
| exit capture | `module/krunc_helper.c` | a table of 64 watched pids (under a spinlock), a counter read without it | watch, unwatch, get, and a kprobe on `do_exit` |
| container setup | `container_entry` in `krunc.rs`, wrappers in `krunc_helper.c` | the init's mounts, root, credentials, limits | the statements between the gate and `execve` |
| spec decoder | `decode_spec` in `krunc.rs` | none | decode a buffer of tagged sections |
| spec codec | `userspace/krunc-abi` | none | validate, encode, decode |
| CLI | `userspace/krunc-cli` (`main.rs`, `device.rs`) | `<root>/<id>/state.json` | create, start, state, kill, delete, run, list |
| cgroups | `krunc-cli/src/cgroup.rs` | a directory per container | create, place, remove |
| BPF-LSM arming | `krunc-cli/src/bpflsm.rs`, `userspace/krunc-bpf` | the pinned `guarded` map and links | init, guard, unguard |
| BPF-LSM policy | `bpf/krunc_lsm.bpf.c` | reads the map | six hooks |
| OCI translation | `userspace/krunc-oci` | none | config.json to a `DomainSpec`, or a refusal; the cgroup limits |
| pty relay | `krunc-cli/src/pty.rs`, `run_lifecycle_pty` | the pty, the user's terminal mode | fork the lifecycle, copy both ways, reap |

How they meet. A `krunc` process opens `/dev/krunc` and issues ioctls; CREATE
decodes the spec and clones the container's init, which is a child of that
process and starts in `container_entry`, in kernel context. For a created
container it first polls its control word (`ACT_WAIT`) until START
(`ACT_START`) or DELETE (`ACT_DOOM`) stores to it; then it sets the container
up and execs. Everything else refers to the init by its pid number: signals,
liveness probes and the watch table. The CLI writes id maps, places the init in
a cgroup and arms the LSM while the init waits, then records the container in a
state file; each later command is another process that starts from that file.

What is hard, and therefore what the properties are about (PROJECT.json lists
each hazard at its line):

- handlers run concurrently with each other and with the inits, drop the mutex
  between reading a pid and using it, and refer to tasks by numbers the kernel
  may hand out again;
- a paused init sleeps in an uninterruptible loop, so a container that loses
  its registry entry at the wrong moment sleeps for ever;
- an exit can be captured by a kprobe, read from a zombie, or be cached, and
  the init can be reaped in between;
- the setup is a long sequence of kernel calls in which order is everything
  and only some failures are fatal;
- the CLI has no lock, can be killed between any two calls, and keeps four
  stores (state file, kernel, cgroup, BPF map) in step by hand;
- two decoders of one format are written by hand in two places with different
  limits;
- what a config asks for passes through five hands (translation, encoding,
  decoding, the setup, the cgroup files), each of which may drop something
  without an error;
- `run -t` is three processes around a pty: who still holds the slave decides
  when the relay ends, and every read and write may block.

## Modules

| module | models | state |
|---|---|---|
| `ExitWatch` | the watch table of `krunc_helper.c` | `slots`, `numWatched` |
| `Krunc` | registry, gate, handlers and inits; EXTENDS `ExitWatch` | `registry`, `nextId`, `lock`; per task `phase`, `kind`, `pidOf`, `action`, `killed`, `ran`, `exitWord`; per calling thread `pc`, `mine`, `ident`, `target` |
| `KruncPort` | what `/dev/krunc` promises its clients: each ioctl one step | `dom`, `alive` |
| `OciLifecycle` | the promise: created runs nothing, running, stopped is final | `status`, `program` |
| `ContainerSetup` | `container_entry` after the gate, for one container | `pc`, `i`, the mounts in order (`log`), `shared`, `leaked`, `sealed`, credentials, `applied` |
| `KruncCli` | CLI processes, state files, cgroups, the BPF map | `file`, `dom`, `member`, `cgdir`, `guarded`, `mapPinned`, `attached`, per process `pc`, `req`, `loc` |
| `KruncRun` | one `krunc run [-t]` to its exit code: lifecycle, relay, container, user; on `KruncPort` | `life`, `parent`, `slave`, the two directions of the pty, `mode`, the exit words and codes |
| `SpecCodec` | encode, the two decoders, and a buffer that may be changed in one place | `spec`, `buf`, and `decode_spec`'s cursor |
| `OciConfig` | config.json to a running container: `config_to_spec`, `cgroup_config`, the limit files, mounts and sysctls; EXTENDS `SpecCodec` | `cfg`, `present`, `cgroup`, `limits`, `mounted`, `written`, `lost` |
| `MCKrunc`, `MCSetup`, `MCCli`, `MCRun`, `MCCreate` | instances for TLC | |
| `KruncProofs`, `KruncTeardown`, `KruncPortProofs` | proofs about `ExitWatch` and `Krunc`, each extending the one before | |
| `ContainerSetupProofs`, `KruncCliProofs`, `KruncRunProofs` | proofs about the module of that name | |
| `SpecCodecProofs`, `OciConfigProofs` | proofs about the codec, and about the translation around it | |

`Krunc`. An action is what a handler does between two points at which another
thread can see it. `spawn` is `SpawnClone`, `SpawnWatch`, `SpawnPush` (or
`SpawnPushFails`: the push can fail with ENOMEM, and the code then leaves the
init and its slot behind). `kill_container` is `KillLookup` under the mutex and
`KillSignal` after it. `delete_container` holds the mutex throughout, but the
init runs meanwhile, so it is `DeleteBegin` (gate or signal) and `DeleteEnd`
(unwatch, remove), with `lock` held between them. `start_container` and
`container_state` touch one entry under the mutex and are one step each. The
text `kill` is `TextKill` and `TextRetain`. A task goes through the phases
unborn, gate, setup, user, exiting, zombie, reaped; a signal is pending in
`killed`, and is acted on only on the way back to user mode: neither the gate's
loop nor the setup looks at it. The kernel's side (pid allocation, reaping,
signal delivery, host processes that take freed pids) is external and modelled
by what the code relies on.

`ContainerSetup`. `Order` is the sequence of statements; each is an action that
may fail where `Faults` says so. A mount is appended to `log`; what a path shows
is the newest mount on it or on an ancestor. `shared` says whether mounts
propagate to the host; MS_PRIVATE on `/` works only if `/` is the root of a
mount, which after the chroot depends on the rootfs. A container that is
guarded has all mounts denied by the `sb_mount` hook. `ApplyDevices` does nothing
unless the config mounts a tmpfs on `/dev` (`freshDev`); if it does, the nodes go
to whatever `/dev` is by then, the rootfs's own if that mount failed.

`KruncPort`. The composition of the module with its clients goes through this
interface: `KruncCli` and `KruncRun` take its actions as the effect of their
ioctls, and `Krunc` implements it (`RefinesPort`) under the mapping `PortDom`,
`PortAlive`, which says at which moment of a handler the ioctl takes effect.

`KruncCli`. A process takes a request and makes one call per step; `Crash` ends
it anywhere, also between the truncation of a state file (`OpenState`) and its
content (`SaveState`). Cgroup directories carry a generation, as their inode
number is the key in the map. The set-up of the cgroup is `MakeCgroup` (mkdir),
`SetLimits` and `Place`, each of which may fail with a warning; `do_delete` is
`DevDelete`, which passes the container over when the device cannot be opened,
then `Disarm`, `RemoveCgroup` and `RemoveState`, whose failures the code ignores.
Three history variables: `dirty` is what an interrupted command left behind,
`skipped` the containers a delete passed over, `leaked` the keys that could not
be removed. Each id has a cgroup directory of its own: configs that name the same
`cgroupsPath` are not considered.

`KruncRun`. `life` is `run_lifecycle`, `parent` the process that stays on the
user's terminal with -t. The pty is two bounded counters of bytes and the set of
processes that hold the slave; it hangs up when that set is empty. `poll`, the
two halves of the loop body and each byte of `write_all` are steps of their own,
so that what `poll` found can be out of date. Wait words are numbers, decoded as
the code does. `ignored` is a caller that ignores SIGCHLD, for whom `waitpid` waits
for the child and then finds none: `wait_for_exit` polls STATE, and `Reap`, which
does not look at the result, goes on with status 0.

`SpecCodec`. The buffer is a sequence of cells, one for each integer or
character, so lengths count cells. Sections differ by tag, layout and limits,
which are tables; krunc-abi's `decode` is an operator, `decode_spec` a step
machine with one section per step. The OOM score is the one signed field; it
crosses the wire as `as u32` and `as i32` make it. `Deliver` passes the buffer on as encoded,
cut anywhere, with one cell more, or with one cell changed.

`OciConfig`. A config is a record with a field for each property krunc-oci knows
of and `extra` for those it does not. `Rejected` is every reason to refuse,
`Translate` the rest of `config_to_spec` with the code's tables; then the buffer
of `SpecCodec` is encoded and delivered, and `Spawned` is what `create_from_blob`
makes of it, with its default hostname and namespaces. `CgroupCreate` and
`SetLimits` make the directory, write the limit files and move the init, and `Apply` is what the init does with the
mounts and sysctls it was given. Strings are short sequences of numbers; the
words that decide something in a sysctl name (`net`, `kernel`, `sem`, ...) and
the separators are one number each. A mask is a number, of which bits are read.
`Config` is the set of all configs; `Configs`, those considered, is any part of it. `present` is the set of
controllers the container's cgroup gets, `KernelTakes` the kernel's view of a
limit: a controller that is there, and a value in range.

## Runs

| run | instance | checks |
|---|---|---|
| `MCKruncSafety` | 2 tasks, 2 pids that are recycled, 2 threads, 2 slots, failing allocations, text kill | types; nothing runs before its start; `started` and the gate agree; ids distinct; the watch counter exact; a gate is decided once |
| `MCKruncExit` | 2 tasks, pids not recycled, 1 slot, STATE | no init stranded; STATE tells the truth; the exit word is the init's own; no slot leaks; `Krunc` implements `OciLifecycle` and `KruncPort` |
| `MCKruncLive` | as above, with fairness | an init that krunc no longer lists dies; an init released and sent SIGKILL dies |
| `MCSetup` | 720 combinations of options, two mounts, masks, read-only paths; mounts, writes, credentials, chroot, exec may fail | the rootfs fails closed; nothing reaches the host; masks stay on top; without failures the whole spec is in force |
| `MCSetupLeak` | a plain-directory rootfs on a shared host mount, nothing fails | **fails**: mounts propagate to the host |
| `MCSetupUser` | a spec without capabilities, nothing fails | **fails**: the program runs as root, not as `process.user` |
| `MCSetupGuard` | guarded containers, nothing fails by itself | **fails**: the guard denies krunc's own setup mounts |
| `MCCli` | 2 processes, 2 ids, 2 kernel containers, failing calls (id maps, mkdir, limits, guard, opening the device, unguard, removing the state), killed processes, one command at a time for an id | no kernel container without a way to delete it; state files match the kernel; guards armed before start, returned on delete, and only on containers that asked; the containers and keys a failed delete leaves are excepted |
| `MCCliInit` | two guarded creates at once on a fresh host | **fails**: the second starts unprotected |
| `MCRun` | `run` and `run -t`, stdin a terminal, a pipe or a file, more typed and written than the pty holds, failing calls, a killed lifecycle, a delete by somebody else | the output is complete when the relay ends; the exit code is the container's; the command ends and restores the terminal; the relay never blocks on a silent container |
| `MCCreate` | 125 configs that use every property, valid or not, at and over each limit, on a host with and without the memory controller; every single change of the buffer | what fits is decoded as sent; the module is no looser than krunc-abi; the decoders agree; what a config asks for is what is spawned, defaults included, sysctls and mounts exactly; an init in its cgroup is under every limit |
| `MCCreateMount` | the same configs | **fails**: `ro` on a bind mount is accepted and has no effect |

The failing runs state what a comment or document of the repository says; the
quotations are in PROJECT.json under `findings`.

Bounds. Two tasks, two threads and two pids are enough for each race the code
has: every handler's window involves one entry, the thread in it, one other
thread, and at most one other task (the one that takes over a pid). One slot
for two containers is the full table; two slots show the counter. Two CLI
processes and two ids give both kinds of conflict, over one container and over
the shared map; a deleted container's cgroup is met again by the next create of
the id. In `ContainerSetup` paths are a parent with two children under it, one
masked and read-only at once, and two unrelated paths. Ids (`nextId`) are
bounded by the number of tasks. In `KruncRun` the user enters 3 bytes into a pty
that holds 2 and the program writes 2 through one that holds 1, so both
directions fill up; the words are exit 0 and 3, SIGKILL, and the two kinds of
negative word the setup produces. In `SpecCodec` every list has limit 3 in
krunc-abi and 2 in the module, strings 7 cells, buffers 44 and 32 cells, so that
each limit is met, exceeded by one and undercut. `HalfWord`, 2^31 in the code,
is 50, with OOM scores at both ends of that range. Shares are scaled to at most 26
and weights to 10 (`MaxShares`, `MaxWeight`, 262144 and 10000 in the code): the
formula is the code's, and its product would not fit TLC's integers. The kernel's
upper bound on a quota, about 2^44 microseconds, is 6000 (`MaxQuota`), with a quota
above it; that on pids is the kernel's, 4194304.

In `MCCli` seven of the calls that can fail do. The failures of `place`, `attach`
and `rmdir` are left to the theorems, which hold for every set of `Faults`: they
multiply the states by about four, and an instance with all ten has been checked
once, without a violation. `rmdir` does fail in this one, while the init is still
dying.

The largest instances have 2.9 million (`MCCli`) and 387,204 (`MCSetup`) states;
`MCCreate` has 248,856.

Deadlock is not checked: a system nobody gives commands to may stop.

Known exceptions, each a premise of the property and visible in its text:

- `ReportsTruth` and `ExitWordExact` need pids that are not recycled, since the
  module remembers numbers. `ExitWordExact` is about paused containers: a
  one-shot can end before it is watched (`krunc.rs:1055`).
- `NoStrandedInit` and `NoSlotLeak` are for histories without the text `kill`
  and without ENOMEM in the registry push.
  The text `kill` of a container that was not started removes its entry and
  sends a signal that the gate's loop does not look at: the init sleeps for
  ever and its slot stays in use until the pid is watched again. Without
  their premise and with `textkill` among `Ops` TLC refutes both.
- `RefinesPort` is for pids that are not recycled and a push that does not fail;
  the text commands are allowed.
- `NoOrphan` excludes a create that was killed before its first save, and an
  unknown `bpf-lsm` annotation, after which `create` dies without a teardown;
  and a state file that a killed process left empty, which `load_state` refuses.
- A `delete` that cannot open `/dev/krunc` says nothing, disarms the guard and
  removes cgroup and state file (`main.rs:645`). The container it passed over
  (`skipped`) is excepted from `NoOrphan`, `GuardArmed` and `GuardScoped`. It may
  keep its cgroup directory, and the next container of the id is then in it too:
  that one is not excepted.
- A key that `krunc-bpf unguard` could not remove (`leaked`, `bpflsm.rs:33`) is
  excepted from `GuardsReturned` and `GuardScoped`: if the directory stays as well,
  the next container of the id is under a guard it did not ask for. A guard asked
  for in that directory takes the key over, and it has to be returned again.
- Every id has a cgroup directory of its own. Two configs may name the same
  `cgroupsPath`; then the delete of one un-guards the other, and `GuardArmed` is
  false of the code. Nothing in the repository says that the paths must differ.
- `NoOrphan` and `FileMatchesKernel` are for an engine that issues one command
  at a time for a container (`Serial`), as containerd's shim does. With
  `Serial = FALSE` TLC refutes both: two creates of one id both find no state
  file, and `start` or `state` racing `delete` write the file back.
- `GuardsReturned` holds if the guard is only asked for through `create`:
  `run_lifecycle` deletes without un-guarding.
- `MasksOnTop` holds for read-only paths that are not parents of masked ones:
  the read-only bind is not recursive and covers the masks below it, so that
  with `/proc` in `Readonly` and `/proc/kcore` in `Masked` TLC refutes it.
- `HostUntouched` is checked for specs that list a mount and a UTS namespace.
- `RunCodeExact` leaves out a caller that ignores SIGCHLD, for which `waitpid`
  fails with ECHILD and `run` returns 0 whatever the container's status was. With
  -t the parent's own `waitpid` fails too, its result is not looked at
  (`main.rs:341`), and the command returns 0 even if the lifecycle it forked died.
  It also leaves out a word such as -1 that is neither an exit nor a signal, of
  which `run` makes 0 and `state` 255.
- `RunEnds` is about a container that is over. While it runs, relay and program
  can wait for each other, one writing into a full pty and the other likewise;
  a pipe at its end makes the relay loop without waiting, as `poll` reports
  POLLHUP and the relay looks for POLLIN only; a killed lifecycle leaves a
  paused init that holds the slave, and the relay with it, until somebody
  deletes the container. A parent that is killed leaves the terminal raw; its
  crash is not a step of the model.
- `InputFlows` stops at a pty full of what the container does not read.
- `RoundTrip`, `ConfigCarried`, `SysctlsExact` and `MountsAsAsked` are for specs
  within the module's own limits (`WithinLimits`). `validate` checks krunc-abi's
  limits, which are larger (the module takes 16 KiB and 31 strings of a list), and does not
  measure paths, mounts or sysctls: a larger spec passes it, and the module
  refuses it or keeps the first entries of a list.
- `LimitsKept` allows an init outside its cgroup when the directory cannot be made,
  the move fails, or one of the files cannot be written: for a controller the
  cgroup does not get, or a pids limit, cpu quota or period out of the kernel's
  range. One such value is `pids.limit = -1`, which OCI reads as no limit: the
  kernel refuses it and the container runs without any of its limits. Quotas and
  periods whose nanoseconds overflow are not considered.
- `SpecInForce` is about setups in which no call failed. If the tmpfs on `/dev`
  could not be mounted, the device nodes are made in the rootfs.
- `MountsAsAsked` excuses the flags of a new bind mount (see `MCCreateMount`).

## Fairness

`FairSpec` assumes weak fairness of the steps of a task that can run (the poll
of the gate, whose `msleep(10)` ends; the setup; dying of a pending SIGKILL;
becoming a zombie) and of the steps of a thread inside a handler, since the
scheduler runs both and the handlers hold no lock while they wait. Nothing is
assumed of programs (they may run for ever), of reaping, or of users: nobody
has to issue a command.

`RunSpec` assumes weak fairness of the lifecycle and of the parent, two ordinary
processes, and that the init of a deleted container ends, which is what
`TornDownStops` shows of the module. Programs need not write, read or end, and
the user need not type.

## Proofs

`Krunc`, for every number of tasks, pids, threads and slots, with recycled pids,
failing allocations and all commands:

- `KruncProofs`: `TypeCorrect`, `GateSafety` (nothing of a created container
  runs before START), `StartedAgrees`, `IdsUnique`, `WatchCountExact`, and the
  action property `GateMonotone`. The invariants are not inductive as they
  stand: that START only releases its own container rests on entries being of
  distinct tasks, which rests on a task between clone and push belonging to one
  thread. `IndInv` adds `CallersOK` (what the locals of a thread at each step
  are, and who holds the mutex), `UnbornOK`, `SpawnsOK`, `EntriesOK` and
  `IdsOK`. There is a lemma per action; the lemmas about the
  watch table say what its operations do to its counter, by the cardinality
  theorems. `Refinement`: `Krunc` implements `OciLifecycle` under the mapping
  `LifeStatus`, `LifeProgram`: initial states map to initial states and every
  step to a step or a stutter. It uses `RefInv`, which adds to `IndInv` what the
  phases say of kind and program.
- `KruncTeardown`: `NoneStranded` and `SlotsReturned`, with `TearInv`, which
  adds what is known of an entry while its deletion is in progress.
- `KruncPortProofs`: `TellsTruth` and `ExitWordKept`. The module remembers pids,
  the properties are about tasks; `TruthInv` adds to `RefInv` that each memory
  of a pid (entry, local of `spawn`, slot) is of the one task that ever had it
  (`PidsOK`), that a captured slot holds that task's word and that an armed one
  of a paused container is of an init not yet past `do_exit` (`SlotsOK`), and that a cached word is
  the init's (`CacheOK`). `PortRefinement`, that `Krunc` implements `KruncPort`,
  is for `~Recycle` and `~AllocFails`. With a recycled pid the promise is false:
  STATE answers for whichever task has the number. A push that fails leaves a
  live init without an entry, which no client of the interface can reach.

`ContainerSetupProofs`, for every lists of mounts, masked and read-only paths,
every tree of paths, all options and all sets of calls that may fail:

- `FailsClosed`: the rootfs fails closed. `SealInv` says from which statement on
  the root is the container's and sealed.
- `HostSafe`: nothing reaches the host, given `Containable`: the container has
  mount and UTS namespaces of its own, and its `/` is a mount (an overlay, or the
  bind a read-only rootfs needs) or nothing propagates from it anyway.
  `MCSetupLeak` is what happens otherwise.
- `MasksStay`: masks are on top, given `PathTree` (the ancestors of a path are a
  chain, as in every file system) and `MasksBelowNone` (no read-only path above a
  masked one, see the exceptions above). `MaskInv` has to speak of every mount made after a
  mask, at, above or below its path, since a read-only bind of a masked path
  shows the mask again, and that is a mask too.
- `SpecEnforced`: without failures all of the spec is in force, given moreover
  `Mountpoints`: the config mounts something that holds `/proc/sys`, without which
  sysctls have no place to go. The device nodes are there exactly if the config
  mounts a tmpfs on `/dev`, which is the code's own condition.
  `SpecInv` counts the mounts made at each statement and says which they are.

`KruncCliProofs`, for any number of processes, ids, containers and requests, with
failing calls and processes killed between any two of them, given `Serial` (one
command at a time for an id, see above):

- `Deletable` (`NoOrphan`), `FilesTrue` (`FileMatchesKernel`) and `RunsGuarded`
  (`GuardArmed`); given moreover that bundles handed to `run` do not ask for the
  guard (`RunsPlain`), `KeysReturned` (`GuardsReturned`) and `OnlyAsked`
  (`GuardScoped`). `CliInv` says what each process may rely on at each of its
  calls (`ProcOK`), what the state file says of an id (`IdOK`), and what names a
  kernel container (`KidOK`). It is needed because the four stores are out of
  step in the middle of every command, each in its own way. A process only
  touches what belongs to its id (`Local`), so the rest is carried over. All are
  stated over the containers that no delete passed over and the keys that did not
  leak, for any set of calls that may fail; that such a container or key does not
  spoil the next one of its id is part of the invariant.

`KruncRunProofs`, for any amount of input and output, any pty and any wait words:

- `NothingLost` (`OutputComplete`) and `CodeReported` (`RunCodeExact`). `RunInv`
  says who holds the slave at each step of the lifecycle and of the init, so that
  a hangup means that nobody can write any more; that what was written is what
  was shown and what is in the pty; and which word the lifecycle ends with, and
  that the parent got it or a caller that ignores SIGCHLD hid it.

`SpecCodecProofs` and `OciConfigProofs`, for every config, every buffer, strings
and lists of any length and all values of the limits:

- `NoLooserHolds` and `DecodersAgreeHold`. `DecoderInv` ties `decode_spec`, which
  moves one section per step, to the loop of krunc-abi's `decode` on the same
  buffer: as long as no error has been met, `decode` after as many sections is at
  the same cell, has seen the same tags and has read the same values, up to what
  the module cuts from a list; and once `decode` has failed for the structure,
  `decode_spec` does not get past that section. Below it are lemmas for a field, an entry
  and a list (`FieldAgree`, `EntryAgree`, `EntriesAgree`).
- `RoundTripHolds`. `RoundInv` says of an undamaged buffer that `decode_spec`
  stands at the start of a section the encoder emitted, has as many left as were
  emitted from there on, and holds exactly what the sections before it say
  (`Read(j)`). `SectionReadBack` is the step: a section, wherever it lies in the
  buffer, is read as it was written, or refused for a string that is too long.
  Where a section lies is `Offsets`, the sum of the lengths before it.
- `ConfigHolds`, `SysctlsHold`, `MountsHold`, `LimitsHold`. `OciInv` adds to the
  codec's invariants that the spec on its way is the translation of an accepted
  config, hence of the shape the encoder expects (`SpecTyped`), and that a created
  container has that spec cut to the module's limits (`Passed`), to which
  `NamespacesGiven` adds what the default does to the mask; `AppliedInv` says
  that the init worked on it. The rest is about operators: a mask has the bits it
  was made of (`MaskBit`), a finite set has a sorted listing (`SortExists`), the
  first `=` of an entry is the one that was put there (`EntrySplit`), the flags of
  a list of options are the last word on each (`MountFlags`), shares map into the
  kernel's range.

The codec is written with recursive functions, and what they compute takes an
induction over a buffer or a list. The library's induction theorems take an
operator, which the provers cannot instantiate. `SpecCodecProofs` proves what is
needed from the well-foundedness of the naturals instead: `Induction`, for a set
that holds 0 and is closed under successor, and `RecursionExists`, that a
function with a given first value and a given step exists. The step is a function
on a set of states, so each use names the set the states are in (`Cursors`,
`ListCursors`, `AbiStates`), which is why the proofs carry types at every level.

Each inductive invariant was model-checked on the instances of the runs before it
was proved.

The assumptions are those named in the modules (`KruncAssumption`,
`WatchAssumption`, `SetupAssumption`, ...): tasks and pids are natural numbers,
the exit words contain 0, SIGKILL and the setup's error, `MaxWatch` is positive,
paths have ancestors among the paths, the null values are outside the sets they
extend. `CodecAssumption`: the limits are natural numbers and the module keeps at
least one entry of each list. `ConfigAssumption`: configs are of the structures
serde parses into, with finitely many sysctls, the bundle is an absolute path,
and there are more than two shares and more than one weight.

Only model-checked: liveness (`TornDownStops`, `KilledStops`, `RunEnds`,
`InputFlows`). The prover does not reason about fairness. Every invariant, the
action property and both refinements that the runs check are proved.

## Not modelled

- The text command's token scanner (`parse_run_line`, `split_kv`): it turns a
  line into the arguments of `spawn`, where `Krunc` begins.
- JSON syntax and command line arguments, which libraries parse, and the
  messages of the errors.
- The directories `prepare_rootfs` makes (it makes one for the target of a bind
  mount of a file too) and the temporary bundle of `run`, which stays behind
  when the command dies.
- The five LSM hooks that judge the container's own program; the program is not
  modelled. `sb_mount` is, as it meets krunc's setup.
- The C demonstration loader, which krunc-bpf replaces, the test workloads and
  scripts.
- The resolution of kernel symbols at load, and a `do_exit` kprobe that cannot
  be registered.
- In the codec, the width of integers other than the OOM score: they pass
  through unchanged, and a cell holds what a field holds.
- A process that is interrupted in `poll` (it retries) and a stdout that cannot
  be written.

## Plan

Done: the module's lifecycle with its refinements; setup, CLI, the `run`
command, the codec and the OCI translation, joined by `KruncPort`; proofs of all
safety properties.

Left: the text command's scanner, and the five LSM hooks together with a model of
the container's program for them to judge.
