--------------------------- MODULE ContainerSetup ---------------------------
(***************************************************************************)
(* container_entry past its gate: what the init of one container does in   *)
(* kernel context, in order, until it execs or exits.  Krunc.tla sees it   *)
(* as Exec or SetupFails.                                                  *)
(*                                                                         *)
(* The state is what the steps leave behind for the program: the mounts    *)
(* krunc made, in the order it made them, whether they can propagate to    *)
(* the host, the root and the credentials.  Every call into the kernel may *)
(* fail where Faults says so; which failures are fatal is the code's.      *)
(***************************************************************************)
EXTENDS Naturals, Sequences, SequencesExt

CONSTANTS
    Paths,         \* paths inside the container
    AncestorsOf,   \* AncestorsOf[p]: the strict ancestors of path p
    Mounts,        \* config.mounts[], the sequence of their destinations
    Masked,        \* maskedPaths, a sequence
    Readonly,      \* readonlyPaths, a sequence
    Options,       \* the specs and environments considered
    Faults         \* the kernel calls that may fail on their own

Option == [ownNamespaces : BOOLEAN, \* CLONE_NEWNS and CLONE_NEWUTS
           userns : BOOLEAN,        \* CLONE_NEWUSER
           mapped : BOOLEAN,        \* container id 0 is mapped in it
           readonlyRootfs : BOOLEAN,
           rootfsIsMount : BOOLEAN, \* the bundle's rootfs is a mount point
           hostShared : BOOLEAN,    \* the host's mounts propagate (MS_SHARED)
           capsPresent : BOOLEAN,   \* the spec lists capabilities
           userMapped : BOOLEAN,    \* process.user's ids are mapped
           noNewPrivs : BOOLEAN,
           freshDev : BOOLEAN,      \* a mount is written "/dev", of type tmpfs
           guard : {"none", "block", "kill"}]  \* the LSM mode armed at create

ASSUME SetupAssumption ==
    /\ AncestorsOf \in [Paths -> SUBSET Paths]
    /\ Mounts \in Seq(Paths) /\ Masked \in Seq(Paths) /\ Readonly \in Seq(Paths)
    /\ Options \subseteq Option
    /\ \A o \in Options : o.freshDev => "/dev" \in ToSet(Mounts)
    /\ Faults \subseteq {"mount", "private", "write", "limit", "creds", "chroot", "exec"}

VARIABLES
    opt,       \* the container's spec and environment, fixed
    pc,        \* the next statement of container_entry
    i,         \* loop index of the list pc walks
    rooted,    \* "host", or "container" after krunc_chroot
    rootMount, \* TRUE: the task's "/" is the root of a mount
    shared,    \* TRUE: a mount made now propagates to the host
    log,       \* the mounts made in the container, oldest first
    leaked,    \* what of the setup shows on the host: paths, or "hostname"
    sealed,    \* TRUE: the rootfs mount is read-only
    privileged,\* TRUE: the full capability set of the clone
    ids,       \* "root" as cloned, or "spec" once process.user's
    nnp,       \* no_new_privs
    applied,   \* which of "hostname", "devices", "sysctls", "limits" took effect;
               \* "rootfsDevices" are device nodes in a /dev that is no mount
    failed,    \* TRUE: a call whose failure is not fatal has failed
    killed     \* TRUE: SIGKILL pending, sent by the LSM hook in kill mode

svars == <<opt, pc, i, rooted, rootMount, shared, log, leaked, sealed, privileged,
           ids, nnp, applied, failed, killed>>

-----------------------------------------------------------------------------
(* The order of container_entry.                                           *)

\* Mutant: paths are masked before the configured mounts are made.
OrderMaskFirst ==
    <<"hostname", "userns", "isolate", "bindRootfs", "chroot", "private", "mask",
      "readonly", "mounts", "devices", "sysctls", "limits", "seal", "creds", "exec",
      "program">>

\* Mutant: the tree is made private after the mounts it should contain.
OrderPrivateLate ==
    <<"hostname", "userns", "isolate", "bindRootfs", "chroot", "mounts", "private",
      "devices", "sysctls", "mask", "readonly", "limits", "seal", "creds", "exec",
      "program">>

\* Mutant: sysctls are written once the read-only paths are in place.
OrderSysctlsLate ==
    <<"hostname", "userns", "isolate", "bindRootfs", "chroot", "private", "mounts",
      "devices", "mask", "readonly", "sysctls", "limits", "seal", "creds", "exec",
      "program">>

\* The statements of container_entry after its gate.
Order ==
    <<"hostname", "userns", "isolate", "bindRootfs", "chroot", "private", "mounts",
      "devices", "sysctls", "mask", "readonly", "limits", "seal", "creds", "exec",
      "program">>

PCs == ToSet(Order) \cup {"dead"}

After(s) == Order[1 + CHOOSE k \in DOMAIN Order : Order[k] = s]

\* Go on after a call whose failure is fatal: krunc_exit(rc).
FatalUnless(ok) == pc' = IF ok THEN After(pc) ELSE "dead"

-----------------------------------------------------------------------------
(* The kernel (external): mount(2) as krunc_mount uses it.                 *)

\* The results a call may have.  security_sb_mount comes first in every
\* mount: the krunc_sb_mount program denies all of a guarded container's.
Results(fault) == IF fault \in Faults THEN {TRUE, FALSE} ELSE {TRUE}
MountResults(fault) == IF opt.guard # "none" THEN {FALSE} ELSE Results(fault)

\* ... and in kill mode it also sends the container SIGKILL.
Hook == killed' = (killed \/ opt.guard = "kill")

\* What a lookup of p finds: the newest mount on p or on an ancestor of p.
Covering(p) == {k \in DOMAIN log : log[k].path \in AncestorsOf[p] \cup {p}}
Visible(p) ==
    IF Covering(p) = {} THEN "rootfs"
    ELSE log[CHOOSE k \in Covering(p) : \A j \in Covering(p) : j <= k].layer

\* A mount shows on the host while the tree is shared, or is the host's.
OnHost == shared \/ ~opt.ownNamespaces

AddMount(p, layer) ==
    /\ log' = Append(log, [path |-> p, layer |-> layer])
    /\ leaked' = IF OnHost THEN leaked \cup {p} ELSE leaked

\* MS_REC|MS_PRIVATE on "/": EINVAL unless "/" is the root of a mount.
\* krunc ignores the result.
MakePrivate ==
    /\ \E ok \in MountResults("private") :
        /\ shared' = (shared /\ ~(ok /\ rootMount))
        /\ failed' = (failed \/ ~ok)
    /\ Hook

-----------------------------------------------------------------------------
(* container_entry.                                                        *)

SetupInit ==
    /\ opt \in Options
    /\ pc = Order[1]
    /\ i = 1
    /\ rooted = "host"
    /\ rootMount = TRUE
    /\ shared = (opt.hostShared /\ ~opt.userns)
    /\ log = <<>>
    /\ leaked = {}
    /\ sealed = FALSE
    /\ privileged = TRUE
    /\ ids = "root"
    /\ nnp = FALSE
    /\ applied = {}
    /\ failed = FALSE
    /\ killed = FALSE

\* A statement whose failure is logged or ignored: it takes effect if the call
\* does not fail and can work at this point of the setup.
BestEffort(what, fault, works) ==
    /\ \E ok \in Results(fault) :
        /\ applied' = IF ok /\ works THEN applied \cup {what} ELSE applied
        /\ failed' = (failed \/ ~ok)
    /\ pc' = After(pc)
    /\ UNCHANGED <<opt, i, rooted, rootMount, shared, log, sealed, privileged, ids, nnp,
                   killed>>

\* krunc_set_hostname, in the task's UTS namespace.
SetHostname ==
    /\ pc = "hostname"
    /\ BestEffort("hostname", "limit", TRUE)
    /\ leaked' = IF opt.ownNamespaces THEN leaked ELSE leaked \cup applied'

\* krunc_userns_setup_creds: fatal, -EINVAL when id 0 is unmapped.
UsernsCreds ==
    /\ pc = "userns"
    /\ \E ok \in Results("creds") : FatalUnless(opt.userns => ok /\ opt.mapped)
    /\ UNCHANGED <<opt, i, rooted, rootMount, shared, log, leaked, sealed, privileged,
                   ids, nnp, applied, failed, killed>>

\* For a read-only rootfs: make the tree private while "/" is the host's.
Isolate ==
    /\ pc = "isolate"
    /\ IF opt.readonlyRootfs THEN MakePrivate ELSE UNCHANGED <<shared, failed, killed>>
    /\ pc' = After(pc)
    /\ UNCHANGED <<opt, i, rooted, rootMount, log, leaked, sealed, privileged, ids,
                   nnp, applied>>

\* ... and bind the rootfs onto itself, MS_BIND|MS_REC; fatal.
BindRootfs ==
    /\ pc = "bindRootfs"
    /\ IF opt.readonlyRootfs
       THEN /\ Hook
            /\ \E ok \in MountResults("mount") :
                /\ leaked' = IF ok /\ OnHost THEN leaked \cup {"rootfs"} ELSE leaked
                /\ FatalUnless(ok)
       ELSE pc' = After(pc) /\ UNCHANGED <<leaked, killed>>
    /\ UNCHANGED <<opt, i, rooted, rootMount, shared, log, sealed, privileged, ids,
                   nnp, applied, failed>>

\* krunc_chroot: fatal.  "/" is now the rootfs: a mount, or a plain directory
\* of the mount it lies in.
Chroot ==
    /\ pc = "chroot"
    /\ \E ok \in Results("chroot") :
        /\ FatalUnless(ok)
        /\ rooted' = IF ok THEN "container" ELSE rooted
        /\ rootMount' = IF ok THEN opt.rootfsIsMount \/ opt.readonlyRootfs ELSE rootMount
    /\ UNCHANGED <<opt, i, shared, log, leaked, sealed, privileged, ids, nnp, applied, failed, killed>>

\* Make the container's whole mount tree private before mounting anything.
Private ==
    /\ pc = "private"
    /\ MakePrivate
    /\ pc' = After(pc)
    /\ UNCHANGED <<opt, i, rooted, rootMount, log, leaked, sealed, privileged, ids,
                   nnp, applied>>

\* One mount of a loop over list (layer is what it shows at its path), whose
\* failure is logged or ignored; or the end of the loop.
EachMount(list, layers(_)) ==
    /\ \/ /\ i > Len(list)
          /\ i' = 1
          /\ pc' = After(pc)
          /\ UNCHANGED <<log, leaked, failed, killed>>
       \/ /\ i <= Len(list)
          /\ i' = i + 1
          /\ UNCHANGED pc
          /\ Hook
          /\ \E ok \in MountResults("mount") :
                IF ok THEN \E layer \in layers(list[i]) :
                                /\ AddMount(list[i], layer)
                                /\ failed' = (failed \/ layer = "bind")
                      ELSE failed' = TRUE /\ UNCHANGED <<log, leaked>>
    /\ UNCHANGED <<opt, rooted, rootMount, shared, sealed, privileged, ids,
                   nnp, applied>>

\* apply_mounts: in order; a mount that fails is logged and skipped.
ConfigLayers(p) == {"config"}
ApplyMounts == pc = "mounts" /\ EachMount(Mounts, ConfigLayers)

\* apply_default_devices: nothing, unless the config has a mount that is written
\* "/dev" and of type tmpfs; then nodes and links under whatever /dev now is (the
\* rootfs's own if the mount failed).  mknod takes CAP_MKNOD.
ApplyDevices ==
    /\ pc = "devices"
    /\ \/ /\ opt.freshDev
          /\ LET what == IF Visible("/dev") = "config" THEN "devices" ELSE "rootfsDevices"
             IN BestEffort(what, "write", privileged)
       \/ /\ ~opt.freshDev
          /\ pc' = After(pc)
          /\ UNCHANGED <<opt, i, rooted, rootMount, shared, log, sealed, privileged, ids,
                         nnp, applied, failed, killed>>
    /\ UNCHANGED leaked

\* apply_sysctls: writes below /proc/sys, of the /proc the config mounts, while
\* that is writable.
ApplySysctls ==
    /\ pc = "sysctls"
    /\ BestEffort("sysctls", "write", Visible("/proc/sys") = "config")
    /\ UNCHANGED leaked

\* krunc_apply_rlimit for each limit, which may raise it, and the OOM score.
ApplyLimits ==
    /\ pc = "limits"
    /\ BestEffort("limits", "limit", privileged)
    /\ UNCHANGED leaked

\* apply_path_confinement, first loop: bind /dev/null over a masked path, or
\* else an empty tmpfs.
MaskLayers(p) == {"mask"}
MaskPaths == pc = "mask" /\ EachMount(Masked, MaskLayers)

\* Second loop: bind each read-only path onto itself, without MS_REC (what is
\* mounted below it is not carried over), then remount the bind read-only.
\* A path already masked shows the mask again.
ReadonlyLayers(p) ==
    IF Visible(p) = "mask" THEN {"mask"}
    ELSE {"ro"} \cup (IF "mount" \in Faults THEN {"bind"} ELSE {})
ReadonlyPaths == pc = "readonly" /\ EachMount(Readonly, ReadonlyLayers)

\* Mutant: a failing seal is logged like a failing mount.
SealNotFatal ==
    /\ pc = "seal"
    /\ IF opt.readonlyRootfs
       THEN /\ Hook
            /\ \E ok \in MountResults("mount") : sealed' = (ok /\ rootMount)
       ELSE UNCHANGED <<sealed, killed>>
    /\ pc' = After(pc)
    /\ UNCHANGED <<opt, i, rooted, rootMount, shared, log, leaked, privileged, ids,
                   nnp, applied, failed>>

\* Remount "/" read-only when the spec asks for it; fatal.
Seal ==
    /\ pc = "seal"
    /\ IF opt.readonlyRootfs
       THEN /\ Hook
            /\ \E ok \in MountResults("mount") :
                /\ sealed' = (ok /\ rootMount)
                /\ FatalUnless(ok /\ rootMount)
       ELSE pc' = After(pc) /\ UNCHANGED <<sealed, killed>>
    /\ UNCHANGED <<opt, i, rooted, rootMount, shared, log, leaked, privileged, ids,
                   nnp, applied, failed>>

\* krunc_apply_creds: no_new_privs, then the capability sets and ids when the
\* spec lists capabilities; container_entry ignores the result.
ApplyCreds ==
    /\ pc = "creds"
    /\ nnp' = opt.noNewPrivs
    /\ \E ok \in Results("creds") :
        /\ privileged' = ~(opt.capsPresent /\ ok)
        /\ ids' = IF opt.capsPresent /\ ok /\ opt.userMapped THEN "spec" ELSE ids
        /\ failed' = (failed \/ ~ok)
    /\ pc' = After(pc)
    /\ UNCHANGED <<opt, i, rooted, rootMount, shared, log, leaked, sealed, applied, killed>>

\* krunc_execve: the program, or krunc_exit(rc).
Execve ==
    /\ pc = "exec"
    /\ \E ok \in Results("exec") : FatalUnless(ok)
    /\ UNCHANGED <<opt, i, rooted, rootMount, shared, log, leaked, sealed, privileged,
                   ids, nnp, applied, failed, killed>>

SetupNext ==
    \/ SetHostname
    \/ UsernsCreds
    \/ Isolate
    \/ BindRootfs
    \/ Chroot
    \/ Private
    \/ ApplyMounts
    \/ ApplyDevices
    \/ ApplySysctls
    \/ MaskPaths
    \/ ReadonlyPaths
    \/ ApplyLimits
    \/ Seal
    \/ ApplyCreds
    \/ Execve

SetupSpec == SetupInit /\ [][SetupNext]_svars

-----------------------------------------------------------------------------
(* Properties.                                                             *)

\* container_entry fails closed on the rootfs: whatever calls fail and
\* whichever way the LSM interferes, the program of a container with a
\* read-only rootfs starts only inside that rootfs, sealed.
SealEnforced ==
    pc = "program" => rooted = "container" /\ (opt.readonlyRootfs => sealed)

\* Nothing krunc does while setting a container up shows on the host: the tree
\* is private before the first mount.
HostUntouched == leaked = {}

\* A mask that was mounted is still what the program finds at the path: no
\* configured mount and no read-only bind made later covers it.
MasksOnTop ==
    pc = "program" =>
        \A k \in DOMAIN log : log[k].layer = "mask" => Visible(log[k].path) = "mask"

\* When no call failed the program starts with the whole of its spec in force:
\* every mount made, the device nodes (if the config mounts a tmpfs on /dev) in
\* the /dev of its mounts and nowhere else, the sysctls written before their
\* tree became read-only, masks and read-only paths in effect, limits raised
\* while that was still allowed, the capability ceiling, process.user and
\* no_new_privs set (the first two if the spec lists capabilities).
SpecInForce ==
    pc = "program" /\ ~failed =>
        /\ \A k \in DOMAIN Masked : Visible(Masked[k]) = "mask"
        /\ \A k \in DOMAIN Readonly : Visible(Readonly[k]) \in {"ro", "mask"}
        /\ Len(log) = Len(Mounts) + Len(Masked) + Len(Readonly)
        /\ opt.capsPresent => ~privileged /\ (opt.userMapped => ids = "spec")
        /\ nnp = opt.noNewPrivs
        /\ applied = {"hostname", "sysctls", "limits"}
                        \cup (IF opt.freshDev THEN {"devices"} ELSE {})

\* The program runs as process.user, whatever else the spec has or lacks.
UserInForce == pc = "program" /\ ~failed => ids = "spec"

\* The LSM never interferes with krunc's own setup mounts: a guarded container
\* whose kernel grants every call starts with nothing denied.
SetupNotGuarded == opt.guard # "none" => ~failed /\ ~killed
=============================================================================
