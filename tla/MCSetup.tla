------------------------------ MODULE MCSetup ------------------------------
(* Instances of ContainerSetup for TLC: two configured mounts, one of them  *)
(* on the parent of the masked and of the read-only paths.                  *)
EXTENDS ContainerSetup

MCPaths == {"/proc", "/proc/kcore", "/proc/sys", "/dev", "/data", "rootfs"}
MCAncestors ==
    [p \in MCPaths |-> IF p \in {"/proc/kcore", "/proc/sys"} THEN {"/proc"} ELSE {}]

MCMounts == <<"/proc", "/dev">>
MCMasked == <<"/proc/kcore", "/proc/sys">>
MCReadonly == <<"/proc/sys", "/data">>

\* Specs that list their mount and UTS namespaces.  Outside a user namespace
\* every id is mapped.
Possible == {o \in Option : o.ownNamespaces /\ (~o.userns => o.mapped /\ o.userMapped)}

\* Containers whose rootfs is a mount of its own, as an overlay from
\* containerd is, or whose host does not share its mounts.
MountedRootfs == {o \in Possible : o.rootfsIsMount \/ ~o.hostShared}

\* Unguarded containers with no user namespace of their own.
PlainContainers == {o \in Possible : o.guard = "none" /\ ~o.userns}
=============================================================================
