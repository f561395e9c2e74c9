------------------------ MODULE ContainerSetupProofs ------------------------
(***************************************************************************)
(* What container_entry leaves behind, for every list of mounts, masks and *)
(* read-only paths, every tree of paths, every spec and every set of calls *)
(* that may fail.                                                          *)
(*                                                                         *)
(* Each property is about the order of the statements, so each invariant   *)
(* says what holds from some statement on.  The masks need more: a mount   *)
(* made after a mask, on the path of the mask or above or below it, must   *)
(* show the mask again.                                                    *)
(***************************************************************************)
EXTENDS ContainerSetup, WellFoundedInduction, TLAPS

-----------------------------------------------------------------------------
(* The order of the statements.                                            *)

\* The statements of container_entry, one by one.
LEMMA OrderItems ==
    /\ DOMAIN Order = 1 .. 16
    /\ Order[1] = "hostname" /\ Order[2] = "userns" /\ Order[3] = "isolate"
    /\ Order[4] = "bindRootfs" /\ Order[5] = "chroot" /\ Order[6] = "private"
    /\ Order[7] = "mounts" /\ Order[8] = "devices" /\ Order[9] = "sysctls"
    /\ Order[10] = "mask" /\ Order[11] = "readonly" /\ Order[12] = "limits"
    /\ Order[13] = "seal" /\ Order[14] = "creds" /\ Order[15] = "exec"
    /\ Order[16] = "program"
  BY DEF Order

\* No statement occurs twice, so After is the next one.
LEMMA OrderOnce == \A j, k \in DOMAIN Order : Order[j] = Order[k] => j = k
  BY OrderItems

\* After goes from each statement to the one behind it in Order.
LEMMA AfterEach == \A k \in 1 .. 15 : After(Order[k]) = Order[1 + k]
  BY OrderItems, OrderOnce DEF After

\* ... and so, statement by statement.
LEMMA AfterIs ==
    /\ After("hostname") = "userns" /\ After("userns") = "isolate"
    /\ After("isolate") = "bindRootfs" /\ After("bindRootfs") = "chroot"
    /\ After("chroot") = "private" /\ After("private") = "mounts"
    /\ After("mounts") = "devices" /\ After("devices") = "sysctls"
    /\ After("sysctls") = "mask" /\ After("mask") = "readonly"
    /\ After("readonly") = "limits" /\ After("limits") = "seal"
    /\ After("seal") = "creds" /\ After("creds") = "exec"
    /\ After("exec") = "program"
  BY AfterEach, OrderItems

\* The statements up to and past some points.
BeforeMounts == {"hostname", "userns", "isolate", "bindRootfs", "chroot", "private"}
BeforeChroot == {"hostname", "userns", "isolate", "bindRootfs", "chroot"}
AfterSeal == {"creds", "exec", "program"}

-----------------------------------------------------------------------------
(* The loops over mounts.                                                  *)

\* The mount that one round of a loop makes.
Mounted(p, layer) == opt.guard = "none" /\ AddMount(p, layer)

\* A round of a loop, or its end, leaves all but its mount alone.
LoopFrame ==
    /\ UNCHANGED <<opt, rooted, rootMount, shared, sealed>>
    /\ pc \in {"mounts", "mask", "readonly"} /\ pc' \in {pc, After(pc)}
    /\ i \in Nat \ {0} => i' \in Nat \ {0}

\* A round of one of the three loops mounts the list's path, or nothing.
LEMMA MountLoop ==
    /\ i \in Nat \ {0} /\ ApplyMounts =>
        /\ LoopFrame /\ pc = "mounts"
        /\ \/ UNCHANGED <<log, leaked>>
           \/ \E k \in DOMAIN Mounts : Mounted(Mounts[k], "config")
    /\ i \in Nat \ {0} /\ MaskPaths =>
        /\ LoopFrame /\ pc = "mask"
        /\ \/ UNCHANGED <<log, leaked>>
           \/ \E k \in DOMAIN Masked : Mounted(Masked[k], "mask")
    /\ i \in Nat \ {0} /\ ReadonlyPaths =>
        /\ LoopFrame /\ pc = "readonly"
        /\ \/ UNCHANGED <<log, leaked>>
           \/ \E k \in DOMAIN Readonly : \E layer \in ReadonlyLayers(Readonly[k]) :
                Mounted(Readonly[k], layer)
<1>1. ASSUME i \in Nat \ {0}, ApplyMounts
      PROVE  /\ LoopFrame /\ pc = "mounts"
             /\ \/ UNCHANGED <<log, leaked>>
                \/ \E k \in DOMAIN Mounts : Mounted(Mounts[k], "config")
  <2> USE <1>1 DEF ApplyMounts, EachMount
  <2>1. LoopFrame /\ pc = "mounts"
    BY DEF LoopFrame
  <2>2. CASE i > Len(Mounts)
    BY <2>1, <2>2, SetupAssumption
  <2>3. CASE i <= Len(Mounts)
    <3>1. i \in DOMAIN Mounts
      BY <2>3, SetupAssumption
    <3>2. \/ UNCHANGED <<log, leaked>>
          \/ opt.guard = "none" /\ \E layer \in ConfigLayers(Mounts[i]) : AddMount(Mounts[i], layer)
      BY <2>3 DEF MountResults
    <3> QED
      BY <2>1, <3>1, <3>2 DEF Mounted, ConfigLayers
  <2> QED
    BY <2>2, <2>3, SetupAssumption
<1>2. ASSUME i \in Nat \ {0}, MaskPaths
      PROVE  /\ LoopFrame /\ pc = "mask"
             /\ \/ UNCHANGED <<log, leaked>>
                \/ \E k \in DOMAIN Masked : Mounted(Masked[k], "mask")
  <2> USE <1>2 DEF MaskPaths, EachMount
  <2>1. LoopFrame /\ pc = "mask"
    BY DEF LoopFrame
  <2>2. CASE i > Len(Masked)
    BY <2>1, <2>2, SetupAssumption
  <2>3. CASE i <= Len(Masked)
    <3>1. i \in DOMAIN Masked
      BY <2>3, SetupAssumption
    <3>2. \/ UNCHANGED <<log, leaked>>
          \/ opt.guard = "none" /\ \E layer \in MaskLayers(Masked[i]) : AddMount(Masked[i], layer)
      BY <2>3 DEF MountResults
    <3> QED
      BY <2>1, <3>1, <3>2 DEF Mounted, MaskLayers
  <2> QED
    BY <2>2, <2>3, SetupAssumption
<1>3. ASSUME i \in Nat \ {0}, ReadonlyPaths
      PROVE  /\ LoopFrame /\ pc = "readonly"
             /\ \/ UNCHANGED <<log, leaked>>
                \/ \E k \in DOMAIN Readonly : \E layer \in ReadonlyLayers(Readonly[k]) :
                     Mounted(Readonly[k], layer)
  <2> USE <1>3 DEF ReadonlyPaths, EachMount
  <2>1. LoopFrame /\ pc = "readonly"
    BY DEF LoopFrame
  <2>2. CASE i > Len(Readonly)
    BY <2>1, <2>2, SetupAssumption
  <2>3. CASE i <= Len(Readonly)
    <3>1. i \in DOMAIN Readonly
      BY <2>3, SetupAssumption
    <3>2. \/ UNCHANGED <<log, leaked>>
          \/ /\ opt.guard = "none"
             /\ \E layer \in ReadonlyLayers(Readonly[i]) : AddMount(Readonly[i], layer)
      BY <2>3 DEF MountResults
    <3> QED
      BY <2>1, <3>1, <3>2 DEF Mounted
  <2> QED
    BY <2>2, <2>3, SetupAssumption
<1> QED
  BY <1>1, <1>2, <1>3

-----------------------------------------------------------------------------
(* The rootfs and its seal.                                                *)

SealInv ==
    /\ pc \notin BeforeChroot \cup {"dead"} => rooted = "container"
    /\ pc \in AfterSeal /\ opt.readonlyRootfs => sealed

\* container_entry fails closed on the rootfs, whatever calls fail.
THEOREM FailsClosed == SetupSpec => []SealEnforced
<1>1. SetupInit => SealInv
  BY OrderItems DEF SetupInit, SealInv, BeforeChroot, AfterSeal
<1>2. SealInv /\ [SetupNext]_svars => SealInv'
  <2> SUFFICES ASSUME SealInv, [SetupNext]_svars
               PROVE  SealInv'
    OBVIOUS
  <2> USE AfterIs DEF SealInv, BeforeChroot, AfterSeal
  <2>1. CASE SetHostname \/ ApplyDevices \/ ApplySysctls \/ ApplyLimits
    BY <2>1 DEF SetHostname, ApplyDevices, ApplySysctls, ApplyLimits, BestEffort
  <2>2. CASE UsernsCreds \/ Isolate \/ BindRootfs \/ Private
    BY <2>2 DEF UsernsCreds, Isolate, BindRootfs, Private, FatalUnless
  <2>3. CASE Chroot
    BY <2>3 DEF Chroot, FatalUnless
  <2>4. CASE ApplyMounts \/ MaskPaths \/ ReadonlyPaths
    BY <2>4 DEF ApplyMounts, MaskPaths, ReadonlyPaths, EachMount
  <2>5. CASE Seal
    BY <2>5 DEF Seal, FatalUnless
  <2>6. CASE ApplyCreds \/ Execve
    BY <2>6 DEF ApplyCreds, Execve, FatalUnless
  <2>7. CASE UNCHANGED svars
    BY <2>7 DEF svars
  <2> QED
    BY <2>1, <2>2, <2>3, <2>4, <2>5, <2>6, <2>7 DEF SetupNext
<1>3. SealInv => SealEnforced
  BY DEF SealInv, SealEnforced, BeforeChroot, AfterSeal
<1> QED
  BY <1>1, <1>2, <1>3, PTL DEF SetupSpec

-----------------------------------------------------------------------------
(* The host.                                                               *)

\* Containers with namespaces of their own whose tree can be made private: "/"
\* is the root of a mount when it matters, or nothing propagates anyway.
Containable ==
    /\ "private" \notin Faults
    /\ \A o \in Options :
        /\ o.ownNamespaces
        /\ o.rootfsIsMount \/ o.readonlyRootfs \/ ~o.hostShared \/ o.userns

\* From its first mount on, the tree of a container that may mount is private.
HostInv ==
    /\ opt \in Options /\ i \in Nat \ {0}
    /\ leaked = {}
    /\ shared => opt.hostShared /\ ~opt.userns
    /\ pc \in BeforeChroot => rootMount
    /\ pc = "private" => rootMount = (opt.rootfsIsMount \/ opt.readonlyRootfs)
    /\ (/\ opt.guard = "none" /\ opt.readonlyRootfs
        /\ pc \in {"bindRootfs", "chroot", "private"}) => ~shared
    /\ opt.guard = "none" /\ pc \notin BeforeMounts \cup {"dead"} => ~shared

\* Nothing of the setup of a containable container shows on the host.
THEOREM HostSafe ==
    ASSUME Containable
    PROVE  SetupSpec => []HostUntouched
<1>1. SetupInit => HostInv
  <2> SUFFICES ASSUME SetupInit
               PROVE  HostInv
    OBVIOUS
  <2>1. pc = "hostname" /\ i \in Nat \ {0}
    BY OrderItems DEF SetupInit
  <2> QED
    BY <2>1 DEF SetupInit, HostInv, BeforeChroot, BeforeMounts
<1>2. HostInv /\ [SetupNext]_svars => HostInv'
  <2> SUFFICES ASSUME HostInv, [SetupNext]_svars
               PROVE  HostInv'
    OBVIOUS
  <2> USE AfterIs DEF HostInv, BeforeChroot, BeforeMounts
  <2>0. opt.ownNamespaces /\ opt \in Option
    BY SetupAssumption DEF Containable
  <2>1. CASE SetHostname \/ ApplyDevices \/ ApplySysctls \/ ApplyLimits
    BY <2>0, <2>1 DEF SetHostname, ApplyDevices, ApplySysctls, ApplyLimits, BestEffort
  <2>2. CASE UsernsCreds
    BY <2>2 DEF UsernsCreds, FatalUnless
  <2>3. CASE Isolate
    BY <2>0, <2>3 DEF Isolate, MakePrivate, MountResults, Results, Containable
  <2>4. CASE BindRootfs
    BY <2>0, <2>4 DEF BindRootfs, FatalUnless, OnHost, MountResults
  <2>5. CASE Chroot
    BY <2>5 DEF Chroot, FatalUnless
  <2>6. CASE Private
    BY <2>0, <2>6 DEF Private, MakePrivate, MountResults, Results, Containable
  <2>7. CASE ApplyMounts \/ MaskPaths \/ ReadonlyPaths
    <3>1. /\ LoopFrame
          /\ \/ UNCHANGED <<log, leaked>>
             \/ \E p, layer : Mounted(p, layer)
      BY <2>7, MountLoop
    <3> QED
      BY <2>0, <3>1 DEF LoopFrame, Mounted, AddMount, OnHost
  <2>8. CASE Seal
    BY <2>8 DEF Seal, FatalUnless
  <2>9. CASE ApplyCreds \/ Execve
    BY <2>9 DEF ApplyCreds, Execve, FatalUnless
  <2>10. CASE UNCHANGED svars
    BY <2>10 DEF svars
  <2> QED
    BY <2>1, <2>2, <2>3, <2>4, <2>5, <2>6, <2>7, <2>8, <2>9, <2>10 DEF SetupNext
<1>3. HostInv => HostUntouched
  BY DEF HostInv, HostUntouched
<1> QED
  BY <1>1, <1>2, <1>3, PTL DEF SetupSpec

-----------------------------------------------------------------------------
(* The masks.                                                              *)

\* The ancestors of a path are a chain, and contain their own ancestors.
PathTree ==
    \A p \in Paths :
        /\ \A q \in AncestorsOf[p] : AncestorsOf[q] \subseteq AncestorsOf[p]
        /\ \A q, r \in AncestorsOf[p] : q = r \/ q \in AncestorsOf[r] \/ r \in AncestorsOf[q]

\* No read-only path has a masked path below it.
MasksBelowNone ==
    \A j \in DOMAIN Readonly, k \in DOMAIN Masked : Readonly[j] \notin AncestorsOf[Masked[k]]

Upto(p) == AncestorsOf[p] \cup {p}
Related(p, q) == p \in Upto(q) \/ q \in Upto(p)
IsMask(k) == log[k].layer = "mask"
BeforeMask == BeforeMounts \cup {"mounts", "devices", "sysctls"}

LogEntry == [path : Paths, layer : {"config", "mask", "ro", "bind"}]
LogOK == log \in Seq(LogEntry)

\* Every mask is at or below a masked path that was masked itself: the bind of
\* a read-only path under a mask shows the mask again.
MaskRooted ==
    \A k \in DOMAIN log : IsMask(k) =>
        \E h \in DOMAIN log, m \in DOMAIN Masked :
            IsMask(h) /\ log[h].path = Masked[m] /\ Masked[m] \in Upto(log[k].path)

\* After a mask only masks are mounted at, above or below its path.
MaskKept ==
    \A j, k \in DOMAIN log :
        IsMask(k) /\ k < j /\ Related(log[k].path, log[j].path) => IsMask(j)

MaskInv ==
    /\ i \in Nat \ {0}
    /\ LogOK
    /\ pc \in BeforeMask => \A k \in DOMAIN log : ~IsMask(k)
    /\ MaskRooted
    /\ MaskKept

\* A nonempty set of positions has a last one.
LEMMA LastOf ==
    ASSUME NEW n \in Nat, NEW S \in SUBSET (1 .. n), S # {}
    PROVE  \E k \in S : \A j \in S : j <= k
<1> DEFINE T == {x \in Nat : n - x \in S}
           R == OpToRel(<, Nat)
<1>1. T \subseteq Nat /\ T # {}
  <2>1. PICK k \in S : TRUE
    OBVIOUS
  <2>2. n - k \in Nat /\ n - (n - k) = k
    OBVIOUS
  <2>3. n - k \in T
    BY <2>2
  <2> QED
    BY <2>3
<1>2. IsWellFoundedOn(R, Nat)
  BY NatLessThanWellFounded
<1> HIDE DEF R
<1>3. PICK x \in T : \A y \in T : ~ (<<y, x>> \in R)
  BY <1>1, <1>2, WFMin
<1>4. \A y \in T : ~ (y < x)
  BY <1>1, <1>3 DEF OpToRel, R
<1>5. PICK k \in S : x = n - k
  BY <1>1
<1>6. ASSUME NEW j \in S
      PROVE  j <= k
  <2>1. n - j \in T
    <3>1. n - j \in Nat /\ n - (n - j) = j
      OBVIOUS
    <3> QED
      BY <3>1
  <2>2. ~ (n - j < n - k)
    BY <1>4, <1>5, <2>1
  <2> QED
    BY <2>2
<1> QED
  BY <1>6

\* Every mount in the log is at a path of the container.
LEMMA LogItem ==
    ASSUME LogOK, NEW k \in DOMAIN log
    PROVE  log[k].path \in Paths
<1>1. log[k] \in LogEntry
  BY DEF LogOK
<1> QED
  BY <1>1 DEF LogEntry

\* A lookup finds the last mount on the path or above it.
LEMMA VisibleIs ==
    ASSUME LogOK, NEW p, Covering(p) # {}
    PROVE  \E k \in Covering(p) : /\ \A j \in Covering(p) : j <= k
                                  /\ Visible(p) = log[k].layer
<1>1. Len(log) \in Nat /\ Covering(p) \in SUBSET (1 .. Len(log))
  BY DEF LogOK, Covering
<1>2. \E k \in Covering(p) : \A j \in Covering(p) : j <= k
  BY <1>1, LastOf
<1> QED
  BY <1>2 DEF Visible

\* A path at or below a masked one shows the mask.
LEMMA MaskShows ==
    ASSUME LogOK, MaskKept, PathTree, NEW p \in Paths,
           NEW h \in DOMAIN log, IsMask(h), log[h].path \in Upto(p)
    PROVE  Visible(p) = "mask"
<1>1. h \in Covering(p)
  BY DEF Covering, Upto
<1>2. PICK k \in Covering(p) : /\ \A j \in Covering(p) : j <= k
                               /\ Visible(p) = log[k].layer
  BY <1>1, VisibleIs
<1>3. k \in DOMAIN log /\ log[k].path \in Upto(p) /\ h <= k
  BY <1>1, <1>2 DEF Covering, Upto
<1>4. Related(log[h].path, log[k].path)
  BY <1>3 DEF Related, Upto, PathTree
<1>5. CASE h = k
  BY <1>2, <1>5 DEF IsMask
<1>6. CASE h < k
  BY <1>2, <1>3, <1>4, <1>6 DEF IsMask, MaskKept
<1> QED
  BY <1>3, <1>5, <1>6 DEF LogOK

\* A read-only path that does not show a mask has none at, above or below it.
LEMMA NoMaskNear ==
    ASSUME MaskInv, PathTree, MasksBelowNone, NEW r \in DOMAIN Readonly,
           Visible(Readonly[r]) # "mask", NEW k \in DOMAIN log, IsMask(k)
    PROVE  ~Related(log[k].path, Readonly[r])
<1> DEFINE p == Readonly[r]
<1>1. p \in Paths /\ log[k].path \in Paths
  <2>1. log[k].path \in Paths
    BY LogItem DEF MaskInv
  <2>2. p \in Paths
    BY SetupAssumption
  <2> QED
    BY <2>1, <2>2
<1>2. PICK h \in DOMAIN log, m \in DOMAIN Masked :
        IsMask(h) /\ log[h].path = Masked[m] /\ Masked[m] \in Upto(log[k].path)
  BY DEF MaskInv, MaskRooted
<1>3. p \notin AncestorsOf[Masked[m]]
  BY DEF MasksBelowNone
<1> HIDE DEF p
<1>4. Masked[m] \notin Upto(p)
  BY <1>1, <1>2, MaskShows DEF MaskInv, p
<1>5. CASE log[k].path \in Upto(p)
  BY <1>1, <1>2, <1>4, <1>5 DEF Upto, PathTree
<1>6. CASE p \in Upto(log[k].path)
  BY <1>1, <1>2, <1>3, <1>4, <1>6 DEF Upto, PathTree
<1> QED
  BY <1>5, <1>6 DEF Related, p

\* A mount that is a mask below a mask, or nowhere near one, keeps the masks.
LEMMA MountKeepsMasks ==
    ASSUME LogOK, MaskRooted, MaskKept, NEW p \in Paths,
           NEW layer \in {"config", "mask", "ro", "bind"},
           log' = Append(log, [path |-> p, layer |-> layer]),
           IF layer = "mask"
           THEN \/ \E m \in DOMAIN Masked : p = Masked[m]
                \/ \E k \in DOMAIN log : IsMask(k) /\ log[k].path \in Upto(p)
           ELSE \A k \in DOMAIN log : IsMask(k) => ~Related(log[k].path, p),
           PathTree
    PROVE  LogOK' /\ MaskRooted' /\ MaskKept'
<1> DEFINE n == Len(log) + 1
<1>1. /\ LogOK'
      /\ DOMAIN log' = DOMAIN log \cup {n}
      /\ n \notin DOMAIN log /\ \A k \in DOMAIN log : k < n
      /\ \A k \in DOMAIN log : log'[k] = log[k]
      /\ log'[n].path = p /\ log'[n].layer = layer
  <2>1. [path |-> p, layer |-> layer] \in LogEntry
    BY DEF LogEntry
  <2> QED
    BY <2>1 DEF LogOK
<1> HIDE DEF n
<1>2. \A k \in DOMAIN log : IsMask(k)' <=> IsMask(k)
  BY <1>1 DEF IsMask
<1>3. MaskKept'
  <2> SUFFICES ASSUME NEW j \in DOMAIN log', NEW k \in DOMAIN log',
                      IsMask(k)', k < j, Related(log'[k].path, log'[j].path)
               PROVE  IsMask(j)'
    BY DEF MaskKept, Related, Upto
  <2>1. CASE j \in DOMAIN log
    BY <1>1, <1>2, <2>1 DEF MaskKept, LogOK
  <2>2. CASE j = n /\ k \in DOMAIN log
    BY <1>1, <1>2, <2>2 DEF IsMask
  <2>3. CASE j = n /\ k = n
    BY <1>1, <2>3
  <2> QED
    BY <1>1, <2>1, <2>2, <2>3
<1>4. MaskRooted'
  <2> SUFFICES ASSUME NEW k \in DOMAIN log', IsMask(k)'
               PROVE  \E h \in DOMAIN log', m \in DOMAIN Masked :
                        /\ IsMask(h)' /\ log'[h].path = Masked[m]
                        /\ Masked[m] \in Upto(log'[k].path)
    BY DEF MaskRooted, Upto
  <2>1. CASE k \in DOMAIN log
    BY <1>1, <1>2, <2>1 DEF MaskRooted
  <2>2. CASE k = n /\ \E m \in DOMAIN Masked : p = Masked[m]
    BY <1>1, <2>2 DEF IsMask, Upto
  <2>3. CASE k = n /\ \E g \in DOMAIN log : IsMask(g) /\ log[g].path \in Upto(p)
    <3>1. PICK g \in DOMAIN log : IsMask(g) /\ log[g].path \in Upto(p)
      BY <2>3
    <3>2. PICK h \in DOMAIN log, m \in DOMAIN Masked :
            IsMask(h) /\ log[h].path = Masked[m] /\ Masked[m] \in Upto(log[g].path)
      BY <3>1 DEF MaskRooted
    <3>3. Masked[m] \in Upto(p)
      BY <3>1, <3>2 DEF Upto, PathTree
    <3> QED
      BY <1>1, <1>2, <2>3, <3>2, <3>3
  <2>4. k \notin DOMAIN log => k = n /\ layer = "mask"
    BY <1>1 DEF IsMask
  <2> QED
    BY <2>1, <2>2, <2>3, <2>4
<1> QED
  BY <1>1, <1>3, <1>4

\* The statements that are not loops mount nothing, and none goes back.
LEMMA OtherStatements ==
    ASSUME SetupNext, ~ApplyMounts, ~MaskPaths, ~ReadonlyPaths
    PROVE  /\ UNCHANGED <<i, log>>
           /\ pc' \in BeforeMask => pc \in BeforeMask
<1> USE AfterIs DEF BeforeMask, BeforeMounts, FatalUnless
<1>1. CASE SetHostname \/ ApplyDevices \/ ApplySysctls \/ ApplyLimits
  BY <1>1 DEF SetHostname, ApplyDevices, ApplySysctls, ApplyLimits, BestEffort
<1>2. CASE UsernsCreds \/ Isolate \/ BindRootfs \/ Chroot \/ Private
  BY <1>2 DEF UsernsCreds, Isolate, BindRootfs, Chroot, Private
<1>3. CASE Seal \/ ApplyCreds \/ Execve
  BY <1>3 DEF Seal, ApplyCreds, Execve
<1> QED
  BY <1>1, <1>2, <1>3 DEF SetupNext

\* MaskInv is an invariant, unless a read-only path lies above a masked one.
LEMMA MaskInvariance ==
    ASSUME PathTree, MasksBelowNone
    PROVE  SetupSpec => []MaskInv
<1>1. SetupInit => MaskInv
  BY DEF SetupInit, MaskInv, LogOK, MaskRooted, MaskKept
<1>2. MaskInv /\ [SetupNext]_svars => MaskInv'
  <2> SUFFICES ASSUME MaskInv, [SetupNext]_svars
               PROVE  MaskInv'
    OBVIOUS
  <2> DEFINE Loops == ApplyMounts \/ MaskPaths \/ ReadonlyPaths
             NoMasks == \A k \in DOMAIN log : ~IsMask(k)
  <2>1. ASSUME UNCHANGED <<i, log>>, pc' \in BeforeMask => pc \in BeforeMask
        PROVE  MaskInv'
    BY <2>1 DEF MaskInv, LogOK, MaskRooted, MaskKept, IsMask
  <2>2. CASE Loops
    <3>1. LoopFrame
      BY <2>2, MountLoop DEF MaskInv
    <3>2. i' \in Nat \ {0} /\ (pc' \in BeforeMask => pc = "mounts")
      BY <3>1, AfterIs DEF LoopFrame, MaskInv, BeforeMask, BeforeMounts
    <3>3. ASSUME UNCHANGED log
          PROVE  MaskInv'
      BY <3>2, <3>3 DEF MaskInv, LogOK, MaskRooted, MaskKept, IsMask, BeforeMask
    <3>4. ASSUME NEW k \in DOMAIN Mounts, Mounted(Mounts[k], "config"), pc = "mounts"
          PROVE  MaskInv'
      <4>1. NoMasks
        BY <3>4 DEF MaskInv, BeforeMask
      <4>2. log' = Append(log, [path |-> Mounts[k], layer |-> "config"]) /\ Mounts[k] \in Paths
        BY <3>4, SetupAssumption DEF Mounted, AddMount
      <4>3. LogOK' /\ MaskRooted' /\ MaskKept'
        BY <4>1, <4>2, MountKeepsMasks DEF MaskInv
      <4>4. NoMasks'
        BY <4>1, <4>2 DEF IsMask, MaskInv, LogOK
      <4> QED
        BY <3>2, <4>3, <4>4 DEF MaskInv
    <3>5. ASSUME NEW k \in DOMAIN Masked, Mounted(Masked[k], "mask"), pc = "mask"
          PROVE  MaskInv'
      <4>1. log' = Append(log, [path |-> Masked[k], layer |-> "mask"]) /\ Masked[k] \in Paths
        BY <3>5, SetupAssumption DEF Mounted, AddMount
      <4>2. LogOK' /\ MaskRooted' /\ MaskKept'
        BY <4>1, MountKeepsMasks DEF MaskInv
      <4> QED
        BY <3>2, <3>5, <4>2 DEF MaskInv
    <3>6. ASSUME NEW k \in DOMAIN Readonly, NEW layer \in ReadonlyLayers(Readonly[k]),
                 Mounted(Readonly[k], layer), pc = "readonly"
          PROVE  MaskInv'
      <4>1. /\ log' = Append(log, [path |-> Readonly[k], layer |-> layer])
            /\ Readonly[k] \in Paths
        BY <3>6, SetupAssumption DEF Mounted, AddMount
      <4>2. CASE Visible(Readonly[k]) = "mask"
        <5>1. layer = "mask"
          BY <4>2 DEF ReadonlyLayers
        <5>2. Covering(Readonly[k]) # {}
          BY <4>2 DEF Visible
        <5>3. \E h \in DOMAIN log : IsMask(h) /\ log[h].path \in Upto(Readonly[k])
          BY <4>2, <5>2, VisibleIs DEF MaskInv, Covering, IsMask, Upto
        <5>4. LogOK' /\ MaskRooted' /\ MaskKept'
          BY <4>1, <5>1, <5>3, MountKeepsMasks DEF MaskInv
        <5> QED
          BY <3>2, <3>6, <5>4 DEF MaskInv
      <4>3. CASE Visible(Readonly[k]) # "mask"
        <5>1. layer \in {"ro", "bind"}
          BY <4>3 DEF ReadonlyLayers
        <5>2. \A h \in DOMAIN log : IsMask(h) => ~Related(log[h].path, Readonly[k])
          BY <4>3, NoMaskNear
        <5>3. LogOK' /\ MaskRooted' /\ MaskKept'
          BY <4>1, <5>1, <5>2, MountKeepsMasks DEF MaskInv
        <5> QED
          BY <3>2, <3>6, <5>3 DEF MaskInv
      <4> QED
        BY <4>2, <4>3
    <3> QED
      BY <2>2, <3>3, <3>4, <3>5, <3>6, MountLoop DEF MaskInv
  <2>3. CASE SetupNext /\ ~Loops
    BY <2>1, <2>3, OtherStatements
  <2>4. CASE UNCHANGED svars
    BY <2>1, <2>4 DEF svars
  <2> QED
    BY <2>2, <2>3, <2>4
<1> QED
  BY <1>1, <1>2, PTL DEF SetupSpec

\* Whatever mount fails, and whatever is mounted after it, a mask that was made
\* is what the program finds at its path, unless a read-only path lies above a
\* masked one.
THEOREM MasksStay ==
    ASSUME PathTree, MasksBelowNone
    PROVE  SetupSpec => []MasksOnTop
<1>1. MaskInv => MasksOnTop
  <2> SUFFICES ASSUME MaskInv, NEW k \in DOMAIN log, log[k].layer = "mask"
               PROVE  Visible(log[k].path) = "mask"
    BY DEF MasksOnTop
  <2> QED
    BY LogItem, MaskShows DEF MaskInv, IsMask, Upto
<1> QED
  BY <1>1, MaskInvariance, PTL

-----------------------------------------------------------------------------
(* The whole spec.                                                         *)

\* The config mounts something that holds /proc/sys.
Mountpoints == \E k \in DOMAIN Mounts : Mounts[k] \in Upto("/proc/sys")

Configured == Len(Mounts)
Confined == Len(Mounts) + Len(Masked)
Everything == Len(Mounts) + Len(Masked) + Len(Readonly)

\* How many mounts a setup without a failure has made.
Made ==
    IF pc \in BeforeMounts THEN 0
    ELSE IF pc = "mounts" THEN i - 1
    ELSE IF pc \in {"devices", "sysctls"} THEN Configured
    ELSE IF pc = "mask" THEN Configured + (i - 1)
    ELSE IF pc = "readonly" THEN Confined + (i - 1)
    ELSE Everything

\* ... and which.
MountsMade ==
    \A k \in DOMAIN log :
        /\ k <= Configured => log[k].path = Mounts[k] /\ log[k].layer = "config"
        /\ k > Configured /\ k <= Confined =>
            log[k].path = Masked[k - Configured] /\ log[k].layer = "mask"
        /\ k > Confined =>
            log[k].path = Readonly[k - Confined] /\ log[k].layer \in {"ro", "mask"}

LoopIndex ==
    /\ i \in Nat \ {0}
    /\ pc = "mounts" => i <= Len(Mounts) + 1
    /\ pc = "mask" => i <= Len(Masked) + 1
    /\ pc = "readonly" => i <= Len(Readonly) + 1
    /\ pc \notin {"mounts", "mask", "readonly"} => i = 1

\* Each best-effort statement that is past has taken effect.
AppliedOK ==
    /\ \A a \in applied : a \in {"hostname", "devices", "sysctls", "limits"}
    /\ pc # "hostname" => "hostname" \in applied
    /\ pc \notin BeforeMounts \cup {"mounts", "devices"} => (opt.freshDev => "devices" \in applied)
    /\ ~opt.freshDev => "devices" \notin applied
    /\ pc \notin BeforeMask => "sysctls" \in applied
    /\ pc \in {"seal"} \cup AfterSeal => "limits" \in applied

\* The capabilities are dropped at the end and not before.
CredsOK ==
    /\ pc \notin {"exec", "program"} => privileged
    /\ pc \in {"exec", "program"} =>
        /\ nnp = opt.noNewPrivs
        /\ opt.capsPresent => ~privileged /\ (opt.userMapped => ids = "spec")

SpecInv ==
    ~failed /\ pc # "dead" =>
        /\ LoopIndex
        /\ Len(log) = Made
        /\ MountsMade
        /\ AppliedOK
        /\ CredsOK

\* A round of a loop in which no call fails, or the end of the loop.
CleanRound(list, layers) ==
    /\ ~failed
    /\ UNCHANGED <<opt, privileged, ids, nnp, applied>>
    /\ \/ /\ i > Len(list)
          /\ i' = 1 /\ pc' = After(pc) /\ log' = log
       \/ /\ i <= Len(list)
          /\ i' = i + 1 /\ pc' = pc
          /\ \E layer \in layers : log' = Append(log, [path |-> list[i], layer |-> layer])

\* The three loops, when no call fails: each round makes its mount.
LEMMA CleanLoop ==
    ASSUME ~failed'
    PROVE  /\ ApplyMounts => pc = "mounts" /\ CleanRound(Mounts, {"config"})
           /\ MaskPaths => pc = "mask" /\ CleanRound(Masked, {"mask"})
           /\ ReadonlyPaths => pc = "readonly" /\ CleanRound(Readonly, {"ro", "mask"})
<1>1. ASSUME ApplyMounts
      PROVE  pc = "mounts" /\ CleanRound(Mounts, {"config"})
  <2> USE <1>1 DEF ApplyMounts, EachMount, CleanRound
  <2>1. pc = "mounts" /\ UNCHANGED <<opt, privileged, ids, nnp, applied>>
    OBVIOUS
  <2>2. CASE i > Len(Mounts) /\ i' = 1 /\ pc' = After(pc) /\ UNCHANGED <<log, failed>>
    BY <2>1, <2>2
  <2>3. ASSUME i <= Len(Mounts), i' = i + 1, pc' = pc,
               NEW ok, IF ok THEN \E layer \in ConfigLayers(Mounts[i]) :
                                    /\ AddMount(Mounts[i], layer)
                                    /\ failed' = (failed \/ layer = "bind")
                             ELSE failed' = TRUE
        PROVE  CleanRound(Mounts, {"config"})
    <3>1. PICK layer \in ConfigLayers(Mounts[i]) :
            AddMount(Mounts[i], layer) /\ failed' = (failed \/ layer = "bind")
      BY <2>3
    <3>2. ~failed /\ layer \in {"config"}
      BY <3>1 DEF ConfigLayers
    <3> QED
      BY <2>1, <2>3, <3>1, <3>2 DEF AddMount
  <2> QED
    BY <2>1, <2>2, <2>3
<1>2. ASSUME MaskPaths
      PROVE  pc = "mask" /\ CleanRound(Masked, {"mask"})
  <2> USE <1>2 DEF MaskPaths, EachMount, CleanRound
  <2>1. pc = "mask" /\ UNCHANGED <<opt, privileged, ids, nnp, applied>>
    OBVIOUS
  <2>2. CASE i > Len(Masked) /\ i' = 1 /\ pc' = After(pc) /\ UNCHANGED <<log, failed>>
    BY <2>1, <2>2
  <2>3. ASSUME i <= Len(Masked), i' = i + 1, pc' = pc,
               NEW ok, IF ok THEN \E layer \in MaskLayers(Masked[i]) :
                                    /\ AddMount(Masked[i], layer)
                                    /\ failed' = (failed \/ layer = "bind")
                             ELSE failed' = TRUE
        PROVE  CleanRound(Masked, {"mask"})
    <3>1. PICK layer \in MaskLayers(Masked[i]) :
            AddMount(Masked[i], layer) /\ failed' = (failed \/ layer = "bind")
      BY <2>3
    <3>2. ~failed /\ layer \in {"mask"}
      BY <3>1 DEF MaskLayers
    <3> QED
      BY <2>1, <2>3, <3>1, <3>2 DEF AddMount
  <2> QED
    BY <2>1, <2>2, <2>3
<1>3. ASSUME ReadonlyPaths
      PROVE  pc = "readonly" /\ CleanRound(Readonly, {"ro", "mask"})
  <2> USE <1>3 DEF ReadonlyPaths, EachMount, CleanRound
  <2>1. pc = "readonly" /\ UNCHANGED <<opt, privileged, ids, nnp, applied>>
    OBVIOUS
  <2>2. CASE i > Len(Readonly) /\ i' = 1 /\ pc' = After(pc) /\ UNCHANGED <<log, failed>>
    BY <2>1, <2>2
  <2>3. ASSUME i <= Len(Readonly), i' = i + 1, pc' = pc,
               NEW ok, IF ok THEN \E layer \in ReadonlyLayers(Readonly[i]) :
                                    /\ AddMount(Readonly[i], layer)
                                    /\ failed' = (failed \/ layer = "bind")
                             ELSE failed' = TRUE
        PROVE  CleanRound(Readonly, {"ro", "mask"})
    <3>1. PICK layer \in ReadonlyLayers(Readonly[i]) :
            AddMount(Readonly[i], layer) /\ failed' = (failed \/ layer = "bind")
      BY <2>3
    <3>2. ~failed /\ layer \in {"ro", "mask"}
      BY <3>1 DEF ReadonlyLayers
    <3> QED
      BY <2>1, <2>3, <3>1, <3>2 DEF AddMount
  <2> QED
    BY <2>1, <2>2, <2>3
<1> QED
  BY <1>1, <1>2, <1>3

\* The next mount of the list in its turn keeps the log in order.
LEMMA NextMount ==
    ASSUME LogOK, MountsMade, NEW p, NEW layer,
           log' = Append(log, [path |-> p, layer |-> layer]),
           LET k == Len(log) + 1 IN
               /\ k <= Configured => p = Mounts[k] /\ layer = "config"
               /\ k > Configured /\ k <= Confined =>
                    p = Masked[k - Configured] /\ layer = "mask"
               /\ k > Confined => p = Readonly[k - Confined] /\ layer \in {"ro", "mask"}
    PROVE  MountsMade' /\ Len(log') = Len(log) + 1
<1> DEFINE n == Len(log) + 1
<1>1. /\ DOMAIN log' = DOMAIN log \cup {n}
      /\ \A k \in DOMAIN log : log'[k] = log[k]
      /\ log'[n] = [path |-> p, layer |-> layer]
      /\ Len(log') = n
  BY DEF LogOK
<1>2. log'[n].path = p /\ log'[n].layer = layer
  BY <1>1
<1>3. /\ n <= Configured => p = Mounts[n] /\ layer = "config"
      /\ n > Configured /\ n <= Confined => p = Masked[n - Configured] /\ layer = "mask"
      /\ n > Confined => p = Readonly[n - Confined] /\ layer \in {"ro", "mask"}
  OBVIOUS
<1>4. Len(log') = Len(log) + 1
  BY <1>1
<1> HIDE DEF n
<1> QED
  BY <1>1, <1>2, <1>3, <1>4 DEF MountsMade, Configured, Confined

\* Once the mounts are made, and until something is masked, a path that a
\* configured mount holds shows the config's.
LEMMA ConfigShows ==
    ASSUME LogOK, MountsMade, Len(log) = Configured, NEW p,
           \E k \in DOMAIN Mounts : Mounts[k] \in Upto(p)
    PROVE  Visible(p) = "config"
<1>1. PICK m \in DOMAIN Mounts : Mounts[m] \in Upto(p)
  OBVIOUS
<1>2. m \in DOMAIN log /\ m <= Configured
  BY SetupAssumption DEF LogOK, Configured
<1>3. Covering(p) # {}
  BY <1>1, <1>2 DEF MountsMade, Covering, Upto
<1>4. PICK k \in Covering(p) : Visible(p) = log[k].layer
  BY <1>3, VisibleIs
<1>5. k \in DOMAIN log /\ k <= Configured
  BY DEF Covering, LogOK
<1> QED
  BY <1>4, <1>5 DEF MountsMade

\* The spec and its environment are fixed.
LEMMA OptFixed == [SetupNext]_svars => opt' = opt
<1>1. CASE SetHostname \/ ApplyDevices \/ ApplySysctls \/ ApplyLimits
  BY <1>1 DEF SetHostname, ApplyDevices, ApplySysctls, ApplyLimits, BestEffort
<1>2. CASE UsernsCreds \/ Isolate \/ BindRootfs \/ Chroot \/ Private
  BY <1>2 DEF UsernsCreds, Isolate, BindRootfs, Chroot, Private
<1>3. CASE ApplyMounts \/ MaskPaths \/ ReadonlyPaths
  BY <1>3 DEF ApplyMounts, MaskPaths, ReadonlyPaths, EachMount
<1>4. CASE Seal \/ ApplyCreds \/ Execve
  BY <1>4 DEF Seal, ApplyCreds, Execve
<1> QED
  BY <1>1, <1>2, <1>3, <1>4 DEF SetupNext, svars

\* A setup without a failure so far has done all that is behind it.
LEMMA SpecStep ==
    ASSUME SpecInv, opt \in Options, LogOK, Mountpoints, [SetupNext]_svars
    PROVE  SpecInv'
<1> SUFFICES ASSUME ~failed', pc' # "dead"
             PROVE  /\ LoopIndex' /\ Len(log') = Made' /\ MountsMade'
                    /\ AppliedOK' /\ CredsOK'
  BY DEF SpecInv
<1> DEFINE Before == /\ ~failed /\ pc # "dead"
                     /\ LoopIndex /\ Len(log) = Made /\ MountsMade /\ AppliedOK /\ CredsOK
<1>0. Len(log) \in Nat /\ Len(Mounts) \in Nat /\ Len(Masked) \in Nat /\ Len(Readonly) \in Nat
  BY SetupAssumption DEF LogOK
<1>1. ASSUME pc \notin {"mounts", "mask", "readonly"}, UNCHANGED <<i, log>>, pc' = After(pc),
             pc \in BeforeMounts \cup {"devices", "sysctls", "limits", "seal", "creds", "exec"},
             Before
      PROVE  LoopIndex' /\ Len(log') = Made' /\ MountsMade'
  <2>1. i = 1
    BY <1>1 DEF LoopIndex
  <2>2. LoopIndex' /\ Made' = Made
    BY <1>0, <1>1, <2>1, AfterIs
      DEF LoopIndex, Made, BeforeMounts, Configured, Confined, Everything
  <2> QED
    BY <1>1, <2>2 DEF MountsMade, Configured, Confined
<1>2. ASSUME NEW what, NEW fault, NEW works, BestEffort(what, fault, works),
             pc \in {"hostname", "devices", "sysctls", "limits"}
      PROVE  /\ Before /\ UNCHANGED <<i, log>> /\ pc' = After(pc)
             /\ UNCHANGED <<opt, privileged, ids, nnp>>
             /\ works => applied' = applied \cup {what}
  <2>1. /\ ~failed /\ UNCHANGED <<i, log>> /\ pc' = After(pc)
        /\ UNCHANGED <<opt, privileged, ids, nnp>>
        /\ works => applied' = applied \cup {what}
    BY <1>2 DEF BestEffort, Results
  <2> QED
    BY <1>2, <2>1 DEF SpecInv
<1>3. CASE SetHostname
  <2>1. pc = "hostname" /\ BestEffort("hostname", "limit", TRUE)
    BY <1>3 DEF SetHostname
  <2>2. /\ Before /\ UNCHANGED <<i, log>> /\ pc' = "userns"
        /\ UNCHANGED <<opt, privileged, ids, nnp>> /\ applied' = applied \cup {"hostname"}
    BY <1>2, <2>1, AfterIs
  <2>3. LoopIndex' /\ Len(log') = Made' /\ MountsMade'
    BY <1>1, <2>1, <2>2, AfterIs DEF BeforeMounts
  <2> QED
    BY <2>1, <2>2, <2>3 DEF AppliedOK, CredsOK, BeforeMounts, BeforeMask, AfterSeal
<1>4. CASE UsernsCreds \/ Isolate \/ BindRootfs \/ Chroot \/ Private
  <2>1. /\ pc \in {"userns", "isolate", "bindRootfs", "chroot", "private"}
        /\ pc' = After(pc) /\ ~failed
        /\ UNCHANGED <<i, log, opt, privileged, ids, nnp, applied>>
    <3>1. CASE UsernsCreds \/ BindRootfs \/ Chroot
      BY <3>1 DEF UsernsCreds, BindRootfs, Chroot, FatalUnless
    <3>2. CASE Isolate
      BY <3>2 DEF Isolate, MakePrivate
    <3>3. CASE Private
      BY <3>3 DEF Private, MakePrivate
    <3> QED
      BY <1>4, <3>1, <3>2, <3>3
  <2>2. Before
    BY <2>1 DEF SpecInv
  <2>3. LoopIndex' /\ Len(log') = Made' /\ MountsMade'
    BY <1>1, <2>1, <2>2 DEF BeforeMounts
  <2> QED
    BY <2>1, <2>2, <2>3, AfterIs DEF AppliedOK, CredsOK, BeforeMounts, BeforeMask, AfterSeal
<1>5. CASE ApplyDevices
  <2> DEFINE what == IF Visible("/dev") = "config" THEN "devices" ELSE "rootfsDevices"
  <2>1. CASE opt.freshDev
    <3>1. pc = "devices" /\ BestEffort(what, "write", privileged)
      BY <1>5, <2>1 DEF ApplyDevices
    <3>2. /\ Before /\ UNCHANGED <<i, log>> /\ pc' = After(pc)
          /\ UNCHANGED <<opt, privileged, ids, nnp>>
          /\ privileged => applied' = applied \cup {what}
      BY <1>2, <3>1
    <3>3. Len(log) = Configured /\ privileged
      BY <3>1, <3>2 DEF Made, BeforeMounts, CredsOK
    <3>4. \E k \in DOMAIN Mounts : Mounts[k] \in Upto("/dev")
      <4>1. "/dev" \in ToSet(Mounts)
        BY <2>1, SetupAssumption
      <4> QED
        BY <4>1 DEF ToSet, Upto
    <3>5. what = "devices"
      BY <3>2, <3>3, <3>4, ConfigShows
    <3>6. LoopIndex' /\ Len(log') = Made' /\ MountsMade'
      BY <1>1, <3>1, <3>2, AfterIs DEF BeforeMounts
    <3> QED
      BY <2>1, <3>1, <3>2, <3>3, <3>5, <3>6, AfterIs
        DEF AppliedOK, CredsOK, BeforeMounts, BeforeMask, AfterSeal
  <2>2. CASE ~opt.freshDev
    <3>1. /\ pc = "devices" /\ pc' = After(pc) /\ ~failed
          /\ UNCHANGED <<i, log, opt, privileged, ids, nnp, applied>>
      BY <1>5, <2>2 DEF ApplyDevices
    <3>2. Before
      BY <3>1 DEF SpecInv
    <3>3. LoopIndex' /\ Len(log') = Made' /\ MountsMade'
      BY <1>1, <3>1, <3>2, AfterIs DEF BeforeMounts
    <3> QED
      BY <2>2, <3>1, <3>2, <3>3, AfterIs DEF AppliedOK, CredsOK, BeforeMounts, BeforeMask, AfterSeal
  <2> QED
    BY <2>1, <2>2
<1>6. CASE ApplySysctls
  <2>1. pc = "sysctls" /\ BestEffort("sysctls", "write", Visible("/proc/sys") = "config")
    BY <1>6 DEF ApplySysctls
  <2>2. Before /\ UNCHANGED <<i, log>> /\ pc' = "mask" /\ UNCHANGED <<opt, privileged, ids, nnp>>
    BY <1>2, <2>1, AfterIs
  <2>3. Len(log) = Configured
    BY <2>1, <2>2 DEF Made, BeforeMounts
  <2>4. Visible("/proc/sys") = "config"
    BY <2>2, <2>3, ConfigShows DEF Mountpoints
  <2>5. applied' = applied \cup {"sysctls"}
    BY <1>2, <2>1, <2>4
  <2>6. LoopIndex' /\ Len(log') = Made' /\ MountsMade'
    BY <1>1, <2>1, <2>2, AfterIs DEF BeforeMounts
  <2> QED
    BY <2>1, <2>2, <2>5, <2>6 DEF AppliedOK, CredsOK, BeforeMounts, BeforeMask, AfterSeal
<1>7. CASE ApplyLimits
  <2>1. pc = "limits" /\ BestEffort("limits", "limit", privileged)
    BY <1>7 DEF ApplyLimits
  <2>2. Before /\ UNCHANGED <<i, log>> /\ pc' = "seal" /\ UNCHANGED <<opt, privileged, ids, nnp>>
    BY <1>2, <2>1, AfterIs
  <2>3. privileged
    BY <2>1, <2>2 DEF CredsOK
  <2>4. applied' = applied \cup {"limits"}
    BY <1>2, <2>1, <2>3
  <2>5. LoopIndex' /\ Len(log') = Made' /\ MountsMade'
    BY <1>1, <2>1, <2>2, AfterIs DEF BeforeMounts
  <2> QED
    BY <2>1, <2>2, <2>4, <2>5 DEF AppliedOK, CredsOK, BeforeMounts, BeforeMask, AfterSeal
<1>8. CASE Seal \/ Execve
  <2>1. /\ pc \in {"seal", "exec"} /\ pc' = After(pc) /\ ~failed
        /\ UNCHANGED <<i, log, opt, privileged, ids, nnp, applied>>
    BY <1>8 DEF Seal, Execve, FatalUnless
  <2>2. Before
    BY <2>1 DEF SpecInv
  <2>3. LoopIndex' /\ Len(log') = Made' /\ MountsMade'
    BY <1>1, <2>1, <2>2
  <2> QED
    BY <2>1, <2>2, <2>3, AfterIs DEF AppliedOK, CredsOK, BeforeMounts, BeforeMask, AfterSeal
<1>9. CASE ApplyCreds
  <2>1. /\ pc = "creds" /\ pc' = "exec" /\ ~failed
        /\ UNCHANGED <<i, log, opt, applied>> /\ nnp' = opt.noNewPrivs
        /\ opt.capsPresent => ~privileged' /\ (opt.userMapped => ids' = "spec")
    BY <1>9, AfterIs DEF ApplyCreds, Results
  <2>2. Before
    BY <2>1 DEF SpecInv
  <2>3. LoopIndex' /\ Len(log') = Made' /\ MountsMade'
    BY <1>1, <2>1, <2>2, AfterIs
  <2> QED
    BY <2>1, <2>2, <2>3 DEF AppliedOK, CredsOK, BeforeMounts, BeforeMask, AfterSeal
<1>10. ASSUME ApplyMounts \/ MaskPaths \/ ReadonlyPaths
       PROVE  Before /\ AppliedOK' /\ CredsOK'
  <2>1. /\ pc \in {"mounts", "mask", "readonly"} /\ pc' \in {pc, After(pc)}
        /\ ~failed /\ UNCHANGED <<opt, privileged, ids, nnp, applied>>
    BY <1>10, CleanLoop DEF CleanRound
  <2>2. Before
    BY <2>1 DEF SpecInv
  <2> QED
    BY <2>1, <2>2, AfterIs DEF AppliedOK, CredsOK, BeforeMounts, BeforeMask, AfterSeal
<1>11. CASE ApplyMounts
  <2>1. pc = "mounts" /\ CleanRound(Mounts, {"config"})
    BY <1>11, CleanLoop
  <2>2. Before
    BY <1>10, <1>11
  <2>3. i \in Nat \ {0} /\ i <= Len(Mounts) + 1 /\ Len(log) = i - 1
    BY <2>1, <2>2 DEF LoopIndex, Made, BeforeMounts
  <2>4. CASE i > Len(Mounts) /\ i' = 1 /\ pc' = After(pc) /\ log' = log
    <3>1. LoopIndex' /\ Len(log') = Made'
      BY <1>0, <2>3, <2>4, <2>1, AfterIs DEF LoopIndex, Made, BeforeMounts, Configured
    <3> QED
      BY <1>10, <1>11, <2>2, <2>4, <3>1 DEF MountsMade, Configured, Confined
  <2>5. CASE /\ i <= Len(Mounts) /\ i' = i + 1 /\ pc' = pc
             /\ log' = Append(log, [path |-> Mounts[i], layer |-> "config"])
    <3>1. MountsMade' /\ Len(log') = Len(log) + 1
      BY <1>0, <2>2, <2>3, <2>5, NextMount DEF Configured, Confined
    <3>2. LoopIndex' /\ Len(log') = Made'
      BY <1>0, <2>1, <2>3, <2>5, <3>1 DEF LoopIndex, Made, BeforeMounts
    <3> QED
      BY <1>10, <1>11, <3>1, <3>2
  <2> QED
    BY <2>1, <2>4, <2>5 DEF CleanRound
<1>12. CASE MaskPaths
  <2>1. pc = "mask" /\ CleanRound(Masked, {"mask"})
    BY <1>12, CleanLoop
  <2>2. Before
    BY <1>10, <1>12
  <2>3. i \in Nat \ {0} /\ i <= Len(Masked) + 1 /\ Len(log) = Configured + (i - 1)
    BY <2>1, <2>2 DEF LoopIndex, Made, BeforeMounts
  <2>4. CASE i > Len(Masked) /\ i' = 1 /\ pc' = After(pc) /\ log' = log
    <3>1. LoopIndex' /\ Len(log') = Made'
      BY <1>0, <2>3, <2>4, <2>1, AfterIs DEF LoopIndex, Made, BeforeMounts, Configured, Confined
    <3> QED
      BY <1>10, <1>12, <2>2, <2>4, <3>1 DEF MountsMade, Configured, Confined
  <2>5. CASE /\ i <= Len(Masked) /\ i' = i + 1 /\ pc' = pc
             /\ log' = Append(log, [path |-> Masked[i], layer |-> "mask"])
    <3>1. MountsMade' /\ Len(log') = Len(log) + 1
      <4>1. /\ Len(log) + 1 > Configured /\ Len(log) + 1 <= Confined
            /\ Len(log) + 1 - Configured = i
        BY <1>0, <2>3, <2>5 DEF Configured, Confined
      <4> QED
        BY <1>0, <2>2, <2>5, <4>1, NextMount DEF Configured, Confined
    <3>2. LoopIndex' /\ Len(log') = Made'
      BY <1>0, <2>1, <2>3, <2>5, <3>1 DEF LoopIndex, Made, BeforeMounts, Configured
    <3> QED
      BY <1>10, <1>12, <3>1, <3>2
  <2> QED
    BY <2>1, <2>4, <2>5 DEF CleanRound
<1>13. CASE ReadonlyPaths
  <2>1. pc = "readonly" /\ CleanRound(Readonly, {"ro", "mask"})
    BY <1>13, CleanLoop
  <2>2. Before
    BY <1>10, <1>13
  <2>3. i \in Nat \ {0} /\ i <= Len(Readonly) + 1 /\ Len(log) = Confined + (i - 1)
    BY <2>1, <2>2 DEF LoopIndex, Made, BeforeMounts
  <2>4. CASE i > Len(Readonly) /\ i' = 1 /\ pc' = After(pc) /\ log' = log
    <3>1. LoopIndex' /\ Len(log') = Made'
      BY <1>0, <2>3, <2>4, <2>1, AfterIs DEF LoopIndex, Made, BeforeMounts, Confined, Everything
    <3> QED
      BY <1>10, <1>13, <2>2, <2>4, <3>1 DEF MountsMade, Configured, Confined
  <2>5. ASSUME i <= Len(Readonly), i' = i + 1, pc' = pc, NEW layer \in {"ro", "mask"},
               log' = Append(log, [path |-> Readonly[i], layer |-> layer])
        PROVE  LoopIndex' /\ Len(log') = Made' /\ MountsMade'
    <3>1. MountsMade' /\ Len(log') = Len(log) + 1
      <4>1. Len(log) + 1 > Confined /\ Len(log) + 1 - Confined = i /\ Confined >= Configured
        BY <1>0, <2>3, <2>5 DEF Configured, Confined
      <4> QED
        BY <1>0, <2>2, <2>5, <4>1, NextMount DEF Configured, Confined
    <3>2. LoopIndex' /\ Len(log') = Made'
      BY <1>0, <2>1, <2>3, <2>5, <3>1 DEF LoopIndex, Made, BeforeMounts, Confined
    <3> QED
      BY <3>1, <3>2
  <2> QED
    BY <1>10, <1>13, <2>1, <2>4, <2>5 DEF CleanRound
<1>14. CASE UNCHANGED svars
  BY <1>14 DEF svars, SpecInv, LoopIndex, Made, MountsMade, AppliedOK, CredsOK
<1> QED
  BY <1>3, <1>4, <1>5, <1>6, <1>7, <1>8, <1>9, <1>11, <1>12, <1>13, <1>14 DEF SetupNext

\* When no call failed the program starts with the whole of its spec in force,
\* if the config mounts /proc (for the sysctls) and no read-only path lies above
\* a masked one; device nodes are made where the code makes any, for a config
\* with a tmpfs on /dev.
THEOREM SpecEnforced ==
    ASSUME PathTree, MasksBelowNone, Mountpoints
    PROVE  SetupSpec => []SpecInForce
<1>1. SetupInit => SpecInv
  <2> SUFFICES ASSUME SetupInit
               PROVE  SpecInv
    OBVIOUS
  <2>1. pc = "hostname" /\ i = 1 /\ log = <<>> /\ applied = {} /\ privileged
    BY OrderItems DEF SetupInit
  <2> QED
    BY <2>1 DEF SpecInv, LoopIndex, Made, MountsMade, AppliedOK, CredsOK, BeforeMounts,
                BeforeMask, AfterSeal
<1>2. MaskInv /\ opt \in Options /\ SpecInv /\ [SetupNext]_svars => SpecInv' /\ (opt \in Options)'
  BY SpecStep, OptFixed DEF MaskInv
<1>4. SetupInit => opt \in Options
  BY DEF SetupInit
<1>3. MaskInv /\ SpecInv => SpecInForce
  <2> SUFFICES ASSUME MaskInv, SpecInv, pc = "program", ~failed
               PROVE  SpecInForce
    BY DEF SpecInForce
  <2>1. Len(log) = Everything /\ MountsMade /\ AppliedOK /\ CredsOK
    BY DEF SpecInv, Made, BeforeMounts
  <2>2. /\ Len(log) \in Nat /\ DOMAIN log = 1 .. Len(log)
        /\ Len(Mounts) \in Nat /\ Len(Masked) \in Nat /\ Len(Readonly) \in Nat
    BY SetupAssumption DEF MaskInv, LogOK
  <2>3. ASSUME NEW k \in DOMAIN Masked
        PROVE  Visible(Masked[k]) = "mask"
    <3>1. Masked[k] \in Paths /\ k \in 1 .. Len(Masked)
      BY SetupAssumption
    <3>2. PICK h \in DOMAIN log : h = Configured + k
      BY <2>1, <2>2, <3>1 DEF Configured, Everything
    <3>3. h > Configured /\ h <= Confined /\ h - Configured = k
      BY <2>2, <3>1, <3>2 DEF Configured, Confined
    <3>4. IsMask(h) /\ log[h].path = Masked[k]
      BY <2>1, <3>3 DEF MountsMade, IsMask
    <3> QED
      BY <3>1, <3>4, MaskShows DEF MaskInv, Upto
  <2>4. ASSUME NEW k \in DOMAIN Readonly
        PROVE  Visible(Readonly[k]) \in {"ro", "mask"}
    <3>1. k \in 1 .. Len(Readonly)
      BY SetupAssumption
    <3>2. PICK h \in DOMAIN log : h = Confined + k
      BY <2>1, <2>2, <3>1 DEF Confined, Everything
    <3>3. h > Confined /\ h - Confined = k
      BY <2>2, <3>1, <3>2 DEF Confined
    <3>4. h \in Covering(Readonly[k])
      BY <2>1, <3>3 DEF MountsMade, Covering
    <3>5. PICK g \in Covering(Readonly[k]) :
            /\ \A j \in Covering(Readonly[k]) : j <= g
            /\ Visible(Readonly[k]) = log[g].layer
      BY <3>4, VisibleIs DEF MaskInv
    <3>6. g \in DOMAIN log /\ g > Confined
      <4>1. g \in DOMAIN log /\ h <= g
        BY <3>4, <3>5 DEF Covering
      <4> QED
        BY <2>2, <3>3, <4>1 DEF Confined
    <3> QED
      BY <2>1, <3>5, <3>6 DEF MountsMade
  <2>5. applied = {"hostname", "sysctls", "limits"} \cup (IF opt.freshDev THEN {"devices"} ELSE {})
    BY <2>1 DEF AppliedOK, BeforeMounts, BeforeMask, AfterSeal
  <2> QED
    BY <2>1, <2>3, <2>4, <2>5 DEF SpecInForce, CredsOK, Everything
<1> QED
  BY <1>1, <1>2, <1>3, <1>4, MaskInvariance, PTL DEF SetupSpec
=============================================================================
