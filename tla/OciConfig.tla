------------------------------ MODULE OciConfig ------------------------------
(***************************************************************************)
(* How a bundle's config.json comes into force: `create` finds the program *)
(* on PATH, krunc-oci refuses the config or translates it to a DomainSpec, *)
(* the spec crosses into krunc.ko (SpecCodec), the CLI writes the limits   *)
(* to a cgroup, and the init performs the mounts and the sysctls.          *)
(*                                                                         *)
(* A string is a sequence of cells, each a character or a whole word that  *)
(* the code only ever compares; an optional value is a sequence of one or  *)
(* none.  A refused config ends the command before /dev/krunc is opened,   *)
(* whatever the error.                                                     *)
(***************************************************************************)
EXTENDS SpecCodec

CONSTANTS
    Configs,    \* the parsed config.json documents considered
    Bundle,     \* the bundle directory, an absolute path
    Programs,   \* <<d, p>>: directory d of the rootfs holds program p
    Kernels,    \* the sets of controllers that a container's cgroup may get
    MaxShares,  \* 262144, the most cpu shares
    MaxWeight,  \* 10000, the most cpu weight
    MaxQuota    \* 2^44 - 1, the most microseconds of cpu quota the kernel takes

VARIABLES
    cfg,       \* OciConfig, as parsed
    present,   \* the controllers the container's cgroup gets from the kernel
    limits,    \* the limit files written in the container's cgroup, in order
    cgroup,    \* "none", "nodir" or "failed" (create), "unplaced" or "placed"
    mounted,   \* the krunc_mount calls of apply_mounts, in order
    written,   \* the krunc_write_file calls of apply_sysctls, in order
    lost       \* the sysctl entries for which there was no memory

ociVars == <<cfg, present, limits, cgroup, mounted, written, lost>>

allVars == <<codecVars, ociVars>>

\* Characters, ordered as their codes are, and the words the code looks for.
NUL == 25
NEWLINE == 26
DOT == 30
SLASH == 31
COLON == 32
EQUALS == 33
FS == 40
KERNEL == 41
KRUNC == 48
MQUEUE == 42
MSG == 43
NET == 44
PATH == 45
SEM == 46
SHM == 47

Str == Seq(Nat)
Opt(S) == {o \in Seq(S) : Len(o) <= 1}

\* The structures of OciConfig, as one flat record: process, root and linux with
\* what is below them.  "absent" names the objects that are missing and "extra"
\* the keys that no structure models; "joins" in a namespace is its path; "caps"
\* is the five sets in the order of the structure, or none.
Config == [
    absent : SUBSET {"process", "root"}, extra : SUBSET STRING, terminal : BOOLEAN,
    args : Seq(Str), env : Seq(Str), cwd : Str, rootPath : Str, hostname : Str,
    uid : Nat, gid : Nat, moreGids : SUBSET Nat,
    caps : {c \in Seq(Seq(STRING)) : Len(c) \in {0, 5}},
    rlimits : Seq([type : STRING, soft : Nat, hard : Nat]),
    oomScoreAdj : Opt((-HalfWord)..(HalfWord - 1)),
    noNewPrivs : BOOLEAN, readonly : BOOLEAN,
    namespaces : Seq([type : STRING, joins : BOOLEAN]),
    uidMaps : Seq(Nat \X Nat \X Nat), gidMaps : Seq(Nat \X Nat \X Nat),
    masked : Seq(Str), readonlyPaths : Seq(Str),
    sysctl : SUBSET [name : Str, value : Str],
    pids : Opt(Int), memory : Opt(Int), quota : Opt(Int), period : Opt(Nat), shares : Opt(Nat),
    mounts : Seq([dest : Str, type : Str, source : Str, options : Seq(STRING)])]

ASSUME ConfigAssumption ==
    /\ Configs \subseteq Config
    /\ \A c \in Configs : IsFiniteSet(c.sysctl)
    /\ Bundle \in Str /\ Bundle # <<>> /\ Bundle[1] = SLASH
    /\ MaxShares \in Nat /\ MaxShares > 2
    /\ MaxWeight \in Nat /\ MaxWeight > 1
    /\ MaxQuota \in Nat

-----------------------------------------------------------------------------
(* create_from_bundle: prepare_rootfs.                                     *)

\* The directories of the first PATH entry of the environment, with the colons
\* between them, or the default.
DefaultPath == <<50, 51, 52, 53, 54, 55>>

SearchPath(env) ==
    LET k == SelectInSeq(env, LAMBDA e : IsPrefix(<<PATH, EQUALS>>, e))
    IN IF k = 0 THEN DefaultPath
       ELSE SubSeq(env[k], 3, Len(env[k]))

\* The program as execve gets it: a bare name is looked up on the path.
Resolve(arg0, env) ==
    LET dirs == SearchPath(env)
        k == SelectInSeq(dirs, LAMBDA d : d # COLON /\ <<d, arg0>> \in Programs)
    IN IF SLASH \in ToSet(arg0) \/ k = 0 THEN arg0 ELSE <<dirs[k], SLASH>> \o arg0

PreparedArgs(c) ==
    [k \in DOMAIN c.args |-> IF k = 1 THEN Resolve(c.args[1], c.env) ELSE c.args[k]]

-----------------------------------------------------------------------------
(* krunc-oci: the tables of config_to_spec.                                *)

\* ns_flag, the CLONE_NEW* bits numbered from 0.
NsBit == [pid |-> 0, mount |-> 1, network |-> 2, ipc |-> 3, uts |-> 4, user |-> 5, cgroup |-> 6]

CAPS ==
    <<"CHOWN", "DAC_OVERRIDE", "DAC_READ_SEARCH", "FOWNER", "FSETID", "KILL", "SETGID",
      "SETUID", "SETPCAP", "LINUX_IMMUTABLE", "NET_BIND_SERVICE", "NET_BROADCAST", "NET_ADMIN",
      "NET_RAW", "IPC_LOCK", "IPC_OWNER", "SYS_MODULE", "SYS_RAWIO", "SYS_CHROOT",
      "SYS_PTRACE", "SYS_PACCT", "SYS_ADMIN", "SYS_BOOT", "SYS_NICE", "SYS_RESOURCE",
      "SYS_TIME", "SYS_TTY_CONFIG", "MKNOD", "LEASE", "AUDIT_WRITE", "AUDIT_CONTROL",
      "SETFCAP", "MAC_OVERRIDE", "MAC_ADMIN", "SYSLOG", "WAKE_ALARM", "BLOCK_SUSPEND",
      "AUDIT_READ", "PERFMON", "BPF", "CHECKPOINT_RESTORE">>

RLIMITTYPES ==
    <<"CPU", "FSIZE", "DATA", "STACK", "CORE", "RSS", "NPROC", "NOFILE", "MEMLOCK", "AS",
      "LOCKS", "SIGPENDING", "MSGQUEUE", "NICE", "RTPRIO", "RTTIME">>

\* The number of a name in one of these tables, from 0; -1 if it is unknown.
Number(table, name) == SelectInSeq(table, LAMBDA n : n = name) - 1

\* A u64 with the given bits, from the highest down.
Mask(bits) ==
    LET high[k \in 0..64] ==
            IF k = 0 THEN 0 ELSE 2 * high[k - 1] + (IF 64 - k \in bits THEN 1 ELSE 0)
    IN high[64]

\* Bit b of a mask: what is lowest after b shifts to the right.
Bit(mask, b) ==
    LET shifted[k \in 0..b] == IF k = 0 THEN mask ELSE shifted[k - 1] \div 2
    IN shifted[b] % 2 = 1

caps_to_mask(names) == Mask({Number(CAPS, n) : n \in ToSet(names)})

\* mount_flags: the bits of MS_RDONLY and so on that an option sets or clears.
RDONLY == 0
REMOUNT == 5
BIND == 12
REC == 14

OptionSets ==
    [ro |-> {RDONLY}, nosuid |-> {1}, nodev |-> {2}, noexec |-> {3}, sync |-> {4},
     remount |-> {REMOUNT}, dirsync |-> {7}, noatime |-> {10}, nodiratime |-> {11},
     bind |-> {BIND}, rbind |-> {BIND, REC}, relatime |-> {21}, iversion |-> {23},
     strictatime |-> {24}, lazytime |-> {25}, defaults |-> {}]

OptionClears ==
    [rw |-> {RDONLY}, suid |-> {1}, dev |-> {2}, exec |-> {3}, async |-> {4}, atime |-> {10},
     diratime |-> {11}, loud |-> {15}, norelatime |-> {21}, noiversion |-> {23},
     nostrictatime |-> {24}, nolazytime |-> {25}]

\* check_mount_options.
MountOptions == DOMAIN OptionSets \cup DOMAIN OptionClears

Sets(o) == IF o \in DOMAIN OptionSets THEN OptionSets[o] ELSE {}

Clears(o) == IF o \in DOMAIN OptionClears THEN OptionClears[o] ELSE {}

\* Mutant: an option that clears a flag is taken for one that sets none.
mount_flags_sticky(options) == UNION {Sets(options[k]) : k \in DOMAIN options}

\* The flags as a set of bits; later options override earlier ones.
mount_flags(options) ==
    LET flags[k \in 0..Len(options)] ==
            IF k = 0 THEN {} ELSE (flags[k - 1] \ Clears(options[k])) \cup Sets(options[k])
    IN flags[Len(options)]

-----------------------------------------------------------------------------
(* krunc-oci: linux.sysctl.                                                *)

\* Mutant: owning one of the two namespaces is taken for owning both.
sysctl_namespaced_any(name, ipc, net) ==
    \/ IsPrefix(<<NET, DOT>>, name) /\ (ipc \/ net)
    \/ IsPrefix(<<KERNEL, DOT, SHM>>, name) /\ (ipc \/ net)

\* sysctl_namespaced.
sysctl_namespaced(name, ipc, net) ==
    IF IsPrefix(<<NET, DOT>>, name) THEN net
    ELSE /\ ipc
         /\ \/ name = <<KERNEL, DOT, SEM>>
            \/ IsPrefix(<<KERNEL, DOT, SHM>>, name)
            \/ IsPrefix(<<KERNEL, DOT, MSG>>, name)
            \/ IsPrefix(<<FS, DOT, MQUEUE, DOT>>, name)

\* sysctl_relpath: '.' becomes '/'; words and the characters of a name only,
\* and no empty component ("..", too, would leave one).
RelpathOf(name) == ReplaceAll(name, DOT, SLASH)

RelpathOk(name) ==
    LET rel == RelpathOf(name)
    IN /\ name # <<>>
       /\ \A k \in DOMAIN name : name[k] \in {DOT, SLASH} \/ name[k] >= FS
       /\ rel[1] # SLASH /\ rel[Len(rel)] # SLASH
       /\ \A k \in 1..(Len(rel) - 1) : ~(rel[k] = SLASH /\ rel[k + 1] = SLASH)

\* sysctl_value.
ValueOk(value) == {NUL, NEWLINE} \cap ToSet(value) = {}

\* The order of strings: by the first cell that differs, a prefix first.
Before(a, b) ==
    \E k \in 0..Len(a) :
        /\ IsPrefix(SubSeq(a, 1, k), b)
        /\ k < Len(b)
        /\ k = Len(a) \/ a[k + 1] < b[k + 1]

\* (path, value) pairs compare by path, then by value.
SysctlLess(s, t) ==
    LET p == RelpathOf(s.name)
        q == RelpathOf(t.name)
    IN Before(p, q) \/ (p = q /\ Before(s.value, t.value))

\* The entries "<path>=<value>", sorted.
Sysctls(c) ==
    LET sorted == CHOOSE q \in SetToSeqs(c.sysctl) :
                    \A i, j \in DOMAIN q : i < j => ~SysctlLess(q[j], q[i])
    IN [k \in DOMAIN sorted |-> <<RelpathOf(sorted[k].name) \o <<EQUALS>> \o sorted[k].value>>]

-----------------------------------------------------------------------------
(* krunc-oci: config_to_spec.                                              *)

NsTypes(c) == {c.namespaces[k].type : k \in DOMAIN c.namespaces}

MountSpec(m) ==
    LET flags == mount_flags(m.options)
    IN <<m.dest, IF BIND \in flags THEN <<>> ELSE m.type, m.source, Mask(flags)>>

Rlimit(r) == <<Number(RLIMITTYPES, r.type), r.soft, r.hard>>

resolve_rootfs(path) == IF path[1] = SLASH THEN path ELSE Bundle \o <<SLASH>> \o path

\* The entries of a list of strings.
StrVec(list) == [k \in DOMAIN list |-> <<list[k]>>]

\* The five capability sets in the order of the config, if it manages them.
CapMasks(c) == [k \in DOMAIN c.caps |-> caps_to_mask(c.caps[k])]

\* Mutant: the permitted set is taken for the effective one.
CapSetsSwapped(c) ==
    IF c.caps = <<>> THEN Default(CAPSETS)
    ELSE LET m == CapMasks(c) IN <<m[3], m[2], m[4], m[5]>>

CapSets(c) ==
    IF c.caps = <<>> THEN Default(CAPSETS)
    ELSE LET m == CapMasks(c) IN <<m[2], m[3], m[4], m[5]>>

SpecOf(c) ==
    [t \in Tags |->
        CASE t = ROOTFS -> resolve_rootfs(c.rootPath)
          [] t = HOSTNAME -> c.hostname
          [] t = ARGV -> StrVec(PreparedArgs(c))
          [] t = ENV -> StrVec(c.env)
          [] t = NAMESPACES -> <<Mask({NsBit[n] : n \in NsTypes(c)})>>
          [] t = UIDMAPS -> c.uidMaps
          [] t = GIDMAPS -> c.gidMaps
          [] t = FLAGS -> <<(IF c.noNewPrivs THEN 1 ELSE 0) + (IF c.readonly THEN 2 ELSE 0)>>
          [] t = CAPBOUNDING -> IF c.caps = <<>> THEN <<>> ELSE <<CapMasks(c)[1]>>
          [] t = CAPSETS -> CapSets(c)
          [] t = MASKEDPATHS -> StrVec(c.masked)
          [] t = ROPATHS -> StrVec(c.readonlyPaths)
          [] t = RLIMITS -> [k \in DOMAIN c.rlimits |-> Rlimit(c.rlimits[k])]
          [] t = OOMSCOREADJ -> c.oomScoreAdj
          [] t = USER -> <<c.uid, c.gid>>
          [] t = MOUNTS -> [k \in DOMAIN c.mounts |-> MountSpec(c.mounts[k])]
          [] t = SYSCTLS -> Sysctls(c)]

\* The errors of parse_config and config_to_spec: something required is absent,
\* a property cannot be applied, a name is unknown, an ABI bound is exceeded.
Rejected(c) ==
    \/ c.absent # {} \/ c.args = <<>> \/ c.rootPath = <<>>
    \/ c.terminal \/ c.cwd \notin {<<>>, <<SLASH>>} \/ c.moreGids # {} \/ c.extra # {}
    \/ \E k \in DOMAIN c.namespaces :
            c.namespaces[k].joins \/ c.namespaces[k].type \notin DOMAIN NsBit
    \/ c.uidMaps \o c.gidMaps # <<>> /\ "user" \notin NsTypes(c)
    \/ \E m \in ToSet(c.uidMaps \o c.gidMaps) : m[3] = 0
    \/ \E s \in c.sysctl :
            \/ ~sysctl_namespaced(s.name, "ipc" \in NsTypes(c), "network" \in NsTypes(c))
            \/ ~RelpathOk(s.name)
            \/ ~ValueOk(s.value)
    \/ \E k \in DOMAIN c.caps : \E n \in ToSet(c.caps[k]) : n \notin ToSet(CAPS)
    \/ \E r \in ToSet(c.rlimits) : r.type \notin ToSet(RLIMITTYPES)
    \/ \E m \in ToSet(c.mounts) : ~(ToSet(m.options) \subseteq MountOptions)
    \/ ~Valid(SpecOf(c))

\* create, up to the ioctl.
Translate ==
    /\ pc = "config"
    /\ IF Rejected(cfg)
       THEN pc' = "rejected" /\ UNCHANGED spec
       ELSE pc' = "encode" /\ spec' = SpecOf(cfg)
    /\ UNCHANGED <<sent, buf, pos, left, seen, out, ociVars>>

\* create_from_blob: what spawn is given for the decoded spec d.  An empty
\* hostname is the default one's, and a spec without namespaces has ALL_NS.
ALLNS == {"pid", "mount", "network", "ipc", "uts"}

Spawned(d) ==
    [d EXCEPT ![HOSTNAME] = IF @ = <<>> THEN <<KRUNC>> ELSE @,
              ![NAMESPACES] = IF @ = <<0>> THEN <<Mask({NsBit[t] : t \in ALLNS})>> ELSE @]

-----------------------------------------------------------------------------
(* The CLI's cgroup.                                                       *)

\* In microseconds: cpu.period's default and bounds; a quota has the lower one.
\* The kernel's PIDS_MAX is one more than MAXPIDS.
MAXPIDS == 4194304
DEFAULTPERIOD == 100000
MINPERIOD == 1000
MAXPERIOD == 1000000

Clamp(x, lo, hi) == IF x < lo THEN lo ELSE IF x > hi THEN hi ELSE x

\* shares_to_weight, for shares other than 0.
SharesToWeight(shares) ==
    Clamp(1 + ((Clamp(shares, 2, MaxShares) - 2) * (MaxWeight - 1)) \div (MaxShares - 2),
          1, MaxWeight)

\* cgroup_config: the limit files to write, in the order Cgroup::create does.
cgroup_config(c) ==
    LET period == IF c.period = <<>> THEN <<DEFAULTPERIOD>> ELSE c.period
        file(name, controller, isSet, value) ==
            IF isSet THEN <<[file |-> name, of |-> controller, value |-> value]>> ELSE <<>>
    IN file("pids.max", "pids", c.pids # <<>>, c.pids)
       \o file("memory.max", "memory", \E k \in DOMAIN c.memory : c.memory[k] >= 0, c.memory)
       \o file("cpu.max", "cpu", \E k \in DOMAIN c.quota : c.quota[k] > 0, c.quota \o period)
       \o file("cpu.weight", "cpu", c.shares \notin {<<>>, <<0>>},
               [k \in DOMAIN c.shares |-> SharesToWeight(c.shares[k])])

\* What the kernel takes: the file of a controller the cgroup has, and a value
\* in range.  (No config has a quota or period whose nanoseconds overflow.)
KernelTakes(l) ==
    /\ l.of \in present
    /\ CASE l.file = "pids.max" -> l.value[1] \in 0..MAXPIDS
         [] l.file = "memory.max" -> TRUE
         [] l.file = "cpu.max" ->
                l.value[1] \in MINPERIOD..MaxQuota /\ l.value[2] \in MINPERIOD..MAXPERIOD
         [] l.file = "cpu.weight" -> l.value[1] \in 1..MaxWeight

\* Mutant: a limit the kernel does not take is passed over.
CgroupCreateLenient(wanted) ==
    /\ limits' = SelectSeq(wanted, KernelTakes)
    /\ cgroup' \in IF wanted = <<>> THEN {"none"} ELSE {"placed", "unplaced"}

\* The writes, up to the first that fails.
LimitsWritten(wanted) ==
    LET bad == SelectInSeq(wanted, LAMBDA l : ~KernelTakes(l))
    IN /\ limits' = IF bad = 0 THEN wanted ELSE SubSeq(wanted, 1, bad - 1)
       /\ cgroup' \in IF bad # 0 THEN {"failed"} ELSE {"placed", "unplaced"}

\* Cgroup::create and place: a directory that cannot be made or a write that
\* fails ends the set-up, with a warning, and the init is not moved; a move that
\* fails is a warning too.
CgroupCreate(wanted) ==
    \/ wanted = <<>> /\ limits' = <<>> /\ cgroup' = "none"
    \/ wanted # <<>> /\ limits' = <<>> /\ cgroup' = "nodir"
    \/ wanted # <<>> /\ LimitsWritten(wanted)

\* The CLI goes on when its ioctl returns; a changed buffer was not its own.
SetLimits ==
    /\ pc = "spawn"
    /\ buf = sent
    /\ pc' = "created"
    /\ CgroupCreate(cgroup_config(cfg))
    /\ UNCHANGED <<spec, sent, buf, pos, left, seen, out, cfg, present, mounted, written, lost>>

-----------------------------------------------------------------------------
(* The init, after start.                                                  *)

\* apply_mounts: one krunc_mount call for each mount with a destination.
apply_mounts(mounts) ==
    FlattenSeq([k \in DOMAIN mounts |-> IF mounts[k][1] = <<>> THEN <<>> ELSE <<mounts[k]>>])

\* apply_sysctls on one entry: the first '=' splits it.
SysctlWrite(entry) ==
    LET eq == SelectInSeq(entry, LAMBDA ch : ch = EQUALS)
    IN <<SubSeq(entry, 1, eq - 1), SubSeq(entry, eq + 1, Len(entry))>>

\* apply_sysctls: one krunc_write_file call for each entry that has a '=' and
\* whose path could be built.
apply_sysctls(sysctls, failing) ==
    FlattenSeq([k \in DOMAIN sysctls |->
        IF k \in failing \/ EQUALS \notin ToSet(sysctls[k][1]) THEN <<>>
        ELSE <<SysctlWrite(sysctls[k][1])>>])

\* container_entry: the mounts in order, then the sysctls.
Apply ==
    /\ pc = "created"
    /\ pc' = "applied"
    /\ mounted' = apply_mounts(out[MOUNTS])
    /\ lost' \in SUBSET DOMAIN out[SYSCTLS]
    /\ written' = apply_sysctls(out[SYSCTLS], lost')
    /\ UNCHANGED <<spec, sent, buf, pos, left, seen, out, cfg, present, limits, cgroup>>

OciInit ==
    /\ cfg \in Configs
    /\ present \in Kernels
    /\ pc = "config"
    /\ spec = DefaultSpec
    /\ WireInit
    /\ limits = <<>>
    /\ cgroup = "none"
    /\ mounted = <<>>
    /\ written = <<>>
    /\ lost = {}

OciNext ==
    \/ Translate
    \/ CodecNext /\ UNCHANGED ociVars
    \/ SetLimits
    \/ Apply

OciSpec == OciInit /\ [][OciNext]_allVars

-----------------------------------------------------------------------------
(* Properties.                                                             *)

Strs(vec) == [k \in DOMAIN vec |-> vec[k][1]]

\* Capability set k of the config is the mask.
SameCaps(k, mask) ==
    \A b \in 0..(Len(CAPS) - 1) :
        (CAPS[b + 1] \in ToSet(cfg.caps[k])) = Bit(mask, b)

\* The program a search of the path in the rootfs finds.
Program ==
    LET arg0 == cfg.args[1]
        path == SearchPath(cfg.env)
        has == {k \in DOMAIN path : path[k] # COLON /\ <<path[k], arg0>> \in Programs}
    IN IF SLASH \in ToSet(arg0) \/ has = {} THEN arg0 ELSE <<path[Min(has)], SLASH>> \o arg0

\* The namespaces of its own that a container gets: those of its config, or the
\* default if it names none.
OwnNamespaces == IF cfg.namespaces = <<>> THEN ALLNS ELSE NsTypes(cfg)

\* What the module clones the init with.
Given == Spawned(out)

\* What spawn is given is what the config asks for, with a hostname and
\* namespaces in any case.
Carried ==
    /\ cfg.absent \cup cfg.extra \cup cfg.moreGids = {} /\ ~cfg.terminal
    /\ Given[ROOTFS][1] = SLASH /\ IsSuffix(cfg.rootPath, Given[ROOTFS])
    /\ Given[HOSTNAME] = (IF cfg.hostname = <<>> THEN <<KRUNC>> ELSE cfg.hostname)
    /\ Strs(Given[ARGV]) = <<Program>> \o Tail(cfg.args)
    /\ Strs(Given[ENV]) = cfg.env
    /\ \A t \in DOMAIN NsBit : Bit(Given[NAMESPACES][1], NsBit[t]) <=> t \in OwnNamespaces
    /\ Bit(Given[FLAGS][1], 0) = cfg.noNewPrivs /\ Bit(Given[FLAGS][1], 1) = cfg.readonly
    /\ (Given[CAPBOUNDING] = <<>>) = (cfg.caps = <<>>)
    /\ cfg.caps # <<>> =>
            /\ SameCaps(1, Given[CAPBOUNDING][1])
            /\ \A k \in 2..5 : SameCaps(k, Given[CAPSETS][k - 1])
    /\ Strs(Given[MASKEDPATHS]) = cfg.masked /\ Strs(Given[ROPATHS]) = cfg.readonlyPaths
    /\ Len(Given[RLIMITS]) = Len(cfg.rlimits)
    /\ \A k \in DOMAIN cfg.rlimits :
            /\ RLIMITTYPES[Given[RLIMITS][k][1] + 1] = cfg.rlimits[k].type
            /\ Tail(Given[RLIMITS][k]) = <<cfg.rlimits[k].soft, cfg.rlimits[k].hard>>
    /\ Given[OOMSCOREADJ] = cfg.oomScoreAdj /\ Given[USER] = <<cfg.uid, cfg.gid>>

\* A container is spawned only from a config all of whose process and linux
\* properties reach spawn as the config states them: config_to_spec, the codec
\* and create_from_blob lose, swap and invent none, but for the default hostname
\* and namespaces of a config that has none, and a bare args[0] is the program
\* PATH leads to (lists within the module's limits).
ConfigCarried == pc = "spawn" /\ buf = sent /\ WithinLimits(spec) => Carried

\* The kernel namespace that a path below /proc/sys belongs to.
OwnerOf(path) ==
    IF path[1] = NET THEN "network"
    ELSE IF \/ Len(path) > 2 /\ path[1] = KERNEL /\ path[3] \in {SEM, SHM, MSG}
            \/ Len(path) > 4 /\ SubSeq(path, 1, 3) = <<FS, SLASH, MQUEUE>>
    THEN "ipc" ELSE "host"

\* The init writes exactly the sysctls of the config, under the names that have
\* '/' for '.', but for those it had no memory for; and each of them belongs to
\* a namespace the container has of its own, so that the host's keep their
\* values although the writer is privileged.
SysctlsExact ==
    /\ \A k \in DOMAIN written :
            /\ \E n \in ToSet(cfg.namespaces) : n.type = OwnerOf(written[k][1])
            /\ \E s \in cfg.sysctl :
                    written[k] = <<[j \in DOMAIN s.name |->
                                        IF s.name[j] = DOT THEN SLASH ELSE s.name[j]], s.value>>
    /\ pc = "applied" /\ WithinLimits(spec) => Len(written) + Cardinality(lost) = Cardinality(cfg.sysctl)

\* The flags options ask for: those some option sets and no later one clears.
Asked(options) ==
    {b \in 0..25 : \E k \in DOMAIN options :
        b \in Sets(options[k]) /\ \A j \in DOMAIN options : j > k => b \notin Clears(options[j])}

\* The flags that take effect in path_mount: a bind mount takes none but MS_REC
\* from its call, unless it changes a mount that is there.
InForce(mask) ==
    LET flags == {b \in 0..25 : Bit(mask, b)}
    IN IF BIND \in flags /\ REMOUNT \notin flags THEN flags \cap {BIND, REC} ELSE flags

\* The mounts performed are those of the config that have a destination, in its
\* order, each with the flags asked for; Exempt(m) excuses the flags of m.
MountsMatch(Exempt(_)) ==
    LET placed == {k \in DOMAIN cfg.mounts : cfg.mounts[k].dest # <<>>}
        Call(k) == mounted[Cardinality({j \in placed : j <= k})]
    IN /\ Len(mounted) = Cardinality(placed)
       /\ \A k \in placed :
            LET m == cfg.mounts[k]
                asked == Asked(m.options)
            IN /\ Call(k)[1] = m.dest
               /\ Call(k)[3] = m.source
               /\ Call(k)[2] = IF BIND \in asked THEN <<>> ELSE m.type
               /\ InForce(Call(k)[4]) = asked \/ Exempt(m)

\* A bind mount that is not a remount.
NewBind(m) == BIND \in Asked(m.options) /\ REMOUNT \notin Asked(m.options)

\* The init performs the mounts of the config and no others, in its order and
\* with its flags, the last of two options that contradict each other winning;
\* only the flags of a new bind mount are not seen to.
MountsAsAsked ==
    pc = "applied" /\ WithinLimits(spec) => MountsMatch(NewBind)

\* Every mount has the flags its options ask for: check_mount_options promises
\* that an option krunc does not apply is refused.
MountFlagsInForce ==
    pc = "applied" /\ WithinLimits(spec) => MountsMatch(LAMBDA m : FALSE)

\* The limits a config sets.
LimitFiles ==
    {f \in {"pids.max", "memory.max", "cpu.max", "cpu.weight"} :
        CASE f = "pids.max" -> cfg.pids # <<>>
          [] f = "memory.max" -> cfg.memory # <<>> /\ cfg.memory[1] >= 0
          [] f = "cpu.max" -> cfg.quota # <<>> /\ cfg.quota[1] > 0
          [] f = "cpu.weight" -> cfg.shares # <<>> /\ cfg.shares[1] # 0}

\* An init that has been moved to the container's cgroup is under every limit
\* of the config; it is left outside only if the directory could not be made, a
\* controller is missing, pids.limit, the cpu quota or the period is out of the
\* kernel's range, or the move failed: shares always map to a weight in range.
LimitsKept ==
    pc \in {"created", "applied"} =>
        /\ cgroup = "placed" => {limits[k].file : k \in DOMAIN limits} = LimitFiles
        /\ cgroup = "none" <=> LimitFiles = {}
        /\ cgroup = "failed" =>
                \/ ~({"pids", "memory", "cpu"} \subseteq present)
                \/ cfg.pids # <<>> /\ cfg.pids[1] \notin 0..MAXPIDS
                \/ "cpu.max" \in LimitFiles /\
                        ~(/\ cfg.quota[1] \in MINPERIOD..MaxQuota
                          /\ cfg.period = <<>> \/ cfg.period[1] \in MINPERIOD..MAXPERIOD)
=============================================================================
