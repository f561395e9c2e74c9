------------------------------ MODULE MCCreate ------------------------------
(* Configs that between them use every property, valid or not, and reach   *)
(* every section of the spec and every limit on it.                        *)
EXTENDS OciConfig

\* Characters 2 and 3, and 60 and up, which may also be part of a sysctl name.
Base == [
    absent |-> {}, extra |-> {}, args |-> << <<SLASH, 3>> >>, env |-> <<>>, terminal |-> FALSE,
    cwd |-> <<>>, moreGids |-> {}, uid |-> 0, gid |-> 0, caps |-> <<>>, noNewPrivs |-> FALSE,
    rlimits |-> <<>>, oomScoreAdj |-> <<>>, rootPath |-> <<SLASH, 2>>, readonly |-> FALSE,
    hostname |-> <<>>, namespaces |-> <<>>, uidMaps |-> <<>>, gidMaps |-> <<>>, masked |-> <<>>,
    readonlyPaths |-> <<>>, sysctl |-> {}, pids |-> <<>>, memory |-> <<>>, quota |-> <<>>,
    period |-> <<>>, shares |-> <<>>, mounts |-> <<>>]

Ns(types) == [k \in DOMAIN types |-> [type |-> types[k], joins |-> FALSE]]
Sysctl(name, value) == [name |-> name, value |-> value]
Mnt(type, options) == [dest |-> <<2>>, type |-> type, source |-> <<3>>, options |-> options]

MCBundle == <<SLASH, 5>>
MCPrograms == {<<52, <<4>>>>, <<54, <<4>>>>, <<51, <<6>>>>}
MCKernels == {{"pids", "memory", "cpu"}, {"pids", "cpu"}}

\* The process and its root.
Processes == {
    [Base EXCEPT !.hostname = <<3>>, !.args = << <<SLASH, 3>>, <<2, 2>> >>],
    [Base EXCEPT !.rootPath = <<2>>, !.env = << <<>> >>, !.cwd = <<SLASH>>],
    [Base EXCEPT !.args = << <<4>>, <<3>> >>],
    [Base EXCEPT !.args = << <<4>> >>, !.env = << <<2>>, <<PATH, EQUALS, 54, COLON, 52>> >>],
    [Base EXCEPT !.args = << <<4>> >>, !.env = << <<PATH, EQUALS, 51>>, <<PATH, EQUALS, 52>> >>],
    [Base EXCEPT !.caps = << <<>>, <<>>, <<>>, <<>>, <<>> >>, !.noNewPrivs = TRUE],
    [Base EXCEPT !.caps = << <<"KILL", "CHOWN">>, <<"KILL">>, <<"CHOWN">>, <<>>, <<"FSETID">> >>,
                 !.readonly = TRUE],
    [Base EXCEPT !.rlimits = << [type |-> "NOFILE", soft |-> 1, hard |-> 2] >>,
                 !.oomScoreAdj = <<0>>, !.uid = 5],
    [Base EXCEPT !.oomScoreAdj = <<-50>>], [Base EXCEPT !.oomScoreAdj = <<49>>],
    [Base EXCEPT !.namespaces = Ns(<<"user", "pid">>), !.uidMaps = << <<0, 5, 1>> >>,
                 !.gidMaps = << <<0, 5, 1>> >>],
    [Base EXCEPT !.masked = << <<2>>, <<3>> >>, !.readonlyPaths = << <<3, 2>> >>]}

\* What krunc-oci refuses.
Refused == {
    [Base EXCEPT !.absent = {"process"}], [Base EXCEPT !.absent = {"root"}],
    [Base EXCEPT !.args = <<>>], [Base EXCEPT !.rootPath = <<>>],
    [Base EXCEPT !.extra = {"seccomp"}], [Base EXCEPT !.terminal = TRUE],
    [Base EXCEPT !.cwd = <<SLASH, 2>>], [Base EXCEPT !.moreGids = {5}],
    [Base EXCEPT !.namespaces = Ns(<<"time">>)],
    [Base EXCEPT !.namespaces = << [type |-> "pid", joins |-> TRUE] >>],
    [Base EXCEPT !.uidMaps = << <<0, 5, 1>> >>],
    [Base EXCEPT !.namespaces = Ns(<<"user">>), !.gidMaps = << <<0, 5, 0>> >>],
    [Base EXCEPT !.caps = << <<"ALL">>, <<>>, <<>>, <<>>, <<>> >>],
    [Base EXCEPT !.rlimits = << [type |-> "SWAP", soft |-> 1, hard |-> 2] >>],
    [Base EXCEPT !.mounts = << Mnt(<<3>>, <<"ro", "shared">>) >>]}

\* Sysctls: each name with no namespace, with its own, and with the other one.
Names == {
    <<NET, DOT, 60>>, <<NET, DOT, 60, SLASH, 61>>, <<NET, DOT, DOT, 60>>, <<NET, DOT>>, <<>>,
    <<NET, DOT, 60, EQUALS>>, <<NET, 60>>, <<KERNEL, DOT, SEM>>, <<KERNEL, DOT, SEM, 60>>,
    <<KERNEL, DOT, SHM, 60>>, <<KERNEL, DOT, MSG, 60>>, <<KERNEL, DOT, 60>>,
    <<KERNEL, DOT, SHM, SLASH, DOT, DOT, SLASH, 60>>, <<FS, DOT, MQUEUE, DOT, 60>>,
    <<FS, DOT, 60>>}

WithSysctls == {
    [Base EXCEPT !.namespaces = Ns(types), !.sysctl = {Sysctl(n, <<60>>)}] :
        types \in {<<"uts">>, <<"network">>, <<"ipc">>}, n \in Names}
    \cup {[Base EXCEPT !.namespaces = Ns(<<"network", "ipc">>), !.sysctl = set] : set \in {
        {Sysctl(<<NET, DOT, 61>>, <<61>>), Sysctl(<<NET, DOT, 60>>, <<EQUALS, 60>>)},
        {Sysctl(<<NET, DOT, 60, DOT, 61>>, <<61>>), Sysctl(<<NET, DOT, 60, SLASH, 61>>, <<60>>)},
        {Sysctl(<<NET, DOT, 60>>, <<>>), Sysctl(<<KERNEL, DOT, SHM>>, <<60>>)},
        {Sysctl(<<NET, DOT, 60>>, <<60, NEWLINE>>)}}}

\* Mounts, alone and two at a time, with options in every order.
OptionLists == {
    <<>>, <<"defaults">>, <<"nosuid", "nodev", "noexec", "ro">>, <<"ro", "rw">>, <<"rw", "ro">>,
    <<"bind">>, <<"rbind", "ro">>, <<"bind", "remount", "ro">>, <<"noatime", "loud", "atime">>,
    <<"relatime", "norelatime", "strictatime">>}

WithMounts ==
    {[Base EXCEPT !.mounts = << Mnt(<<3>>, o) >>] : o \in OptionLists}
    \cup {[Base EXCEPT !.mounts = << Mnt(<<3>>, <<"ro">>), Mnt(<<>>, <<"bind">>) >>],
          [Base EXCEPT !.mounts = << [Mnt(<<3>>, <<"ro">>) EXCEPT !.dest = <<>>], Mnt(<<3>>, <<>>) >>]}

\* Limits that are absent, none, in and out of range.
WithLimits ==
    {[Base EXCEPT !.pids = p, !.memory = m] : p \in {<<>>, <<-1>>, <<5>>, <<5000000>>}, m \in {<<>>, <<-1>>, <<7>>}}
    \cup {[Base EXCEPT !.quota = q, !.period = p] : q \in {<<-1>>, <<500>>, <<5000>>, <<7000>>},
                                                    p \in {<<>>, <<0>>, <<50000>>}}
    \cup {[Base EXCEPT !.shares = <<s>>, !.memory = <<7>>] : s \in {0, 1, 2, 13, 26, 27, 99}}

\* Longer than one or both sides take.
TooLong == {
    [Base EXCEPT !.args = << <<SLASH, 3>>, [k \in 1..8 |-> 2] >>],
    [Base EXCEPT !.masked = << [k \in 1..8 |-> 2] >>],
    [Base EXCEPT !.env = [k \in 1..3 |-> <<>>]],
    [Base EXCEPT !.env = [k \in 1..4 |-> <<>>]],
    [Base EXCEPT !.env = << [k \in 1..7 |-> 2], [k \in 1..7 |-> 2] >>, !.hostname = <<2, 2>>],
    [Base EXCEPT !.env = << [k \in 1..7 |-> 2], [k \in 1..7 |-> 2] >>,
                 !.masked = << [k \in 1..7 |-> 2], [k \in 1..7 |-> 2] >>]}

MCConfigs == Processes \cup Refused \cup WithSysctls \cup WithMounts \cup WithLimits \cup TooLong

\* Lists hold up to three entries for krunc-abi, two of which krunc.ko keeps.
MCAbiMax == [t \in Lists |-> 3]
MCKernelKeep == [t \in Lists |-> 2]
MCCells == (0..9) \cup {11, 17, 64}
=============================================================================
