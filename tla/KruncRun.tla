------------------------------ MODULE KruncRun ------------------------------
(***************************************************************************)
(* `krunc run` and `krunc run -t`: one command from its start to its exit  *)
(* code.  The lifecycle creates, starts, waits for and deletes a container *)
(* of its own; with -t it runs in a forked child whose stdio is the slave  *)
(* of a pty, and the parent relays between the user's terminal and the     *)
(* master until every copy of the slave is closed.                         *)
(*                                                                         *)
(* The parent, the lifecycle and the container's init run concurrently;    *)
(* each system call that another can observe is a step.  Bytes are counted,*)
(* not named: queues are FIFO and have one reader.  The container appears  *)
(* as the interface KruncPort; the files and cgroups of create and delete  *)
(* are KruncCli's.                                                         *)
(***************************************************************************)
EXTENDS Integers

CONSTANTS
    Words,       \* wait words the init may end with
    Stdins,      \* what fd 0 of the command may be: "tty", "pipe", "file"
    Typed,       \* bytes the user enters; a bound
    Written,     \* bytes the container writes; a bound
    InCap,       \* bytes the pty holds towards the slave
    OutCap,      \* ... and towards the master
    Faults,      \* the calls that may fail: "fork", "create", "setup"
    Crashes      \* TRUE: the lifecycle process may be killed

ASSUME RunAssumption ==
    /\ Words \subseteq Int
    /\ Stdins \subseteq {"tty", "pipe", "file"}
    /\ Typed \in Nat /\ Written \in Nat
    /\ InCap \in Nat \ {0} /\ OutCap \in Nat \ {0}
    /\ Crashes \in BOOLEAN

Kid == 1    \* the kernel id of the command's container

VARIABLES
    dom, alive,  \* KruncPort, of the one container
    word,        \* the init's wait word, once it has ended
    relayed,     \* the command was given -t
    keep,        \* ... and --keep
    ignored,     \* SIGCHLD is ignored, as inherited from the caller
    parent,      \* the parent's next call; "none" without -t
    life,        \* the lifecycle's next call
    code,        \* the exit code wait_for_exit has returned
    lifeWord,    \* the lifecycle process's own wait word
    exitCode,    \* the parent's exit code
    slave,       \* the processes that have the pty slave open
    stdin,       \* what fd 0 is
    mode,        \* the user's terminal: "cooked" or "raw"
    left,        \* bytes the user has still to enter
    pending,     \* bytes the parent can read from fd 0
    watching,    \* fd 0 is still in the poll set
    revents,     \* what the last poll found readable: "master", "stdin"
    inflight,    \* bytes read by the parent and not yet written on
    toSlave,     \* bytes in the pty towards the slave
    toMaster,    \* ... and towards the master
    wrote,       \* bytes the container has written
    shown        \* bytes the parent has written to its stdout

cmdVars == <<relayed, keep, ignored, stdin>>
portVars == <<dom, alive, word>>
lifeVars == <<life, code, lifeWord>>
parentVars == <<parent, exitCode, mode, watching, revents, inflight, shown>>
ptyVars == <<toSlave, toMaster, wrote>>
userVars == <<left, pending>>
runVars == <<cmdVars, portVars, lifeVars, parentVars, ptyVars, userVars, slave>>

Port == INSTANCE KruncPort WITH Kids <- {Kid}

NoWord == 256 * 256    \* larger than any wait word
NoCode == -1
SIGKILL == 9

\* A call may fail if it is one of Faults.
Results(call) == IF call \in Faults THEN {TRUE, FALSE} ELSE {TRUE}

-----------------------------------------------------------------------------
(* Wait words.                                                             *)

TermSig(w) == w % 128
IfExited(w) == TermSig(w) = 0
IfSignaled(w) == TermSig(w) \notin {0, 127}
ExitStatus(w) == (w \div 256) % 256

\* Mutant: a signal is not told from an exit.
WaitCodePlain(w) == ExitStatus(w)

\* wait_for_exit's decoding, after a successful waitpid.
WaitCode(w) ==
    IF IfExited(w) THEN ExitStatus(w)
    ELSE IF IfSignaled(w) THEN 128 + TermSig(w)
    ELSE 0

\* run_lifecycle_pty's decoding of its child's word.
ParentCode(w) ==
    IF IfExited(w) THEN ExitStatus(w)
    ELSE IF IfSignaled(w) THEN 128 + TermSig(w)
    ELSE 1

\* exit_annotations: what `krunc state` says of the word of a stopped init.
Annotation(w) ==
    IF IfSignaled(w) THEN [exitSignal |-> TermSig(w)] ELSE [exitCode |-> ExitStatus(w)]

-----------------------------------------------------------------------------
(* The lifecycle, run_lifecycle: the command itself, or its forked child.  *)

LifeGoto(next) == life' = next /\ UNCHANGED <<code, lifeWord>>

\* The process ends, and with it its copies of the slave.
LifeExit(w) ==
    /\ life' = "ended"
    /\ lifeWord' = w
    /\ slave' = slave \ {"life"}
    /\ UNCHANGED code

Die == LifeExit(256)

\* pty::wire_slave: the child's stdio is the slave, of which it stays a holder.
WireSlave ==
    /\ life = "wire"
    /\ LifeGoto("create")
    /\ UNCHANGED <<cmdVars, portVars, parentVars, ptyVars, userVars, slave>>

\* create_from_bundle up to the ioctl, whose clone inherits the caller's fds.
LifeCreate ==
    /\ life = "create"
    /\ \E ok \in Results("create") :
        IF ok
        THEN /\ Port!Create(Kid)
             /\ slave' = IF relayed THEN slave \cup {"init"} ELSE slave
             /\ LifeGoto("setup")
        ELSE Die /\ UNCHANGED <<dom, alive>>
    /\ UNCHANGED <<cmdVars, word, parentVars, ptyVars, userVars>>

IoctlDelete == IF Port!Exists(Kid) THEN Port!Delete(Kid) ELSE UNCHANGED <<dom, alive>>

\* The rest of create_from_bundle; a step that fails deletes the container.
LifeSetup ==
    /\ life = "setup"
    /\ \E ok \in Results("setup") :
        IF ok THEN LifeGoto("start") /\ UNCHANGED <<dom, alive, slave>> ELSE IoctlDelete /\ Die
    /\ UNCHANGED <<cmdVars, word, parentVars, ptyVars, userVars>>

\* dev.start; ENOENT, if somebody deleted the container, is fatal.
LifeStart ==
    /\ life = "start"
    /\ IF Port!Exists(Kid)
       THEN Port!Start(Kid) /\ LifeGoto("wait") /\ UNCHANGED slave
       ELSE Die /\ UNCHANGED <<dom, alive>>
    /\ UNCHANGED <<cmdVars, word, parentVars, ptyVars, userVars>>

\* waitpid: the init's word, or ECHILD once it is gone if SIGCHLD is ignored and
\* the kernel has reaped it.
WaitForExit ==
    /\ life = "wait"
    /\ Kid \notin alive
    /\ IF ignored THEN LifeGoto("poll")
       ELSE life' = "delete" /\ code' = WaitCode(word) /\ UNCHANGED lifeWord
    /\ UNCHANGED <<cmdVars, portVars, parentVars, ptyVars, userVars, slave>>

\* wait_stopped: until STATE answers stopped, or with an error.
WaitStopped ==
    /\ life = "poll"
    /\ Port!Exists(Kid) => Port!Answer(Kid) = "stopped"
    /\ life' = "delete"
    /\ code' = 0
    /\ UNCHANGED <<lifeWord, cmdVars, portVars, parentVars, ptyVars, userVars, slave>>

\* The deletion, unless --keep, and exit(code).
LifeEnd ==
    /\ life = "delete"
    /\ IF keep THEN UNCHANGED <<dom, alive>> ELSE IoctlDelete
    /\ LifeExit(code * 256)
    /\ UNCHANGED <<cmdVars, word, parentVars, ptyVars, userVars>>

LifeStep ==
    \/ WireSlave \/ LifeCreate \/ LifeSetup \/ LifeStart
    \/ WaitForExit \/ WaitStopped \/ LifeEnd

\* The lifecycle process is killed; the container goes on without it.
LifeCrash ==
    /\ Crashes
    /\ life \notin {"none", "ended"}
    /\ LifeExit(SIGKILL)
    /\ UNCHANGED <<cmdVars, portVars, parentVars, ptyVars, userVars>>

-----------------------------------------------------------------------------
(* The parent of run -t.                                                   *)

\* openpty, and set_raw: nothing to do, or to restore, if fd 0 is no terminal.
OpenPty ==
    /\ parent = "open"
    /\ parent' = "fork"
    /\ slave' = {"parent"}
    /\ mode' = IF stdin = "tty" THEN "raw" ELSE mode
    /\ UNCHANGED <<exitCode, watching, revents, inflight, shown>>
    /\ UNCHANGED <<cmdVars, portVars, lifeVars, ptyVars, userVars>>

\* fork; on failure the terminal is restored, and die.
Fork ==
    /\ parent = "fork"
    /\ \E ok \in Results("fork") :
        IF ok
        THEN /\ parent' = "close"
             /\ life' = "wire"
             /\ slave' = slave \cup {"life"}
             /\ UNCHANGED <<exitCode, mode>>
        ELSE /\ parent' = "done"
             /\ life' = "ended"
             /\ slave' = {}
             /\ exitCode' = 1
             /\ mode' = "cooked"
    /\ UNCHANGED <<code, lifeWord, watching, revents, inflight, shown>>
    /\ UNCHANGED <<cmdVars, portVars, ptyVars, userVars>>

\* Mutant: the parent keeps its copy of the slave.
CloseSlaveNot ==
    /\ parent = "close"
    /\ parent' = "poll"
    /\ UNCHANGED <<exitCode, mode, watching, revents, inflight, shown, slave>>
    /\ UNCHANGED <<cmdVars, portVars, lifeVars, ptyVars, userVars>>

\* close(p.slave): from here on a hangup means that the container is over.
CloseSlave ==
    /\ parent = "close"
    /\ parent' = "poll"
    /\ slave' = slave \ {"parent"}
    /\ UNCHANGED <<exitCode, mode, watching, revents, inflight, shown>>
    /\ UNCHANGED <<cmdVars, portVars, lifeVars, ptyVars, userVars>>

\* What poll reports: output or a hangup on the master; input, or the end of a
\* file, on fd 0.  A pipe at its end is a hangup alone, which poll returns for
\* at once and relay does not look at.
Hangup == slave = {}
MasterReady == toMaster > 0 \/ Hangup
StdinReady == watching /\ (pending > 0 \/ (stdin = "file" /\ left = 0))
PipeEnded == watching /\ stdin = "pipe" /\ left = 0 /\ pending = 0
Ready == {f \in {"master", "stdin"} : IF f = "master" THEN MasterReady ELSE StdinReady}

Poll ==
    /\ parent = "poll"
    /\ Ready # {} \/ PipeEnded
    /\ revents' = Ready
    /\ parent' = "output"
    /\ UNCHANGED <<exitCode, mode, watching, inflight, shown, slave>>
    /\ UNCHANGED <<cmdVars, portVars, lifeVars, ptyVars, userVars>>

\* read(master), which blocks if there is nothing and no hangup, and the write
\* of what it returned to stdout; no byte after a hangup ends the relay.
ReadMaster ==
    /\ MasterReady
    /\ parent' = IF toMaster > 0 THEN "input" ELSE "reap"
    /\ shown' = shown + toMaster
    /\ toMaster' = 0
    /\ UNCHANGED <<exitCode, mode, watching, revents, inflight, slave, toSlave, wrote>>
    /\ UNCHANGED <<cmdVars, portVars, lifeVars, userVars>>

RelayGoto(next) ==
    /\ parent' = next
    /\ UNCHANGED <<exitCode, mode, watching, revents, inflight, shown, slave>>
    /\ UNCHANGED <<cmdVars, portVars, lifeVars, ptyVars, userVars>>

\* Mutant: a hangup ends the relay though there is output left.
RelayOutputUntilHangup ==
    /\ parent = "output"
    /\ IF Hangup THEN RelayGoto("reap")
       ELSE IF "master" \in revents THEN ReadMaster ELSE RelayGoto("input")

\* Mutant: the master is read whatever poll found.
RelayOutputAlways == parent = "output" /\ ReadMaster

\* Container output to stdout, if poll found the master readable.
RelayOutput ==
    /\ parent = "output"
    /\ IF "master" \in revents THEN ReadMaster ELSE RelayGoto("input")

\* read(0), if poll found it readable; at the end of the file fd 0 leaves the
\* poll set.
RelayInput ==
    /\ parent = "input"
    /\ IF "stdin" \in revents
       THEN /\ inflight' = pending
            /\ pending' = 0
            /\ watching' = (pending > 0)
            /\ parent' = IF pending > 0 THEN "forward" ELSE "poll"
            /\ UNCHANGED <<exitCode, mode, revents, shown, slave, left>>
            /\ UNCHANGED <<cmdVars, portVars, lifeVars, ptyVars>>
       ELSE RelayGoto("poll")

\* write_all(master): blocks while the pty is full, gives up after a hangup.
Forward ==
    /\ parent = "forward"
    /\ \/ /\ inflight > 0 /\ ~Hangup /\ toSlave < InCap
          /\ toSlave' = toSlave + 1
          /\ inflight' = inflight - 1
          /\ parent' = parent
       \/ /\ inflight = 0 \/ Hangup
          /\ inflight' = 0
          /\ parent' = "poll"
          /\ UNCHANGED toSlave
    /\ UNCHANGED <<exitCode, mode, watching, revents, shown, slave, toMaster, wrote>>
    /\ UNCHANGED <<cmdVars, portVars, lifeVars, userVars>>

\* waitpid for the lifecycle, unchecked: if SIGCHLD is ignored it is ECHILD, once
\* the child is gone, and the status stays 0.  Then restore and exit.
Reap ==
    /\ parent = "reap"
    /\ life = "ended"
    /\ parent' = "done"
    /\ exitCode' = ParentCode(IF ignored THEN 0 ELSE lifeWord)
    /\ mode' = "cooked"
    /\ UNCHANGED <<watching, revents, inflight, shown, slave>>
    /\ UNCHANGED <<cmdVars, portVars, lifeVars, ptyVars, userVars>>

ParentStep ==
    \/ OpenPty \/ Fork \/ CloseSlave \/ Poll
    \/ RelayOutput \/ RelayInput \/ Forward \/ Reap

-----------------------------------------------------------------------------
(* The container, other commands and the user.                             *)

Program == dom[Kid] = "running" /\ Kid \in alive

\* The program writes to the slave, which blocks while the pty is full, or to
\* the command's own stdout.
ProgramWrites ==
    /\ Program
    /\ wrote < Written
    /\ wrote' = wrote + 1
    /\ relayed => toMaster < OutCap
    /\ toMaster' = IF relayed THEN toMaster + 1 ELSE toMaster
    /\ UNCHANGED toSlave
    /\ UNCHANGED <<cmdVars, portVars, lifeVars, parentVars, userVars, slave>>

ProgramReads ==
    /\ Program
    /\ toSlave > 0
    /\ toSlave' = toSlave - 1
    /\ UNCHANGED <<toMaster, wrote>>
    /\ UNCHANGED <<cmdVars, portVars, lifeVars, parentVars, userVars, slave>>

\* The init ends, and with it every process that shares its slave: synth_config
\* gives the container a pid namespace.
InitEnds ==
    /\ Port!InitEnds(Kid)
    /\ word' \in Words
    /\ slave' = slave \ {"init"}
    /\ UNCHANGED <<cmdVars, lifeVars, parentVars, ptyVars, userVars>>

\* Somebody else runs `krunc delete`.
OtherDelete ==
    /\ Port!Delete(Kid)
    /\ UNCHANGED <<cmdVars, word, lifeVars, parentVars, ptyVars, userVars, slave>>

Type ==
    /\ relayed
    /\ left > 0
    /\ left' = left - 1
    /\ pending' = pending + 1
    /\ UNCHANGED <<cmdVars, portVars, lifeVars, parentVars, ptyVars, slave>>

RunInit ==
    /\ Port!PortInit
    /\ word = NoWord
    /\ relayed \in BOOLEAN
    /\ keep \in BOOLEAN
    /\ ignored \in BOOLEAN
    /\ stdin \in Stdins
    /\ parent = IF relayed THEN "open" ELSE "none"
    /\ life = IF relayed THEN "none" ELSE "create"
    /\ code = NoCode
    /\ lifeWord = NoWord
    /\ exitCode = 0
    /\ slave = {}
    /\ mode = "cooked"
    /\ left = Typed
    /\ pending = 0
    /\ watching = TRUE
    /\ revents = {}
    /\ inflight = 0
    /\ toSlave = 0
    /\ toMaster = 0
    /\ wrote = 0
    /\ shown = 0

RunNext ==
    \/ LifeStep \/ LifeCrash
    \/ ParentStep
    \/ ProgramWrites \/ ProgramReads \/ InitEnds
    \/ OtherDelete \/ Type

\* The scheduler runs the two processes of the command, and a container that
\* was deleted ends (Krunc's TornDownStops); the program, the user and other
\* commands need not do anything.
RunSpec ==
    /\ RunInit
    /\ [][RunNext]_runVars
    /\ WF_runVars(LifeStep)
    /\ WF_runVars(ParentStep)
    /\ WF_runVars(dom[Kid] = "deleted" /\ InitEnds)

-----------------------------------------------------------------------------
(* Properties.                                                             *)

\* When the relay is over, all that the container wrote has reached the user's
\* stdout, and nothing can be written any more: what was in the pty when the
\* last slave was closed is not lost.
OutputComplete ==
    parent \in {"reap", "done"} => shown = wrote /\ slave = {} /\ toMaster = 0

\* What the caller of the command sees, and what `krunc state` says.
CommandEnded == IF relayed THEN parent = "done" ELSE life = "ended"
CommandCode == IF relayed THEN exitCode ELSE ParentCode(lifeWord)
ReportedCode ==
    LET a == Annotation(word)
    IN IF "exitSignal" \in DOMAIN a THEN 128 + a.exitSignal ELSE a.exitCode

\* The command ends with the container's own exit status, the same with and
\* without -t and the one `krunc state` reports; and it never ends with 0 when
\* it failed or was killed before the container was over.  The exceptions are a
\* word that is neither an exit nor a signal, for which run says 0, and a caller
\* that ignores SIGCHLD: run then says 0 whatever the container's status was,
\* and with -t even if the lifecycle it forked has failed.
RunCodeExact ==
    CommandEnded =>
        IF code = NoCode \/ lifeWord = SIGKILL
        THEN (ignored /\ relayed /\ lifeWord # NoWord) \/ CommandCode # 0
        ELSE ignored \/ TermSig(word) = 127 \/ CommandCode = ReportedCode

ContainerOver == IF dom[Kid] = "absent" THEN life = "ended" ELSE Kid \notin alive

\* Once the container is over the command ends, and the user has the terminal
\* back as it was: no copy of the slave is left to hold the relay, not even
\* with a full pty, a pipe at its end, or a lifecycle that was killed.
RunEnds ==
    ContainerOver ~> (life = "ended" /\ (relayed => parent = "done" /\ mode = "cooked"))

\* What the user types is taken from the terminal and passed on, unless the
\* relay is over or the pty full of what the container has not read: the relay
\* never blocks on a master that has nothing to say.
InputFlows ==
    (relayed /\ pending > 0) ~> (pending = 0 \/ parent = "done" \/ toSlave = InCap)
=============================================================================
