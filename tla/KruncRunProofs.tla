--------------------------- MODULE KruncRunProofs ---------------------------
(***************************************************************************)
(* `krunc run` loses no output and reports the container's own exit code,  *)
(* for every amount of input and output, every size of the pty, every wait *)
(* word, and whatever fails or is killed on the way.                       *)
(*                                                                         *)
(* Completeness of the output rests on who holds the slave: the lifecycle  *)
(* until it ends, and the init as long as it lives, so that a hangup means *)
(* that nobody is left who could write or clone a writer.  The exit code   *)
(* goes through two wait words; what has to be invariant is which of them  *)
(* the lifecycle has ended with.                                           *)
(***************************************************************************)
EXTENDS KruncRun, TLAPS

LifePCs == {"none", "wire", "create", "setup", "start", "wait", "poll", "delete", "ended"}
ParentPCs == {"none", "open", "fork", "close", "poll", "output", "input", "forward", "reap", "done"}

RunTypeOK ==
    /\ dom \in [{Kid} -> {"absent", "created", "running", "deleted"}]
    /\ alive \subseteq {Kid}
    /\ word \in Int
    /\ relayed \in BOOLEAN
    /\ life \in LifePCs
    /\ parent \in ParentPCs
    /\ code \in {NoCode} \cup (0 .. 255)
    /\ lifeWord \in Int
    /\ exitCode \in Int
    /\ toMaster \in Nat
    /\ wrote \in Nat
    /\ shown \in Nat

\* Where the two processes are: the lifecycle is forked by the parent, if
\* there is one, and the container is the lifecycle's.
ProcsOK ==
    /\ relayed <=> parent # "none"
    /\ life = "none" <=> parent \in {"open", "fork"}
    /\ life = "wire" => relayed
    /\ life \in {"none", "wire", "create"} => dom[Kid] = "absent"
    /\ life \in {"setup", "start", "wait", "poll", "delete"} => dom[Kid] # "absent"
    /\ life = "poll" => Kid \notin alive /\ ignored
    /\ dom[Kid] = "absent" => Kid \notin alive

\* Who holds the slave.
SlaveOK ==
    relayed =>
        /\ "life" \in slave <=> life \notin {"none", "ended"}
        /\ "init" \in slave <=> Kid \in alive

\* What was written is shown or still in the pty, and a relay that is over has
\* met a hangup with the pty empty.
CountOK ==
    /\ relayed => wrote = shown + toMaster
    /\ dom[Kid] = "absent" => wrote = 0
    /\ parent \in {"reap", "done"} => slave = {} /\ toMaster = 0

\* wait_for_exit's code is that of a word that does not change any more.
CodeOK ==
    /\ life \notin {"delete", "ended"} => code = NoCode
    /\ life = "delete" => code # NoCode
    /\ code # NoCode => /\ Kid \notin alive /\ dom[Kid] # "absent"
                        /\ ignored \/ code = WaitCode(word)

\* How the lifecycle has ended: killed, by die, with the code, or never forked;
\* and what the parent has made of it.
EndOK ==
    /\ life = "ended" =>
        \/ lifeWord = SIGKILL
        \/ lifeWord = 256 /\ code = NoCode
        \/ lifeWord = code * 256 /\ code # NoCode
        \/ lifeWord = NoWord /\ code = NoCode /\ parent = "done"
    /\ life # "ended" => lifeWord = NoWord
    /\ parent = "done" =>
        /\ life = "ended"
        /\ exitCode = IF lifeWord = NoWord THEN 1 ELSE ParentCode(IF ignored THEN 0 ELSE lifeWord)

RunInv == RunTypeOK /\ ProcsOK /\ SlaveOK /\ CountOK /\ CodeOK /\ EndOK

-----------------------------------------------------------------------------
(* Wait words.                                                             *)

\* wait_for_exit's code fits in an exit status.
LEMMA WaitCodeRange == \A w \in Int : WaitCode(w) \in 0 .. 255
  BY DEF WaitCode, IfExited, IfSignaled, TermSig, ExitStatus

\* The code survives exit(code) in the lifecycle and waitpid in the parent.
LEMMA CodeRoundTrip == \A c \in 0 .. 255 : ParentCode(c * 256) = c
  BY DEF ParentCode, IfExited, IfSignaled, TermSig, ExitStatus

\* die is exit(1), and a killed lifecycle is told from an exit.
LEMMA FailureCodes == ParentCode(256) = 1 /\ ParentCode(SIGKILL) = 137
  BY DEF ParentCode, IfExited, IfSignaled, TermSig, ExitStatus, SIGKILL

\* The parent's exit code is a number for every word.
LEMMA ParentCodeInt == \A w \in Int : ParentCode(w) \in Int
  BY DEF ParentCode, IfExited, IfSignaled, TermSig, ExitStatus

\* wait_for_exit and exit_annotations read a word alike.
LEMMA CodesAgree ==
    ASSUME word \in Int, TermSig(word) # 127
    PROVE  WaitCode(word) = ReportedCode
  BY DEF WaitCode, ReportedCode, Annotation, IfExited, IfSignaled, TermSig, ExitStatus

-----------------------------------------------------------------------------
\* The lifecycle's steps, and its death.
LEMMA LifeInv ==
    ASSUME RunInv, LifeStep \/ LifeCrash
    PROVE  RunInv'
<1> USE DEF RunInv, RunTypeOK, ProcsOK, LifePCs, ParentPCs,
            cmdVars, portVars, parentVars, ptyVars, userVars, LifeGoto, LifeExit, Die
<1>1. CASE WireSlave
  <2> USE <1>1 DEF WireSlave
  <2>1. RunTypeOK'
    OBVIOUS
  <2>2. ProcsOK'
    OBVIOUS
  <2>3. SlaveOK'
    BY DEF SlaveOK
  <2>4. CountOK'
    BY DEF CountOK
  <2>5. CodeOK'
    BY DEF CodeOK
  <2>6. EndOK'
    BY DEF EndOK
  <2> QED
    BY <2>1, <2>2, <2>3, <2>4, <2>5, <2>6
<1>2. CASE LifeCreate
  <2> USE <1>2 DEF LifeCreate, Port!Create
  <2>1. RunTypeOK'
    OBVIOUS
  <2>2. ProcsOK'
    OBVIOUS
  <2>3. SlaveOK'
    BY DEF SlaveOK
  <2>4. CountOK'
    BY DEF CountOK, SlaveOK
  <2>5. CodeOK'
    BY DEF CodeOK
  <2>6. EndOK'
    BY DEF EndOK, CodeOK
  <2> QED
    BY <2>1, <2>2, <2>3, <2>4, <2>5, <2>6
<1>3. CASE LifeSetup
  <2> USE <1>3 DEF LifeSetup, IoctlDelete, Port!Delete, Port!Exists
  <2>1. RunTypeOK'
    OBVIOUS
  <2>2. ProcsOK'
    OBVIOUS
  <2>3. SlaveOK'
    BY DEF SlaveOK
  <2>4. CountOK'
    BY DEF CountOK
  <2>5. CodeOK'
    BY DEF CodeOK
  <2>6. EndOK'
    BY DEF EndOK, CodeOK
  <2> QED
    BY <2>1, <2>2, <2>3, <2>4, <2>5, <2>6
<1>4. CASE LifeStart
  <2> USE <1>4 DEF LifeStart, Port!Start, Port!Exists
  <2>1. RunTypeOK'
    OBVIOUS
  <2>2. ProcsOK'
    OBVIOUS
  <2>3. SlaveOK'
    BY DEF SlaveOK
  <2>4. CountOK'
    BY DEF CountOK
  <2>5. CodeOK'
    BY DEF CodeOK
  <2>6. EndOK'
    BY DEF EndOK, CodeOK
  <2> QED
    BY <2>1, <2>2, <2>3, <2>4, <2>5, <2>6
<1>5. CASE WaitForExit
  <2> USE <1>5 DEF WaitForExit
  <2>1. RunTypeOK'
    BY WaitCodeRange
  <2>2. ProcsOK'
    OBVIOUS
  <2>3. SlaveOK'
    BY DEF SlaveOK
  <2>4. CountOK'
    BY DEF CountOK
  <2>5. CodeOK'
    BY WaitCodeRange DEF CodeOK, NoCode
  <2>6. EndOK'
    BY DEF EndOK
  <2> QED
    BY <2>1, <2>2, <2>3, <2>4, <2>5, <2>6
<1>6. CASE WaitStopped
  <2> USE <1>6 DEF WaitStopped, Port!Answer, Port!Exists
  <2>1. RunTypeOK'
    OBVIOUS
  <2>2. ProcsOK'
    OBVIOUS
  <2>3. SlaveOK'
    BY DEF SlaveOK
  <2>4. CountOK'
    BY DEF CountOK
  <2>5. CodeOK'
    BY DEF CodeOK, NoCode
  <2>6. EndOK'
    BY DEF EndOK
  <2> QED
    BY <2>1, <2>2, <2>3, <2>4, <2>5, <2>6
<1>7. CASE LifeEnd
  <2> USE <1>7 DEF LifeEnd, IoctlDelete, Port!Delete, Port!Exists
  <2>1. RunTypeOK'
    OBVIOUS
  <2>2. ProcsOK'
    OBVIOUS
  <2>3. SlaveOK'
    BY DEF SlaveOK
  <2>4. CountOK'
    BY DEF CountOK
  <2>5. CodeOK'
    BY DEF CodeOK
  <2>6. EndOK'
    BY DEF EndOK, CodeOK
  <2> QED
    BY <2>1, <2>2, <2>3, <2>4, <2>5, <2>6
<1>8. CASE LifeCrash
  <2> USE <1>8 DEF LifeCrash, SIGKILL
  <2>1. RunTypeOK'
    OBVIOUS
  <2>2. ProcsOK'
    OBVIOUS
  <2>3. SlaveOK'
    BY DEF SlaveOK
  <2>4. CountOK'
    BY DEF CountOK
  <2>5. CodeOK'
    BY DEF CodeOK
  <2>6. EndOK'
    BY DEF EndOK
  <2> QED
    BY <2>1, <2>2, <2>3, <2>4, <2>5, <2>6
<1> QED
  BY <1>1, <1>2, <1>3, <1>4, <1>5, <1>6, <1>7, <1>8 DEF LifeStep

\* The parent's steps: the relay ends on a hangup with an empty pty alone.
LEMMA ParentInv ==
    ASSUME RunInv, ParentStep
    PROVE  RunInv'
<1> USE DEF RunInv, RunTypeOK, ProcsOK, LifePCs, ParentPCs,
            cmdVars, portVars, lifeVars, ptyVars, userVars
<1>1. CASE OpenPty
  <2> USE <1>1 DEF OpenPty
  <2>1. RunTypeOK'
    OBVIOUS
  <2>2. ProcsOK'
    OBVIOUS
  <2>3. SlaveOK'
    BY DEF SlaveOK
  <2>4. CountOK'
    BY DEF CountOK
  <2>5. CodeOK'
    BY DEF CodeOK
  <2>6. EndOK'
    BY DEF EndOK
  <2> QED
    BY <2>1, <2>2, <2>3, <2>4, <2>5, <2>6
<1>2. CASE Fork
  <2> USE <1>2 DEF Fork
  <2>1. RunTypeOK'
    OBVIOUS
  <2>2. ProcsOK'
    OBVIOUS
  <2>3. SlaveOK'
    BY DEF SlaveOK
  <2>4. CountOK'
    BY DEF CountOK
  <2>5. CodeOK'
    BY DEF CodeOK
  <2>6. EndOK'
    BY DEF EndOK, CodeOK
  <2> QED
    BY <2>1, <2>2, <2>3, <2>4, <2>5, <2>6
<1>3. CASE CloseSlave
  <2> USE <1>3 DEF CloseSlave
  <2>1. RunTypeOK'
    OBVIOUS
  <2>2. ProcsOK'
    OBVIOUS
  <2>3. SlaveOK'
    BY DEF SlaveOK
  <2>4. CountOK'
    BY DEF CountOK
  <2>5. CodeOK'
    BY DEF CodeOK
  <2>6. EndOK'
    BY DEF EndOK
  <2> QED
    BY <2>1, <2>2, <2>3, <2>4, <2>5, <2>6
<1>4. CASE Poll
  <2> USE <1>4 DEF Poll
  <2>1. RunTypeOK'
    OBVIOUS
  <2>2. ProcsOK'
    OBVIOUS
  <2>3. SlaveOK'
    BY DEF SlaveOK
  <2>4. CountOK'
    BY DEF CountOK
  <2>5. CodeOK'
    BY DEF CodeOK
  <2>6. EndOK'
    BY DEF EndOK
  <2> QED
    BY <2>1, <2>2, <2>3, <2>4, <2>5, <2>6
<1>5. CASE RelayOutput
  <2>1. /\ UNCHANGED <<dom, alive, word, relayed, ignored, life, code, lifeWord, exitCode>>
        /\ UNCHANGED <<slave, wrote>>
    BY <1>5 DEF RelayOutput, ReadMaster, RelayGoto
  <2>2. parent = "output" /\ parent' \in {"input", "reap"}
    BY <1>5 DEF RelayOutput, ReadMaster, RelayGoto
  <2>3. \/ shown' = shown /\ toMaster' = toMaster
        \/ shown' = shown + toMaster /\ toMaster' = 0
    BY <1>5 DEF RelayOutput, ReadMaster, RelayGoto, ptyVars
  <2>4. parent' = "reap" => slave = {} /\ toMaster' = 0
    BY <1>5 DEF RelayOutput, ReadMaster, RelayGoto, MasterReady, Hangup
  <2>5. RunTypeOK'
    BY <2>1, <2>2, <2>3, <2>4
  <2>6. ProcsOK'
    BY <2>1, <2>2, <2>3, <2>4
  <2>7. SlaveOK'
    BY <2>1, <2>2, <2>3, <2>4 DEF SlaveOK
  <2>8. CountOK'
    BY <2>1, <2>2, <2>3, <2>4 DEF CountOK
  <2>9. CodeOK'
    BY <2>1, <2>2, <2>3, <2>4 DEF CodeOK
  <2>10. EndOK'
    BY <2>1, <2>2, <2>3, <2>4 DEF EndOK
  <2> QED
    BY <2>5, <2>6, <2>7, <2>8, <2>9, <2>10
<1>6. CASE RelayInput
  <2>1. /\ UNCHANGED <<dom, alive, word, relayed, ignored, life, code, lifeWord, exitCode>>
        /\ UNCHANGED <<slave, wrote, shown, toMaster>>
    BY <1>6 DEF RelayInput, RelayGoto
  <2>2. parent = "input" /\ parent' \in {"forward", "poll"}
    BY <1>6 DEF RelayInput, RelayGoto
  <2>3. RunTypeOK'
    BY <2>1, <2>2
  <2>4. ProcsOK'
    BY <2>1, <2>2
  <2>5. SlaveOK'
    BY <2>1, <2>2 DEF SlaveOK
  <2>6. CountOK'
    BY <2>1, <2>2 DEF CountOK
  <2>7. CodeOK'
    BY <2>1, <2>2 DEF CodeOK
  <2>8. EndOK'
    BY <2>1, <2>2 DEF EndOK
  <2> QED
    BY <2>3, <2>4, <2>5, <2>6, <2>7, <2>8
<1>7. CASE Forward
  <2> USE <1>7 DEF Forward
  <2>1. RunTypeOK'
    OBVIOUS
  <2>2. ProcsOK'
    OBVIOUS
  <2>3. SlaveOK'
    BY DEF SlaveOK
  <2>4. CountOK'
    BY DEF CountOK
  <2>5. CodeOK'
    BY DEF CodeOK
  <2>6. EndOK'
    BY DEF EndOK
  <2> QED
    BY <2>1, <2>2, <2>3, <2>4, <2>5, <2>6
<1>8. CASE Reap
  <2> USE <1>8 DEF Reap
  <2>1. RunTypeOK'
    BY ParentCodeInt
  <2>2. ProcsOK'
    OBVIOUS
  <2>3. SlaveOK'
    BY DEF SlaveOK
  <2>4. CountOK'
    BY DEF CountOK
  <2>5. CodeOK'
    BY DEF CodeOK
  <2>6. EndOK'
    BY DEF EndOK, NoCode, NoWord, SIGKILL
  <2> QED
    BY <2>1, <2>2, <2>3, <2>4, <2>5, <2>6
<1> QED
  BY <1>1, <1>2, <1>3, <1>4, <1>5, <1>6, <1>7, <1>8 DEF ParentStep

\* The container's, the user's and other commands' steps.
LEMMA WorldInv ==
    ASSUME RunInv, \/ ProgramWrites \/ ProgramReads \/ InitEnds
                   \/ OtherDelete \/ Type
    PROVE  RunInv'
<1> USE DEF RunInv, RunTypeOK, ProcsOK, LifePCs, ParentPCs,
            cmdVars, portVars, lifeVars, parentVars, ptyVars, userVars
<1>1. CASE ProgramWrites
  <2> USE <1>1 DEF ProgramWrites, Program
  <2>1. RunTypeOK'
    OBVIOUS
  <2>2. ProcsOK'
    OBVIOUS
  <2>3. SlaveOK'
    BY DEF SlaveOK
  <2>4. CountOK'
    BY DEF CountOK, SlaveOK
  <2>5. CodeOK'
    BY DEF CodeOK
  <2>6. EndOK'
    BY DEF EndOK
  <2> QED
    BY <2>1, <2>2, <2>3, <2>4, <2>5, <2>6
<1>2. CASE ProgramReads
  <2> USE <1>2 DEF ProgramReads
  <2>1. RunTypeOK'
    OBVIOUS
  <2>2. ProcsOK'
    OBVIOUS
  <2>3. SlaveOK'
    BY DEF SlaveOK
  <2>4. CountOK'
    BY DEF CountOK
  <2>5. CodeOK'
    BY DEF CodeOK
  <2>6. EndOK'
    BY DEF EndOK
  <2> QED
    BY <2>1, <2>2, <2>3, <2>4, <2>5, <2>6
<1>3. CASE InitEnds
  <2> USE <1>3 DEF InitEnds, Port!InitEnds
  <2>1. RunTypeOK'
    BY RunAssumption
  <2>2. ProcsOK'
    OBVIOUS
  <2>3. SlaveOK'
    BY DEF SlaveOK
  <2>4. CountOK'
    BY DEF CountOK
  <2>5. CodeOK'
    BY DEF CodeOK
  <2>6. EndOK'
    BY DEF EndOK
  <2> QED
    BY <2>1, <2>2, <2>3, <2>4, <2>5, <2>6
<1>4. CASE OtherDelete
  <2> USE <1>4 DEF OtherDelete, Port!Delete, Port!Exists
  <2>1. RunTypeOK'
    OBVIOUS
  <2>2. ProcsOK'
    OBVIOUS
  <2>3. SlaveOK'
    BY DEF SlaveOK
  <2>4. CountOK'
    BY DEF CountOK
  <2>5. CodeOK'
    BY DEF CodeOK
  <2>6. EndOK'
    BY DEF EndOK
  <2> QED
    BY <2>1, <2>2, <2>3, <2>4, <2>5, <2>6
<1>5. CASE Type
  <2> USE <1>5 DEF Type
  <2>1. RunTypeOK'
    OBVIOUS
  <2>2. ProcsOK'
    OBVIOUS
  <2>3. SlaveOK'
    BY DEF SlaveOK
  <2>4. CountOK'
    BY DEF CountOK
  <2>5. CodeOK'
    BY DEF CodeOK
  <2>6. EndOK'
    BY DEF EndOK
  <2> QED
    BY <2>1, <2>2, <2>3, <2>4, <2>5, <2>6
<1> QED
  BY <1>1, <1>2, <1>3, <1>4, <1>5

\* Every step of the command and of its surroundings preserves RunInv.
LEMMA RunStep == RunInv /\ [RunNext]_runVars => RunInv'
<1> SUFFICES ASSUME RunInv, [RunNext]_runVars
             PROVE  RunInv'
  OBVIOUS
<1>1. CASE UNCHANGED runVars
  BY <1>1 DEF runVars, cmdVars, portVars, lifeVars, parentVars, ptyVars, userVars, RunInv,
              RunTypeOK, ProcsOK, SlaveOK, CountOK, CodeOK, EndOK
<1> QED
  BY <1>1, LifeInv, ParentInv, WorldInv DEF RunNext

\* RunInv holds of every behaviour of the command.
LEMMA RunInvariance == RunSpec => []RunInv
<1>1. RunInit => RunInv
  BY DEF RunInit, Port!PortInit, RunInv, RunTypeOK, ProcsOK, SlaveOK, CountOK, CodeOK, EndOK,
         LifePCs, ParentPCs, NoWord, NoCode
<1> QED
  BY <1>1, RunStep, PTL DEF RunSpec

-----------------------------------------------------------------------------
\* `krunc run -t` shows all that the container wrote, whatever the pty holds
\* when its last copy of the slave is closed, and whoever is killed before.
THEOREM NothingLost == RunSpec => []OutputComplete
<1>1. RunInv => OutputComplete
  BY DEF RunInv, RunTypeOK, ProcsOK, CountOK, OutputComplete
<1> QED
  BY <1>1, RunInvariance, PTL

\* `krunc run` ends with the container's own exit status, for every wait word,
\* and never with 0 when it failed, unless its caller ignores SIGCHLD.
THEOREM CodeReported == RunSpec => []RunCodeExact
<1>1. RunInv => RunCodeExact
  <2> SUFFICES ASSUME RunInv, CommandEnded
               PROVE  IF code = NoCode \/ lifeWord = SIGKILL
                      THEN (ignored /\ relayed /\ lifeWord # NoWord) \/ CommandCode # 0
                      ELSE ignored \/ TermSig(word) = 127 \/ CommandCode = ReportedCode
    BY DEF RunCodeExact
  <2>1. life = "ended"
    BY DEF RunInv, ProcsOK, EndOK, CommandEnded
  <2>2. \/ ignored /\ relayed /\ lifeWord # NoWord
        \/ CommandCode = IF lifeWord = NoWord THEN 1 ELSE ParentCode(lifeWord)
    BY <2>1 DEF RunInv, RunTypeOK, ProcsOK, CodeOK, EndOK, CommandEnded, CommandCode, NoWord,
                NoCode, SIGKILL
  <2>3. CASE code = NoCode \/ lifeWord = SIGKILL
    BY <2>1, <2>2, <2>3, FailureCodes DEF RunInv, EndOK, NoWord, SIGKILL
  <2>4. CASE code # NoCode /\ lifeWord # SIGKILL
    <3>1. lifeWord = code * 256 /\ code \in 0 .. 255
      BY <2>1, <2>4 DEF RunInv, RunTypeOK, EndOK
    <3>2. ignored \/ CommandCode = code
      BY <2>2, <3>1, CodeRoundTrip DEF NoWord
    <3>3. ignored \/ code = WaitCode(word)
      BY <2>4 DEF RunInv, CodeOK
    <3> QED
      BY <2>4, <3>2, <3>3, CodesAgree DEF RunInv, RunTypeOK
  <2> QED
    BY <2>3, <2>4
<1> QED
  BY <1>1, RunInvariance, PTL
=============================================================================
