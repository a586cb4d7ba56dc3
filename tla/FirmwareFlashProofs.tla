------------------------- MODULE FirmwareFlashProofs -------------------------
(***************************************************************************)
(* The operator's tools.  The firmware tool, for every set of backup       *)
(* directories and any number of runs: main flash is never touched without *)
(* a rollback image, and a run that ends by itself leaves the HAT as it    *)
(* found it unless the GPIO helper failed, the service running that it took *)
(* down unless systemd would not start it, and passes only with the        *)
(* product.  The profile tool, for any number of invocations: the service  *)
(* uses the file.                                                          *)
(***************************************************************************)
EXTENDS FirmwareFlash, ProfileSwitch, TLAPS

USE DEF NoImage, Pcs, Entering, Restarting, Modes, Goals, Identities

-----------------------------------------------------------------------------
(***************************************************************************)
(* Types                                                                   *)
(***************************************************************************)

\* A reset tool is a tool.
LEMMA IdleIsTool == Idle \in Tools
BY DEF Idle, Tools

\* Every image answers with an identity.
LEMMA AnswerType ==
    ASSUME TypeOK
    PROVE  Answer \in Identities
BY DEF Answer, Identity, TypeOK, Images

\* The lines and the processor stay what they are, whatever pulls at them.
LEMMA HatType ==
    ASSUME hat \in Hats
    PROVE  /\ \A level \in {"low", "high"} : SetBoot0(level) => hat' \in Hats
           /\ ResetLow => hat' \in Hats
           /\ ResetHigh => hat' \in Hats
           /\ ApplicationRelease => hat' \in Hats
<1>1. ASSUME NEW level \in {"low", "high"}, SetBoot0(level) PROVE hat' \in Hats
  BY <1>1 DEF Hats, SetBoot0
<1>2. ResetLow => hat' \in Hats
  BY DEF Hats, ResetLow
<1>3. ResetHigh => hat' \in Hats
  <2>1. CASE hat.reset = "high"
    BY <2>1 DEF Hats, ResetHigh
  <2>2. CASE hat.reset # "high" /\ hat.boot0 = "high"
    BY <2>2 DEF Hats, ResetHigh
  <2>3. CASE hat.reset # "high" /\ hat.boot0 # "high"
    BY <2>3 DEF Hats, ResetHigh
  <2> QED BY <2>1, <2>2, <2>3
<1>4. ApplicationRelease => hat' \in Hats
  <2>1. CASE hat.reset = "low"
    BY <2>1 DEF Hats, ApplicationRelease
  <2>2. CASE hat.reset # "low"
    BY <2>2 DEF Hats, ApplicationRelease
  <2> QED BY <2>1, <2>2
<1> QED BY <1>1, <1>2, <1>3, <1>4

\* It is nowhere and has no goal.
LEMMA IdleOwesNothing == Idle.pc = "off" /\ Idle.goal = "none"
BY DEF Idle

\* A tool that takes up a goal, or an identity, is one.
LEMMA ToolType ==
    ASSUME tool \in Tools, NEW pc \in Pcs
    PROVE  /\ \A g \in Goals : [tool EXCEPT !.goal = g, !.pc = pc] \in Tools
           /\ \A i \in Identities : [tool EXCEPT !.identity = i, !.pc = pc] \in Tools
<1> HIDE DEF Pcs, Entering, Restarting, Goals, Identities, Modes
<1>1. ASSUME NEW g \in Goals PROVE [tool EXCEPT !.goal = g, !.pc = pc] \in Tools
  BY DEF Tools
<1>2. ASSUME NEW i \in Identities
      PROVE  [tool EXCEPT !.identity = i, !.pc = pc] \in Tools
  BY DEF Tools
<1> QED BY <1>1, <1>2

\* A tool that notes the service, takes it down, or counts the bootloader as
\* entered is one.
LEMMA ToolNotes ==
    ASSUME tool \in Tools, NEW pc \in Pcs
    PROVE  /\ [tool EXCEPT !.noted = TRUE, !.pc = pc] \in Tools
           /\ \A b \in BOOLEAN : [tool EXCEPT !.took = b, !.pc = pc] \in Tools
           /\ [tool EXCEPT !.active = TRUE, !.helper = "ok", !.pc = pc] \in Tools
<1> HIDE DEF Pcs, Entering, Restarting, Goals, Identities, Modes
<1>1. [tool EXCEPT !.noted = TRUE, !.pc = pc] \in Tools
  BY DEF Tools
<1>2. ASSUME NEW b \in BOOLEAN PROVE [tool EXCEPT !.took = b, !.pc = pc] \in Tools
  BY DEF Tools
<1>3. [tool EXCEPT !.active = TRUE, !.helper = "ok", !.pc = pc] \in Tools
  BY DEF Tools
<1> QED BY <1>1, <1>2, <1>3

\* A tool that takes up a directory with its goal is one.
LEMMA ToolTakesDir ==
    ASSUME tool \in Tools
    PROVE  \A d \in Dirs : \A g \in Goals : \A pc \in Pcs :
               [tool EXCEPT !.dir = d, !.goal = g, !.pc = pc] \in Tools
<1> HIDE DEF Pcs, Entering, Restarting, Goals, Identities, Modes
<1> QED BY DEF Tools

\* Failing goes to the restart of the application, or to the end.
LEMMA FailsGoes ==
    ASSUME Fails
    PROVE  \E pc \in {"unboot0", "end"} :
              tool' = [tool EXCEPT !.failing = TRUE, !.pc = pc]
<1>1. CASE tool.active
  BY <1>1, Zenon DEF Fails
<1>2. CASE ~tool.active
  BY <1>2, Zenon DEF Fails
<1> QED BY <1>1, <1>2

\* Going on, and failing, make a tool of a tool.
LEMMA StepType ==
    ASSUME tool \in Tools
    PROVE  /\ \A pc \in Pcs : Goes(pc) => tool' \in Tools
           /\ Fails => tool' \in Tools
<1>1. ASSUME NEW pc \in Pcs, Goes(pc) PROVE tool' \in Tools
  BY <1>1 DEF Tools, Goes
<1>2. ASSUME Fails PROVE tool' \in Tools
  <2>1. PICK pc \in {"unboot0", "end"} :
          tool' = [tool EXCEPT !.failing = TRUE, !.pc = pc]
    BY <1>2, FailsGoes
  <2>2. pc \in Pcs
    OBVIOUS
  <2> HIDE DEF Pcs, Entering, Restarting, Goals, Identities, Modes
  <2> QED BY <2>1, <2>2, ZenonT(60) DEF Tools
<1> QED BY <1>1, <1>2

-----------------------------------------------------------------------------
(***************************************************************************)
(* The inductive invariant                                                 *)
(***************************************************************************)

\* Some directory holds a verified image of the stock firmware.
Safe == \E d \in Dirs : dirs[d].manifest /\ dirs[d].image = "stock"

\* Where the tool is says why it is there: with a goal on the way into the
\* bootloader, with a directory while it backs up, with the golden bytes when
\* it stores them, and with a rollback image once it may write.
ToolInv ==
    /\ tool.pc \in Entering \cup {"identify"} => tool.goal # "none"
    /\ tool.pc \in {"first", "second", "store", "manifest"} => tool.goal = "backup"
    /\ tool.goal = "backup" => tool.dir \in Dirs
    /\ tool.pc = "store" => tool.read = "stock"
    /\ tool.pc = "write" => tool.goal = "write"
    /\ tool.pc = "confirm" \/ tool.goal = "write" => Safe

FlashInv == TypeOK /\ ToolInv /\ (wrote => Safe)

\* Every initial state satisfies the invariant.
LEMMA InitInv == Init => FlashInv
<1> SUFFICES ASSUME Init PROVE FlashInv
  OBVIOUS
<1>1. TypeOK
  <2>1. dirs \in [Dirs -> Directories]
    <3>1. /\ Absent \in Directories
          /\ [made |-> TRUE, image |-> "stock", manifest |-> TRUE] \in Directories
          /\ [made |-> TRUE, image |-> "engineering", manifest |-> TRUE]
                \in Directories
      BY DEF Directories, Absent, Images
    <3> QED BY <3>1 DEF Init
  <2>2. hat \in Hats
    BY DEF Init, Hats
  <2>3. runs \in 0..MaxRuns
    BY FlashAssumption DEF Init
  <2>4. tool \in Tools
    BY IdleIsTool DEF Init
  <2> QED BY <2>1, <2>2, <2>3, <2>4 DEF Init, TypeOK, Images
<1>2. ToolInv /\ (wrote => Safe)
  BY DEF Init, ToolInv, Idle
<1> QED BY <1>1, <1>2 DEF FlashInv

\* A step that leaves flash, HAT, directories and service alone keeps the
\* invariant if it keeps what is said of the tool.
LEMMA ToolOnlyInv ==
    ASSUME FlashInv, ToolOnly, tool' \in Tools, ToolInv'
    PROVE  FlashInv'
BY DEF FlashInv, TypeOK, ToolOnly, Safe

\* Failing keeps what is said of the tool.
LEMMA FailsInv ==
    ASSUME FlashInv, Fails, dirs' = dirs
    PROVE  tool' \in Tools /\ ToolInv'
<1>1. tool \in Tools /\ ToolInv
  BY DEF FlashInv, TypeOK
<1>2. tool' \in Tools
  BY <1>1, StepType
<1>3. /\ tool'.goal = tool.goal /\ tool'.dir = tool.dir
      /\ tool'.pc \in {"unboot0", "end"}
  BY <1>1, FailsGoes DEF Tools
<1>4. Safe => Safe'
  BY DEF Safe
<1> QED BY <1>1, <1>2, <1>3, <1>4 DEF ToolInv

\* Going on changes nothing else of the tool.
LEMMA GoesKeeps ==
    ASSUME tool \in Tools, NEW pc \in Pcs, Goes(pc)
    PROVE  /\ tool' \in Tools
           /\ tool'.pc = pc /\ tool'.goal = tool.goal
           /\ tool'.dir = tool.dir /\ tool'.read = tool.read
BY StepType DEF Tools, Goes

-----------------------------------------------------------------------------
(***************************************************************************)
(* The steps that change the tool only                                     *)
(***************************************************************************)

\* Looking for other owners, and at the identity.
LEMMA ProbeInv ==
    ASSUME FlashInv,
           CheckUart \/ \E heard, authorized \in BOOLEAN : Probe(heard, authorized)
    PROVE  FlashInv'
<1> USE DEF FlashInv, TypeOK
<1>1. ToolOnly /\ dirs' = dirs
  BY DEF CheckUart, Probe, ToolOnly
<1>2. CASE Fails
  BY <1>1, <1>2, FailsInv, ToolOnlyInv
<1>3. CASE Goes("probe")
  BY <1>1, <1>3, GoesKeeps, ToolOnlyInv DEF ToolInv, Safe
<1>4. ASSUME NEW pc \in {"end", "mkdir", "select"},
             tool' = [tool EXCEPT !.identity = Answer, !.pc = pc]
      PROVE  FlashInv'
  <2>1. tool' \in Tools
    BY <1>4, AnswerType, ToolType
  <2>2. ToolInv'
    BY <1>1, <1>4 DEF ToolInv, Safe, Tools
  <2> QED BY <1>1, <2>1, <2>2, ToolOnlyInv
<1>5. CASE CheckUart
  BY <1>2, <1>3, <1>5 DEF CheckUart
<1>6. ASSUME NEW heard \in BOOLEAN, NEW authorized \in BOOLEAN,
             Probe(heard, authorized)
      PROVE  FlashInv'
  <2>1. CASE tool.mode = "probe"
    BY <1>2, <1>4, <1>6, <2>1 DEF Probe
  <2>2. CASE tool.mode = "backup"
    BY <1>2, <1>4, <1>6, <2>2 DEF Probe
  <2>3. CASE tool.mode = "flash"
    BY <1>2, <1>4, <1>6, <2>3 DEF Probe
  <2> QED BY <2>1, <2>2, <2>3 DEF Tools
<1> QED BY <1>5, <1>6

\* Choosing the backup to rely on.
LEMMA SelectInv ==
    ASSUME FlashInv, SelectGiven \/ SelectNew \/ SelectFound
    PROVE  FlashInv'
<1> USE DEF FlashInv, TypeOK
<1>1. ToolOnly /\ dirs' = dirs
  BY DEF SelectGiven, SelectNew, SelectFound, ToolOnly
<1>2. CASE Fails
  BY <1>1, <1>2, FailsInv, ToolOnlyInv
<1>3. ASSUME NEW pc \in {"mkdir", "decide"}, Goes(pc) PROVE FlashInv'
  BY <1>1, <1>3, GoesKeeps, ToolOnlyInv DEF ToolInv, Safe
<1>4. ASSUME NEW d \in Dirs, tool' = [tool EXCEPT !.dir = d, !.pc = "decide"]
      PROVE  FlashInv'
  <2>1. tool' \in Tools
    BY <1>4 DEF Tools
  <2>2. ToolInv'
    BY <1>1, <1>4 DEF ToolInv, Safe, Tools
  <2> QED BY <1>1, <2>1, <2>2, ToolOnlyInv
<1>5. CASE SelectGiven
  <2>1. tool.given \in Dirs
    BY <1>5 DEF SelectGiven, Tools
  <2> QED BY <1>2, <1>4, <1>5, <2>1 DEF SelectGiven
<1>6. CASE SelectNew
  BY <1>3, <1>6 DEF SelectNew
<1>7. CASE SelectFound
  BY <1>3, <1>4, <1>7 DEF SelectFound
<1> QED BY <1>5, <1>6, <1>7

\* Inside the bootloader, up to the golden bytes of a backup.
LEMMA ReadInv ==
    ASSUME FlashInv,
           \/ \E heard \in BOOLEAN : Identify(heard)
           \/ ReadFirst \/ ReadSecond \/ Readback
    PROVE  FlashInv'
<1> USE DEF FlashInv, TypeOK
<1>1. ToolOnly /\ dirs' = dirs
  BY DEF Identify, ReadFirst, ReadSecond, Readback, ToolOnly
<1>2. CASE Fails
  BY <1>1, <1>2, FailsInv, ToolOnlyInv
<1>3. ASSUME NEW heard \in BOOLEAN, Identify(heard) PROVE FlashInv'
  <2>1. tool.pc = "identify" /\ tool.goal \in {"backup", "verify", "write"}
    BY <1>3 DEF Identify, ToolInv, Tools
  <2>2. CASE tool.goal = "backup" /\ Goes("first")
    BY <1>1, <2>2, GoesKeeps, ToolOnlyInv DEF ToolInv, Safe
  <2>3. CASE tool.goal = "verify" /\ Goes("readback")
    BY <1>1, <2>3, GoesKeeps, ToolOnlyInv DEF ToolInv, Safe
  <2>4. CASE tool.goal = "write" /\ Goes("write")
    BY <1>1, <2>4, GoesKeeps, ToolOnlyInv DEF ToolInv, Safe
  <2>5. CASE tool.goal = "backup"
    BY <1>2, <1>3, <2>2, <2>5 DEF Identify
  <2>6. CASE tool.goal = "verify"
    BY <1>2, <1>3, <2>3, <2>6 DEF Identify
  <2>7. CASE tool.goal = "write"
    BY <1>2, <1>3, <2>4, <2>7 DEF Identify
  <2> QED BY <2>1, <2>5, <2>6, <2>7
<1>4. CASE ReadFirst
  <2>1. ASSUME NEW r \in Reads, tool' = [tool EXCEPT !.read = r, !.pc = "second"]
        PROVE  FlashInv'
    <3>1. r \in Images \cup {"garbled"}
      BY DEF Reads
    <3>2. tool' \in Tools
      BY <2>1, <3>1, ZenonT(40) DEF Tools
    <3>3. ToolInv'
      BY <1>1, <1>4, <2>1 DEF ReadFirst, ToolInv, Safe, Tools
    <3> QED BY <1>1, <3>2, <3>3, ToolOnlyInv
  <2> QED BY <1>2, <1>4, <2>1 DEF ReadFirst
<1>5. CASE ReadSecond
  <2>1. CASE tool.read = "stock" /\ Goes("store")
    BY <1>1, <1>5, <2>1, GoesKeeps, ToolOnlyInv DEF ReadSecond, ToolInv, Safe
  <2> QED BY <1>2, <1>5, <2>1 DEF ReadSecond
<1>6. CASE Readback
  <2>1. CASE Goes("unboot0")
    BY <1>1, <2>1, GoesKeeps, ToolOnlyInv DEF ToolInv, Safe
  <2> QED BY <1>2, <1>6, <2>1 DEF Readback
<1> QED BY <1>3, <1>4, <1>5, <1>6

\* The decision, and the operator's word: only a verified backup leads to a
\* write.
LEMMA DecideInv ==
    ASSUME FlashInv,
           CheckBackup \/ Decide \/ \E yes \in BOOLEAN : Confirm(yes)
    PROVE  FlashInv'
<1> USE DEF FlashInv, TypeOK
<1>1. ToolOnly /\ dirs' = dirs
  BY DEF CheckBackup, Decide, Confirm, ToolOnly
<1>2. CASE Fails
  BY <1>1, <1>2, FailsInv, ToolOnlyInv
<1>3. ASSUME NEW pc \in {"end", "decide"}, Goes(pc) PROVE FlashInv'
  BY <1>1, <1>3, GoesKeeps, ToolOnlyInv DEF ToolInv, Safe
<1>4. CASE CheckBackup
  BY <1>2, <1>3, <1>4 DEF CheckBackup
<1>5. CASE Decide
  <2>1. CASE tool' = [tool EXCEPT !.goal = "verify", !.pc = "boot0"]
    <3>1. tool' \in Tools
      BY <2>1, ToolType
    <3>2. ToolInv'
      BY <1>1, <2>1 DEF ToolInv, Safe, Tools
    <3> QED BY <1>1, <3>1, <3>2, ToolOnlyInv
  <2>2. CASE tool.dir # NoDir /\ Verified(tool.dir) /\ Goes("confirm")
    <3>1. Safe
      BY <2>2 DEF Safe, Verified, Tools
    <3> QED BY <1>1, <2>2, <3>1, GoesKeeps, ToolOnlyInv DEF ToolInv, Safe
  <2> QED BY <1>2, <1>5, <2>1, <2>2 DEF Decide
<1>6. ASSUME NEW yes \in BOOLEAN, Confirm(yes) PROVE FlashInv'
  <2>1. CASE tool' = [tool EXCEPT !.goal = "write", !.pc = "boot0"]
    <3>1. tool' \in Tools
      BY <2>1, ToolType
    <3>2. Safe
      BY <1>6 DEF Confirm, ToolInv
    <3>3. ToolInv'
      BY <1>1, <2>1, <3>2 DEF ToolInv, Safe, Tools
    <3> QED BY <1>1, <3>1, <3>3, ToolOnlyInv
  <2> QED BY <1>2, <1>6, <2>1 DEF Confirm
<1> QED BY <1>4, <1>5, <1>6

-----------------------------------------------------------------------------
(***************************************************************************)
(* The steps that change more                                              *)
(***************************************************************************)

\* A tool that was reset, whatever its exit, owes nothing.
LEMMA ResetInv ==
    ASSUME NEW t \in Tools, t.pc \in {"off", "stop"}, t.goal = "none", tool' = t
    PROVE  tool' \in Tools /\ ToolInv'
BY DEF ToolInv

\* What a run begins with is such a tool.
LEMMA BeginTool ==
    ASSUME NEW m \in Modes, NEW f \in BOOLEAN, NEW g \in Dirs \cup {NoDir},
           NEW h \in {"app", "boot", "held"},
           tool' = [Idle EXCEPT !.pc = "stop", !.mode = m, !.force = f,
                                !.given = g, !.found = h]
    PROVE  tool' \in Tools /\ tool'.pc = "stop" /\ tool'.goal = "none"
<1> HIDE DEF Modes, Identities, Goals
<1> QED BY IdleIsTool, IdleOwesNothing DEF Tools

\* So is what it ends with, whether or not systemd starts the service; all that
\* is left is history.
LEMMA EndedIs ==
    ASSUME tool \in Tools, NEW t \in {Ended, [Ended EXCEPT !.refused = TRUE]}
    PROVE  /\ t \in Tools
           /\ t.pc = "off" /\ t.goal = "none"
           /\ t.found = tool.found /\ t.helper = tool.helper
           /\ t.exit = IF tool.failing THEN "fail" ELSE "pass"
<1> DEFINE e == IF tool.failing THEN "fail" ELSE "pass"
<1>1. /\ e \in {"fail", "pass"}
      /\ tool.found \in {"app", "boot", "held"} /\ tool.helper \in {"ok", "failed"}
  BY DEF Tools
<1>2. Ended = [Idle EXCEPT !.exit = e, !.found = tool.found, !.helper = tool.helper]
  BY DEF Ended
<1> HIDE DEF e, Pcs, Entering, Restarting, Goals, Identities, Modes
<1>3. /\ Ended \in Tools
      /\ Ended.pc = "off" /\ Ended.goal = "none" /\ Ended.exit = e
      /\ Ended.found = tool.found /\ Ended.helper = tool.helper
  BY <1>1, <1>2, IdleIsTool, IdleOwesNothing DEF Tools
<1>4. t \in Tools /\ t.pc = Ended.pc /\ t.goal = Ended.goal
      /\ t.found = Ended.found /\ t.helper = Ended.helper /\ t.exit = Ended.exit
  BY <1>3 DEF Tools
<1> QED BY <1>3, <1>4 DEF e

\* The service, whose start pulls at the lines.
LEMMA ServiceInv ==
    ASSUME FlashInv, ServiceStarts \/ ServiceFails
    PROVE  FlashInv'
<1> USE DEF FlashInv, TypeOK
<1>1. hat' \in Hats
  BY HatType DEF ServiceStarts, ServiceFails
<1>2. /\ service' \in {"active", "waiting", "inactive"}
      /\ UNCHANGED <<flash, dirs, tool, runs, record, wrote>>
  BY DEF ServiceStarts, ServiceFails
<1> QED BY <1>1, <1>2 DEF ToolInv, Safe

\* The beginning and the end of a run.
LEMMA RunInv ==
    ASSUME FlashInv,
           \/ \E mode \in Modes, force \in BOOLEAN, given \in Dirs \cup {NoDir} :
                 Begin(mode, force, given)
           \/ Finish \/ FinishRefused \/ Killed \/ PowerCycle
    PROVE  FlashInv'
<1> USE DEF FlashInv, TypeOK
<1>1. /\ UNCHANGED <<flash, dirs, record, wrote>>
      /\ service' \in {"active", "waiting", "inactive"}
  BY DEF Begin, Finish, FinishRefused, Killed, PowerCycle
<1>2. hat' \in Hats
  <2>1. CASE hat' = hat
    BY <2>1
  <2>2. CASE ApplicationRelease
    BY <2>2, HatType
  <2>3. CASE PowerCycle
    BY <2>3 DEF PowerCycle, Hats
  <2> QED BY <2>1, <2>2, <2>3 DEF Begin, Finish, FinishRefused, Killed
<1>3. runs' \in 0..MaxRuns
  <2>1. CASE runs' = runs
    BY <2>1
  <2>2. CASE runs < MaxRuns /\ runs' = runs + 1
    BY <2>2, FlashAssumption
  <2> QED BY <2>1, <2>2 DEF Begin, Finish, FinishRefused, Killed, PowerCycle
<1>4. tool' \in Tools /\ ToolInv'
  <2>1. ASSUME NEW mode \in Modes, NEW force \in BOOLEAN,
               NEW given \in Dirs \cup {NoDir}, Begin(mode, force, given)
        PROVE  tool' \in Tools /\ ToolInv'
    <3>1. hat.runs \in {"app", "boot", "held"}
      BY DEF Hats
    <3>2. tool' \in Tools /\ tool'.pc = "stop" /\ tool'.goal = "none"
      BY <2>1, <3>1, BeginTool DEF Begin
    <3> QED BY <3>2, ResetInv
  <2>2. CASE Finish \/ FinishRefused
    <3>1. tool' \in {Ended, [Ended EXCEPT !.refused = TRUE]}
      BY <2>2 DEF Finish, FinishRefused
    <3>2. tool' \in Tools /\ tool'.pc = "off" /\ tool'.goal = "none"
      BY <3>1, EndedIs
    <3> QED BY <3>2, ResetInv
  <2>3. CASE Killed \/ PowerCycle
    <3>1. tool' = [Idle EXCEPT !.exit = "killed"]
      BY <2>3 DEF Killed, PowerCycle
    <3>2. tool' \in Tools /\ tool'.pc = "off" /\ tool'.goal = "none"
      BY <3>1, IdleIsTool, IdleOwesNothing DEF Tools
    <3> QED BY <3>2, ResetInv
  <2> QED BY <2>1, <2>2, <2>3
<1> QED BY <1>1, <1>2, <1>3, <1>4 DEF Safe

\* Stopping the owners.
LEMMA OwnerStep ==
    ASSUME FlashInv, CheckOwner \/ StopOwner
    PROVE  FlashInv'
<1> USE DEF FlashInv, TypeOK
<1>1. /\ UNCHANGED <<flash, hat, dirs, runs, record, wrote>>
      /\ service' \in {"active", "waiting", "inactive"}
  BY DEF CheckOwner, StopOwner, ToolOnly
<1>2. tool' \in Tools /\ tool'.pc \in {"halt", "uart"}
      /\ tool'.goal = tool.goal /\ tool'.dir = tool.dir
  <2>1. CASE Goes("uart")
    BY <2>1, GoesKeeps
  <2>2. CASE tool' = [tool EXCEPT !.noted = TRUE, !.pc = "halt"]
    <3>1. tool' \in Tools
      BY <2>2, ToolNotes
    <3> QED BY <2>2, <3>1 DEF Tools
  <2>3. ASSUME NEW b \in BOOLEAN, tool' = [tool EXCEPT !.took = b, !.pc = "uart"]
        PROVE  tool' \in Tools /\ tool'.pc \in {"halt", "uart"}
               /\ tool'.goal = tool.goal /\ tool'.dir = tool.dir
    <3>1. tool' \in Tools
      BY <2>3, ToolNotes
    <3> QED BY <2>3, <3>1 DEF Tools
  <2>4. CASE tool' = [tool EXCEPT !.took = service # "inactive", !.pc = "uart"]
    <3>1. (service # "inactive") \in BOOLEAN
      OBVIOUS
    <3> QED BY <2>3, <2>4, <3>1
  <2> QED BY <2>1, <2>2, <2>4 DEF CheckOwner, StopOwner
<1> QED BY <1>1, <1>2 DEF ToolInv, Safe

\* What the end of application-restart makes of the tool.
LEMMA RestartedIs ==
    ASSUME tool \in Tools, NEW how \in {"ok", "failed"}, Restarted(how)
    PROVE  /\ tool' \in Tools
           /\ tool'.helper = how /\ tool'.goal = tool.goal /\ tool'.dir = tool.dir
           /\ tool'.failing = tool.failing /\ tool'.mode = tool.mode
           /\ tool'.found = tool.found /\ tool'.exit = tool.exit
           /\ tool'.noted = tool.noted /\ tool'.took = tool.took
           /\ tool'.pc = IF tool.failing THEN "end"
                         ELSE IF tool.goal = "backup" THEN "check" ELSE "post"
<1> DEFINE pc == IF tool.failing THEN "end"
                 ELSE IF tool.goal = "backup" THEN "check" ELSE "post"
<1>1. pc \in Pcs
  OBVIOUS
<1>2. tool' = [tool EXCEPT !.helper = how, !.active = FALSE, !.pc = pc]
  BY DEF Restarted
<1> HIDE DEF pc, Pcs, Entering, Restarting, Goals, Identities, Modes
<1>3. tool' \in Tools
  BY <1>1, <1>2 DEF Tools
<1>4. /\ tool'.helper = how /\ tool'.goal = tool.goal /\ tool'.dir = tool.dir
      /\ tool'.failing = tool.failing /\ tool'.mode = tool.mode
      /\ tool'.found = tool.found /\ tool'.exit = tool.exit
      /\ tool'.noted = tool.noted /\ tool'.took = tool.took /\ tool'.pc = pc
  BY <1>2 DEF Tools
<1> QED BY <1>3, <1>4 DEF pc

\* What a failing helper makes of the tool if the failure is raised.
LEMMA RaisedIs ==
    ASSUME tool \in Tools, NEW pc \in {"unboot0", "end"},
           tool' = [tool EXCEPT !.helper = "failed", !.failing = TRUE, !.pc = pc]
    PROVE  /\ tool' \in Tools
           /\ tool'.pc = pc /\ tool'.helper = "failed" /\ tool'.failing
           /\ tool'.goal = tool.goal /\ tool'.dir = tool.dir
           /\ tool'.found = tool.found /\ tool'.exit = tool.exit
           /\ tool'.noted = tool.noted /\ tool'.took = tool.took
<1>1. pc \in Pcs
  OBVIOUS
<1> HIDE DEF Pcs, Entering, Restarting, Goals, Identities, Modes
<1> QED BY <1>1 DEF Tools

\* The two ways a failing application-restart goes.
LEMMA RestartBreaksGoes ==
    ASSUME RestartBreaks
    PROVE  \/ Restarted("failed") /\ Cleaning
           \/ \E pc \in {"unboot0", "end"} :
                 tool' = [tool EXCEPT !.helper = "failed", !.failing = TRUE,
                                      !.pc = pc]
<1>1. CASE Restarted("failed") /\ Cleaning
  BY <1>1
<1>2. CASE tool' = [tool EXCEPT !.helper = "failed", !.failing = TRUE,
                                !.pc = IF Cleaning THEN "end" ELSE "unboot0"]
  <2>1. CASE Cleaning
    BY <1>2, <2>1, Zenon
  <2>2. CASE ~Cleaning
    BY <1>2, <2>2, Zenon
  <2> QED BY <2>1, <2>2
<1> QED BY <1>1, <1>2 DEF RestartBreaks

\* The pulses on the lines, and how the helper ends.
LEMMA LineInv ==
    ASSUME FlashInv,
           \/ EnterBoot0 \/ EnterPull \/ EnterRelease \/ Entered \/ EntryFails
           \/ RestartBoot0 \/ RestartPull \/ RestartRelease
           \/ RestartEnds \/ RestartBreaks
    PROVE  FlashInv'
<1> USE DEF FlashInv, TypeOK
<1>1. UNCHANGED <<flash, dirs, service, runs, record, wrote>>
  BY DEF EnterBoot0, EnterPull, EnterRelease, Entered, EntryFails, RestartBoot0,
         RestartPull, RestartRelease, RestartEnds, RestartBreaks, ToolOnly
<1>2. hat' \in Hats
  BY HatType DEF EnterBoot0, EnterPull, EnterRelease, Entered, EntryFails,
                 RestartBoot0, RestartPull, RestartRelease, RestartEnds,
                 RestartBreaks, ToolOnly
<1>3. tool' \in Tools /\ ToolInv'
  <2>1. CASE EnterBoot0 \/ EnterPull \/ EnterRelease
    <3>1. PICK pc \in {"pull", "release", "entered"} : Goes(pc)
      BY <2>1 DEF EnterBoot0, EnterPull, EnterRelease
    <3>2. tool.goal # "none"
      BY <2>1 DEF EnterBoot0, EnterPull, EnterRelease, ToolInv
    <3> QED BY <1>1, <3>1, <3>2, GoesKeeps DEF ToolInv, Safe
  <2>2. CASE Entered
    <3>1. /\ tool' = [tool EXCEPT !.active = TRUE, !.helper = "ok",
                                  !.pc = "identify"]
          /\ tool.goal # "none"
      BY <2>2 DEF Entered, ToolInv
    <3>2. tool' \in Tools
      BY <3>1, ToolNotes
    <3> QED BY <1>1, <3>1, <3>2 DEF ToolInv, Safe, Tools
  <2>3. ASSUME NEW pc \in {"unboot0", "end"},
               tool' = [tool EXCEPT !.helper = "failed", !.failing = TRUE,
                                    !.pc = pc]
        PROVE  tool' \in Tools /\ ToolInv'
    BY <1>1, <2>3, RaisedIs DEF ToolInv, Safe
  <2>4. CASE EntryFails
    BY <2>3, <2>4 DEF EntryFails
  <2>5. CASE RestartBoot0 \/ RestartPull \/ RestartRelease
    <3>1. PICK pc \in {"repull", "rerelease", "restarted"} : Goes(pc)
      BY <2>5 DEF RestartBoot0, RestartPull, RestartRelease
    <3> QED BY <1>1, <3>1, GoesKeeps DEF ToolInv, Safe
  <2>6. ASSUME NEW how \in {"ok", "failed"}, Restarted(how)
        PROVE  tool' \in Tools /\ ToolInv'
    <3>1. /\ tool' \in Tools
          /\ tool'.goal = tool.goal /\ tool'.dir = tool.dir
          /\ tool'.pc \in {"end", "check", "post"}
      BY <2>6, RestartedIs
    <3> QED BY <1>1, <3>1 DEF ToolInv, Safe
  <2>7. CASE RestartEnds
    BY <2>6, <2>7 DEF RestartEnds
  <2>8. CASE RestartBreaks
    BY <2>3, <2>6, <2>8, RestartBreaksGoes
  <2> QED BY <2>1, <2>2, <2>4, <2>5, <2>7, <2>8
<1> QED BY <1>1, <1>2, <1>3 DEF Safe

\* An exception between two other steps.
LEMMA InterruptedInv ==
    ASSUME FlashInv, Interrupted
    PROVE  FlashInv'
<1>1. ToolOnly /\ Fails /\ dirs' = dirs
  BY DEF Interrupted, ToolOnly
<1> QED BY <1>1, FailsInv, ToolOnlyInv

\* The steps of a backup: a directory that had a verified image keeps it.
LEMMA BackupInv ==
    ASSUME FlashInv,
           StoreImage \/ WriteManifest \/ \E d \in Dirs : MakeDir(d)
    PROVE  FlashInv'
<1> USE DEF FlashInv, TypeOK
<1>1. UNCHANGED <<flash, hat, service, runs, record, wrote>>
  BY DEF StoreImage, WriteManifest, MakeDir
<1>2. ASSUME NEW d \in Dirs, MakeDir(d) PROVE FlashInv'
  <2>1. dirs' = [dirs EXCEPT ![d].made = TRUE]
    BY <1>2 DEF MakeDir
  <2>2. dirs' \in [Dirs -> Directories]
    BY <2>1 DEF Directories
  <2>3. \A x \in Dirs : dirs'[x].manifest = dirs[x].manifest
                        /\ dirs'[x].image = dirs[x].image
    BY <2>1 DEF Directories
  <2>4. Safe => Safe'
    BY <2>3 DEF Safe
  <2>5. tool' = [tool EXCEPT !.dir = d, !.goal = "backup", !.pc = "boot0"]
    BY <1>2 DEF MakeDir
  <2>6. tool' \in Tools
    BY <2>5, ToolTakesDir
  <2>7. ToolInv'
    BY <2>5, <2>4 DEF ToolInv, Tools
  <2> QED BY <1>1, <2>2, <2>4, <2>6, <2>7
<1>3. CASE StoreImage
  <2>1. /\ tool.dir \in Dirs /\ tool.read = "stock" /\ tool.goal = "backup"
        /\ dirs' = [dirs EXCEPT ![tool.dir].image = "stock"]
    BY <1>3 DEF StoreImage, ToolInv
  <2>2. dirs' \in [Dirs -> Directories]
    BY <2>1 DEF Directories, Images
  <2>3. \A x \in Dirs : /\ dirs'[x].manifest = dirs[x].manifest
                        /\ dirs[x].image = "stock" => dirs'[x].image = "stock"
    BY <2>1 DEF Directories
  <2>4. Safe => Safe'
    BY <2>3 DEF Safe
  <2>5. Goes("manifest")
    BY <1>3 DEF StoreImage
  <2>6. tool' \in Tools /\ ToolInv'
    BY <2>1, <2>4, <2>5, GoesKeeps DEF ToolInv
  <2> QED BY <1>1, <2>2, <2>4, <2>6
<1>4. CASE WriteManifest
  <2>1. /\ tool.dir \in Dirs
        /\ dirs' = [dirs EXCEPT ![tool.dir].manifest = TRUE]
    BY <1>4 DEF WriteManifest, ToolInv
  <2>2. dirs' \in [Dirs -> Directories]
    BY <2>1 DEF Directories
  <2>3. \A x \in Dirs : /\ dirs[x].manifest => dirs'[x].manifest
                        /\ dirs'[x].image = dirs[x].image
    BY <2>1 DEF Directories
  <2>4. Safe => Safe'
    BY <2>3 DEF Safe
  <2>5. Goes("unboot0")
    BY <1>4 DEF WriteManifest
  <2>6. tool' \in Tools /\ ToolInv'
    BY <2>4, <2>5, GoesKeeps DEF ToolInv
  <2> QED BY <1>1, <2>2, <2>4, <2>6
<1> QED BY <1>2, <1>3, <1>4

\* The write itself, which its goal protects, and the last probe.
LEMMA WriteInv ==
    ASSUME FlashInv,
           \/ WriteBegins
           \/ \E image \in {"product", "partial", "torn"} : WriteEnds(image)
           \/ \E heard \in BOOLEAN : PostProbe(heard)
    PROVE  FlashInv'
<1> USE DEF FlashInv, TypeOK
<1>1. UNCHANGED <<hat, dirs, service, runs>>
  BY DEF WriteBegins, WriteEnds, PostProbe
<1>2. Safe => Safe'
  BY <1>1 DEF Safe
<1>3. flash' \in Images /\ record' \in BOOLEAN
  BY DEF WriteBegins, WriteEnds, PostProbe, Images
<1>4. tool' \in Tools /\ ToolInv'
  <2>1. CASE Fails
    BY <1>1, <2>1, FailsInv
  <2>2. ASSUME NEW pc \in {"writing", "readback", "end"}, Goes(pc)
        PROVE  tool' \in Tools /\ ToolInv'
    BY <1>2, <2>2, GoesKeeps DEF ToolInv
  <2> QED BY <2>1, <2>2 DEF WriteBegins, WriteEnds, PostProbe
<1>5. wrote' \in BOOLEAN /\ (wrote' => Safe)
  <2>1. CASE WriteBegins
    BY <2>1 DEF WriteBegins, ToolInv
  <2>2. CASE wrote' = wrote
    BY <2>2
  <2> QED BY <2>1, <2>2 DEF WriteEnds, PostProbe
<1> QED BY <1>1, <1>2, <1>3, <1>4, <1>5

-----------------------------------------------------------------------------
(***************************************************************************)
(* What the tool leaves behind                                             *)
(***************************************************************************)

\* The places before the bootloader is entered and after it was left, where
\* an exception ends the tool without a restart of the application.
Outside == {"stop", "halt", "uart", "probe", "select", "mkdir", "check",
            "decide", "confirm", "post", "end"}

\* The places where an exception restarts the application.
Inside == {"identify", "first", "second", "store", "manifest", "write",
           "writing", "readback"}

\* The processor rests while RESET is low.  Outside, and after a run that ended
\* by itself, it runs the application or what the run found, unless the helper
\* failed last.  Inside, the tool knows that it entered the bootloader.  On the
\* way out BOOT0 selects the application, RESET stops the ROM, and in the end
\* the application runs.
BootInv ==
    /\ hat.runs = "held" <=> hat.reset = "low"
    /\ tool.pc # "off" => tool.exit = "none"
    /\ tool.pc \in Outside \/ tool.exit \in {"pass", "fail"}
       => hat.runs \in {"app", tool.found} \/ tool.helper = "failed"
    /\ tool.pc \in Inside => tool.active
    /\ tool.pc \in {"repull", "rerelease"} => hat.boot0 = "low"
    /\ tool.pc = "rerelease" => hat.runs # "boot"
    /\ tool.pc = "restarted" => hat.runs = "app"

\* Leaving the bootloader in order, and not from a backup, means that the
\* product was read back; ending flash mode in order, that it answered too.
DeployInv ==
    /\ tool.pc \in Restarting \cup {"post"}
         /\ ~tool.failing /\ tool.goal # "backup"
       => flash = "product"
    /\ tool.pc = "post" => tool.goal # "backup"
    /\ tool.pc = "end" /\ ~tool.failing /\ tool.mode = "flash"
       => flash = "product" /\ hat.runs = "app" /\ record

\* A service that was taken down was noted before.
OwnerInv ==
    /\ tool.pc = "halt" => tool.noted
    /\ tool.pc # "off" /\ tool.took => tool.noted

TrailInv == BootInv /\ DeployInv /\ OwnerInv

\* What a run remembers, and the part of the tool that going on leaves alone.
Remembered == /\ tool'.found = tool.found /\ tool'.exit = tool.exit
              /\ tool'.helper = tool.helper
              /\ tool'.noted = tool.noted /\ tool'.took = tool.took
Kept == /\ tool'.active = tool.active /\ tool'.failing = tool.failing
        /\ tool'.mode = tool.mode /\ Remembered

\* Going on leaves it alone.
LEMMA GoesKeepsRest ==
    ASSUME tool \in Tools, NEW pc \in Pcs, Goes(pc)
    PROVE  tool'.pc = pc /\ tool'.goal = tool.goal /\ Kept
BY DEF Tools, Goes, Kept, Remembered

\* An exception goes where the flag says.
LEMMA FailsKeepsRest ==
    ASSUME tool \in Tools, Fails
    PROVE  /\ tool'.failing /\ tool'.goal = tool.goal /\ Remembered
           /\ tool'.pc = IF tool.active THEN "unboot0" ELSE "end"
<1>1. CASE tool.active
  BY <1>1 DEF Fails, Tools, Remembered
<1>2. CASE ~tool.active
  BY <1>2 DEF Fails, Tools, Remembered
<1> QED BY <1>1, <1>2

\* An exception outside or inside leaves a good trail.
LEMMA FailsTrail ==
    ASSUME FlashInv, TrailInv, Fails, tool.pc \in Outside \cup Inside,
           hat' = hat
    PROVE  TrailInv'
<1>1. tool \in Tools
  BY DEF FlashInv, TypeOK
<1>2. /\ tool'.failing /\ Remembered
      /\ tool'.pc = IF tool.active THEN "unboot0" ELSE "end"
  BY <1>1, FailsKeepsRest
<1>3. tool.exit = "none" /\ (tool.pc \in Inside => tool.active)
      /\ (tool.pc \in Outside
          => hat.runs \in {"app", tool.found} \/ tool.helper = "failed")
  BY DEF TrailInv, BootInv, Outside, Inside
<1>4. BootInv'
  BY <1>2, <1>3 DEF TrailInv, BootInv, Outside, Inside, Remembered
<1>5. DeployInv' /\ OwnerInv'
  BY <1>2, <1>3 DEF TrailInv, DeployInv, OwnerInv, Outside, Inside, Remembered
<1> QED BY <1>4, <1>5 DEF TrailInv

\* A step from one place outside to another, that is not the end.
LEMMA OutsideTrail ==
    ASSUME FlashInv, TrailInv, hat' = hat, Remembered,
           tool.pc \in Outside, tool'.pc \in Outside \ {"halt", "post", "end"}
    PROVE  TrailInv'
<1>1. BootInv'
  BY DEF TrailInv, BootInv, Outside, Inside, Remembered
<1>2. DeployInv' /\ OwnerInv'
  BY DEF TrailInv, BootInv, DeployInv, OwnerInv, Outside, Inside, Remembered
<1> QED BY <1>1, <1>2 DEF TrailInv

\* A step from outside to the first place of bootloader-entry.
LEMMA EnteringTrail ==
    ASSUME FlashInv, TrailInv, hat' = hat, Remembered,
           tool.pc \in Outside, tool'.pc = "boot0"
    PROVE  TrailInv'
BY DEF TrailInv, BootInv, DeployInv, OwnerInv, Outside, Inside, Remembered

\* A step from outside to the end of a probe or a backup.
LEMMA EndTrail ==
    ASSUME FlashInv, TrailInv, hat' = hat, Remembered,
           tool.pc \in Outside, tool'.pc = "end", tool'.mode # "flash"
    PROVE  TrailInv'
BY DEF TrailInv, BootInv, DeployInv, OwnerInv, Outside, Inside, Remembered

\* A step from one place inside to another.
LEMMA InsideTrail ==
    ASSUME FlashInv, TrailInv, tool.pc \in Inside, tool'.pc \in Inside,
           hat' = hat, tool'.active = tool.active, Remembered
    PROVE  TrailInv'
BY DEF TrailInv, BootInv, DeployInv, OwnerInv, Outside, Inside, Remembered

\* Noting and stopping the service.
LEMMA OwnerTrail ==
    ASSUME FlashInv, TrailInv, CheckOwner \/ StopOwner
    PROVE  TrailInv'
<1>1. tool \in Tools /\ hat' = hat
  BY DEF FlashInv, TypeOK, CheckOwner, StopOwner, ToolOnly
<1>2. tool.pc \in {"stop", "halt"} /\ (tool.pc = "halt" => tool.noted)
  BY DEF CheckOwner, StopOwner, TrailInv, OwnerInv
<1>3. /\ tool'.found = tool.found /\ tool'.exit = tool.exit
      /\ tool'.helper = tool.helper
      /\ tool'.pc \in {"halt", "uart"}
      /\ tool'.pc = "halt" => tool'.noted
      /\ tool.noted => tool'.noted
      /\ tool'.took => tool.took \/ tool.pc = "halt"
  <2>1. CASE Goes("uart")
    BY <1>1, <2>1, GoesKeepsRest DEF Kept, Remembered
  <2>2. CASE tool' = [tool EXCEPT !.noted = TRUE, !.pc = "halt"]
    BY <1>1, <2>2 DEF Tools
  <2>3. CASE tool' = [tool EXCEPT !.took = service # "inactive", !.pc = "uart"]
             /\ tool.pc = "halt"
    BY <1>1, <2>3 DEF Tools
  <2> QED BY <2>1, <2>2, <2>3 DEF CheckOwner, StopOwner
<1>4. BootInv'
  BY <1>1, <1>2, <1>3 DEF TrailInv, BootInv, Outside, Inside
<1>5. DeployInv' /\ OwnerInv'
  BY <1>1, <1>2, <1>3 DEF TrailInv, DeployInv, OwnerInv
<1> QED BY <1>4, <1>5 DEF TrailInv

\* The steps before the decision.
LEMMA EarlyTrail ==
    ASSUME FlashInv, TrailInv,
           \/ CheckUart
           \/ \E heard, authorized \in BOOLEAN : Probe(heard, authorized)
           \/ SelectGiven \/ SelectNew \/ SelectFound
           \/ \E d \in Dirs : MakeDir(d)
    PROVE  TrailInv'
<1>1. tool \in Tools /\ hat' = hat
  BY DEF FlashInv, TypeOK, CheckUart, Probe, SelectGiven, SelectNew,
         SelectFound, MakeDir, ToolOnly
<1>2. tool.pc \in Outside
  BY DEF CheckUart, Probe, SelectGiven, SelectNew, SelectFound,
         MakeDir, Outside
<1>3. CASE Fails
  BY <1>1, <1>2, <1>3, FailsTrail
<1>4. ASSUME tool'.pc \in {"probe", "select", "mkdir", "decide"}, Remembered
      PROVE  TrailInv'
  BY <1>1, <1>2, <1>4, OutsideTrail DEF Outside
<1>6. CASE CheckUart
  BY <1>1, <1>3, <1>4, <1>6, GoesKeepsRest DEF CheckUart, Kept
<1>7. ASSUME NEW heard \in BOOLEAN, NEW authorized \in BOOLEAN,
             Probe(heard, authorized)
      PROVE  TrailInv'
  <2>1. CASE tool.mode = "probe" /\ ~Fails
    <3>1. tool' = [tool EXCEPT !.identity = Answer, !.pc = "end"]
      BY <1>7, <2>1 DEF Probe
    <3>2. tool'.pc = "end" /\ tool'.mode = "probe" /\ Remembered
      BY <1>1, <2>1, <3>1 DEF Tools, Remembered
    <3> QED BY <1>1, <1>2, <3>2, EndTrail
  <2>2. CASE tool.mode # "probe" /\ ~Fails
    <3>1. PICK pc \in {"mkdir", "select"} :
            tool' = [tool EXCEPT !.identity = Answer, !.pc = pc]
      <4>1. CASE tool.mode = "backup"
        BY <1>7, <2>2, <4>1 DEF Probe
      <4>2. CASE tool.mode = "flash"
        BY <1>7, <2>2, <4>2 DEF Probe
      <4> QED BY <1>1, <2>2, <4>1, <4>2 DEF Tools
    <3>2. tool'.pc = pc /\ Remembered
      BY <1>1, <3>1 DEF Tools, Remembered
    <3> QED BY <1>4, <3>2
  <2> QED BY <1>3, <2>1, <2>2
<1>8. CASE SelectGiven
  BY <1>1, <1>3, <1>4, <1>8 DEF SelectGiven, Tools, Remembered
<1>9. CASE SelectNew
  BY <1>1, <1>4, <1>9, GoesKeepsRest DEF SelectNew, Kept
<1>10. CASE SelectFound
  <2>1. ASSUME NEW d \in Dirs, tool' = [tool EXCEPT !.dir = d, !.pc = "decide"]
        PROVE  TrailInv'
    BY <1>1, <1>4, <2>1 DEF Tools, Remembered
  <2>2. CASE Goes("decide")
    BY <1>1, <1>4, <2>2, GoesKeepsRest DEF Kept
  <2> QED BY <1>10, <2>1, <2>2 DEF SelectFound
<1>11. ASSUME NEW d \in Dirs, MakeDir(d) PROVE TrailInv'
  <2>1. tool'.pc = "boot0" /\ Remembered
    BY <1>1, <1>11 DEF MakeDir, Tools, Remembered
  <2> QED BY <1>1, <1>2, <2>1, EnteringTrail
<1> QED BY <1>6, <1>7, <1>8, <1>9, <1>10, <1>11

\* The check of a new backup, the decision and the operator's word.
LEMMA DecideTrail ==
    ASSUME FlashInv, TrailInv,
           CheckBackup \/ Decide \/ \E yes \in BOOLEAN : Confirm(yes)
    PROVE  TrailInv'
<1>1. tool \in Tools /\ hat' = hat
  BY DEF FlashInv, TypeOK, CheckBackup, Decide, Confirm, ToolOnly
<1>2. tool.pc \in Outside
  BY DEF CheckBackup, Decide, Confirm, Outside
<1>3. CASE Fails
  BY <1>1, <1>2, <1>3, FailsTrail
<1>4. ASSUME NEW pc \in {"decide", "confirm"}, Goes(pc) PROVE TrailInv'
  <2>1. tool'.pc = pc /\ Remembered
    BY <1>1, <1>4, GoesKeepsRest DEF Kept
  <2> QED BY <1>1, <1>2, <2>1, OutsideTrail DEF Outside
<1>5. ASSUME NEW g \in Goals, tool' = [tool EXCEPT !.goal = g, !.pc = "boot0"]
      PROVE  TrailInv'
  <2>1. tool'.pc = "boot0" /\ Remembered
    BY <1>1, <1>5 DEF Tools, Remembered
  <2> QED BY <1>1, <1>2, <2>1, EnteringTrail
<1>6. CASE CheckBackup
  <2>1. CASE tool.mode = "backup" /\ Goes("end")
    <3>1. tool'.pc = "end" /\ tool'.mode = "backup" /\ Remembered
      BY <1>1, <2>1, GoesKeepsRest DEF Kept
    <3> QED BY <1>1, <1>2, <3>1, EndTrail
  <2> QED BY <1>3, <1>4, <1>6, <2>1 DEF CheckBackup
<1>7. CASE Decide
  BY <1>3, <1>4, <1>5, <1>7 DEF Decide
<1>8. ASSUME NEW yes \in BOOLEAN, Confirm(yes) PROVE TrailInv'
  BY <1>3, <1>5, <1>8 DEF Confirm
<1> QED BY <1>6, <1>7, <1>8

\* The steps inside: reads, the files of a backup, the write.
LEMMA InsideSteps ==
    ASSUME FlashInv, TrailInv,
           \/ \E heard \in BOOLEAN : Identify(heard)
           \/ ReadFirst \/ ReadSecond \/ StoreImage \/ WriteManifest
           \/ WriteBegins \/ Readback
           \/ \E image \in {"product", "partial", "torn"} : WriteEnds(image)
    PROVE  TrailInv'
<1>1. tool \in Tools /\ hat' = hat
  BY DEF FlashInv, TypeOK, Identify, ReadFirst, ReadSecond, StoreImage,
         WriteManifest, WriteBegins, Readback, WriteEnds, ToolOnly
<1>2. tool.pc \in Inside
  BY DEF Identify, ReadFirst, ReadSecond, StoreImage, WriteManifest,
         WriteBegins, Readback, WriteEnds, Inside
<1>3. CASE Fails
  BY <1>1, <1>2, <1>3, FailsTrail
<1>4. ASSUME NEW pc \in Inside, Goes(pc) PROVE TrailInv'
  <2>1. tool'.pc = pc /\ tool'.active = tool.active /\ Remembered
    BY <1>1, <1>4, GoesKeepsRest DEF Kept, Inside
  <2> QED BY <1>1, <1>2, <1>4, <2>1, InsideTrail
<1>5. ASSUME Goes("unboot0"), tool.goal = "backup" \/ flash' = "product"
      PROVE  TrailInv'
  <2>1. tool'.pc = "unboot0" /\ tool'.goal = tool.goal /\ Remembered
    BY <1>1, <1>5, GoesKeepsRest DEF Kept
  <2> QED BY <1>1, <1>2, <1>5, <2>1
        DEF TrailInv, BootInv, DeployInv, OwnerInv, Outside, Inside, Remembered
<1>6. ASSUME NEW heard \in BOOLEAN, Identify(heard) PROVE TrailInv'
  <2>1. CASE tool.goal = "backup"
    BY <1>3, <1>4, <1>6, <2>1 DEF Identify, Inside
  <2>2. CASE tool.goal = "verify"
    BY <1>3, <1>4, <1>6, <2>2 DEF Identify, Inside
  <2>3. CASE tool.goal \notin {"backup", "verify"}
    BY <1>3, <1>4, <1>6, <2>3 DEF Identify, Inside
  <2> QED BY <2>1, <2>2, <2>3
<1>7. CASE ReadFirst
  <2>1. ASSUME NEW r \in Reads, tool' = [tool EXCEPT !.read = r, !.pc = "second"]
        PROVE  TrailInv'
    <3>1. tool'.pc = "second" /\ tool'.active = tool.active /\ Remembered
      BY <1>1, <2>1 DEF Tools, Remembered
    <3> QED BY <1>1, <1>2, <3>1, InsideTrail DEF Inside
  <2> QED BY <1>3, <1>7, <2>1 DEF ReadFirst
<1>8. CASE ReadSecond
  BY <1>3, <1>4, <1>8 DEF ReadSecond, Inside
<1>9. CASE StoreImage
  BY <1>4, <1>9 DEF StoreImage, Inside
<1>10. CASE WriteManifest
  BY <1>5, <1>10 DEF WriteManifest, FlashInv, ToolInv
<1>11. CASE WriteBegins
  BY <1>3, <1>4, <1>11 DEF WriteBegins, Inside
<1>12. CASE Readback
  BY <1>3, <1>5, <1>12 DEF Readback, Reads, ToolOnly
<1>13. ASSUME NEW image \in {"product", "partial", "torn"}, WriteEnds(image)
       PROVE  TrailInv'
  BY <1>3, <1>4, <1>13 DEF WriteEnds, Inside
<1> QED BY <1>6, <1>7, <1>8, <1>9, <1>10, <1>11, <1>12, <1>13

\* What runs once RESET is high: the application, if BOOT0 says so.
LEMMA ResetHighRuns ==
    ASSUME hat \in Hats, ResetHigh, hat.runs = "held" <=> hat.reset = "low"
    PROVE  /\ hat'.reset = "high" /\ hat'.runs # "held"
           /\ hat.boot0 = "low" /\ hat.runs # "boot" => hat'.runs = "app"
<1>1. CASE hat.reset = "high"
  BY <1>1 DEF ResetHigh, Hats
<1>2. CASE hat.reset # "high" /\ hat.boot0 = "high"
  BY <1>2 DEF ResetHigh, Hats
<1>3. CASE hat.reset # "high" /\ hat.boot0 # "high"
  BY <1>3 DEF ResetHigh, Hats
<1> QED BY <1>1, <1>2, <1>3

\* The way into the bootloader, on which nothing is promised.
LEMMA EntryTrail ==
    ASSUME FlashInv, TrailInv,
           \/ EnterBoot0 \/ EnterPull \/ EnterRelease \/ Entered \/ EntryFails
    PROVE  TrailInv'
<1> USE DEF TrailInv, BootInv, DeployInv, OwnerInv, Outside, Inside
<1>1. tool \in Tools /\ hat \in Hats
  BY DEF FlashInv, TypeOK
<1>2. CASE EnterBoot0 \/ EnterPull \/ EnterRelease
  <2>1. PICK pc \in {"pull", "release", "entered"} : Goes(pc)
    BY <1>2 DEF EnterBoot0, EnterPull, EnterRelease
  <2>2. tool'.pc = pc /\ Remembered
    BY <1>1, <2>1, GoesKeepsRest DEF Kept
  <2>3. hat'.runs = "held" <=> hat'.reset = "low"
    <3>1. CASE EnterBoot0
      BY <1>1, <3>1 DEF EnterBoot0, SetBoot0, Hats
    <3>2. CASE EnterPull
      BY <1>1, <3>2 DEF EnterPull, ResetLow, Hats
    <3>3. CASE EnterRelease
      BY <1>1, <3>3, ResetHighRuns DEF EnterRelease
    <3> QED BY <1>2, <3>1, <3>2, <3>3
  <2>4. tool.exit = "none"
    BY <1>2 DEF EnterBoot0, EnterPull, EnterRelease
  <2>5. tool.took => tool.noted
    BY <1>2 DEF EnterBoot0, EnterPull, EnterRelease
  <2> QED BY <2>1, <2>2, <2>3, <2>4, <2>5 DEF Remembered
<1>3. CASE Entered
  <2>1. /\ tool.pc = "entered" /\ tool'.pc = "identify" /\ tool'.active
        /\ tool'.exit = tool.exit /\ tool'.found = tool.found
        /\ tool'.noted = tool.noted /\ tool'.took = tool.took /\ hat' = hat
    BY <1>1, <1>3 DEF Entered, Tools, ToolOnly
  <2> QED BY <2>1
<1>4. CASE EntryFails
  <2>1. /\ tool.pc \in Entering /\ tool'.pc = "end" /\ tool'.helper = "failed"
        /\ tool'.failing /\ tool'.exit = tool.exit
        /\ tool'.noted = tool.noted /\ tool'.took = tool.took /\ hat' = hat
    BY <1>1, <1>4, RaisedIs DEF EntryFails, ToolOnly
  <2> QED BY <2>1
<1> QED BY <1>2, <1>3, <1>4

\* The way out: the pulse with BOOT0 low.
LEMMA RestartTrail ==
    ASSUME FlashInv, TrailInv, RestartBoot0 \/ RestartPull \/ RestartRelease
    PROVE  TrailInv'
<1> USE DEF TrailInv, BootInv, DeployInv, OwnerInv, Outside, Inside
<1>1. tool \in Tools /\ hat \in Hats /\ flash' = flash
  BY DEF FlashInv, TypeOK, RestartBoot0, RestartPull, RestartRelease
<1>2. CASE RestartBoot0
  <2>1. /\ tool.pc = "unboot0" /\ tool'.pc = "repull" /\ Kept
        /\ tool'.goal = tool.goal
        /\ hat'.boot0 = "low" /\ hat'.runs = hat.runs /\ hat'.reset = hat.reset
    BY <1>1, <1>2, GoesKeepsRest DEF RestartBoot0, SetBoot0, Hats
  <2> QED BY <1>1, <2>1 DEF Kept, Remembered
<1>3. CASE RestartPull
  <2>1. /\ tool.pc = "repull" /\ tool'.pc = "rerelease" /\ Kept
        /\ tool'.goal = tool.goal
        /\ hat'.boot0 = hat.boot0 /\ hat'.runs = "held" /\ hat'.reset = "low"
    BY <1>1, <1>3, GoesKeepsRest DEF RestartPull, ResetLow, Hats
  <2> QED BY <1>1, <2>1 DEF Kept, Remembered
<1>4. CASE RestartRelease
  <2>1. tool.pc = "rerelease" /\ tool'.pc = "restarted" /\ Kept
        /\ tool'.goal = tool.goal
    BY <1>1, <1>4, GoesKeepsRest DEF RestartRelease
  <2>2. hat'.runs = "app" /\ hat'.reset = "high"
    BY <1>1, <1>4, <2>1, ResetHighRuns DEF RestartRelease, Hats
  <2> QED BY <1>1, <2>1, <2>2 DEF Kept, Remembered
<1> QED BY <1>2, <1>3, <1>4

\* How the way out ends: with the application running, or with the helper
\* failed.
LEMMA RestartedTrail ==
    ASSUME FlashInv, TrailInv, RestartEnds \/ RestartBreaks
    PROVE  TrailInv'
<1> USE DEF TrailInv, BootInv, DeployInv, OwnerInv, Outside, Inside
<1>1. /\ tool \in Tools /\ hat' = hat /\ flash' = flash
      /\ tool.pc \in Restarting
  BY DEF FlashInv, TypeOK, RestartEnds, RestartBreaks, ToolOnly
<1>2. tool.exit = "none" /\ (tool.took => tool.noted)
      /\ (~tool.failing /\ tool.goal # "backup" => flash = "product")
  BY <1>1
<1>3. ASSUME NEW how \in {"ok", "failed"}, Restarted(how),
             hat.runs = "app" \/ how = "failed", how = "failed" => Cleaning
      PROVE  TrailInv'
  <2>1. /\ tool'.helper = how /\ tool'.goal = tool.goal
        /\ tool'.failing = tool.failing /\ tool'.exit = tool.exit
        /\ tool'.noted = tool.noted /\ tool'.took = tool.took
        /\ tool'.pc = IF tool.failing THEN "end"
                      ELSE IF tool.goal = "backup" THEN "check" ELSE "post"
    BY <1>1, <1>3, RestartedIs
  <2> QED BY <1>1, <1>2, <1>3, <2>1
<1>4. ASSUME NEW pc \in {"unboot0", "end"},
             tool' = [tool EXCEPT !.helper = "failed", !.failing = TRUE, !.pc = pc]
      PROVE  TrailInv'
  <2>1. /\ tool'.pc = pc /\ tool'.helper = "failed" /\ tool'.failing
        /\ tool'.exit = tool.exit
        /\ tool'.noted = tool.noted /\ tool'.took = tool.took
    BY <1>1, <1>4, RaisedIs
  <2> QED BY <1>1, <1>2, <2>1
<1>5. CASE RestartEnds
  BY <1>3, <1>5 DEF RestartEnds
<1>6. CASE RestartBreaks
  BY <1>3, <1>4, <1>6, RestartBreaksGoes
<1> QED BY <1>5, <1>6

\* An exception between two other steps.
LEMMA InterruptedTrail ==
    ASSUME FlashInv, TrailInv, Interrupted
    PROVE  TrailInv'
<1>1. Fails /\ hat' = hat /\ tool \in Tools
  BY DEF Interrupted, ToolOnly, FlashInv, TypeOK
<1>2. tool.pc \in Outside \cup Inside
  BY <1>1 DEF Interrupted, Tools, Outside, Inside
<1> QED BY <1>1, <1>2, FailsTrail

\* Releasing the lines for the application starts it or leaves what runs.
LEMMA ReleaseKeeps ==
    ASSUME hat \in Hats, ApplicationRelease,
           hat.runs = "held" <=> hat.reset = "low"
    PROVE  /\ hat'.boot0 = "low" /\ hat'.reset = "high" /\ hat'.runs # "held"
           /\ hat'.runs \in {"app", hat.runs}
<1>1. CASE hat.reset = "low"
  BY <1>1 DEF ApplicationRelease, Hats
<1>2. CASE hat.reset # "low"
  BY <1>2 DEF ApplicationRelease, Hats
<1> QED BY <1>1, <1>2

\* The service may start, and release the lines, in the middle of a run.
LEMMA ServiceTrail ==
    ASSUME FlashInv, TrailInv, ServiceStarts \/ ServiceFails
    PROVE  TrailInv'
<1>1. hat \in Hats /\ UNCHANGED <<tool, flash, record>>
  BY DEF FlashInv, TypeOK, ServiceStarts, ServiceFails
<1>2. hat.runs = "held" <=> hat.reset = "low"
  BY DEF TrailInv, BootInv
<1>3. hat' = hat \/ /\ hat'.boot0 = "low" /\ hat'.reset = "high"
                    /\ hat'.runs # "held" /\ hat'.runs \in {"app", hat.runs}
  BY <1>1, <1>2, ReleaseKeeps DEF ServiceStarts, ServiceFails
<1>4. CASE hat' = hat
  BY <1>1, <1>4 DEF TrailInv, BootInv, DeployInv, OwnerInv
<1>5. CASE /\ hat'.boot0 = "low" /\ hat'.reset = "high"
           /\ hat'.runs # "held" /\ hat'.runs \in {"app", hat.runs}
  <2>1. BootInv'
    BY <1>1, <1>5 DEF TrailInv, BootInv
  <2>2. DeployInv' /\ OwnerInv'
    BY <1>1, <1>5 DEF TrailInv, DeployInv, OwnerInv
  <2> QED BY <2>1, <2>2 DEF TrailInv
<1> QED BY <1>3, <1>4, <1>5

\* The last probe.
LEMMA PostTrail ==
    ASSUME FlashInv, TrailInv, NEW heard \in BOOLEAN, PostProbe(heard)
    PROVE  TrailInv'
<1>1. tool \in Tools /\ hat' = hat /\ flash' = flash /\ tool.pc = "post"
  BY DEF FlashInv, TypeOK, PostProbe
<1>2. CASE Fails
  BY <1>1, <1>2, FailsTrail DEF Outside
<1>3. CASE Goes("end") /\ record' = TRUE /\ Answer = "product"
  <2>1. hat.runs = "app"
    BY <1>3 DEF Answer
  <2>2. tool'.pc = "end" /\ Kept
    BY <1>1, <1>3, GoesKeepsRest
  <2> QED BY <1>1, <1>3, <2>1, <2>2
        DEF Kept, Remembered, TrailInv, BootInv, DeployInv, OwnerInv, Outside,
            Inside
<1> QED BY <1>2, <1>3 DEF PostProbe

\* The beginning and the end of a run.
LEMMA RunTrail ==
    ASSUME FlashInv, TrailInv,
           \/ \E mode \in Modes, force \in BOOLEAN, given \in Dirs \cup {NoDir} :
                 Begin(mode, force, given)
           \/ Finish \/ FinishRefused \/ Killed \/ PowerCycle
    PROVE  TrailInv'
<1> USE DEF TrailInv, BootInv, DeployInv, OwnerInv, Outside, Inside
<1>1. tool \in Tools /\ hat \in Hats
  BY DEF FlashInv, TypeOK
<1>2. ASSUME NEW mode \in Modes, NEW force \in BOOLEAN,
             NEW given \in Dirs \cup {NoDir}, Begin(mode, force, given)
      PROVE  TrailInv'
  <2>1. /\ tool'.pc = "stop" /\ tool'.exit = "none" /\ tool'.found = hat.runs
        /\ ~tool'.took /\ hat' = hat
    BY <1>2 DEF Begin, Idle
  <2> QED BY <2>1
<1>3. CASE Finish \/ FinishRefused
  <2>1. tool' \in {Ended, [Ended EXCEPT !.refused = TRUE]}
    BY <1>3 DEF Finish, FinishRefused
  <2>2. /\ tool.pc = "end" /\ tool'.pc = "off"
        /\ tool'.found = tool.found /\ tool'.helper = tool.helper
    BY <1>1, <1>3, <2>1, EndedIs DEF Finish, FinishRefused
  <2>3. hat' = hat \/ /\ hat'.reset = "high" /\ hat'.runs # "held"
                      /\ hat'.runs \in {"app", hat.runs}
    BY <1>1, <1>3, ReleaseKeeps DEF Finish, FinishRefused
  <2> QED BY <2>2, <2>3
<1>4. CASE Killed \/ PowerCycle
  <2>1. /\ tool'.pc = "off" /\ tool'.exit = "killed"
        /\ hat'.runs = "held" <=> hat'.reset = "low"
    BY <1>4 DEF Killed, PowerCycle, Idle
  <2> QED BY <2>1
<1> QED BY <1>2, <1>3, <1>4

-----------------------------------------------------------------------------
(***************************************************************************)
(* The theorems                                                            *)
(***************************************************************************)

\* No step leaves the invariant.
LEMMA NextInv == FlashInv /\ [Next]_vars => FlashInv'
<1> SUFFICES ASSUME FlashInv, [Next]_vars PROVE FlashInv'
  OBVIOUS
<1>1. CASE UNCHANGED vars
  BY <1>1 DEF vars, FlashInv, TypeOK, ToolInv, Safe
<1>2. CASE Next
  BY <1>2, ServiceInv, RunInv, OwnerStep, LineInv, InterruptedInv, ProbeInv, SelectInv, ReadInv, DecideInv,
     BackupInv, WriteInv DEF Next
<1> QED BY <1>1, <1>2

\* No step leaves a bad trail.
LEMMA NextTrail == FlashInv /\ TrailInv /\ [Next]_vars => TrailInv'
<1> SUFFICES ASSUME FlashInv, TrailInv, [Next]_vars PROVE TrailInv'
  OBVIOUS
<1>1. CASE UNCHANGED vars
  BY <1>1 DEF vars, TrailInv, BootInv, DeployInv, OwnerInv
<1>2. CASE Next
  BY <1>2, ServiceTrail, RunTrail, OwnerTrail, EarlyTrail, EntryTrail,
     RestartTrail, RestartedTrail, InterruptedTrail, InsideSteps, DecideTrail,
     PostTrail DEF Next
<1> QED BY <1>1, <1>2

\* Both invariants hold throughout.
LEMMA AlwaysInv == Spec => [](FlashInv /\ TrailInv)
<1>1. Init => TrailInv
  BY DEF Init, Idle, TrailInv, BootInv, DeployInv, OwnerInv, Outside, Inside
<1> QED BY <1>1, InitInv, NextInv, NextTrail, PTL DEF Spec

\* Every value keeps its type, whatever is killed or loses power when.
THEOREM FlashTypeCorrect == Spec => []TypeOK
<1>1. FlashInv => TypeOK
  BY DEF FlashInv
<1> QED BY InitInv, NextInv, <1>1, PTL DEF Spec

\* Main flash is never touched before a verified image of the stock firmware
\* exists, for every set of directories and any number of runs.
THEOREM RollbackAlwaysFirst == Spec => []RollbackFirst
<1>1. FlashInv => RollbackFirst
  BY DEF FlashInv, RollbackFirst, Safe
<1> QED BY InitInv, NextInv, <1>1, PTL DEF Spec

\* A run that ends by itself, whatever raised in the bootloader and whenever
\* the service pulls at the lines, leaves the application running or what it
\* found, unless the last call of the GPIO helper failed.
THEOREM LeftAsFound == Spec => []LeavesAsFound
<1>1. TrailInv => LeavesAsFound
  BY DEF TrailInv, BootInv, LeavesAsFound
<1> QED BY <1>1, AlwaysInv, PTL

\* An exit is decided by the end of the with block only: every other step
\* leaves it, or takes the tool away.
LEMMA ExitStep ==
    ASSUME tool \in Tools, Next, tool.pc # "off", tool.exit = "none",
           tool'.exit \in {"pass", "fail"}
    PROVE  Finish \/ FinishRefused
<1> SUFFICES ASSUME ~Finish, ~FinishRefused
             PROVE  tool'.exit \in {"none", "killed"}
  OBVIOUS
<1>1. ASSUME NEW pc \in Pcs, Goes(pc) PROVE tool'.exit = "none"
  BY <1>1, GoesKeepsRest DEF Kept, Remembered
<1>2. CASE Fails
  BY <1>2, FailsKeepsRest DEF Remembered
<1>3. CASE UNCHANGED tool
  BY <1>3
<1>4. ASSUME NEW pc \in {"unboot0", "end"},
             tool' = [tool EXCEPT !.helper = "failed", !.failing = TRUE, !.pc = pc]
      PROVE  tool'.exit = "none"
  BY <1>4, RaisedIs
<1>5. ASSUME NEW how \in {"ok", "failed"}, Restarted(how) PROVE tool'.exit = "none"
  BY <1>5, RestartedIs
<1>6. CASE ServiceStarts \/ ServiceFails
  BY <1>3, <1>6 DEF ServiceStarts, ServiceFails
<1>7. CASE Killed \/ PowerCycle
  BY <1>7 DEF Killed, PowerCycle, Idle
<1>8. CASE CheckOwner \/ StopOwner
  BY <1>1, <1>8 DEF CheckOwner, StopOwner, Tools
<1>9. ASSUME NEW heard \in BOOLEAN, NEW authorized \in BOOLEAN,
             Probe(heard, authorized)
      PROVE  tool'.exit = "none"
  <2> DEFINE pc == CASE tool.mode = "probe" -> "end"
                     [] tool.mode = "backup" -> "mkdir"
                     [] OTHER -> "select"
  <2>1. Fails \/ tool' = [tool EXCEPT !.identity = Answer, !.pc = pc]
    BY <1>9 DEF Probe
  <2> HIDE DEF pc
  <2> QED BY <1>2, <2>1 DEF Tools
<1>10. CASE SelectGiven \/ SelectNew \/ SelectFound
  BY <1>1, <1>2, <1>10 DEF SelectGiven, SelectNew, SelectFound, Tools
<1>11. ASSUME NEW d \in Dirs, MakeDir(d) PROVE tool'.exit = "none"
  BY <1>11 DEF MakeDir, Tools
<1>12. CASE EnterBoot0 \/ EnterPull \/ EnterRelease \/ RestartBoot0
            \/ RestartPull \/ RestartRelease \/ StoreImage \/ WriteManifest
  BY <1>1, <1>12 DEF EnterBoot0, EnterPull, EnterRelease, RestartBoot0,
                     RestartPull, RestartRelease, StoreImage, WriteManifest
<1>13. CASE Entered
  BY <1>13 DEF Entered, Tools
<1>14. CASE EntryFails \/ RestartEnds \/ RestartBreaks
  BY <1>4, <1>5, <1>14, RestartBreaksGoes DEF EntryFails, RestartEnds
<1>15. ASSUME NEW heard \in BOOLEAN, Identify(heard) \/ PostProbe(heard)
       PROVE  tool'.exit = "none"
  <2>1. Fails \/ \E pc \in {"first", "readback", "write", "end"} : Goes(pc)
    BY <1>15 DEF Identify, PostProbe
  <2> QED BY <1>1, <1>2, <2>1
<1>16. CASE ReadFirst \/ ReadSecond \/ Readback
  BY <1>1, <1>2, <1>16 DEF ReadFirst, ReadSecond, Readback, Tools
<1>17. CASE CheckBackup \/ Decide \/ CheckUart \/ Interrupted
  BY <1>1, <1>2, <1>17 DEF CheckBackup, Decide, CheckUart, Interrupted, Tools
<1>18. ASSUME NEW yes \in BOOLEAN, Confirm(yes) PROVE tool'.exit = "none"
  BY <1>2, <1>18 DEF Confirm, Tools
<1>19. CASE WriteBegins \/ \E image \in {"product", "partial", "torn"} :
                              WriteEnds(image)
  BY <1>1, <1>2, <1>19 DEF WriteBegins, WriteEnds
<1> QED BY <1>6, <1>7, <1>8, <1>9, <1>10, <1>11, <1>12, <1>13, <1>14, <1>15,
           <1>16, <1>17, <1>18, <1>19 DEF Next, Begin

\* Flash mode passes only with the product in flash, running, and recorded.
THEOREM PassAlwaysDeployed == Spec => PassMeansDeployed
<1>1. ASSUME FlashInv, TrailInv, [Next]_vars,
             tool.pc = "end", tool'.exit = "pass", tool.mode = "flash"
      PROVE  flash = "product" /\ hat.runs = "app" /\ record
  <2>1. tool.exit = "none" /\ tool \in Tools
    BY <1>1 DEF TrailInv, BootInv, FlashInv, TypeOK
  <2>2. Finish \/ FinishRefused
    <3>1. ~UNCHANGED vars
      BY <1>1, <2>1 DEF vars
    <3> QED BY <1>1, <2>1, <3>1, ExitStep
  <2>3. tool' \in {Ended, [Ended EXCEPT !.refused = TRUE]}
    BY <2>2 DEF Finish, FinishRefused
  <2>4. ~tool.failing
    BY <1>1, <2>1, <2>3, EndedIs
  <2> QED BY <1>1, <2>4 DEF TrailInv, DeployInv
<1>2. FlashInv /\ TrailInv /\ [Next]_vars
      => [tool.pc = "end" /\ tool'.exit = "pass" /\ tool.mode = "flash"
          => flash = "product" /\ hat.runs = "app" /\ record]_vars
  BY <1>1
<1> QED BY <1>2, AlwaysInv, PTL DEF Spec, PassMeansDeployed

\* A probe or a backup that ends by itself, from whatever place and after
\* whatever exception, leaves the service running that it took down, unless
\* systemd would not start it.
THEOREM ServiceAlwaysRestored == Spec => ServiceRestored
<1>1. ASSUME FlashInv, TrailInv, [Next]_vars,
             tool.pc # "off", tool'.exit \in {"pass", "fail"},
             tool.took, tool.mode # "flash"
      PROVE  service' = "active" \/ tool'.refused
  <2>1. tool.exit = "none" /\ tool \in Tools /\ tool.noted
    BY <1>1 DEF TrailInv, BootInv, OwnerInv, FlashInv, TypeOK
  <2>2. Finish \/ FinishRefused
    <3>1. ~UNCHANGED vars
      BY <1>1, <2>1 DEF vars
    <3> QED BY <1>1, <2>1, <3>1, ExitStep
  <2>3. CASE Finish
    BY <1>1, <2>1, <2>3 DEF Finish, Restores
  <2>4. CASE FinishRefused
    <3>1. Ended \in Tools
      BY <2>1, EndedIs
    <3> QED BY <2>4, <3>1 DEF FinishRefused, Tools
  <2> QED BY <2>2, <2>3, <2>4
<1>2. FlashInv /\ TrailInv /\ [Next]_vars
      => [tool.pc # "off" /\ tool'.exit \in {"pass", "fail"}
            /\ tool.took /\ tool.mode # "flash"
          => service' = "active" \/ tool'.refused]_vars
  BY <1>1
<1> QED BY <1>2, AlwaysInv, PTL DEF Spec, ServiceRestored

-----------------------------------------------------------------------------
(***************************************************************************)
(* The profile tool                                                        *)
(***************************************************************************)

\* What an invocation is, and where it can be.
Clis == [pc : {"new", "read", "backup", "write", "restart", "rollback",
               "again", "ended"},
         set : [tune : Tunings, tx : BOOLEAN], restart : BOOLEAN,
         original : Configs, candidate : Configs]
CliPcs == {"new", "read", "backup", "write", "restart", "rollback", "again",
           "ended"}

\* The places of an invocation that changed the file and still owes a restart.
Owing == {"restart", "rollback", "again"}

\* While nobody owes a restart, a running service uses the file, unless a
\* change was left without one.
SwitchInv ==
    (/\ \A i \in Invocations : cli[i].pc \notin Owing
     /\ unit.state = "up"
     /\ ~unread)
    => unit.uses = config

\* A configuration with other settings is one, and so is each setting.
LEMMA SettingsType ==
    /\ NoConfig \in Configs
    /\ \A p \in Profiles : \A c \in Configs :
          Settings(p, c) \in [tune : Tunings, tx : BOOLEAN]
    /\ \A c \in Configs : \A s \in [tune : Tunings, tx : BOOLEAN] :
          Rewritten(c, s) \in Configs
<1>1. NoConfig \in Configs
  BY DEF NoConfig, Configs, Tunings
<1>2. ASSUME NEW p \in Profiles, NEW c \in Configs
      PROVE  Settings(p, c) \in [tune : Tunings, tx : BOOLEAN]
  <2>1. CASE p = "rx-only"
    BY <2>1 DEF Settings, Configs
  <2>2. CASE p # "rx-only"
    BY <2>2 DEF Settings, Profiles, Tunings
  <2> QED BY <2>1, <2>2
<1>3. ASSUME NEW c \in Configs, NEW s \in [tune : Tunings, tx : BOOLEAN]
      PROVE  Rewritten(c, s) \in Configs
  BY DEF Rewritten, Configs
<1> QED BY <1>1, <1>2, <1>3

\* An invocation that goes elsewhere stays an invocation, and the others stay
\* where they are.
LEMMA GoesToType ==
    ASSUME cli \in [Invocations -> Clis], NEW i \in Invocations,
           NEW pc \in CliPcs, GoesTo(i, pc)
    PROVE  /\ cli' \in [Invocations -> Clis]
           /\ cli'[i].pc = pc
           /\ \A j \in Invocations \ {i} : cli'[j] = cli[j]
<1>1. [cli[i] EXCEPT !.pc = pc] \in Clis
  BY DEF Clis, CliPcs
<1>2. cli' = [cli EXCEPT ![i] = [cli[i] EXCEPT !.pc = pc]]
  BY DEF GoesTo
<1>3. [cli[i] EXCEPT !.pc = pc].pc = pc
  BY DEF Clis
<1> QED BY <1>1, <1>2, <1>3

\* The types, without the way the record of an invocation is written out.
LEMMA SwitchTypes ==
    SwitchTypeOK <=>
        /\ config \in Configs /\ backup \in Configs
        /\ cli \in [Invocations -> Clis]
        /\ unit \in [state : {"off", "starting", "up"}, uses : Configs]
        /\ failures \in 0..MaxFailures
        /\ unread \in BOOLEAN
BY DEF SwitchTypeOK, Clis

\* A unit in another state is a unit.
LEMMA UnitType ==
    ASSUME unit \in [state : {"off", "starting", "up"}, uses : Configs],
           NEW s \in {"off", "starting", "up"},
           unit' = [unit EXCEPT !.state = s]
    PROVE  /\ unit' \in [state : {"off", "starting", "up"}, uses : Configs]
           /\ unit'.state = s /\ unit'.uses = unit.uses
OBVIOUS

\* The unit's own steps.
LEMMA UnitStep ==
    ASSUME SwitchTypeOK, SwitchInv, UnitStarts \/ UnitLoads \/ UnitFails
    PROVE  SwitchTypeOK' /\ SwitchInv'
<1>1. UNCHANGED <<config, backup, cli>>
  BY DEF UnitStarts, UnitLoads, UnitFails
<1>2. CASE UnitStarts
  BY <1>1, <1>2, UnitType DEF UnitStarts, SwitchTypeOK, SwitchInv
<1>3. CASE UnitLoads
  <2>1. CASE Loads(config)
    BY <1>1, <1>3, <2>1 DEF UnitLoads, SwitchTypeOK, SwitchInv
  <2>2. CASE ~Loads(config)
    BY <1>1, <1>3, <2>2, UnitType DEF UnitLoads, SwitchTypeOK, SwitchInv
  <2> QED BY <2>1, <2>2
<1>4. CASE UnitFails
  <2>1. failures' \in 0..MaxFailures
    BY <1>4, SwitchAssumption DEF UnitFails, SwitchTypeOK
  <2> QED BY <1>1, <1>4, <2>1, UnitType DEF UnitFails, SwitchTypeOK, SwitchInv
<1> QED BY <1>2, <1>3, <1>4

\* A step of an invocation, up to the replacement of the file.
LEMMA ChangeStep ==
    ASSUME SwitchTypeOK, SwitchInv, NEW i \in Invocations,
           \/ \E profile \in Profiles, restart \in BOOLEAN :
                 Invoked(i, profile, restart)
           \/ ReadsText(i) \/ BacksUp(i) \/ Installs(i)
    PROVE  SwitchTypeOK' /\ SwitchInv'
<1> USE SwitchTypes
<1>1. UNCHANGED <<unit, failures>> /\ cli[i] \in Clis
  BY DEF Invoked, ReadsText, BacksUp, Installs
<1>2. ASSUME cli' \in [Invocations -> Clis], backup' \in Configs,
             \A j \in Invocations \ {i} : cli'[j] = cli[j],
             cli[i].pc \notin Owing, config' = config, unread' = unread
      PROVE  SwitchTypeOK' /\ SwitchInv'
  <2>1. SwitchTypeOK'
    BY <1>1, <1>2 DEF SwitchTypeOK, Clis
  <2>2. (\A j \in Invocations : cli'[j].pc \notin Owing)
        => \A j \in Invocations : cli[j].pc \notin Owing
    BY <1>2
  <2> QED BY <1>1, <1>2, <2>1, <2>2 DEF SwitchInv
<1>3. ASSUME NEW profile \in Profiles, NEW restart \in BOOLEAN,
             Invoked(i, profile, restart)
      PROVE  SwitchTypeOK' /\ SwitchInv'
  <2> DEFINE s == Settings(profile, config)
             pc == IF Loads(config) THEN "read" ELSE "ended"
             c == [cli[i] EXCEPT !.pc = pc, !.set = s, !.restart = restart]
  <2>1. s \in [tune : Tunings, tx : BOOLEAN] /\ pc \in CliPcs
    BY SettingsType DEF CliPcs
  <2>2. cli' = [cli EXCEPT ![i] = c]
    BY <1>3 DEF Invoked
  <2>3. c \in Clis
    <3> HIDE DEF s, pc
    <3> QED BY <1>1, <2>1 DEF Clis, CliPcs
  <2> HIDE DEF c
  <2>4. /\ cli' \in [Invocations -> Clis]
        /\ \A j \in Invocations \ {i} : cli'[j] = cli[j]
    BY <2>2, <2>3
  <2>5. cli[i].pc \notin Owing /\ UNCHANGED <<config, backup, unread>>
    BY <1>3 DEF Invoked, Owing
  <2> QED BY <1>2, <2>4, <2>5
<1>4. CASE ReadsText(i)
  <2> DEFINE d == Rewritten(config, cli[i].set)
             pc == IF config.plain /\ Loads(d) THEN "backup" ELSE "ended"
             c == [cli[i] EXCEPT !.original = config, !.candidate = d, !.pc = pc]
  <2>1. d \in Configs /\ pc \in CliPcs
    BY <1>1, SettingsType DEF CliPcs, Clis
  <2>2. cli' = [cli EXCEPT ![i] = c]
    BY <1>4 DEF ReadsText
  <2>3. c \in Clis
    <3> HIDE DEF d, pc
    <3> QED BY <1>1, <2>1 DEF Clis, CliPcs
  <2> HIDE DEF c
  <2>4. /\ cli' \in [Invocations -> Clis]
        /\ \A j \in Invocations \ {i} : cli'[j] = cli[j]
    BY <2>2, <2>3
  <2>5. cli[i].pc \notin Owing /\ UNCHANGED <<config, backup, unread>>
    BY <1>4 DEF ReadsText, Owing
  <2> QED BY <1>2, <2>4, <2>5
<1>5. CASE BacksUp(i)
  BY <1>2, <1>5, GoesToType DEF BacksUp, Owing, CliPcs
<1>6. CASE Installs(i)
  <2>1. CASE GoesTo(i, "ended") /\ UNCHANGED <<config, unread>>
    BY <1>2, <1>6, <2>1, GoesToType DEF Installs, Owing, CliPcs
  <2>2. CASE /\ config' = cli[i].candidate
             /\ GoesTo(i, IF cli[i].restart THEN "restart" ELSE "ended")
             /\ unread' = (unread \/ ~cli[i].restart)
    <3>1. cli[i].candidate \in Configs /\ cli[i].restart \in BOOLEAN
      BY <1>1 DEF Clis
    <3>2. cli' \in [Invocations -> Clis]
          /\ (cli[i].restart => cli'[i].pc = "restart")
      BY <2>2, <3>1, GoesToType DEF CliPcs
    <3>3. backup' = backup
      BY <1>6 DEF Installs
    <3>4. SwitchTypeOK'
      BY <1>1, <2>2, <3>1, <3>2, <3>3 DEF SwitchTypeOK, Clis
    <3> QED BY <2>2, <3>1, <3>2, <3>4 DEF SwitchInv, Owing
  <2> QED BY <1>6, <2>1, <2>2 DEF Installs
<1> QED BY <1>3, <1>4, <1>5, <1>6

\* A step of an invocation that owes a restart, or its end.
LEMMA RestartStep ==
    ASSUME SwitchTypeOK, SwitchInv, NEW i \in Invocations,
           \/ Restarts(i) \/ RestartFails(i) \/ RollsBack(i)
           \/ RestartsAgain(i) \/ ToolDies(i)
    PROVE  SwitchTypeOK' /\ SwitchInv'
<1> USE SwitchTypes
<1>1. backup' = backup /\ failures' = failures /\ cli[i] \in Clis
  BY DEF Restarts, RestartFails, RollsBack, RestartsAgain, ToolDies
<1>2. cli[i].original \in Configs
  BY <1>1 DEF Clis
<1>3. CASE Restarts(i)
  <2>1. cli' \in [Invocations -> Clis]
    BY <1>3, GoesToType DEF Restarts, CliPcs
  <2>2. /\ unit' \in [state : {"off", "starting", "up"}, uses : Configs]
        /\ unit'.state = "starting"
    BY <1>3, UnitType DEF Restarts
  <2> QED BY <1>1, <1>3, <2>1, <2>2 DEF Restarts, SwitchTypeOK, Clis, SwitchInv
<1>4. CASE RestartFails(i)
  <2>1. cli' \in [Invocations -> Clis] /\ cli'[i].pc = "rollback"
    BY <1>4, GoesToType DEF RestartFails, CliPcs
  <2>2. unit' \in [state : {"off", "starting", "up"}, uses : Configs]
    BY <1>4, UnitType DEF RestartFails
  <2> QED BY <1>1, <1>4, <2>1, <2>2
        DEF RestartFails, SwitchTypeOK, Clis, SwitchInv, Owing
<1>5. CASE RollsBack(i)
  <2>1. cli' \in [Invocations -> Clis] /\ (cli'[i].pc = "again" \/ unread')
    BY <1>5, GoesToType DEF RollsBack, CliPcs
  <2>2. config' \in Configs /\ unread' \in BOOLEAN /\ unit' = unit
    BY <1>2, <1>5 DEF RollsBack
  <2> QED BY <1>1, <2>1, <2>2 DEF SwitchTypeOK, Clis, SwitchInv, Owing
<1>6. CASE RestartsAgain(i)
  <2>1. cli' \in [Invocations -> Clis] /\ config' = config
    BY <1>6, GoesToType DEF RestartsAgain, CliPcs
  <2>2. /\ unit' \in [state : {"off", "starting", "up"}, uses : Configs]
        /\ unread' \in BOOLEAN
        /\ unit'.state # "up" \/ unread'
    BY <1>6, UnitType DEF RestartsAgain
  <2> QED BY <1>1, <2>1, <2>2 DEF SwitchTypeOK, Clis, SwitchInv
<1>7. CASE ToolDies(i)
  <2>1. /\ cli' \in [Invocations -> Clis]
        /\ \A j \in Invocations \ {i} : cli'[j] = cli[j]
    BY <1>7, GoesToType DEF ToolDies, CliPcs
  <2>2. /\ config' = config /\ unit' = unit
        /\ unread' = (unread \/ cli[i].pc \in Owing)
    BY <1>7 DEF ToolDies, Owing
  <2>3. SwitchTypeOK'
    BY <1>1, <2>1, <2>2 DEF SwitchTypeOK, Clis
  <2>4. (\A j \in Invocations : cli'[j].pc \notin Owing) /\ ~unread'
        => \A j \in Invocations : cli[j].pc \notin Owing
    BY <2>1, <2>2
  <2> QED BY <2>2, <2>3, <2>4 DEF SwitchInv
<1> QED BY <1>3, <1>4, <1>5, <1>6, <1>7

\* Once no invocation is at work, a running service uses the file: for any
\* number of overlapping invocations and of failures of the unit.
THEOREM ServiceAlwaysUsesFile == SwitchSpec => []ServiceUsesFile
<1>1. SwitchInit => SwitchTypeOK /\ SwitchInv
  <2> SUFFICES ASSUME SwitchInit PROVE SwitchTypeOK /\ SwitchInv
    OBVIOUS
  <2>1. Fresh \in Clis
    BY SettingsType DEF Fresh, Clis, Tunings
  <2>2. cli \in [Invocations -> Clis]
    BY <2>1 DEF SwitchInit
  <2>3. unit \in [state : {"off", "starting", "up"}, uses : Configs]
    BY SettingsType DEF SwitchInit
  <2>4. failures \in 0..MaxFailures
    BY SwitchAssumption DEF SwitchInit
  <2>5. SwitchTypeOK
    BY <2>2, <2>3, <2>4, SettingsType, SwitchTypes DEF SwitchInit
  <2> QED BY <2>5 DEF SwitchInit, SwitchInv
<1>2. SwitchTypeOK /\ SwitchInv /\ [SwitchNext]_switchVars
      => (SwitchTypeOK /\ SwitchInv)'
  <2> SUFFICES ASSUME SwitchTypeOK, SwitchInv, [SwitchNext]_switchVars
               PROVE  (SwitchTypeOK /\ SwitchInv)'
    OBVIOUS
  <2>1. CASE UNCHANGED switchVars
    BY <2>1 DEF switchVars, SwitchTypeOK, SwitchInv
  <2>2. CASE SwitchNext
    BY <2>2, UnitStep, ChangeStep, RestartStep DEF SwitchNext
  <2> QED BY <2>1, <2>2
<1>3. SwitchInv => ServiceUsesFile
  BY DEF SwitchInv, ServiceUsesFile, Owing
<1> QED BY <1>1, <1>2, <1>3, PTL DEF SwitchSpec
=============================================================================
