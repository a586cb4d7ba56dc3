---------------------------- MODULE FirmwareFlash ----------------------------
(***************************************************************************)
(* The firmware tool (probe, backup and flash modes), the HAT it handles   *)
(* through two GPIO lines and a UART, and the service that shares the UART *)
(* with it.  The tool may meet an exception anywhere, also from the helper *)
(* that drives the lines, and it, or the whole host, may be lost between   *)
(* any two steps; flash, directories and lines stay as they were.          *)
(*                                                                         *)
(* An image is what is in main flash, reduced to the identity it answers   *)
(* with and to whether its bytes are the golden ones.                      *)
(***************************************************************************)
EXTENDS Naturals

CONSTANTS
    Dirs,       \* names of backup directories
    MaxRuns     \* bound: runs of the tool

NoDir == "no directory"

ASSUME FlashAssumption == MaxRuns \in Nat /\ NoDir \notin Dirs

VARIABLES
    flash,      \* the image in main flash
    hat,        \* the lines BOOT0 and RESET, and what the processor runs
    dirs,       \* the backup directories
    service,    \* the modem service, as its unit sees it
    tool,       \* the tool
    runs,       \* how often the tool was started
    record,     \* whether the FIRMWARE-READY record was written
    wrote       \* history: main flash was erased or written

vars == <<flash, hat, dirs, service, tool, runs, record, wrote>>

-----------------------------------------------------------------------------
\* "patched" answers like stock without being it, and "partial", an
\* interrupted write, like the product; "foreign" is not of this HAT's lineage
\* and "torn" does not run.
Images == {"stock", "patched", "engineering", "product", "partial", "foreign",
           "torn"}

Identity ==
    [i \in Images |->
        CASE i \in {"stock", "patched"} -> "stock"
          [] i \in {"product", "partial"} -> "product"
          [] i = "torn" -> "silent"
          [] OTHER -> i]
Identities == {"stock", "engineering", "product", "foreign", "silent"}

\* accepted_identity.
Accepted == {"stock", "engineering", "product"}

Hats == [boot0 : {"low", "high"}, reset : {"low", "high"},
         runs : {"app", "boot", "held"}]

\* A directory, its copy of the flash and its manifest.  A file that was cut
\* off is refused like one that is missing.
NoImage == "none"
Directories == [made : BOOLEAN, image : Images \cup {NoImage}, manifest : BOOLEAN]
Absent == [made |-> FALSE, image |-> NoImage, manifest |-> FALSE]

\* verify_stock_backup: both files, and the digest of the golden stock image.
Verified(d) == dirs[d].manifest /\ dirs[d].image = "stock"

Modes == {"probe", "backup", "flash"}
\* The places of the GPIO helper's two operations.
Entering == {"boot0", "pull", "release", "entered"}
Restarting == {"unboot0", "repull", "rerelease", "restarted"}

Pcs == {"off", "stop", "halt", "uart", "probe", "select", "mkdir", "identify",
        "first", "second", "store", "manifest", "check", "decide", "confirm",
        "write", "writing", "readback", "post", "end"}
       \cup Entering \cup Restarting
Goals == {"none", "backup", "verify", "write"}

Idle == [pc |-> "off", mode |-> "probe", force |-> FALSE, given |-> NoDir,
         identity |-> "silent", dir |-> NoDir, goal |-> "none",
         active |-> FALSE, read |-> NoImage, noted |-> FALSE,
         failing |-> FALSE, found |-> "app", helper |-> "ok",
         took |-> FALSE, refused |-> FALSE, exit |-> "none"]

\* noted: the unit is in the list of those to start again.  History: what the
\* processor ran at first (found), how the last call of the GPIO helper ended
\* (helper), whether the unit was taken down (took) or not started (refused).

Tools == [pc : Pcs, mode : Modes, force : BOOLEAN,
          given : Dirs \cup {NoDir}, identity : Identities,
          dir : Dirs \cup {NoDir}, goal : Goals, active : BOOLEAN,
          read : Images \cup {NoImage, "garbled"}, noted : BOOLEAN,
          failing : BOOLEAN, found : {"app", "boot", "held"},
          helper : {"ok", "failed"}, took : BOOLEAN, refused : BOOLEAN,
          exit : {"none", "pass", "fail", "killed"}]

TypeOK ==
    /\ flash \in Images
    /\ hat \in Hats
    /\ dirs \in [Dirs -> Directories]
    /\ service \in {"active", "waiting", "inactive"}
    /\ tool \in Tools
    /\ runs \in 0..MaxRuns
    /\ record \in BOOLEAN /\ wrote \in BOOLEAN

\* Backups of an older tool may be there, of stock or of something else.
Init ==
    /\ flash \in {"stock", "patched", "engineering", "product", "foreign"}
    /\ hat = [boot0 |-> "low", reset |-> "high", runs |-> "app"]
    /\ dirs \in [Dirs -> {Absent,
                          [made |-> TRUE, image |-> "stock", manifest |-> TRUE],
                          [made |-> TRUE, image |-> "engineering", manifest |-> TRUE]}]
    /\ service \in {"active", "waiting", "inactive"}
    /\ tool = Idle
    /\ runs = 0
    /\ record = FALSE /\ wrote = FALSE

-----------------------------------------------------------------------------
(***************************************************************************)
(* The HAT and the service                                                 *)
(***************************************************************************)

\* The processor runs what BOOT0 selects when RESET rises, and nothing while
\* it is low.
SetBoot0(level) == hat' = [hat EXCEPT !.boot0 = level]
ResetLow == hat' = [hat EXCEPT !.reset = "low", !.runs = "held"]
ResetHigh ==
    hat' = [hat EXCEPT !.reset = "high",
                       !.runs = IF hat.reset = "high" THEN @
                                ELSE IF hat.boot0 = "high" THEN "boot" ELSE "app"]

\* application-release: both lines to their application levels, no pulse.
ApplicationRelease ==
    hat' = [boot0 |-> "low", reset |-> "high",
            runs |-> IF hat.reset = "low" THEN "app" ELSE hat.runs]

\* The identity that answers GET_VERSION.
Answer == IF hat.runs = "app" THEN Identity[flash] ELSE "silent"

\* The service is started: ExecStartPre, then the daemon.  systemd restarts
\* it by itself after RestartSec; an operator starts it between runs.
ServiceStarts ==
    /\ \/ service = "waiting"
       \/ service = "inactive" /\ tool.pc = "off"
    /\ service' = "active"
    /\ ApplicationRelease
    /\ UNCHANGED <<flash, dirs, tool, runs, record, wrote>>

\* The daemon fails, and waits for its restart or has had its last.
ServiceFails ==
    /\ service = "active"
    /\ service' \in {"waiting", "inactive"}
    /\ UNCHANGED <<flash, hat, dirs, tool, runs, record, wrote>>

-----------------------------------------------------------------------------
(***************************************************************************)
(* The tool                                                                *)
(***************************************************************************)
ToolOnly == UNCHANGED <<flash, hat, dirs, service, runs, record, wrote>>
Goes(pc) == tool' = [tool EXCEPT !.pc = pc]

\* Mutant: an exception skips the restart of the application.
FailsWithoutCleanup == tool' = [tool EXCEPT !.failing = TRUE, !.pc = "end"]

\* Mutant: the with block has no finally.
FailsPastFinally ==
    tool' = IF tool.active
            THEN [tool EXCEPT !.failing = TRUE, !.pc = "unboot0"]
            ELSE [Idle EXCEPT !.exit = "fail", !.found = tool.found,
                              !.helper = tool.helper]

\* An exception: Bootloader.cleanup restarts the application if the
\* bootloader was entered, and the tool ends.
Fails ==
    tool' = [tool EXCEPT !.failing = TRUE,
                         !.pc = IF tool.active THEN "unboot0" ELSE "end"]

Begin(mode, force, given) ==
    /\ tool.pc = "off" /\ runs < MaxRuns
    /\ mode # "flash" => ~force /\ given = NoDir
    /\ tool' = [Idle EXCEPT !.pc = "stop", !.mode = mode, !.force = force,
                            !.given = given, !.found = hat.runs]
    /\ runs' = runs + 1
    /\ UNCHANGED <<flash, hat, dirs, service, record, wrote>>

\* stopped_known_modem_owners: a unit that is active is noted, then stopped.
\* One that waits for its restart is not active.
CheckOwner ==
    /\ tool.pc = "stop"
    /\ IF service = "active"
       THEN tool' = [tool EXCEPT !.noted = TRUE, !.pc = "halt"]
       ELSE Goes("uart")
    /\ ToolOnly

\* systemctl stop; nobody looks whether it succeeded.
StopOwner ==
    /\ tool.pc = "halt"
    /\ \/ /\ service' = "inactive"
          /\ tool' = [tool EXCEPT !.took = service # "inactive", !.pc = "uart"]
       \/ Goes("uart") /\ UNCHANGED service
    /\ UNCHANGED <<flash, hat, dirs, runs, record, wrote>>

\* fuser finds another owner, or none.
CheckUart ==
    /\ tool.pc = "uart"
    /\ IF service = "active" THEN Fails ELSE Goes("probe")
    /\ ToolOnly

\* probe_identity, which the line may spoil, and what the mode does with it.
\* Flash mode also refuses a wrong token and a wrong artifact.
Probe(heard, authorized) ==
    /\ tool.pc = "probe"
    /\ IF ~heard \/ Answer \notin Accepted \/ (tool.mode = "flash" /\ ~authorized)
          \/ (tool.mode = "backup" /\ Answer # "stock")
       THEN Fails
       ELSE tool' = [tool EXCEPT
                        !.identity = Answer,
                        !.pc = CASE tool.mode = "probe" -> "end"
                                 [] tool.mode = "backup" -> "mkdir"
                                 [] OTHER -> "select"]
    /\ ToolOnly

\* The backup that flash mode relies on: the one given, a new one of running
\* stock firmware, or one that find_verified_stock_backup finds.
SelectGiven ==
    /\ tool.pc = "select" /\ tool.given # NoDir
    /\ IF Verified(tool.given)
       THEN tool' = [tool EXCEPT !.dir = tool.given, !.pc = "decide"]
       ELSE Fails
    /\ ToolOnly

SelectNew ==
    /\ tool.pc = "select" /\ tool.given = NoDir /\ tool.identity = "stock"
    /\ Goes("mkdir")
    /\ ToolOnly

SelectFound ==
    /\ tool.pc = "select" /\ tool.given = NoDir /\ tool.identity # "stock"
    /\ \/ \E d \in Dirs : Verified(d)
                          /\ tool' = [tool EXCEPT !.dir = d, !.pc = "decide"]
       \/ (\A d \in Dirs : ~Verified(d)) /\ Goes("decide")
    /\ ToolOnly

\* make_stock_backup.
MakeDir(d) ==
    /\ tool.pc = "mkdir" /\ ~dirs[d].made
    /\ dirs' = [dirs EXCEPT ![d].made = TRUE]
    /\ tool' = [tool EXCEPT !.dir = d, !.goal = "backup", !.pc = "boot0"]
    /\ UNCHANGED <<flash, hat, service, runs, record, wrote>>

\* bootloader-entry: BOOT0 high, the pulse, and the levels read back.
EnterBoot0 ==
    /\ tool.pc = "boot0"
    /\ SetBoot0("high")
    /\ Goes("pull")
    /\ UNCHANGED <<flash, dirs, service, runs, record, wrote>>

EnterPull ==
    /\ tool.pc = "pull"
    /\ ResetLow
    /\ Goes("release")
    /\ UNCHANGED <<flash, dirs, service, runs, record, wrote>>

EnterRelease ==
    /\ tool.pc = "release"
    /\ ResetHigh
    /\ Goes("entered")
    /\ UNCHANGED <<flash, dirs, service, runs, record, wrote>>

\* Bootloader.enter: the bootloader counts as entered once the helper ended
\* well.
Entered ==
    /\ tool.pc = "entered"
    /\ tool' = [tool EXCEPT !.active = TRUE, !.helper = "ok", !.pc = "identify"]
    /\ ToolOnly

\* The helper fails at any of its levels, or after them; cleanup finds nothing
\* to do.
EntryFails ==
    /\ tool.pc \in Entering
    /\ tool' = [tool EXCEPT !.helper = "failed", !.failing = TRUE, !.pc = "end"]
    /\ ToolOnly

\* The identity of the ROM.
Identify(heard) ==
    /\ tool.pc = "identify"
    /\ IF heard /\ hat.runs = "boot"
       THEN Goes(CASE tool.goal = "backup" -> "first"
                   [] tool.goal = "verify" -> "readback"
                   [] OTHER -> "write")
       ELSE Fails
    /\ ToolOnly

\* One of the two reads: right, spoilt, or refused.
Reads == IF hat.runs = "boot" THEN {flash, "garbled"} ELSE {}
ReadFirst ==
    /\ tool.pc = "first"
    /\ \/ \E r \in Reads : tool' = [tool EXCEPT !.read = r, !.pc = "second"]
       \/ Fails
    /\ ToolOnly

\* The second read, the comparison, and the golden digest.
ReadSecond ==
    /\ tool.pc = "second"
    /\ \/ \E r \in Reads :
             IF r = tool.read /\ r = "stock" THEN Goes("store") ELSE Fails
       \/ Fails
    /\ ToolOnly

StoreImage ==
    /\ tool.pc = "store"
    /\ dirs' = [dirs EXCEPT ![tool.dir].image = tool.read]
    /\ Goes("manifest")
    /\ UNCHANGED <<flash, hat, service, runs, record, wrote>>

WriteManifest ==
    /\ tool.pc = "manifest"
    /\ dirs' = [dirs EXCEPT ![tool.dir].manifest = TRUE]
    /\ Goes("unboot0")
    /\ UNCHANGED <<flash, hat, service, runs, record, wrote>>

\* The new backup is verified once the application runs again.
CheckBackup ==
    /\ tool.pc = "check"
    /\ IF ~Verified(tool.dir) THEN Fails
       ELSE Goes(IF tool.mode = "backup" THEN "end" ELSE "decide")
    /\ ToolOnly

\* Mutant: a forced reflash needs no backup.
DecideForced ==
    /\ tool.pc = "decide"
    /\ IF tool.identity = "product" /\ ~tool.force
       THEN tool' = [tool EXCEPT !.goal = "verify", !.pc = "boot0"]
       ELSE IF tool.force \/ (tool.dir # NoDir /\ Verified(tool.dir))
       THEN Goes("confirm")
       ELSE Fails
    /\ ToolOnly

\* The product is only verified, unless forced; anything else is written
\* over, if there is a verified backup.
Decide ==
    /\ tool.pc = "decide"
    /\ IF tool.identity = "product" /\ ~tool.force
       THEN tool' = [tool EXCEPT !.goal = "verify", !.pc = "boot0"]
       ELSE IF tool.dir # NoDir /\ Verified(tool.dir) THEN Goes("confirm")
       ELSE Fails
    /\ ToolOnly

Confirm(yes) ==
    /\ tool.pc = "confirm"
    /\ IF yes THEN tool' = [tool EXCEPT !.goal = "write", !.pc = "boot0"]
       ELSE Fails
    /\ ToolOnly

\* stm32flash -w does not get through, or it erases and writes...
WriteBegins ==
    /\ tool.pc = "write"
    /\ \/ flash' = "torn" /\ wrote' = TRUE /\ Goes("writing")
       \/ Fails /\ UNCHANGED <<flash, wrote>>
    /\ UNCHANGED <<hat, dirs, service, runs, record>>

\* ...up to the point where it ends, with every byte verified or with an error.
WriteEnds(image) ==
    /\ tool.pc = "writing"
    /\ flash' = image
    /\ IF image = "product" THEN Goes("readback") ELSE Fails
    /\ UNCHANGED <<hat, dirs, service, runs, record, wrote>>

\* Mutant: the bytes of firmware that is already there are taken for granted.
ReadbackOfWrites ==
    /\ tool.pc = "readback"
    /\ IF tool.goal = "verify" \/ flash = "product" THEN Goes("unboot0")
       ELSE Fails
    /\ ToolOnly

\* readback_product: the programmed bytes and their digest.
Readback ==
    /\ tool.pc = "readback"
    /\ \/ \E r \in Reads : IF r = "product" THEN Goes("unboot0") ELSE Fails
       \/ Fails
    /\ ToolOnly

\* application-restart: BOOT0 low, the pulse, and the levels read back.
RestartBoot0 ==
    /\ tool.pc = "unboot0"
    /\ SetBoot0("low")
    /\ Goes("repull")
    /\ UNCHANGED <<flash, dirs, service, runs, record, wrote>>

RestartPull ==
    /\ tool.pc = "repull"
    /\ ResetLow
    /\ Goes("rerelease")
    /\ UNCHANGED <<flash, dirs, service, runs, record, wrote>>

RestartRelease ==
    /\ tool.pc = "rerelease"
    /\ ResetHigh
    /\ Goes("restarted")
    /\ UNCHANGED <<flash, dirs, service, runs, record, wrote>>

\* The caller is cleanup, on an exception or at the end of a backup, or else
\* restart_application.
Cleaning == tool.failing \/ tool.goal = "backup"
Restarted(how) ==
    tool' = [tool EXCEPT !.helper = how, !.active = FALSE,
                         !.pc = IF tool.failing THEN "end"
                                ELSE IF tool.goal = "backup" THEN "check"
                                ELSE "post"]

RestartEnds ==
    /\ tool.pc = "restarted"
    /\ Restarted("ok")
    /\ ToolOnly

\* The helper fails.  cleanup does not look and goes on, unless it is
\* interrupted too; restart_application raises, and cleanup tries again.
RestartBreaks ==
    /\ tool.pc \in Restarting
    /\ \/ Cleaning /\ Restarted("failed")
       \/ tool' = [tool EXCEPT !.helper = "failed", !.failing = TRUE,
                               !.pc = IF Cleaning THEN "end" ELSE "unboot0"]
    /\ ToolOnly

\* An exception at any other place: an interrupt from the keyboard, or an
\* error of the file system.
Interrupted ==
    /\ tool.pc \notin {"off", "end"} \cup Entering \cup Restarting
    /\ Fails
    /\ ToolOnly

\* The last probe, after which the ready record is written.
PostProbe(heard) ==
    /\ tool.pc = "post"
    /\ IF heard /\ Answer = "product"
       THEN Goes("end") /\ record' = TRUE
       ELSE Fails /\ UNCHANGED record
    /\ UNCHANGED <<flash, hat, dirs, service, runs, wrote>>

Ended == [Idle EXCEPT !.exit = IF tool.failing THEN "fail" ELSE "pass",
                      !.found = tool.found, !.helper = tool.helper]

\* The end of the with block: probe and backup start again what they noted.
Restores == tool.noted /\ tool.mode # "flash" /\ service # "active"
Finish ==
    /\ tool.pc = "end"
    /\ tool' = Ended
    /\ IF Restores THEN service' = "active" /\ ApplicationRelease
       ELSE UNCHANGED <<service, hat>>
    /\ UNCHANGED <<flash, dirs, runs, record, wrote>>

\* systemctl start fails, after its pre-start step or without it, and nobody
\* looks.
FinishRefused ==
    /\ tool.pc = "end" /\ Restores
    /\ tool' = [Ended EXCEPT !.refused = TRUE]
    /\ service' \in {"waiting", "inactive"}
    /\ ApplicationRelease \/ UNCHANGED hat
    /\ UNCHANGED <<flash, dirs, runs, record, wrote>>

\* The tool is killed between two steps, or interrupted at its last.
Killed ==
    /\ tool.pc # "off"
    /\ tool' = [Idle EXCEPT !.exit = "killed"]
    /\ UNCHANGED <<flash, hat, dirs, service, runs, record, wrote>>

\* The host loses power, and comes up with RESET held low.
PowerCycle ==
    /\ tool.pc # "off"
    /\ tool' = [Idle EXCEPT !.exit = "killed"]
    /\ hat' = [boot0 |-> "low", reset |-> "low", runs |-> "held"]
    /\ service' = "inactive"
    /\ UNCHANGED <<flash, dirs, runs, record, wrote>>

-----------------------------------------------------------------------------
Next ==
    \/ ServiceStarts \/ ServiceFails
    \/ \E mode \in Modes, force \in BOOLEAN, given \in Dirs \cup {NoDir} :
          Begin(mode, force, given)
    \/ CheckOwner \/ StopOwner \/ CheckUart
    \/ \E heard, authorized \in BOOLEAN : Probe(heard, authorized)
    \/ SelectGiven \/ SelectNew \/ SelectFound
    \/ \E d \in Dirs : MakeDir(d)
    \/ EnterBoot0 \/ EnterPull \/ EnterRelease \/ Entered \/ EntryFails
    \/ \E heard \in BOOLEAN : Identify(heard) \/ PostProbe(heard)
    \/ ReadFirst \/ ReadSecond \/ StoreImage \/ WriteManifest \/ CheckBackup
    \/ Decide
    \/ \E yes \in BOOLEAN : Confirm(yes)
    \/ WriteBegins
    \/ \E image \in {"product", "partial", "torn"} : WriteEnds(image)
    \/ Readback
    \/ RestartBoot0 \/ RestartPull \/ RestartRelease \/ RestartEnds \/ RestartBreaks
    \/ Interrupted
    \/ Finish \/ FinishRefused \/ Killed \/ PowerCycle

Spec == Init /\ [][Next]_vars

-----------------------------------------------------------------------------
(***************************************************************************)
(* Properties                                                              *)
(***************************************************************************)

\* Main flash is never erased or written unless a backup exists that the
\* tool's own check accepts and that holds stock firmware: not by a forced
\* reflash, not after an earlier run was cut off between the copy and its
\* manifest, not from a directory of something else.
RollbackFirst ==
    wrote => \E d \in Dirs : dirs[d].manifest /\ dirs[d].image = "stock"

\* Flash mode reports success only with the exact product in flash and
\* running, also when it wrote nothing because the product's identity
\* answered, which a write that was cut off can do as well.
PassMeansDeployed ==
    [][tool.pc = "end" /\ tool'.exit = "pass" /\ tool.mode = "flash"
       => flash = "product" /\ hat.runs = "app" /\ record]_vars

\* Unless the last call of the GPIO helper failed, a run that ends by itself
\* leaves the HAT with the application running, or as it found it: whatever
\* raised in the bootloader, a failed restart included, is made good by
\* cleanup, although the service may pull the lines to their application
\* levels in between.  A failure of bootloader-entry, or of the restart in
\* cleanup itself, is not made good, and the latter not even reported.
LeavesAsFound ==
    tool.exit \in {"pass", "fail"} /\ tool.helper = "ok"
    => hat.runs \in {"app", tool.found}

\* A probe or a backup that ends by itself, with whatever exception at whatever
\* place, leaves the service running that it took down, unless systemd would
\* not start it: it is noted before it is stopped, and no exception gets past
\* the finally of stopped_known_modem_owners.
ServiceRestored ==
    [][tool.pc # "off" /\ tool'.exit \in {"pass", "fail"}
         /\ tool.took /\ tool.mode # "flash"
       => service' = "active" \/ tool'.refused]_vars
=============================================================================
