---------------------------- MODULE ProfileSwitch ----------------------------
(***************************************************************************)
(* ywd-tnc-profile: invocations of the operator's profile tool, the        *)
(* configuration file they replace, and the unit that reads the file when  *)
(* it starts.  Nothing locks the file, so a step of an invocation is one   *)
(* read or replacement of it, or one call of systemctl.                    *)
(***************************************************************************)
EXTENDS Naturals

CONSTANTS
    Invocations,   \* invocations of the tool, each made at most once
    MaxFailures    \* bound on failures of the unit

ASSUME SwitchAssumption == MaxFailures \in Nat

VARIABLES
    config,    \* the file /etc/ywd-mmdvm-tnc/config.toml
    backup,    \* config.toml.bak
    cli,       \* each invocation
    unit,      \* the service: its state and the configuration it loaded
    failures,  \* failures of the unit so far
    unread     \* history: a change of the file nobody followed by a restart

switchVars == <<config, backup, cli, unit, failures, unread>>

-----------------------------------------------------------------------------
(* Configurations *)

\* The frequency and power: one of the two permitted pairs, or another.
Tunings == {"packet", "aprs", "other"}

\* plain: each radio key is once on a line of its own, in the [radio] section.
\* sound: everything but the transmit profile is as load_config wants it.
Configs == [tune : Tunings, tx : BOOLEAN, plain : BOOLEAN, sound : BOOLEAN]

\* load_config, with validate_config: TX only on a permitted pair.
Loads(c) == c.sound /\ (c.tx => c.tune \in {"packet", "aprs"})

Profiles == {"packet", "aprs", "rx-only"}

\* The pair and the switch a profile stands for.
Settings(profile, current) ==
    IF profile = "rx-only" THEN [tune |-> current.tune, tx |-> FALSE]
                           ELSE [tune |-> profile, tx |-> TRUE]

\* rewrite_radio_settings, for a text in which it finds the keys.
Rewritten(text, set) == [text EXCEPT !.tune = set.tune, !.tx = set.tx]

NoConfig == [tune |-> "other", tx |-> FALSE, plain |-> FALSE, sound |-> FALSE]

Fresh == [pc |-> "new", set |-> [tune |-> "other", tx |-> FALSE],
          restart |-> FALSE, original |-> NoConfig, candidate |-> NoConfig]

SwitchTypeOK ==
    /\ config \in Configs /\ backup \in Configs
    /\ cli \in [Invocations ->
         [pc : {"new", "read", "backup", "write", "restart", "rollback",
                "again", "ended"},
          set : [tune : Tunings, tx : BOOLEAN], restart : BOOLEAN,
          original : Configs, candidate : Configs]]
    /\ unit \in [state : {"off", "starting", "up"}, uses : Configs]
    /\ failures \in 0..MaxFailures
    /\ unread \in BOOLEAN

SwitchInit ==
    /\ config \in Configs
    /\ backup = NoConfig
    /\ cli = [i \in Invocations |-> Fresh]
    /\ \/ unit = [state |-> "off", uses |-> NoConfig]
       \/ unit = [state |-> "up", uses |-> config] /\ Loads(config)
    /\ failures = 0
    /\ unread = FALSE

-----------------------------------------------------------------------------
(* The unit *)

UnitStarts ==
    /\ unit.state = "off"
    /\ unit' = [unit EXCEPT !.state = "starting"]
    /\ UNCHANGED <<config, backup, cli, failures, unread>>

\* run_daemon loads the file.  The start job is over before: Type=simple.
UnitLoads ==
    /\ unit.state = "starting"
    /\ unit' = IF Loads(config) THEN [state |-> "up", uses |-> config]
                                ELSE [unit EXCEPT !.state = "off"]
    /\ unread' = FALSE
    /\ UNCHANGED <<config, backup, cli, failures>>

UnitFails ==
    /\ unit.state # "off"
    /\ failures < MaxFailures
    /\ unit' = [unit EXCEPT !.state = "off"]
    /\ failures' = failures + 1
    /\ UNCHANGED <<config, backup, cli, unread>>

-----------------------------------------------------------------------------
(* An invocation *)

GoesTo(i, pc) == cli' = [cli EXCEPT ![i].pc = pc]

\* apply_profile's first read of the file, for the settings.
Invoked(i, profile, restart) ==
    /\ cli[i].pc = "new"
    /\ cli' = [cli EXCEPT ![i].pc = IF Loads(config) THEN "read" ELSE "ended",
                          ![i].set = Settings(profile, config),
                          ![i].restart = restart]
    /\ UNCHANGED <<config, backup, unit, failures, unread>>

\* The second read, for the text: another invocation may have changed it.
\* Keys that are not found, or a candidate that does not load, end the tool.
ReadsText(i) ==
    LET candidate == Rewritten(config, cli[i].set) IN
    /\ cli[i].pc = "read"
    /\ cli' = [cli EXCEPT
         ![i].original = config,
         ![i].candidate = candidate,
         ![i].pc = IF config.plain /\ Loads(candidate) THEN "backup"
                                                       ELSE "ended"]
    /\ UNCHANGED <<config, backup, unit, failures, unread>>

\* shutil.copy2 of the file as it is by now.
BacksUp(i) ==
    /\ cli[i].pc = "backup"
    /\ backup' = config
    /\ GoesTo(i, "write")
    /\ UNCHANGED <<config, unit, failures, unread>>

\* _atomic_write of the candidate: os.replace, or an error that leaves the
\* file as it was.
Installs(i) ==
    /\ cli[i].pc = "write"
    /\ \/ /\ config' = cli[i].candidate
          /\ GoesTo(i, IF cli[i].restart THEN "restart" ELSE "ended")
          /\ unread' = (unread \/ ~cli[i].restart)
       \/ GoesTo(i, "ended") /\ UNCHANGED <<config, unread>>
    /\ UNCHANGED <<backup, unit, failures>>

\* systemctl restart: the old process is stopped and the new one forked.
Restarts(i) ==
    /\ cli[i].pc = "restart"
    /\ unit' = [unit EXCEPT !.state = "starting"]
    /\ GoesTo(i, "ended")
    /\ UNCHANGED <<config, backup, failures, unread>>

\* It fails: the manager was not reached, or the start failed, or the wait
\* was interrupted and the manager goes on.
RestartFails(i) ==
    /\ cli[i].pc = "restart"
    /\ \E state \in {unit.state, "off", "starting"} :
          unit' = [unit EXCEPT !.state = state]
    /\ GoesTo(i, "rollback")
    /\ UNCHANGED <<config, backup, failures, unread>>

\* Mutant: the rollback restores the file and leaves the service alone.
RollsBackOnly(i) ==
    /\ cli[i].pc = "rollback"
    /\ \/ config' = cli[i].original /\ UNCHANGED unread
       \/ unread' = TRUE /\ UNCHANGED config
    /\ GoesTo(i, "ended")
    /\ UNCHANGED <<backup, unit, failures>>

\* The except clause puts the text back that was read before the change.
RollsBack(i) ==
    /\ cli[i].pc = "rollback"
    /\ \/ config' = cli[i].original /\ GoesTo(i, "again") /\ UNCHANGED unread
       \/ GoesTo(i, "ended") /\ unread' = TRUE /\ UNCHANGED config
    /\ UNCHANGED <<backup, unit, failures>>

\* The second restart, whose failure is ignored.
RestartsAgain(i) ==
    /\ cli[i].pc = "again"
    /\ \/ /\ \E state \in {"off", "starting"} :
                unit' = [unit EXCEPT !.state = state]
          /\ UNCHANGED unread
       \/ unread' = TRUE /\ UNCHANGED unit
    /\ GoesTo(i, "ended")
    /\ UNCHANGED <<config, backup, failures>>

\* SIGKILL, or an interrupt outside the try block.
ToolDies(i) ==
    /\ cli[i].pc \notin {"new", "ended"}
    /\ GoesTo(i, "ended")
    /\ unread' = (unread \/ cli[i].pc \in {"restart", "rollback", "again"})
    /\ UNCHANGED <<config, backup, unit, failures>>

-----------------------------------------------------------------------------
SwitchNext ==
    \/ UnitStarts \/ UnitLoads \/ UnitFails
    \/ \E i \in Invocations :
          \/ \E profile \in Profiles, restart \in BOOLEAN :
                Invoked(i, profile, restart)
          \/ ReadsText(i) \/ BacksUp(i) \/ Installs(i)
          \/ Restarts(i) \/ RestartFails(i) \/ RollsBack(i)
          \/ RestartsAgain(i) \/ ToolDies(i)

SwitchSpec == SwitchInit /\ [][SwitchNext]_switchVars

-----------------------------------------------------------------------------
\* Once no invocation is at work, a running service uses the configuration in
\* the file, however invocations overlapped, restarts failed and texts were
\* rolled back under each other, unless a change was left without a restart
\* (--no-restart, a tool that died, a rollback that failed) and nothing has
\* loaded the file since.
ServiceUsesFile ==
    (/\ \A i \in Invocations : cli[i].pc \in {"new", "ended"}
     /\ unit.state = "up"
     /\ ~unread)
    => unit.uses = config
=============================================================================
