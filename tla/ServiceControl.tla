--------------------------- MODULE ServiceControl ---------------------------
(***************************************************************************)
(* buzzard-agent-web start|stop|restart|status|enable|disable|plugins       *)
(* (packages/web/libexec/control.mjs): commands that rewrite two files and  *)
(* drive two systemd user units.                                            *)
(*                                                                          *)
(* Each command is a process of its own: several may run at once, and any   *)
(* may be killed between two awaits.  systemd is external: a unit reads the *)
(* environment file when its process starts, the web unit Requires and      *)
(* comes After the session daemon, both restart on failure, and a start job *)
(* leaves a running unit alone.                                             *)
(***************************************************************************)
EXTENDS Naturals, FiniteSets

CONSTANTS
    Invokers,       \* processes that may run a command
    Settings,       \* what options set: host, port, data directory, ...
    Address,        \* the settings that make up the service URL
    Choices,        \* their values
    Defaults,       \* defaultConfiguration(): also what a unit uses without a file
    NoFile, Stopped, Failed

Config == [Settings -> Choices]

ASSUME ControlAssumption ==
    /\ Address \subseteq Settings
    /\ Defaults \in Config
    /\ NoFile \notin Config
    /\ Stopped \notin Config /\ Failed \notin Config
    /\ Stopped # Failed

\* serviceUnits, in the order they start
Units == {"sessiond", "web"}

VARIABLES
    stateFile,     \* state.json
    environment,   \* the units' EnvironmentFile
    unit,          \* unit -> configuration its process read, Stopped or Failed
    enabled,       \* units enabled for the user's login
    cmd,           \* invoker -> the command it is running
    torn,          \* history: a persistConfiguration was cut short or overlapped
    said           \* history: what the last step reported

vars == <<stateFile, environment, unit, enabled, cmd, torn, said>>

Idle == [at |-> "none"]
Nothing == [name |-> "none"]

Persisting == {"start", "restart", "enable"}
Names == Persisting \cup {"stop", "disable", "status", "plugins"}

Steps == {"environment", "state", "sessiond", "web", "stop", "activity", "health"}

Command == [name : Names, config : Config, alone : BOOLEAN, seen : SUBSET Units,
            at : Steps]

TypeOK ==
    /\ stateFile \in Config \cup {NoFile}
    /\ environment \in Config \cup {NoFile}
    /\ unit \in [Units -> Config \cup {Stopped, Failed}]
    /\ enabled \in SUBSET Units
    /\ cmd \in [Invokers -> Command \cup {Idle}]
    /\ torn \in BOOLEAN
    /\ said \in {Nothing} \cup
                [name : Names, config : Config, ready : BOOLEAN, alone : BOOLEAN]

Init ==
    /\ stateFile = NoFile
    /\ environment = NoFile
    /\ unit = [u \in Units |-> Stopped]
    /\ enabled = {}
    /\ cmd = [c \in Invokers |-> Idle]
    /\ torn = FALSE
    /\ said = Nothing

Active(u) == unit[u] \in Config

At(c, step) == cmd[c] # Idle /\ cmd[c].at = step

Goto(c, step) == cmd' = [cmd EXCEPT ![c].at = step]

End(c) == cmd' = [cmd EXCEPT ![c] = Idle]

-----------------------------------------------------------------------------
(* A command up to its systemctl call.                                      *)

\* defaults, overridden by the state file, overridden by the options
ConfigurationFromOptions(state, options) == options
Configuration(state, options) ==
    [k \in Settings |-> IF k \in DOMAIN options THEN options[k]
                        ELSE IF state # NoFile THEN state[k]
                        ELSE Defaults[k]]

\* parseOptions, readState and configuration; the plugins command has neither.
Run(c, name, options) ==
    LET command == [name |-> name, seen |-> {},
                    config |-> Configuration(stateFile, options),
                    alone |-> \A d \in Invokers \ {c} : cmd[d] = Idle,
                    at |-> CASE name \in Persisting -> "environment"
                             [] name \in {"stop", "disable"} -> "stop"
                             [] name = "status" -> "activity"
                             [] name = "plugins" -> "sessiond"]
    IN  /\ cmd[c] = Idle
        /\ cmd' = [d \in Invokers |->
                     IF d = c THEN command
                     ELSE IF cmd[d] = Idle THEN Idle
                     ELSE [cmd[d] EXCEPT !.alone = FALSE]]
        /\ said' = Nothing
        /\ UNCHANGED <<stateFile, environment, unit, enabled, torn>>

Overlapped(c) == \E d \in Invokers \ {c} : At(d, "state")

\* persistConfiguration, after its temporary files (one pair per process) are
\* written: the first rename, then the second.
RenameEnvironmentOnce(c) ==
    /\ At(c, "environment")
    /\ environment' = IF environment = NoFile THEN cmd[c].config ELSE environment
    /\ Goto(c, "state")
    /\ torn' = (torn \/ Overlapped(c))
    /\ said' = Nothing
    /\ UNCHANGED <<stateFile, unit, enabled>>
RenameEnvironment(c) ==
    /\ At(c, "environment")
    /\ environment' = cmd[c].config
    /\ Goto(c, "state")
    /\ torn' = (torn \/ Overlapped(c))
    /\ said' = Nothing
    /\ UNCHANGED <<stateFile, unit, enabled>>

\* A whole persist that nothing came between mends what was torn before.
RenameState(c) ==
    /\ At(c, "state")
    /\ stateFile' = cmd[c].config
    /\ Goto(c, "sessiond")
    /\ torn' = (Overlapped(c) \/ (torn /\ ~cmd[c].alone))
    /\ said' = Nothing
    /\ UNCHANGED <<environment, unit, enabled>>

-----------------------------------------------------------------------------
(* systemctl, after daemon-reload.                                          *)

\* What a unit's launcher runs on: the environment file is optional.
Loaded == IF environment = NoFile THEN Defaults ELSE environment

\* restart as start would do it: a running daemon keeps its old process.
RestartAsStart(c) ==
    /\ At(c, "sessiond")
    /\ unit' = [unit EXCEPT !["sessiond"] = IF Active("sessiond") THEN @ ELSE Loaded]
    /\ enabled' = IF cmd[c].name = "enable" THEN Units ELSE enabled
    /\ Goto(c, "web")
    /\ said' = Nothing
    /\ UNCHANGED <<stateFile, environment, torn>>

\* start, and the start half of restart, of the session daemon.  A restart
\* stops the web unit first and the daemon after it.
StartSessiond(c) ==
    LET restarts == cmd[c].name \in {"restart", "plugins"} IN
    /\ At(c, "sessiond")
    /\ unit' = [u \in Units |->
                  IF u = "sessiond"
                  THEN IF restarts \/ ~Active(u) THEN Loaded ELSE unit[u]
                  ELSE IF restarts THEN Stopped ELSE unit[u]]
    /\ enabled' = IF cmd[c].name = "enable" THEN Units ELSE enabled
    /\ Goto(c, "web")
    /\ said' = Nothing
    /\ UNCHANGED <<stateFile, environment, torn>>

\* plugins --restart has no status to report and ends here.
StartWeb(c) ==
    /\ At(c, "web")
    /\ unit' = [unit EXCEPT !["web"] = IF Active("web") THEN @ ELSE Loaded]
    /\ IF cmd[c].name = "plugins" THEN End(c) ELSE Goto(c, "activity")
    /\ said' = Nothing
    /\ UNCHANGED <<stateFile, environment, enabled, torn>>

\* stop, and disable --now
StopUnits(c) ==
    /\ At(c, "stop")
    /\ unit' = [u \in Units |-> Stopped]
    /\ enabled' = IF cmd[c].name = "disable" THEN {} ELSE enabled
    /\ Goto(c, "activity")
    /\ said' = Nothing
    /\ UNCHANGED <<stateFile, environment, torn>>

\* runSystemctl throws, before the job or between its two units.
SystemctlFails(c) ==
    /\ \E step \in {"sessiond", "web", "stop"} : At(c, step)
    /\ End(c)
    /\ said' = Nothing
    /\ UNCHANGED <<stateFile, environment, unit, enabled, torn>>

-----------------------------------------------------------------------------
(* serviceStatus: is-active of the units, then the health route.            *)

ObserveActivity(c) ==
    /\ At(c, "activity")
    /\ cmd' = [cmd EXCEPT ![c].at = "health", ![c].seen = {u \in Units : Active(u)}]
    /\ said' = Nothing
    /\ UNCHANGED <<stateFile, environment, unit, enabled, torn>>

\* The web server answers at the URL of the configuration the command holds,
\* and finds the daemon.
Healthy(config) ==
    /\ \A u \in Units : Active(u)
    /\ \A k \in Address : unit["web"][k] = config[k]

Report(c, ready) ==
    /\ said' = [name |-> cmd[c].name, config |-> cmd[c].config,
                alone |-> cmd[c].alone, ready |-> ready]
    /\ End(c)
    /\ UNCHANGED <<stateFile, environment, unit, enabled, torn>>

ReportReady(c) ==
    /\ At(c, "health")
    /\ cmd[c].seen = Units
    /\ Healthy(cmd[c].config)
    /\ Report(c, TRUE)

\* status and stop report what they found, the others at the 15 s deadline.
ReportNotReady(c) ==
    /\ At(c, "health")
    /\ Report(c, FALSE)

\* waitUntilReady polls again
PollAgain(c) ==
    /\ At(c, "health")
    /\ cmd[c].name \in Persisting
    /\ Goto(c, "activity")
    /\ said' = Nothing
    /\ UNCHANGED <<stateFile, environment, unit, enabled, torn>>

-----------------------------------------------------------------------------
(* What goes wrong.                                                         *)

\* systemd finishes a job whose client has died, so dying during one is dying
\* after it.
Killed(c) ==
    /\ cmd[c] # Idle
    /\ ~At(c, "web")
    /\ torn' = (torn \/ At(c, "state"))
    /\ End(c)
    /\ said' = Nothing
    /\ UNCHANGED <<stateFile, environment, unit, enabled>>

UnitFails(u) ==
    /\ Active(u)
    /\ unit' = [unit EXCEPT ![u] = Failed]
    /\ said' = Nothing
    /\ UNCHANGED <<stateFile, environment, enabled, cmd, torn>>

\* Restart=on-failure, RestartSec=2: the new process reads the file again.
UnitRestarts(u) ==
    /\ unit[u] = Failed
    /\ unit' = [unit EXCEPT ![u] = Loaded]
    /\ said' = Nothing
    /\ UNCHANGED <<stateFile, environment, enabled, cmd, torn>>

\* The user logs out or the machine restarts: XDG_RUNTIME_DIR goes with both
\* files, and enabled units start at the next login.
NewLogin ==
    /\ stateFile' = NoFile
    /\ environment' = NoFile
    /\ unit' = [u \in Units |-> IF u \in enabled THEN Defaults ELSE Stopped]
    /\ cmd' = [c \in Invokers |-> Idle]
    /\ torn' = FALSE
    /\ said' = Nothing
    /\ UNCHANGED enabled

-----------------------------------------------------------------------------
Options == UNION {[S -> Choices] : S \in SUBSET Settings}

CommandStep(c) ==
    \/ \E name \in Names, options \in Options : Run(c, name, options)
    \/ RenameEnvironment(c) \/ RenameState(c)
    \/ StartSessiond(c) \/ StartWeb(c) \/ StopUnits(c) \/ SystemctlFails(c)
    \/ ObserveActivity(c) \/ ReportReady(c) \/ ReportNotReady(c) \/ PollAgain(c)
    \/ Killed(c)

Next ==
    \/ \E c \in Invokers : CommandStep(c)
    \/ \E u \in Units : UnitFails(u) \/ UnitRestarts(u)
    \/ NewLogin

Spec == Init /\ [][Next]_vars

-----------------------------------------------------------------------------
(* Properties.                                                              *)

\* What status and endpoint report (state.json) is what the next start of a
\* unit will run on (the environment file), except between the two renames
\* of a command and after a persist that was killed or overlapped; the next
\* persist that nothing disturbs mends that.
FilesAgree ==
    \/ stateFile = environment
    \/ torn
    \/ \E c \in Invokers : At(c, "state")

\* The units run on the configuration a command that ran by itself reports.
Applied ==
    said.ready /\ said.alone => \A u \in Units : unit[u] = said.config

\* restart by itself reports ready only for the configuration it was given and
\* completed, whatever ran before and whichever unit failed meanwhile.
RestartReconfigures == said # Nothing /\ said.name = "restart" => Applied

\* What README.md says of start: "starts or reconfigures the service with one
\* command".  A start job leaves running units on the old configuration.
StartReconfigures == said # Nothing /\ said.name = "start" => Applied
=============================================================================
