------------------------ MODULE ServiceControlProofs ------------------------
(***************************************************************************)
(* Proofs about ServiceControl for any invokers, settings and choices.      *)
(*                                                                          *)
(* What makes a command by itself safe is that nobody else may write the    *)
(* environment file from its first rename to its report: Alone says who     *)
(* else is there, Renaming what the file holds between the two renames, and *)
(* Restarting what the units can run on once a restart has stopped them.    *)
(***************************************************************************)
EXTENDS ServiceControl, TLAPS

\* A command that still counts as alone is the only one.
Alone ==
    \A c, d \in Invokers :
        cmd[c] # Idle /\ cmd[c].alone /\ d # c => cmd[d] = Idle

\* Between its renames a command has its configuration in the environment
\* file, unless another one has overlapped it; two there at once are torn.
Renaming ==
    /\ \A c \in Invokers :
         At(c, "state") /\ (cmd[c].alone \/ ~torn) => environment = cmd[c].config
    /\ ~torn => \A c, d \in Invokers : At(c, "state") /\ At(d, "state") => c = d

\* A restart by itself: from its first rename on the file holds what it was
\* given, and from its systemctl on no unit runs on anything else.
Restarting ==
    \A c \in Invokers :
        cmd[c] # Idle /\ cmd[c].name = "restart" =>
            /\ cmd[c].at # "stop"
            /\ cmd[c].alone /\ cmd[c].at # "environment" =>
                 environment = cmd[c].config
            /\ cmd[c].alone /\ cmd[c].at \in {"web", "activity", "health"} =>
                 \A u \in Units : unit[u] \in {cmd[c].config, Stopped, Failed}

IInv ==
    /\ TypeOK /\ Alone /\ Renaming /\ Restarting
    /\ FilesAgree /\ RestartReconfigures
-----------------------------------------------------------------------------
(* What an action makes of the commands.                                    *)

LEMMA CommandType ==
    /\ \A x \in Command : x # Idle
    /\ TypeOK => \A c \in Invokers : cmd[c] # Idle => cmd[c] \in Command
<1>1. \A x \in Command : x.at # "none"
  BY DEF Command, Steps
<1> QED
  BY <1>1 DEF TypeOK, Idle

LEMMA GotoEffect ==
    ASSUME TypeOK, NEW c \in Invokers, cmd[c] # Idle, NEW step \in Steps, Goto(c, step)
    PROVE  /\ cmd'[c] \in Command /\ cmd'[c].at = step
           /\ cmd'[c].name = cmd[c].name /\ cmd'[c].config = cmd[c].config
           /\ cmd'[c].alone = cmd[c].alone
           /\ \A d \in Invokers \ {c} : cmd'[d] = cmd[d]
           /\ cmd' \in [Invokers -> Command \cup {Idle}]
<1>1. cmd[c] \in Command
  BY CommandType
<1> QED
  BY <1>1 DEF TypeOK, Goto, Command

LEMMA EndEffect ==
    ASSUME TypeOK, NEW c \in Invokers, End(c)
    PROVE  /\ cmd'[c] = Idle
           /\ \A d \in Invokers \ {c} : cmd'[d] = cmd[d]
           /\ cmd' \in [Invokers -> Command \cup {Idle}]
  BY DEF TypeOK, End

\* The configuration a command ends up with has every setting.
LEMMA ConfigurationType ==
    ASSUME NEW state \in Config \cup {NoFile}, NEW options \in Options
    PROVE  Configuration(state, options) \in Config
<1>1. PICK S \in SUBSET Settings : options \in [S -> Choices]
  BY DEF Options
<1>2. \A k \in Settings : /\ k \in DOMAIN options => options[k] \in Choices
                          /\ state # NoFile => state[k] \in Choices
                          /\ Defaults[k] \in Choices
  BY <1>1, ControlAssumption DEF ControlAssumption, Config
<1> QED
  BY <1>2 DEF Configuration, Config

\* A command begins, and whoever is there is no longer alone.
LEMMA RunEffect ==
    ASSUME TypeOK, NEW c \in Invokers, NEW name \in Names, NEW options \in Options,
           Run(c, name, options)
    PROVE  /\ cmd[c] = Idle /\ cmd'[c] \in Command
           /\ cmd'[c].at \in Steps \ {"state", "web", "health"}
           /\ cmd'[c].name = "restart" => cmd'[c].at = "environment"
           /\ cmd'[c].alone => \A d \in Invokers \ {c} : cmd[d] = Idle
           /\ \A d \in Invokers \ {c} :
                /\ cmd[d] = Idle => cmd'[d] = Idle
                /\ cmd[d] # Idle => /\ cmd'[d] \in Command /\ ~ cmd'[d].alone
                                    /\ cmd'[d].at = cmd[d].at
                                    /\ cmd'[d].name = cmd[d].name
                                    /\ cmd'[d].config = cmd[d].config
           /\ cmd' \in [Invokers -> Command \cup {Idle}]
<1> DEFINE config == Configuration(stateFile, options)
           alone == \A d \in Invokers \ {c} : cmd[d] = Idle
           at == CASE name \in Persisting -> "environment"
                   [] name \in {"stop", "disable"} -> "stop"
                   [] name = "status" -> "activity"
                   [] name = "plugins" -> "sessiond"
           command == [name |-> name, seen |-> {}, config |-> config,
                       alone |-> alone, at |-> at]
<1>1. config \in Config
  BY ConfigurationType DEF TypeOK
<1>2. /\ at \in Steps \ {"state", "web", "health"}
      /\ name = "restart" => at = "environment"
  BY DEF Steps, Names, Persisting
<1>3. alone \in BOOLEAN
  OBVIOUS
<1>4. /\ cmd[c] = Idle
      /\ cmd' = [d \in Invokers |->
                    IF d = c THEN command
                    ELSE IF cmd[d] = Idle THEN Idle
                    ELSE [cmd[d] EXCEPT !.alone = FALSE]]
  BY DEF Run
<1> HIDE DEF config, alone, at
<1>5. /\ command \in Command /\ command.at = at /\ command.name = name
      /\ command.alone = alone
  BY <1>1, <1>2, <1>3 DEF Command
<1>6. \A d \in Invokers : cmd[d] # Idle => cmd[d] \in Command
  BY CommandType
<1>7. \A x \in Command : LET y == [x EXCEPT !.alone = FALSE] IN
        /\ y \in Command /\ y.alone = FALSE /\ y.at = x.at
        /\ y.name = x.name /\ y.config = x.config
  BY DEF Command
<1> HIDE DEF command
<1>8. /\ cmd'[c] = command
      /\ \A d \in Invokers \ {c} :
           cmd'[d] = IF cmd[d] = Idle THEN Idle ELSE [cmd[d] EXCEPT !.alone = FALSE]
  BY <1>4
<1>9. \A d \in Invokers \ {c} : cmd[d] # Idle =>
        /\ cmd'[d] \in Command /\ ~ cmd'[d].alone /\ cmd'[d].at = cmd[d].at
        /\ cmd'[d].name = cmd[d].name /\ cmd'[d].config = cmd[d].config
  <2>1. ASSUME NEW d \in Invokers \ {c}, cmd[d] # Idle
        PROVE  cmd[d] \in Command /\ cmd'[d] = [cmd[d] EXCEPT !.alone = FALSE]
    BY <1>6, <1>8, <2>1
  <2> QED BY <1>7, <2>1
<1>10. cmd' \in [Invokers -> Command \cup {Idle}]
  BY <1>4, <1>5, <1>8, <1>9
<1> QED
  BY <1>2, <1>4, <1>5, <1>8, <1>9, <1>10 DEF alone
-----------------------------------------------------------------------------
(* Types.                                                                   *)

LEMMA TypeInit == Init => TypeOK
  BY ControlAssumption DEF ControlAssumption, Init, TypeOK, Units

LEMMA ActionType ==
    ASSUME TypeOK, NEW c \in Invokers, CommandStep(c)
    PROVE  TypeOK'
<1>1. Loaded \in Config
  BY ControlAssumption DEF ControlAssumption, TypeOK, Loaded
<1>2. "sessiond" \in Units /\ "web" \in Units /\ Nothing \in {Nothing}
  BY DEF Units
<1>3. ASSUME NEW name \in Names, NEW options \in Options, Run(c, name, options)
      PROVE  TypeOK'
  <2>1. cmd' \in [Invokers -> Command \cup {Idle}]
    BY <1>3, RunEffect
  <2> QED BY <1>2, <1>3, <2>1 DEF Run, TypeOK
<1>4. CASE RenameEnvironment(c)
  <2>1. cmd' \in [Invokers -> Command \cup {Idle}]
    BY <1>4, GotoEffect DEF RenameEnvironment, At, Steps
  <2>2. cmd[c].config \in Config
    BY <1>4, CommandType DEF RenameEnvironment, At, Command
  <2> QED BY <1>2, <1>4, <2>1, <2>2 DEF RenameEnvironment, TypeOK, Overlapped
<1>5. CASE RenameState(c)
  <2>1. cmd' \in [Invokers -> Command \cup {Idle}]
    BY <1>5, GotoEffect DEF RenameState, At, Steps
  <2>2. cmd[c].config \in Config /\ cmd[c].alone \in BOOLEAN
    BY <1>5, CommandType DEF RenameState, At, Command
  <2> QED BY <1>2, <1>5, <2>1, <2>2 DEF RenameState, TypeOK, Overlapped
<1>6. CASE StartSessiond(c)
  <2>1. cmd' \in [Invokers -> Command \cup {Idle}]
    BY <1>6, GotoEffect DEF StartSessiond, At, Steps
  <2> QED BY <1>1, <1>2, <1>6, <2>1 DEF StartSessiond, TypeOK
<1>7. CASE StartWeb(c)
  <2>1. cmd' \in [Invokers -> Command \cup {Idle}]
    BY <1>7, GotoEffect, EndEffect DEF StartWeb, At, Steps
  <2> QED BY <1>1, <1>2, <1>7, <2>1 DEF StartWeb, TypeOK
<1>8. CASE StopUnits(c)
  <2>1. cmd' \in [Invokers -> Command \cup {Idle}]
    BY <1>8, GotoEffect DEF StopUnits, At, Steps
  <2> QED BY <1>2, <1>8, <2>1 DEF StopUnits, TypeOK
<1>9. CASE SystemctlFails(c)
  BY <1>2, <1>9, EndEffect DEF SystemctlFails, TypeOK
<1>10. CASE ObserveActivity(c)
  <2>1. cmd[c] \in Command
    BY <1>10, CommandType DEF ObserveActivity, At
  <2>2. PICK seen \in SUBSET Units : seen = {u \in Units : Active(u)}
    OBVIOUS
  <2>3. cmd' = [cmd EXCEPT ![c].at = "health", ![c].seen = seen]
    BY <1>10, <2>2 DEF ObserveActivity
  <2>4. cmd' \in [Invokers -> Command \cup {Idle}]
    BY <2>1, <2>3 DEF TypeOK, Command, Steps
  <2> QED BY <1>2, <1>10, <2>4 DEF ObserveActivity, TypeOK
<1>11. ASSUME NEW ready \in BOOLEAN, Report(c, ready), cmd[c] # Idle
       PROVE  TypeOK'
  <2>1. cmd[c] \in Command
    BY <1>11, CommandType
  <2>2. said' \in [name : Names, config : Config, ready : BOOLEAN, alone : BOOLEAN]
    BY <1>11, <2>1 DEF Report, Command
  <2> QED BY <1>11, <2>2, EndEffect DEF Report, TypeOK
<1>12. CASE ReportReady(c) \/ ReportNotReady(c)
  BY <1>11, <1>12 DEF ReportReady, ReportNotReady, At
<1>13. CASE PollAgain(c)
  <2>1. cmd' \in [Invokers -> Command \cup {Idle}]
    BY <1>13, GotoEffect DEF PollAgain, At, Steps
  <2> QED BY <1>2, <1>13, <2>1 DEF PollAgain, TypeOK
<1>14. CASE Killed(c)
  <2>1. At(c, "state") \in BOOLEAN
    BY DEF At
  <2> QED BY <1>2, <1>14, <2>1, EndEffect DEF Killed, TypeOK
<1> QED
  BY <1>3, <1>4, <1>5, <1>6, <1>7, <1>8, <1>9, <1>10, <1>12, <1>13, <1>14 DEF CommandStep

LEMMA TypeStep == TypeOK /\ [Next]_vars => TypeOK'
<1> SUFFICES ASSUME TypeOK, [Next]_vars PROVE TypeOK'
  OBVIOUS
<1>1. Loaded \in Config /\ Defaults \in Config
  BY ControlAssumption DEF ControlAssumption, TypeOK, Loaded
<1>2. ASSUME NEW u \in Units, UnitFails(u) \/ UnitRestarts(u) PROVE TypeOK'
  BY <1>1, <1>2 DEF UnitFails, UnitRestarts, TypeOK
<1>3. CASE NewLogin
  BY <1>1, <1>3 DEF NewLogin, TypeOK
<1>4. CASE UNCHANGED vars
  BY <1>4 DEF vars, TypeOK
<1> QED
  BY <1>2, <1>3, <1>4, ActionType DEF Next

\* The files, the units and the commands keep their types, for every set of
\* invokers and settings (control.mjs).
THEOREM ServiceTypeCorrect == Spec => []TypeOK
<1> QED BY TypeInit, TypeStep, PTL DEF Spec
-----------------------------------------------------------------------------
(* Who is alone, and what the environment file holds meanwhile.             *)

Begins(c) == \E name \in Names, options \in Options : Run(c, name, options)

LEMMA ObserveEffect ==
    ASSUME TypeOK, NEW c \in Invokers, ObserveActivity(c)
    PROVE  /\ cmd'[c] \in Command /\ cmd'[c].at = "health" /\ cmd[c].at = "activity"
           /\ cmd'[c].name = cmd[c].name /\ cmd'[c].config = cmd[c].config
           /\ cmd'[c].alone = cmd[c].alone
           /\ \A d \in Invokers \ {c} : cmd'[d] = cmd[d]
<1>1. cmd[c] \in Command /\ cmd[c].at = "activity"
  BY CommandType DEF ObserveActivity, At
<1>2. PICK seen \in SUBSET Units : seen = {u \in Units : Active(u)}
  OBVIOUS
<1>3. cmd' = [cmd EXCEPT ![c].at = "health", ![c].seen = seen]
  BY <1>2 DEF ObserveActivity
<1> QED
  BY <1>1, <1>3 DEF TypeOK, Command, Steps

\* A step of a command that is under way touches no other command, and what
\* the command was given stays.
LEMMA StepEffect ==
    ASSUME TypeOK, NEW c \in Invokers, CommandStep(c), ~ Begins(c)
    PROVE  /\ cmd[c] \in Command
           /\ \A d \in Invokers \ {c} : cmd'[d] = cmd[d]
           /\ \/ cmd'[c] = Idle
              \/ /\ cmd'[c] \in Command
                 /\ cmd'[c].name = cmd[c].name /\ cmd'[c].config = cmd[c].config
                 /\ cmd'[c].alone = cmd[c].alone
<1>1. cmd[c] # Idle
  BY DEF CommandStep, Begins, RenameEnvironment, RenameState, StartSessiond, StartWeb,
         StopUnits, SystemctlFails, ObserveActivity, ReportReady, ReportNotReady,
         PollAgain, Killed, At
<1>2. \/ \E step \in Steps : Goto(c, step)
      \/ End(c)
      \/ ObserveActivity(c)
  BY DEF CommandStep, Begins, RenameEnvironment, RenameState, StartSessiond, StartWeb,
         StopUnits, SystemctlFails, ReportReady, ReportNotReady, Report,
         PollAgain, Killed, Steps
<1> QED
  BY <1>1, <1>2, CommandType, GotoEffect, EndEffect, ObserveEffect

LEMMA AloneStep == TypeOK /\ Alone /\ [Next]_vars => Alone'
<1> SUFFICES ASSUME TypeOK, Alone, [Next]_vars PROVE Alone'
  OBVIOUS
<1>1. ASSUME NEW c \in Invokers, CommandStep(c) PROVE Alone'
  <2>1. CASE Begins(c)
    BY <2>1, RunEffect DEF Begins, Alone
  <2>2. CASE ~ Begins(c)
    BY <1>1, <2>2, StepEffect, CommandType DEF Alone
  <2> QED BY <2>1, <2>2
<1>2. CASE NewLogin
  BY <1>2 DEF NewLogin, Alone
<1>3. CASE UNCHANGED cmd
  BY <1>3 DEF Alone
<1> QED
  BY <1>1, <1>2, <1>3 DEF Next, UnitFails, UnitRestarts, vars

LEMMA RenamingStep == TypeOK /\ Alone /\ Renaming /\ [Next]_vars => Renaming'
<1> SUFFICES ASSUME TypeOK, Alone, Renaming, [Next]_vars PROVE Renaming'
  OBVIOUS
<1>1. ASSUME NEW c \in Invokers, RenameEnvironment(c) PROVE Renaming'
  <2>1. /\ environment' = cmd[c].config /\ cmd'[c].at = "state" /\ cmd[c].at # "state"
        /\ cmd'[c].config = cmd[c].config /\ cmd'[c].alone = cmd[c].alone
        /\ \A d \in Invokers \ {c} : cmd'[d] = cmd[d]
        /\ cmd[c] # Idle
    BY <1>1, GotoEffect DEF RenameEnvironment, At, Steps
  <2>2. torn' = (torn \/ \E d \in Invokers \ {c} : At(d, "state"))
    BY <1>1 DEF RenameEnvironment, Overlapped
  <2>3. ~ torn' => \A d \in Invokers \ {c} : ~ At(d, "state")
    BY <2>2
  <2>4. \A d \in Invokers \ {c} : At(d, "state") => ~ cmd[d].alone
    BY <2>1 DEF At, Alone
  <2> QED
    BY <2>1, <2>3, <2>4 DEF At, Renaming
<1>2. ASSUME NEW c \in Invokers, RenameState(c) PROVE Renaming'
  <2>1. /\ environment' = environment /\ cmd'[c].at = "sessiond"
        /\ \A d \in Invokers \ {c} : cmd'[d] = cmd[d]
        /\ cmd[c] # Idle
    BY <1>2, GotoEffect DEF RenameState, At, Steps
  <2>2. torn' = (Overlapped(c) \/ (torn /\ ~ cmd[c].alone))
    BY <1>2 DEF RenameState
  <2>3. ~ torn' => \A d \in Invokers \ {c} : ~ At(d, "state")
    BY <2>2 DEF Overlapped
  <2> QED
    BY <2>1, <2>3 DEF At, Renaming
<1>3. ASSUME NEW c \in Invokers, Killed(c) PROVE Renaming'
  <2>1. /\ cmd'[c] = Idle /\ \A d \in Invokers \ {c} : cmd'[d] = cmd[d]
        /\ environment' = environment /\ (~ torn' => ~ torn)
    BY <1>3, EndEffect DEF Killed
  <2> QED
    BY <2>1 DEF At, Renaming
<1>4. ASSUME NEW c \in Invokers, Begins(c) PROVE Renaming'
  <2>1. /\ environment' = environment /\ torn' = torn /\ cmd'[c].at # "state"
        /\ \A d \in Invokers \ {c} :
             cmd'[d] # Idle => /\ cmd[d] # Idle /\ ~ cmd'[d].alone
                               /\ cmd'[d].at = cmd[d].at /\ cmd'[d].config = cmd[d].config
    <3>1. PICK name \in Names, options \in Options : Run(c, name, options)
      BY <1>4 DEF Begins
    <3>2. environment' = environment /\ torn' = torn
      BY <3>1 DEF Run
    <3> QED BY <3>1, <3>2, RunEffect
  <2> QED
    BY <2>1 DEF At, Renaming
<1>5. ASSUME NEW c \in Invokers, CommandStep(c), ~ Begins(c), ~ RenameEnvironment(c),
             ~ RenameState(c), ~ Killed(c)
      PROVE  Renaming'
  <2>1. environment' = environment /\ torn' = torn
    BY <1>5 DEF CommandStep, Begins, StartSessiond, StartWeb, StopUnits, SystemctlFails,
                ObserveActivity, ReportReady, ReportNotReady, Report, PollAgain
  <2>2. cmd[c] # Idle
    BY <1>5, StepEffect, CommandType
  <2>3. cmd'[c] # Idle => cmd'[c].at # "state"
    <3>1. \/ \E step \in Steps \ {"state"} : Goto(c, step)
          \/ End(c)
          \/ ObserveActivity(c)
      BY <1>5 DEF CommandStep, Begins, StartSessiond, StartWeb, StopUnits, SystemctlFails,
                  ReportReady, ReportNotReady, Report, PollAgain, Steps
    <3> QED BY <2>2, <3>1, GotoEffect, EndEffect, ObserveEffect
  <2> QED
    BY <1>5, <2>1, <2>3, StepEffect DEF At, Renaming
<1>6. CASE NewLogin
  BY <1>6 DEF NewLogin, At, Renaming
<1>7. CASE UNCHANGED <<cmd, environment, torn>>
  BY <1>7 DEF At, Renaming
<1> QED
  BY <1>1, <1>2, <1>3, <1>4, <1>5, <1>6, <1>7 DEF Next, UnitFails, UnitRestarts, vars

\* What state.json says once it is renamed is what the environment file says.
LEMMA FilesAgreeStep ==
    TypeOK /\ Alone /\ Renaming /\ FilesAgree /\ [Next]_vars => FilesAgree'
<1> SUFFICES ASSUME TypeOK, Alone, Renaming, FilesAgree, [Next]_vars PROVE FilesAgree'
  OBVIOUS
<1>1. ASSUME NEW c \in Invokers, RenameEnvironment(c) PROVE FilesAgree'
  <2>1. cmd'[c] # Idle /\ cmd'[c].at = "state"
    BY <1>1, GotoEffect, CommandType DEF RenameEnvironment, At, Steps
  <2> QED BY <2>1 DEF At, FilesAgree
<1>2. ASSUME NEW c \in Invokers, RenameState(c) PROVE FilesAgree'
  <2>1. /\ At(c, "state") /\ stateFile' = cmd[c].config /\ environment' = environment
        /\ torn' = (Overlapped(c) \/ (torn /\ ~ cmd[c].alone))
    BY <1>2 DEF RenameState
  <2>2. CASE cmd[c].alone \/ ~ torn
    BY <2>1, <2>2 DEF Renaming, FilesAgree
  <2>3. CASE ~ (cmd[c].alone \/ ~ torn)
    BY <2>1, <2>3 DEF FilesAgree
  <2> QED BY <2>2, <2>3
<1>3. ASSUME NEW c \in Invokers, Killed(c) PROVE FilesAgree'
  <2>1. /\ \A d \in Invokers \ {c} : cmd'[d] = cmd[d]
        /\ environment' = environment /\ stateFile' = stateFile
        /\ torn' = (torn \/ At(c, "state"))
    BY <1>3, EndEffect DEF Killed
  <2> QED
    BY <2>1 DEF At, FilesAgree
<1>4. ASSUME NEW c \in Invokers, Begins(c) PROVE FilesAgree'
  <2>1. /\ environment' = environment /\ stateFile' = stateFile /\ torn' = torn
        /\ cmd[c] = Idle
        /\ \A d \in Invokers \ {c} :
             cmd[d] # Idle => cmd'[d] \in Command /\ cmd'[d].at = cmd[d].at
    <3>1. PICK name \in Names, options \in Options : Run(c, name, options)
      BY <1>4 DEF Begins
    <3>2. environment' = environment /\ stateFile' = stateFile /\ torn' = torn
      BY <3>1 DEF Run
    <3> QED BY <3>1, <3>2, RunEffect
  <2> QED
    BY <2>1, CommandType DEF At, FilesAgree
<1>5. ASSUME NEW c \in Invokers, CommandStep(c), ~ Begins(c), ~ RenameEnvironment(c),
             ~ RenameState(c), ~ Killed(c)
      PROVE  FilesAgree'
  <2>1. /\ environment' = environment /\ stateFile' = stateFile /\ torn' = torn
        /\ ~ At(c, "state")
    BY <1>5 DEF CommandStep, Begins, StartSessiond, StartWeb, StopUnits, SystemctlFails,
                ObserveActivity, ReportReady, ReportNotReady, Report, PollAgain, At
  <2> QED
    BY <1>5, <2>1, StepEffect DEF At, FilesAgree
<1>6. CASE NewLogin
  BY <1>6 DEF NewLogin, FilesAgree
<1>7. CASE UNCHANGED <<cmd, environment, stateFile, torn>>
  BY <1>7 DEF At, FilesAgree
<1> QED
  BY <1>1, <1>2, <1>3, <1>4, <1>5, <1>6, <1>7 DEF Next, UnitFails, UnitRestarts, vars
-----------------------------------------------------------------------------
(* What a restart by itself leaves running.                                 *)

\* The file only changes by the command that is alone, or a login ends it.
LEMMA RestartingStep == TypeOK /\ Alone /\ Restarting /\ [Next]_vars => Restarting'
<1> SUFFICES ASSUME TypeOK, Alone, Restarting, [Next]_vars,
                    NEW c \in Invokers, cmd'[c] # Idle, cmd'[c].name = "restart"
             PROVE  /\ cmd'[c].at # "stop"
                    /\ cmd'[c].alone /\ cmd'[c].at # "environment" =>
                         environment' = cmd'[c].config
                    /\ cmd'[c].alone /\ cmd'[c].at \in {"web", "activity", "health"} =>
                         \A u \in Units : unit'[u] \in {cmd'[c].config, Stopped, Failed}
  BY DEF Restarting
<1>1. ASSUME NEW d \in Invokers, Begins(d)
      PROVE  /\ cmd'[c].at # "stop"
             /\ ~ (cmd'[c].alone /\ cmd'[c].at # "environment")
  <2>1. PICK name \in Names, options \in Options : Run(d, name, options)
    BY <1>1 DEF Begins
  <2>2. CASE c = d
    BY <2>1, <2>2, RunEffect
  <2>3. CASE c # d
    BY <2>1, <2>3, RunEffect DEF Restarting
  <2> QED BY <2>2, <2>3
<1>2. ASSUME NEW d \in Invokers, d # c, CommandStep(d), ~ Begins(d)
      PROVE  cmd'[c].at # "stop" /\ ~ cmd'[c].alone
  <2>1. cmd'[c] = cmd[c] /\ cmd[d] # Idle
    BY <1>2, StepEffect, CommandType
  <2> QED BY <1>2, <2>1 DEF Alone, Restarting
<1>3. ASSUME CommandStep(c), ~ Begins(c)
      PROVE  /\ cmd'[c].at # "stop"
             /\ cmd'[c].alone /\ cmd'[c].at # "environment" =>
                  environment' = cmd'[c].config
             /\ cmd'[c].alone /\ cmd'[c].at \in {"web", "activity", "health"} =>
                  \A u \in Units : unit'[u] \in {cmd'[c].config, Stopped, Failed}
  <2>1. /\ cmd[c] \in Command /\ cmd[c] # Idle /\ cmd[c].name = "restart"
        /\ cmd'[c].alone = cmd[c].alone /\ cmd'[c].config = cmd[c].config
    BY <1>3, StepEffect, CommandType
  <2>2. /\ cmd[c].at # "stop"
        /\ cmd[c].alone /\ cmd[c].at # "environment" => environment = cmd[c].config
        /\ cmd[c].alone /\ cmd[c].at \in {"web", "activity", "health"} =>
             \A u \in Units : unit[u] \in {cmd[c].config, Stopped, Failed}
    BY <2>1 DEF Restarting
  <2>3. CASE RenameEnvironment(c)
    BY <2>1, <2>3, GotoEffect DEF RenameEnvironment, Steps
  <2>4. CASE RenameState(c)
    BY <2>1, <2>2, <2>4, GotoEffect DEF RenameState, At, Steps
  <2>5. cmd[c].alone /\ cmd[c].at # "environment" => Loaded = cmd[c].config
    BY <2>1, <2>2, ControlAssumption DEF ControlAssumption, Loaded, Command
  <2>6. CASE StartSessiond(c)
    <3>1. /\ At(c, "sessiond") /\ Goto(c, "web") /\ environment' = environment
          /\ unit' = [u \in Units |-> IF u = "sessiond" THEN Loaded ELSE Stopped]
      BY <2>1, <2>6 DEF StartSessiond
    <3> QED
      BY <2>1, <2>2, <2>5, <3>1, GotoEffect DEF At, Steps
  <2>7. CASE StartWeb(c)
    <3>1. /\ At(c, "web") /\ Goto(c, "activity") /\ environment' = environment
          /\ unit' = [unit EXCEPT !["web"] = IF Active("web") THEN @ ELSE Loaded]
      BY <2>1, <2>7 DEF StartWeb
    <3>2. \A u \in Units : unit'[u] = unit[u] \/ unit'[u] = Loaded
      BY <3>1 DEF TypeOK
    <3> QED
      BY <2>1, <2>2, <2>5, <3>1, <3>2, GotoEffect DEF At, Steps
  <2>8. CASE ObserveActivity(c)
    BY <2>1, <2>2, <2>8, ObserveEffect DEF ObserveActivity, At
  <2>9. CASE PollAgain(c)
    BY <2>1, <2>2, <2>9, GotoEffect DEF PollAgain, At, Steps
  <2>10. ~ StopUnits(c)
    BY <2>2 DEF StopUnits, At
  <2>11. ~ End(c)
    BY EndEffect
  <2> QED
    BY <1>3, <2>3, <2>4, <2>6, <2>7, <2>8, <2>9, <2>10, <2>11
    DEF CommandStep, Begins, SystemctlFails, ReportReady, ReportNotReady, Report, Killed
<1>4. ASSUME NEW u \in Units, UnitFails(u) \/ UnitRestarts(u)
      PROVE  /\ cmd' = cmd /\ environment' = environment
             /\ \A v \in Units : unit'[v] \in {unit[v], Failed, Loaded}
  BY <1>4 DEF UnitFails, UnitRestarts, TypeOK
<1>5. ~ NewLogin
  BY DEF NewLogin
<1>6. CASE \E u \in Units : UnitFails(u) \/ UnitRestarts(u)
  <2>1. cmd[c] \in Command
    BY <1>4, <1>6, CommandType
  <2>2. cmd[c].alone /\ cmd[c].at # "environment" =>
          environment = cmd[c].config /\ Loaded = cmd[c].config
    BY <1>4, <1>6, <2>1, ControlAssumption
    DEF ControlAssumption, Loaded, Command, Restarting
  <2> QED
    BY <1>4, <1>6, <2>1, <2>2 DEF Restarting
<1>7. CASE UNCHANGED vars
  BY <1>7 DEF vars, Restarting
<1> QED
  BY <1>1, <1>2, <1>3, <1>5, <1>6, <1>7 DEF Next

\* ready is only reported for units that are active, and by then they can only
\* be active on the one configuration.
LEMMA ReconfiguresStep ==
    TypeOK /\ Restarting /\ RestartReconfigures /\ [Next]_vars => RestartReconfigures'
<1> SUFFICES ASSUME TypeOK, Restarting, RestartReconfigures, [Next]_vars,
                    said' # Nothing, said'.name = "restart", said'.ready, said'.alone,
                    NEW u \in Units
             PROVE  unit'[u] = said'.config
  BY DEF RestartReconfigures, Applied
<1>1. ASSUME NEW c \in Invokers, ReportReady(c) PROVE unit'[u] = said'.config
  <2>1. /\ cmd[c] # Idle /\ cmd[c].at = "health" /\ Active(u) /\ unit' = unit
        /\ said'.name = cmd[c].name /\ said'.config = cmd[c].config
        /\ said'.alone = cmd[c].alone
    BY <1>1 DEF ReportReady, Report, Healthy, At
  <2>2. unit[u] \in {cmd[c].config, Stopped, Failed}
    BY <2>1 DEF Restarting
  <2> QED
    BY <2>1, <2>2, ControlAssumption DEF ControlAssumption, Active
<1>2. ASSUME NEW c \in Invokers, ReportNotReady(c) PROVE FALSE
  BY <1>2 DEF ReportNotReady, Report
<1>3. CASE UNCHANGED vars
  BY <1>3 DEF vars, RestartReconfigures, Applied
<1> QED
  BY <1>1, <1>2, <1>3
  DEF Next, CommandStep, Run, RenameEnvironment, RenameState, StartSessiond, StartWeb,
      StopUnits, SystemctlFails, ObserveActivity, PollAgain, Killed, UnitFails,
      UnitRestarts, NewLogin
-----------------------------------------------------------------------------
LEMMA IInvInit == Init => IInv
<1> SUFFICES ASSUME Init PROVE IInv
  OBVIOUS
<1>1. \A c \in Invokers : cmd[c] = Idle
  BY DEF Init
<1>2. Alone /\ Renaming /\ Restarting
  BY <1>1 DEF Alone, Renaming, Restarting, At
<1>3. FilesAgree /\ RestartReconfigures
  BY DEF Init, FilesAgree, RestartReconfigures
<1> QED
  BY <1>2, <1>3, TypeInit DEF IInv

LEMMA IInvStep == IInv /\ [Next]_vars => IInv'
  BY TypeStep, AloneStep, RenamingStep, RestartingStep, FilesAgreeStep, ReconfiguresStep
  DEF IInv

\* What status and endpoint read in state.json is what a unit's next start reads
\* in the environment file, outside the renames of a command and after a persist
\* that was cut short or overlapped (persistConfiguration), for any number of
\* commands at once, kills and logins.
THEOREM FilesAlwaysAgree == Spec => []FilesAgree
<1>1. IInv => FilesAgree
  BY DEF IInv
<1> QED
  BY <1>1, IInvInit, IInvStep, PTL DEF Spec

\* restart by itself is never reported ready on units that run on anything but
\* the configuration it was given, whatever ran before, however often units fail
\* and restart and whatever the settings are (control.mjs, waitUntilReady).
THEOREM RestartAlwaysReconfigures == Spec => []RestartReconfigures
<1>1. IInv => RestartReconfigures
  BY DEF IInv
<1> QED
  BY <1>1, IInvInit, IInvStep, PTL DEF Spec
=============================================================================
