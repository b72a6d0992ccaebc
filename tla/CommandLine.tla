----------------------------- MODULE CommandLine ------------------------------
(***************************************************************************)
(* arclith-cli: the commands that generate files in a project              *)
(* (ProjectGeneration), and what is taken of a project without running it: *)
(* a state machine (StateMachineDeclaration), where names come from        *)
(* (ImportOrigins), the steps to replay (RecipeReplay), the configuration  *)
(* to start with or to export (Configuration).  A behaviour exercises one  *)
(* of them and leaves the others as they start.                            *)
(***************************************************************************)
EXTENDS ProjectGeneration

CONSTANTS
  StateNames, InitialState, MaxTransitions,
  SourceModules, EntryModule, SourceNames, Symbol, Library, Projects,
  Services, SecretValues, MaxSteps, MaxReleases, MaxCorrections,
  MaxSaves

VARIABLES
  task,  \* what this behaviour exercises
  states, transitions, reachable, verdict,
  sources, checking, loading, loaded, line, values, bound, unfinished,
  ran, noted, release, corrections, replay,
  config, mappings, chain, held, output, start, saves

Declaration == INSTANCE StateMachineDeclaration
Origins == INSTANCE ImportOrigins
Replays == INSTANCE RecipeReplay
Configurations == INSTANCE Configuration

ASSUME CommandLineAssumption ==
  /\ Declaration!DeclarationAssumption /\ Origins!ImportsAssumption
  /\ Replays!ReplayAssumption /\ Configurations!ConfigurationAssumption

generationVars == vars
declarationVars == <<states, transitions, reachable, verdict>>
importVars == <<sources, checking, loading, loaded, line, values, bound, unfinished>>
replayVars == <<ran, noted, release, corrections, replay>>
configurationVars == <<config, mappings, chain, held, output, start, saves>>
commandLineVars ==
  <<task, generationVars, declarationVars, importVars, replayVars, configurationVars>>

\* One of the projects, for the behaviours that generate nothing, and one of the
\* configurations, for those that start nothing.
AtRest ==
  /\ request = CHOOSE s \in Scenarios : TRUE
  /\ Exists(Package) /\ target = Nothing
ConfiguredAnyhow ==
  /\ config = CHOOSE c \in Configurations!Directories : TRUE
  /\ mappings = << >> /\ chain = <<"yaml">>

CommandLineInit ==
  /\ task \in {"generate", "declare", "import", "replay", "configure"}
  /\ Init /\ (task = "generate" \/ AtRest)
  /\ Declaration!DeclarationInit /\ Origins!ImportsInit /\ Replays!ReplayInit
  /\ Configurations!ConfigurationInit /\ (task = "configure" \/ ConfiguredAnyhow)

CommandLineNext ==
  /\ UNCHANGED task
  /\ \/ /\ task = "generate" /\ Next
        /\ UNCHANGED <<declarationVars, importVars, replayVars, configurationVars>>
     \/ /\ task = "declare" /\ Declaration!DeclarationNext
        /\ UNCHANGED <<generationVars, importVars, replayVars, configurationVars>>
     \/ /\ task = "import" /\ Origins!ImportsNext
        /\ UNCHANGED <<generationVars, declarationVars, replayVars, configurationVars>>
     \/ /\ task = "replay" /\ Replays!ReplayNext
        /\ UNCHANGED <<generationVars, declarationVars, importVars, configurationVars>>
     \/ /\ task = "configure" /\ Configurations!ConfigurationNext
        /\ UNCHANGED <<generationVars, declarationVars, importVars, replayVars>>

CommandLineSpec == CommandLineInit /\ [][CommandLineNext]_commandLineVars

-----------------------------------------------------------------------------
\* What the command line takes of a project without running it is so: the states of a
\* state machine are all reached (StateMachineDeclaration), a name refers to what its
\* imports lead to (ImportOrigins), the steps of a recipe do again what was done
\* (RecipeReplay), and the settings are what files and secrets say (Configuration).
AcceptedIsTrue ==
  /\ Declaration!DeclarationsAreLive /\ Origins!OriginsAreTrue
  /\ Replays!ReplaysAsRecorded /\ Configurations!SettingsAreAsWritten
=============================================================================
