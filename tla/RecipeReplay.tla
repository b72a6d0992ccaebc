----------------------------- MODULE RecipeReplay ------------------------------
(***************************************************************************)
(* The steps of arclith.recipe.yaml and their replay in another directory  *)
(* (cli/arclith_cli/recipe.py, recipe_models.py, recipe_cli.py,            *)
(* application_blueprint_recipe.py).  A recipe holds no secret and no      *)
(* absolute path: a replay takes the secrets from the environment, the     *)
(* developer corrects the paths, and a newer arclith-cli, with other       *)
(* templates, may be the one that replays.                                 *)
(***************************************************************************)
EXTENDS Naturals, SequencesExt

CONSTANTS
  Services, SecretValues,  \* what an adapter connects to, and with what secret
  MaxSteps, MaxReleases, MaxCorrections  \* bounds

ReplayAssumption ==
  /\ MaxSteps \in Nat \ {0} /\ MaxReleases \in Nat \ {0} /\ MaxCorrections \in Nat

VARIABLES
  ran,        \* the steps as the developer ran them
  noted,      \* the steps of the recipe
  release,    \* of arclith-cli
  corrections, \* edits of the recipe by the developer
  replay      \* the replay and what it has done

replayVars == <<ran, noted, release, corrections, replay>>

None == "none"
Redacted == "<redacted>"
ExternalPath == "<external-path>"
Placeholders == {Redacted, ExternalPath}

\* A blueprint without parameters, one with, and the command of another release.
Blueprinted == {"crud", "state-machine"}
Supported == {"new", "adapter"} \cup Blueprinted

\* application_blueprint_digest: of the templates and renderers of a release; some
\* recipes are of releases that did not record it yet.
Digest == release
Unrecorded == 0

Bare(command) ==
  [command |-> command, service |-> None, secret |-> None, path |-> None,
   digest |-> Unrecorded]
Runnable ==
  {Bare("new"), Bare("unknown")}
    \cup [command : {"adapter"}, service : Services, secret : SecretValues,
          path : {"relative", "absolute"}, digest : {Unrecorded}]
    \cup {[Bare(c) EXCEPT !.digest = d] : c \in Blueprinted, d \in {Unrecorded, Digest}}

\* A secret is referred to by the variable of its service.
Idle == [pc |-> "idle", steps |-> << >>, args |-> << >>, known |-> FALSE,
         env |-> [s \in Services |-> None], done |-> << >>, copy |-> << >>]

ReplayInit ==
  /\ ran = << >> /\ noted = << >> /\ corrections = 0
  /\ release = 1
  /\ replay = Idle

-----------------------------------------------------------------------------
(* The recipe.                                                              *)

\* redact_recipe_args: a secret whatever its value, the empty one too.
Sanitized(step) ==
  [step EXCEPT !.secret = IF step.command = "adapter" THEN Redacted ELSE @,
               !.path = IF @ = "absolute" THEN ExternalPath ELSE @]

\* Recipe.from_dict.
Ordered(steps) == \A i, j \in DOMAIN steps : i < j => steps[i].id < steps[j].id

\* record_successful_step; a project is created first, if by arclith-cli at all.
NoteStep ==
  /\ replay.pc = "idle" /\ Len(ran) < MaxSteps /\ Ordered(noted)
  /\ \E step \in Runnable :
       /\ step.command = "new" => ran = << >>
       /\ ran' = Append(ran, step)
       /\ noted' = Append(noted,
            [id |-> Len(noted) + 1, args |-> Sanitized(step),
             referred |-> step.command = "adapter"])
  /\ UNCHANGED <<release, corrections, replay>>

\* The developer edits the file: a path that is portable, a reference dropped, steps
\* in another order.
CorrectRecipe ==
  /\ replay.pc = "idle"
  /\ corrections < MaxCorrections /\ corrections' = corrections + 1
  /\ \/ \E i \in DOMAIN noted :
          \/ /\ noted[i].args.path = ExternalPath
             /\ noted' = [noted EXCEPT ![i].args.path = "relative"]
          \/ /\ noted[i].referred
             /\ noted' = [noted EXCEPT ![i].referred = FALSE]
     \/ noted' = Reverse(noted)
  /\ UNCHANGED <<ran, release, replay>>

Upgrade ==
  /\ replay.pc = "idle" /\ release < MaxReleases
  /\ release' = release + 1
  /\ UNCHANGED <<ran, noted, corrections, replay>>

-----------------------------------------------------------------------------
(* replay_command.                                                          *)

\* plan_replay_steps: one step after the other, without those nobody supports.
Planned(steps) ==
  FoldLeft(LAMBDA plan, s : IF s.args.command \in Supported THEN Append(plan, s) ELSE plan,
           << >>, steps)

\* select_recipe_steps: an inclusive range, of which strict allows no step to be
\* skipped.  `known' is whether the target has a recipe.
SelectSteps ==
  /\ replay.pc = "idle"
  /\ \E first, last \in DOMAIN noted, strict, known \in BOOLEAN :
       LET selected == SubSeq(noted, first, last)
           plan == Planned(selected)
       IN /\ first <= last
          /\ known => noted[first].args.command # "new"
          /\ replay' = [replay EXCEPT
               !.steps = plan, !.known = known,
               !.pc = IF ~Ordered(noted) \/ (strict /\ plan # selected) THEN "refused"
                      ELSE IF plan = << >> THEN "done" ELSE "prepare"]
  /\ UNCHANGED <<ran, noted, release, corrections>>

\* _hydrate_step_args.
Hydrated(step, env) ==
  IF step.referred THEN [step.args EXCEPT !.secret = env[step.args.service]]
  ELSE step.args

\* Defect that TLC must notice: only what a reference replaces is looked at.
Hydrates_Referred(step, env) == step.referred => env[step.args.service] # None

\* A variable is there for each reference, and no placeholder is left.
Hydrates(step, env) ==
  /\ step.referred => env[step.args.service] # None
  /\ {Hydrated(step, env).secret, Hydrated(step, env).path} \cap Placeholders = {}

\* validate_application_recipe_metadata.
Current(args) ==
  args.command \in Blueprinted =>
    /\ args.command = "state-machine" => args.digest # Unrecorded
    /\ args.digest \in {Unrecorded, Digest}

Accepts(step, env) == Hydrates(step, env) /\ Current(Hydrated(step, env))

\* Every step before the first write.
PrepareSteps ==
  /\ replay.pc = "prepare"
  /\ \E env \in [Services -> SecretValues \cup {None}] :
       replay' =
         IF \A i \in DOMAIN replay.steps : Accepts(replay.steps[i], env)
         THEN [replay EXCEPT !.pc = "execute", !.env = env,
                 !.args = [i \in DOMAIN replay.steps |-> Hydrated(replay.steps[i], env)]]
         ELSE [replay EXCEPT !.pc = "refused"]
  /\ UNCHANGED <<ran, noted, release, corrections>>

\* _execute_step; a target without a recipe gets those of the steps at the end.
ExecuteStep ==
  /\ replay.pc = "execute"
  /\ LET done == Append(replay.done, replay.args[Len(replay.done) + 1])
         end == Len(done) = Len(replay.steps)
     IN replay' = [replay EXCEPT
          !.done = done,
          !.pc = IF end THEN "done" ELSE @,
          !.copy = IF end /\ ~replay.known THEN replay.steps ELSE << >>]
  /\ UNCHANGED <<ran, noted, release, corrections>>

\* A command raises: what the steps before it have written stays.
StepFails ==
  /\ replay.pc = "execute"
  /\ replay' = [replay EXCEPT !.pc = "failed"]
  /\ UNCHANGED <<ran, noted, release, corrections>>

ReplayNext ==
  \/ NoteStep \/ CorrectRecipe \/ Upgrade
  \/ SelectSteps \/ PrepareSteps \/ ExecuteStep \/ StepFails

-----------------------------------------------------------------------------
\* The environment has the secret that was used.
Answers(id) == ran[id].command = "adapter" => replay.env[ran[id].service] = ran[id].secret
Moved(id) == ran[id].path = "absolute"

\* A replay that refuses has written nothing.  One that writes does, in their order,
\* what the developer did, nothing of another template and nothing with a
\* placeholder; where it ends, the recipe it leaves would do it again.
ReplaysAsRecorded ==
  /\ replay.pc = "refused" => replay.done = << >>
  /\ \A i \in DOMAIN replay.done :
       LET id == replay.steps[i].id IN
       /\ {replay.done[i].secret, replay.done[i].path} \cap Placeholders = {}
       /\ ran[id].digest \in {Unrecorded, Digest}
       /\ Answers(id) => [replay.done[i] EXCEPT !.path = None] = [ran[id] EXCEPT !.path = None]
       /\ ~Moved(id) => replay.done[i].path = ran[id].path
       /\ i > 1 => replay.steps[i - 1].id < id
  /\ replay.copy # << >> =>
       replay.done = [i \in DOMAIN replay.copy |-> Hydrated(replay.copy[i], replay.env)]
=============================================================================
