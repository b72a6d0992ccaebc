-------------------------- MODULE ProjectGeneration --------------------------
(***************************************************************************)
(* Two commands of arclith-cli on one project, each of them a blueprint, a *)
(* binding, an adapter or a new project, the developer who edits the       *)
(* project meanwhile, and arclith.recipe.yaml, to which each command       *)
(* appends itself when it has succeeded (cli/arclith_cli/recipe.py,        *)
(* command_recording.py).                                                  *)
(***************************************************************************)
EXTENDS AdapterGeneration

CONSTANTS
  Scenarios,  \* functions from commands to what they are asked
  Steps       \* the steps of the plan of a guide, or of the recipe of a replay

ASSUME StepsAssumption == Steps \in Nat \ {0}

ASSUME ScenariosAssumption ==
  Scenarios \subseteq
    [Commands -> [kind : {"blueprint", "entity"}, feature : Features]
                   \union [kind : {"binding"}, via : Vias, usecase : UseCases]
                   \union [kind : {"adapter"}, adapter : Adapters]
                   \union [kind : {"guide", "replay"}]]

VARIABLES
  target,   \* what is at the path of the new project
  stage,    \* what each command has staged
  recipe,   \* the commands recorded in arclith.recipe.yaml, in order
  crossed   \* commands that overlapped where nothing keeps them apart

staging == <<target, stage>>
vars == <<files, request, frame, late, torn, staging, settings, recipe, crossed>>

\* A directory: who made it, the steps whose files it has, those its recipe has.
Nothing == [by |-> "nobody", ran |-> 0, recorded |-> 0]
EmptyDir == [by |-> "developer", ran |-> 0, recorded |-> 0]
OtherDir == [by |-> "developer", ran |-> 1, recorded |-> 0]
Unstaged(g) == [by |-> g, ran |-> 0, recorded |-> 0]

Creators == Asked({"guide", "replay"})
Guides(g) == request[g].kind = "guide"
Staged(g) == stage[g].ran = Steps

TypeOK ==
  /\ tree \in [Paths -> [by : Commands \union {"nobody", "project", "developer"},
                         kind : {"absent", "rendered", "developer", "index", "torn"},
                         entries : SUBSET UseCases]]
  /\ dirs \in [Dirs -> Commands \union {"nobody", "project"}]
  /\ attic \subseteq [path : Paths, file : {tree[p] : p \in Paths} \union
                        [by : Commands \union {"project", "developer"},
                         kind : {"rendered", "developer"}, entries : {{}}]]
  /\ mine \subseteq Sources /\ removed \subseteq Sources /\ late \subseteq Sources
  /\ edits \in 0..MaxEdits /\ faults \in 0..MaxFaults /\ torn \in BOOLEAN
  /\ settings \in [SettingsFiles -> SUBSET Adapters]
  /\ recipe \in Seq(Commands) /\ crossed \subseteq Commands

\* The project has an entity for each feature no command creates; it may already
\* have the package of features.
Init ==
  \E scenario \in Scenarios, packaged \in BOOLEAN :
    LET created == {scenario[g].feature : g \in
                      {h \in Commands : scenario[h].kind = "entity"}}
        found == {Entity(f) : f \in Features \ created}
                   \union (IF packaged THEN {Package, Models} ELSE {})
    IN /\ request = scenario
       /\ tree = [p \in Paths |-> IF p \in found
                    THEN [by |-> "project", kind |-> "rendered", entries |-> {}]
                    ELSE Absent]
       /\ dirs = [d \in Dirs |-> IF packaged THEN "project" ELSE "nobody"]
       /\ attic = {} /\ mine = {} /\ removed = {} /\ edits = 0 /\ faults = 0
       /\ frame = [g \in Commands |-> Start]
       /\ late = {} /\ torn = FALSE /\ recipe = << >> /\ crossed = {}
       /\ target \in IF Creators = {} THEN {Nothing} ELSE {Nothing, EmptyDir, OtherDir}
       /\ stage = [g \in Commands |-> Unstaged(g)]
       /\ settings = [f \in SettingsFiles |-> {}]
       /\ packaged \/ Creators = {}

-----------------------------------------------------------------------------
(* A new project.  The guide and the replay of a recipe (guide_executor.py)  *)
(* create it step by step in a temporary directory beside the target, which  *)
(* they then rename to the target.  The guide records each step in the       *)
(* staged recipe; a replay writes the recipe when all steps have run.        *)

\* The target must not exist when the command starts.
BeginProject(g) ==
  /\ At(g, "plan")
  /\ Goto(g, IF target = Nothing THEN "run" ELSE "refused")
  /\ UNCHANGED <<files, request, late, torn, settings, staging>>

\* Defect that TLC must notice: the steps run in the target.
RunStep_InPlace(g) ==
  /\ At(g, "run") /\ ~Staged(g)
  /\ stage' = [stage EXCEPT ![g].ran = @ + 1]
  /\ target' = stage'[g]
  /\ Goto(g, IF Guides(g) THEN "note" ELSE "run")
  /\ UNCHANGED <<files, request, late, torn, settings>>

\* _execute_step, in the temporary directory.
RunStep(g) ==
  /\ At(g, "run") /\ ~Staged(g)
  /\ stage' = [stage EXCEPT ![g].ran = @ + 1]
  /\ Goto(g, IF Guides(g) THEN "note" ELSE "run")
  /\ UNCHANGED <<files, request, late, torn, settings, target>>

\* record_successful_step of the guide; save_recipe of a replay that has run all.
NoteStep(g) ==
  /\ \/ At(g, "note")
     \/ At(g, "run") /\ Staged(g) /\ ~Guides(g)
  /\ stage' = [stage EXCEPT ![g].recorded = IF Guides(g) THEN @ + 1 ELSE stage[g].ran]
  /\ Goto(g, IF Staged(g) THEN "rename" ELSE "run")
  /\ UNCHANGED <<files, request, late, torn, settings, target>>

\* rename(2) replaces an empty directory, and no other.
Replaces(there) == there \in {Nothing, EmptyDir}

RenameStaged(g) ==
  /\ At(g, "rename")
  /\ IF Replaces(target)
     THEN target' = stage[g] /\ Goto(g, "done")
     ELSE Goto(g, "refused") /\ UNCHANGED target
  /\ UNCHANGED <<files, request, late, torn, settings, stage>>

\* A step raises; the temporary directory is removed on the way out.
StagingFails(g) ==
  /\ frame[g].pc \in {"run", "note", "rename"}
  /\ faults < MaxFaults /\ faults' = faults + 1
  /\ stage' = [stage EXCEPT ![g] = Unstaged(g)]
  /\ Goto(g, "refused")
  /\ UNCHANGED <<contents, dirs, removed, edits, request, late, torn, settings, target>>

StagingStep(g) ==
  /\ g \in Creators
  /\ \/ BeginProject(g) \/ RunStep(g) \/ NoteStep(g) \/ RenameStaged(g)
     \/ StagingFails(g)

\* The developer makes the directory meanwhile, or has it made by something else,
\* or removes it.
MakeTarget ==
  /\ Creators # {} /\ edits < MaxEdits /\ edits' = edits + 1
  /\ \/ target = Nothing /\ target' \in {EmptyDir, OtherDir}
     \/ target \in {EmptyDir, OtherDir} /\ target' = Nothing
  /\ UNCHANGED <<contents, dirs, removed, faults, request, frame, late, torn, settings, stage>>

-----------------------------------------------------------------------------
(* The recipe.                                                              *)

\* Defect that TLC must notice: the recipe is written before the files are.
Load_Early(g) ==
  /\ At(g, "load") \/ (At(g, "check") /\ g \in Blueprints)
  /\ frame' = [frame EXCEPT ![g] = [@ EXCEPT !.pc = "save", !.steps = recipe]]
  /\ UNCHANGED <<files, request, late, torn, staging, settings, recipe>>

\* record_successful_step reads the recipe, then replaces the file.
Load(g) ==
  /\ At(g, "load")
  /\ frame' = [frame EXCEPT ![g] = [@ EXCEPT !.pc = "save", !.steps = recipe]]
  /\ UNCHANGED <<files, request, late, torn, staging, settings, recipe>>

Save(g) ==
  /\ At(g, "save")
  /\ recipe' = Append(frame[g].steps, g)
  /\ Goto(g, "done")
  /\ UNCHANGED <<files, request, late, torn, staging, settings>>

\* OSError or RecipeError: the command fails, its files stay.
RecordFails(g) ==
  /\ At(g, "load") \/ At(g, "save")
  /\ faults < MaxFaults /\ faults' = faults + 1
  /\ Goto(g, "unrecorded")
  /\ UNCHANGED <<contents, dirs, removed, edits, request, late, torn, staging, settings, recipe>>

Record(g) == Load(g) \/ Save(g) \/ RecordFails(g)

-----------------------------------------------------------------------------
\* The process is killed: a file in a quarantine stays there.  (The kill of an
\* add-adapter is in InstallFails.)
Killed(g) ==
  /\ frame[g].pc \notin {"plan", "refused", "done", "unrecorded", "killed"}
  /\ ~Installs(g) \/ frame[g].pc \in {"load", "save"}
  /\ faults < MaxFaults /\ faults' = faults + 1
  /\ attic' = IF At(g, "held")
              THEN attic \union {[path |-> Newest(g), file |-> frame[g].held]}
              ELSE attic
  /\ Goto(g, "killed")
  /\ UNCHANGED <<tree, dirs, developer, request, late, torn, staging, settings, recipe>>

\* Two commands write after their last look at what the other writes, or one reads
\* what the other has half written, or both merge into one file.
Blind(g) == (Exposes(g) /\ At(g, "write")) \/ At(g, "save")
ReadsHalf(g) ==
  /\ At(g, "plan") /\ frame'[g].pc = "check"
  /\ \E h \in Commands \ {g} : Exposes(h) /\ At(h, "write")
Crossing ==
  IF \/ \E g, h \in Commands : g # h /\ Blind(g) /\ Blind(h)
     \/ \E g \in Commands : ReadsHalf(g)
     \/ Mixing
  THEN Commands ELSE {}

\* The developer's files a command looks at or writes; what happens to others is
\* nothing to it.
Concerned(g) ==
  CASE g \in Blueprints -> {Models, Package, Entity(Feature(g)), Module(Feature(g))}
    [] Exposes(g)  -> {ContractOf(g)}
    [] Installs(g) -> {Extension(Adapter(g))}
    [] OTHER       -> {}

\* The developer changes what a binding or an adapter no longer looks at.
Surprises ==
  late' = late \union
    ({p \in Sources : tree'[p] # tree[p]} \intersect (Unseen \union Unscaffolded))

Next ==
  \/ /\ \/ /\ \E g \in Commands : \E p \in Concerned(g) : Develop(p)
           /\ Surprises /\ UNCHANGED <<request, frame, torn, staging, settings>>
        \/ MakeTarget
        \/ \E g \in Commands :
             \/ BlueprintStep(g) /\ UNCHANGED <<late, torn, staging, settings>>
             \/ BindingStep(g) /\ UNCHANGED <<staging, settings>>
             \/ StagingStep(g)
             \/ AdapterStep(g) /\ UNCHANGED staging
     /\ UNCHANGED recipe
     /\ crossed' = crossed \union Crossing
  \/ \E g \in Commands : Record(g) /\ crossed' = crossed \union Crossing
  \/ \E g \in Commands : Killed(g) /\ UNCHANGED crossed

Spec == Init /\ [][Next]_vars

-----------------------------------------------------------------------------
(* Correctness.                                                             *)

\* Compensations, and the installation of files where the plan saw none, never
\* lose what the developer wrote: it is at its path, in the quarantine of the
\* command that is looking at it, or in one that was kept.  A change between the
\* last look of a binding and its write is not seen (docs/deep-dives/use-case-
\* bindings.md promises more).
DeveloperWorkIsKept ==
  \A p \in mine \ late :
    \/ tree[p].kind = "developer"
    \/ \E q \in attic : q.path = p /\ q.file.kind = "developer"
    \/ \E g \in Commands :
         At(g, "held") /\ Newest(g) = p /\ frame[g].held.kind = "developer"

\* A blueprint that fails, and whose compensation does not, leaves none of the
\* files it published, unless the developer changed or deleted them: a deleted file
\* that another command publishes again may pass through the quarantine of the first.
FailureLeavesNothing ==
  \A g \in Blueprints : At(g, "refused") /\ ~frame[g].spoiled =>
    \A p \in Paths \ removed : tree[p] # Rendered(g)

\* The manifest of a feature tells later commands that the feature is installed:
\* its own modules are there, whatever failed or was killed in between, until the
\* developer deletes them.  An adapter that is active has its settings in every file,
\* its dependency and its extension points, and one whose command ended well has them
\* even if an earlier command stopped half-way, as long as no file was torn or is just
\* being written, and no two commands merged into one file at once.
InstalledIsComplete ==
  /\ \A f \in Features : Installed(f) /\ Module(f) \notin removed => Exists(Module(f))
  /\ ~torn /\ crossed = {} /\ (\A g \in Commands : ~At(g, "fill")) =>
       /\ \A a \in settings[Activation] : Complete(a)
       /\ \A g \in Commands :
            Installs(g) /\ frame[g].pc \in {"load", "save", "done"} => Complete(Adapter(g))

\* The manifest of a transport lists what its registry and the composition serve
\* and what has a contract, whatever was killed in between, as long as no file was
\* torn and no two bindings were written over each other.
ManifestIsServed ==
  ~torn /\ crossed = {} =>
    \A v \in Vias : \A u \in Entries(Bindings(v)) :
      /\ u \in Entries(Registry(v)) /\ u \in Entries(Composition)
      /\ Contract(v, u) \notin removed => Exists(Contract(v, u))

\* The recipe tells what was done to the project: a command is in it only once,
\* and only with its files written, and every command that ended well is, unless
\* two commands recorded themselves at once.
RecipeTellsWhatWasDone ==
  /\ \A g \in ToSet(recipe) :
       /\ frame[g].pc \in {"done", "unrecorded"} /\ frame[g].todo = << >>
       /\ Cardinality({i \in DOMAIN recipe : recipe[i] = g}) = 1
  /\ crossed = {} => \A g \in Commands :
       At(g, "done") /\ (Installs(g) \/ frame[g].originals # {}) => g \in ToSet(recipe)

\* What the guide or a replay leaves at the target is a project that has all its
\* steps and tells so, whatever failed, was killed or ran beside it.
TargetIsWhole ==
  target.by \in Commands =>
    target.ran = Steps /\ target.recorded = Steps
=============================================================================
