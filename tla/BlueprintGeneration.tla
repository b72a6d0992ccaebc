------------------------- MODULE BlueprintGeneration -------------------------
(***************************************************************************)
(* add-blueprint and add-entity with a profile                             *)
(* (cli/arclith_cli/blueprint_generation.py, core_scaffold.py).  A command *)
(* plans from what it finds, creates the entity if it is asked to, checks  *)
(* that nothing it planned changed, publishes each file where there is     *)
(* none, the manifest last, and compensates what it published when         *)
(* something raises: each file is renamed into a private quarantine and    *)
(* deleted there if it is still the file the command published.            *)
(***************************************************************************)
EXTENDS ProjectFiles, Sequences, SequencesExt

VARIABLES
  request,  \* what each command was asked
  frame     \* where it is

\* `todo' are the files planned and not yet written, `originals' what the plan
\* found, or foresees, at each of their paths, `undo' what a failure takes back,
\* `held' the file in the quarantine, `spoiled' a compensation that failed;
\* `entries' and `composed' are what a binding writes, `steps' the recipe read.
Start == [pc |-> "plan", todo |-> << >>, originals |-> {}, undo |-> << >>,
          held |-> Absent, spoiled |-> FALSE, entries |-> {}, composed |-> {},
          steps |-> << >>]

At(g, pc) == frame[g].pc = pc
Goto(g, pc) == frame' = [frame EXCEPT ![g].pc = pc]
Feature(g) == request[g].feature

Asked(kinds) == {g \in Commands : request[g].kind \in kinds}
Blueprints == Asked({"blueprint", "entity"})
Creates(g) == request[g].kind = "entity"

-----------------------------------------------------------------------------
\* What tells that a feature is there.
Installed(f) == Exists(Manifest(f))

\* What is there is preserved.
IfMissing(p) == IF Exists(p) THEN << >> ELSE <<p>>

\* Defect that TLC must notice: a manifest published before the files it announces.
Planned_ManifestFirst(g) ==
  LET f == Feature(g) IN
    IfMissing(Manifest(f)) \o IfMissing(Models) \o IfMissing(Package) \o IfMissing(Module(f))

\* render_application_blueprint, in the order in which the files are written.
Planned(g) ==
  LET f == Feature(g) IN
    IfMissing(Models) \o IfMissing(Package) \o IfMissing(Module(f)) \o IfMissing(Manifest(f))

\* A first installation does not adopt modules that exist already.
Collides(g) == ~Installed(Feature(g)) /\ Exists(Module(Feature(g)))

\* What the plan found at a path; a command that creates the entity foresees the
\* empty initializers it will have written by then.
Original(g, p) ==
  IF Creates(g) /\ p = Models /\ ~Exists(p) THEN Text(Rendered(g)) ELSE Text(tree[p])
OriginalOf(g, p) == (CHOOSE o \in frame[g].originals : o.path = p).text

\* plan_application_blueprint, from a snapshot of the tree.
Plan(g) ==
  /\ At(g, "plan")
  /\ Creates(g) \/ Exists(Entity(Feature(g)))
  /\ IF Collides(g) THEN Goto(g, "refused")
     ELSE frame' = [frame EXCEPT ![g] = [@ EXCEPT
            !.pc = IF Creates(g) THEN "package" ELSE "check",
            !.todo = Planned(g),
            !.originals = {[path |-> p, text |-> Original(g, p)] :
                             p \in ToSet(Planned(g))}]]
  /\ UNCHANGED <<files, request>>

\* _require_entity
PlanRefused(g) ==
  /\ At(g, "plan") /\ ~Creates(g) /\ ~Exists(Entity(Feature(g)))
  /\ Goto(g, "refused")
  /\ UNCHANGED <<files, request>>

\* Defect that TLC must notice: an initializer is not something to take back.
Publishes_Untracked(g, p, pc) ==
  /\ Published(p, Rendered(g))
  /\ Goto(g, pc)
  /\ UNCHANGED <<attic, developer, faults, request>>

\* A file of this command's now, and something to take back.
Publishes(g, p, pc) ==
  /\ Published(p, Rendered(g))
  /\ frame' = [frame EXCEPT ![g] = [@ EXCEPT
       !.pc = pc, !.undo = Append(frame[g].undo, p)]]
  /\ UNCHANGED <<attic, developer, faults, request>>

\* add_entity_cmd: the entity must not exist; its package is initialized.
WritePackage(g) ==
  /\ At(g, "package")
  /\ IF Exists(Entity(Feature(g)))
     THEN Goto(g, "rollback") /\ UNCHANGED <<files, request>>
     ELSE IF Exists(Models)
     THEN Goto(g, "entity") /\ UNCHANGED <<files, request>>
     ELSE Publishes(g, Models, "entity")

WriteEntity(g) ==
  /\ At(g, "entity")
  /\ IF Exists(Entity(Feature(g)))
     THEN Goto(g, "rollback") /\ UNCHANGED <<files, request>>
     ELSE Publishes(g, Entity(Feature(g)), "check")

\* Every planned path is still as the plan found it, or foresaw it.
Unchanged(g) == \A o \in frame[g].originals : Text(tree[o.path]) = o.text

\* apply_application_blueprint up to its first write.
Check(g) ==
  /\ At(g, "check")
  /\ Goto(g, IF Unchanged(g) THEN "mkdir" ELSE "rollback")
  /\ UNCHANGED <<files, request>>

\* _create_parent_directories
MakeDirs(g) ==
  /\ At(g, "mkdir")
  /\ IF /\ dirs[FeaturesDir] = "nobody"
        /\ \E p \in ToSet(frame[g].todo) : DirOf(p) = FeaturesDir
     THEN /\ dirs' = [dirs EXCEPT ![FeaturesDir] = g]
          /\ frame' = [frame EXCEPT ![g] = [@ EXCEPT
               !.pc = "write", !.undo = Append(frame[g].undo, FeaturesDir)]]
     ELSE Goto(g, "write") /\ UNCHANGED dirs
  /\ UNCHANGED <<tree, attic, developer, faults, request>>

\* The next file, unless it is an initializer the plan foresaw.  A path that was
\* taken meanwhile raises FileExistsError.
Write(g) ==
  /\ At(g, "write") /\ frame[g].todo # << >>
  /\ LET p == Head(frame[g].todo)
         rest == [frame[g] EXCEPT !.todo = Tail(@)]
     IN IF OriginalOf(g, p) # Text(Absent)
        THEN frame' = [frame EXCEPT ![g] = rest] /\ UNCHANGED <<files, request>>
        ELSE IF Exists(p) THEN Goto(g, "rollback") /\ UNCHANGED <<files, request>>
        ELSE /\ Published(p, Rendered(g))
             /\ frame' = [frame EXCEPT ![g] = [rest EXCEPT !.undo = Append(frame[g].undo, p)]]
             /\ UNCHANGED <<attic, developer, faults, request>>

\* The command reports; a command that found nothing to do is not recorded.
Applied(g) ==
  /\ At(g, "write") /\ frame[g].todo = << >>
  /\ Goto(g, IF frame[g].originals = {} /\ ~Creates(g) THEN "done" ELSE "load")
  /\ UNCHANGED <<files, request>>

-----------------------------------------------------------------------------
(* Compensation, in reverse order.                                          *)

Newest(g) == Last(frame[g].undo)
Pop(g, pc) ==
  frame' = [frame EXCEPT ![g] = [@ EXCEPT
    !.pc = pc, !.undo = Front(frame[g].undo), !.held = Absent]]

\* A file leaves its path for the quarantine, whatever is there by now.
Detach(g) ==
  /\ At(g, "rollback") /\ frame[g].undo # << >> /\ Newest(g) \in Paths
  /\ IF Exists(Newest(g))
     THEN /\ tree' = [tree EXCEPT ![Newest(g)] = Absent]
          /\ frame' = [frame EXCEPT ![g] = [@ EXCEPT !.pc = "held",
                                                     !.held = tree[Newest(g)]]]
          /\ UNCHANGED <<attic, developer, dirs, faults, request>>
     ELSE Pop(g, "rollback") /\ UNCHANGED <<files, request>>

\* Defect that TLC must notice: a file is known by its path.
IsOurs_ByPath(g) == TRUE

\* The same inode, with the text that was planned.
IsOurs(g) == frame[g].held = Rendered(g)

\* Deleted in the quarantine, or put back unless the path is taken again, in
\* which case the quarantine keeps it.
Resolve(g) ==
  /\ At(g, "held")
  /\ Pop(g, "rollback")
  /\ IF IsOurs(g) THEN UNCHANGED <<tree, attic>>
     ELSE IF Exists(Newest(g))
     THEN /\ attic' = attic \union {[path |-> Newest(g), file |-> frame[g].held]}
          /\ UNCHANGED tree
     ELSE /\ tree' = [tree EXCEPT ![Newest(g)] = frame[g].held]
          /\ UNCHANGED attic
  /\ UNCHANGED <<dirs, developer, faults, request>>

\* Another command's quarantine is in the directory.
Quarantines(d) == \E h \in Commands : At(h, "held") /\ DirOf(Newest(h)) = d

\* rmdir of a directory that is still the one the command created, if it is empty.
RemoveDir(g) ==
  /\ At(g, "rollback") /\ frame[g].undo # << >> /\ Newest(g) \in Dirs
  /\ dirs' = [dirs EXCEPT ![Newest(g)] =
                IF @ = g /\ Empty(Newest(g)) /\ ~Quarantines(Newest(g))
                THEN "nobody" ELSE @]
  /\ Pop(g, "rollback")
  /\ UNCHANGED <<tree, attic, developer, faults, request>>

RolledBack(g) ==
  /\ At(g, "rollback") /\ frame[g].undo = << >>
  /\ Goto(g, "refused")
  /\ UNCHANGED <<files, request>>

-----------------------------------------------------------------------------
\* A system call of the command raises OSError: before its effect.  After the last
\* file there is none but the removal of a temporary one, which may fail.
WriteFails(g) ==
  /\ frame[g].pc \in {"package", "entity", "mkdir", "write"}
  /\ At(g, "write") => frame[g].todo # << >>
  /\ faults < MaxFaults /\ faults' = faults + 1
  /\ Goto(g, "rollback")
  /\ UNCHANGED <<contents, dirs, removed, edits, request>>

\* The quarantine cannot be made, or the file not renamed: it stays.
DetachFails(g) ==
  /\ At(g, "rollback") /\ frame[g].undo # << >>
  /\ faults < MaxFaults /\ faults' = faults + 1
  /\ frame' = [frame EXCEPT ![g] = [@ EXCEPT
       !.undo = Front(frame[g].undo), !.spoiled = TRUE]]
  /\ UNCHANGED <<contents, dirs, removed, edits, request>>

BlueprintStep(g) ==
  /\ g \in Blueprints
  /\ \/ Plan(g) \/ PlanRefused(g) \/ WritePackage(g) \/ WriteEntity(g)
     \/ Check(g) \/ MakeDirs(g) \/ Write(g) \/ Applied(g)
     \/ Detach(g) \/ Resolve(g) \/ RemoveDir(g) \/ RolledBack(g)
     \/ WriteFails(g) \/ DetachFails(g)
=============================================================================
