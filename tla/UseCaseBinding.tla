---------------------------- MODULE UseCaseBinding ----------------------------
(***************************************************************************)
(* expose-usecase (cli/arclith_cli/usecase_binding.py): a use case gets a  *)
(* contract in the package of a transport, once, and the transport's       *)
(* registry, the composition of all transports and the transport's         *)
(* manifest are generated again.  Plans are checked before the first write *)
(* as those of blueprints; the files are then written in place, and        *)
(* nothing is taken back.                                                  *)
(***************************************************************************)
EXTENDS BlueprintGeneration

VARIABLES
  late,  \* paths the developer changed after a binding last looked at them
  torn   \* a kill or a full disk left a half-written file

Exposes(g) == request[g].kind = "binding"
Via(g) == request[g].via
UseCase(g) == request[g].usecase
ContractOf(g) == Contract(Via(g), UseCase(g))

Entries(p) == tree[p].entries
Index(g, entries) == [by |-> g, kind |-> "index", entries |-> entries]

-----------------------------------------------------------------------------
\* A binding that is in the manifest keeps its contract; otherwise none may exist.
Merges(g) ==
  UseCase(g) \in Entries(Bindings(Via(g))) \/ ~Exists(ContractOf(g))

\* Generated files are replaced only while they carry the generated header; a
\* manifest that does not parse stops every plan that reads it.
Regenerable(g) ==
  /\ tree[Registry(Via(g))].kind \in {"absent", "index"}
  /\ tree[Composition].kind \in {"absent", "index"}
  /\ \A v \in Vias : tree[Bindings(v)].kind \in {"absent", "index"}

Merged(g) == Entries(Bindings(Via(g))) \union {UseCase(g)}
\* _composition_entries
Composed(g) == Merged(g) \union UNION {Entries(Bindings(v)) : v \in Vias}

\* What the command writes at a path.
Content(g, p) ==
  IF p = ContractOf(g) THEN Rendered(g)
  ELSE Index(g, IF p = Composition THEN frame[g].composed ELSE frame[g].entries)

\* _changed_files; the contract, once written, is the developer's.
Changes(g, p) ==
  IF p = ContractOf(g) THEN ~Exists(p)
  ELSE Text(tree[p]) #
         Text(Index(g, IF p = Composition THEN Composed(g) ELSE Merged(g)))

IfChanged(g, p) == IF Changes(g, p) THEN <<p>> ELSE << >>
ToWrite(g) ==
  IfChanged(g, ContractOf(g)) \o IfChanged(g, Registry(Via(g)))
    \o IfChanged(g, Composition) \o IfChanged(g, Bindings(Via(g)))

\* plan_bindings, from a snapshot of the tree.
PlanBinding(g) ==
  /\ At(g, "plan")
  /\ IF ~Merges(g) \/ ~Regenerable(g) THEN Goto(g, "refused")
     ELSE frame' = [frame EXCEPT ![g] = [@ EXCEPT
            !.pc = "check", !.todo = ToWrite(g),
            !.entries = Merged(g), !.composed = Composed(g),
            !.originals = {[path |-> p, text |-> Text(tree[p])] : p \in ToSet(ToWrite(g))}]]
  /\ UNCHANGED <<files, request, late, torn>>

\* Defect that TLC must notice: a plan is applied without another look.
CheckBinding_Blind(g) ==
  /\ At(g, "check")
  /\ Goto(g, "write")
  /\ UNCHANGED <<files, request, late, torn>>

\* apply_binding up to its first write.
CheckBinding(g) ==
  /\ At(g, "check")
  /\ Goto(g, IF Unchanged(g) THEN "write" ELSE "refused")
  /\ UNCHANGED <<files, request, late, torn>>

\* write_text truncates the file that is there, and writes it.
WriteBinding(g) ==
  /\ At(g, "write") /\ frame[g].todo # << >>
  /\ LET p == Head(frame[g].todo)
         inode == IF Exists(p) THEN tree[p].by ELSE g
     IN tree' = [tree EXCEPT ![p] = [Content(g, p) EXCEPT !.by = inode]]
  /\ frame' = [frame EXCEPT ![g].todo = Tail(@)]
  /\ UNCHANGED <<dirs, attic, developer, faults, request, late, torn>>

\* OSError, or a kill, between truncation and the end of the write, or before.
WriteBindingFails(g) ==
  /\ At(g, "write") /\ frame[g].todo # << >>
  /\ faults < MaxFaults /\ faults' = faults + 1
  /\ \/ UNCHANGED <<tree, torn>>
     \/ LET p == Head(frame[g].todo) IN
          /\ tree' = [tree EXCEPT ![p] = [by |-> IF Exists(p) THEN @.by ELSE g,
                                          kind |-> "torn", entries |-> {}]]
          /\ torn' = TRUE
  /\ Goto(g, "refused")
  /\ UNCHANGED <<dirs, attic, developer, request, late>>

\* A binding that changed nothing is not recorded.
BindingWritten(g) ==
  /\ At(g, "write") /\ frame[g].todo = << >>
  /\ Goto(g, IF frame[g].originals = {} THEN "done" ELSE "load")
  /\ UNCHANGED <<files, request, late, torn>>

BindingStep(g) ==
  /\ Exposes(g)
  /\ \/ PlanBinding(g) \/ CheckBinding(g) \/ WriteBinding(g)
     \/ WriteBindingFails(g) \/ BindingWritten(g)

\* The paths a binding has checked and not yet written.
Unseen ==
  UNION {ToSet(frame[g].todo) : g \in {h \in Commands : Exposes(h) /\ At(h, "write")}}
=============================================================================
