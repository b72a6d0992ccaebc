--------------------------- MODULE AdapterGeneration ---------------------------
(***************************************************************************)
(* add-adapter (cli/arclith_cli/adapter_generator.py): the settings of an  *)
(* adapter are merged into the files all adapters share, one file after    *)
(* the other, its extension points are created where there are none, and   *)
(* the adapter is activated last.  Each file is read, truncated and        *)
(* written; there is no lock, and nothing is taken back.                   *)
(***************************************************************************)
EXTENDS UseCaseBinding

CONSTANT Observers  \* adapters that are active beside each other; of others one is

ASSUME ObserversAssumption == Observers \subseteq Adapters

VARIABLE settings   \* file -> the adapters whose settings it has

\* The configuration of an adapter, pyproject.toml, .env.example, .gitignore,
\* secrets.yaml and adapters.yaml.
Config(a) == <<"config", a>>
Dependencies == <<"pyproject">>
Environment  == <<"env">>
Ignored      == <<"gitignore">>
Secrets      == <<"secrets">>
Activation   == <<"adapters">>
SettingsFiles ==
  {Config(a) : a \in Adapters}
    \union {Dependencies, Environment, Ignored, Secrets, Activation}

Installs(g) == request[g].kind = "adapter"
Adapter(g) == request[g].adapter
Target(g) == Head(frame[g].todo)

-----------------------------------------------------------------------------
\* Defect that TLC must notice: an adapter is active before it is there.
Installation_ActiveFirst(a, activate) ==
  (IF activate THEN <<Activation>> ELSE << >>)
    \o <<Config(a), Dependencies>>
    \o (IF a \in Observers THEN <<Environment, Ignored>> ELSE << >>)
    \o <<Secrets, Extension(a)>>

\* _generate, in the order of the files.
Installation(a, activate) ==
  <<Config(a), Dependencies>>
    \o (IF a \in Observers THEN <<Environment, Ignored>> ELSE << >>)
    \o <<Secrets, Extension(a)>>
    \o (IF activate THEN <<Activation>> ELSE << >>)

\* The developer is asked whether the adapter is activated.
Install(g) ==
  /\ At(g, "plan")
  /\ \E activate \in BOOLEAN :
       frame' = [frame EXCEPT ![g] = [@ EXCEPT
         !.pc = "read", !.todo = Installation(Adapter(g), activate)]]
  /\ UNCHANGED <<files, request, late, torn, settings>>

\* What a command adds to a file; every observer has the same file ignored.
Addition(g, f) == IF f = Ignored THEN Observers ELSE {Adapter(g)}

\* What stays beside it: one name is active, and a list of observers.
Kept(g, f) ==
  IF f = Activation /\ Adapter(g) \notin Observers
  THEN frame[g].entries \intersect Observers
  ELSE frame[g].entries

AfterTarget(g) == [frame[g] EXCEPT !.pc = "read", !.todo = Tail(@), !.entries = {}]

\* The file is read; pyproject.toml and .gitignore are left alone if nothing is
\* missing from them.
ReadSettings(g) ==
  /\ At(g, "read") /\ frame[g].todo # << >> /\ Target(g) \in SettingsFiles
  /\ frame' = [frame EXCEPT ![g] =
       IF Target(g) \in {Dependencies, Ignored}
          /\ Addition(g, Target(g)) \subseteq settings[Target(g)]
       THEN AfterTarget(g)
       ELSE [@ EXCEPT !.pc = "truncate", !.entries = settings[Target(g)]]]
  /\ UNCHANGED <<files, request, late, torn, settings>>

\* write_text: the file is opened, and empty,
Truncate(g) ==
  /\ At(g, "truncate")
  /\ settings' = [settings EXCEPT ![Target(g)] = {}]
  /\ Goto(g, "fill")
  /\ UNCHANGED <<files, request, late, torn>>

\* then written and closed.
Fill(g) ==
  /\ At(g, "fill")
  /\ settings' = [settings EXCEPT ![Target(g)] =
                    Kept(g, Target(g)) \union Addition(g, Target(g))]
  /\ frame' = [frame EXCEPT ![g] = AfterTarget(g)]
  /\ UNCHANGED <<files, request, late, torn>>

\* write_missing_files: an extension point that is there is the developer's.
LookExtension(g) ==
  /\ At(g, "read") /\ frame[g].todo # << >> /\ Target(g) \in Paths
  /\ frame' = [frame EXCEPT ![g] =
       IF Exists(Target(g)) THEN AfterTarget(g) ELSE [@ EXCEPT !.pc = "scaffold"]]
  /\ UNCHANGED <<files, request, late, torn, settings>>

WriteExtension(g) ==
  /\ At(g, "scaffold")
  /\ LET p == Target(g)
         inode == IF Exists(p) THEN tree[p].by ELSE g
     IN tree' = [tree EXCEPT ![p] = [Rendered(g) EXCEPT !.by = inode]]
  /\ frame' = [frame EXCEPT ![g] = AfterTarget(g)]
  /\ UNCHANGED <<dirs, attic, developer, faults, request, late, torn, settings>>

AdapterInstalled(g) ==
  /\ At(g, "read") /\ frame[g].todo = << >>
  /\ Goto(g, "load")
  /\ UNCHANGED <<files, request, late, torn, settings>>

\* OSError, or a kill; after the truncation it leaves an empty file.
InstallFails(g) ==
  /\ frame[g].pc \in {"read", "truncate", "fill", "scaffold"}
  /\ faults < MaxFaults /\ faults' = faults + 1
  /\ torn' = (torn \/ At(g, "fill"))
  /\ Goto(g, "refused")
  /\ UNCHANGED <<contents, dirs, removed, edits, request, late, settings>>

AdapterStep(g) ==
  /\ Installs(g)
  /\ \/ Install(g) \/ ReadSettings(g) \/ Truncate(g) \/ Fill(g)
     \/ LookExtension(g) \/ WriteExtension(g) \/ AdapterInstalled(g) \/ InstallFails(g)

-----------------------------------------------------------------------------
\* The extension points a command has looked at and not yet written.
Unscaffolded == {Target(g) : g \in {h \in Commands : At(h, "scaffold")}}

\* One command is between its read of a file and its write of it while the other is.
Merging(g) == Installs(g) /\ frame[g].pc \in {"truncate", "fill"}
Mixing ==
  \E g, h \in Commands :
    g # h /\ Merging(g) /\ Merging(h) /\ Target(g) = Target(h)

\* Everything an adapter needs is in the project.
Complete(a) ==
  /\ \A f \in ToSet(Installation(a, FALSE)) \ {Extension(a)} : a \in settings[f]
  /\ Extension(a) \notin removed => Exists(Extension(a))
=============================================================================
