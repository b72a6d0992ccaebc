----------------------------- MODULE ProjectFiles -----------------------------
(***************************************************************************)
(* The project directory in which the commands of arclith-cli generate     *)
(* files (cli/arclith_cli/atomic_writes.py) while a developer edits them.  *)
(* Two commands may run in two terminals, or a command in a terminal and   *)
(* another in a coding agent.  A file is known by who created its inode    *)
(* and by what it contains: the text a command renders, the entries of a   *)
(* generated index, or what the developer wrote.                           *)
(***************************************************************************)
EXTENDS Naturals, FiniteSets

CONSTANTS
  Commands,    \* processes of the command line
  Features,    \* application features a blueprint installs
  Vias,        \* transports use cases are exposed through
  UseCases,
  Adapters,
  MaxEdits,    \* bound on what the developer does meanwhile
  MaxFaults    \* bound on the system calls that raise OSError, and on kills

ASSUME FilesAssumption ==
  /\ {"nobody", "developer", "project"} \intersect Commands = {}
  /\ MaxEdits \in Nat /\ MaxFaults \in Nat

VARIABLES
  tree,     \* path -> file, or Absent
  dirs,     \* the packages a blueprint may have to create -> who created them
  attic,    \* contents kept in .rollback quarantines
  mine,     \* paths the developer wrote, and has not deleted since
  removed,  \* paths the developer deleted
  edits,    \* what the developer did so far
  faults    \* the system calls that failed, and kills, so far

files == <<tree, dirs, attic, mine, removed, edits, faults>>
contents == <<tree, attic, mine>>
developer == <<mine, removed, edits>>

-----------------------------------------------------------------------------
\* The __init__.py of the package of entities, and of that of features; a module
\* of each feature, its entity and its manifest; the extension points of an adapter;
\* the contract of a binding, the generated registry and manifest of a transport,
\* and the generated composition.
Models   == <<"models">>
Package  == <<"package">>
Entity(f)   == <<"entity", f>>
Module(f)   == <<"module", f>>
Manifest(f) == <<"manifest", f>>
Extension(a) == <<"extension", a>>
Contract(v, u) == <<"contract", v, u>>
Registry(v)    == <<"registry", v>>
Bindings(v)    == <<"bindings", v>>
Composition == <<"composition">>

\* What the developer owns once it is generated, and may edit or delete.
Sources ==
  {Models, Package} \union {Entity(f) : f \in Features}
    \union {Module(f) : f \in Features}
    \union {Extension(a) : a \in Adapters}
    \union {Contract(v, u) : v \in Vias, u \in UseCases}
Paths ==
  Sources \union {Composition} \union {Manifest(f) : f \in Features}
    \union {Registry(v) : v \in Vias} \union {Bindings(v) : v \in Vias}

\* The package of features is the directory a blueprint may have to create.
FeaturesDir == <<"features">>
Dirs == {FeaturesDir}
DirOf(p) == IF p[1] \in {"package", "module"} THEN FeaturesDir ELSE <<"elsewhere">>

Absent == [by |-> "nobody", kind |-> "absent", entries |-> {}]
Rendered(g) == [by |-> g, kind |-> "rendered", entries |-> {}]

Exists(p) == tree[p] # Absent
Text(file) == [kind |-> file.kind, entries |-> file.entries]
Empty(d) ==
  /\ \A p \in Paths : DirOf(p) = d => ~Exists(p)
  /\ \A q \in attic : DirOf(q.path) # d

-----------------------------------------------------------------------------
\* write_new_text_file: os.link publishes a complete file, or raises if the path
\* is taken; the parent is created if it was removed meanwhile.
Published(p, file) ==
  /\ tree' = [tree EXCEPT ![p] = file]
  /\ dirs' = [d \in Dirs |-> IF d = DirOf(p) /\ dirs[d] = "nobody"
                             THEN file.by ELSE dirs[d]]

-----------------------------------------------------------------------------
(* The developer.                                                           *)

Does(p, file) ==
  /\ edits < MaxEdits /\ edits' = edits + 1
  /\ tree' = [tree EXCEPT ![p] = file]
  /\ UNCHANGED <<attic, faults>>

\* An editor writes in place, or saves another file over the path.
Edit(p) ==
  /\ Exists(p)
  /\ \E by \in {tree[p].by, "developer"} :
       Does(p, [by |-> by, kind |-> "developer", entries |-> {}])
  /\ mine' = mine \union {p}
  /\ UNCHANGED <<dirs, removed>>

Add(p) ==
  /\ ~Exists(p)
  /\ DirOf(p) \in Dirs => dirs[DirOf(p)] # "nobody"
  /\ Does(p, [by |-> "developer", kind |-> "developer", entries |-> {}])
  /\ mine' = mine \union {p}
  /\ UNCHANGED <<dirs, removed>>

Delete(p) ==
  /\ Exists(p)
  /\ Does(p, Absent)
  /\ mine' = mine \ {p}
  /\ removed' = removed \union {p}
  /\ UNCHANGED dirs

Develop(p) == Edit(p) \/ Add(p) \/ Delete(p)
=============================================================================
