------------------------ MODULE ProjectGenerationProofs ------------------------
(***************************************************************************)
(* Proofs about the commands that generate files in one project.  The      *)
(* invariant Inv says of every file a blueprint may take back who put it   *)
(* there, of every manifest that its module is there and stays, of every   *)
(* binding and adapter what it has looked at, of the staged directories    *)
(* and of the recipe how far they are, and of the settings of adapters     *)
(* that nothing a command has seen to is missing.  Each step of a command  *)
(* is reduced to what it does to files and frames (Effects, Elsewhere,     *)
(* AdapterMoves, Recording), and each part of Inv is shown from that.      *)
(* ServedInv, inductive beside Inv, says what bindings serve.              *)
(***************************************************************************)
EXTENDS ProjectGeneration, FiniteSetTheorems, TLAPS

-----------------------------------------------------------------------------
(* Types.                                                                   *)

Points ==
  {"plan", "package", "entity", "check", "mkdir", "write", "rollback", "held",
   "refused", "read", "truncate", "fill", "scaffold", "run", "note", "rename",
   "load", "save", "done", "unrecorded", "killed"}
FileKinds == {"absent", "rendered", "developer", "index", "torn"}
Files ==
  [by : Commands \union {"nobody", "project", "developer"}, kind : FileKinds,
   entries : SUBSET UseCases]
Texts == [kind : FileKinds, entries : SUBSET UseCases]

Frames ==
  [pc : Points, todo : Seq(Paths \union SettingsFiles),
   originals : SUBSET [path : Paths, text : Texts],
   undo : Seq(Paths \union Dirs), held : Files, spoiled : BOOLEAN,
   entries : SUBSET (UseCases \union Adapters),
   composed : SUBSET UseCases, steps : Seq(Commands)]

Asks ==
  [kind : {"blueprint", "entity"}, feature : Features]
    \union [kind : {"binding"}, via : Vias, usecase : UseCases]
    \union [kind : {"adapter"}, adapter : Adapters]
    \union [kind : {"guide", "replay"}]

FramesOK == frame \in [Commands -> Frames]
TreeOK == tree \in [Paths -> Files]
RequestsOK == request \in [Commands -> Asks]

Types ==
  /\ FramesOK /\ TreeOK /\ RequestsOK
  /\ settings \in [SettingsFiles -> SUBSET Adapters]
  /\ recipe \in Seq(Commands)

-----------------------------------------------------------------------------
(* What a blueprint keeps of its own: the plan, and what a failure takes    *)
(* back.                                                                    *)

Blueprinted ==
  {Models, Package} \union {Entity(f) : f \in Features}
    \union {Module(f) : f \in Features} \union {Manifest(f) : f \in Features}

Distinct(s) == \A i, j \in 1..Len(s) : s[i] = s[j] => i = j

\* A blueprint that may still have to take back what it published.
Undoing == {"rollback", "held"}
Preparing == {"package", "entity", "check", "mkdir"}
BlueprintPoints ==
  {"plan", "write", "refused", "load", "save", "done", "unrecorded", "killed"}
    \union Preparing \union Undoing

Planning(g) ==
  LET f == Feature(g)
      todo == frame[g].todo
      undo == frame[g].undo
  IN /\ todo \in Seq({Models, Package, Module(f), Manifest(f)}) /\ Distinct(todo)
     /\ \A p \in ToSet(todo) \intersect ToSet(undo) : Creates(g) /\ p = Models
     /\ \A i \in 1..Len(todo) : todo[i] = Manifest(f) => i = Len(todo)
     /\ Manifest(f) \in ToSet(todo) => Module(f) \in ToSet(todo) \union ToSet(undo)
     /\ \A p \in ToSet(todo) : \E o \in frame[g].originals : o.path = p
     /\ \A o \in frame[g].originals :
          o.text = IF Creates(g) /\ o.path = Models THEN Text(Rendered(g)) ELSE Text(Absent)

BlueprintShape(g) ==
  LET pc == frame[g].pc
      undo == frame[g].undo
  IN /\ pc \in BlueprintPoints
     /\ undo \in Seq(Blueprinted \union Dirs) /\ Distinct(undo)
     /\ pc \in {"plan", "package", "refused"} => undo = << >>
     /\ pc \in {"package", "entity"} => Creates(g)
     /\ pc = "entity" => ToSet(undo) \subseteq {Models}
     /\ pc \in {"check", "mkdir"} =>
          /\ ToSet(undo) \subseteq {Models, Entity(Feature(g))}
          /\ Creates(g) \/ undo = << >>
     /\ pc \in Preparing \union {"write"} => Planning(g)
     /\ pc \in Preparing \union Undoing \/ (pc = "write" /\ frame[g].todo # << >>) =>
          \A f \in Features : Manifest(f) \notin ToSet(undo)
     /\ pc = "held" => undo # << >> /\ Newest(g) \in Blueprinted

HeldAt(g, p) == At(g, "held") /\ Newest(g) = p

\* A file a blueprint has published and may still take back.
Owes(g, p) ==
  /\ frame[g].pc \in Preparing \union Undoing \union {"write"}
  /\ p \in ToSet(frame[g].undo) /\ ~HeldAt(g, p)

Stays(g) == frame[g].pc \in {"load", "save", "done", "unrecorded", "killed"}

\* What is at a path is what its blueprint put there, or the developer's.
BlueprintTree ==
  /\ \A g \in Blueprints : BlueprintShape(g)
  /\ \A p \in Paths \ Blueprinted : tree[p].by \notin Blueprints
  /\ \A p \in Blueprinted \ removed : \A g \in Blueprints :
       /\ Owes(g, p) => tree[p] = Rendered(g) \/ tree[p].kind = "developer"
       /\ Owes(g, p) => \A h \in Blueprints \ {g} : ~Owes(h, p)
       /\ HeldAt(g, p) => frame[g].held = Rendered(g) \/ frame[g].held.kind = "developer"
       /\ HeldAt(g, p) => tree[p] # Rendered(g)
       /\ tree[p] = Rendered(g) /\ ~frame[g].spoiled => Owes(g, p) \/ Stays(g)

\* A manifest is there: its module is, and no command is going to take it back.
FeaturesWhole ==
  \A f \in Features : Installed(f) /\ Module(f) \notin removed =>
    /\ Exists(Module(f))
    /\ \A g \in Blueprints : Owes(g, Module(f)) => At(g, "write") /\ frame[g].todo = << >>

-----------------------------------------------------------------------------
(* What a binding or an adapter has looked at.                              *)

BindingShape(g) ==
  LET pc == frame[g].pc
      todo == frame[g].todo
  IN /\ pc \in {"plan", "check", "write", "refused", "load", "save", "done", "unrecorded",
                 "killed"}
     /\ todo \in Seq({ContractOf(g), Registry(Via(g)), Composition, Bindings(Via(g))})
     /\ frame[g].entries \subseteq UseCases
     /\ pc = "check" =>
          /\ \A p \in ToSet(todo) : \E o \in frame[g].originals : o.path = p
          /\ \A o \in frame[g].originals : o.path = ContractOf(g) => o.text = Text(Absent)
     /\ pc = "write" /\ ContractOf(g) \in ToSet(todo) =>
          ContractOf(g) \in late \/ tree[ContractOf(g)].kind # "developer"

AdapterShape(g) ==
  LET pc == frame[g].pc
      todo == frame[g].todo
  IN /\ pc \in {"plan", "read", "truncate", "fill", "scaffold", "refused", "load", "save",
                 "done", "unrecorded", "killed"}
     /\ todo \in Seq(SettingsFiles \union {Extension(Adapter(g))})
     /\ Distinct(todo) /\ \A i \in 1..Len(todo) : todo[i] = Activation => i = Len(todo)
     /\ Ignored \in ToSet(todo) => Adapter(g) \in Observers
     /\ pc \in {"load", "save", "done"} => todo = << >>
     /\ frame[g].entries \subseteq Adapters
     /\ pc \in {"truncate", "fill"} => todo # << >> /\ Target(g) \in SettingsFiles
     /\ pc = "scaffold" =>
          /\ todo # << >> /\ Target(g) = Extension(Adapter(g))
          /\ Target(g) \in late \/ tree[Target(g)].kind # "developer"

\* What an adapter needs, and what of it a command has seen to.
Needed(a) == ToSet(Installation(a, FALSE))
Passed(g) ==
  IF At(g, "plan") THEN {} ELSE Needed(Adapter(g)) \ ToSet(frame[g].todo)

\* A file has the settings of an adapter, or will have them when it is filled again;
\* an extension point is there unless the developer deleted it.
Fills(h, f) == Installs(h) /\ At(h, "fill") /\ Target(h) = f
Has(a, f) ==
  IF f \in SettingsFiles
  THEN \/ a \in settings[f]
       \/ \E h \in Commands : Fills(h, f) /\ a \in frame[h].entries
  ELSE f \in removed \/ Exists(f)

\* Nobody has read anything but what is there; one command fills a file; what a
\* command has seen to is there, and so is all that an active adapter needs.
Settled ==
  /\ \A h \in Commands : Installs(h) /\ At(h, "truncate") =>
       frame[h].entries = settings[Target(h)]
  /\ \A h \in Commands, f \in SettingsFiles : Fills(h, f) =>
       settings[f] = {} /\ \A g \in Commands : Fills(g, f) => g = h
  /\ \A g \in Commands : Installs(g) => \A f \in Passed(g) : Has(Adapter(g), f)
  /\ \A a \in Adapters : Has(a, Activation) => \A f \in Needed(a) : Has(a, f)

SettingsWhole == ~torn /\ crossed = {} => Settled

Watched ==
  /\ \A g \in Commands : Exposes(g) => BindingShape(g)
  /\ \A g \in Commands : Installs(g) => AdapterShape(g)

-----------------------------------------------------------------------------
(* A new project, and the recipe.                                           *)

StageShape(g) ==
  LET pc == frame[g].pc
      s == stage[g]
  IN /\ pc \in {"plan", "run", "note", "rename", "refused", "done", "killed"}
     /\ frame[g].originals = {}
     /\ s \in [by : {g}, ran : 0..Steps, recorded : 0..Steps]
     /\ pc = "plan" => s = Unstaged(g)
     /\ pc = "run" /\ Guides(g) => s.recorded = s.ran /\ s.ran < Steps
     /\ pc = "note" => Guides(g) /\ s.ran = s.recorded + 1
     /\ pc = "rename" => s.ran = Steps /\ s.recorded = Steps

StagesOK ==
  /\ stage \in [Commands -> [by : Commands, ran : Nat, recorded : Nat]]
  /\ target \in [by : Commands \union {"nobody", "developer"}, ran : Nat, recorded : Nat]
  /\ \A g \in Creators : StageShape(g)
  /\ TargetIsWhole

\* Commands that ended, each once.
Ended(steps) ==
  /\ steps \in Seq(Commands) /\ Distinct(steps)
  /\ \A g \in ToSet(steps) :
       frame[g].pc \in {"done", "unrecorded"} /\ frame[g].todo = << >>

RecipeInv ==
  /\ Ended(recipe)
  /\ \A g \in Commands :
       /\ frame[g].pc \in {"load", "save"} => frame[g].todo = << >>
       /\ At(g, "save") => Ended(frame[g].steps)
       /\ crossed = {} /\ At(g, "save") => frame[g].steps = recipe
       /\ crossed = {} /\ At(g, "done") /\ (Installs(g) \/ frame[g].originals # {}) =>
            g \in ToSet(recipe)

-----------------------------------------------------------------------------
(* The frames after a step of a command.                                    *)

\* The frame of a command and what of it blueprints, bindings and adapters tell apart.
Becomes(g, pc, todo, originals, undo, held, spoiled) ==
  /\ FramesOK'
  /\ \A h \in Commands \ {g} : frame'[h] = frame[h]
  /\ frame'[g].pc = pc /\ frame'[g].todo = todo /\ frame'[g].originals = originals
  /\ frame'[g].undo = undo /\ frame'[g].held = held /\ frame'[g].spoiled = spoiled

\* What remains to be merged, and the recipe that was read.
Carries(g) ==
  /\ frame'[g].entries = frame[g].entries /\ frame'[g].composed = frame[g].composed
  /\ frame'[g].steps = frame[g].steps

\* The frame of one command is set, the others stay.
LEMMA FrameSet ==
  ASSUME FramesOK, NEW g \in Commands, NEW f \in Frames, frame' = [frame EXCEPT ![g] = f]
  PROVE  FramesOK' /\ frame'[g] = f /\ \A h \in Commands \ {g} : frame'[h] = frame[h]
BY DEF FramesOK

\* Goto changes where a command is, and nothing else.
LEMMA Goes ==
  ASSUME FramesOK, NEW g \in Commands, NEW pc \in Points, Goto(g, pc)
  PROVE  /\ Becomes(g, pc, frame[g].todo, frame[g].originals, frame[g].undo,
                     frame[g].held, frame[g].spoiled)
         /\ Carries(g)
<1>1. frame[g] \in Frames
  BY DEF FramesOK
<1>2. PICK f : f = [frame[g] EXCEPT !.pc = pc]
  OBVIOUS
<1>3. f = [pc |-> pc, todo |-> frame[g].todo, originals |-> frame[g].originals,
           undo |-> frame[g].undo, held |-> frame[g].held,
           spoiled |-> frame[g].spoiled, entries |-> frame[g].entries,
           composed |-> frame[g].composed, steps |-> frame[g].steps]
  BY <1>1, <1>2 DEF Frames
<1>4. f \in Frames
  BY <1>1, <1>3 DEF Frames
<1>5. frame' = [frame EXCEPT ![g] = f]
  BY <1>2 DEF Goto
<1>6. FramesOK' /\ frame'[g] = f /\ \A h \in Commands \ {g} : frame'[h] = frame[h]
  BY <1>4, <1>5, FrameSet
<1> QED
  BY <1>3, <1>6 DEF Becomes, Carries

\* A new plan.
LEMMA PlanSet ==
  ASSUME FramesOK, NEW g \in Commands, NEW pc \in Points,
         NEW todo \in Seq(Paths \union SettingsFiles),
         NEW originals \in SUBSET [path : Paths, text : Texts],
         frame' = [frame EXCEPT ![g] = [@ EXCEPT
           !.pc = pc, !.todo = todo, !.originals = originals]]
  PROVE  Becomes(g, pc, todo, originals, frame[g].undo, frame[g].held, frame[g].spoiled)
<1>1. frame[g] \in Frames
  BY DEF FramesOK
<1>2. PICK f : f = [frame[g] EXCEPT !.pc = pc, !.todo = todo, !.originals = originals]
  OBVIOUS
<1>3. f = [pc |-> pc, todo |-> todo, originals |-> originals,
           undo |-> frame[g].undo, held |-> frame[g].held,
           spoiled |-> frame[g].spoiled, entries |-> frame[g].entries,
           composed |-> frame[g].composed, steps |-> frame[g].steps]
  BY <1>1, <1>2 DEF Frames
<1>4. f \in Frames
  BY <1>1, <1>3 DEF Frames
<1>5. frame' = [frame EXCEPT ![g] = f]
  BY <1>2
<1>6. FramesOK' /\ frame'[g] = f /\ \A h \in Commands \ {g} : frame'[h] = frame[h]
  BY <1>4, <1>5, FrameSet
<1> QED
  BY <1>3, <1>6 DEF Becomes

\* Something more to take back.
LEMMA UndoSet ==
  ASSUME FramesOK, NEW g \in Commands, NEW pc \in Points, NEW p \in Paths \union Dirs,
         frame' = [frame EXCEPT ![g] = [@ EXCEPT
           !.pc = pc, !.undo = Append(frame[g].undo, p)]]
  PROVE  Becomes(g, pc, frame[g].todo, frame[g].originals, Append(frame[g].undo, p),
                 frame[g].held, frame[g].spoiled)
<1>1. frame[g] \in Frames
  BY DEF FramesOK
<1>2. PICK f : f = [frame[g] EXCEPT !.pc = pc, !.undo = Append(frame[g].undo, p)]
  OBVIOUS
<1>3. f = [pc |-> pc, todo |-> frame[g].todo, originals |-> frame[g].originals,
           undo |-> Append(frame[g].undo, p), held |-> frame[g].held,
           spoiled |-> frame[g].spoiled, entries |-> frame[g].entries,
           composed |-> frame[g].composed, steps |-> frame[g].steps]
  BY <1>1, <1>2 DEF Frames
<1>4. Append(frame[g].undo, p) \in Seq(Paths \union Dirs)
  BY <1>1 DEF Frames
<1>5. f \in Frames
  BY <1>1, <1>3, <1>4 DEF Frames
<1>6. frame' = [frame EXCEPT ![g] = f]
  BY <1>2
<1>7. FramesOK' /\ frame'[g] = f /\ \A h \in Commands \ {g} : frame'[h] = frame[h]
  BY <1>5, <1>6, FrameSet
<1> QED
  BY <1>3, <1>7 DEF Becomes

\* The first planned file is done with, ...
LEMMA TodoSet ==
  ASSUME FramesOK, NEW g \in Commands, frame[g].todo # << >>,
         NEW f, f = [frame[g] EXCEPT !.todo = Tail(@)]
  PROVE  /\ f = [pc |-> frame[g].pc, todo |-> Tail(frame[g].todo),
                 originals |-> frame[g].originals,
                 undo |-> frame[g].undo, held |-> frame[g].held,
                 spoiled |-> frame[g].spoiled, entries |-> frame[g].entries,
                 composed |-> frame[g].composed, steps |-> frame[g].steps]
         /\ f \in Frames
         /\ frame' = [frame EXCEPT ![g] = f] =>
              /\ Becomes(g, frame[g].pc, Tail(frame[g].todo), frame[g].originals,
                         frame[g].undo, frame[g].held, frame[g].spoiled)
              /\ Carries(g)
<1>1. frame[g] \in Frames
  BY DEF FramesOK
<1>2. f = [pc |-> frame[g].pc, todo |-> Tail(frame[g].todo),
           originals |-> frame[g].originals,
           undo |-> frame[g].undo, held |-> frame[g].held,
           spoiled |-> frame[g].spoiled, entries |-> frame[g].entries,
           composed |-> frame[g].composed, steps |-> frame[g].steps]
  BY <1>1 DEF Frames
<1>3. frame[g].todo \in Seq(Paths \union SettingsFiles)
  BY <1>1 DEF Frames
<1>4. Tail(frame[g].todo) \in Seq(Paths \union SettingsFiles)
  BY <1>3
<1>5. f \in Frames
  BY <1>1, <1>2, <1>4 DEF Frames
<1>6. ASSUME frame' = [frame EXCEPT ![g] = f]
      PROVE  FramesOK' /\ frame'[g] = f /\ \A h \in Commands \ {g} : frame'[h] = frame[h]
  BY <1>5, <1>6, FrameSet
<1>7. /\ f.pc = frame[g].pc /\ f.todo = Tail(frame[g].todo)
      /\ f.originals = frame[g].originals /\ f.undo = frame[g].undo
      /\ f.held = frame[g].held /\ f.spoiled = frame[g].spoiled
      /\ f.entries = frame[g].entries /\ f.composed = frame[g].composed
      /\ f.steps = frame[g].steps
  BY <1>2
<1>8. ASSUME frame' = [frame EXCEPT ![g] = f]
      PROVE  /\ Becomes(g, frame[g].pc, Tail(frame[g].todo), frame[g].originals,
                         frame[g].undo, frame[g].held, frame[g].spoiled)
             /\ Carries(g)
  BY <1>6, <1>7, <1>8 DEF Becomes, Carries
<1> QED
  BY <1>2, <1>5, <1>8

\* ... and published.
LEMMA TodoUndoSet ==
  ASSUME FramesOK, NEW g \in Commands, frame[g].todo # << >>, NEW p \in Paths,
         NEW rest, rest = [frame[g] EXCEPT !.todo = Tail(@)],
         frame' = [frame EXCEPT ![g] = [rest EXCEPT !.undo = Append(frame[g].undo, p)]]
  PROVE  Becomes(g, frame[g].pc, Tail(frame[g].todo), frame[g].originals,
                 Append(frame[g].undo, p), frame[g].held, frame[g].spoiled)
<1>1. frame[g] \in Frames
  BY DEF FramesOK
<1>2. /\ rest = [pc |-> frame[g].pc, todo |-> Tail(frame[g].todo),
                 originals |-> frame[g].originals,
                 undo |-> frame[g].undo, held |-> frame[g].held,
                 spoiled |-> frame[g].spoiled, entries |-> frame[g].entries,
                 composed |-> frame[g].composed, steps |-> frame[g].steps]
      /\ rest \in Frames
  BY TodoSet
<1>3. PICK f : f = [rest EXCEPT !.undo = Append(frame[g].undo, p)]
  OBVIOUS
<1>4. f = [pc |-> frame[g].pc, todo |-> Tail(frame[g].todo),
           originals |-> frame[g].originals,
           undo |-> Append(frame[g].undo, p), held |-> frame[g].held,
           spoiled |-> frame[g].spoiled, entries |-> frame[g].entries,
           composed |-> frame[g].composed, steps |-> frame[g].steps]
  BY <1>2, <1>3
<1>5. Append(frame[g].undo, p) \in Seq(Paths \union Dirs)
  BY <1>1 DEF Frames
<1>6. f \in Frames
  BY <1>2, <1>4, <1>5 DEF Frames
<1>7. frame' = [frame EXCEPT ![g] = f]
  BY <1>3
<1>8. FramesOK' /\ frame'[g] = f /\ \A h \in Commands \ {g} : frame'[h] = frame[h]
  BY <1>6, <1>7, FrameSet
<1> QED
  BY <1>4, <1>8 DEF Becomes

\* A sequence without its last element.
LEMMA FrontOf ==
  ASSUME NEW S, NEW s \in Seq(S), s # << >>
  PROVE  /\ Front(s) \in Seq(S) /\ Len(Front(s)) = Len(s) - 1
         /\ \A i \in 1..(Len(s) - 1) : Front(s)[i] = s[i]
         /\ Last(s) = s[Len(s)] /\ Len(s) \in Nat \ {0} /\ Last(s) \in S
<1>1. Len(s) \in Nat /\ Len(s) # 0
  OBVIOUS
<1>2. Front(s) = SubSeq(s, 1, Len(s) - 1)
  BY DEF Front
<1>3. SubSeq(s, 1, Len(s) - 1) = [i \in 1..(Len(s) - 1) |-> s[i]]
  BY <1>1
<1>4. \A i \in 1..Len(s) : s[i] \in S
  OBVIOUS
<1>5. Last(s) = s[Len(s)] /\ Last(s) \in S
  BY <1>1, <1>4 DEF Last
<1>6. Front(s) \in Seq(S) /\ Len(Front(s)) = Len(s) - 1
  <2>1. PICK n \in Nat : n = Len(s) - 1
    BY <1>1
  <2>2. Front(s) = [i \in 1..n |-> s[i]] /\ \A i \in 1..n : s[i] \in S
    BY <1>1, <1>2, <1>3, <1>4, <2>1
  <2>3. Front(s) \in Seq(S) /\ Len(Front(s)) = n
    BY <2>2
  <2> QED
    BY <2>1, <2>3
<1>7. \A i \in 1..(Len(s) - 1) : Front(s)[i] = s[i]
  BY <1>2, <1>3
<1> QED
  BY <1>1, <1>5, <1>6, <1>7

\* Something less to take back.
LEMMA PopSet ==
  ASSUME FramesOK, NEW g \in Commands, NEW pc \in Points, frame[g].undo # << >>, Pop(g, pc)
  PROVE  Becomes(g, pc, frame[g].todo, frame[g].originals, Front(frame[g].undo), Absent,
                 frame[g].spoiled)
<1>1. frame[g] \in Frames
  BY DEF FramesOK
<1>2. PICK f : f = [frame[g] EXCEPT !.pc = pc, !.undo = Front(frame[g].undo),
                                    !.held = Absent]
  OBVIOUS
<1>3. f = [pc |-> pc, todo |-> frame[g].todo, originals |-> frame[g].originals,
           undo |-> Front(frame[g].undo), held |-> Absent,
           spoiled |-> frame[g].spoiled, entries |-> frame[g].entries,
           composed |-> frame[g].composed, steps |-> frame[g].steps]
  BY <1>1, <1>2 DEF Frames
<1>4. frame[g].undo \in Seq(Paths \union Dirs)
  BY <1>1 DEF Frames
<1>5. Front(frame[g].undo) \in Seq(Paths \union Dirs)
  BY <1>4, FrontOf
<1>6. Absent \in Files
  BY DEF Absent, Files, FileKinds
<1>7. f \in Frames
  BY <1>1, <1>3, <1>5, <1>6 DEF Frames
<1>8. frame' = [frame EXCEPT ![g] = f]
  BY <1>2 DEF Pop
<1>9. FramesOK' /\ frame'[g] = f /\ \A h \in Commands \ {g} : frame'[h] = frame[h]
  BY <1>7, <1>8, FrameSet
<1> QED
  BY <1>3, <1>9 DEF Becomes

\* A file in the quarantine.
LEMMA HeldSet ==
  ASSUME FramesOK, NEW g \in Commands, NEW pc \in Points, NEW file \in Files,
         frame' = [frame EXCEPT ![g] = [@ EXCEPT !.pc = pc, !.held = file]]
  PROVE  Becomes(g, pc, frame[g].todo, frame[g].originals, frame[g].undo, file,
                 frame[g].spoiled)
<1>1. frame[g] \in Frames
  BY DEF FramesOK
<1>2. PICK f : f = [frame[g] EXCEPT !.pc = pc, !.held = file]
  OBVIOUS
<1>3. f = [pc |-> pc, todo |-> frame[g].todo, originals |-> frame[g].originals,
           undo |-> frame[g].undo, held |-> file,
           spoiled |-> frame[g].spoiled, entries |-> frame[g].entries,
           composed |-> frame[g].composed, steps |-> frame[g].steps]
  BY <1>1, <1>2 DEF Frames
<1>4. f \in Frames
  BY <1>1, <1>3 DEF Frames
<1>5. frame' = [frame EXCEPT ![g] = f]
  BY <1>2
<1>6. FramesOK' /\ frame'[g] = f /\ \A h \in Commands \ {g} : frame'[h] = frame[h]
  BY <1>4, <1>5, FrameSet
<1> QED
  BY <1>3, <1>6 DEF Becomes

\* A compensation that failed.
LEMMA SpoiledSet ==
  ASSUME FramesOK, NEW g \in Commands, frame[g].undo # << >>,
         frame' = [frame EXCEPT ![g] = [@ EXCEPT
           !.undo = Front(frame[g].undo), !.spoiled = TRUE]]
  PROVE  Becomes(g, frame[g].pc, frame[g].todo, frame[g].originals, Front(frame[g].undo),
                 frame[g].held, TRUE)
<1>1. frame[g] \in Frames
  BY DEF FramesOK
<1>2. PICK f : f = [frame[g] EXCEPT !.undo = Front(frame[g].undo), !.spoiled = TRUE]
  OBVIOUS
<1>3. f = [pc |-> frame[g].pc, todo |-> frame[g].todo, originals |-> frame[g].originals,
           undo |-> Front(frame[g].undo), held |-> frame[g].held,
           spoiled |-> TRUE, entries |-> frame[g].entries,
           composed |-> frame[g].composed, steps |-> frame[g].steps]
  BY <1>1, <1>2 DEF Frames
<1>4. frame[g].undo \in Seq(Paths \union Dirs)
  BY <1>1 DEF Frames
<1>5. Front(frame[g].undo) \in Seq(Paths \union Dirs)
  BY <1>4, FrontOf
<1>6. f \in Frames
  BY <1>1, <1>3, <1>5 DEF Frames
<1>7. frame' = [frame EXCEPT ![g] = f]
  BY <1>2
<1>8. FramesOK' /\ frame'[g] = f /\ \A h \in Commands \ {g} : frame'[h] = frame[h]
  BY <1>6, <1>7, FrameSet
<1> QED
  BY <1>3, <1>8 DEF Becomes

-----------------------------------------------------------------------------
(* Sequences, paths and requests.                                           *)

\* A sequence and one more element.
LEMMA AppendTo ==
  ASSUME NEW S, NEW s \in Seq(S), NEW p \in S
  PROVE  /\ Append(s, p) \in Seq(S) /\ ToSet(Append(s, p)) = ToSet(s) \union {p}
         /\ Append(s, p) # << >> /\ Last(Append(s, p)) = p
         /\ Distinct(s) /\ p \notin ToSet(s) => Distinct(Append(s, p))
<1> Append(s, p) \in Seq(S)
  OBVIOUS
<1>1. PICK t \in Seq(S) : t = Append(s, p)
  OBVIOUS
<1>2. PICK n \in Nat : n = Len(s) /\ Len(t) = n + 1 /\ DOMAIN s = 1..n /\ DOMAIN t = 1..(n + 1)
  BY <1>1
<1>3. t[n + 1] = p /\ \A i \in 1..n : t[i] = s[i]
  BY <1>1, <1>2
<1>4. ToSet(t) = ToSet(s) \union {p}
  <2>1. \A x \in ToSet(t) : x \in ToSet(s) \union {p}
    BY <1>2, <1>3 DEF ToSet
  <2>2. \A x \in ToSet(s) \union {p} : x \in ToSet(t)
    BY <1>2, <1>3 DEF ToSet
  <2> QED
    BY <2>1, <2>2
<1>5. t # << >> /\ Last(t) = p
  BY <1>2, <1>3 DEF Last
<1>6. ASSUME Distinct(s), p \notin ToSet(s)
      PROVE  Distinct(t)
  <2>1. \A i \in 1..n : s[i] # p
    BY <1>2, <1>6 DEF ToSet
  <2> QED
    BY <1>2, <1>3, <1>6, <2>1 DEF Distinct
<1> QED
  BY <1>1, <1>4, <1>5, <1>6

\* A sequence of distinct elements without its last one.
LEMMA FrontSet ==
  ASSUME NEW S, NEW s \in Seq(S), s # << >>, Distinct(s)
  PROVE  /\ Front(s) \in Seq(S) /\ Distinct(Front(s))
         /\ ToSet(Front(s)) = ToSet(s) \ {Last(s)} /\ Last(s) \in ToSet(s)
<1>1. PICK t \in Seq(S) : t = Front(s)
  BY FrontOf
<1>2. PICK n \in Nat : /\ Len(s) = n + 1 /\ Len(t) = n /\ DOMAIN s = 1..(n + 1)
                       /\ DOMAIN t = 1..n
  BY <1>1, FrontOf
<1>3. Last(s) = s[n + 1] /\ \A i \in 1..n : t[i] = s[i]
  BY <1>1, <1>2, FrontOf
<1>4. \A i \in 1..n : s[i] # s[n + 1]
  BY <1>2 DEF Distinct
<1>5. Distinct(t)
  BY <1>2, <1>3 DEF Distinct
<1>6. \A x \in ToSet(t) : x \in ToSet(s) \ {Last(s)}
  BY <1>2, <1>3, <1>4 DEF ToSet
<1>7. \A x \in ToSet(s) \ {Last(s)} : x \in ToSet(t)
  BY <1>2, <1>3 DEF ToSet
<1>8. Last(s) \in ToSet(s)
  BY <1>2, <1>3 DEF ToSet
<1> QED
  BY <1>1, <1>5, <1>6, <1>7, <1>8

\* A sequence without its first element.
LEMMA TailSet ==
  ASSUME NEW S, NEW s \in Seq(S), s # << >>
  PROVE  /\ Tail(s) \in Seq(S) /\ Head(s) \in ToSet(s) /\ Head(s) \in S
         /\ Len(Tail(s)) = Len(s) - 1 /\ Len(s) \in Nat \ {0}
         /\ \A i \in 1..(Len(s) - 1) : Tail(s)[i] = s[i + 1]
         /\ ToSet(s) = ToSet(Tail(s)) \union {Head(s)} /\ Head(s) = s[1]
         /\ Distinct(s) => Distinct(Tail(s)) /\ Head(s) \notin ToSet(Tail(s))
<1> Tail(s) \in Seq(S)
  OBVIOUS
<1>1. PICK t \in Seq(S) : t = Tail(s)
  OBVIOUS
<1>2. PICK n \in Nat : /\ Len(s) = n + 1 /\ Len(t) = n /\ DOMAIN s = 1..(n + 1)
                       /\ DOMAIN t = 1..n
  BY <1>1
<1>3. Head(s) = s[1] /\ \A i \in 1..n : t[i] = s[i + 1]
  BY <1>1, <1>2
<1>4. Head(s) \in ToSet(s) /\ Head(s) \in S
  BY <1>2, <1>3 DEF ToSet
<1>5. \A x \in ToSet(s) : x \in ToSet(t) \union {Head(s)}
  <2>1. ASSUME NEW i \in 1..(n + 1)
        PROVE  s[i] \in ToSet(t) \union {Head(s)}
    <3>1. CASE i = 1
      BY <3>1, <1>3
    <3>2. CASE i # 1
      <4>1. i - 1 \in 1..n /\ (i - 1) + 1 = i
        BY <3>2
      <4> QED
        BY <4>1, <1>2, <1>3 DEF ToSet
    <3> QED
      BY <3>1, <3>2
  <2> QED
    BY <2>1, <1>2 DEF ToSet
<1>6. \A x \in ToSet(t) : x \in ToSet(s)
  BY <1>2, <1>3 DEF ToSet
<1>7. ASSUME Distinct(s)
      PROVE  Distinct(t) /\ Head(s) \notin ToSet(t)
  <2>1. Distinct(t)
    BY <1>2, <1>3, <1>7 DEF Distinct
  <2>2. \A i \in 1..n : s[i + 1] # s[1]
    BY <1>2, <1>7 DEF Distinct
  <2> QED
    BY <2>1, <2>2, <1>2, <1>3 DEF ToSet
<1> QED
  BY <1>1, <1>2, <1>3, <1>4, <1>5, <1>6, <1>7

\* The paths are apart from each other.
LEMMA PathsApart ==
  /\ Blueprinted \subseteq Paths /\ Sources \subseteq Paths /\ Paths \intersect Dirs = {}
  /\ Models # Package
  /\ \A f \in Features :
       /\ {Models, Package, Entity(f), Module(f), Manifest(f)} \subseteq Blueprinted
       /\ Models # Entity(f) /\ Package # Entity(f)
       /\ Models # Module(f) /\ Package # Module(f)
       /\ Models # Manifest(f) /\ Package # Manifest(f)
       /\ \A k \in Features : /\ Entity(f) # Module(k) /\ Entity(f) # Manifest(k)
                              /\ Module(f) # Manifest(k)
                              /\ Manifest(f) = Manifest(k) => f = k
       /\ Manifest(f) \notin Sources
  /\ \A v \in Vias :
       /\ {Registry(v), Bindings(v)} \subseteq Paths
       /\ Registry(v) \notin Blueprinted /\ Bindings(v) \notin Blueprinted
       /\ Registry(v) \notin Sources /\ Bindings(v) \notin Sources
       /\ \A u \in UseCases : /\ Contract(v, u) \in Sources
                              /\ Contract(v, u) \notin Blueprinted
                              /\ Contract(v, u) # Registry(v)
                              /\ Contract(v, u) # Bindings(v)
                              /\ Contract(v, u) # Composition
  /\ Composition \in Paths /\ Composition \notin Blueprinted /\ Composition \notin Sources
  /\ \A a \in Adapters : /\ Extension(a) \in Sources /\ Extension(a) \notin Blueprinted
                         /\ Extension(a) \notin SettingsFiles
  /\ Paths \intersect SettingsFiles = {}
<1> USE DEF Models, Package, Entity, Module, Manifest, Registry, Bindings, Contract,
            Composition, Extension, FeaturesDir
<1>1. Blueprinted \subseteq Paths /\ Sources \subseteq Paths
  BY DEF Blueprinted, Paths, Sources
<1>2. Paths \intersect Dirs = {}
  BY DEF Paths, Sources, Dirs
<1>3. \A f \in Features : {Models, Package, Entity(f), Module(f), Manifest(f)} \subseteq Blueprinted
  BY DEF Blueprinted
<1>4. \A f \in Features : Manifest(f) \notin Sources
  BY DEF Sources
<1>5. \A v \in Vias : /\ {Registry(v), Bindings(v)} \subseteq Paths
                      /\ Registry(v) \notin Blueprinted /\ Bindings(v) \notin Blueprinted
                      /\ Registry(v) \notin Sources /\ Bindings(v) \notin Sources
  BY DEF Paths, Sources, Blueprinted
<1>6. \A v \in Vias, u \in UseCases : /\ Contract(v, u) \in Sources
                                      /\ Contract(v, u) \notin Blueprinted
                                      /\ Contract(v, u) # Registry(v)
                                      /\ Contract(v, u) # Bindings(v)
                                      /\ Contract(v, u) # Composition
  BY DEF Sources, Blueprinted
<1>7. Composition \in Paths /\ Composition \notin Blueprinted /\ Composition \notin Sources
  BY DEF Paths, Sources, Blueprinted
<1>8. \A a \in Adapters : /\ Extension(a) \in Sources /\ Extension(a) \notin Blueprinted
                          /\ Extension(a) \notin SettingsFiles
  BY DEF Sources, Blueprinted, SettingsFiles, Config, Dependencies, Environment, Ignored,
         Secrets, Activation
<1>9. Paths \intersect SettingsFiles = {}
  BY DEF Paths, Sources, SettingsFiles, Config, Dependencies, Environment, Ignored,
         Secrets, Activation
<1>10. \A f, k \in Features : /\ Entity(f) # Module(k) /\ Entity(f) # Manifest(k)
                              /\ Module(f) # Manifest(k)
                              /\ Manifest(f) = Manifest(k) => f = k
  OBVIOUS
<1>11. Models # Package /\ \A f \in Features :
         /\ Models # Entity(f) /\ Package # Entity(f)
         /\ Models # Module(f) /\ Package # Module(f)
         /\ Models # Manifest(f) /\ Package # Manifest(f)
  OBVIOUS
<1> HIDE DEF Models, Package, Entity, Module, Manifest, Registry, Bindings, Contract,
             Composition, Extension, FeaturesDir
<1> QED
  BY <1>1, <1>2, <1>3, <1>4, <1>5, <1>6, <1>7, <1>8, <1>9, <1>10, <1>11

\* A command has one kind, and what belongs to it.
LEMMA Kinds ==
  ASSUME RequestsOK
  PROVE  /\ Blueprints \subseteq Commands /\ Creators \subseteq Commands
         /\ \A g \in Blueprints : /\ Feature(g) \in Features
                                  /\ ~Exposes(g) /\ ~Installs(g) /\ g \notin Creators
         /\ \A g \in Commands : Exposes(g) =>
              Via(g) \in Vias /\ UseCase(g) \in UseCases /\ ~Installs(g) /\ g \notin Creators
         /\ \A g \in Commands : Installs(g) => Adapter(g) \in Adapters /\ g \notin Creators
<1>1. \A g \in Commands : request[g] \in Asks
  BY DEF RequestsOK
<1>2. \A r \in Asks :
         /\ r.kind \in {"blueprint", "entity"} => r.feature \in Features
         /\ r.kind = "binding" => r.via \in Vias /\ r.usecase \in UseCases
         /\ r.kind = "adapter" => r.adapter \in Adapters
  BY DEF Asks
<1> QED
  BY <1>1, <1>2 DEF Blueprints, Creators, Asked, Feature, Exposes, Installs, Via, UseCase,
                    Adapter

-----------------------------------------------------------------------------
(* The steps of a blueprint, as far as the tree and what it owes are        *)
(* concerned.                                                               *)

\* It changes no file.
Rests(g) ==
  /\ UNCHANGED tree /\ attic \subseteq attic'
  /\ frame[g].spoiled => frame'[g].spoiled
  /\ Stays(g) => Stays(g)'
  /\ \A p \in Blueprinted :
       /\ Owes(g, p)' => Owes(g, p)
       /\ Owes(g, p) => Owes(g, p)' \/ Stays(g)' \/ frame'[g].spoiled \/ tree[p] = Absent
       /\ HeldAt(g, p)' => HeldAt(g, p)
  /\ At(g, "held")' => At(g, "held") /\ frame'[g].held = frame[g].held
  /\ At(g, "held") /\ frame[g].held.kind = "developer" =>
       [path |-> Newest(g), file |-> frame[g].held] \in attic'
  /\ At(g, "write") /\ frame[g].todo = << >> => Stays(g)'

\* It publishes a file.
Publishing(g, p) ==
  /\ p \in Blueprinted /\ ~Exists(p) /\ tree' = [tree EXCEPT ![p] = Rendered(g)]
  /\ UNCHANGED attic
  /\ frame'[g].spoiled = frame[g].spoiled
  /\ \A q \in Blueprinted : Owes(g, q)' <=> Owes(g, q) \/ q = p
  /\ ~At(g, "held") /\ ~At(g, "held")' /\ ~Stays(g)
  /\ ~(At(g, "write") /\ frame[g].todo = << >>)
  /\ \A f \in Features : p = Manifest(f) =>
       Owes(g, Module(f)) /\ At(g, "write")' /\ frame'[g].todo = << >>

\* It renames a file into its quarantine.
Detaching(g, p) ==
  /\ p \in Blueprinted /\ Exists(p) /\ tree' = [tree EXCEPT ![p] = Absent]
  /\ UNCHANGED attic
  /\ Owes(g, p) /\ At(g, "rollback") /\ frame'[g].spoiled = frame[g].spoiled
  /\ frame'[g].held = tree[p] /\ At(g, "held")' /\ Newest(g)' = p
  /\ \A q \in Blueprinted : Owes(g, q)' <=> Owes(g, q) /\ q # p
  /\ \A f \in Features : p # Manifest(f)

\* It puts one back.
PuttingBack(g, p) ==
  /\ p \in Blueprinted /\ ~Exists(p) /\ tree' = [tree EXCEPT ![p] = frame[g].held]
  /\ UNCHANGED attic
  /\ HeldAt(g, p) /\ frame[g].held # Rendered(g) /\ frame'[g].spoiled = frame[g].spoiled
  /\ \A q \in Blueprinted : Owes(g, q)' <=> Owes(g, q)
  /\ At(g, "rollback")'
  /\ \A f \in Features : p # Manifest(f)

Effects(g) ==
  \/ Rests(g)
  \/ \E p \in Blueprinted : Publishing(g, p) \/ Detaching(g, p) \/ PuttingBack(g, p)

\* Where a blueprint may go without changing anything else of its own.
Leads(from, to) ==
  \/ from = "package" /\ to = "entity"
  \/ from = "check" /\ to = "mkdir"
  \/ from = "mkdir" /\ to = "write"
  \/ from \in {"package", "entity", "check", "mkdir", "write"} /\ to = "rollback"
  \/ from \in {"plan", "rollback"} /\ to = "refused"
  \/ from = "write" /\ to \in {"load", "done"}
  \/ from = "load" /\ to = "save"
  \/ from = "save" /\ to = "done"
  \/ from \in {"load", "save"} /\ to = "unrecorded"
  \/ to = "killed"

\* A blueprint that only goes on to another point of its code keeps its shape.
LEMMA GoesOn ==
  ASSUME RequestsOK, RequestsOK', UNCHANGED request, NEW g \in Blueprints, BlueprintShape(g),
         NEW pc, Leads(frame[g].pc, pc),
         Becomes(g, pc, frame[g].todo, frame[g].originals, frame[g].undo, frame[g].held,
                 frame[g].spoiled),
         pc = "refused" => frame[g].undo = << >>,
         frame[g].pc = "write" /\ pc = "rollback" => frame[g].todo # << >>
  PROVE  BlueprintShape(g)'
<1> DEFINE f == Feature(g)
<1>1. Feature(g)' = Feature(g) /\ (Creates(g)' <=> Creates(g)) /\ f \in Features
  BY Kinds DEF Feature, Creates
<1>2. /\ frame'[g].pc = pc /\ frame'[g].undo = frame[g].undo /\ frame'[g].todo = frame[g].todo
      /\ frame'[g].originals = frame[g].originals
  BY DEF Becomes
<1>3. Newest(g)' = Newest(g)
  BY <1>2 DEF Newest
<1>4. Planning(g) => Planning(g)'
  BY <1>1, <1>2 DEF Planning
<1>5. pc \in BlueprintPoints
  BY DEF BlueprintShape, Leads, BlueprintPoints, Preparing, Undoing
<1>6. pc \notin {"plan", "package", "check"} /\ (pc = "entity" => frame[g].pc = "package")
  BY DEF Leads
<1>7. pc \in Preparing \union {"write"} => frame[g].pc \in Preparing
  BY DEF Leads, Preparing
<1>8. pc \in Preparing \union {"write"} => Planning(g)'
  BY <1>4, <1>7 DEF BlueprintShape
<1>9. pc # "held"
  BY DEF Leads
<1>10. pc \in Preparing \union Undoing \/ (pc = "write" /\ frame[g].todo # << >>) =>
         frame[g].pc \in Preparing \union Undoing
           \/ (frame[g].pc = "write" /\ frame[g].todo # << >>)
  BY DEF Leads, Preparing, Undoing
<1>11. pc = "mkdir" => frame[g].pc = "check"
  BY DEF Leads
<1>12. /\ frame'[g].undo \in Seq(Blueprinted \union Dirs) /\ Distinct(frame'[g].undo)
       /\ pc \in {"plan", "package", "refused"} => frame'[g].undo = << >>
       /\ pc \in {"package", "entity"} => Creates(g)
  BY <1>2, <1>6 DEF BlueprintShape
<1>13. pc = "entity" => ToSet(frame'[g].undo) \subseteq {Models}
  BY <1>2, <1>6 DEF BlueprintShape, ToSet
<1>14. pc \in {"check", "mkdir"} =>
         /\ ToSet(frame'[g].undo) \subseteq {Models, Entity(f)}
         /\ Creates(g) \/ frame'[g].undo = << >>
  BY <1>2, <1>6, <1>11 DEF BlueprintShape
<1>15. pc \in Preparing \union Undoing \/ (pc = "write" /\ frame'[g].todo # << >>) =>
         \A k \in Features : Manifest(k) \notin ToSet(frame'[g].undo)
  BY <1>2, <1>10 DEF BlueprintShape
<1> QED
  BY <1>1, <1>2, <1>5, <1>8, <1>9, <1>12, <1>13, <1>14, <1>15 DEF BlueprintShape

\* A step of a command changes the frames of no other.
Turn(g) ==
  FramesOK' /\ TreeOK' /\ RequestsOK' /\ \A h \in Commands \ {g} : frame'[h] = frame[h]

\* A blueprint goes on, or ends, and what it owes is as it was, or will stay.
LEMMA GoesResting ==
  ASSUME Types, NEW g \in Blueprints, BlueprintShape(g), NEW pc,
         Leads(frame[g].pc, pc), UNCHANGED <<tree, request>>, attic \subseteq attic',
         Becomes(g, pc, frame[g].todo, frame[g].originals, frame[g].undo, frame[g].held,
                 frame[g].spoiled),
         pc = "refused" => frame[g].undo = << >>,
         frame[g].pc = "write" /\ pc \in {"rollback", "refused"} => frame[g].todo # << >>,
         At(g, "held") => [path |-> Newest(g), file |-> frame[g].held] \in attic'
  PROVE  BlueprintShape(g)' /\ Effects(g) /\ Turn(g)
<1>1. RequestsOK /\ RequestsOK' /\ TreeOK' /\ UNCHANGED request /\ UNCHANGED tree
  BY DEF Types, RequestsOK, TreeOK
<1>2. /\ FramesOK' /\ \A h \in Commands \ {g} : frame'[h] = frame[h]
      /\ frame'[g].pc = pc /\ frame'[g].undo = frame[g].undo /\ frame'[g].todo = frame[g].todo
      /\ frame'[g].held = frame[g].held /\ frame'[g].spoiled = frame[g].spoiled
  BY DEF Becomes
<1>3. BlueprintShape(g)'
  BY <1>1, GoesOn
<1>4. pc # "held" /\ (At(g, "held") => pc = "killed")
  BY DEF Leads, At
<1>5. Stays(g) => Stays(g)'
  BY <1>2 DEF Stays, Leads
<1>6. ASSUME NEW p \in Blueprinted
      PROVE  /\ Owes(g, p)' => Owes(g, p)
             /\ Owes(g, p) => Owes(g, p)' \/ Stays(g)'
             /\ ~HeldAt(g, p)'
  <2>1. ~HeldAt(g, p)'
    BY <1>2, <1>4 DEF HeldAt, At
  <2>2. ASSUME Owes(g, p)'
        PROVE  Owes(g, p)
    <3>1. /\ pc \in Preparing \union Undoing \union {"write"}
          /\ p \in ToSet(frame[g].undo)
      BY <2>2, <1>2 DEF Owes
    <3>2. frame[g].pc \in Preparing \union {"write"}
      BY <3>1, <1>4 DEF Leads, Preparing, Undoing
    <3>3. ~HeldAt(g, p)
      BY <3>2 DEF HeldAt, At, Preparing
    <3> QED
      BY <3>1, <3>2, <3>3 DEF Owes
  <2>3. ASSUME Owes(g, p), ~Stays(g)'
        PROVE  Owes(g, p)'
    <3>1. p \in ToSet(frame[g].undo)
      BY <2>3 DEF Owes
    <3>2. frame[g].undo # << >>
      BY <3>1 DEF ToSet
    <3>3. pc \in Preparing \union Undoing \union {"write"}
      BY <2>3, <3>2, <1>2 DEF Leads, Preparing, Undoing, Stays
    <3> QED
      BY <3>1, <3>3, <2>1, <1>2 DEF Owes
  <2> QED
    BY <2>1, <2>2, <2>3
<1>7. At(g, "write") /\ frame[g].todo = << >> => Stays(g)'
  BY <1>2 DEF At, Leads, Stays
<1>8. ~At(g, "held")'
  BY <1>2, <1>4 DEF At
<1>9. Rests(g)
  BY <1>1, <1>2, <1>5, <1>6, <1>7, <1>8 DEF Rests
<1> QED
  BY <1>1, <1>2, <1>3, <1>9 DEF Effects, Turn

\* The steps of a blueprint that change where it is only.
LEMMA BlueprintGoesOn ==
  ASSUME Types, NEW g \in Blueprints, BlueprintShape(g),
         \/ PlanRefused(g) \/ Check(g) \/ Applied(g) \/ RolledBack(g) \/ WriteFails(g)
         \/ At(g, "plan") /\ Goto(g, "refused") /\ UNCHANGED <<files, request>>
  PROVE  BlueprintShape(g)' /\ Effects(g) /\ Turn(g)
<1>1. PICK pc \in Points : Goto(g, pc) /\ Leads(frame[g].pc, pc)
  <2>1. CASE PlanRefused(g)
    BY <2>1 DEF PlanRefused, At, Leads, Points
  <2>2. CASE Check(g)
    BY <2>2 DEF Check, At, Leads, Points
  <2>3. CASE Applied(g)
    BY <2>3 DEF Applied, At, Leads, Points
  <2>4. CASE RolledBack(g)
    BY <2>4 DEF RolledBack, At, Leads, Points
  <2>5. CASE WriteFails(g)
    BY <2>5 DEF WriteFails, At, Leads, Points
  <2>6. CASE At(g, "plan") /\ Goto(g, "refused")
    BY <2>6 DEF At, Leads, Points
  <2> QED
    BY <2>1, <2>2, <2>3, <2>4, <2>5, <2>6
<1>2. UNCHANGED <<tree, attic, request>>
  BY DEF PlanRefused, Check, Applied, RolledBack, WriteFails, files, contents
<1>3. FramesOK /\ g \in Commands
  BY DEF Types, Blueprints, Asked
<1>4. Becomes(g, pc, frame[g].todo, frame[g].originals, frame[g].undo, frame[g].held,
              frame[g].spoiled)
  BY <1>1, <1>3, Goes
<1>5. frame'[g].pc = pc
  BY <1>4 DEF Becomes
<1>6. ~At(g, "held")
  BY DEF PlanRefused, Check, Applied, RolledBack, WriteFails, At
<1>7. pc = "refused" => frame[g].undo = << >>
  <2>1. CASE At(g, "plan")
    BY <2>1 DEF BlueprintShape, At
  <2>2. CASE RolledBack(g)
    BY <2>2 DEF RolledBack
  <2>3. CASE Check(g)
    BY <1>1, <2>3 DEF Leads, Check, At
  <2>4. CASE Applied(g)
    BY <1>1, <2>4 DEF Leads, Applied, At
  <2>5. CASE WriteFails(g)
    BY <1>1, <2>5 DEF Leads, WriteFails, At
  <2> QED
    BY <2>1, <2>2, <2>3, <2>4, <2>5 DEF PlanRefused
<1>8. frame[g].pc = "write" /\ pc \in {"rollback", "refused"} => frame[g].todo # << >>
  <2>1. CASE Applied(g)
    <3>1. PICK to \in {"done", "load"} : Goto(g, to)
      BY <2>1 DEF Applied
    <3>2. Becomes(g, to, frame[g].todo, frame[g].originals, frame[g].undo, frame[g].held,
                  frame[g].spoiled)
      BY <3>1, <1>3, Goes DEF Points
    <3> QED
      BY <3>2, <1>5 DEF Becomes
  <2>2. CASE WriteFails(g)
    BY <2>2 DEF WriteFails, At
  <2>3. CASE ~Applied(g) /\ ~WriteFails(g)
    BY <2>3 DEF PlanRefused, Check, RolledBack, At
  <2> QED
    BY <2>1, <2>2, <2>3
<1> QED
  BY <1>1, <1>2, <1>4, <1>6, <1>7, <1>8, GoesResting

\* What a command renders tells who did, and is not an absent file.
LEMMA RenderedFile ==
  ASSUME NEW g \in Commands
  PROVE  /\ Rendered(g) \in Files /\ Rendered(g) # Absent /\ Rendered(g).kind = "rendered"
         /\ Rendered(g).by = g /\ Absent \in Files /\ Absent.kind = "absent"
         /\ Text(Rendered(g)) # Text(Absent) /\ Absent.by = "nobody"
         /\ \A h \in Commands : Rendered(g) = Rendered(h) => g = h
BY DEF Rendered, Absent, Files, FileKinds, Text

\* Its manifest is the last thing a blueprint publishes.
Announces(g, p, pc, todo) ==
  \A f \in Features : p = Manifest(f) => Owes(g, Module(f)) /\ pc = "write" /\ todo = << >>

\* A file that a blueprint publishes where there is none.
Publishable(g, p, pc, todo) ==
  /\ ~Exists(p) /\ p \notin ToSet(frame[g].undo)
  /\ frame[g].pc \in {"package", "entity", "write"}
  /\ ~(At(g, "write") /\ frame[g].todo = << >>)
  /\ tree' = [tree EXCEPT ![p] = Rendered(g)] /\ UNCHANGED <<attic, request>>
  /\ Becomes(g, pc, todo, frame[g].originals, Append(frame[g].undo, p), frame[g].held,
             frame[g].spoiled)
  /\ Announces(g, p, pc, todo)

\* What a blueprint publishes is something more to take back.
LEMMA PublishingOwes ==
  ASSUME Types, NEW g \in Blueprints, BlueprintShape(g), NEW p \in Blueprinted,
         NEW pc \in {"entity", "check", "write"}, NEW todo, Publishable(g, p, pc, todo)
  PROVE  /\ Effects(g) /\ Turn(g)
         /\ frame'[g].undo \in Seq(Blueprinted \union Dirs) /\ Distinct(frame'[g].undo)
         /\ ToSet(frame'[g].undo) = ToSet(frame[g].undo) \union {p}
<1>0. /\ ~Exists(p) /\ p \notin ToSet(frame[g].undo)
      /\ frame[g].pc \in {"package", "entity", "write"}
      /\ ~(At(g, "write") /\ frame[g].todo = << >>)
      /\ tree' = [tree EXCEPT ![p] = Rendered(g)] /\ UNCHANGED attic /\ UNCHANGED request
      /\ Announces(g, p, pc, todo)
  BY DEF Publishable
<1>1. /\ FramesOK' /\ \A h \in Commands \ {g} : frame'[h] = frame[h]
      /\ frame'[g].pc = pc /\ frame'[g].undo = Append(frame[g].undo, p)
      /\ frame'[g].todo = todo
      /\ frame'[g].held = frame[g].held /\ frame'[g].spoiled = frame[g].spoiled
  BY DEF Becomes, Publishable
<1>2. frame[g].undo \in Seq(Blueprinted \union Dirs) /\ Distinct(frame[g].undo)
  BY DEF BlueprintShape
<1>3. /\ frame'[g].undo \in Seq(Blueprinted \union Dirs) /\ Distinct(frame'[g].undo)
      /\ ToSet(frame'[g].undo) = ToSet(frame[g].undo) \union {p}
  BY <1>0, <1>1, <1>2, AppendTo
<1>4. g \in Commands /\ p \in Paths
  BY PathsApart, Kinds DEF Types
<1>5. TreeOK'
  BY <1>0, <1>4, RenderedFile DEF Types, TreeOK
<1>6. RequestsOK'
  BY <1>0 DEF Types, RequestsOK
<1>7. ~At(g, "held") /\ ~At(g, "held")' /\ ~Stays(g)
  BY <1>0, <1>1 DEF At, Stays
<1>8. ASSUME NEW q \in Blueprinted
      PROVE  Owes(g, q)' <=> Owes(g, q) \/ q = p
  <2>1. ~HeldAt(g, q) /\ ~HeldAt(g, q)'
    BY <1>7 DEF HeldAt
  <2>2. /\ frame[g].pc \in Preparing \union Undoing \union {"write"}
        /\ frame'[g].pc \in Preparing \union Undoing \union {"write"}
    BY <1>0, <1>1 DEF Preparing
  <2> QED
    BY <2>1, <2>2, <1>3 DEF Owes
<1>9. \A f \in Features : p = Manifest(f) =>
        Owes(g, Module(f)) /\ At(g, "write")' /\ frame'[g].todo = << >>
  BY <1>0, <1>1 DEF At, Announces
<1>10. Publishing(g, p)
  BY <1>0, <1>1, <1>7, <1>8, <1>9 DEF Publishing
<1> QED
  BY <1>1, <1>3, <1>5, <1>6, <1>10 DEF Effects, Turn

\* The entity and the initializer of its package.
LEMMA EntityWritten ==
  ASSUME Types, NEW g \in Blueprints, BlueprintShape(g), WritePackage(g) \/ WriteEntity(g)
  PROVE  BlueprintShape(g)' /\ Effects(g) /\ Turn(g)
<1> DEFINE f == Feature(g)
<1>1. FramesOK /\ g \in Commands /\ f \in Features /\ RequestsOK
  BY Kinds DEF Types
<1>2. UNCHANGED request
  BY DEF WritePackage, WriteEntity, Publishes
<1>3. ASSUME NEW pc \in {"entity", "rollback"}, Goto(g, pc), UNCHANGED files,
             Leads(frame[g].pc, pc)
      PROVE  BlueprintShape(g)' /\ Effects(g) /\ Turn(g)
  <2>1. Becomes(g, pc, frame[g].todo, frame[g].originals, frame[g].undo, frame[g].held,
                frame[g].spoiled)
    BY <1>1, <1>3, Goes DEF Points
  <2>2. UNCHANGED <<tree, attic>>
    BY <1>3 DEF files
  <2>3. ~At(g, "held") /\ frame[g].pc # "write"
    BY DEF WritePackage, WriteEntity, At
  <2> QED
    BY <1>2, <1>3, <2>1, <2>2, <2>3, GoesResting
<1>4. CASE At(g, "package") /\ Goto(g, "rollback") /\ UNCHANGED files
  BY <1>3, <1>4 DEF At, Leads
<1>5. CASE At(g, "package") /\ Goto(g, "entity") /\ UNCHANGED files
  BY <1>3, <1>5 DEF At, Leads
<1>6. CASE At(g, "entity") /\ Goto(g, "rollback") /\ UNCHANGED files
  BY <1>3, <1>6 DEF At, Leads
<1>7. ASSUME NEW p \in Blueprinted, NEW pc \in {"entity", "check"},
             Publishes(g, p, pc), ~Exists(p),
             \/ At(g, "package") /\ p = Models /\ pc = "entity"
             \/ At(g, "entity") /\ p = Entity(f) /\ pc = "check"
      PROVE  BlueprintShape(g)' /\ Effects(g) /\ Turn(g)
  <2>1. Becomes(g, pc, frame[g].todo, frame[g].originals, Append(frame[g].undo, p),
                frame[g].held, frame[g].spoiled)
    <3>1. p \in Paths \union Dirs /\ pc \in Points
      BY PathsApart DEF Points
    <3>2. frame' = [frame EXCEPT ![g] = [@ EXCEPT
            !.pc = pc, !.undo = Append(frame[g].undo, p)]]
      BY <1>7 DEF Publishes
    <3> QED
      BY <1>1, <3>1, <3>2, UndoSet
  <2>2. tree' = [tree EXCEPT ![p] = Rendered(g)] /\ UNCHANGED attic
    BY <1>7 DEF Publishes, Published
  <2>3. Creates(g) /\ ToSet(frame[g].undo) \subseteq {Models} /\ Planning(g)
    BY <1>7 DEF BlueprintShape, At, ToSet, Preparing
  <2>4. At(g, "package") => ToSet(frame[g].undo) = {}
    BY DEF BlueprintShape, At, ToSet
  <2>5. p \notin ToSet(frame[g].undo)
    BY <1>1, <1>7, <2>3, <2>4, PathsApart
  <2>6. frame[g].pc \in {"package", "entity"}
    BY <1>7 DEF At
  <2>7. \A k \in Features : p # Manifest(k)
    BY <1>1, <1>7, PathsApart
  <2>8. /\ Effects(g) /\ Turn(g)
        /\ frame'[g].undo \in Seq(Blueprinted \union Dirs) /\ Distinct(frame'[g].undo)
        /\ ToSet(frame'[g].undo) = ToSet(frame[g].undo) \union {p}
    <3>1. frame[g].pc \in {"package", "entity", "write"} /\ ~At(g, "write")
      BY <2>6 DEF At
    <3>2. Announces(g, p, pc, frame[g].todo)
      BY <2>7 DEF Announces
    <3>3. Publishable(g, p, pc, frame[g].todo)
      BY <1>2, <1>7, <2>1, <2>2, <2>5, <3>1, <3>2 DEF Publishable
    <3>4. pc \in {"entity", "check", "write"}
      OBVIOUS
    <3> QED
      BY <3>3, <3>4, PublishingOwes
  <2>9. /\ frame'[g].pc = pc /\ frame'[g].todo = frame[g].todo
        /\ frame'[g].originals = frame[g].originals
    BY <2>1 DEF Becomes
  <2>10. Feature(g)' = f /\ Creates(g)'
    BY <1>2, <2>3 DEF Feature, Creates
  <2>11. Planning(g)'
    <3>1. ASSUME NEW q \in ToSet(frame[g].todo) \intersect (ToSet(frame[g].undo) \union {p})
          PROVE  q = Models
      <4>1. CASE q \in ToSet(frame[g].undo)
        BY <3>1, <4>1, <2>3
      <4>2. CASE q = p
        <5>1. q \in {Models, Package, Module(f), Manifest(f)}
          BY <3>1, <2>3 DEF Planning, ToSet
        <5> QED
          BY <1>1, <1>7, <4>2, <5>1, PathsApart
      <4> QED
        BY <3>1, <4>1, <4>2
    <3> QED
      BY <2>3, <2>8, <2>9, <2>10, <3>1 DEF Planning
  <2>12. pc = "entity" => ToSet(frame'[g].undo) \subseteq {Models}
    BY <1>7, <2>3, <2>8 DEF At
  <2>13. pc = "check" => ToSet(frame'[g].undo) \subseteq {Models, Entity(f)}
    BY <1>7, <2>3, <2>8 DEF At
  <2>14. \A k \in Features : Manifest(k) \notin ToSet(frame'[g].undo)
    BY <2>3, <2>7, <2>8, PathsApart
  <2>15. pc \in BlueprintPoints /\ pc \notin {"plan", "package", "refused", "held", "mkdir"}
    BY DEF BlueprintPoints, Preparing
  <2> QED
    BY <2>8, <2>9, <2>10, <2>11, <2>12, <2>13, <2>14, <2>15 DEF BlueprintShape
<1> QED
  BY <1>1, <1>4, <1>5, <1>6, <1>7, PathsApart DEF WritePackage, WriteEntity

\* A file joins a plan if it is missing.
LEMMA Joined ==
  ASSUME NEW S, NEW s \in Seq(S), NEW p \in S, Distinct(s), p \notin ToSet(s)
  PROVE  /\ s \o IfMissing(p) \in Seq(S) /\ Distinct(s \o IfMissing(p))
         /\ Exists(p) => s \o IfMissing(p) = s
         /\ ~Exists(p) => s \o IfMissing(p) = Append(s, p)
         /\ ToSet(s \o IfMissing(p)) = ToSet(s) \union (IF Exists(p) THEN {} ELSE {p})
<1>1. CASE Exists(p)
  <2>1. s \o << >> = s
    OBVIOUS
  <2> QED
    BY <1>1, <2>1 DEF IfMissing
<1>2. CASE ~Exists(p)
  <2>1. s \o <<p>> = Append(s, p)
    OBVIOUS
  <2> QED
    <3>1. IfMissing(p) = <<p>>
      BY <1>2 DEF IfMissing
    <3>2. /\ Append(s, p) \in Seq(S) /\ ToSet(Append(s, p)) = ToSet(s) \union {p}
          /\ Distinct(Append(s, p))
      BY AppendTo
    <3> QED
      BY <1>2, <2>1, <3>1, <3>2
<1> QED
  BY <1>1, <1>2

\* The plan of a blueprint: what is missing, the manifest last and never without
\* the module.
LEMMA PlannedFiles ==
  ASSUME RequestsOK, NEW g \in Blueprints, NEW f, f = Feature(g)
  PROVE  /\ Planned(g) \in Seq({Models, Package, Module(f), Manifest(f)})
         /\ Distinct(Planned(g))
         /\ \A p \in ToSet(Planned(g)) : ~Exists(p)
         /\ \A i \in 1..Len(Planned(g)) : Planned(g)[i] = Manifest(f) => i = Len(Planned(g))
         /\ Manifest(f) \in ToSet(Planned(g)) /\ ~Collides(g) =>
              Module(f) \in ToSet(Planned(g))
<1>1. f \in Features
  BY Kinds
<1>2. PICK S : S = {Models, Package, Module(f), Manifest(f)}
  OBVIOUS
<1>3. << >> \in Seq(S) /\ Distinct(<< >>) /\ ToSet(<< >>) = {}
  BY DEF Distinct, ToSet
<1>4. PICK s1 : s1 = IfMissing(Models)
  OBVIOUS
<1>5. s1 \in Seq(S) /\ Distinct(s1) /\ ToSet(s1) = IF Exists(Models) THEN {} ELSE {Models}
  <2>1. CASE Exists(Models)
    BY <1>3, <1>4, <2>1 DEF IfMissing
  <2>2. CASE ~Exists(Models)
    <3>1. s1 = <<Models>> /\ s1 = Append(<< >>, Models)
      BY <1>4, <2>2 DEF IfMissing
    <3>2. Models \in S
      BY <1>2
    <3>3. PICK e \in Seq(S) : e = << >>
      BY <1>3
    <3>4. Distinct(e) /\ ToSet(e) = {}
      BY <1>3, <3>3
    <3>5. /\ Append(e, Models) \in Seq(S) /\ ToSet(Append(e, Models)) = ToSet(e) \union {Models}
          /\ Distinct(Append(e, Models))
      BY <3>2, <3>4, AppendTo
    <3> QED
      BY <2>2, <3>1, <3>3, <3>4, <3>5
  <2> QED
    BY <2>1, <2>2
<1>6. PICK s2 : s2 = s1 \o IfMissing(Package)
  OBVIOUS
<1>7. /\ s2 \in Seq(S) /\ Distinct(s2)
      /\ ToSet(s2) = ToSet(s1) \union IF Exists(Package) THEN {} ELSE {Package}
  <2>1. Package \notin ToSet(s1) /\ Package \in S
    BY <1>2, <1>5, PathsApart
  <2> QED
    BY <1>5, <1>6, <2>1, Joined
<1>8. PICK s3 : s3 = s2 \o IfMissing(Module(f))
  OBVIOUS
<1>9. /\ s3 \in Seq(S) /\ Distinct(s3)
      /\ ToSet(s3) = ToSet(s2) \union IF Exists(Module(f)) THEN {} ELSE {Module(f)}
  <2>1. Module(f) \notin ToSet(s2) /\ Module(f) \in S
    BY <1>1, <1>2, <1>5, <1>7, PathsApart
  <2> QED
    BY <1>7, <1>8, <2>1, Joined
<1>10. PICK s4 : s4 = s3 \o IfMissing(Manifest(f))
  OBVIOUS
<1>11. Manifest(f) \notin ToSet(s3) /\ Manifest(f) \in S
  BY <1>1, <1>2, <1>5, <1>7, <1>9, PathsApart
<1>12. /\ s4 \in Seq(S) /\ Distinct(s4)
       /\ ToSet(s4) = ToSet(s3) \union IF Exists(Manifest(f)) THEN {} ELSE {Manifest(f)}
       /\ Exists(Manifest(f)) => s4 = s3
       /\ ~Exists(Manifest(f)) => s4 = Append(s3, Manifest(f))
  BY <1>9, <1>10, <1>11, Joined
<1>13. Planned(g) = s4
  BY <1>4, <1>6, <1>8, <1>10 DEF Planned
<1>14. \A p \in ToSet(s4) : ~Exists(p)
  BY <1>5, <1>7, <1>9, <1>12
<1>15. ASSUME NEW i \in 1..Len(s4), s4[i] = Manifest(f)
       PROVE  i = Len(s4)
  <2>1. Manifest(f) \in ToSet(s4)
    BY <1>12, <1>15 DEF ToSet
  <2>2. s4 = Append(s3, Manifest(f))
    BY <1>11, <1>12, <2>1
  <2>3. Len(s4) \in 1..Len(s4) /\ s4[Len(s4)] = Manifest(f)
    BY <1>9, <1>11, <2>2
  <2> QED
    BY <1>12, <1>15, <2>3 DEF Distinct
<1>16. Manifest(f) \in ToSet(s4) /\ ~Collides(g) => Module(f) \in ToSet(s4)
  BY <1>9, <1>12, <1>14 DEF Collides, Installed
<1> QED
  BY <1>2, <1>12, <1>13, <1>14, <1>15, <1>16

\* A blueprint plans: nothing is written yet, and nothing is to be taken back.
LEMMA PlanMade ==
  ASSUME Types, NEW g \in Blueprints, BlueprintShape(g), Plan(g)
  PROVE  BlueprintShape(g)' /\ Effects(g) /\ Turn(g)
<1> DEFINE f == Feature(g)
<1>1. FramesOK /\ g \in Commands /\ f \in Features /\ RequestsOK /\ TreeOK
  BY Kinds DEF Types
<1>2. UNCHANGED <<tree, attic, request>> /\ At(g, "plan")
  BY DEF Plan, files
<1>3. CASE Collides(g)
  <2>1. Goto(g, "refused") /\ UNCHANGED <<files, request>>
    BY <1>3 DEF Plan
  <2> QED
    BY <1>2, <2>1, BlueprintGoesOn
<1>4. CASE ~Collides(g)
  <2>1. PICK todo : todo = Planned(g)
    OBVIOUS
  <2>2. PICK originals :
          originals = {[path |-> p, text |-> Original(g, p)] : p \in ToSet(todo)}
    OBVIOUS
  <2>3. PICK pc \in {"package", "check"} : pc = IF Creates(g) THEN "package" ELSE "check"
    OBVIOUS
  <2>4. /\ todo \in Seq({Models, Package, Module(f), Manifest(f)}) /\ Distinct(todo)
        /\ \A p \in ToSet(todo) : ~Exists(p)
        /\ \A i \in 1..Len(todo) : todo[i] = Manifest(f) => i = Len(todo)
        /\ Manifest(f) \in ToSet(todo) => Module(f) \in ToSet(todo)
    BY <1>1, <1>4, <2>1, PlannedFiles
  <2>5. {Models, Package, Module(f), Manifest(f)} \subseteq Paths
    BY <1>1, PathsApart
  <2>6. ToSet(todo) \subseteq Paths
    BY <2>4, <2>5 DEF ToSet
  <2>7. todo \in Seq(Paths \union SettingsFiles)
    BY <2>4, <2>5
  <2>8. \A p \in ToSet(todo) :
          Original(g, p) = IF Creates(g) /\ p = Models THEN Text(Rendered(g))
                           ELSE Text(Absent)
    BY <2>4 DEF Original, Exists
  <2>9. \A p \in ToSet(todo) : Original(g, p) \in Texts
    <3>1. Text(Rendered(g)) \in Texts /\ Text(Absent) \in Texts
      BY DEF Text, Texts, Rendered, Absent, FileKinds
    <3> QED
      BY <2>8, <3>1
  <2>10. originals \in SUBSET [path : Paths, text : Texts]
    BY <2>2, <2>6, <2>9
  <2>11. frame' = [frame EXCEPT ![g] = [@ EXCEPT
           !.pc = pc, !.todo = todo, !.originals = originals]]
    BY <1>4, <2>1, <2>2, <2>3 DEF Plan
  <2>12. Becomes(g, pc, todo, originals, frame[g].undo, frame[g].held, frame[g].spoiled)
    BY <1>1, <2>7, <2>10, <2>11, PlanSet DEF Points
  <2>13. /\ FramesOK' /\ \A h \in Commands \ {g} : frame'[h] = frame[h]
         /\ frame'[g].pc = pc /\ frame'[g].undo = frame[g].undo /\ frame'[g].todo = todo
         /\ frame'[g].originals = originals /\ frame'[g].spoiled = frame[g].spoiled
    BY <2>12 DEF Becomes
  <2>14. /\ frame[g].undo = << >> /\ frame[g].undo \in Seq(Blueprinted \union Dirs)
         /\ ToSet(frame[g].undo) = {}
    BY <1>2 DEF BlueprintShape, At, ToSet
  <2>15. Feature(g)' = f /\ (Creates(g)' <=> Creates(g))
    BY <1>2 DEF Feature, Creates
  <2>16. Planning(g)'
    <3>1. ASSUME NEW p \in ToSet(todo)
          PROVE  \E o \in originals : o.path = p
      <4>1. PICK o : o = [path |-> p, text |-> Original(g, p)]
        OBVIOUS
      <4>2. o \in originals /\ o.path = p
        BY <2>2, <4>1
      <4> QED
        BY <4>2
    <3>2. \A o \in originals :
            o.text = IF Creates(g) /\ o.path = Models THEN Text(Rendered(g)) ELSE Text(Absent)
      BY <2>2, <2>8
    <3>3. Text(Rendered(g))' = Text(Rendered(g)) /\ Text(Absent)' = Text(Absent)
      BY DEF Text, Rendered, Absent
    <3> QED
      BY <2>4, <2>13, <2>14, <2>15, <3>1, <3>2, <3>3 DEF Planning
  <2>17. BlueprintShape(g)'
    <3>1. pc \in BlueprintPoints /\ pc \notin {"entity", "mkdir", "held"}
      BY DEF BlueprintPoints, Preparing
    <3>2. Distinct(frame'[g].undo)
      BY <2>13, <2>14 DEF Distinct
    <3>3. pc = "package" => Creates(g)
      BY <2>3
    <3>4. /\ frame'[g].undo = << >> /\ ToSet(frame'[g].undo) = {}
          /\ frame'[g].undo \in Seq(Blueprinted \union Dirs)
      BY <2>13, <2>14
    <3>5. Planning(g)' /\ frame'[g].pc = pc /\ (Creates(g)' <=> Creates(g))
      BY <2>13, <2>15, <2>16
    <3> QED
      BY <3>1, <3>2, <3>3, <3>4, <3>5 DEF BlueprintShape
  <2>18. Rests(g)
    <3>1. ~At(g, "held") /\ ~At(g, "held")' /\ ~At(g, "write") /\ ~Stays(g)
      BY <1>2, <2>13 DEF At, Stays
    <3>2. \A p \in Blueprinted : ~Owes(g, p) /\ ~Owes(g, p)' /\ ~HeldAt(g, p)'
      BY <2>13, <2>14, <3>1 DEF Owes, HeldAt
    <3> QED
      BY <1>2, <2>13, <3>1, <3>2 DEF Rests
  <2> QED
    BY <1>1, <1>2, <2>13, <2>17, <2>18 DEF Turn, Effects, TreeOK, RequestsOK
<1> QED
  BY <1>3, <1>4

\* The package of features, where there is none yet.
LEMMA DirsMade ==
  ASSUME Types, NEW g \in Blueprints, BlueprintShape(g), MakeDirs(g)
  PROVE  BlueprintShape(g)' /\ Effects(g) /\ Turn(g)
<1> DEFINE f == Feature(g)
<1>1. FramesOK /\ g \in Commands /\ f \in Features /\ RequestsOK /\ TreeOK
  BY Kinds DEF Types
<1>2. UNCHANGED <<tree, attic, request>> /\ At(g, "mkdir")
  BY DEF MakeDirs
<1>3. CASE Goto(g, "write")
  <2>1. Becomes(g, "write", frame[g].todo, frame[g].originals, frame[g].undo,
                frame[g].held, frame[g].spoiled)
    BY <1>1, <1>3, Goes DEF Points
  <2>2. Leads(frame[g].pc, "write") /\ ~At(g, "held")
    BY <1>2 DEF Leads, At
  <2> QED
    BY <1>2, <2>1, <2>2, GoesResting
<1>4. CASE frame' = [frame EXCEPT ![g] = [@ EXCEPT
             !.pc = "write", !.undo = Append(frame[g].undo, FeaturesDir)]]
  <2>1. Becomes(g, "write", frame[g].todo, frame[g].originals,
                Append(frame[g].undo, FeaturesDir), frame[g].held, frame[g].spoiled)
    BY <1>1, <1>4, UndoSet DEF Points, Dirs
  <2>2. /\ FramesOK' /\ \A h \in Commands \ {g} : frame'[h] = frame[h]
        /\ frame'[g].pc = "write" /\ frame'[g].undo = Append(frame[g].undo, FeaturesDir)
        /\ frame'[g].todo = frame[g].todo /\ frame'[g].originals = frame[g].originals
        /\ frame'[g].spoiled = frame[g].spoiled
    BY <2>1 DEF Becomes
  <2>3. /\ frame[g].undo \in Seq(Blueprinted \union Dirs) /\ Distinct(frame[g].undo)
        /\ ToSet(frame[g].undo) \subseteq {Models, Entity(f)} /\ Planning(g)
        /\ \A k \in Features : Manifest(k) \notin ToSet(frame[g].undo)
    BY <1>2 DEF BlueprintShape, At, Preparing
  <2>4. FeaturesDir \notin Blueprinted /\ Models \in Blueprinted /\ Entity(f) \in Blueprinted
    BY <1>1, PathsApart DEF Dirs
  <2>5. /\ frame'[g].undo \in Seq(Blueprinted \union Dirs) /\ Distinct(frame'[g].undo)
        /\ ToSet(frame'[g].undo) = ToSet(frame[g].undo) \union {FeaturesDir}
    <3>1. FeaturesDir \in Blueprinted \union Dirs /\ FeaturesDir \notin ToSet(frame[g].undo)
      BY <2>3, <2>4 DEF Dirs
    <3> QED
      BY <2>2, <2>3, <3>1, AppendTo
  <2>6. Feature(g)' = f /\ (Creates(g)' <=> Creates(g))
    BY <1>2 DEF Feature, Creates
  <2>7. Planning(g)'
    <3>1. FeaturesDir \notin ToSet(frame[g].todo)
      <4>1. frame[g].todo \in Seq(Blueprinted)
        BY <1>1, <2>3, PathsApart DEF Planning
      <4> QED
        BY <2>4, <4>1 DEF ToSet
    <3> QED
      BY <2>2, <2>3, <2>5, <2>6, <3>1 DEF Planning
  <2>8. \A k \in Features : Manifest(k) \notin ToSet(frame'[g].undo)
    BY <2>3, <2>4, <2>5, PathsApart
  <2>9. BlueprintShape(g)'
    BY <2>2, <2>5, <2>7, <2>8 DEF BlueprintShape, BlueprintPoints, Preparing, Undoing
  <2>10. Rests(g)
    <3>1. ~At(g, "held") /\ ~At(g, "held")' /\ ~At(g, "write") /\ ~Stays(g)
      BY <1>2, <2>2 DEF At, Stays
    <3>2. /\ frame[g].pc \in Preparing \union Undoing \union {"write"}
          /\ frame'[g].pc \in Preparing \union Undoing \union {"write"}
      BY <1>2, <2>2 DEF At, Preparing
    <3>3. \A p \in Blueprinted : (Owes(g, p)' <=> Owes(g, p)) /\ ~HeldAt(g, p)'
      BY <2>4, <2>5, <3>1, <3>2 DEF Owes, HeldAt
    <3> QED
      BY <1>2, <2>2, <3>1, <3>3 DEF Rests
  <2> QED
    BY <1>1, <1>2, <2>2, <2>9, <2>10 DEF Turn, Effects, TreeOK, RequestsOK
<1> QED
  BY <1>3, <1>4 DEF MakeDirs

\* What the plan found where the next file goes.
LEMMA OriginalFound ==
  ASSUME Types, NEW g \in Blueprints, Planning(g), NEW p \in ToSet(frame[g].todo)
  PROVE  OriginalOf(g, p) = Text(Absent) <=> ~(Creates(g) /\ p = Models)
<1>1. PICK o \in frame[g].originals : o.path = p
  BY DEF Planning
<1>2. PICK c : c = CHOOSE o2 \in frame[g].originals : o2.path = p
  OBVIOUS
<1>3. c \in frame[g].originals /\ c.path = p
  BY <1>1, <1>2
<1>4. OriginalOf(g, p) = c.text
  BY <1>2 DEF OriginalOf
<1>5. Text(Rendered(g)) # Text(Absent)
  BY DEF Text, Rendered, Absent
<1> QED
  BY <1>3, <1>4, <1>5 DEF Planning

\* The next file: one that is there as foreseen is left, ...
LEMMA FileSkipped ==
  ASSUME Types, NEW g \in Blueprints, BlueprintShape(g), Write(g),
         OriginalOf(g, Head(frame[g].todo)) # Text(Absent)
  PROVE  BlueprintShape(g)' /\ Effects(g) /\ Turn(g)
<1> DEFINE f == Feature(g)
           p == Head(frame[g].todo)
<1>1. FramesOK /\ g \in Commands /\ f \in Features /\ RequestsOK /\ TreeOK
  BY Kinds DEF Types
<1>2. UNCHANGED <<tree, attic, request>> /\ At(g, "write") /\ frame[g].todo # << >>
  BY DEF Write, files
<1>3. PICK rest : rest = [frame[g] EXCEPT !.todo = Tail(@)]
  OBVIOUS
<1>4. frame' = [frame EXCEPT ![g] = rest]
  BY <1>3 DEF Write
<1>5. Becomes(g, frame[g].pc, Tail(frame[g].todo), frame[g].originals,
              frame[g].undo, frame[g].held, frame[g].spoiled)
  BY <1>1, <1>2, <1>3, <1>4, TodoSet
<1>6. /\ FramesOK' /\ \A h \in Commands \ {g} : frame'[h] = frame[h]
      /\ frame'[g].pc = "write" /\ frame'[g].undo = frame[g].undo
      /\ frame'[g].todo = Tail(frame[g].todo) /\ frame'[g].originals = frame[g].originals
      /\ frame'[g].spoiled = frame[g].spoiled
  BY <1>2, <1>5 DEF Becomes, At
<1>7. /\ frame[g].undo \in Seq(Blueprinted \union Dirs) /\ Distinct(frame[g].undo)
      /\ Planning(g) /\ \A k \in Features : Manifest(k) \notin ToSet(frame[g].undo)
  BY <1>2 DEF BlueprintShape, At
<1>8. PICK S : S = {Models, Package, Module(f), Manifest(f)}
  OBVIOUS
<1>9. frame[g].todo \in Seq(S) /\ Distinct(frame[g].todo)
  BY <1>7, <1>8 DEF Planning
<1>10. PICK t \in Seq(S) : t = Tail(frame[g].todo)
  BY <1>2, <1>9, TailSet
<1>11. /\ p \in ToSet(frame[g].todo) /\ ToSet(frame[g].todo) = ToSet(t) \union {p}
       /\ Len(t) = Len(frame[g].todo) - 1 /\ Len(frame[g].todo) \in Nat \ {0}
       /\ \A i \in 1..(Len(frame[g].todo) - 1) : t[i] = frame[g].todo[i + 1]
       /\ Distinct(t)
  BY <1>2, <1>9, <1>10, TailSet
<1>12. Creates(g) /\ p = Models
  BY <1>7, <1>11, OriginalFound
<1>13. Feature(g)' = f /\ (Creates(g)' <=> Creates(g))
  BY <1>2 DEF Feature, Creates
<1>14. \A i \in 1..Len(t) : t[i] = Manifest(f) => i = Len(t)
  <2>1. \A i \in 1..Len(frame[g].todo) : frame[g].todo[i] = Manifest(f) =>
          i = Len(frame[g].todo)
    BY <1>7 DEF Planning
  <2>2. PICK n \in Nat : n = Len(t) /\ Len(frame[g].todo) = n + 1
    BY <1>11
  <2>3. \A i \in 1..n : i + 1 \in 1..(n + 1) /\ t[i] = frame[g].todo[i + 1]
    BY <1>11, <2>2
  <2> QED
    BY <2>1, <2>2, <2>3
<1>15. Manifest(f) \in ToSet(t) => Module(f) \in ToSet(t) \union ToSet(frame[g].undo)
  BY <1>1, <1>7, <1>11, <1>12, PathsApart DEF Planning
<1>16. Planning(g)'
  <2>1. \A q \in ToSet(t) \intersect ToSet(frame[g].undo) : Creates(g) /\ q = Models
    BY <1>7, <1>11 DEF Planning
  <2>2. \A q \in ToSet(t) : \E o \in frame[g].originals : o.path = q
    BY <1>7, <1>11 DEF Planning
  <2>3. \A o \in frame[g].originals :
          o.text = IF Creates(g) /\ o.path = Models THEN Text(Rendered(g)) ELSE Text(Absent)
    BY <1>7 DEF Planning
  <2>4. Text(Rendered(g))' = Text(Rendered(g)) /\ Text(Absent)' = Text(Absent)
    BY DEF Text, Rendered, Absent
  <2>5. t \in Seq({Models, Package, Module(f), Manifest(f)}) /\ frame'[g].todo = t
    BY <1>6, <1>8, <1>10
  <2> QED
    BY <1>6, <1>11, <1>13, <1>14, <1>15, <2>1, <2>2, <2>3, <2>4, <2>5 DEF Planning
<1>17. BlueprintShape(g)'
  BY <1>6, <1>7, <1>16 DEF BlueprintShape, BlueprintPoints, Preparing, Undoing
<1>18. Rests(g)
  <2>1. ~At(g, "held") /\ ~At(g, "held")' /\ ~Stays(g)
    BY <1>2, <1>6 DEF At, Stays
  <2>2. \A q \in Blueprinted : (Owes(g, q)' <=> Owes(g, q)) /\ ~HeldAt(g, q)'
    BY <1>2, <1>6, <2>1 DEF Owes, HeldAt, At
  <2> QED
    BY <1>2, <1>6, <2>1, <2>2 DEF Rests
<1> QED
  BY <1>1, <1>2, <1>6, <1>17, <1>18 DEF Turn, Effects, TreeOK, RequestsOK

\* ... another is published, the manifest after all others.
LEMMA FilePublished ==
  ASSUME Types, NEW g \in Blueprints, BlueprintShape(g), Write(g),
         OriginalOf(g, Head(frame[g].todo)) = Text(Absent), ~Exists(Head(frame[g].todo))
  PROVE  BlueprintShape(g)' /\ Effects(g) /\ Turn(g)
<1> DEFINE f == Feature(g)
<1>0. PICK p : p = Head(frame[g].todo)
  OBVIOUS
<1>1. FramesOK /\ g \in Commands /\ f \in Features /\ RequestsOK /\ TreeOK
  BY Kinds DEF Types
<1>2. /\ At(g, "write") /\ frame[g].todo # << >> /\ Published(p, Rendered(g))
      /\ UNCHANGED <<attic, request>>
  BY <1>0 DEF Write
<1>3. PICK rest : rest = [frame[g] EXCEPT !.todo = Tail(@)]
  OBVIOUS
<1>4. frame' = [frame EXCEPT ![g] = [rest EXCEPT !.undo = Append(frame[g].undo, p)]]
  BY <1>0, <1>3 DEF Write
<1>5. /\ frame[g].undo \in Seq(Blueprinted \union Dirs) /\ Distinct(frame[g].undo)
      /\ Planning(g) /\ \A k \in Features : Manifest(k) \notin ToSet(frame[g].undo)
  BY <1>2 DEF BlueprintShape, At
<1>6. PICK S : S = {Models, Package, Module(f), Manifest(f)}
  OBVIOUS
<1>7. frame[g].todo \in Seq(S) /\ Distinct(frame[g].todo)
  BY <1>5, <1>6 DEF Planning
<1>8. PICK t \in Seq(S) : t = Tail(frame[g].todo)
  BY <1>2, <1>7, TailSet
<1>9. /\ p \in ToSet(frame[g].todo) /\ ToSet(frame[g].todo) = ToSet(t) \union {p}
      /\ Len(t) = Len(frame[g].todo) - 1 /\ Len(frame[g].todo) \in Nat \ {0}
      /\ \A i \in 1..(Len(frame[g].todo) - 1) : t[i] = frame[g].todo[i + 1]
      /\ Distinct(t) /\ p \notin ToSet(t) /\ p \in S /\ p = frame[g].todo[1]
  BY <1>0, <1>2, <1>7, <1>8, TailSet
<1>10. S \subseteq Blueprinted /\ S \subseteq Paths
  BY <1>1, <1>6, PathsApart
<1>11. Becomes(g, "write", t, frame[g].originals, Append(frame[g].undo, p),
               frame[g].held, frame[g].spoiled)
  <2>1. p \in Paths /\ frame[g].pc = "write" /\ t = Tail(frame[g].todo)
    BY <1>2, <1>8, <1>9, <1>10 DEF At
  <2>2. Becomes(g, frame[g].pc, Tail(frame[g].todo), frame[g].originals,
                Append(frame[g].undo, p), frame[g].held, frame[g].spoiled)
    BY <1>1, <1>2, <1>3, <1>4, <2>1, TodoUndoSet
  <2> QED
    BY <2>1, <2>2
<1>12. p \notin ToSet(frame[g].undo)
  <2>1. ~(Creates(g) /\ p = Models)
    BY <1>0, <1>5, <1>9, OriginalFound
  <2> QED
    BY <1>5, <1>9, <2>1 DEF Planning
<1>13. PICK n \in Nat : n = Len(t) /\ Len(frame[g].todo) = n + 1
  BY <1>9
<1>14. \A i \in 1..(n + 1) : frame[g].todo[i] = Manifest(f) => i = n + 1
  BY <1>5, <1>13 DEF Planning
<1>15. p = Manifest(f) => t = << >> /\ Module(f) \in ToSet(frame[g].undo)
  <2>1. SUFFICES ASSUME p = Manifest(f)
                 PROVE  t = << >> /\ Module(f) \in ToSet(frame[g].undo)
    OBVIOUS
  <2>2. n = 0 /\ t = << >>
    <3>1. 1 \in 1..(n + 1) /\ frame[g].todo[1] = Manifest(f)
      BY <1>9, <1>13, <2>1
    <3>2. n = 0
      BY <1>13, <1>14, <3>1
    <3>3. Len(t) = 0
      BY <1>13, <3>2
    <3> QED
      BY <1>8, <3>2, <3>3
  <2>3. ToSet(t) = {}
    BY <2>2 DEF ToSet
  <2>4. Module(f) # p
    BY <1>1, <2>1, PathsApart
  <2>5. Module(f) \in ToSet(frame[g].todo) \union ToSet(frame[g].undo)
    BY <1>5, <1>9, <2>1 DEF Planning
  <2> QED
    BY <1>9, <2>2, <2>3, <2>4, <2>5
<1>16. Announces(g, p, "write", t)
  <2>1. SUFFICES ASSUME NEW k \in Features, p = Manifest(k)
                 PROVE  Owes(g, Module(k)) /\ t = << >>
    BY DEF Announces
  <2>2. k = f
    BY <1>1, <1>6, <1>9, <2>1, PathsApart
  <2>3. ~HeldAt(g, Module(k))
    BY <1>2 DEF HeldAt, At
  <2> QED
    BY <1>2, <1>15, <2>1, <2>2, <2>3 DEF Owes, At
<1>17. Publishable(g, p, "write", t)
  <2>1. /\ ~Exists(p) /\ frame[g].pc \in {"package", "entity", "write"}
        /\ tree' = [tree EXCEPT ![p] = Rendered(g)]
    BY <1>0, <1>2 DEF Published, At
  <2> QED
    BY <1>2, <1>11, <1>12, <1>16, <2>1 DEF Publishable
<1>18. /\ Effects(g) /\ Turn(g)
       /\ frame'[g].undo \in Seq(Blueprinted \union Dirs) /\ Distinct(frame'[g].undo)
       /\ ToSet(frame'[g].undo) = ToSet(frame[g].undo) \union {p}
  <2>1. p \in Blueprinted /\ "write" \in {"entity", "check", "write"}
    BY <1>9, <1>10
  <2> QED
    BY <1>17, <2>1, PublishingOwes
<1>19. /\ frame'[g].pc = "write" /\ frame'[g].todo = t
       /\ frame'[g].originals = frame[g].originals
  BY <1>11 DEF Becomes
<1>20. Feature(g)' = f /\ (Creates(g)' <=> Creates(g))
  BY <1>2 DEF Feature, Creates
<1>21. Planning(g)'
  <2>1. \A q \in ToSet(t) \intersect (ToSet(frame[g].undo) \union {p}) :
          Creates(g) /\ q = Models
    BY <1>5, <1>9 DEF Planning
  <2>2. \A q \in ToSet(t) : \E o \in frame[g].originals : o.path = q
    BY <1>5, <1>9 DEF Planning
  <2>3. \A o \in frame[g].originals :
          o.text = IF Creates(g) /\ o.path = Models THEN Text(Rendered(g)) ELSE Text(Absent)
    BY <1>5 DEF Planning
  <2>4. Text(Rendered(g))' = Text(Rendered(g)) /\ Text(Absent)' = Text(Absent)
    BY DEF Text, Rendered, Absent
  <2>5. \A i \in 1..Len(t) : t[i] = Manifest(f) => i = Len(t)
    <3>1. \A i \in 1..n : i + 1 \in 1..(n + 1) /\ t[i] = frame[g].todo[i + 1]
      BY <1>9, <1>13
    <3> QED
      BY <1>13, <1>14, <3>1
  <2>6. Manifest(f) \in ToSet(t) =>
          Module(f) \in ToSet(t) \union (ToSet(frame[g].undo) \union {p})
    BY <1>5, <1>9 DEF Planning
  <2>7. t \in Seq({Models, Package, Module(f), Manifest(f)})
    BY <1>6, <1>8
  <2> QED
    BY <1>9, <1>18, <1>19, <1>20, <2>1, <2>2, <2>3, <2>4, <2>5, <2>6, <2>7 DEF Planning
<1>22. t # << >> => \A k \in Features : Manifest(k) \notin ToSet(frame'[g].undo)
  BY <1>5, <1>16, <1>18 DEF Announces
<1> QED
  BY <1>18, <1>19, <1>21, <1>22 DEF BlueprintShape, BlueprintPoints, Preparing, Undoing

\* So the next file is left, published, or found to be taken.
LEMMA FileWritten ==
  ASSUME Types, NEW g \in Blueprints, BlueprintShape(g), Write(g)
  PROVE  BlueprintShape(g)' /\ Effects(g) /\ Turn(g)
<1>1. CASE OriginalOf(g, Head(frame[g].todo)) = Text(Absent) /\ Exists(Head(frame[g].todo))
  <2>1. FramesOK /\ g \in Commands
    BY Kinds DEF Types
  <2>2. /\ Goto(g, "rollback") /\ UNCHANGED <<files, request>>
        /\ At(g, "write") /\ frame[g].todo # << >>
    BY <1>1 DEF Write
  <2>3. Becomes(g, "rollback", frame[g].todo, frame[g].originals, frame[g].undo,
                frame[g].held, frame[g].spoiled)
    BY <2>1, <2>2, Goes DEF Points
  <2>4. UNCHANGED <<tree, request>> /\ attic \subseteq attic' /\ ~At(g, "held")
    BY <2>2 DEF files, At
  <2>5. Leads(frame[g].pc, "rollback")
    BY <2>2 DEF Leads, At
  <2> QED
    BY <2>2, <2>3, <2>4, <2>5, GoesResting
<1> QED
  BY <1>1, FileSkipped, FilePublished

-----------------------------------------------------------------------------
(* Compensation.                                                            *)

\* The newest thing to take back is done with.
LEMMA LessToUndo ==
  ASSUME Types, NEW g \in Blueprints, BlueprintShape(g), frame[g].pc \in Undoing,
         frame[g].undo # << >>, frame'[g].pc = "rollback",
         frame'[g].undo = Front(frame[g].undo)
  PROVE  /\ BlueprintShape(g)'
         /\ \A q \in Blueprinted :
              /\ Owes(g, q)' <=> q \in ToSet(frame[g].undo) /\ q # Newest(g)
              /\ Owes(g, q)' => Owes(g, q)
              /\ Owes(g, q) => Owes(g, q)' \/ (At(g, "rollback") /\ q = Newest(g))
              /\ ~HeldAt(g, q)'
         /\ ~At(g, "held")' /\ ~Stays(g) /\ ~At(g, "write")
<1>1. /\ frame[g].undo \in Seq(Blueprinted \union Dirs) /\ Distinct(frame[g].undo)
      /\ \A k \in Features : Manifest(k) \notin ToSet(frame[g].undo)
  BY DEF BlueprintShape
<1>2. /\ frame'[g].undo \in Seq(Blueprinted \union Dirs) /\ Distinct(frame'[g].undo)
      /\ ToSet(frame'[g].undo) = ToSet(frame[g].undo) \ {Newest(g)}
      /\ Newest(g) \in ToSet(frame[g].undo)
  BY <1>1, FrontSet DEF Newest
<1>3. BlueprintShape(g)'
  BY <1>1, <1>2 DEF BlueprintShape, BlueprintPoints, Preparing, Undoing
<1>4. ~At(g, "held")' /\ ~Stays(g) /\ ~At(g, "write")
  BY DEF At, Stays, Undoing
<1>5. ASSUME NEW q \in Blueprinted
      PROVE  /\ Owes(g, q)' <=> q \in ToSet(frame[g].undo) /\ q # Newest(g)
             /\ Owes(g, q)' => Owes(g, q)
             /\ Owes(g, q) => Owes(g, q)' \/ (At(g, "rollback") /\ q = Newest(g))
             /\ ~HeldAt(g, q)'
  <2>1. ~HeldAt(g, q)'
    BY <1>4 DEF HeldAt
  <2>2. Owes(g, q)' <=> q \in ToSet(frame[g].undo) /\ q # Newest(g)
    BY <1>2, <2>1 DEF Owes, Undoing
  <2>3. Owes(g, q) <=> q \in ToSet(frame[g].undo) /\ ~(At(g, "held") /\ q = Newest(g))
    BY DEF Owes, HeldAt
  <2>4. At(g, "held") \/ At(g, "rollback")
    BY DEF At, Undoing
  <2> QED
    BY <2>1, <2>2, <2>3, <2>4
<1> QED
  BY <1>3, <1>4, <1>5

\* A file is renamed into the quarantine, or is not there any more.
LEMMA Detached ==
  ASSUME Types, NEW g \in Blueprints, BlueprintShape(g), Detach(g)
  PROVE  BlueprintShape(g)' /\ Effects(g) /\ Turn(g)
<1>1. FramesOK /\ g \in Commands /\ RequestsOK /\ TreeOK
  BY Kinds DEF Types
<1>2. /\ At(g, "rollback") /\ frame[g].undo # << >> /\ Newest(g) \in Paths
      /\ UNCHANGED attic /\ UNCHANGED request
  BY DEF Detach, files
<1>3. /\ frame[g].undo \in Seq(Blueprinted \union Dirs) /\ Distinct(frame[g].undo)
      /\ \A k \in Features : Manifest(k) \notin ToSet(frame[g].undo)
  BY <1>2 DEF BlueprintShape, At, Undoing
<1>4. Newest(g) \in ToSet(frame[g].undo) /\ Newest(g) \in Blueprinted
  <2>1. Last(frame[g].undo) \in ToSet(frame[g].undo)
    BY <1>2, <1>3, FrontSet
  <2>2. \A q \in ToSet(frame[g].undo) : q \in Blueprinted \union Dirs
    BY <1>3 DEF ToSet
  <2> QED
    BY <1>2, <2>1, <2>2, PathsApart DEF Newest
<1>5. frame[g].pc \in Undoing
  BY <1>2 DEF At, Undoing
<1>6. CASE Exists(Newest(g))
  <2>1. /\ tree' = [tree EXCEPT ![Newest(g)] = Absent]
        /\ frame' = [frame EXCEPT ![g] = [@ EXCEPT !.pc = "held", !.held = tree[Newest(g)]]]
    BY <1>6 DEF Detach
  <2>2. tree[Newest(g)] \in Files
    BY <1>1, <1>2 DEF TreeOK
  <2>3. Becomes(g, "held", frame[g].todo, frame[g].originals, frame[g].undo,
                tree[Newest(g)], frame[g].spoiled)
    BY <1>1, <2>1, <2>2, HeldSet DEF Points
  <2>4. /\ FramesOK' /\ \A h \in Commands \ {g} : frame'[h] = frame[h]
        /\ frame'[g].pc = "held" /\ frame'[g].undo = frame[g].undo
        /\ frame'[g].held = tree[Newest(g)] /\ frame'[g].spoiled = frame[g].spoiled
    BY <2>3 DEF Becomes
  <2>5. Newest(g)' = Newest(g) /\ At(g, "held")'
    BY <2>4 DEF Newest, At
  <2>6. BlueprintShape(g)'
    BY <1>2, <1>3, <1>4, <2>4, <2>5 DEF BlueprintShape, BlueprintPoints, Preparing, Undoing
  <2>7. \A q \in Blueprinted : Owes(g, q)' <=> Owes(g, q) /\ q # Newest(g)
    BY <1>2, <2>4, <2>5 DEF Owes, HeldAt, Undoing, At
  <2>8. Owes(g, Newest(g))
    BY <1>2, <1>4 DEF Owes, HeldAt, Undoing, At
  <2>9. \A k \in Features : Newest(g) # Manifest(k)
    BY <1>3, <1>4
  <2>10. Detaching(g, Newest(g))
    BY <1>2, <1>4, <1>6, <2>1, <2>4, <2>5, <2>7, <2>8, <2>9 DEF Detaching
  <2>11. TreeOK'
    BY <1>1, <2>1, RenderedFile DEF TreeOK
  <2>12. RequestsOK'
    BY <1>1, <1>2 DEF RequestsOK
  <2> QED
    BY <1>4, <2>4, <2>6, <2>10, <2>11, <2>12 DEF Effects, Turn
<1>7. CASE ~Exists(Newest(g))
  <2>1. Pop(g, "rollback") /\ UNCHANGED tree
    BY <1>7 DEF Detach, files
  <2>2. Becomes(g, "rollback", frame[g].todo, frame[g].originals, Front(frame[g].undo),
                Absent, frame[g].spoiled)
    BY <1>1, <1>2, <2>1, PopSet DEF Points
  <2>3. /\ FramesOK' /\ \A h \in Commands \ {g} : frame'[h] = frame[h]
        /\ frame'[g].pc = "rollback" /\ frame'[g].undo = Front(frame[g].undo)
        /\ frame'[g].spoiled = frame[g].spoiled
    BY <2>2 DEF Becomes
  <2>4. /\ BlueprintShape(g)'
        /\ \A q \in Blueprinted :
             /\ Owes(g, q)' => Owes(g, q)
             /\ Owes(g, q) => Owes(g, q)' \/ (At(g, "rollback") /\ q = Newest(g))
             /\ ~HeldAt(g, q)'
        /\ ~At(g, "held")' /\ ~Stays(g) /\ ~At(g, "write")
    BY <1>2, <1>5, <2>3, LessToUndo
  <2>5. tree[Newest(g)] = Absent /\ ~At(g, "held")
    BY <1>2, <1>7 DEF Exists, At
  <2>6. Rests(g)
    BY <1>2, <2>1, <2>3, <2>4, <2>5 DEF Rests
  <2> QED
    BY <1>1, <1>2, <2>1, <2>3, <2>4, <2>6 DEF Effects, Turn, TreeOK, RequestsOK
<1> QED
  BY <1>6, <1>7

\* What is in the quarantine is deleted, put back or kept.
LEMMA Resolved ==
  ASSUME Types, NEW g \in Blueprints, BlueprintShape(g), Resolve(g)
  PROVE  BlueprintShape(g)' /\ Effects(g) /\ Turn(g)
<1>1. FramesOK /\ g \in Commands /\ RequestsOK /\ TreeOK
  BY Kinds DEF Types
<1>2. At(g, "held") /\ Pop(g, "rollback") /\ UNCHANGED request
  BY DEF Resolve
<1>3. /\ frame[g].undo \in Seq(Blueprinted \union Dirs) /\ Distinct(frame[g].undo)
      /\ \A k \in Features : Manifest(k) \notin ToSet(frame[g].undo)
      /\ frame[g].undo # << >> /\ Newest(g) \in Blueprinted
  BY <1>2 DEF BlueprintShape, At, Undoing
<1>4. frame[g].pc \in Undoing
  BY <1>2 DEF At, Undoing
<1>5. Becomes(g, "rollback", frame[g].todo, frame[g].originals, Front(frame[g].undo),
              Absent, frame[g].spoiled)
  BY <1>1, <1>2, <1>3, PopSet DEF Points
<1>6. /\ FramesOK' /\ \A h \in Commands \ {g} : frame'[h] = frame[h]
      /\ frame'[g].pc = "rollback" /\ frame'[g].undo = Front(frame[g].undo)
      /\ frame'[g].spoiled = frame[g].spoiled
  BY <1>5 DEF Becomes
<1>7. /\ BlueprintShape(g)'
      /\ \A q \in Blueprinted :
           /\ Owes(g, q)' => Owes(g, q)
           /\ Owes(g, q) => Owes(g, q)' \/ (At(g, "rollback") /\ q = Newest(g))
           /\ ~HeldAt(g, q)'
      /\ ~At(g, "held")' /\ ~Stays(g) /\ ~At(g, "write")
  BY <1>3, <1>4, <1>6, LessToUndo
<1>8. ~At(g, "rollback")
  BY <1>2 DEF At
<1>9. \A q \in Blueprinted : Owes(g, q)' <=> Owes(g, q)
  BY <1>7, <1>8
<1>10. RequestsOK'
  BY <1>1, <1>2 DEF RequestsOK
<1>11. CASE UNCHANGED tree /\ attic \subseteq attic'
            /\ (frame[g].held.kind = "developer" =>
                  [path |-> Newest(g), file |-> frame[g].held] \in attic')
  <2>1. Rests(g)
    BY <1>6, <1>7, <1>9, <1>11 DEF Rests
  <2> QED
    BY <1>1, <1>6, <1>7, <1>10, <1>11, <2>1 DEF Effects, Turn, TreeOK
<1>12. CASE /\ ~IsOurs(g) /\ ~Exists(Newest(g)) /\ UNCHANGED attic
            /\ tree' = [tree EXCEPT ![Newest(g)] = frame[g].held]
  <2>1. frame[g].held \in Files
    BY <1>1 DEF FramesOK, Frames
  <2>2. TreeOK'
    BY <1>1, <1>12, <2>1 DEF TreeOK
  <2>3. Newest(g) \in ToSet(frame[g].undo)
    BY <1>3, FrontSet DEF Newest
  <2>4. \A k \in Features : Newest(g) # Manifest(k)
    BY <1>3, <2>3
  <2>5. HeldAt(g, Newest(g)) /\ frame[g].held # Rendered(g) /\ At(g, "rollback")'
    BY <1>2, <1>6, <1>12 DEF HeldAt, IsOurs, At
  <2>6. PuttingBack(g, Newest(g))
    BY <1>3, <1>6, <1>9, <1>12, <2>4, <2>5 DEF PuttingBack
  <2> QED
    BY <1>3, <1>6, <1>7, <1>10, <2>2, <2>6 DEF Effects, Turn
<1>13. CASE IsOurs(g)
  <2>1. UNCHANGED <<tree, attic>>
    BY <1>13 DEF Resolve
  <2>2. frame[g].held.kind # "developer"
    BY <1>1, <1>13, RenderedFile DEF IsOurs
  <2> QED
    BY <1>11, <2>1, <2>2
<1>14. CASE ~IsOurs(g) /\ Exists(Newest(g))
  <2>1. /\ attic' = attic \union {[path |-> Newest(g), file |-> frame[g].held]}
        /\ UNCHANGED tree
    BY <1>14 DEF Resolve
  <2> QED
    BY <1>11, <2>1
<1> QED
  BY <1>12, <1>13, <1>14 DEF Resolve

\* A directory goes, or stays; or a compensation fails.
LEMMA RolledOn ==
  ASSUME Types, NEW g \in Blueprints, BlueprintShape(g), RemoveDir(g) \/ DetachFails(g)
  PROVE  BlueprintShape(g)' /\ Effects(g) /\ Turn(g)
<1>1. FramesOK /\ g \in Commands /\ RequestsOK /\ TreeOK
  BY Kinds DEF Types
<1>2. /\ At(g, "rollback") /\ frame[g].undo # << >>
      /\ UNCHANGED tree /\ UNCHANGED attic /\ UNCHANGED request
  BY DEF RemoveDir, DetachFails, contents
<1>3. frame[g].pc \in Undoing
  BY <1>2 DEF At, Undoing
<1>4. PICK spoiled \in BOOLEAN, held \in Files :
        /\ Becomes(g, "rollback", frame[g].todo, frame[g].originals, Front(frame[g].undo),
                   held, spoiled)
        /\ frame[g].spoiled => spoiled
        /\ spoiled \/ Newest(g) \in Dirs
  <2>1. frame[g] \in Frames
    BY <1>1 DEF FramesOK
  <2>2. CASE RemoveDir(g)
    <3>1. Becomes(g, "rollback", frame[g].todo, frame[g].originals, Front(frame[g].undo),
                  Absent, frame[g].spoiled)
      BY <1>1, <1>2, <2>2, PopSet DEF Points, RemoveDir
    <3>2. frame[g].spoiled \in BOOLEAN /\ Absent \in Files
      BY <1>1, <2>1, RenderedFile DEF Frames
    <3> QED
      BY <2>2, <3>1, <3>2 DEF RemoveDir
  <2>3. CASE DetachFails(g)
    <3>1. frame' = [frame EXCEPT ![g] = [@ EXCEPT
            !.undo = Front(frame[g].undo), !.spoiled = TRUE]]
      BY <2>3 DEF DetachFails
    <3>2. Becomes(g, frame[g].pc, frame[g].todo, frame[g].originals,
                  Front(frame[g].undo), frame[g].held, TRUE)
      BY <1>1, <1>2, <3>1, SpoiledSet
    <3>3. frame[g].pc = "rollback" /\ frame[g].held \in Files
      BY <1>2, <2>1 DEF At, Frames
    <3> QED
      BY <3>2, <3>3
  <2> QED
    BY <2>2, <2>3
<1>5. /\ FramesOK' /\ \A h \in Commands \ {g} : frame'[h] = frame[h]
      /\ frame'[g].pc = "rollback" /\ frame'[g].undo = Front(frame[g].undo)
      /\ frame'[g].spoiled = spoiled
  BY <1>4 DEF Becomes
<1>6. /\ BlueprintShape(g)'
      /\ \A q \in Blueprinted :
           /\ Owes(g, q)' => Owes(g, q)
           /\ Owes(g, q) => Owes(g, q)' \/ (At(g, "rollback") /\ q = Newest(g))
           /\ ~HeldAt(g, q)'
      /\ ~At(g, "held")' /\ ~Stays(g) /\ ~At(g, "write")
  BY <1>2, <1>3, <1>5, LessToUndo
<1>7. \A q \in Blueprinted : Owes(g, q) => Owes(g, q)' \/ frame'[g].spoiled
  <2>1. Newest(g) \in Dirs => Newest(g) \notin Blueprinted
    BY PathsApart
  <2> QED
    BY <1>4, <1>5, <1>6, <2>1
<1>8. ~At(g, "held")
  BY <1>2 DEF At
<1>9. Rests(g)
  BY <1>2, <1>4, <1>5, <1>6, <1>7, <1>8 DEF Rests
<1> QED
  BY <1>1, <1>2, <1>5, <1>6, <1>9 DEF Effects, Turn, TreeOK, RequestsOK

\* The recipe is read.
LEMMA StepsSet ==
  ASSUME Types, NEW g \in Commands,
         frame' = [frame EXCEPT ![g] = [@ EXCEPT !.pc = "save", !.steps = recipe]]
  PROVE  /\ Becomes(g, "save", frame[g].todo, frame[g].originals, frame[g].undo,
                    frame[g].held, frame[g].spoiled)
         /\ frame'[g].steps = recipe
<1>0. FramesOK
  BY DEF Types
<1>1. frame[g] \in Frames
  BY <1>0 DEF FramesOK
<1>2. PICK f : f = [frame[g] EXCEPT !.pc = "save", !.steps = recipe]
  OBVIOUS
<1>3. f = [pc |-> "save", todo |-> frame[g].todo, originals |-> frame[g].originals,
           undo |-> frame[g].undo, held |-> frame[g].held,
           spoiled |-> frame[g].spoiled, entries |-> frame[g].entries,
           composed |-> frame[g].composed, steps |-> recipe]
  BY <1>1, <1>2 DEF Frames
<1>4. f \in Frames
  BY <1>1, <1>3 DEF Frames, Points, Types
<1>5. frame' = [frame EXCEPT ![g] = f]
  BY <1>2
<1>6. FramesOK' /\ frame'[g] = f /\ \A h \in Commands \ {g} : frame'[h] = frame[h]
  BY <1>0, <1>4, <1>5, FrameSet
<1> QED
  BY <1>3, <1>6 DEF Becomes

\* A command records itself, or fails to.
LEMMA RecordMoves ==
  ASSUME Types, NEW g \in Commands, Record(g)
  PROVE  /\ UNCHANGED <<tree, attic, request, removed, mine, late>>
         /\ frame[g].pc \in {"load", "save"}
         /\ \E pc \in {"save", "done", "unrecorded"} :
              /\ Becomes(g, pc, frame[g].todo, frame[g].originals, frame[g].undo,
                         frame[g].held, frame[g].spoiled)
              /\ Leads(frame[g].pc, pc)
<1>1. FramesOK
  BY DEF Types
<1>2. CASE Load(g)
  BY <1>2, StepsSet DEF Load, files, At, Leads
<1>3. CASE Save(g)
  BY <1>1, <1>3, Goes DEF Save, files, At, Leads, Points
<1>4. CASE RecordFails(g)
  BY <1>1, <1>4, Goes DEF RecordFails, contents, At, Leads, Points
<1> QED
  BY <1>2, <1>3, <1>4 DEF Record

\* A command is killed.
LEMMA KilledMoves ==
  ASSUME Types, NEW g \in Commands, Killed(g)
  PROVE  /\ UNCHANGED <<tree, request, removed, mine, late>> /\ attic \subseteq attic'
         /\ At(g, "held") => [path |-> Newest(g), file |-> frame[g].held] \in attic'
         /\ Becomes(g, "killed", frame[g].todo, frame[g].originals, frame[g].undo,
                    frame[g].held, frame[g].spoiled)
         /\ frame[g].pc \notin {"plan", "refused", "done", "unrecorded", "killed"}
<1>1. FramesOK
  BY DEF Types
<1>2. /\ Goto(g, "killed") /\ UNCHANGED <<tree, request, developer, late>>
      /\ attic' = IF At(g, "held")
              THEN attic \union {[path |-> Newest(g), file |-> frame[g].held]}
              ELSE attic
      /\ frame[g].pc \notin {"plan", "refused", "done", "unrecorded", "killed"}
  BY DEF Killed
<1>3. attic \subseteq attic' /\
      (At(g, "held") => [path |-> Newest(g), file |-> frame[g].held] \in attic')
  BY <1>2
<1>4. Becomes(g, "killed", frame[g].todo, frame[g].originals, frame[g].undo,
              frame[g].held, frame[g].spoiled)
  BY <1>1, <1>2, Goes DEF Points
<1> QED
  BY <1>2, <1>3, <1>4 DEF developer

\* What a blueprint does, recording included.
BlueprintActs(g) == g \in Blueprints /\ (BlueprintStep(g) \/ Record(g) \/ Killed(g))

\* Whatever a blueprint does keeps its shape and has one of the effects.
LEMMA BlueprintEffects ==
  ASSUME Types, NEW g \in Commands, BlueprintActs(g), BlueprintShape(g)
  PROVE  BlueprintShape(g)' /\ Effects(g) /\ Turn(g)
<1>1. g \in Blueprints
  BY DEF BlueprintActs
<1>2. CASE Record(g)
  <2>1. PICK pc \in {"save", "done", "unrecorded"} :
          /\ Becomes(g, pc, frame[g].todo, frame[g].originals, frame[g].undo,
                     frame[g].held, frame[g].spoiled)
          /\ Leads(frame[g].pc, pc)
    BY <1>2, RecordMoves
  <2>2. UNCHANGED <<tree, attic, request>> /\ ~At(g, "held")
    BY <1>2, RecordMoves DEF At
  <2> QED
    BY <1>1, <2>1, <2>2, GoesResting
<1>3. CASE Killed(g)
  <2>1. Leads(frame[g].pc, "killed")
    BY DEF Leads
  <2>2. /\ UNCHANGED <<tree, request>> /\ attic \subseteq attic'
        /\ At(g, "held") => [path |-> Newest(g), file |-> frame[g].held] \in attic'
        /\ Becomes(g, "killed", frame[g].todo, frame[g].originals, frame[g].undo,
                   frame[g].held, frame[g].spoiled)
    BY <1>3, KilledMoves
  <2> QED
    BY <1>1, <2>1, <2>2, GoesResting
<1>4. CASE PlanRefused(g) \/ Check(g) \/ Applied(g) \/ RolledBack(g) \/ WriteFails(g)
  BY <1>1, <1>4, BlueprintGoesOn
<1>5. CASE Plan(g)
  BY <1>1, <1>5, PlanMade
<1>6. CASE WritePackage(g) \/ WriteEntity(g)
  BY <1>1, <1>6, EntityWritten
<1>7. CASE MakeDirs(g)
  BY <1>1, <1>7, DirsMade
<1>8. CASE Write(g)
  BY <1>1, <1>8, FileWritten
<1>9. CASE Detach(g)
  BY <1>1, <1>9, Detached
<1>10. CASE Resolve(g)
  BY <1>1, <1>10, Resolved
<1>11. CASE RemoveDir(g) \/ DetachFails(g)
  BY <1>1, <1>11, RolledOn
<1> QED
  BY <1>2, <1>3, <1>4, <1>5, <1>6, <1>7, <1>8, <1>9, <1>10, <1>11
     DEF BlueprintActs, BlueprintStep

\* What a blueprint does leaves the developer alone.
LEMMA BlueprintFrame ==
  ASSUME Types, NEW g \in Commands, BlueprintActs(g)
  PROVE  UNCHANGED <<request, removed, mine>>
<1>1. CASE Record(g) \/ Killed(g)
  BY <1>1, RecordMoves, KilledMoves
<1>2. CASE BlueprintStep(g)
  BY <1>2 DEF BlueprintStep, Plan, PlanRefused, WritePackage, WriteEntity, Publishes, Check,
    MakeDirs, Write, Applied, Detach, Resolve, RemoveDir, RolledBack, WriteFails,
    DetachFails, files, contents, developer
<1> QED
  BY <1>1, <1>2 DEF BlueprintActs

-----------------------------------------------------------------------------
(* The steps of the commands that install no blueprint.                     *)

\* A file another command writes is no blueprint's, and the developer's only if it
\* was changed since that command looked at it.
Overwrites(g, p) ==
  /\ tree'[p].by \in {tree[p].by, g} /\ tree'[p].kind # "developer" /\ Exists(p)'
  /\ p \in Sources => p \in late \/ tree[p].kind # "developer"

Elsewhere(g) ==
  /\ Turn(g)
  /\ \A p \in Blueprinted : tree'[p] = tree[p]
  /\ \A p \in Paths : tree'[p] = tree[p] \/ Overwrites(g, p)
  /\ attic \subseteq attic'
  /\ At(g, "held") => [path |-> Newest(g), file |-> frame[g].held] \in attic'
  /\ UNCHANGED <<request, removed, mine>> /\ late \subseteq late'

\* A command goes on and changes no file.
LEMMA ElsewhereGoes ==
  ASSUME Types, NEW g \in Commands, UNCHANGED <<tree, request, removed, mine>>,
         FramesOK', \A h \in Commands \ {g} : frame'[h] = frame[h],
         attic \subseteq attic', late \subseteq late',
         At(g, "held") => [path |-> Newest(g), file |-> frame[g].held] \in attic'
  PROVE  Elsewhere(g)
BY DEF Elsewhere, Turn, Types, TreeOK, RequestsOK

\* What a recorded or killed command looks like to bindings and adapters.
LEMMA EndsElsewhere ==
  ASSUME Types, NEW g \in Commands, Record(g) \/ Killed(g)
  PROVE  /\ Elsewhere(g) /\ UNCHANGED <<tree, late, removed, request, mine>>
         /\ frame'[g].pc \in {"save", "done", "unrecorded", "killed"}
         /\ frame'[g].todo = frame[g].todo /\ frame'[g].originals = frame[g].originals
<1>1. CASE Record(g)
  <2>1. PICK pc \in {"save", "done", "unrecorded"} :
          Becomes(g, pc, frame[g].todo, frame[g].originals, frame[g].undo,
                  frame[g].held, frame[g].spoiled)
    BY <1>1, RecordMoves
  <2>2. /\ FramesOK' /\ \A h \in Commands \ {g} : frame'[h] = frame[h]
        /\ frame'[g].pc = pc /\ frame'[g].todo = frame[g].todo
        /\ frame'[g].originals = frame[g].originals
    BY <2>1 DEF Becomes
  <2>3. UNCHANGED <<tree, attic, request, removed, mine, late>> /\ ~At(g, "held")
    BY <1>1, RecordMoves DEF At
  <2>4. Elsewhere(g)
    BY <2>2, <2>3, ElsewhereGoes
  <2> QED
    BY <2>2, <2>3, <2>4
<1>2. CASE Killed(g)
  <2>1. /\ UNCHANGED <<tree, request, removed, mine, late>> /\ attic \subseteq attic'
        /\ At(g, "held") => [path |-> Newest(g), file |-> frame[g].held] \in attic'
        /\ Becomes(g, "killed", frame[g].todo, frame[g].originals, frame[g].undo,
                   frame[g].held, frame[g].spoiled)
    BY <1>2, KilledMoves
  <2>2. /\ FramesOK' /\ \A h \in Commands \ {g} : frame'[h] = frame[h]
        /\ frame'[g].pc = "killed" /\ frame'[g].todo = frame[g].todo
        /\ frame'[g].originals = frame[g].originals
    BY <2>1 DEF Becomes
  <2>3. Elsewhere(g)
    BY <2>1, <2>2, ElsewhereGoes
  <2> QED
    BY <2>1, <2>2, <2>3
<1> QED
  BY <1>1, <1>2

-----------------------------------------------------------------------------
(* A binding.                                                               *)

\* The elements of two sequences in a row.
LEMMA ConcatSet ==
  ASSUME NEW S, NEW s \in Seq(S), NEW t \in Seq(S)
  PROVE  s \o t \in Seq(S) /\ ToSet(s \o t) = ToSet(s) \union ToSet(t)
<1> s \o t \in Seq(S)
  OBVIOUS
<1>1. PICK u \in Seq(S) : u = s \o t
  OBVIOUS
<1>2. PICK m \in Nat, n \in Nat : m = Len(s) /\ n = Len(t)
  OBVIOUS
<1>3. /\ Len(u) = m + n /\ DOMAIN u = 1..(m + n) /\ DOMAIN s = 1..m /\ DOMAIN t = 1..n
      /\ \A i \in 1..m : u[i] = s[i]
      /\ \A i \in (m + 1)..(m + n) : u[i] = t[i - m]
  BY <1>1, <1>2
<1>4. ASSUME NEW i \in 1..(m + n)
      PROVE  u[i] \in ToSet(s) \union ToSet(t)
  <2>1. CASE i \in 1..m
    BY <1>3, <2>1 DEF ToSet
  <2>2. CASE i \notin 1..m
    <3>1. i \in (m + 1)..(m + n) /\ i - m \in 1..n
      BY <2>2
    <3> QED
      BY <1>3, <3>1 DEF ToSet
  <2> QED
    BY <2>1, <2>2
<1>5. ASSUME NEW i \in 1..m
      PROVE  s[i] \in ToSet(u)
  <2>1. i \in 1..(m + n)
    OBVIOUS
  <2> QED
    BY <1>3, <2>1 DEF ToSet
<1>6. ASSUME NEW i \in 1..n
      PROVE  t[i] \in ToSet(u)
  <2>1. i + m \in (m + 1)..(m + n) /\ (i + m) - m = i /\ i + m \in 1..(m + n)
    OBVIOUS
  <2> QED
    BY <1>3, <2>1 DEF ToSet
<1>7. \A x \in ToSet(u) : x \in ToSet(s) \union ToSet(t)
  BY <1>3, <1>4 DEF ToSet
<1>8. \A x \in ToSet(s) \union ToSet(t) : x \in ToSet(u)
  BY <1>3, <1>5, <1>6 DEF ToSet
<1> QED
  BY <1>1, <1>7, <1>8

\* What a binding plans to write has to change; a contract is written once.
LEMMA ToWriteFiles ==
  ASSUME NEW g
  PROVE  /\ ToWrite(g) \in Seq({ContractOf(g), Registry(Via(g)), Composition,
                                Bindings(Via(g))})
         /\ ContractOf(g) \in ToSet(ToWrite(g)) => Changes(g, ContractOf(g))
<1>1. PICK S : S = {ContractOf(g), Registry(Via(g)), Composition, Bindings(Via(g))}
  OBVIOUS
<1>2. ASSUME NEW p \in S
      PROVE  /\ IfChanged(g, p) \in Seq(S)
             /\ \A q \in ToSet(IfChanged(g, p)) : q = p /\ Changes(g, p)
  BY DEF IfChanged, ToSet
<1>3. PICK a, b, c, d : /\ a = IfChanged(g, ContractOf(g)) /\ b = IfChanged(g, Registry(Via(g)))
                        /\ c = IfChanged(g, Composition) /\ d = IfChanged(g, Bindings(Via(g)))
  OBVIOUS
<1>4. /\ a \in Seq(S) /\ b \in Seq(S) /\ c \in Seq(S) /\ d \in Seq(S)
      /\ \A q \in ToSet(a) \union ToSet(b) \union ToSet(c) \union ToSet(d) : Changes(g, q)
  BY <1>1, <1>2, <1>3
<1>5. PICK ab, abc, all : ab = a \o b /\ abc = ab \o c /\ all = abc \o d
  OBVIOUS
<1>6. ASSUME NEW s \in Seq(S), NEW t \in Seq(S), NEW u, u = s \o t
      PROVE  u \in Seq(S) /\ ToSet(u) = ToSet(s) \union ToSet(t)
  <2>1. s \o t \in Seq(S) /\ ToSet(s \o t) = ToSet(s) \union ToSet(t)
    BY ConcatSet
  <2> QED
    BY <1>6, <2>1
<1>7. ab \in Seq(S) /\ ToSet(ab) = ToSet(a) \union ToSet(b)
  BY <1>4, <1>5, <1>6, Zenon
<1>8. abc \in Seq(S) /\ ToSet(abc) = ToSet(ab) \union ToSet(c)
  BY <1>4, <1>5, <1>6, <1>7, Zenon
<1>9. all \in Seq(S) /\ ToSet(all) = ToSet(abc) \union ToSet(d)
  BY <1>4, <1>5, <1>6, <1>8, Zenon
<1>10. ToWrite(g) = all
  BY <1>3, <1>5 DEF ToWrite
<1> QED
  BY <1>1, <1>4, <1>7, <1>8, <1>9, <1>10

\* A binding that moves on and writes nothing.
LEMMA BindingGoes ==
  ASSUME Types, NEW g \in Commands, Exposes(g), BindingShape(g),
         UNCHANGED <<tree, attic, request, removed, mine, late>>, NEW pc \in Points,
         Goto(g, pc), ~At(g, "held"),
         pc \in {"write", "refused", "load", "save", "done", "unrecorded", "killed"},
         pc = "write" /\ ContractOf(g) \in ToSet(frame[g].todo) =>
           tree[ContractOf(g)].kind # "developer"
  PROVE  BindingShape(g)' /\ Elsewhere(g)
<1>1. FramesOK
  BY DEF Types
<1>2. /\ FramesOK' /\ \A h \in Commands \ {g} : frame'[h] = frame[h]
      /\ frame'[g].pc = pc /\ frame'[g].todo = frame[g].todo
      /\ frame'[g].originals = frame[g].originals /\ frame'[g].entries = frame[g].entries
  BY <1>1, Goes DEF Becomes, Carries
<1>3. Elsewhere(g)
  BY <1>2, ElsewhereGoes
<1>4. ContractOf(g)' = ContractOf(g) /\ Via(g)' = Via(g)
  BY DEF ContractOf, Via, UseCase
<1> QED
  BY <1>2, <1>3, <1>4 DEF BindingShape

\* A binding plans, or is refused: it changes no file.
LEMMA BindingPlanned ==
  ASSUME Types, NEW g \in Commands, Exposes(g), BindingShape(g), PlanBinding(g)
  PROVE  BindingShape(g)' /\ Elsewhere(g)
<1>1. FramesOK /\ TreeOK /\ RequestsOK /\ Via(g) \in Vias /\ UseCase(g) \in UseCases
  BY Kinds DEF Types
<1>2. /\ UNCHANGED <<tree, attic, request, removed, mine, late>> /\ At(g, "plan")
  BY DEF PlanBinding, files
<1>3. CASE Goto(g, "refused")
  BY <1>2, <1>3, BindingGoes DEF At, Points
<1>4. CASE frame' = [frame EXCEPT ![g] = [@ EXCEPT
             !.pc = "check", !.todo = ToWrite(g),
             !.entries = Merged(g), !.composed = Composed(g),
             !.originals = {[path |-> p, text |-> Text(tree[p])] : p \in ToSet(ToWrite(g))}]]
  <2>1. PICK todo : todo = ToWrite(g)
    OBVIOUS
  <2>2. PICK originals : originals = {[path |-> p, text |-> Text(tree[p])] : p \in ToSet(todo)}
    OBVIOUS
  <2>3. PICK S : S = {ContractOf(g), Registry(Via(g)), Composition, Bindings(Via(g))}
    OBVIOUS
  <2>4. todo \in Seq(S) /\ (ContractOf(g) \in ToSet(todo) => ~Exists(ContractOf(g)))
    BY <2>1, <2>3, ToWriteFiles DEF Changes
  <2>5. S \subseteq Paths
    BY <1>1, <2>3, PathsApart DEF ContractOf
  <2>6. ToSet(todo) \subseteq Paths /\ todo \in Seq(Paths \union SettingsFiles)
    BY <2>4, <2>5 DEF ToSet
  <2>7. \A v \in Vias : Entries(Bindings(v)) \subseteq UseCases
    BY <1>1, PathsApart DEF TreeOK, Files, Entries
  <2>8. Merged(g) \subseteq UseCases /\ Composed(g) \subseteq UseCases
    BY <1>1, <2>7 DEF Merged, Composed
  <2>9. \A p \in ToSet(todo) : Text(tree[p]) \in Texts
    BY <1>1, <2>6 DEF TreeOK, Files, Text, Texts
  <2>10. originals \in SUBSET [path : Paths, text : Texts]
    BY <2>2, <2>6, <2>9
  <2>11. frame[g] \in Frames
    BY <1>1 DEF FramesOK
  <2>12. PICK f : f = [frame[g] EXCEPT !.pc = "check", !.todo = todo, !.entries = Merged(g),
                                       !.composed = Composed(g), !.originals = originals]
    OBVIOUS
  <2>13. f = [pc |-> "check", todo |-> todo, originals |-> originals,
              undo |-> frame[g].undo, held |-> frame[g].held,
              spoiled |-> frame[g].spoiled, entries |-> Merged(g),
              composed |-> Composed(g), steps |-> frame[g].steps]
    BY <2>11, <2>12 DEF Frames
  <2>14. f \in Frames
    BY <2>6, <2>8, <2>10, <2>11, <2>13 DEF Frames, Points
  <2>15. frame' = [frame EXCEPT ![g] = f]
    BY <1>4, <2>1, <2>2, <2>12
  <2>16. FramesOK' /\ frame'[g] = f /\ \A h \in Commands \ {g} : frame'[h] = frame[h]
    BY <1>1, <2>14, <2>15, FrameSet
  <2>17. Elsewhere(g)
    BY <1>2, <2>16, ElsewhereGoes DEF At
  <2>18. ContractOf(g)' = ContractOf(g) /\ Via(g)' = Via(g)
    BY <1>2 DEF ContractOf, Via, UseCase
  <2>19. /\ frame'[g].pc = "check" /\ frame'[g].todo = todo /\ frame'[g].originals = originals
         /\ frame'[g].entries = Merged(g)
    BY <2>13, <2>16
  <2>20. \A p \in ToSet(todo) : \E o \in originals : o.path = p
    <3>1. ASSUME NEW p \in ToSet(todo)
          PROVE  \E o \in originals : o.path = p
      <4>1. PICK o : o = [path |-> p, text |-> Text(tree[p])]
        OBVIOUS
      <4>2. o \in originals /\ o.path = p
        BY <2>2, <4>1
      <4> QED
        BY <4>2
    <3> QED
      BY <3>1
  <2>21. \A o \in originals : o.path = ContractOf(g) => o.text = Text(Absent)
    BY <2>2, <2>4 DEF Exists
  <2>22. Text(Absent)' = Text(Absent)
    BY DEF Text, Absent
  <2>23. todo \in Seq({ContractOf(g), Registry(Via(g)), Composition, Bindings(Via(g))})
    BY <2>3, <2>4
  <2>24. BindingShape(g)'
    BY <2>8, <2>18, <2>19, <2>20, <2>21, <2>22, <2>23 DEF BindingShape
  <2> QED
    BY <2>17, <2>24
<1> QED
  BY <1>3, <1>4 DEF PlanBinding

\* A plan is checked: the contract is still absent.
LEMMA BindingChecked ==
  ASSUME Types, NEW g \in Commands, Exposes(g), BindingShape(g), CheckBinding(g)
  PROVE  BindingShape(g)' /\ Elsewhere(g)
<1>1. UNCHANGED <<tree, attic, request, removed, mine, late>> /\ At(g, "check")
  BY DEF CheckBinding, files
<1>2. PICK pc \in {"write", "refused"} : Goto(g, pc) /\ (pc = "write" => Unchanged(g))
  BY DEF CheckBinding
<1>3. ASSUME pc = "write", ContractOf(g) \in ToSet(frame[g].todo)
      PROVE  tree[ContractOf(g)].kind # "developer"
  <2>1. PICK o \in frame[g].originals : o.path = ContractOf(g)
    BY <1>1, <1>3 DEF BindingShape, At
  <2>2. o.text = Text(Absent)
    BY <1>1, <2>1 DEF BindingShape, At
  <2>3. Text(tree[ContractOf(g)]) = Text(Absent)
    BY <1>2, <1>3, <2>1, <2>2 DEF Unchanged
  <2> QED
    BY <2>3 DEF Text, Absent
<1> QED
  BY <1>1, <1>2, <1>3, BindingGoes DEF At, Points

\* What a binding may write over: what it has just looked at.
LEMMA BindingTarget ==
  ASSUME Types, NEW g \in Commands, Exposes(g), BindingShape(g), At(g, "write"),
         NEW p, frame[g].todo # << >>, p = Head(frame[g].todo)
  PROVE  /\ p \in Paths \ Blueprinted
         /\ p \in Sources => p = ContractOf(g) /\ (p \in late \/ tree[p].kind # "developer")
         /\ frame[g].entries \subseteq UseCases
<1>1. PICK S : S = {ContractOf(g), Registry(Via(g)), Composition, Bindings(Via(g))}
  OBVIOUS
<1>2. Via(g) \in Vias /\ UseCase(g) \in UseCases
  BY Kinds DEF Types
<1>3. frame[g].todo \in Seq(S) /\ frame[g].entries \subseteq UseCases
  BY <1>1 DEF BindingShape
<1>4. p \in S /\ p \in ToSet(frame[g].todo)
  BY <1>3, TailSet
<1>5. ContractOf(g) \in Paths \ Blueprinted
  BY <1>2, PathsApart DEF ContractOf
<1>6. \A q \in S \ {ContractOf(g)} : q \in Paths \ Blueprinted /\ q \notin Sources
  BY <1>1, <1>2, PathsApart
<1>7. p = ContractOf(g) => p \in late \/ tree[p].kind # "developer"
  BY <1>4 DEF BindingShape, At
<1> QED
  BY <1>3, <1>4, <1>5, <1>6, <1>7

\* What a binding puts in a file is its, and no developer's.
LEMMA BindingText ==
  ASSUME Types, NEW g \in Commands, NEW p \in Paths, frame[g].entries \subseteq UseCases,
         NEW by \in {tree[p].by, g}, NEW file,
         \/ file = [Content(g, p) EXCEPT !.by = by]
         \/ file = [by |-> by, kind |-> "torn", entries |-> {}]
  PROVE  file \in Files /\ file.by = by /\ file.kind # "developer" /\ file # Absent
<1>1. tree[p] \in Files /\ frame[g] \in Frames
  BY DEF Types, TreeOK, FramesOK
<1>2. by \in Commands \union {"nobody", "project", "developer"}
  BY <1>1 DEF Files
<1>3. CASE file = [by |-> by, kind |-> "torn", entries |-> {}]
  BY <1>2, <1>3 DEF Files, FileKinds, Absent
<1>4. CASE file = [Content(g, p) EXCEPT !.by = by]
  <2>1. PICK entries : /\ entries \subseteq UseCases
                       /\ \/ Content(g, p) = [by |-> g, kind |-> "rendered", entries |-> entries]
                          \/ Content(g, p) = [by |-> g, kind |-> "index", entries |-> entries]
    <3>1. frame[g].composed \subseteq UseCases
      BY <1>1 DEF Frames
    <3>2. CASE p = ContractOf(g)
      BY <3>2 DEF Content, Rendered
    <3>3. CASE p # ContractOf(g) /\ p = Composition
      BY <3>1, <3>3 DEF Content, Index
    <3>4. CASE p # ContractOf(g) /\ p # Composition
      BY <3>4 DEF Content, Index
    <3> QED
      BY <3>2, <3>3, <3>4
  <2>2. \/ file = [by |-> by, kind |-> "rendered", entries |-> entries]
        \/ file = [by |-> by, kind |-> "index", entries |-> entries]
    BY <1>4, <2>1
  <2> QED
    BY <1>2, <2>1, <2>2 DEF Files, FileKinds, Absent
<1> QED
  BY <1>3, <1>4

\* A binding writes a file, or half of it.
LEMMA BindingWrites ==
  ASSUME Types, NEW g \in Commands, Exposes(g), BindingShape(g), At(g, "write"),
         UNCHANGED <<attic, request, removed, mine, late>>,
         NEW p, frame[g].todo # << >>, p = Head(frame[g].todo),
         NEW by \in {tree[p].by, g}, NEW file,
         \/ file = [Content(g, p) EXCEPT !.by = by]
         \/ file = [by |-> by, kind |-> "torn", entries |-> {}],
         tree' = [tree EXCEPT ![p] = file],
         FramesOK', \A h \in Commands \ {g} : frame'[h] = frame[h]
  PROVE  Elsewhere(g) /\ tree'[p].kind # "developer"
<1>1. /\ p \in Paths \ Blueprinted
      /\ p \in Sources => p \in late \/ tree[p].kind # "developer"
      /\ frame[g].entries \subseteq UseCases
  BY BindingTarget
<1>2. file \in Files /\ file.by = by /\ file.kind # "developer" /\ file # Absent
  BY <1>1, BindingText
<1>3. TreeOK' /\ tree'[p] = file /\ \A q \in Paths \ {p} : tree'[q] = tree[q]
  BY <1>1, <1>2 DEF Types, TreeOK
<1>4. RequestsOK'
  BY DEF Types, RequestsOK
<1>5. Overwrites(g, p)
  BY <1>1, <1>2, <1>3 DEF Overwrites, Exists, Absent
<1>6. \A q \in Blueprinted : tree'[q] = tree[q]
  BY <1>1, <1>3, PathsApart
<1>7. ~At(g, "held")
  BY DEF At
<1> QED
  BY <1>2, <1>3, <1>4, <1>5, <1>6, <1>7 DEF Elsewhere, Turn

\* A binding writes its next file, fails to, or is done.
LEMMA BindingWrote ==
  ASSUME Types, NEW g \in Commands, Exposes(g), BindingShape(g),
         WriteBinding(g) \/ WriteBindingFails(g) \/ BindingWritten(g)
  PROVE  BindingShape(g)' /\ Elsewhere(g)
<1>1. FramesOK /\ TreeOK /\ RequestsOK /\ Via(g) \in Vias /\ UseCase(g) \in UseCases
  BY Kinds DEF Types
<1>2. At(g, "write") /\ UNCHANGED <<attic, request, removed, mine, late>>
  BY DEF WriteBinding, WriteBindingFails, BindingWritten, files, developer
<1>3. ~At(g, "held")
  BY <1>2 DEF At
<1>4. ContractOf(g)' = ContractOf(g) /\ Via(g)' = Via(g)
  BY <1>2 DEF ContractOf, Via, UseCase
<1>5. CASE BindingWritten(g)
  <2>1. PICK pc \in {"done", "load"} : Goto(g, pc)
    BY <1>5 DEF BindingWritten
  <2>2. UNCHANGED tree
    BY <1>5 DEF BindingWritten, files
  <2> QED
    BY <1>2, <1>3, <2>1, <2>2, BindingGoes DEF Points
<1>6. CASE WriteBindingFails(g) /\ UNCHANGED tree
  <2>1. Goto(g, "refused")
    BY <1>6 DEF WriteBindingFails
  <2> QED
    BY <1>2, <1>3, <1>6, <2>1, BindingGoes DEF Points
<1>7. PICK p : p = Head(frame[g].todo)
  OBVIOUS
<1>8. PICK inode \in {tree[p].by, g} : inode = IF Exists(p) THEN tree[p].by ELSE g
  OBVIOUS
<1>9. CASE WriteBindingFails(g) /\ ~UNCHANGED tree
  <2>1. Goto(g, "refused") /\ frame[g].todo # << >>
    BY <1>9 DEF WriteBindingFails
  <2>2. PICK file : file = [by |-> inode, kind |-> "torn", entries |-> {}]
    OBVIOUS
  <2>3. tree' = [tree EXCEPT ![p] = file]
    BY <1>7, <1>8, <1>9, <2>2 DEF WriteBindingFails
  <2>4. /\ FramesOK' /\ \A h \in Commands \ {g} : frame'[h] = frame[h]
        /\ frame'[g].pc = "refused" /\ frame'[g].todo = frame[g].todo
        /\ frame'[g].entries = frame[g].entries
    BY <1>1, <2>1, Goes DEF Becomes, Carries, Points
  <2>5. Elsewhere(g)
    BY <1>2, <1>7, <2>1, <2>2, <2>3, <2>4, BindingWrites
  <2>6. BindingShape(g)'
    BY <1>4, <2>4 DEF BindingShape
  <2> QED
    BY <2>5, <2>6
<1>10. CASE WriteBinding(g)
  <2>1. frame[g].todo # << >> /\ frame' = [frame EXCEPT ![g].todo = Tail(@)]
    BY <1>10 DEF WriteBinding
  <2>2. PICK file : file = [Content(g, p) EXCEPT !.by = inode]
    OBVIOUS
  <2>3. tree' = [tree EXCEPT ![p] = file]
    BY <1>7, <1>8, <1>10, <2>2 DEF WriteBinding
  <2>4. PICK f : f = [frame[g] EXCEPT !.todo = Tail(@)]
    OBVIOUS
  <2>5. frame' = [frame EXCEPT ![g] = f]
    BY <2>1, <2>4
  <2>6. /\ Becomes(g, frame[g].pc, Tail(frame[g].todo), frame[g].originals,
                   frame[g].undo, frame[g].held, frame[g].spoiled)
        /\ Carries(g)
    BY <1>1, <2>1, <2>4, <2>5, TodoSet
  <2>7. /\ FramesOK' /\ \A h \in Commands \ {g} : frame'[h] = frame[h]
        /\ frame'[g].pc = "write" /\ frame'[g].todo = Tail(frame[g].todo)
        /\ frame'[g].entries = frame[g].entries
    BY <1>2, <2>6 DEF Becomes, Carries, At
  <2>8. Elsewhere(g) /\ tree'[p].kind # "developer"
    BY <1>2, <1>7, <2>1, <2>2, <2>3, <2>7, BindingWrites
  <2>9. PICK S : S = {ContractOf(g), Registry(Via(g)), Composition, Bindings(Via(g))}
    OBVIOUS
  <2>10. frame[g].todo \in Seq(S) /\ frame[g].entries \subseteq UseCases
    BY <2>9 DEF BindingShape
  <2>11. Tail(frame[g].todo) \in Seq(S) /\ ToSet(Tail(frame[g].todo)) \subseteq ToSet(frame[g].todo)
    BY <2>1, <2>10, TailSet
  <2>12. ContractOf(g) \in ToSet(frame[g].todo) =>
           ContractOf(g) \in late \/ tree[ContractOf(g)].kind # "developer"
    BY <1>2 DEF BindingShape, At
  <2>13. ContractOf(g) \in Paths /\ late' = late
    BY <1>1, <1>2, PathsApart DEF ContractOf
  <2>14. ContractOf(g) # p => tree'[ContractOf(g)] = tree[ContractOf(g)]
    BY <2>3, <2>13
  <2>15. ContractOf(g) \in ToSet(Tail(frame[g].todo)) =>
           ContractOf(g) \in late' \/ tree'[ContractOf(g)].kind # "developer"
    BY <2>8, <2>11, <2>12, <2>13, <2>14
  <2>16. Tail(frame[g].todo) \in Seq({ContractOf(g), Registry(Via(g)), Composition,
                                       Bindings(Via(g))})
    BY <2>9, <2>11
  <2>17. BindingShape(g)'
    BY <1>4, <2>7, <2>10, <2>15, <2>16 DEF BindingShape
  <2> QED
    BY <2>8, <2>17
<1> QED
  BY <1>5, <1>6, <1>9, <1>10

\* Whatever a binding does keeps its shape, and the files of blueprints.
LEMMA BindingActs ==
  ASSUME Types, NEW g \in Commands, BindingShape(g), BindingStep(g)
  PROVE  BindingShape(g)' /\ Elsewhere(g)
BY BindingPlanned, BindingChecked, BindingWrote DEF BindingStep

-----------------------------------------------------------------------------
(* An adapter.                                                              *)

\* Two sequences of distinct elements with none in common.
LEMMA ConcatDistinct ==
  ASSUME NEW S, NEW s \in Seq(S), NEW t \in Seq(S), Distinct(s), Distinct(t),
         ToSet(s) \intersect ToSet(t) = {}
  PROVE  Distinct(s \o t)
<1> s \o t \in Seq(S)
  OBVIOUS
<1>1. PICK u \in Seq(S) : u = s \o t
  OBVIOUS
<1>2. PICK m \in Nat, n \in Nat : m = Len(s) /\ n = Len(t)
  OBVIOUS
<1>3. /\ Len(u) = m + n /\ DOMAIN u = 1..(m + n) /\ DOMAIN s = 1..m /\ DOMAIN t = 1..n
      /\ \A i \in 1..m : u[i] = s[i]
      /\ \A i \in (m + 1)..(m + n) : u[i] = t[i - m]
  BY <1>1, <1>2
<1>4. \A i \in 1..m : u[i] \in ToSet(s)
  BY <1>3 DEF ToSet
<1>5. ASSUME NEW i \in (m + 1)..(m + n)
      PROVE  i - m \in 1..n /\ u[i] = t[i - m] /\ u[i] \in ToSet(t)
  <2>1. i - m \in 1..n
    OBVIOUS
  <2> QED
    BY <1>3, <2>1 DEF ToSet
<1>6. ASSUME NEW i \in 1..(m + n), NEW j \in 1..(m + n), u[i] = u[j]
      PROVE  i = j
  <2>1. (i \in 1..m \/ i \in (m + 1)..(m + n)) /\ (j \in 1..m \/ j \in (m + 1)..(m + n))
    OBVIOUS
  <2>2. CASE i \in 1..m /\ j \in 1..m
    BY <1>2, <1>3, <1>6, <2>2 DEF Distinct
  <2>3. CASE i \in (m + 1)..(m + n) /\ j \in (m + 1)..(m + n)
    <3>1. i - m \in 1..n /\ j - m \in 1..n /\ t[i - m] = t[j - m]
      BY <1>5, <1>6, <2>3
    <3>2. i - m = j - m
      BY <1>2, <3>1 DEF Distinct
    <3> QED
      BY <3>2
  <2> QED
    BY <1>4, <1>5, <1>6, <2>1, <2>2, <2>3
<1> QED
  BY <1>1, <1>3, <1>6 DEF Distinct

\* Two sequences of distinct things that have none in common are one.
Joins(S, s, t, u) ==
  /\ u \in Seq(S) /\ u = s \o t
  /\ ToSet(u) = ToSet(s) \union ToSet(t)
  /\ Distinct(s) /\ Distinct(t) /\ ToSet(s) \intersect ToSet(t) = {} => Distinct(u)

\* A concatenation joins its two parts.
LEMMA Joining ==
  ASSUME NEW S, NEW s \in Seq(S), NEW t \in Seq(S), NEW u, u = s \o t
  PROVE  Joins(S, s, t, u)
BY ConcatSet, ConcatDistinct DEF Joins

\* The files of an installation are distinct, the activation is the last.
LEMMA InstallationFiles ==
  ASSUME NEW a \in Adapters, NEW activate \in BOOLEAN,
         NEW todo, todo = Installation(a, activate)
  PROVE  /\ todo \in Seq(SettingsFiles \union {Extension(a)}) /\ Distinct(todo)
         /\ \A i \in 1..Len(todo) : todo[i] = Activation => i = Len(todo)
         /\ Ignored \in ToSet(todo) => a \in Observers
         /\ ToSet(todo) = Needed(a) \union (IF activate THEN {Activation} ELSE {})
         /\ Needed(a) \subseteq (SettingsFiles \ {Activation}) \union {Extension(a)}
         /\ Extension(a) \in Needed(a)
<1>1. PICK c, d, e, i, s, x, z :
        /\ c = Config(a) /\ d = Dependencies /\ e = Environment /\ i = Ignored
        /\ s = Secrets /\ x = Extension(a) /\ z = Activation
  OBVIOUS
<1>2. /\ c # d /\ c # e /\ c # i /\ c # s /\ c # x /\ c # z
      /\ d # e /\ d # i /\ d # s /\ d # x /\ d # z
      /\ e # i /\ e # s /\ e # x /\ e # z
      /\ i # s /\ i # x /\ i # z
      /\ s # x /\ s # z /\ x # z
  BY <1>1 DEF Config, Dependencies, Environment, Ignored, Secrets, Extension, Activation
<1>3. c \in SettingsFiles /\ {d, e, i, s, z} \subseteq SettingsFiles
  BY <1>1 DEF SettingsFiles
<1>4. PICK S : S = SettingsFiles \union {Extension(a)}
  OBVIOUS
<1>5. PICK s1, s2, s3, s4, s12, s123 :
        /\ s1 = <<c, d>> /\ s2 = (IF a \in Observers THEN <<e, i>> ELSE << >>)
        /\ s3 = <<s, x>> /\ s4 = (IF activate THEN <<z>> ELSE << >>)
        /\ s12 = s1 \o s2 /\ s123 = s12 \o s3
  OBVIOUS
<1>6. /\ s1 \in Seq(S) /\ s3 \in Seq(S) /\ ToSet(s1) = {c, d} /\ ToSet(s3) = {s, x}
      /\ Distinct(s1) /\ Distinct(s3)
  BY <1>1, <1>2, <1>3, <1>4, <1>5 DEF ToSet, Distinct
<1>7. /\ s2 \in Seq(S) /\ ToSet(s2) = (IF a \in Observers THEN {e, i} ELSE {})
      /\ Distinct(s2)
  <2>1. CASE a \in Observers
    BY <1>2, <1>3, <1>4, <1>5, <2>1 DEF ToSet, Distinct
  <2>2. CASE a \notin Observers
    BY <1>5, <2>2 DEF ToSet, Distinct
  <2> QED
    BY <2>1, <2>2
<1>8. /\ s4 \in Seq(S) /\ ToSet(s4) = (IF activate THEN {z} ELSE {})
      /\ Distinct(s4)
  <2>1. CASE activate
    BY <1>3, <1>4, <1>5, <2>1 DEF ToSet, Distinct
  <2>2. CASE ~activate
    BY <1>5, <2>2 DEF ToSet, Distinct
  <2> QED
    BY <2>1, <2>2
<1>9. Joins(S, s1, s2, s12)
  BY <1>5, <1>6, <1>7, Joining
<1>10. s12 \in Seq(S)
  BY <1>9 DEF Joins
<1>11. Joins(S, s12, s3, s123)
  BY <1>5, <1>6, <1>10, Joining
<1>12. /\ s123 \in Seq(S) /\ Distinct(s123)
       /\ ToSet(s123) = ({c, d} \union (IF a \in Observers THEN {e, i} ELSE {})) \union {s, x}
  BY <1>2, <1>6, <1>7, <1>9, <1>11 DEF Joins
<1>13. Installation(a, FALSE) = s123
  <2>1. s123 \o << >> = s123
    BY <1>12
  <2>2. Installation(a, FALSE) = s123 \o << >>
    BY <1>1, <1>5 DEF Installation
  <2> QED
    BY <2>1, <2>2
<1>14. todo = s123 \o s4
  BY <1>1, <1>5 DEF Installation
<1>15. Needed(a) = ToSet(s123)
  BY <1>13 DEF Needed
<1>16. Joins(S, s123, s4, todo)
  BY <1>8, <1>12, <1>14, Joining
<1>17. /\ todo \in Seq(S) /\ Distinct(todo)
       /\ ToSet(todo) = Needed(a) \union (IF activate THEN {z} ELSE {})
  BY <1>2, <1>8, <1>12, <1>15, <1>16 DEF Joins
<1>18. z \notin Needed(a) /\ (i \in ToSet(todo) => a \in Observers)
       /\ Needed(a) \subseteq (SettingsFiles \ {z}) \union {x} /\ x \in Needed(a)
  BY <1>2, <1>3, <1>12, <1>15, <1>17
<1>19. ASSUME NEW k \in 1..Len(todo), todo[k] = z
       PROVE  k = Len(todo)
  <2>1. z \in ToSet(todo)
    BY <1>17, <1>19 DEF ToSet
  <2>2. activate
    BY <1>17, <1>18, <2>1
  <2>3. todo = Append(s123, z)
    BY <1>5, <1>12, <1>14, <2>2
  <2>4. Len(todo) \in 1..Len(todo) /\ todo[Len(todo)] = z
    BY <1>12, <2>3
  <2> QED
    BY <1>17, <1>19, <2>4 DEF Distinct
<1> QED
  BY <1>1, <1>4, <1>17, <1>18, <1>19

\* The frame of a command that installs an adapter, after a step.
Installing(g, pc, todo, entries) ==
  /\ FramesOK' /\ \A h \in Commands \ {g} : frame'[h] = frame[h]
  /\ frame'[g].pc = pc /\ frame'[g].todo = todo /\ frame'[g].entries = entries
  /\ frame'[g].originals = frame[g].originals

\* The next file, ...
LEMMA AfterSet ==
  ASSUME FramesOK, NEW g \in Commands, frame[g].todo # << >>,
         frame' = [frame EXCEPT ![g] = AfterTarget(g)]
  PROVE  Installing(g, "read", Tail(frame[g].todo), {})
<1>1. frame[g] \in Frames
  BY DEF FramesOK
<1>2. PICK f : f = [frame[g] EXCEPT !.pc = "read", !.todo = Tail(@), !.entries = {}]
  OBVIOUS
<1>3. f = [pc |-> "read", todo |-> Tail(frame[g].todo), originals |-> frame[g].originals,
           undo |-> frame[g].undo, held |-> frame[g].held,
           spoiled |-> frame[g].spoiled, entries |-> {},
           composed |-> frame[g].composed, steps |-> frame[g].steps]
  BY <1>1, <1>2 DEF Frames
<1>4. frame[g].todo \in Seq(Paths \union SettingsFiles)
  BY <1>1 DEF Frames
<1>5. Tail(frame[g].todo) \in Seq(Paths \union SettingsFiles)
  BY <1>4
<1>6. f \in Frames
  BY <1>1, <1>3, <1>5 DEF Frames, Points
<1>7. frame' = [frame EXCEPT ![g] = f]
  BY <1>2 DEF AfterTarget
<1>8. FramesOK' /\ frame'[g] = f /\ \A h \in Commands \ {g} : frame'[h] = frame[h]
  BY <1>6, <1>7, FrameSet
<1>9. /\ f.pc = "read" /\ f.todo = Tail(frame[g].todo) /\ f.entries = {}
      /\ f.originals = frame[g].originals
  BY <1>3
<1> QED
  BY <1>8, <1>9 DEF Installing

\* ... a plan, ...
LEMMA InstallSet ==
  ASSUME FramesOK, NEW g \in Commands, NEW todo \in Seq(Paths \union SettingsFiles),
         frame' = [frame EXCEPT ![g] = [@ EXCEPT !.pc = "read", !.todo = todo]]
  PROVE  Installing(g, "read", todo, frame[g].entries)
<1>1. frame[g] \in Frames
  BY DEF FramesOK
<1>2. PICK f : f = [frame[g] EXCEPT !.pc = "read", !.todo = todo]
  OBVIOUS
<1>3. f = [pc |-> "read", todo |-> todo, originals |-> frame[g].originals,
           undo |-> frame[g].undo, held |-> frame[g].held,
           spoiled |-> frame[g].spoiled, entries |-> frame[g].entries,
           composed |-> frame[g].composed, steps |-> frame[g].steps]
  BY <1>1, <1>2 DEF Frames
<1>4. f \in Frames
  BY <1>1, <1>3 DEF Frames, Points
<1>5. frame' = [frame EXCEPT ![g] = f]
  BY <1>2
<1>6. FramesOK' /\ frame'[g] = f /\ \A h \in Commands \ {g} : frame'[h] = frame[h]
  BY <1>4, <1>5, FrameSet
<1> QED
  BY <1>3, <1>6 DEF Installing

\* ... and what a file has.
LEMMA ReadSet ==
  ASSUME FramesOK, NEW g \in Commands, NEW entries \in SUBSET Adapters,
         frame' = [frame EXCEPT ![g] = [@ EXCEPT !.pc = "truncate", !.entries = entries]]
  PROVE  Installing(g, "truncate", frame[g].todo, entries)
<1>1. frame[g] \in Frames
  BY DEF FramesOK
<1>2. PICK f : f = [frame[g] EXCEPT !.pc = "truncate", !.entries = entries]
  OBVIOUS
<1>3. f = [pc |-> "truncate", todo |-> frame[g].todo, originals |-> frame[g].originals,
           undo |-> frame[g].undo, held |-> frame[g].held,
           spoiled |-> frame[g].spoiled, entries |-> entries,
           composed |-> frame[g].composed, steps |-> frame[g].steps]
  BY <1>1, <1>2 DEF Frames
<1>4. f \in Frames
  BY <1>1, <1>3 DEF Frames, Points
<1>5. frame' = [frame EXCEPT ![g] = f]
  BY <1>2
<1>6. FramesOK' /\ frame'[g] = f /\ \A h \in Commands \ {g} : frame'[h] = frame[h]
  BY <1>4, <1>5, FrameSet
<1> QED
  BY <1>3, <1>6 DEF Installing

\* What a step of an adapter does to the files and to its frame: it plans, ...
Plans(g, activate) ==
  /\ At(g, "plan") /\ Installing(g, "read", Installation(Adapter(g), activate), frame[g].entries)
  /\ UNCHANGED <<settings, torn, tree>>

\* ... leaves a file that has what it needs, ...
Leaves(g) ==
  /\ At(g, "read") /\ frame[g].todo # << >> /\ Target(g) # Activation
  /\ Has(Adapter(g), Target(g))
  /\ Installing(g, "read", Tail(frame[g].todo), {})
  /\ UNCHANGED <<settings, torn, tree>>

\* ... reads one, ...
Reads(g) ==
  /\ At(g, "read") /\ frame[g].todo # << >> /\ Target(g) \in SettingsFiles
  /\ Installing(g, "truncate", frame[g].todo, settings[Target(g)])
  /\ UNCHANGED <<settings, torn, tree>>

\* ... truncates it, ...
Truncates(g) ==
  /\ At(g, "truncate") /\ Installing(g, "fill", frame[g].todo, frame[g].entries)
  /\ settings' = [settings EXCEPT ![Target(g)] = {}]
  /\ UNCHANGED <<torn, tree>>

\* ... fills it, ...
FillsIt(g) ==
  /\ At(g, "fill") /\ Installing(g, "read", Tail(frame[g].todo), {})
  /\ settings' = [settings EXCEPT ![Target(g)] = Kept(g, Target(g)) \union Addition(g, Target(g))]
  /\ UNCHANGED <<torn, tree>>

\* ... writes an extension point, ...
Extends(g) ==
  /\ At(g, "scaffold") /\ Installing(g, "read", Tail(frame[g].todo), {})
  /\ \E file \in Files :
       /\ tree' = [tree EXCEPT ![Target(g)] = file]
       /\ file # Absent /\ file.kind # "developer" /\ file.by \in {tree[Target(g)].by, g}
  /\ UNCHANGED <<settings, torn>>

\* ... or goes on, with no file at hand.
Passes(g, pc) ==
  /\ ~At(g, "plan")
  /\ pc \in {"scaffold", "refused", "load", "save", "done", "unrecorded", "killed"}
  /\ Installing(g, pc, frame[g].todo, frame[g].entries)
  /\ pc = "scaffold" =>
       frame[g].todo # << >> /\ Target(g) \in Paths /\ ~Exists(Target(g))
  /\ pc \in {"load", "save", "done"} => frame[g].todo = << >>
  /\ At(g, "fill") => torn'
  /\ torn => torn'
  /\ UNCHANGED <<settings, tree>>

AdapterMoves(g) ==
  \/ \E activate \in BOOLEAN : Plans(g, activate)
  \/ Leaves(g) \/ Reads(g) \/ Truncates(g) \/ FillsIt(g) \/ Extends(g)
  \/ \E pc \in Points : Passes(g, pc)

\* A step of an adapter is one of these.
LEMMA AdapterMoving ==
  ASSUME Types, NEW g \in Commands, AdapterShape(g), AdapterStep(g)
  PROVE  /\ AdapterMoves(g) /\ UNCHANGED <<attic, request, removed, mine, late>>
         /\ ~At(g, "held")
<1>1. FramesOK /\ TreeOK /\ Adapter(g) \in Adapters /\ Installs(g)
  BY Kinds DEF Types, AdapterStep
<1>2. settings \in [SettingsFiles -> SUBSET Adapters]
  BY DEF Types
<1>3. PICK S : S = SettingsFiles \union {Extension(Adapter(g))}
  OBVIOUS
<1>4. S \subseteq Paths \union SettingsFiles
  BY <1>1, <1>3, PathsApart
<1>5. frame[g].todo \in Seq(S)
  BY <1>3 DEF AdapterShape
<1>6. frame[g].todo # << >> => Target(g) \in S /\ Target(g) \in ToSet(frame[g].todo)
  BY <1>5, TailSet DEF Target
<1>7. UNCHANGED <<attic, request, removed, mine, late>> /\ ~At(g, "held")
  BY DEF AdapterStep, Install, ReadSettings, Truncate, Fill, LookExtension, WriteExtension,
         AdapterInstalled, InstallFails, At, files, contents, developer
<1>8. CASE Install(g)
  <2>1. PICK activate \in BOOLEAN : frame' = [frame EXCEPT ![g] = [@ EXCEPT
          !.pc = "read", !.todo = Installation(Adapter(g), activate)]]
    BY <1>8 DEF Install
  <2>2. PICK todo : todo = Installation(Adapter(g), activate)
    OBVIOUS
  <2>3. todo \in Seq(S)
    BY <1>1, <1>3, <2>2, InstallationFiles
  <2>4. todo \in Seq(Paths \union SettingsFiles)
    BY <1>4, <2>3
  <2>5. Installing(g, "read", todo, frame[g].entries)
    BY <1>1, <2>1, <2>2, <2>4, InstallSet
  <2> QED
    BY <1>7, <1>8, <2>2, <2>5 DEF Install, files, Plans, AdapterMoves
<1>9. CASE ReadSettings(g)
  <2>1. /\ At(g, "read") /\ frame[g].todo # << >> /\ Target(g) \in SettingsFiles
        /\ UNCHANGED <<settings, torn, tree>>
    BY <1>9 DEF ReadSettings, files
  <2>2. CASE /\ Target(g) \in {Dependencies, Ignored}
             /\ Addition(g, Target(g)) \subseteq settings[Target(g)]
    <3>1. frame' = [frame EXCEPT ![g] = AfterTarget(g)]
      BY <1>9, <2>2 DEF ReadSettings
    <3>2. Installing(g, "read", Tail(frame[g].todo), {})
      BY <1>1, <2>1, <3>1, AfterSet
    <3>3. Adapter(g) \in Addition(g, Target(g))
      BY <1>6, <2>1, <2>2 DEF Addition, AdapterShape
    <3>4. Has(Adapter(g), Target(g))
      BY <2>1, <2>2, <3>3 DEF Has
    <3>5. Target(g) # Activation
      BY <2>2 DEF Dependencies, Ignored, Activation
    <3>6. Leaves(g)
      BY <2>1, <3>2, <3>4, <3>5 DEF Leaves
    <3> QED
      BY <1>7, <3>6 DEF AdapterMoves
  <2>3. CASE ~(/\ Target(g) \in {Dependencies, Ignored}
               /\ Addition(g, Target(g)) \subseteq settings[Target(g)])
    <3>1. frame' = [frame EXCEPT ![g] = [@ EXCEPT
            !.pc = "truncate", !.entries = settings[Target(g)]]]
      BY <1>9, <2>3 DEF ReadSettings
    <3>2. settings[Target(g)] \in SUBSET Adapters
      BY <1>2, <2>1
    <3>3. Installing(g, "truncate", frame[g].todo, settings[Target(g)])
      BY <1>1, <3>1, <3>2, ReadSet
    <3>4. Reads(g)
      BY <2>1, <3>3 DEF Reads
    <3> QED
      BY <1>7, <3>4 DEF AdapterMoves
  <2> QED
    BY <2>2, <2>3
<1>10. ASSUME NEW pc \in Points, Goto(g, pc)
       PROVE  Installing(g, pc, frame[g].todo, frame[g].entries)
  BY <1>1, <1>10, Goes DEF Becomes, Carries, Installing
<1>11. CASE Truncate(g)
  BY <1>7, <1>10, <1>11 DEF Truncate, files, Truncates, AdapterMoves, Points
<1>12. CASE Fill(g)
  <2>1. frame[g].todo # << >>
    BY <1>12 DEF Fill, AdapterShape, At
  <2>2. Installing(g, "read", Tail(frame[g].todo), {})
    BY <1>1, <1>12, <2>1, AfterSet DEF Fill
  <2> QED
    BY <1>7, <1>12, <2>2 DEF Fill, files, FillsIt, AdapterMoves
<1>13. CASE LookExtension(g)
  <2>1. /\ At(g, "read") /\ frame[g].todo # << >> /\ Target(g) \in Paths
        /\ UNCHANGED <<settings, torn, tree>>
    BY <1>13 DEF LookExtension, files
  <2>2. CASE Exists(Target(g))
    <3>1. frame' = [frame EXCEPT ![g] = AfterTarget(g)]
      BY <1>13, <2>2 DEF LookExtension
    <3>2. Installing(g, "read", Tail(frame[g].todo), {})
      BY <1>1, <2>1, <3>1, AfterSet
    <3>3. Target(g) # Activation
      BY <2>1, PathsApart DEF SettingsFiles
    <3>4. Target(g) \notin SettingsFiles
      BY <2>1, PathsApart
    <3>5. Has(Adapter(g), Target(g))
      BY <2>2, <3>4 DEF Has
    <3>6. Leaves(g)
      BY <2>1, <3>2, <3>3, <3>5 DEF Leaves
    <3> QED
      BY <1>7, <3>6 DEF AdapterMoves
  <2>3. CASE ~Exists(Target(g))
    <3>1. frame' = [frame EXCEPT ![g] = [@ EXCEPT !.pc = "scaffold"]]
      BY <1>13, <2>3 DEF LookExtension
    <3>2. Goto(g, "scaffold")
      BY <3>1 DEF Goto
    <3>3. Installing(g, "scaffold", frame[g].todo, frame[g].entries)
      BY <1>10, <3>2 DEF Points
    <3>4. Passes(g, "scaffold")
      BY <2>1, <2>3, <3>3 DEF Passes, At
    <3> QED
      BY <1>7, <3>4 DEF AdapterMoves, Points
  <2> QED
    BY <2>2, <2>3
<1>14. CASE WriteExtension(g)
  <2>1. frame[g].todo # << >> /\ Target(g) = Extension(Adapter(g)) /\ At(g, "scaffold")
    BY <1>14 DEF WriteExtension, AdapterShape, At
  <2>2. Installing(g, "read", Tail(frame[g].todo), {})
    BY <1>1, <1>14, <2>1, AfterSet DEF WriteExtension
  <2>3. PICK inode \in {tree[Target(g)].by, g} :
          inode = IF Exists(Target(g)) THEN tree[Target(g)].by ELSE g
    OBVIOUS
  <2>4. PICK file : file = [Rendered(g) EXCEPT !.by = inode]
    OBVIOUS
  <2>5. tree' = [tree EXCEPT ![Target(g)] = file]
    BY <1>14, <2>3, <2>4 DEF WriteExtension
  <2>6. file = [by |-> inode, kind |-> "rendered", entries |-> {}]
    BY <2>4 DEF Rendered
  <2>7. Target(g) \in Paths
    BY <1>1, <2>1, PathsApart
  <2>8. inode \in Commands \union {"nobody", "project", "developer"}
    BY <1>1, <2>3, <2>7 DEF TreeOK, Files
  <2>9. /\ file \in Files /\ file # Absent /\ file.kind # "developer"
        /\ file.by \in {tree[Target(g)].by, g}
    BY <2>6, <2>8 DEF Files, FileKinds, Absent
  <2>10. UNCHANGED <<settings, torn>>
    BY <1>14 DEF WriteExtension
  <2>11. Extends(g)
    BY <2>1, <2>2, <2>5, <2>9, <2>10 DEF Extends
  <2> QED
    BY <1>7, <2>11 DEF AdapterMoves
<1>15. CASE AdapterInstalled(g)
  <2>1. Passes(g, "load")
    BY <1>10, <1>15 DEF AdapterInstalled, files, Passes, Points, At
  <2> QED
    BY <1>7, <2>1 DEF AdapterMoves, Points
<1>16. CASE InstallFails(g)
  <2>1. Passes(g, "refused")
    BY <1>10, <1>16 DEF InstallFails, contents, Passes, Points, At
  <2> QED
    BY <1>7, <2>1 DEF AdapterMoves, Points
<1> QED
  BY <1>8, <1>9, <1>11, <1>12, <1>13, <1>14, <1>15, <1>16 DEF AdapterStep

\* A command that installs an adapter, recording included.
AdapterActs(g) == Installs(g) /\ (AdapterStep(g) \/ Record(g) \/ Killed(g))

\* Whatever an adapter does, recorded or killed, is one of its moves.
LEMMA AdapterActing ==
  ASSUME Types, NEW g \in Commands, AdapterShape(g), AdapterActs(g)
  PROVE  /\ AdapterMoves(g) /\ UNCHANGED <<request, removed, mine, late>>
         /\ attic \subseteq attic' /\ ~At(g, "held")
<1>1. CASE AdapterStep(g)
  BY <1>1, AdapterMoving
<1>2. ~At(g, "held") /\ Installs(g)
  BY DEF AdapterActs, AdapterShape, At
<1>3. CASE Record(g)
  <2>1. PICK pc \in {"save", "done", "unrecorded"} :
          Becomes(g, pc, frame[g].todo, frame[g].originals, frame[g].undo,
                  frame[g].held, frame[g].spoiled)
    BY <1>3, RecordMoves
  <2>2. frame'[g].entries = frame[g].entries
    <3>1. frame[g] \in Frames /\ FramesOK
      BY DEF Types, FramesOK
    <3>2. CASE Load(g)
      <4>1. PICK f : f = [frame[g] EXCEPT !.pc = "save", !.steps = recipe]
        OBVIOUS
      <4>2. frame'[g] = f
        BY <3>1, <3>2, <4>1 DEF Load, FramesOK
      <4>3. f = [pc |-> "save", todo |-> frame[g].todo, originals |-> frame[g].originals,
                 undo |-> frame[g].undo, held |-> frame[g].held,
                 spoiled |-> frame[g].spoiled, entries |-> frame[g].entries,
                 composed |-> frame[g].composed, steps |-> recipe]
        BY <3>1, <4>1 DEF Frames
      <4> QED
        BY <4>2, <4>3
    <3>3. CASE Save(g)
      BY <3>1, <3>3, Goes DEF Save, Carries, Points
    <3>4. CASE RecordFails(g)
      BY <3>1, <3>4, Goes DEF RecordFails, Carries, Points
    <3> QED
      BY <1>3, <3>2, <3>3, <3>4 DEF Record
  <2>3. Installing(g, pc, frame[g].todo, frame[g].entries)
    BY <2>1, <2>2 DEF Becomes, Installing
  <2>4. /\ UNCHANGED <<tree, attic, request, removed, mine, late>>
        /\ frame[g].pc \in {"load", "save"}
    BY <1>3, RecordMoves
  <2>5. UNCHANGED <<settings, torn>>
    BY <1>3 DEF Record, Load, Save, RecordFails
  <2>6. frame[g].todo = << >>
    BY <2>4 DEF AdapterShape
  <2>7. Passes(g, pc)
    BY <2>3, <2>4, <2>5, <2>6 DEF Passes, At
  <2> QED
    BY <1>2, <2>4, <2>7 DEF AdapterMoves, Points
<1>4. CASE Killed(g)
  <2>1. /\ UNCHANGED <<tree, request, removed, mine, late>> /\ attic \subseteq attic'
    BY <1>4, KilledMoves
  <2>2. Goto(g, "killed") /\ frame[g].pc \in {"load", "save"} /\ UNCHANGED <<settings, torn>>
    BY <1>2, <1>4 DEF Killed
  <2>3. Installing(g, "killed", frame[g].todo, frame[g].entries)
    BY <2>2, Goes DEF Types, Becomes, Carries, Installing, Points
  <2>4. Passes(g, "killed")
    BY <2>1, <2>2, <2>3 DEF Passes, At
  <2> QED
    BY <1>2, <2>1, <2>4 DEF AdapterMoves, Points
<1> QED
  BY <1>1, <1>3, <1>4 DEF AdapterActs

\* The file a command is about to see to is the first of those that remain.
LEMMA AdapterTarget ==
  ASSUME Types, NEW g \in Commands, Installs(g), AdapterShape(g), frame[g].todo # << >>
  PROVE  /\ Target(g) \in SettingsFiles \union {Extension(Adapter(g))}
         /\ Tail(frame[g].todo) \in Seq(SettingsFiles \union {Extension(Adapter(g))})
         /\ Distinct(Tail(frame[g].todo))
         /\ ToSet(Tail(frame[g].todo)) = ToSet(frame[g].todo) \ {Target(g)}
         /\ \A i \in 1..Len(Tail(frame[g].todo)) :
              Tail(frame[g].todo)[i] = Activation => i = Len(Tail(frame[g].todo))
         /\ Target(g) = Activation => Tail(frame[g].todo) = << >>
         /\ Target(g) \in Paths => Target(g) = Extension(Adapter(g))
         /\ Extension(Adapter(g)) \in Paths \ Blueprinted
         /\ Extension(Adapter(g)) \in Sources /\ Extension(Adapter(g)) \notin SettingsFiles
<1>1. PICK S : S = SettingsFiles \union {Extension(Adapter(g))}
  OBVIOUS
<1>2. /\ frame[g].todo \in Seq(S) /\ Distinct(frame[g].todo)
      /\ \A i \in 1..Len(frame[g].todo) : frame[g].todo[i] = Activation => i = Len(frame[g].todo)
  BY <1>1 DEF AdapterShape
<1>3. PICK t \in Seq(S) : t = Tail(frame[g].todo)
  BY <1>2, TailSet
<1>4. /\ Len(t) = Len(frame[g].todo) - 1 /\ Len(frame[g].todo) \in Nat \ {0}
      /\ \A i \in 1..(Len(frame[g].todo) - 1) : t[i] = frame[g].todo[i + 1]
      /\ ToSet(frame[g].todo) = ToSet(t) \union {Target(g)} /\ Target(g) = frame[g].todo[1]
      /\ Distinct(t) /\ Target(g) \notin ToSet(t) /\ Target(g) \in S
  BY <1>2, <1>3, TailSet DEF Target
<1>5. PICK n \in Nat : n = Len(t) /\ Len(frame[g].todo) = n + 1
  BY <1>4
<1>6. \A i \in 1..n : t[i] = Activation => i = n
  <2>1. \A i \in 1..n : i + 1 \in 1..(n + 1) /\ t[i] = frame[g].todo[i + 1]
    BY <1>4, <1>5
  <2>2. \A i \in 1..(n + 1) : frame[g].todo[i] = Activation => i = n + 1
    BY <1>2, <1>5
  <2> QED
    BY <2>1, <2>2
<1>7. Target(g) = Activation => t = << >>
  <2>1. 1 \in 1..(n + 1) /\ Len(frame[g].todo) = n + 1
    BY <1>5
  <2>2. frame[g].todo[1] = Activation => 1 = n + 1
    BY <1>2, <2>1
  <2>3. Target(g) = Activation => n = 0
    BY <1>4, <2>2
  <2> QED
    BY <1>3, <1>5, <2>3
<1>8. Adapter(g) \in Adapters
  BY Kinds DEF Types
<1> QED
  BY <1>1, <1>3, <1>4, <1>5, <1>6, <1>7, <1>8, PathsApart

\* A move of an adapter keeps its shape.
LEMMA AdapterKeepsShape ==
  ASSUME Types, NEW g \in Commands, Installs(g), AdapterShape(g), AdapterMoves(g),
         UNCHANGED <<request, late>>
  PROVE  AdapterShape(g)'
<1>1. Adapter(g)' = Adapter(g) /\ Adapter(g) \in Adapters
  BY Kinds DEF Types, Adapter
<1>2. Target(g)' = Head(frame'[g].todo)
  BY DEF Target
<1>3. settings \in [SettingsFiles -> SUBSET Adapters]
  BY DEF Types
<1>4. CASE \E activate \in BOOLEAN : Plans(g, activate)
  <2>1. PICK activate \in BOOLEAN : Plans(g, activate)
    BY <1>4
  <2>2. PICK todo : todo = Installation(Adapter(g), activate)
    OBVIOUS
  <2>3. /\ todo \in Seq(SettingsFiles \union {Extension(Adapter(g))}) /\ Distinct(todo)
        /\ \A i \in 1..Len(todo) : todo[i] = Activation => i = Len(todo)
        /\ Ignored \in ToSet(todo) => Adapter(g) \in Observers
    BY <1>1, <2>2, InstallationFiles
  <2>4. /\ frame'[g].pc = "read" /\ frame'[g].todo = todo
        /\ frame'[g].entries = frame[g].entries
    BY <2>1, <2>2 DEF Plans, Installing
  <2> QED
    BY <1>1, <2>3, <2>4 DEF AdapterShape
<1>5. CASE /\ frame[g].todo # << >>
           /\ frame'[g].pc = "read" /\ frame'[g].todo = Tail(frame[g].todo)
           /\ frame'[g].entries = {}
  BY <1>1, <1>5, AdapterTarget DEF AdapterShape
<1>6. CASE Reads(g) \/ Truncates(g)
  <2>1. /\ frame'[g].pc \in {"truncate", "fill"} /\ frame'[g].todo = frame[g].todo
        /\ frame'[g].entries \subseteq Adapters /\ frame[g].todo # << >>
        /\ Target(g) \in SettingsFiles
    BY <1>3, <1>6 DEF Reads, Truncates, Installing, AdapterShape, At
  <2>2. Target(g)' = Target(g)
    BY <1>2, <2>1 DEF Target
  <2> QED
    BY <1>1, <2>1, <2>2 DEF AdapterShape
<1>7. CASE \E pc \in Points : Passes(g, pc)
  <2>1. PICK pc \in Points : Passes(g, pc)
    BY <1>7
  <2>2. /\ frame'[g].pc = pc /\ frame'[g].todo = frame[g].todo
        /\ frame'[g].entries = frame[g].entries /\ tree' = tree
        /\ pc \in {"scaffold", "refused", "load", "save", "done", "unrecorded", "killed"}
        /\ pc \in {"load", "save", "done"} => frame[g].todo = << >>
        /\ pc = "scaffold" =>
             frame[g].todo # << >> /\ Target(g) \in Paths /\ ~Exists(Target(g))
    BY <2>1 DEF Passes, Installing
  <2>3. Target(g)' = Target(g)
    BY <2>2 DEF Target
  <2>4. pc = "scaffold" => Target(g) = Extension(Adapter(g)) /\ tree[Target(g)].kind # "developer"
    BY <2>2, AdapterTarget, RenderedFile DEF Exists
  <2> QED
    BY <1>1, <2>2, <2>3, <2>4 DEF AdapterShape
<1>8. CASE Leaves(g) \/ FillsIt(g) \/ Extends(g)
  <2>1. frame[g].todo # << >>
    BY <1>8 DEF Leaves, FillsIt, Extends, AdapterShape, At
  <2> QED
    BY <1>5, <1>8, <2>1 DEF Leaves, FillsIt, Extends, Installing
<1> QED
  BY <1>4, <1>6, <1>7, <1>8 DEF AdapterMoves

\* An adapter leaves the files of blueprints and of the developer alone.
LEMMA AdapterElsewhere ==
  ASSUME Types, NEW g \in Commands, AdapterShape(g), AdapterActs(g)
  PROVE  /\ Elsewhere(g) /\ settings' \in [SettingsFiles -> SUBSET Adapters]
<1>1. /\ AdapterMoves(g) /\ UNCHANGED <<request, removed, mine, late>>
      /\ attic \subseteq attic' /\ ~At(g, "held")
  BY AdapterActing
<1>2. Installs(g) /\ Adapter(g) \in Adapters
  BY Kinds DEF Types, AdapterActs
<1>3. FramesOK' /\ \A h \in Commands \ {g} : frame'[h] = frame[h]
  BY <1>1 DEF AdapterMoves, Plans, Leaves, Reads, Truncates, FillsIt, Extends, Passes,
              Installing
<1>4. settings \in [SettingsFiles -> SUBSET Adapters] /\ TreeOK
  BY DEF Types
<1>5. settings' \in [SettingsFiles -> SUBSET Adapters]
  <2>1. CASE Truncates(g)
    BY <1>4, <2>1 DEF Truncates
  <2>2. CASE FillsIt(g)
    <3>1. Kept(g, Target(g)) \union Addition(g, Target(g)) \subseteq Adapters
      BY <1>2, ObserversAssumption DEF Kept, Addition, AdapterShape
    <3> QED
      BY <1>4, <2>2, <3>1 DEF FillsIt
  <2>3. CASE UNCHANGED settings
    BY <1>4, <2>3
  <2> QED
    BY <1>1, <2>1, <2>2, <2>3 DEF AdapterMoves, Plans, Leaves, Reads, Extends, Passes
<1>6. CASE Extends(g)
  <2>1. PICK file \in Files :
          /\ tree' = [tree EXCEPT ![Target(g)] = file]
          /\ file # Absent /\ file.kind # "developer" /\ file.by \in {tree[Target(g)].by, g}
    BY <1>6 DEF Extends
  <2>2. /\ frame[g].todo # << >> /\ Target(g) = Extension(Adapter(g))
        /\ Target(g) \in late \/ tree[Target(g)].kind # "developer"
    BY <1>6 DEF Extends, AdapterShape, At
  <2>3. Target(g) \in Paths \ Blueprinted
    BY <1>2, <2>2, AdapterTarget
  <2>4. TreeOK' /\ tree'[Target(g)] = file /\ \A p \in Paths \ {Target(g)} : tree'[p] = tree[p]
    BY <1>4, <2>1, <2>3 DEF TreeOK
  <2>5. Overwrites(g, Target(g))
    <3>1. PICK p : p = Target(g)
      OBVIOUS
    <3>2. /\ tree'[p] = file /\ file # Absent /\ file.kind # "developer"
          /\ file.by \in {tree[p].by, g} /\ (p \in late \/ tree[p].kind # "developer")
      BY <2>1, <2>2, <2>4, <3>1
    <3>3. Exists(p)'
      BY <3>2 DEF Exists, Absent
    <3>4. Overwrites(g, p)
      BY <3>2, <3>3 DEF Overwrites
    <3> QED
      BY <3>1, <3>4
  <2>6. \A p \in Blueprinted : tree'[p] = tree[p]
    BY <2>3, <2>4, PathsApart
  <2>7. RequestsOK'
    BY <1>1 DEF Types, RequestsOK
  <2> QED
    BY <1>1, <1>3, <1>5, <2>4, <2>5, <2>6, <2>7 DEF Elsewhere, Turn
<1>7. CASE UNCHANGED tree
  BY <1>1, <1>3, <1>5, <1>7, ElsewhereGoes
<1> QED
  BY <1>1, <1>6, <1>7 DEF AdapterMoves, Plans, Leaves, Reads, Truncates, FillsIt, Passes

-----------------------------------------------------------------------------
(* What the steps keep.                                                     *)

\* A step of a command, and one of the developer.
Acts(g) ==
  /\ \/ BlueprintStep(g) /\ UNCHANGED late
     \/ BindingStep(g) \/ StagingStep(g) \/ AdapterStep(g) \/ Record(g) \/ Killed(g)
Develops ==
  /\ \E p \in Sources : Develop(p)
  /\ Surprises /\ UNCHANGED <<request, frame>>

\* A binding that is recorded or killed.
LEMMA BindingEnds ==
  ASSUME Types, NEW g \in Commands, BindingShape(g), Exposes(g), Record(g) \/ Killed(g)
  PROVE  BindingShape(g)'
<1>1. /\ UNCHANGED <<request, tree, late>> /\ frame'[g].todo = frame[g].todo
      /\ frame'[g].pc \in {"save", "done", "unrecorded", "killed"}
  BY EndsElsewhere
<1>2. frame'[g].entries = frame[g].entries
  <2>1. frame[g] \in Frames /\ FramesOK
    BY DEF Types, FramesOK
  <2>2. CASE Load(g)
    <3>1. PICK f : f = [frame[g] EXCEPT !.pc = "save", !.steps = recipe]
      OBVIOUS
    <3>2. frame'[g] = f
      BY <2>1, <2>2, <3>1 DEF Load, FramesOK
    <3>3. f = [pc |-> "save", todo |-> frame[g].todo, originals |-> frame[g].originals,
               undo |-> frame[g].undo, held |-> frame[g].held,
               spoiled |-> frame[g].spoiled, entries |-> frame[g].entries,
               composed |-> frame[g].composed, steps |-> recipe]
      BY <2>1, <3>1 DEF Frames
    <3> QED
      BY <3>2, <3>3
  <2>3. CASE Save(g)
    BY <2>1, <2>3, Goes DEF Save, Carries, Points
  <2>4. CASE RecordFails(g)
    BY <2>1, <2>4, Goes DEF RecordFails, Carries, Points
  <2>5. CASE Killed(g)
    BY <2>1, <2>5, Goes DEF Killed, Carries, Points
  <2> QED
    BY <2>2, <2>3, <2>4, <2>5 DEF Record
<1>3. ContractOf(g)' = ContractOf(g) /\ Via(g)' = Via(g)
  BY <1>1 DEF ContractOf, Via, UseCase
<1> QED
  BY <1>1, <1>2, <1>3 DEF BindingShape

\* A guide or a replay changes no file of the project.
LEMMA StagingElsewhere ==
  ASSUME Types, NEW g \in Commands, StagingStep(g)
  PROVE  Elsewhere(g) /\ UNCHANGED late
<1>1. PICK pc \in Points : Goto(g, pc)
  <2>1. \A c \in {"run", "note", "rename", "refused", "done"} : c \in Points
    BY DEF Points
  <2> QED
    BY <2>1 DEF StagingStep, BeginProject, RunStep, NoteStep, RenameStaged, StagingFails
<1>2. UNCHANGED <<tree, request, removed, mine, attic, late>> /\ ~At(g, "held")
  BY DEF StagingStep, BeginProject, RunStep, NoteStep, RenameStaged, StagingFails, files,
         contents, At
<1>3. FramesOK' /\ \A h \in Commands \ {g} : frame'[h] = frame[h]
  BY <1>1, Goes DEF Types, Becomes
<1> QED
  BY <1>2, <1>3, ElsewhereGoes

\* Whoever acts, the others' frames stay, and the files change as they may.
LEMMA Acting ==
  ASSUME Types, BlueprintTree, Watched, NEW g \in Commands, Acts(g)
  PROVE  /\ Turn(g) /\ UNCHANGED <<request, removed, mine, late>>
         /\ g \in Blueprints => BlueprintShape(g)' /\ Effects(g)
         /\ g \notin Blueprints => Elsewhere(g)
         /\ Exposes(g) => BindingShape(g)'
         /\ Installs(g) => AdapterShape(g)'
<1>1. /\ g \in Blueprints => BlueprintShape(g) /\ ~Exposes(g) /\ ~Installs(g) /\ g \notin Creators
      /\ Exposes(g) => BindingShape(g) /\ ~Installs(g) /\ g \notin Creators
      /\ Installs(g) => AdapterShape(g) /\ g \notin Creators
  BY Kinds DEF Types, BlueprintTree, Watched
<1>2. CASE g \in Blueprints
  <2>1. BlueprintActs(g) /\ UNCHANGED late
    BY <1>1, <1>2, RecordMoves, KilledMoves
       DEF Acts, BlueprintActs, BindingStep, StagingStep, AdapterStep
  <2>2. BlueprintShape(g)' /\ Effects(g) /\ Turn(g)
    BY <1>1, <1>2, <2>1, BlueprintEffects
  <2>3. UNCHANGED <<request, removed, mine>>
    BY <2>1, BlueprintFrame
  <2> QED
    BY <1>1, <1>2, <2>1, <2>2, <2>3
<1>3. CASE g \notin Blueprints /\ (Record(g) \/ Killed(g))
  <2>1. Elsewhere(g) /\ UNCHANGED late
    BY <1>3, EndsElsewhere
  <2>2. Exposes(g) => BindingShape(g)'
    BY <1>1, <1>3, BindingEnds
  <2>3. Installs(g) => AdapterShape(g)'
    BY <1>1, <1>3, <2>1, AdapterActing, AdapterKeepsShape DEF AdapterActs, Elsewhere
  <2> QED
    BY <1>3, <2>1, <2>2, <2>3 DEF Elsewhere
<1>4. CASE BindingStep(g)
  <2>1. Exposes(g) /\ UNCHANGED late
    BY <1>4 DEF BindingStep, PlanBinding, CheckBinding, WriteBinding, WriteBindingFails,
                BindingWritten
  <2>2. BindingShape(g)' /\ Elsewhere(g)
    BY <1>1, <1>4, <2>1, BindingActs
  <2> QED
    BY <1>1, <2>1, <2>2 DEF Elsewhere
<1>5. CASE AdapterStep(g)
  <2>1. AdapterActs(g) /\ Installs(g)
    BY <1>5 DEF AdapterActs, AdapterStep
  <2>2. Elsewhere(g)
    BY <1>1, <2>1, AdapterElsewhere
  <2>3. AdapterShape(g)' /\ UNCHANGED late
    BY <1>1, <2>1, AdapterActing, AdapterKeepsShape
  <2> QED
    BY <1>1, <2>1, <2>2, <2>3 DEF Elsewhere
<1>6. CASE StagingStep(g)
  <2>1. g \in Creators
    BY <1>6 DEF StagingStep
  <2> QED
    BY <1>1, <1>6, <2>1, StagingElsewhere DEF Elsewhere
<1> QED
  BY <1>2, <1>3, <1>4, <1>5, <1>6 DEF Acts, BlueprintStep

\* A blueprint another command leaves alone.
LEMMA SameShape ==
  ASSUME UNCHANGED request, NEW h, frame'[h] = frame[h]
  PROVE  /\ BlueprintShape(h)' <=> BlueprintShape(h)
         /\ \A p : (Owes(h, p)' <=> Owes(h, p)) /\ (HeldAt(h, p)' <=> HeldAt(h, p))
         /\ Stays(h)' <=> Stays(h)
         /\ Newest(h)' = Newest(h)
         /\ \A pc : At(h, pc)' <=> At(h, pc)
<1>1. Feature(h)' = Feature(h) /\ (Creates(h)' <=> Creates(h)) /\ Newest(h)' = Newest(h)
  BY DEF Feature, Creates, Newest
<1>2. Planning(h)' <=> Planning(h)
  BY <1>1 DEF Planning, Text, Rendered, Absent
<1>3. BlueprintShape(h)' <=> BlueprintShape(h)
  BY <1>1, <1>2 DEF BlueprintShape
<1>4. \A p : (Owes(h, p)' <=> Owes(h, p)) /\ (HeldAt(h, p)' <=> HeldAt(h, p))
  BY <1>1 DEF Owes, HeldAt, At
<1>5. \A pc : At(h, pc)' <=> At(h, pc)
  BY DEF At
<1> QED
  BY <1>1, <1>3, <1>4, <1>5 DEF Stays

\* What holds of a path whose file may be a blueprint's.
PathOK(g, p) ==
  /\ Owes(g, p) => tree[p] = Rendered(g) \/ tree[p].kind = "developer"
  /\ Owes(g, p) => \A h \in Blueprints \ {g} : ~Owes(h, p)
  /\ HeldAt(g, p) => frame[g].held = Rendered(g) \/ frame[g].held.kind = "developer"
  /\ HeldAt(g, p) => tree[p] # Rendered(g)
  /\ tree[p] = Rendered(g) /\ ~frame[g].spoiled => Owes(g, p) \/ Stays(g)

\* A blueprint's step leaves the files of blueprints in order, ...
LEMMA EffectsOnTree ==
  ASSUME Types, BlueprintTree, NEW g \in Blueprints, Effects(g), BlueprintShape(g)', Turn(g),
         UNCHANGED <<request, removed>>
  PROVE  BlueprintTree'
<1>1. Blueprints' = Blueprints /\ g \in Commands /\ Blueprints \subseteq Commands
  BY Kinds DEF Types, Blueprints, Asked
<1>2. \A h \in Blueprints \ {g} : frame'[h] = frame[h]
  BY <1>1 DEF Turn
<1>3. \A h \in Blueprints \ {g} :
        /\ BlueprintShape(h)' <=> BlueprintShape(h)
        /\ \A p : (Owes(h, p)' <=> Owes(h, p)) /\ (HeldAt(h, p)' <=> HeldAt(h, p))
        /\ Stays(h)' <=> Stays(h)
  BY <1>2, SameShape
<1>4. \A h \in Blueprints : BlueprintShape(h)'
  BY <1>3 DEF BlueprintTree
<1>5. TreeOK /\ \A h \in Commands : Rendered(h)' = Rendered(h) /\ Rendered(h) # Absent
                /\ Rendered(h).by = h /\ Rendered(h).kind = "rendered"
  BY RenderedFile DEF Types, Rendered
<1>6. \A p \in Paths \ Blueprinted : tree'[p] = tree[p]
  <2>1. CASE Rests(g)
    BY <2>1 DEF Rests
  <2>2. CASE ~Rests(g)
    BY <1>5, <2>2, PathsApart DEF Effects, Publishing, Detaching, PuttingBack, TreeOK
  <2> QED
    BY <2>1, <2>2
<1>7. \A p \in Paths \ Blueprinted : tree'[p].by \notin Blueprints
  BY <1>6 DEF BlueprintTree
<1>8. ASSUME NEW p \in Blueprinted \ removed
      PROVE  \A h \in Blueprints : PathOK(h, p)'
  <2>0. p \in Paths /\ tree \in [Paths -> Files]
    BY <1>5, PathsApart DEF TreeOK
  <2>1. \A h \in Blueprints : PathOK(h, p)
    BY <1>8 DEF BlueprintTree, PathOK
  <2>2. CASE Rests(g)
    <3>1. tree'[p] = tree[p]
      BY <2>2 DEF Rests
    <3>2. /\ Owes(g, p)' => Owes(g, p)
          /\ Owes(g, p) => Owes(g, p)' \/ Stays(g)' \/ frame'[g].spoiled \/ tree[p] = Absent
          /\ HeldAt(g, p)' => HeldAt(g, p) /\ frame'[g].held = frame[g].held
          /\ frame[g].spoiled => frame'[g].spoiled
          /\ Stays(g) => Stays(g)'
      BY <1>8, <2>2 DEF Rests, HeldAt
    <3>3. PathOK(g, p)'
      BY <1>1, <1>3, <1>5, <2>1, <3>1, <3>2 DEF PathOK
    <3>4. ASSUME NEW h \in Blueprints \ {g}
          PROVE  PathOK(h, p)'
      BY <1>1, <1>2, <1>3, <1>5, <2>1, <3>1, <3>2 DEF PathOK
    <3> QED
      BY <3>3, <3>4
  <2>3. ASSUME NEW q \in Blueprinted, Publishing(g, q)
        PROVE  \A h \in Blueprints : PathOK(h, p)'
    <3>1. /\ ~Exists(q) /\ tree' = [tree EXCEPT ![q] = Rendered(g)]
          /\ frame'[g].spoiled = frame[g].spoiled
          /\ Owes(g, p)' <=> Owes(g, p) \/ p = q
          /\ ~HeldAt(g, p) /\ ~HeldAt(g, p)' /\ ~Stays(g)
      BY <1>8, <2>3 DEF Publishing, HeldAt
    <3>2. CASE p = q
      <4>1. tree[p] = Absent /\ tree'[p] = Rendered(g) /\ Owes(g, p)'
        BY <2>0, <3>1, <3>2 DEF Exists
      <4>2. \A h \in Blueprints : ~Owes(h, p)
        BY <1>1, <1>5, <2>1, <4>1, RenderedFile DEF PathOK
      <4>3. PathOK(g, p)'
        BY <1>1, <1>3, <1>5, <3>1, <4>1, <4>2 DEF PathOK
      <4>4. ASSUME NEW h \in Blueprints \ {g}
            PROVE  PathOK(h, p)'
        <5>1. Rendered(g) # Rendered(h)
          BY <1>1, <1>5
        <5>2. ~Owes(h, p)' /\ (HeldAt(h, p)' <=> HeldAt(h, p)) /\ frame'[h] = frame[h]
          BY <1>2, <1>3, <4>2
        <5> QED
          BY <1>1, <1>5, <2>1, <4>1, <5>1, <5>2 DEF PathOK
      <4> QED
        BY <4>3, <4>4
    <3>3. CASE p # q
      <4>1. tree'[p] = tree[p] /\ (Owes(g, p)' <=> Owes(g, p))
        BY <2>0, <3>1, <3>3
      <4>2. PathOK(g, p)'
        BY <1>1, <1>3, <1>5, <2>1, <3>1, <4>1 DEF PathOK
      <4>3. ASSUME NEW h \in Blueprints \ {g}
            PROVE  PathOK(h, p)'
        BY <1>1, <1>2, <1>3, <1>5, <2>1, <3>1, <4>1 DEF PathOK
      <4> QED
        BY <4>2, <4>3
    <3> QED
      BY <3>2, <3>3
  <2>4. ASSUME NEW q \in Blueprinted, Detaching(g, q)
        PROVE  \A h \in Blueprints : PathOK(h, p)'
    <3>1. /\ tree' = [tree EXCEPT ![q] = Absent] /\ Owes(g, q)
          /\ frame'[g].spoiled = frame[g].spoiled /\ frame'[g].held = tree[q]
          /\ Owes(g, p)' <=> Owes(g, p) /\ p # q
          /\ ~HeldAt(g, p) /\ (HeldAt(g, p)' <=> p = q) /\ ~Stays(g)
      BY <1>8, <2>4 DEF Detaching, HeldAt, At, Stays
    <3>2. CASE p = q
      <4>1. tree'[p] = Absent /\ ~Owes(g, p)' /\ \A h \in Blueprints \ {g} : ~Owes(h, p)
        BY <2>0, <2>1, <3>1, <3>2 DEF PathOK
      <4>2. frame'[g].held = Rendered(g) \/ frame'[g].held.kind = "developer"
        BY <2>1, <3>1, <3>2 DEF PathOK
      <4>3. PathOK(g, p)'
        BY <1>1, <1>5, <4>1, <4>2 DEF PathOK
      <4>4. ASSUME NEW h \in Blueprints \ {g}
            PROVE  PathOK(h, p)'
        <5>1. ~Owes(h, p)' /\ (HeldAt(h, p)' <=> HeldAt(h, p)) /\ frame'[h] = frame[h]
          BY <1>2, <1>3, <4>1
        <5> QED
          BY <1>1, <1>5, <2>1, <4>1, <5>1 DEF PathOK
      <4> QED
        BY <4>3, <4>4
    <3>3. CASE p # q
      <4>1. tree'[p] = tree[p] /\ (Owes(g, p)' <=> Owes(g, p)) /\ ~HeldAt(g, p)'
        BY <2>0, <3>1, <3>3
      <4>2. PathOK(g, p)'
        BY <1>1, <1>3, <1>5, <2>1, <3>1, <4>1 DEF PathOK
      <4>3. ASSUME NEW h \in Blueprints \ {g}
            PROVE  PathOK(h, p)'
        BY <1>1, <1>2, <1>3, <1>5, <2>1, <3>1, <4>1 DEF PathOK
      <4> QED
        BY <4>2, <4>3
    <3> QED
      BY <3>2, <3>3
  <2>5. ASSUME NEW q \in Blueprinted, PuttingBack(g, q)
        PROVE  \A h \in Blueprints : PathOK(h, p)'
    <3>1. /\ ~Exists(q) /\ tree' = [tree EXCEPT ![q] = frame[g].held]
          /\ frame'[g].spoiled = frame[g].spoiled
          /\ HeldAt(g, q) /\ frame[g].held # Rendered(g)
          /\ Owes(g, p)' <=> Owes(g, p)
          /\ ~HeldAt(g, p)' /\ ~Stays(g)
      BY <1>8, <2>5 DEF PuttingBack, HeldAt, At, Stays
    <3>2. CASE p = q
      <4>1. tree[p] = Absent /\ tree'[p] = frame[g].held /\ frame[g].held.kind = "developer"
        BY <2>0, <2>1, <3>1, <3>2 DEF Exists, PathOK
      <4>2. \A h \in Blueprints : ~Owes(h, p) /\ tree'[p] # Rendered(h)
        BY <1>1, <1>5, <2>1, <4>1, RenderedFile DEF PathOK
      <4>3. PathOK(g, p)'
        BY <1>1, <1>3, <1>5, <3>1, <4>1, <4>2 DEF PathOK
      <4>4. ASSUME NEW h \in Blueprints \ {g}
            PROVE  PathOK(h, p)'
        <5>1. ~Owes(h, p)' /\ (HeldAt(h, p)' <=> HeldAt(h, p)) /\ frame'[h] = frame[h]
          BY <1>2, <1>3, <4>2
        <5> QED
          BY <1>1, <1>5, <2>1, <4>2, <5>1 DEF PathOK
      <4> QED
        BY <4>3, <4>4
    <3>3. CASE p # q
      <4>1. tree'[p] = tree[p]
        BY <2>0, <3>1, <3>3
      <4>2. PathOK(g, p)'
        BY <1>1, <1>3, <1>5, <2>1, <3>1, <4>1 DEF PathOK
      <4>3. ASSUME NEW h \in Blueprints \ {g}
            PROVE  PathOK(h, p)'
        BY <1>1, <1>2, <1>3, <1>5, <2>1, <3>1, <4>1 DEF PathOK
      <4> QED
        BY <4>2, <4>3
    <3> QED
      BY <3>2, <3>3
  <2> QED
    BY <2>2, <2>3, <2>4, <2>5 DEF Effects
<1>9. Blueprinted' = Blueprinted /\ Paths' = Paths /\ removed' = removed
  BY DEF Blueprinted, Paths, Sources, Models, Package, Entity, Module, Manifest,
         Extension, Contract, Registry, Bindings, Composition
<1> QED
  BY <1>1, <1>4, <1>7, <1>8, <1>9 DEF BlueprintTree, PathOK

\* ... another command's does, ...
LEMMA ElsewhereOnTree ==
  ASSUME Types, BlueprintTree, NEW g \in Commands \ Blueprints, Elsewhere(g)
  PROVE  BlueprintTree'
<1>1. Blueprints' = Blueprints /\ Blueprints \subseteq Commands
  BY Kinds DEF Types, Blueprints, Asked, Elsewhere
<1>2. \A h \in Blueprints : frame'[h] = frame[h]
  BY <1>1 DEF Elsewhere, Turn
<1>3. \A h \in Blueprints :
        /\ BlueprintShape(h)' <=> BlueprintShape(h)
        /\ \A p : (Owes(h, p)' <=> Owes(h, p)) /\ (HeldAt(h, p)' <=> HeldAt(h, p))
        /\ Stays(h)' <=> Stays(h)
  BY <1>2, SameShape DEF Elsewhere
<1>4. \A p \in Paths \ Blueprinted : tree'[p].by \notin Blueprints
  BY DEF Elsewhere, Overwrites, BlueprintTree
<1>5. \A p \in Blueprinted : tree'[p] = tree[p]
  BY DEF Elsewhere
<1>6. removed' = removed /\ \A h \in Blueprints : Rendered(h)' = Rendered(h)
  BY DEF Elsewhere, Rendered
<1> QED
  BY <1>1, <1>2, <1>3, <1>4, <1>5, <1>6 DEF BlueprintTree

\* ... and the developer does.
LEMMA DevelopsOnTree ==
  ASSUME Types, BlueprintTree, Develops
  PROVE  BlueprintTree'
<1>1. Blueprints' = Blueprints /\ Blueprints \subseteq Commands
  BY Kinds DEF Types, Blueprints, Asked, Develops
<1>2. UNCHANGED request /\ UNCHANGED frame
  BY DEF Develops
<1>3. \A h \in Blueprints :
        /\ BlueprintShape(h)' <=> BlueprintShape(h)
        /\ \A p : (Owes(h, p)' <=> Owes(h, p)) /\ (HeldAt(h, p)' <=> HeldAt(h, p))
        /\ Stays(h)' <=> Stays(h)
  BY <1>2, SameShape
<1>4. PICK p \in Sources : Develop(p)
  BY DEF Develops
<1>5. TreeOK /\ p \in Paths
  BY <1>4, PathsApart DEF Types
<1>6. /\ \A q \in Paths \ {p} : tree'[q] = tree[q]
      /\ removed \subseteq removed'
      /\ \/ tree'[p].kind = "developer" /\ tree'[p].by \in {tree[p].by, "developer"}
         \/ tree'[p] = Absent /\ p \in removed'
  BY <1>4, <1>5 DEF Develop, Edit, Add, Delete, Does, TreeOK
<1>7. "developer" \notin Blueprints /\ "nobody" \notin Blueprints
  BY <1>1, FilesAssumption
<1>8. \A q \in Paths \ Blueprinted : tree'[q].by \notin Blueprints
  BY <1>6, <1>7, RenderedFile DEF BlueprintTree, Absent
<1>9. \A h \in Blueprints : Rendered(h)' = Rendered(h) /\ Rendered(h).kind = "rendered"
  BY <1>1, RenderedFile DEF Rendered
<1>10. Blueprinted \subseteq Paths
  BY PathsApart
<1> QED
  BY <1>1, <1>2, <1>3, <1>6, <1>8, <1>9, <1>10 DEF BlueprintTree

\* An installed feature keeps its module, whatever a blueprint does, ...
LEMMA EffectsOnFeatures ==
  ASSUME Types, BlueprintTree, FeaturesWhole, NEW g \in Blueprints, Effects(g), Turn(g),
         UNCHANGED <<request, removed>>
  PROVE  FeaturesWhole'
<1>1. Blueprints' = Blueprints /\ g \in Commands /\ Blueprints \subseteq Commands
  BY Kinds DEF Types, Blueprints, Asked
<1>2. \A h \in Blueprints \ {g} : frame'[h] = frame[h]
  BY <1>1 DEF Turn
<1>3. \A h \in Blueprints \ {g} :
        /\ \A p : Owes(h, p)' <=> Owes(h, p)
        /\ \A pc : At(h, pc)' <=> At(h, pc)
  BY <1>2, SameShape
<1>4. TreeOK /\ \A h \in Commands : Rendered(h) # Absent /\ Absent.kind = "absent"
  BY RenderedFile DEF Types
<1>5. ASSUME NEW f \in Features, Installed(f)', Module(f) \notin removed
      PROVE  /\ Exists(Module(f))'
             /\ \A h \in Blueprints :
                  Owes(h, Module(f))' => At(h, "write")' /\ frame'[h].todo = << >>
  <2>1. PICK m, n : m = Module(f) /\ n = Manifest(f)
    OBVIOUS
  <2>2. m \in Blueprinted /\ n \in Blueprinted /\ m # n /\ m \in Paths /\ n \in Paths
    BY <2>1, PathsApart
  <2>3. tree'[n] # Absent
    BY <1>5, <2>1 DEF Installed, Exists, Absent
  <2>4. ASSUME tree[n] # Absent
        PROVE  /\ tree[m] # Absent
               /\ \A h \in Blueprints :
                    Owes(h, m) => At(h, "write") /\ frame[h].todo = << >>
    BY <1>5, <2>1, <2>4 DEF FeaturesWhole, Installed, Exists
  <2>5. \A h \in Blueprints :
          /\ Owes(h, m) => tree[m] = Rendered(h) \/ tree[m].kind = "developer"
          /\ Owes(h, m) => \A k \in Blueprints \ {h} : ~Owes(k, m)
    BY <1>5, <2>1, <2>2 DEF BlueprintTree
  <2>6. SUFFICES /\ tree'[m] # Absent
                 /\ \A h \in Blueprints :
                      Owes(h, m)' => At(h, "write")' /\ frame'[h].todo = << >>
    BY <2>1 DEF Exists, Absent
  <2>7. CASE Rests(g)
    <3>1. tree'[m] = tree[m] /\ tree[n] # Absent
      BY <2>3, <2>7 DEF Rests
    <3>2. ~Owes(g, m)'
      <4>1. SUFFICES ASSUME Owes(g, m)' PROVE FALSE
        OBVIOUS
      <4>2. Owes(g, m)
        BY <2>2, <2>7, <4>1 DEF Rests
      <4>3. Stays(g)'
        BY <2>4, <2>7, <3>1, <4>2 DEF Rests
      <4> QED
        BY <4>1, <4>3 DEF Owes, Stays, Preparing, Undoing
    <3> QED
      BY <1>2, <1>3, <2>4, <3>1, <3>2
  <2>8. ASSUME NEW q \in Blueprinted, Publishing(g, q)
        PROVE  /\ tree'[m] # Absent
               /\ \A h \in Blueprints :
                    Owes(h, m)' => At(h, "write")' /\ frame'[h].todo = << >>
    <3>1. /\ ~Exists(q) /\ tree' = [tree EXCEPT ![q] = Rendered(g)]
          /\ Owes(g, m)' <=> Owes(g, m) \/ m = q
          /\ ~(At(g, "write") /\ frame[g].todo = << >>)
          /\ q = n => Owes(g, m) /\ At(g, "write")' /\ frame'[g].todo = << >>
      BY <2>1, <2>2, <2>8 DEF Publishing
    <3>2. CASE q = n
      <4>1. tree'[m] = tree[m]
        BY <1>4, <2>2, <3>1, <3>2 DEF TreeOK
      <4>2. tree[m] # Absent /\ \A h \in Blueprints \ {g} : ~Owes(h, m)
        BY <1>1, <1>4, <2>5, <3>1, <3>2
      <4> QED
        BY <1>3, <3>1, <3>2, <4>1, <4>2
    <3>3. CASE q # n
      <4>1. tree'[n] = tree[n]
        BY <1>4, <2>2, <3>1, <3>3 DEF TreeOK
      <4>2. m # q
        BY <2>3, <2>4, <3>1, <4>1 DEF Exists
      <4>3. tree'[m] = tree[m] /\ ~Owes(g, m)'
        BY <1>4, <2>2, <2>3, <2>4, <3>1, <4>1, <4>2 DEF TreeOK
      <4> QED
        BY <1>2, <1>3, <2>3, <2>4, <4>1, <4>3
    <3> QED
      BY <3>2, <3>3
  <2>9. ASSUME NEW q \in Blueprinted, Detaching(g, q)
        PROVE  /\ tree'[m] # Absent
               /\ \A h \in Blueprints :
                    Owes(h, m)' => At(h, "write")' /\ frame'[h].todo = << >>
    <3>1. /\ tree' = [tree EXCEPT ![q] = Absent] /\ q # n
          /\ Owes(g, m)' => Owes(g, m)
          /\ Owes(g, q) /\ ~At(g, "write")
      BY <2>1, <2>2, <2>9 DEF Detaching, At
    <3>2. tree'[n] = tree[n]
      BY <1>4, <2>2, <3>1 DEF TreeOK
    <3>3. m # q
      BY <2>3, <2>4, <3>1, <3>2
    <3>4. tree'[m] = tree[m] /\ ~Owes(g, m)'
      BY <1>4, <2>2, <2>3, <2>4, <3>1, <3>2, <3>3 DEF TreeOK
    <3> QED
      BY <1>2, <1>3, <2>3, <2>4, <3>2, <3>4
  <2>10. ASSUME NEW q \in Blueprinted, PuttingBack(g, q)
         PROVE  /\ tree'[m] # Absent
                /\ \A h \in Blueprints :
                     Owes(h, m)' => At(h, "write")' /\ frame'[h].todo = << >>
    <3>1. /\ tree' = [tree EXCEPT ![q] = frame[g].held] /\ q # n /\ ~Exists(q)
          /\ Owes(g, m)' => Owes(g, m)
          /\ ~At(g, "write")
      BY <2>1, <2>2, <2>10 DEF PuttingBack, HeldAt, At
    <3>2. tree'[n] = tree[n]
      BY <1>4, <2>2, <3>1 DEF TreeOK
    <3>3. m # q
      BY <2>3, <2>4, <3>1, <3>2 DEF Exists
    <3>4. tree'[m] = tree[m] /\ ~Owes(g, m)'
      BY <1>4, <2>2, <2>3, <2>4, <3>1, <3>2, <3>3 DEF TreeOK
    <3> QED
      BY <1>2, <1>3, <2>3, <2>4, <3>2, <3>4
  <2> QED
    BY <2>7, <2>8, <2>9, <2>10 DEF Effects
<1>6. \A f \in Features : Module(f)' = Module(f)
  BY DEF Module
<1> QED
  BY <1>1, <1>5, <1>6 DEF FeaturesWhole

\* ... whatever another command does, ...
LEMMA ElsewhereOnFeatures ==
  ASSUME Types, FeaturesWhole, NEW g \in Commands \ Blueprints, Elsewhere(g)
  PROVE  FeaturesWhole'
<1>1. Blueprints' = Blueprints /\ Blueprints \subseteq Commands
  BY Kinds DEF Types, Blueprints, Asked, Elsewhere
<1>2. \A h \in Blueprints : frame'[h] = frame[h]
  BY <1>1 DEF Elsewhere, Turn
<1>3. \A h \in Blueprints :
        /\ \A p : Owes(h, p)' <=> Owes(h, p)
        /\ \A pc : At(h, pc)' <=> At(h, pc)
  BY <1>2, SameShape DEF Elsewhere
<1>4. \A f \in Features : /\ tree'[Module(f)] = tree[Module(f)]
                          /\ tree'[Manifest(f)] = tree[Manifest(f)]
  BY PathsApart DEF Elsewhere
<1>5. \A f \in Features :
        /\ Installed(f)' <=> Installed(f)
        /\ Exists(Module(f))' <=> Exists(Module(f))
        /\ Module(f)' = Module(f)
  BY <1>4 DEF Installed, Exists, Module, Manifest, Absent
<1>6. removed' = removed
  BY DEF Elsewhere
<1> QED
  BY <1>1, <1>2, <1>3, <1>5, <1>6 DEF FeaturesWhole

\* ... and until the developer deletes it.
LEMMA DevelopsOnFeatures ==
  ASSUME Types, FeaturesWhole, Develops
  PROVE  FeaturesWhole'
<1>1. Blueprints' = Blueprints /\ UNCHANGED request /\ UNCHANGED frame
  BY DEF Blueprints, Asked, Develops
<1>2. \A h \in Blueprints :
        /\ \A p : Owes(h, p)' <=> Owes(h, p)
        /\ \A pc : At(h, pc)' <=> At(h, pc)
  BY <1>1, SameShape
<1>3. PICK p \in Sources : Develop(p)
  BY DEF Develops
<1>4. TreeOK /\ p \in Paths
  BY <1>3, PathsApart DEF Types
<1>5. /\ \A q \in Paths \ {p} : tree'[q] = tree[q]
      /\ removed \subseteq removed'
      /\ tree'[p].kind = "developer" \/ p \in removed'
  BY <1>3, <1>4 DEF Develop, Edit, Add, Delete, Does, TreeOK
<1>6. Absent.kind # "developer" /\ Absent' = Absent
  BY DEF Absent
<1>7. ASSUME NEW f \in Features, Installed(f)', Module(f) \notin removed'
      PROVE  /\ Exists(Module(f))' /\ Installed(f) /\ Module(f) \notin removed
  <2>1. Manifest(f) \in Paths \ {p} /\ Module(f) \in Paths
    BY <1>3, PathsApart
  <2>2. tree'[Manifest(f)] = tree[Manifest(f)]
    BY <1>5, <2>1
  <2>3. Installed(f) /\ Module(f) \notin removed
    BY <1>5, <1>6, <1>7, <2>2 DEF Installed, Exists, Manifest
  <2>4. Exists(Module(f))
    BY <2>3 DEF FeaturesWhole
  <2>5. CASE Module(f) = p
    BY <1>5, <1>6, <1>7, <2>3, <2>5 DEF Exists, Module
  <2>6. CASE Module(f) # p
    <3>1. tree'[Module(f)] = tree[Module(f)]
      BY <1>5, <2>1, <2>6
    <3> QED
      BY <1>6, <2>3, <2>4, <3>1 DEF Exists, Module
  <2> QED
    BY <2>3, <2>5, <2>6
<1>8. \A f \in Features : Module(f)' = Module(f)
  BY DEF Module
<1> QED
  BY <1>1, <1>2, <1>7, <1>8 DEF FeaturesWhole

-----------------------------------------------------------------------------
(* What the developer wrote.                                                *)

WorkKept(p) ==
  \/ tree[p].kind = "developer"
  \/ \E q \in attic : q.path = p /\ q.file.kind = "developer"
  \/ \E g \in Commands : At(g, "held") /\ Newest(g) = p /\ frame[g].held.kind = "developer"

\* No command loses what the developer wrote.
LEMMA CommandsKeepWork ==
  ASSUME Types, DeveloperWorkIsKept, mine \subseteq Sources, NEW g \in Commands, Turn(g),
         UNCHANGED <<request, mine>>, late \subseteq late',
         g \in Blueprints => Effects(g), g \notin Blueprints => Elsewhere(g)
  PROVE  DeveloperWorkIsKept'
<1>1. \A h \in Commands \ {g} : frame'[h] = frame[h]
  BY DEF Turn
<1>2. \A h \in Commands \ {g} : /\ \A pc : At(h, pc)' <=> At(h, pc)
                                /\ Newest(h)' = Newest(h)
  BY <1>1, SameShape
<1>3. TreeOK /\ Absent.kind = "absent"
  BY RenderedFile DEF Types
<1>4. ASSUME NEW p \in mine \ late'
      PROVE  WorkKept(p)'
  <2>0. p \in Paths /\ p \in mine \ late /\ p \in Sources
    BY <1>4, PathsApart
  <2>1. WorkKept(p)
    BY <2>0 DEF DeveloperWorkIsKept, WorkKept
  <2>2. ASSUME NEW h \in Commands \ {g}, At(h, "held"), Newest(h) = p,
               frame[h].held.kind = "developer"
        PROVE  WorkKept(p)'
    BY <1>1, <1>2, <2>2 DEF WorkKept
  <2>3. ASSUME attic \subseteq attic', \E q \in attic : q.path = p /\ q.file.kind = "developer"
        PROVE  WorkKept(p)'
    BY <2>3 DEF WorkKept
  <2>4. CASE Rests(g) /\ g \in Blueprints
    <3>1. /\ tree'[p] = tree[p] /\ attic \subseteq attic'
          /\ At(g, "held") /\ frame[g].held.kind = "developer" =>
               [path |-> Newest(g), file |-> frame[g].held] \in attic'
      BY <2>4 DEF Rests
    <3>2. ASSUME At(g, "held"), Newest(g) = p, frame[g].held.kind = "developer"
          PROVE  WorkKept(p)'
      <4>1. PICK q : q = [path |-> Newest(g), file |-> frame[g].held]
        OBVIOUS
      <4>2. q \in attic' /\ q.path = p /\ q.file.kind = "developer"
        BY <3>1, <3>2, <4>1
      <4> QED
        BY <4>2 DEF WorkKept
    <3>3. ASSUME tree[p].kind = "developer"
          PROVE  WorkKept(p)'
      BY <3>1, <3>3 DEF WorkKept
    <3> QED
      BY <2>1, <2>2, <2>3, <3>1, <3>2, <3>3 DEF WorkKept
  <2>5. ASSUME NEW q \in Blueprinted, Publishing(g, q)
        PROVE  WorkKept(p)'
    <3>1. /\ ~Exists(q) /\ tree' = [tree EXCEPT ![q] = Rendered(g)] /\ attic' = attic
          /\ ~At(g, "held")
      BY <2>5 DEF Publishing
    <3>2. ASSUME tree[p].kind = "developer"
          PROVE  WorkKept(p)'
      <4>1. tree'[p] = tree[p]
        BY <1>3, <2>0, <3>1, <3>2 DEF Exists, TreeOK
      <4> QED
        BY <3>2, <4>1 DEF WorkKept
    <3> QED
      BY <2>1, <2>2, <2>3, <3>1, <3>2 DEF WorkKept
  <2>6. ASSUME NEW q \in Blueprinted, Detaching(g, q)
        PROVE  WorkKept(p)'
    <3>1. /\ tree' = [tree EXCEPT ![q] = Absent] /\ attic' = attic
          /\ ~At(g, "held") /\ frame'[g].held = tree[q] /\ At(g, "held")' /\ Newest(g)' = q
      BY <2>6 DEF Detaching, At
    <3>2. ASSUME tree[p].kind = "developer"
          PROVE  WorkKept(p)'
      <4>1. CASE p = q
        BY <3>1, <3>2, <4>1 DEF WorkKept
      <4>2. CASE p # q
        <5>1. tree'[p] = tree[p]
          BY <1>3, <2>0, <3>1, <4>2 DEF TreeOK
        <5> QED
          BY <3>2, <5>1 DEF WorkKept
      <4> QED
        BY <4>1, <4>2
    <3> QED
      BY <2>1, <2>2, <2>3, <3>1, <3>2 DEF WorkKept
  <2>7. ASSUME NEW q \in Blueprinted, PuttingBack(g, q)
        PROVE  WorkKept(p)'
    <3>1. /\ tree' = [tree EXCEPT ![q] = frame[g].held] /\ attic' = attic
          /\ ~Exists(q) /\ At(g, "held") /\ Newest(g) = q /\ q \in Paths
      BY <2>7, PathsApart DEF PuttingBack, HeldAt
    <3>2. ASSUME tree[p].kind = "developer"
          PROVE  WorkKept(p)'
      <4>1. tree'[p] = tree[p]
        BY <1>3, <2>0, <3>1, <3>2 DEF Exists, TreeOK
      <4> QED
        BY <3>2, <4>1 DEF WorkKept
    <3>3. ASSUME Newest(g) = p, frame[g].held.kind = "developer"
          PROVE  WorkKept(p)'
      <4>1. tree'[p] = frame[g].held
        BY <1>3, <3>1, <3>3 DEF TreeOK
      <4> QED
        BY <3>3, <4>1 DEF WorkKept
    <3> QED
      BY <2>1, <2>2, <2>3, <3>1, <3>2, <3>3 DEF WorkKept
  <2>8. CASE g \notin Blueprints
    <3>1. /\ attic \subseteq attic'
          /\ At(g, "held") => [path |-> Newest(g), file |-> frame[g].held] \in attic'
          /\ tree'[p] = tree[p] \/ tree[p].kind # "developer"
      BY <2>0, <2>8 DEF Elsewhere, Overwrites
    <3>2. ASSUME At(g, "held"), Newest(g) = p, frame[g].held.kind = "developer"
          PROVE  WorkKept(p)'
      <4>1. PICK q : q = [path |-> Newest(g), file |-> frame[g].held]
        OBVIOUS
      <4>2. q \in attic' /\ q.path = p /\ q.file.kind = "developer"
        BY <3>1, <3>2, <4>1
      <4> QED
        BY <4>2 DEF WorkKept
    <3>3. ASSUME tree[p].kind = "developer"
          PROVE  WorkKept(p)'
      BY <3>1, <3>3 DEF WorkKept
    <3> QED
      BY <2>1, <2>2, <2>3, <3>1, <3>2, <3>3 DEF WorkKept
  <2> QED
    BY <2>4, <2>5, <2>6, <2>7, <2>8 DEF Effects
<1> QED
  BY <1>4 DEF DeveloperWorkIsKept, WorkKept

\* Nor does the developer, who has it no longer when it is deleted.
LEMMA DeveloperKeepsWork ==
  ASSUME Types, DeveloperWorkIsKept, mine \subseteq Sources, Develops
  PROVE  DeveloperWorkIsKept' /\ mine' \subseteq Sources
<1>1. UNCHANGED frame /\ UNCHANGED request
  BY DEF Develops
<1>2. PICK p \in Sources : Develop(p)
  BY DEF Develops
<1>3. TreeOK /\ p \in Paths
  BY <1>2, PathsApart DEF Types
<1>4. /\ \A q \in Paths \ {p} : tree'[q] = tree[q]
      /\ attic' = attic
      /\ \/ tree'[p].kind = "developer" /\ mine' = mine \union {p}
         \/ mine' = mine \ {p}
  BY <1>2, <1>3 DEF Develop, Edit, Add, Delete, Does, TreeOK
<1>5. mine' \subseteq Sources /\ late \subseteq late'
  BY <1>4 DEF Develops, Surprises
<1>6. \A h \in Commands : (\A pc : At(h, pc)' <=> At(h, pc)) /\ Newest(h)' = Newest(h)
  BY <1>1, SameShape
<1>7. ASSUME NEW q \in mine' \ late'
      PROVE  WorkKept(q)'
  <2>1. CASE q = p
    BY <1>4, <1>7, <2>1 DEF WorkKept
  <2>2. CASE q # p
    <3>1. q \in mine \ late /\ q \in Paths
      BY <1>4, <1>5, <1>7, <2>2, PathsApart
    <3>2. WorkKept(q) /\ tree'[q] = tree[q]
      BY <1>4, <2>2, <3>1 DEF DeveloperWorkIsKept, WorkKept
    <3> QED
      BY <1>1, <1>4, <1>6, <3>2 DEF WorkKept
  <2> QED
    BY <2>1, <2>2
<1> QED
  BY <1>5, <1>7 DEF DeveloperWorkIsKept, WorkKept

-----------------------------------------------------------------------------
(* What a binding or an adapter has looked at.                              *)

\* The developer's files a command still has to write are no more the developer's
\* than they were, or the developer is late.
Seen ==
  /\ late \subseteq late'
  /\ \A p \in ((Unseen \union Unscaffolded) \intersect Sources) \ Blueprinted :
       tree'[p].kind # "developer" \/ tree[p].kind = "developer" \/ p \in late'

\* What a command has looked at is as it was, if it does nothing itself.
LEMMA StillWatched ==
  ASSUME Types, Seen, UNCHANGED request, NEW h \in Commands, frame'[h] = frame[h]
  PROVE  /\ Exposes(h) /\ BindingShape(h) => BindingShape(h)'
         /\ Installs(h) /\ AdapterShape(h) => AdapterShape(h)'
<1>1. /\ ContractOf(h)' = ContractOf(h) /\ Via(h)' = Via(h) /\ Adapter(h)' = Adapter(h)
      /\ Target(h)' = Target(h)
  BY DEF ContractOf, Via, UseCase, Adapter, Target
<1>2. ASSUME Exposes(h), BindingShape(h)
      PROVE  BindingShape(h)'
  <2>1. ContractOf(h) \in Sources \ Blueprinted
    BY <1>2, Kinds, PathsApart DEF Types, ContractOf
  <2>2. frame[h].pc = "write" /\ ContractOf(h) \in ToSet(frame[h].todo) =>
          ContractOf(h) \in Unseen
    BY <1>2 DEF Unseen, At
  <2>3. frame[h].pc = "write" /\ ContractOf(h) \in ToSet(frame[h].todo) =>
          ContractOf(h) \in late' \/ tree'[ContractOf(h)].kind # "developer"
    BY <1>2, <2>1, <2>2 DEF Seen, BindingShape
  <2> QED
    BY <1>1, <1>2, <2>3 DEF BindingShape, Text, Absent
<1>3. ASSUME Installs(h), AdapterShape(h)
      PROVE  AdapterShape(h)'
  <2>1. Extension(Adapter(h)) \in Sources \ Blueprinted
    BY <1>3, Kinds, PathsApart DEF Types
  <2>2. frame[h].pc = "scaffold" => Target(h) \in Unscaffolded
    BY <1>3 DEF Unscaffolded, At
  <2>3. frame[h].pc = "scaffold" => Target(h) \in late' \/ tree'[Target(h)].kind # "developer"
    BY <1>3, <2>1, <2>2 DEF Seen, AdapterShape
  <2> QED
    BY <1>1, <1>3, <2>3 DEF AdapterShape
<1> QED
  BY <1>2, <1>3

\* A command writes no file as the developer's, except to put one back ...
LEMMA ActingSeen ==
  ASSUME Types, NEW g \in Commands, UNCHANGED late,
         g \in Blueprints => Effects(g), g \notin Blueprints => Elsewhere(g)
  PROVE  Seen
<1>1. TreeOK
  BY DEF Types
<1>2. ASSUME NEW p \in Sources \ Blueprinted
      PROVE  tree'[p].kind # "developer" \/ tree[p].kind = "developer"
  <2>1. p \in Paths
    BY <1>2, PathsApart
  <2>2. CASE g \in Blueprints
    <3>1. tree'[p] = tree[p]
      BY <1>1, <1>2, <2>1, <2>2, PathsApart
         DEF Effects, Rests, Publishing, Detaching, PuttingBack, TreeOK
    <3> QED
      BY <3>1
  <2>3. CASE g \notin Blueprints
    BY <2>1, <2>3 DEF Elsewhere, Overwrites
  <2> QED
    BY <2>2, <2>3
<1> QED
  BY <1>2 DEF Seen

\* ... and what the developer changes after a command's last look is noted.
LEMMA DevelopsSeen ==
  ASSUME Types, Develops
  PROVE  Seen
<1>1. \A p \in (Unseen \union Unscaffolded) \intersect Sources :
        tree'[p] = tree[p] \/ p \in late'
  BY DEF Develops, Surprises
<1>2. late \subseteq late'
  BY DEF Develops, Surprises
<1> QED
  BY <1>1, <1>2 DEF Seen

\* A command's step leaves what bindings and adapters have looked at, ...
LEMMA ActsWatched ==
  ASSUME Types, BlueprintTree, Watched, NEW g \in Commands, Acts(g)
  PROVE  Watched'
<1>1. /\ Turn(g) /\ UNCHANGED <<request, removed, mine, late>>
      /\ g \in Blueprints => Effects(g)
      /\ g \notin Blueprints => Elsewhere(g)
      /\ Exposes(g) => BindingShape(g)'
      /\ Installs(g) => AdapterShape(g)'
  BY Acting
<1>2. Seen
  BY <1>1, ActingSeen
<1>3. \A h \in Commands : (Exposes(h)' <=> Exposes(h)) /\ (Installs(h)' <=> Installs(h))
  BY <1>1 DEF Exposes, Installs
<1>4. ASSUME NEW h \in Commands \ {g}
      PROVE  /\ Exposes(h)' => BindingShape(h)'
             /\ Installs(h)' => AdapterShape(h)'
  BY <1>1, <1>2, <1>3, StillWatched DEF Watched, Turn
<1> QED
  BY <1>1, <1>3, <1>4 DEF Watched

\* ... and so does the developer, as far as it is not noted as late.
LEMMA DevelopsWatched ==
  ASSUME Types, Watched, Develops
  PROVE  Watched'
<1>1. UNCHANGED request /\ UNCHANGED frame
  BY DEF Develops
<1>2. Seen
  BY DevelopsSeen
<1>3. \A h \in Commands : (Exposes(h)' <=> Exposes(h)) /\ (Installs(h)' <=> Installs(h))
  BY <1>1 DEF Exposes, Installs
<1>4. ASSUME NEW h \in Commands
      PROVE  /\ Exposes(h)' => BindingShape(h)'
             /\ Installs(h)' => AdapterShape(h)'
  BY <1>1, <1>2, <1>3, StillWatched DEF Watched
<1> QED
  BY <1>4 DEF Watched

-----------------------------------------------------------------------------
(* A new project.                                                           *)

Stages == [by : Commands, ran : Nat, recorded : Nat]

\* A step of the guide or of a replay on the directory it has staged.
LEMMA StageSet ==
  ASSUME stage \in [Commands -> Stages], NEW g \in Commands, NEW s \in Stages,
         stage' = [stage EXCEPT ![g] = s]
  PROVE  /\ stage' \in [Commands -> Stages] /\ stage'[g] = s
         /\ \A h \in Commands \ {g} : stage'[h] = stage[h]
OBVIOUS

\* What a step leaves is what it leaves of that directory, and the target if it is
\* renamed.
LEMMA StagingKeeps ==
  ASSUME Types, StagesOK, NEW g \in Commands, StagingStep(g)
  PROVE  StagesOK'
<1>1. /\ g \in Creators /\ FramesOK /\ UNCHANGED request
      /\ stage \in [Commands -> Stages] /\ Steps \in Nat \ {0}
      /\ target \in [by : Commands \union {"nobody", "developer"}, ran : Nat, recorded : Nat]
  BY StepsAssumption DEF StagingStep, BeginProject, RunStep, NoteStep, RenameStaged,
       StagingFails, Types, StagesOK, Stages
<1>2. PICK ran \in 0..Steps, recorded \in 0..Steps :
        stage[g] = [by |-> g, ran |-> ran, recorded |-> recorded]
  BY <1>1 DEF StagesOK, StageShape
<1>3. /\ stage[g].ran = ran /\ stage[g].recorded = recorded /\ ran \in Nat /\ recorded \in Nat
      /\ Unstaged(g) = [by |-> g, ran |-> 0, recorded |-> 0]
      /\ frame[g].originals = {} /\ 0 \in 0..Steps /\ 0 < Steps
  <2>1. stage[g].ran = ran /\ stage[g].recorded = recorded
    BY <1>2
  <2>2. ran \in Nat /\ recorded \in Nat /\ 0 \in 0..Steps /\ 0 < Steps
    BY <1>1
  <2>3. frame[g].originals = {}
    BY <1>1 DEF StagesOK, StageShape
  <2> QED
    BY <2>1, <2>2, <2>3 DEF Unstaged
<1>4. Creators' = Creators /\ (Guides(g)' <=> Guides(g)) /\ Unstaged(g)' = Unstaged(g)
  BY <1>1 DEF Creators, Asked, Guides, Unstaged
<1>5. PICK pc \in Points : Goto(g, pc)
  <2>1. \A c \in {"run", "note", "rename", "refused", "done"} : c \in Points
    BY DEF Points
  <2> QED
    BY <2>1 DEF StagingStep, BeginProject, RunStep, NoteStep, RenameStaged, StagingFails
<1>6. /\ FramesOK' /\ \A h \in Commands \ {g} : frame'[h] = frame[h]
      /\ frame'[g].pc = pc /\ frame'[g].originals = {}
  BY <1>1, <1>3, <1>5, Goes DEF Becomes
<1>7. ASSUME NEW h \in Creators \ {g}, stage'[h] = stage[h]
      PROVE  StageShape(h)'
  <2>1. frame'[h] = frame[h] /\ StageShape(h)
    BY <1>6, <1>7 DEF StagesOK, Creators, Asked
  <2>2. (Guides(h)' <=> Guides(h)) /\ Unstaged(h)' = Unstaged(h)
    BY <1>1 DEF Guides, Unstaged
  <2> QED
    BY <1>7, <2>1, <2>2 DEF StageShape
<1>8. ASSUME NEW r \in 0..Steps, NEW n \in 0..Steps,
             stage' = [stage EXCEPT ![g] = [by |-> g, ran |-> r, recorded |-> n]],
             UNCHANGED target,
             frame'[g].pc \in {"run", "note", "rename", "refused"},
             frame'[g].pc = "run" /\ Guides(g) => n = r /\ r < Steps,
             frame'[g].pc = "note" => Guides(g) /\ r = n + 1,
             frame'[g].pc = "rename" => r = Steps /\ n = Steps
      PROVE  StagesOK'
  <2>1. PICK s : s = [by |-> g, ran |-> r, recorded |-> n]
    OBVIOUS
  <2>2. s \in Stages /\ s \in [by : {g}, ran : 0..Steps, recorded : 0..Steps]
    BY <1>1, <2>1 DEF Stages
  <2>3. /\ stage' \in [Commands -> Stages] /\ stage'[g] = s
        /\ \A h \in Commands \ {g} : stage'[h] = stage[h]
    BY <1>1, <1>8, <2>1, <2>2, StageSet
  <2>4. StageShape(g)'
    BY <1>4, <1>6, <1>8, <2>1, <2>2, <2>3 DEF StageShape
  <2>5. \A h \in Creators \ {g} : StageShape(h)'
    BY <1>7, <2>3 DEF Creators, Asked
  <2>6. TargetIsWhole'
    BY <1>8 DEF StagesOK, TargetIsWhole
  <2> QED
    BY <1>1, <1>4, <1>8, <2>3, <2>4, <2>5, <2>6 DEF StagesOK, Stages
<1>9. CASE BeginProject(g)
  <2>1. stage' = stage /\ target' = target /\ pc \in {"run", "refused"} /\ At(g, "plan")
    BY <1>1, <1>5, <1>6, <1>9, Goes DEF BeginProject, staging, Becomes, Points
  <2>2. stage[g] = [by |-> g, ran |-> 0, recorded |-> 0]
    BY <1>1, <1>3, <2>1 DEF StagesOK, StageShape, At
  <2>3. stage' = [stage EXCEPT ![g] = [by |-> g, ran |-> 0, recorded |-> 0]]
    BY <1>1, <2>1, <2>2
  <2>4. frame'[g].pc \in {"run", "refused"}
    BY <1>6, <2>1
  <2> QED
    BY <1>3, <1>8, <2>1, <2>3, <2>4
<1>10. CASE RunStep(g)
  <2>1. /\ At(g, "run") /\ ran # Steps /\ stage' = [stage EXCEPT ![g].ran = @ + 1]
        /\ Goto(g, IF Guides(g) THEN "note" ELSE "run") /\ target' = target
    BY <1>3, <1>10 DEF RunStep, Staged
  <2>2. PICK s : s = [stage[g] EXCEPT !.ran = @ + 1]
    OBVIOUS
  <2>3. s = [by |-> g, ran |-> ran + 1, recorded |-> recorded] /\ ran + 1 \in 0..Steps
    BY <1>1, <1>2, <2>1, <2>2
  <2>4. stage' = [stage EXCEPT ![g] = [by |-> g, ran |-> ran + 1, recorded |-> recorded]]
    BY <2>1, <2>2, <2>3
  <2>5. frame'[g].pc = IF Guides(g) THEN "note" ELSE "run"
    BY <1>1, <2>1, Goes DEF Becomes, Points
  <2>6. Guides(g) => recorded = ran
    BY <1>1, <1>3, <2>1 DEF StagesOK, StageShape, At
  <2> QED
    BY <1>8, <2>1, <2>3, <2>4, <2>5, <2>6
<1>11. CASE NoteStep(g)
  <2>1. /\ stage' = [stage EXCEPT ![g].recorded = IF Guides(g) THEN @ + 1 ELSE stage[g].ran]
        /\ Goto(g, IF Staged(g) THEN "rename" ELSE "run") /\ target' = target
    BY <1>11 DEF NoteStep
  <2>2. frame'[g].pc = IF ran = Steps THEN "rename" ELSE "run"
    BY <1>1, <1>3, <2>1, Goes DEF Becomes, Points, Staged
  <2>3. CASE Guides(g)
    <3>1. ran = recorded + 1
      BY <1>1, <1>3, <1>11, <2>3 DEF NoteStep, StagesOK, StageShape, At
    <3>2. PICK s : s = [stage[g] EXCEPT !.recorded = @ + 1]
      OBVIOUS
    <3>3. s = [by |-> g, ran |-> ran, recorded |-> ran]
      BY <1>2, <3>1, <3>2
    <3>4. stage' = [stage EXCEPT ![g] = [by |-> g, ran |-> ran, recorded |-> ran]]
      BY <2>1, <2>3, <3>2, <3>3
    <3>5. ran # Steps => ran < Steps
      BY <1>1
    <3> QED
      BY <1>8, <2>1, <2>2, <3>4, <3>5
  <2>4. CASE ~Guides(g)
    <3>1. ran = Steps
      BY <1>1, <1>3, <1>11, <2>4 DEF NoteStep, StagesOK, StageShape, At, Staged
    <3>2. PICK s : s = [stage[g] EXCEPT !.recorded = stage[g].ran]
      OBVIOUS
    <3>3. s = [by |-> g, ran |-> ran, recorded |-> ran]
      BY <1>2, <3>1, <3>2
    <3>4. stage' = [stage EXCEPT ![g] = [by |-> g, ran |-> ran, recorded |-> ran]]
      BY <2>1, <2>4, <3>2, <3>3
    <3> QED
      BY <1>8, <2>1, <2>2, <3>1, <3>4
  <2> QED
    BY <2>3, <2>4
<1>12. CASE RenameStaged(g)
  <2>1. /\ stage' = stage /\ At(g, "rename") /\ target' \in {target, stage[g]}
        /\ pc \in {"done", "refused"}
    BY <1>1, <1>6, <1>12, Goes DEF RenameStaged, Becomes, Points
  <2>2. ran = Steps /\ recorded = Steps
    BY <1>1, <1>3, <2>1 DEF StagesOK, StageShape, At
  <2>3. /\ target' \in [by : Commands \union {"nobody", "developer"}, ran : Nat, recorded : Nat]
        /\ TargetIsWhole'
    BY <1>1, <1>2, <1>3, <2>1, <2>2 DEF StagesOK, TargetIsWhole
  <2>4. StageShape(g)'
    BY <1>1, <1>2, <1>4, <1>6, <2>1 DEF StageShape
  <2> QED
    BY <1>1, <1>4, <1>7, <2>1, <2>3, <2>4 DEF StagesOK, Stages
<1>13. CASE StagingFails(g)
  <2>1. stage' = [stage EXCEPT ![g] = Unstaged(g)] /\ target' = target /\ Goto(g, "refused")
    BY <1>13 DEF StagingFails
  <2>2. frame'[g].pc = "refused"
    BY <1>1, <2>1, Goes DEF Becomes, Points
  <2> QED
    BY <1>3, <1>8, <2>1, <2>2
<1> QED
  BY <1>9, <1>10, <1>11, <1>12, <1>13 DEF StagingStep

\* The developer may make the directory, or remove it.
LEMMA TargetKeeps ==
  ASSUME Types, StagesOK, MakeTarget
  PROVE  StagesOK'
<1>1. UNCHANGED <<request, frame, stage>> /\ target' \in {EmptyDir, OtherDir, Nothing}
  BY DEF MakeTarget
<1>2. /\ Creators' = Creators
      /\ \A h \in Commands : (Guides(h)' <=> Guides(h)) /\ Unstaged(h)' = Unstaged(h)
  BY <1>1 DEF Creators, Asked, Guides, Unstaged
<1>3. \A h \in Creators : StageShape(h)'
  BY <1>1, <1>2 DEF StagesOK, StageShape, Creators, Asked
<1>4. target'.by \notin Commands
  BY <1>1, FilesAssumption DEF EmptyDir, OtherDir, Nothing
<1>5. target' \in [by : Commands \union {"nobody", "developer"}, ran : Nat, recorded : Nat]
  BY <1>1 DEF EmptyDir, OtherDir, Nothing
<1> QED
  BY <1>1, <1>2, <1>3, <1>4, <1>5 DEF StagesOK, TargetIsWhole

\* What else happens to a command that creates a project is that it is killed.
LEMMA ElsewhereStages ==
  ASSUME Types, StagesOK, UNCHANGED <<request, staging>>, NEW g,
         FramesOK', \A h \in Commands \ {g} : frame'[h] = frame[h],
         g \in Creators => UNCHANGED frame \/ Goto(g, "killed")
  PROVE  StagesOK'
<1>1. UNCHANGED <<stage, target>>
  BY DEF staging
<1>2. /\ Creators' = Creators
      /\ \A h \in Commands : (Guides(h)' <=> Guides(h)) /\ Unstaged(h)' = Unstaged(h)
  BY DEF Creators, Asked, Guides, Unstaged
<1>3. ASSUME NEW h \in Creators, frame'[h] = frame[h]
      PROVE  StageShape(h)'
  BY <1>1, <1>2, <1>3 DEF StagesOK, StageShape, Creators, Asked
<1>4. ASSUME g \in Creators, Goto(g, "killed")
      PROVE  StageShape(g)'
  <2>0. g \in Commands /\ "killed" \in Points /\ FramesOK
    BY <1>4, Kinds DEF Types, Points
  <2>1. frame'[g].pc = "killed" /\ frame'[g].originals = frame[g].originals
    BY <1>4, <2>0, Goes DEF Becomes
  <2> QED
    BY <1>1, <1>2, <1>4, <2>1 DEF StagesOK, StageShape
<1>5. \A h \in Creators : StageShape(h)'
  BY <1>3, <1>4 DEF Creators, Asked
<1> QED
  BY <1>1, <1>2, <1>5 DEF StagesOK, TargetIsWhole

-----------------------------------------------------------------------------
(* The recipe.                                                              *)

\* A step that does not end a command well, or ends one that has nothing to record,
Quiet(g) ==
  /\ frame[g].pc \notin {"done", "unrecorded"}
  /\ frame'[g].pc \notin {"load", "save"} /\ UNCHANGED recipe
  /\ frame'[g].pc = "done" => ~Installs(g) /\ frame'[g].originals = {}

\* one after which it has everything written,
Ready(g) ==
  /\ frame[g].pc \notin {"done", "unrecorded"}
  /\ frame'[g].pc = "load" /\ frame'[g].todo = << >> /\ UNCHANGED recipe

\* one that reads the recipe, and one that writes it.
Loads(g) ==
  /\ At(g, "load") /\ frame'[g].pc = "save" /\ frame'[g].todo = frame[g].todo
  /\ frame'[g].steps = recipe /\ UNCHANGED recipe
Saves(g) ==
  /\ At(g, "save") /\ frame'[g].pc = "done" /\ frame'[g].todo = frame[g].todo
  /\ recipe' = Append(frame[g].steps, g)

Recording(g) ==
  (\A h \in Commands \ {g} : frame'[h] = frame[h]) /\ (Quiet(g) \/ Ready(g) \/ Loads(g) \/ Saves(g))

\* A blueprint is ready when the last file is written.
LEMMA BlueprintRecords ==
  ASSUME Types, NEW g \in Blueprints, BlueprintShape(g), BlueprintStep(g), UNCHANGED recipe
  PROVE  Recording(g)
<1>1. FramesOK /\ g \in Commands /\ ~Installs(g)
  BY Kinds DEF Types
<1>2. frame[g].pc \notin {"done", "unrecorded"}
  BY DEF BlueprintStep, Plan, PlanRefused, WritePackage, WriteEntity, Check, MakeDirs, Write,
         Applied, Detach, Resolve, RemoveDir, RolledBack, WriteFails, DetachFails, At
<1>3. ASSUME NEW pc \in Points, Goto(g, pc)
      PROVE  /\ \A h \in Commands \ {g} : frame'[h] = frame[h]
             /\ frame'[g].pc = pc /\ frame'[g].todo = frame[g].todo
             /\ frame'[g].originals = frame[g].originals
  BY <1>1, <1>3, Goes DEF Becomes
<1>4. ASSUME NEW pc \in {"refused", "rollback", "entity", "mkdir", "write"}, Goto(g, pc)
      PROVE  Recording(g)
  BY <1>2, <1>3, <1>4 DEF Recording, Quiet, Points
<1>5. ASSUME NEW f, frame' = [frame EXCEPT ![g] = f],
             f.pc \in {"package", "entity", "check", "write", "held", "rollback"}
      PROVE  Recording(g)
  <2>1. frame'[g] = f /\ \A h \in Commands \ {g} : frame'[h] = frame[h]
    BY <1>1, <1>5 DEF FramesOK
  <2> QED
    BY <1>2, <1>5, <2>1 DEF Recording, Quiet
<1>6. frame[g] \in Frames
  BY <1>1 DEF FramesOK
<1>7. CASE Plan(g)
  <2>1. CASE Collides(g)
    BY <1>4, <1>7, <2>1 DEF Plan
  <2>2. CASE ~Collides(g)
    <3>1. PICK pc \in {"package", "check"} : pc = IF Creates(g) THEN "package" ELSE "check"
      OBVIOUS
    <3>2. PICK f : f = [frame[g] EXCEPT
            !.pc = pc, !.todo = Planned(g),
            !.originals = {[path |-> p, text |-> Original(g, p)] : p \in ToSet(Planned(g))}]
      OBVIOUS
    <3>3. frame' = [frame EXCEPT ![g] = f]
      BY <1>7, <2>2, <3>1, <3>2 DEF Plan
    <3>4. f.pc = pc
      BY <1>6, <3>2 DEF Frames
    <3> QED
      BY <1>5, <3>3, <3>4
  <2> QED
    BY <2>1, <2>2
<1>8. ASSUME NEW p, NEW pc \in {"entity", "check"}, Publishes(g, p, pc)
      PROVE  Recording(g)
  <2>1. PICK f : f = [frame[g] EXCEPT !.pc = pc, !.undo = Append(frame[g].undo, p)]
    OBVIOUS
  <2>2. frame' = [frame EXCEPT ![g] = f]
    BY <1>8, <2>1 DEF Publishes
  <2>3. f.pc = pc
    BY <1>6, <2>1 DEF Frames
  <2> QED
    BY <1>5, <2>2, <2>3
<1>9. CASE WritePackage(g) \/ WriteEntity(g)
  BY <1>4, <1>8, <1>9 DEF WritePackage, WriteEntity
<1>10. CASE MakeDirs(g)
  <2>1. PICK f : f = [frame[g] EXCEPT !.pc = "write", !.undo = Append(frame[g].undo, FeaturesDir)]
    OBVIOUS
  <2>2. f.pc = "write"
    BY <1>6, <2>1 DEF Frames
  <2>3. frame' = [frame EXCEPT ![g] = f] \/ Goto(g, "write")
    BY <1>10, <2>1 DEF MakeDirs
  <2> QED
    BY <1>4, <1>5, <2>2, <2>3
<1>11. CASE Write(g)
  <2>1. PICK rest : rest = [frame[g] EXCEPT !.todo = Tail(@)]
    OBVIOUS
  <2>2. At(g, "write") /\ rest \in Frames /\ rest.pc = "write"
    BY <1>1, <1>11, <2>1, TodoSet DEF Write, At
  <2>3. PICK f : f = [rest EXCEPT !.undo = Append(frame[g].undo, Head(frame[g].todo))]
    OBVIOUS
  <2>4. f.pc = "write"
    BY <2>2, <2>3 DEF Frames
  <2>5. \/ frame' = [frame EXCEPT ![g] = rest] \/ Goto(g, "rollback")
        \/ frame' = [frame EXCEPT ![g] = f]
    BY <1>11, <2>1, <2>3 DEF Write
  <2> QED
    BY <1>4, <1>5, <2>2, <2>4, <2>5
<1>12. CASE Applied(g)
  <2>1. PICK pc \in {"done", "load"} :
          pc = IF frame[g].originals = {} /\ ~Creates(g) THEN "done" ELSE "load"
    OBVIOUS
  <2>2. Goto(g, pc) /\ frame[g].todo = << >> /\ pc \in Points
    BY <1>12, <2>1 DEF Applied, Points
  <2> QED
    BY <1>1, <1>2, <1>3, <2>1, <2>2 DEF Recording, Quiet, Ready
<1>13. ASSUME Pop(g, "rollback")
       PROVE  Recording(g)
  <2>1. PICK f : f = [frame[g] EXCEPT !.pc = "rollback", !.undo = Front(frame[g].undo),
                                      !.held = Absent]
    OBVIOUS
  <2>2. frame' = [frame EXCEPT ![g] = f]
    BY <1>13, <2>1 DEF Pop
  <2>3. f.pc = "rollback"
    BY <1>6, <2>1 DEF Frames
  <2> QED
    BY <1>5, <2>2, <2>3
<1>14. CASE Detach(g)
  <2>1. PICK f : f = [frame[g] EXCEPT !.pc = "held", !.held = tree[Newest(g)]]
    OBVIOUS
  <2>2. f.pc = "held"
    BY <1>6, <2>1 DEF Frames
  <2>3. frame' = [frame EXCEPT ![g] = f] \/ Pop(g, "rollback")
    BY <1>14, <2>1 DEF Detach
  <2> QED
    BY <1>5, <1>13, <2>2, <2>3
<1>15. CASE DetachFails(g)
  <2>1. PICK f : f = [frame[g] EXCEPT !.undo = Front(frame[g].undo), !.spoiled = TRUE]
    OBVIOUS
  <2>2. f.pc = "rollback"
    BY <1>6, <1>15, <2>1 DEF Frames, DetachFails, At
  <2>3. frame' = [frame EXCEPT ![g] = f]
    BY <1>15, <2>1 DEF DetachFails
  <2> QED
    BY <1>5, <2>2, <2>3
<1>16. CASE PlanRefused(g) \/ Check(g) \/ RolledBack(g) \/ WriteFails(g)
  BY <1>4, <1>16 DEF PlanRefused, Check, RolledBack, WriteFails
<1>17. CASE Resolve(g) \/ RemoveDir(g)
  BY <1>13, <1>17 DEF Resolve, RemoveDir
<1> QED
  BY <1>7, <1>9, <1>10, <1>11, <1>12, <1>14, <1>15, <1>16, <1>17 DEF BlueprintStep

\* A binding, when its last file is; one that changed nothing is not recorded.
LEMMA BindingRecords ==
  ASSUME Types, NEW g \in Commands, BindingStep(g), UNCHANGED recipe
  PROVE  Recording(g)
<1>1. FramesOK /\ Exposes(g) /\ ~Installs(g)
  BY Kinds DEF Types, BindingStep
<1>2. frame[g] \in Frames /\ frame[g].pc \notin {"done", "unrecorded"}
  BY <1>1 DEF BindingStep, PlanBinding, CheckBinding, WriteBinding, WriteBindingFails,
              BindingWritten, At, FramesOK
<1>3. ASSUME NEW pc \in {"refused", "write", "done", "load"}, Goto(g, pc),
             pc = "done" => frame[g].originals = {},
             pc = "load" => frame[g].todo = << >>
      PROVE  Recording(g)
  <2>1. pc \in Points
    BY DEF Points
  <2>2. /\ \A h \in Commands \ {g} : frame'[h] = frame[h]
        /\ frame'[g].pc = pc /\ frame'[g].todo = frame[g].todo
        /\ frame'[g].originals = frame[g].originals
    BY <1>1, <1>3, <2>1, Goes DEF Becomes
  <2> QED
    BY <1>1, <1>2, <1>3, <2>2 DEF Recording, Quiet, Ready
<1>4. ASSUME NEW f, frame' = [frame EXCEPT ![g] = f], f.pc \in {"check", "write"}
      PROVE  Recording(g)
  <2>1. frame'[g] = f /\ \A h \in Commands \ {g} : frame'[h] = frame[h]
    BY <1>1, <1>4 DEF FramesOK
  <2> QED
    BY <1>2, <1>4, <2>1 DEF Recording, Quiet
<1>5. CASE PlanBinding(g)
  <2>1. PICK f : f = [frame[g] EXCEPT
            !.pc = "check", !.todo = ToWrite(g),
            !.entries = Merged(g), !.composed = Composed(g),
            !.originals = {[path |-> p, text |-> Text(tree[p])] : p \in ToSet(ToWrite(g))}]
    OBVIOUS
  <2>2. f.pc = "check"
    BY <1>2, <2>1 DEF Frames
  <2>3. frame' = [frame EXCEPT ![g] = f] \/ Goto(g, "refused")
    BY <1>5, <2>1 DEF PlanBinding
  <2> QED
    BY <1>3, <1>4, <2>2, <2>3
<1>6. CASE WriteBinding(g)
  <2>1. PICK f : f = [frame[g] EXCEPT !.todo = Tail(@)]
    OBVIOUS
  <2>2. f.pc = "write"
    BY <1>2, <1>6, <2>1 DEF Frames, WriteBinding, At
  <2>3. frame' = [frame EXCEPT ![g] = f]
    BY <1>6, <2>1 DEF WriteBinding
  <2> QED
    BY <1>4, <2>2, <2>3
<1>7. CASE BindingWritten(g)
  BY <1>3, <1>7 DEF BindingWritten
<1>8. CASE CheckBinding(g) \/ WriteBindingFails(g)
  BY <1>3, <1>8 DEF CheckBinding, WriteBindingFails
<1> QED
  BY <1>5, <1>6, <1>7, <1>8 DEF BindingStep

\* An adapter, when nothing remains to be seen to.
LEMMA AdapterRecords ==
  ASSUME Types, NEW g \in Commands, AdapterShape(g), AdapterStep(g), UNCHANGED recipe
  PROVE  Recording(g)
<1>1. FramesOK /\ frame[g] \in Frames
  BY DEF Types, FramesOK
<1>2. frame[g].pc \in {"plan", "read", "truncate", "fill", "scaffold"}
  BY DEF AdapterStep, Install, ReadSettings, Truncate, Fill, LookExtension, WriteExtension,
         AdapterInstalled, InstallFails, At
<1>3. ASSUME NEW pc \in {"refused", "fill", "scaffold", "load"}, Goto(g, pc),
             pc = "load" => frame[g].todo = << >>
      PROVE  Recording(g)
  <2>1. pc \in Points
    BY DEF Points
  <2>2. /\ \A h \in Commands \ {g} : frame'[h] = frame[h]
        /\ frame'[g].pc = pc /\ frame'[g].todo = frame[g].todo
    BY <1>1, <1>3, <2>1, Goes DEF Becomes
  <2> QED
    BY <1>2, <1>3, <2>2 DEF Recording, Quiet, Ready
<1>4. ASSUME NEW f, frame' = [frame EXCEPT ![g] = f], f.pc \in {"read", "truncate"}
      PROVE  Recording(g)
  <2>1. frame'[g] = f /\ \A h \in Commands \ {g} : frame'[h] = frame[h]
    BY <1>1, <1>4 DEF FramesOK
  <2> QED
    BY <1>2, <1>4, <2>1 DEF Recording, Quiet
<1>5. PICK after : after = [frame[g] EXCEPT !.pc = "read", !.todo = Tail(@), !.entries = {}]
  OBVIOUS
<1>6. after = AfterTarget(g) /\ after.pc = "read"
  BY <1>1, <1>5 DEF Frames, AfterTarget
<1>7. CASE Install(g)
  <2>1. PICK activate \in BOOLEAN :
       frame' = [frame EXCEPT ![g] = [@ EXCEPT
         !.pc = "read", !.todo = Installation(Adapter(g), activate)]]
    BY <1>7 DEF Install
  <2>2. PICK f : f = [frame[g] EXCEPT !.pc = "read", !.todo = Installation(Adapter(g), activate)]
    OBVIOUS
  <2>3. f.pc = "read"
    BY <1>1, <2>2 DEF Frames
  <2>4. frame' = [frame EXCEPT ![g] = f]
    BY <2>1, <2>2
  <2> QED
    BY <1>4, <2>3, <2>4
<1>8. CASE ReadSettings(g)
  <2>1. PICK f : f = [frame[g] EXCEPT !.pc = "truncate", !.entries = settings[Target(g)]]
    OBVIOUS
  <2>2. f.pc = "truncate"
    BY <1>1, <2>1 DEF Frames
  <2>3. frame' = [frame EXCEPT ![g] = f] \/ frame' = [frame EXCEPT ![g] = after]
    BY <1>6, <1>8, <2>1 DEF ReadSettings
  <2> QED
    BY <1>4, <1>6, <2>2, <2>3
<1>9. CASE LookExtension(g)
  <2>1. Goto(g, "scaffold") \/ frame' = [frame EXCEPT ![g] = after]
    BY <1>6, <1>9 DEF LookExtension, Goto
  <2> QED
    BY <1>3, <1>4, <1>6, <2>1
<1>10. CASE Fill(g) \/ WriteExtension(g)
  BY <1>4, <1>6, <1>10 DEF Fill, WriteExtension
<1>11. CASE AdapterInstalled(g)
  BY <1>3, <1>11 DEF AdapterInstalled
<1>12. CASE Truncate(g) \/ InstallFails(g)
  BY <1>3, <1>12 DEF Truncate, InstallFails
<1> QED
  BY <1>7, <1>8, <1>9, <1>10, <1>11, <1>12 DEF AdapterStep

\* A new project has a recipe of its own.
LEMMA StagingRecords ==
  ASSUME Types, StagesOK, NEW g \in Commands, StagingStep(g), UNCHANGED recipe
  PROVE  Recording(g)
<1>1. g \in Creators /\ FramesOK
  BY DEF StagingStep, Types
<1>2. ~Installs(g) /\ frame[g].originals = {}
  BY <1>1, Kinds DEF Types, StagesOK, StageShape
<1>3. PICK pc \in {"run", "note", "rename", "refused", "done"} : Goto(g, pc)
  BY DEF StagingStep, BeginProject, RunStep, NoteStep, RenameStaged, StagingFails
<1>4. frame[g].pc \in {"plan", "run", "note", "rename"}
  BY DEF StagingStep, BeginProject, RunStep, NoteStep, RenameStaged, StagingFails, At
<1>5. pc \in Points
  BY DEF Points
<1>6. /\ \A h \in Commands \ {g} : frame'[h] = frame[h]
      /\ frame'[g].pc = pc /\ frame'[g].originals = frame[g].originals
  BY <1>1, <1>3, <1>5, Goes DEF Becomes
<1> QED
  BY <1>2, <1>4, <1>6 DEF Recording, Quiet

\* The recipe is read, and written; a command may fail to, or be killed.
LEMMA RecordRecords ==
  ASSUME Types, NEW g \in Commands, Record(g) \/ (Killed(g) /\ UNCHANGED recipe)
  PROVE  Recording(g)
<1>1. FramesOK
  BY DEF Types
<1>2. ASSUME NEW pc \in Points, Goto(g, pc)
      PROVE  /\ \A h \in Commands \ {g} : frame'[h] = frame[h]
             /\ frame'[g].pc = pc /\ frame'[g].todo = frame[g].todo
  BY <1>1, <1>2, Goes DEF Becomes
<1>3. CASE Load(g)
  <2>1. /\ Becomes(g, "save", frame[g].todo, frame[g].originals, frame[g].undo,
                   frame[g].held, frame[g].spoiled)
        /\ frame'[g].steps = recipe /\ At(g, "load") /\ UNCHANGED recipe
    BY <1>3, StepsSet DEF Load
  <2> QED
    BY <2>1 DEF Recording, Loads, Becomes
<1>4. CASE Save(g)
  BY <1>2, <1>4 DEF Save, Recording, Saves, Points
<1>5. CASE RecordFails(g)
  BY <1>2, <1>5 DEF RecordFails, Recording, Quiet, Points, At
<1>6. CASE Killed(g) /\ UNCHANGED recipe
  BY <1>2, <1>6 DEF Killed, Recording, Quiet, Points
<1> QED
  BY <1>3, <1>4, <1>5, <1>6 DEF Record

-----------------------------------------------------------------------------
\* What is in the recipe ended, once.
LEMMA RecordingKeeps ==
  ASSUME Types, RecipeInv, NEW g \in Commands, Recording(g), UNCHANGED request,
         crossed \subseteq crossed',
         \A h \in Commands \ {g} : At(g, "save") /\ At(h, "save") /\ Saves(g) => crossed' # {}
  PROVE  RecipeInv' /\ recipe' \in Seq(Commands)
<1>1. \A h \in Commands \ {g} : frame'[h] = frame[h]
  BY DEF Recording
<1>2. \A h \in Commands : Installs(h)' <=> Installs(h)
  BY DEF Installs
<1>3. /\ frame[g].pc \notin {"done", "unrecorded"} /\ UNCHANGED recipe
      \/ Saves(g)
  BY DEF Recording, Quiet, Ready, Loads, At
<1>4. frame[g].pc \notin {"done", "unrecorded"}
  BY <1>3 DEF Saves, At
<1>5. ASSUME NEW steps \in Seq(Commands), Ended(steps)
      PROVE  Ended(steps)' /\ g \notin ToSet(steps)
  <2>1. g \notin ToSet(steps)
    BY <1>4, <1>5 DEF Ended
  <2>2. \A h \in ToSet(steps) : h \in Commands
    BY DEF ToSet
  <2> QED
    BY <1>1, <1>5, <2>1, <2>2 DEF Ended
<1>6. Ended(recipe)' /\ recipe' \in Seq(Commands)
  <2>1. CASE UNCHANGED recipe
    BY <1>5, <2>1 DEF RecipeInv, Ended
  <2>2. CASE Saves(g)
    <3>1. PICK s : s = frame[g].steps
      OBVIOUS
    <3>2. /\ Ended(s) /\ s \in Seq(Commands) /\ frame[g].todo = << >>
          /\ recipe' = Append(s, g) /\ frame'[g].pc = "done" /\ frame'[g].todo = << >>
      BY <2>2, <3>1 DEF Saves, RecipeInv, Ended, At
    <3>3. Ended(s)' /\ g \notin ToSet(s)
      BY <1>5, <3>2
    <3>4. PICK t : t = Append(s, g)
      OBVIOUS
    <3>5. t \in Seq(Commands) /\ Distinct(t) /\ ToSet(t) = ToSet(s) \union {g}
      BY <3>2, <3>3, <3>4, AppendTo DEF Ended
    <3> QED
      BY <3>2, <3>3, <3>4, <3>5 DEF Ended
  <2> QED
    BY <1>3, <2>1, <2>2
<1>7. ASSUME NEW h \in Commands
      PROVE  /\ frame'[h].pc \in {"load", "save"} => frame'[h].todo = << >>
             /\ At(h, "save")' => Ended(frame[h].steps)'
             /\ crossed' = {} /\ At(h, "save")' => frame'[h].steps = recipe'
             /\ crossed' = {} /\ At(h, "done")' /\ (Installs(h) \/ frame'[h].originals # {}) =>
                  h \in ToSet(recipe')
  <2>1. CASE h = g
    <3>1. CASE Quiet(g)
      BY <2>1, <3>1 DEF Quiet, At
    <3>2. CASE Ready(g)
      BY <2>1, <3>2 DEF Ready, At
    <3>3. CASE Loads(g)
      <4>1. /\ frame[g].todo = << >> /\ frame'[g].todo = << >> /\ frame'[g].pc = "save"
            /\ frame'[g].steps = recipe /\ recipe' = recipe
        BY <3>3 DEF Loads, RecipeInv, At
      <4> QED
        BY <1>6, <2>1, <4>1 DEF At
    <3>4. CASE Saves(g)
      <4>1. /\ recipe' = Append(frame[g].steps, g) /\ frame'[g].pc = "done"
            /\ frame[g].steps \in Seq(Commands)
        BY <3>4 DEF Saves, RecipeInv, Ended
      <4>2. g \in ToSet(recipe')
        BY <4>1, AppendTo
      <4> QED
        BY <2>1, <4>1, <4>2 DEF At
    <3> QED
      BY <3>1, <3>2, <3>3, <3>4 DEF Recording
  <2>2. CASE h # g
    <3>1. frame'[h] = frame[h] /\ h \in Commands \ {g}
      BY <1>1, <2>2
    <3>2. frame'[h].pc \in {"load", "save"} => frame'[h].todo = << >>
      BY <3>1 DEF RecipeInv
    <3>3. At(h, "save")' => Ended(frame[h].steps)'
      <4>1. SUFFICES ASSUME At(h, "save")'
                     PROVE  Ended(frame[h].steps)'
        OBVIOUS
      <4>2. PICK s : s = frame[h].steps
        OBVIOUS
      <4>3. Ended(s) /\ s \in Seq(Commands)
        BY <3>1, <4>1, <4>2 DEF RecipeInv, At, Ended
      <4>4. Ended(s)'
        BY <1>5, <4>3
      <4> QED
        BY <3>1, <4>2, <4>4 DEF Ended
    <3>4. crossed' = {} /\ At(h, "save")' => frame'[h].steps = recipe'
      BY <1>3, <3>1 DEF RecipeInv, At, Saves
    <3>5. crossed' = {} => ToSet(recipe) \subseteq ToSet(recipe')
      <4>1. CASE UNCHANGED recipe
        BY <4>1
      <4>2. CASE Saves(g) /\ crossed' = {}
        <5>1. frame[g].steps = recipe /\ recipe \in Seq(Commands)
          BY <4>2 DEF Saves, RecipeInv, Ended
        <5>2. recipe' = Append(recipe, g)
          BY <4>2, <5>1 DEF Saves
        <5> QED
          BY <5>1, <5>2, AppendTo
      <4> QED
        BY <1>3, <4>1, <4>2
    <3>6. crossed' = {} /\ At(h, "done")' /\ (Installs(h) \/ frame'[h].originals # {}) =>
            h \in ToSet(recipe')
      BY <3>1, <3>5 DEF RecipeInv, At
    <3> QED
      BY <3>2, <3>3, <3>4, <3>6
  <2> QED
    BY <2>1, <2>2
<1> QED
  BY <1>2, <1>6, <1>7 DEF RecipeInv

\* Nothing else is in the recipe.
LEMMA RecipeStays ==
  ASSUME RecipeInv, UNCHANGED <<request, frame, recipe>>, crossed \subseteq crossed'
  PROVE  RecipeInv'
<1>1. Ended(recipe)' /\ \A h \in Commands : Ended(frame[h].steps)' <=> Ended(frame[h].steps)
  BY DEF RecipeInv, Ended
<1>2. \A h \in Commands : /\ Installs(h)' <=> Installs(h)
                          /\ \A pc \in {"save", "done"} : At(h, pc)' <=> At(h, pc)
  BY DEF Installs, At
<1>3. crossed' = {} => crossed = {}
  OBVIOUS
<1> QED
  BY <1>1, <1>2, <1>3 DEF RecipeInv

\* The invariant is what the reader of a recipe relies on.
LEMMA RecipeTells ==
  ASSUME RecipeInv
  PROVE  RecipeTellsWhatWasDone
<1>1. ASSUME NEW g \in ToSet(recipe)
      PROVE  /\ frame[g].pc \in {"done", "unrecorded"} /\ frame[g].todo = << >>
             /\ Cardinality({i \in DOMAIN recipe : recipe[i] = g}) = 1
  <2>1. PICK n \in Nat : n = Len(recipe) /\ DOMAIN recipe = 1..n
    BY DEF RecipeInv, Ended
  <2>2. PICK i \in 1..n : recipe[i] = g
    BY <2>1 DEF ToSet
  <2>3. {j \in DOMAIN recipe : recipe[j] = g} = {i}
    BY <2>1, <2>2 DEF RecipeInv, Ended, Distinct
  <2> QED
    BY <2>3, FS_Singleton DEF RecipeInv, Ended
<1>2. crossed = {} => \A g \in Commands :
        At(g, "done") /\ (Installs(g) \/ frame[g].originals # {}) => g \in ToSet(recipe)
  BY DEF RecipeInv
<1> QED
  BY <1>1, <1>2 DEF RecipeTellsWhatWasDone

-----------------------------------------------------------------------------
(* The settings of adapters.                                                *)

\* No extension point is lost, unless the developer deletes it.
ExtensionsStay ==
  \A a \in Adapters : Extension(a) \in removed \/ Exists(Extension(a)) =>
    Extension(a) \in removed' \/ Exists(Extension(a))'

\* A step, of a command or not, that neither fills a file nor may fill one next.
HandsOff(g) ==
  /\ \A h \in Commands \ {g} : frame'[h] = frame[h]
  /\ g \in Commands =>
       ~(Installs(g) /\ At(g, "fill")) /\ ~(Installs(g) /\ At(g, "fill")')
  /\ UNCHANGED <<settings, request>> /\ ExtensionsStay

\* What an adapter has, it still has.
HasStays ==
  \A a \in Adapters :
    /\ \A f \in SettingsFiles : Has(a, f)' <=> Has(a, f)
    /\ Has(a, Extension(a)) => Has(a, Extension(a))'

\* A command that another one leaves alone.
LEMMA Untouched ==
  ASSUME UNCHANGED request, NEW h, frame'[h] = frame[h]
  PROVE  /\ (Installs(h)' <=> Installs(h)) /\ Adapter(h)' = Adapter(h)
         /\ Target(h)' = Target(h) /\ Passed(h)' = Passed(h)
         /\ \A pc : At(h, pc)' <=> At(h, pc)
         /\ \A f : Fills(h, f)' <=> Fills(h, f)
<1>1. /\ (Installs(h)' <=> Installs(h)) /\ Adapter(h)' = Adapter(h)
      /\ Target(h)' = Target(h) /\ \A pc : At(h, pc)' <=> At(h, pc)
  BY DEF Installs, Adapter, Target, At
<1>2. Needed(Adapter(h))' = Needed(Adapter(h))
  BY <1>1 DEF Needed, Installation
<1> QED
  BY <1>1, <1>2 DEF Passed, Fills

\* Adapters have what they had when no file is filled.
LEMMA HandsOffHas ==
  ASSUME Types, NEW g, HandsOff(g)
  PROVE  HasStays
<1>1. /\ \A h \in Commands \ {g} : frame'[h] = frame[h] /\ \A f : Fills(h, f)' <=> Fills(h, f)
      /\ \A f : g \in Commands => ~Fills(g, f) /\ ~Fills(g, f)'
  BY Untouched DEF HandsOff, Fills, Installs
<1>2. \A a \in Adapters : Extension(a) \notin SettingsFiles /\ Extension(a)' = Extension(a)
  BY PathsApart DEF Extension
<1>3. ASSUME NEW a \in Adapters, NEW f \in SettingsFiles
      PROVE  Has(a, f)' <=> Has(a, f)
  <2>1. \A h \in Commands : Fills(h, f)' /\ a \in frame'[h].entries <=>
                            Fills(h, f) /\ a \in frame[h].entries
    BY <1>1
  <2>2. settings' = settings /\ SettingsFiles' = SettingsFiles
    BY DEF HandsOff, SettingsFiles, Config, Dependencies, Environment, Ignored, Secrets,
           Activation
  <2> QED
    BY <2>1, <2>2 DEF Has
<1>4. ASSUME NEW a \in Adapters, Has(a, Extension(a))
      PROVE  Has(a, Extension(a))'
  <2>1. SettingsFiles' = SettingsFiles
    BY DEF SettingsFiles, Config, Dependencies, Environment, Ignored, Secrets, Activation
  <2>2. Extension(a) \in removed \/ Exists(Extension(a))
    BY <1>2, <1>4 DEF Has
  <2>3. Extension(a) \in removed' \/ Exists(Extension(a))'
    BY <2>2 DEF HandsOff, ExtensionsStay
  <2> QED
    BY <1>2, <2>1, <2>3 DEF Has
<1> QED
  BY <1>3, <1>4 DEF HasStays

\* What an adapter needs is there after a step that leaves what was.
LEMMA NeededStays ==
  ASSUME HasStays, NEW a \in Adapters
  PROVE  /\ \A f \in Needed(a) : Has(a, f) => Has(a, f)'
         /\ Has(a, Activation)' <=> Has(a, Activation)
<1>1. Needed(a) \subseteq (SettingsFiles \ {Activation}) \union {Extension(a)}
  BY InstallationFiles
<1>2. Activation \in SettingsFiles /\ Activation' = Activation
  BY DEF SettingsFiles, Activation
<1> QED
  BY <1>1, <1>2 DEF HasStays

\* The settings are settled after a step that touches none.
LEMMA HandsOffSettled ==
  ASSUME Types, Settled, NEW g, HandsOff(g),
         g \in Commands /\ Installs(g) /\ At(g, "truncate")' =>
           frame'[g].entries = settings[Target(g)'],
         g \in Commands /\ Installs(g) =>
           \A f \in Passed(g)' : f \in Passed(g) \/ Has(Adapter(g), f)'
  PROVE  Settled'
<1>1. HasStays
  BY HandsOffHas
<1>2. /\ \A h \in Commands : (Installs(h)' <=> Installs(h)) /\ Adapter(h)' = Adapter(h)
      /\ settings' = settings
      /\ \A h \in Commands : Installs(h) => Adapter(h) \in Adapters
  BY Kinds DEF HandsOff, Installs, Adapter, Types
<1>3. \A h \in Commands \ {g} :
        /\ frame'[h] = frame[h] /\ Target(h)' = Target(h) /\ Passed(h)' = Passed(h)
        /\ \A pc : At(h, pc)' <=> At(h, pc)
        /\ \A f : Fills(h, f)' <=> Fills(h, f)
  BY Untouched DEF HandsOff
<1>4. \A f : g \in Commands => ~Fills(g, f) /\ ~Fills(g, f)'
  BY DEF HandsOff, Fills, Installs
<1>5. SettingsFiles' = SettingsFiles
  BY DEF SettingsFiles, Config, Dependencies, Environment, Ignored, Secrets, Activation
<1>6. \A a \in Adapters : Needed(a)' = Needed(a)
  BY DEF Needed, Installation
<1>7. \A h \in Commands : Passed(h) \subseteq Needed(Adapter(h))
  BY DEF Passed
<1>8. \A h \in Commands : Installs(h)' /\ At(h, "truncate")' =>
        frame'[h].entries = settings'[Target(h)']
  BY <1>2, <1>3 DEF Settled
<1>9. \A h \in Commands, f \in SettingsFiles : Fills(h, f)' =>
        settings'[f] = {} /\ \A k \in Commands : Fills(k, f)' => k = h
  BY <1>2, <1>3, <1>4 DEF Settled
<1>10. ASSUME NEW h \in Commands, Installs(h)', NEW f \in Passed(h)'
       PROVE  Has(Adapter(h), f)'
  <2>1. CASE f \in Passed(h)
    <3>1. Has(Adapter(h), f) /\ f \in Needed(Adapter(h)) /\ Adapter(h) \in Adapters
      BY <1>2, <1>7, <1>10, <2>1 DEF Settled
    <3>2. Has(Adapter(h), f)'
      <4>1. PICK a \in Adapters : a = Adapter(h)
        BY <3>1
      <4>2. Has(a, f)'
        BY <1>1, <3>1, <4>1, NeededStays
      <4> QED
        BY <1>2, <4>1, <4>2 DEF Has
    <3> QED
      BY <3>2
  <2>2. CASE f \notin Passed(h)
    BY <1>2, <1>3, <1>10, <2>2
  <2> QED
    BY <2>1, <2>2
<1>11. ASSUME NEW a \in Adapters, Has(a, Activation)', NEW f \in Needed(a)
       PROVE  Has(a, f)'
  <2>1. Has(a, Activation)
    BY <1>1, <1>11, NeededStays
  <2> QED
    BY <1>1, <2>1, NeededStays DEF Settled
<1> QED
  BY <1>5, <1>6, <1>8, <1>9, <1>10, <1>11 DEF Settled

\* Nobody else is at the file a command has read and not yet filled.
LEMMA NobodyElse ==
  ASSUME ~Mixing, NEW g \in Commands, Merging(g)
  PROVE  \A h \in Commands \ {g} :
           ~Fills(h, Target(g)) /\ ~(Installs(h) /\ At(h, "truncate") /\ Target(h) = Target(g))
BY DEF Mixing, Merging, Fills, At

\* A command truncates a file: it has in its memory what it is about to write.
LEMMA TruncatesSettled ==
  ASSUME Types, Settled, ~Mixing, NEW g \in Commands, Installs(g), AdapterShape(g),
         Truncates(g), UNCHANGED <<request, removed>>
  PROVE  Settled'
<1>1. PICK t \in SettingsFiles : t = Target(g)
  BY DEF Truncates, AdapterShape, At
<1>2. /\ At(g, "truncate") /\ settings' = [settings EXCEPT ![t] = {}] /\ UNCHANGED tree
      /\ frame'[g].pc = "fill" /\ frame'[g].todo = frame[g].todo
      /\ frame'[g].entries = frame[g].entries /\ frame[g].entries = settings[t]
      /\ settings \in [SettingsFiles -> SUBSET Adapters]
      /\ \A h \in Commands \ {g} : frame'[h] = frame[h]
  BY <1>1 DEF Truncates, Installing, Settled, Types
<1>3. /\ \A h \in Commands : (Installs(h)' <=> Installs(h)) /\ Adapter(h)' = Adapter(h)
      /\ \A h \in Commands : Installs(h) => Adapter(h) \in Adapters
  BY Kinds DEF Installs, Adapter, Types
<1>4. \A h \in Commands \ {g} :
        /\ Target(h)' = Target(h) /\ Passed(h)' = Passed(h)
        /\ \A pc : At(h, pc)' <=> At(h, pc)
        /\ \A f : Fills(h, f)' <=> Fills(h, f)
  BY <1>2, Untouched
<1>5. Target(g)' = t /\ Passed(g)' = Passed(g)
  <2>1. Needed(Adapter(g))' = Needed(Adapter(g))
    BY <1>3 DEF Needed, Installation
  <2> QED
    BY <1>1, <1>2, <2>1 DEF Target, Passed, At
<1>6. (\A f : Fills(g, f)' <=> f = t) /\ \A f : ~Fills(g, f)
  BY <1>2, <1>3, <1>5 DEF Fills, At
<1>7. Merging(g) /\ \A h \in Commands \ {g} :
           ~Fills(h, t) /\ ~(Installs(h) /\ At(h, "truncate") /\ Target(h) = t)
  BY <1>1, <1>2, NobodyElse DEF Merging, At
<1>8. /\ SettingsFiles' = SettingsFiles
      /\ \A a \in Adapters : Extension(a)' = Extension(a) /\ Extension(a) \notin SettingsFiles
      /\ \A a \in Adapters : Needed(a)' = Needed(a)
  BY PathsApart DEF SettingsFiles, Config, Dependencies, Environment, Ignored, Secrets, Activation,
         Extension, Needed, Installation
<1>9. \A p : Exists(p)' <=> Exists(p)
  BY <1>2 DEF Exists, Absent
<1>10. \A a \in Adapters, f \in SettingsFiles : Has(a, f)' <=> Has(a, f)
  <2> TAKE a \in Adapters, f \in SettingsFiles
  <2>1. CASE f = t
    <3>1. Has(a, t) <=> a \in settings[t]
      BY <1>6, <1>7 DEF Has
    <3>2. Has(a, t)' <=> a \in frame'[g].entries
      BY <1>2, <1>4, <1>6, <1>7, <1>8 DEF Has
    <3> QED
      BY <1>2, <2>1, <3>1, <3>2
  <2>2. CASE f # t
    <3>1. settings'[f] = settings[f] /\ ~Fills(g, f) /\ ~Fills(g, f)'
      BY <1>2, <1>6, <2>2
    <3>2. \A h \in Commands : Fills(h, f)' /\ a \in frame'[h].entries <=>
                              Fills(h, f) /\ a \in frame[h].entries
      BY <1>2, <1>4, <3>1
    <3> QED
      BY <1>8, <3>1, <3>2 DEF Has
  <2> QED
    BY <2>1, <2>2
<1>11. HasStays
  BY <1>8, <1>9, <1>10 DEF HasStays, Has
<1>12. \A h \in Commands : Installs(h)' /\ At(h, "truncate")' =>
         frame'[h].entries = settings'[Target(h)']
  <2>1. ~At(g, "truncate")'
    BY <1>2 DEF At
  <2>2. ASSUME NEW h \in Commands \ {g}, Installs(h), At(h, "truncate")
        PROVE  frame[h].entries = settings'[Target(h)]
    BY <1>2, <1>7, <2>2 DEF Settled
  <2> QED
    BY <1>2, <1>3, <1>4, <2>1, <2>2
<1>13. ASSUME NEW h \in Commands, NEW f \in SettingsFiles, Fills(h, f)'
       PROVE  settings'[f] = {} /\ \A k \in Commands : Fills(k, f)' => k = h
  <2>1. CASE h = g
    BY <1>2, <1>4, <1>6, <1>7, <1>13, <2>1
  <2>2. CASE h # g
    <3>1. Fills(h, f) /\ f # t
      BY <1>4, <1>7, <1>13, <2>2
    <3>2. settings[f] = {} /\ \A k \in Commands : Fills(k, f) => k = h
      BY <3>1 DEF Settled
    <3> QED
      BY <1>2, <1>4, <1>6, <3>1, <3>2
  <2> QED
    BY <2>1, <2>2
<1>14. ASSUME NEW h \in Commands, Installs(h)', NEW f \in Passed(h)'
       PROVE  Has(Adapter(h), f)'
  <2>1. PICK a \in Adapters : a = Adapter(h)
    BY <1>3, <1>14
  <2>2. f \in Passed(h) /\ f \in Needed(a)
    BY <1>4, <1>5, <1>14, <2>1 DEF Passed
  <2>3. Has(a, f)
    BY <1>3, <1>14, <2>1, <2>2 DEF Settled
  <2>4. Has(a, f)'
    BY <1>11, <2>2, <2>3, NeededStays
  <2> QED
    BY <1>3, <2>1, <2>4 DEF Has
<1>15. ASSUME NEW a \in Adapters, Has(a, Activation)', NEW f \in Needed(a)
       PROVE  Has(a, f)'
  BY <1>11, <1>15, NeededStays DEF Settled
<1> QED
  BY <1>8, <1>12, <1>13, <1>14, <1>15 DEF Settled

\* A command fills a file with what was there and its own; it activates an adapter
\* when it has seen to everything else.
LEMMA FillsSettled ==
  ASSUME Types, Settled, ~Mixing, NEW g \in Commands, Installs(g), AdapterShape(g),
         FillsIt(g), UNCHANGED <<request, removed>>
  PROVE  Settled'
<1>1. PICK t \in SettingsFiles : t = Target(g)
  BY DEF FillsIt, AdapterShape, At
<1>2. /\ At(g, "fill") /\ settings' = [settings EXCEPT ![t] = Kept(g, t) \union Addition(g, t)]
      /\ frame'[g].pc = "read" /\ frame'[g].todo = Tail(frame[g].todo)
      /\ settings \in [SettingsFiles -> SUBSET Adapters] /\ UNCHANGED tree
      /\ \A h \in Commands \ {g} : frame'[h] = frame[h]
      /\ frame[g].todo # << >>
  BY <1>1 DEF FillsIt, Installing, Types, AdapterShape, At
<1>3. /\ \A h \in Commands : (Installs(h)' <=> Installs(h)) /\ Adapter(h)' = Adapter(h)
      /\ \A h \in Commands : Installs(h) => Adapter(h) \in Adapters
  BY Kinds DEF Installs, Adapter, Types
<1>4. \A h \in Commands \ {g} :
        /\ Target(h)' = Target(h) /\ Passed(h)' = Passed(h)
        /\ \A pc : At(h, pc)' <=> At(h, pc)
        /\ \A f : Fills(h, f)' <=> Fills(h, f)
  BY <1>2, Untouched
<1>5. (\A f : ~Fills(g, f)') /\ (\A f : Fills(g, f) <=> f = t)
  BY <1>1, <1>2 DEF Fills, At
<1>6. Merging(g) /\ \A h \in Commands \ {g} :
           ~Fills(h, t) /\ ~(Installs(h) /\ At(h, "truncate") /\ Target(h) = t)
  BY <1>1, <1>2, NobodyElse DEF Merging, At
<1>7. /\ SettingsFiles' = SettingsFiles
      /\ \A a \in Adapters : Extension(a)' = Extension(a) /\ Extension(a) \notin SettingsFiles
      /\ \A a \in Adapters : Needed(a)' = Needed(a)
  BY PathsApart DEF SettingsFiles, Config, Dependencies, Environment, Ignored, Secrets, Activation,
         Extension, Needed, Installation
<1>8. \A p : Exists(p)' <=> Exists(p)
  BY <1>2 DEF Exists, Absent
<1>9. PICK own \in Adapters : own = Adapter(g)
  BY <1>3
<1>10. own \in Addition(g, t)
  <2>1. t \in ToSet(frame[g].todo)
    BY <1>1, <1>2, AdapterTarget, TailSet DEF AdapterShape, Target
  <2> QED
    BY <1>9, <2>1 DEF Addition, AdapterShape
<1>11. \A a \in Adapters : (Has(a, t) <=> a \in frame[g].entries) /\
                           (Has(a, t)' <=> a \in Kept(g, t) \union Addition(g, t))
  <2>1. settings[t] = {}
    BY <1>5 DEF Settled
  <2>2. settings'[t] = Kept(g, t) \union Addition(g, t)
    BY <1>2
  <2>3. \A h \in Commands : ~Fills(h, t)'
    BY <1>4, <1>5, <1>6
  <2> QED
    BY <1>5, <1>6, <1>7, <2>1, <2>2, <2>3 DEF Has
<1>12. \A a \in Adapters, f \in SettingsFiles \ {t} : Has(a, f)' <=> Has(a, f)
  <2> TAKE a \in Adapters, f \in SettingsFiles \ {t}
  <2>1. settings'[f] = settings[f] /\ ~Fills(g, f) /\ ~Fills(g, f)'
    BY <1>2, <1>5
  <2>2. \A h \in Commands : Fills(h, f)' /\ a \in frame'[h].entries <=>
                            Fills(h, f) /\ a \in frame[h].entries
    BY <1>2, <1>4, <2>1
  <2> QED
    BY <1>7, <2>1, <2>2 DEF Has
<1>13. \A a \in Adapters : Has(a, Extension(a))' <=> Has(a, Extension(a))
  BY <1>7, <1>8 DEF Has
<1>14. \A a \in Adapters : Needed(a) \subseteq (SettingsFiles \ {Activation}) \union {Extension(a)}
  BY InstallationFiles
<1>15. t # Activation => \A a \in Adapters : Has(a, t) => Has(a, t)'
  BY <1>11 DEF Kept
<1>16. \A a \in Adapters : \A f \in Needed(a) : Has(a, f) => Has(a, f)'
  BY <1>12, <1>13, <1>14, <1>15
<1>17. \A h \in Commands : Installs(h)' /\ At(h, "truncate")' =>
         frame'[h].entries = settings'[Target(h)']
  <2>1. ~At(g, "truncate")'
    BY <1>2 DEF At
  <2>2. ASSUME NEW h \in Commands \ {g}, Installs(h), At(h, "truncate")
        PROVE  frame[h].entries = settings'[Target(h)]
    BY <1>2, <1>6, <2>2 DEF Settled
  <2> QED
    BY <1>2, <1>3, <1>4, <2>1, <2>2
<1>18. ASSUME NEW h \in Commands, NEW f \in SettingsFiles, Fills(h, f)'
       PROVE  settings'[f] = {} /\ \A k \in Commands : Fills(k, f)' => k = h
  <2>1. h # g /\ Fills(h, f) /\ f # t
    BY <1>4, <1>5, <1>6, <1>18
  <2>2. settings[f] = {} /\ \A k \in Commands : Fills(k, f) => k = h
    BY <2>1 DEF Settled
  <2> QED
    BY <1>2, <1>4, <1>5, <2>1, <2>2
<1>19. ToSet(frame[g].todo) = ToSet(Tail(frame[g].todo)) \union {t}
       /\ (t = Activation => Tail(frame[g].todo) = << >>)
  BY <1>1, <1>2, AdapterTarget, TailSet DEF AdapterShape, Target
<1>20. Passed(g)' \subseteq Passed(g) \union {t} /\ Passed(g) \subseteq Needed(own)
  <2>1. Passed(g)' = Needed(own) \ ToSet(Tail(frame[g].todo))
    BY <1>2, <1>3, <1>7, <1>9 DEF Passed, At
  <2>2. Passed(g) = Needed(own) \ ToSet(frame[g].todo)
    BY <1>2, <1>9 DEF Passed, At
  <2> QED
    BY <1>19, <2>1, <2>2
<1>21. Has(own, t)'
  BY <1>10, <1>11
<1>22. ASSUME NEW h \in Commands, Installs(h)', NEW f \in Passed(h)'
       PROVE  Has(Adapter(h), f)'
  <2>1. PICK a \in Adapters : a = Adapter(h)
    BY <1>3, <1>22
  <2>2. CASE f \in Passed(h)
    <3>1. f \in Needed(a) /\ Has(a, f)
      BY <1>3, <1>22, <2>1, <2>2 DEF Settled, Passed
    <3>2. Has(a, f)'
      BY <1>16, <3>1
    <3> QED
      BY <1>3, <2>1, <3>2 DEF Has
  <2>3. CASE f \notin Passed(h)
    <3>1. h = g /\ f = t
      BY <1>4, <1>20, <1>22, <2>3
    <3> QED
      BY <1>3, <1>9, <1>21, <3>1 DEF Has
  <2> QED
    BY <2>2, <2>3
<1>23. ASSUME NEW a \in Adapters, Has(a, Activation)', NEW f \in Needed(a)
       PROVE  Has(a, f)'
  <2>0. Activation \in SettingsFiles /\ Activation' = Activation
    BY DEF SettingsFiles, Activation
  <2>1. CASE Has(a, Activation)
    BY <1>16, <2>1 DEF Settled
  <2>2. CASE ~Has(a, Activation)
    <3>1. t = Activation
      BY <1>12, <1>23, <2>0, <2>2
    <3>2. a \notin Kept(g, t) /\ a = own
      BY <1>9, <1>11, <1>23, <2>2, <3>1 DEF Kept, Addition, Activation, Ignored
    <3>3. ToSet(Tail(frame[g].todo)) = {} /\ f # t
      BY <1>14, <1>19, <2>0, <3>1, PathsApart DEF ToSet
    <3>4. f \in Passed(g)
      BY <1>2, <1>9, <1>19, <3>2, <3>3 DEF Passed, At
    <3>5. Has(own, f)
      BY <1>9, <3>4 DEF Settled
    <3> QED
      BY <1>16, <1>20, <3>2, <3>4, <3>5
  <2> QED
    BY <2>1, <2>2
<1> QED
  BY <1>7, <1>17, <1>18, <1>22, <1>23 DEF Settled

\* Extension points stay when no file changes.
LEMMA TreeKeepsExtensions ==
  ASSUME UNCHANGED <<tree, removed>>
  PROVE  ExtensionsStay
BY DEF ExtensionsStay, Exists, Absent, Extension

\* Whatever a command does for an adapter, what it has seen to is there.
LEMMA AdapterSettled ==
  ASSUME Types, SettingsWhole, NEW g \in Commands, Installs(g), AdapterShape(g),
         AdapterMoves(g), UNCHANGED <<request, removed>>, crossed \subseteq crossed',
         Mixing /\ Merging(g) => crossed' # {}
  PROVE  SettingsWhole'
<1>1. torn => torn'
  BY DEF AdapterMoves, Plans, Leaves, Reads, Truncates, FillsIt, Extends, Passes
<1>2. SUFFICES ASSUME ~torn', crossed' = {}
               PROVE  Settled'
  BY DEF SettingsWhole
<1>3. Settled /\ (Merging(g) => ~Mixing)
  BY <1>1, <1>2 DEF SettingsWhole
<1>4. Installs(g)' /\ Adapter(g)' = Adapter(g) /\ Adapter(g) \in Adapters
      /\ Needed(Adapter(g))' = Needed(Adapter(g))
  BY Kinds DEF Installs, Adapter, Types, Needed, Installation
<1>5. ASSUME UNCHANGED <<settings, tree>>, \A h \in Commands \ {g} : frame'[h] = frame[h],
             ~At(g, "fill"), frame'[g].pc \notin {"fill", "plan"},
             frame'[g].pc = "truncate" => frame'[g].entries = settings[Target(g)'],
             \/ frame'[g].todo = frame[g].todo /\ ~At(g, "plan")
             \/ Needed(Adapter(g)) \subseteq ToSet(frame'[g].todo)
             \/ /\ ~At(g, "plan") /\ frame[g].todo # << >> /\ frame'[g].todo = Tail(frame[g].todo)
                /\ Has(Adapter(g), Target(g))
      PROVE  Settled'
  <2>1. HandsOff(g)
    BY <1>5, TreeKeepsExtensions DEF HandsOff, At
  <2>2. Passed(g)' = Needed(Adapter(g)) \ ToSet(frame'[g].todo)
    BY <1>4, <1>5 DEF Passed, At
  <2>3. ASSUME NEW f \in Passed(g)'
        PROVE  f \in Passed(g) \/ Has(Adapter(g), f)'
    <3>1. CASE frame'[g].todo = frame[g].todo /\ ~At(g, "plan")
      BY <2>2, <3>1 DEF Passed
    <3>2. CASE Needed(Adapter(g)) \subseteq ToSet(frame'[g].todo)
      BY <2>2, <3>2
    <3>3. CASE /\ ~At(g, "plan") /\ frame[g].todo # << >> /\ frame'[g].todo = Tail(frame[g].todo)
               /\ Has(Adapter(g), Target(g))
      <4>1. ToSet(Tail(frame[g].todo)) = ToSet(frame[g].todo) \ {Target(g)}
        BY <3>3, AdapterTarget
      <4>2. f \in Passed(g) \/ f = Target(g)
        BY <2>2, <3>3, <4>1 DEF Passed
      <4>3. PICK a \in Adapters : a = Adapter(g)
        BY <1>4
      <4>4. f \in Needed(a) /\ HasStays
        BY <2>1, <2>2, <4>3, HandsOffHas
      <4>5. Has(a, f) => Has(a, f)'
        BY <4>4, NeededStays
      <4>6. Has(a, f)' => Has(Adapter(g), f)'
        BY <1>4, <4>3 DEF Has
      <4> QED
        BY <3>3, <4>2, <4>3, <4>5, <4>6
    <3> QED
      BY <1>5, <3>1, <3>2, <3>3
  <2>4. Installs(g) /\ At(g, "truncate")' => frame'[g].entries = settings[Target(g)']
    BY <1>5 DEF At
  <2> QED
    BY <1>3, <2>1, <2>3, <2>4, HandsOffSettled
<1>6. CASE \E activate \in BOOLEAN : Plans(g, activate)
  <2>1. PICK activate \in BOOLEAN : Plans(g, activate)
    BY <1>6
  <2>2. PICK todo : todo = Installation(Adapter(g), activate)
    OBVIOUS
  <2>3. Needed(Adapter(g)) \subseteq ToSet(todo)
    <3>1. PICK a \in Adapters : a = Adapter(g)
      BY <1>4
    <3>2. todo = Installation(a, activate)
      BY <2>2, <3>1
    <3>3. ToSet(todo) = Needed(a) \union (IF activate THEN {Activation} ELSE {})
      BY <3>2, InstallationFiles
    <3> QED
      BY <3>1, <3>3
  <2>4. /\ UNCHANGED <<settings, tree>> /\ \A h \in Commands \ {g} : frame'[h] = frame[h]
        /\ ~At(g, "fill") /\ frame'[g].pc = "read" /\ frame'[g].todo = todo
    BY <2>1, <2>2 DEF Plans, Installing, At
  <2> QED
    BY <1>5, <2>3, <2>4
<1>7. CASE Leaves(g)
  <2>1. /\ UNCHANGED <<settings, tree>> /\ \A h \in Commands \ {g} : frame'[h] = frame[h]
        /\ ~At(g, "fill") /\ frame'[g].pc = "read" /\ ~At(g, "plan")
        /\ frame[g].todo # << >> /\ frame'[g].todo = Tail(frame[g].todo)
        /\ Has(Adapter(g), Target(g))
    BY <1>7 DEF Leaves, Installing, At
  <2> QED
    BY <1>5, <2>1
<1>8. CASE Reads(g)
  <2>1. /\ UNCHANGED <<settings, tree>> /\ \A h \in Commands \ {g} : frame'[h] = frame[h]
        /\ ~At(g, "fill") /\ frame'[g].pc = "truncate" /\ ~At(g, "plan")
        /\ frame'[g].todo = frame[g].todo /\ frame'[g].entries = settings[Target(g)]
    BY <1>8 DEF Reads, Installing, At
  <2>2. Target(g)' = Target(g)
    BY <2>1 DEF Target
  <2> QED
    BY <1>5, <2>1, <2>2
<1>9. CASE Truncates(g)
  BY <1>3, <1>9, TruncatesSettled DEF Truncates, Merging, At
<1>10. CASE FillsIt(g)
  BY <1>3, <1>10, FillsSettled DEF FillsIt, Merging, At
<1>11. CASE Extends(g)
  <2>1. /\ At(g, "scaffold") /\ frame'[g].pc = "read" /\ frame'[g].todo = Tail(frame[g].todo)
        /\ \A h \in Commands \ {g} : frame'[h] = frame[h]
        /\ settings' = settings
        /\ frame[g].todo # << >> /\ Target(g) = Extension(Adapter(g))
    BY <1>11 DEF Extends, Installing, AdapterShape, At
  <2>2. PICK file \in Files : tree' = [tree EXCEPT ![Target(g)] = file] /\ file # Absent
    BY <1>11 DEF Extends
  <2>3. PICK t \in Paths : t = Target(g) /\ t \notin SettingsFiles
    BY <1>4, <2>1, AdapterTarget
  <2>4. /\ tree'[t] = file /\ \A p \in Paths \ {t} : tree'[p] = tree[p]
        /\ \A a \in Adapters : Extension(a) \in Paths
    BY <2>2, <2>3, PathsApart DEF Types, TreeOK
  <2>5. Exists(t)'
    BY <2>2, <2>4 DEF Exists, Absent
  <2>6. ASSUME NEW a \in Adapters, Extension(a) \in removed \/ Exists(Extension(a))
        PROVE  Extension(a) \in removed' \/ Exists(Extension(a))'
    <3>1. PICK x \in Paths : x = Extension(a)
      BY <2>4
    <3>2. x \in removed \/ Exists(x)
      BY <2>6, <3>1
    <3>3. x \in removed' \/ Exists(x)'
      BY <2>4, <2>5, <3>2 DEF Exists, Absent
    <3> QED
      BY <3>1, <3>3 DEF Extension
  <2>7. HandsOff(g)
    BY <2>1, <2>6 DEF HandsOff, ExtensionsStay, At
  <2>8. ToSet(Tail(frame[g].todo)) = ToSet(frame[g].todo) \ {t}
    BY <2>1, <2>3, AdapterTarget
  <2>9. ASSUME NEW f \in Passed(g)'
        PROVE  f \in Passed(g) \/ Has(Adapter(g), f)'
    <3>1. f \in Needed(Adapter(g)) /\ f \notin ToSet(Tail(frame[g].todo))
      BY <1>4, <2>1, <2>9 DEF Passed, At
    <3>2. CASE f = t
      <4>1. SettingsFiles' = SettingsFiles
        BY DEF SettingsFiles, Config, Dependencies, Environment, Ignored, Secrets, Activation
      <4> QED
        BY <2>3, <2>5, <3>2, <4>1 DEF Has
    <3>3. CASE f # t
      BY <2>1, <2>8, <3>1, <3>3 DEF Passed, At
    <3> QED
      BY <3>2, <3>3
  <2>10. ~At(g, "truncate")'
    BY <2>1 DEF At
  <2> QED
    BY <1>3, <2>7, <2>9, <2>10, HandsOffSettled
<1>12. CASE \E pc \in Points : Passes(g, pc)
  <2>1. PICK pc \in Points : Passes(g, pc)
    BY <1>12
  <2>2. /\ UNCHANGED <<settings, tree>> /\ \A h \in Commands \ {g} : frame'[h] = frame[h]
        /\ ~At(g, "fill") /\ frame'[g].pc = pc /\ ~At(g, "plan")
        /\ pc \notin {"fill", "plan", "truncate"} /\ frame'[g].todo = frame[g].todo
    BY <1>2, <2>1 DEF Passes, Installing
  <2> QED
    BY <1>5, <2>2
<1> QED
  BY <1>6, <1>7, <1>8, <1>9, <1>10, <1>11, <1>12 DEF AdapterMoves

\* A command removes no file but a blueprint's, ...
LEMMA CommandsKeepPaths ==
  ASSUME Types, NEW g \in Commands,
         g \in Blueprints => Effects(g), g \notin Blueprints => Elsewhere(g),
         NEW p \in Paths \ Blueprinted, Exists(p)
  PROVE  Exists(p)'
<1>1. CASE g \in Blueprints
  <2>1. tree'[p] = tree[p]
    BY <1>1, PathsApart
       DEF Effects, Rests, Publishing, Detaching, PuttingBack, Types, TreeOK
  <2> QED
    BY <2>1 DEF Exists, Absent
<1>2. CASE g \notin Blueprints
  <2>1. tree'[p] = tree[p] \/ Exists(p)'
    BY <1>2 DEF Elsewhere, Overwrites
  <2> QED
    BY <2>1 DEF Exists, Absent
<1> QED
  BY <1>1, <1>2

\* ... so the extension points are where they were, whatever another command ...
LEMMA CommandsKeepExtensions ==
  ASSUME Types, NEW g \in Commands, UNCHANGED removed,
         g \in Blueprints => Effects(g), g \notin Blueprints => Elsewhere(g)
  PROVE  ExtensionsStay
<1>1. ASSUME NEW p \in Paths \ Blueprinted, Exists(p)
      PROVE  Exists(p)'
  BY <1>1, CommandsKeepPaths
<1>2. ASSUME NEW a \in Adapters, Extension(a) \in removed \/ Exists(Extension(a))
      PROVE  Extension(a) \in removed' \/ Exists(Extension(a))'
  <2>1. PICK x \in Paths \ Blueprinted : x = Extension(a)
    BY PathsApart
  <2>2. x \in removed' \/ Exists(x)'
    BY <1>1, <1>2, <2>1
  <2> QED
    BY <2>1, <2>2 DEF Extension
<1> QED
  BY <1>2 DEF ExtensionsStay

\* ... or the developer does, who may delete them.
LEMMA DeveloperKeepsExtensions ==
  ASSUME Types, Develops
  PROVE  ExtensionsStay
<1>1. PICK p \in Sources : Develop(p)
  BY DEF Develops
<1>2. TreeOK /\ p \in Paths
  BY <1>1, PathsApart DEF Types
<1>3. /\ \A q \in Paths \ {p} : tree'[q] = tree[q]
      /\ removed \subseteq removed'
      /\ tree'[p].kind = "developer" \/ p \in removed'
  BY <1>1, <1>2 DEF Develop, Edit, Add, Delete, Does, TreeOK
<1>4. ASSUME NEW a \in Adapters, Extension(a) \in removed \/ Exists(Extension(a))
      PROVE  Extension(a) \in removed' \/ Exists(Extension(a))'
  <2>1. PICK x \in Paths : x = Extension(a)
    BY PathsApart
  <2>2. x \in removed' \/ Exists(x)'
    BY <1>3, <1>4, <2>1 DEF Exists, Absent
  <2> QED
    BY <2>1, <2>2 DEF Extension
<1> QED
  BY <1>4 DEF ExtensionsStay

\* What installs no adapter leaves the settings alone.
LEMMA OthersSettled ==
  ASSUME Types, SettingsWhole, NEW g \in Commands, ~Installs(g), ExtensionsStay,
         \A h \in Commands \ {g} : frame'[h] = frame[h],
         UNCHANGED <<request, settings>>, crossed \subseteq crossed', torn => torn'
  PROVE  SettingsWhole'
<1>1. SUFFICES ASSUME ~torn', crossed' = {}
               PROVE  Settled'
  BY DEF SettingsWhole
<1>2. Settled
  BY <1>1 DEF SettingsWhole
<1>3. HandsOff(g)
  BY DEF HandsOff, Installs
<1> QED
  BY <1>2, <1>3, HandsOffSettled

\* Neither does the developer, who has no part in the settings.
LEMMA DevelopsSettled ==
  ASSUME Types, SettingsWhole, ExtensionsStay, UNCHANGED <<request, frame, settings, torn>>,
         crossed \subseteq crossed'
  PROVE  SettingsWhole'
<1>1. SUFFICES ASSUME ~torn', crossed' = {}
               PROVE  Settled'
  BY DEF SettingsWhole
<1>2. Settled
  BY <1>1 DEF SettingsWhole
<1>3. HandsOff("developer") /\ "developer" \notin Commands
  BY FilesAssumption DEF HandsOff
<1> QED
  BY <1>2, <1>3, HandsOffSettled

-----------------------------------------------------------------------------
(* The invariant.                                                           *)

Inv ==
  /\ Types /\ mine \subseteq Sources
  /\ BlueprintTree /\ FeaturesWhole /\ Watched
  /\ StagesOK /\ RecipeInv /\ SettingsWhole /\ DeveloperWorkIsKept

\* No command has begun, and the project has what it had.
LEMMA InitInv ==
  Init => Inv
<1>1. SUFFICES ASSUME Init
               PROVE  Inv
  OBVIOUS
<1>2. PICK scenario \in Scenarios, found \in SUBSET Blueprinted :
        /\ \A f \in Features : Manifest(f) \notin found
        /\ request = scenario
        /\ tree = [p \in Paths |-> IF p \in found
                     THEN [by |-> "project", kind |-> "rendered", entries |-> {}]
                     ELSE Absent]
        /\ attic = {} /\ mine = {} /\ removed = {}
        /\ frame = [g \in Commands |-> Start]
        /\ recipe = << >> /\ crossed = {}
        /\ target \in {Nothing, EmptyDir, OtherDir}
        /\ stage = [g \in Commands |-> Unstaged(g)]
        /\ settings = [f \in SettingsFiles |-> {}]
  <2>1. PICK scenario \in Scenarios, packaged \in BOOLEAN :
          LET created == {scenario[g].feature : g \in
                            {h \in Commands : scenario[h].kind = "entity"}}
              there == {Entity(f) : f \in Features \ created}
                         \union (IF packaged THEN {Package, Models} ELSE {})
          IN /\ request = scenario
             /\ tree = [p \in Paths |-> IF p \in there
                          THEN [by |-> "project", kind |-> "rendered", entries |-> {}]
                          ELSE Absent]
             /\ attic = {} /\ mine = {} /\ removed = {}
             /\ frame = [g \in Commands |-> Start]
             /\ recipe = << >> /\ crossed = {}
             /\ target \in {Nothing, EmptyDir, OtherDir}
             /\ stage = [g \in Commands |-> Unstaged(g)]
             /\ settings = [f \in SettingsFiles |-> {}]
    BY <1>1 DEF Init
  <2>2. PICK found : found =
          {Entity(f) : f \in Features \ {scenario[g].feature : g \in
                                           {h \in Commands : scenario[h].kind = "entity"}}}
            \union (IF packaged THEN {Package, Models} ELSE {})
    OBVIOUS
  <2>3. found \subseteq {Entity(f) : f \in Features} \union {Package, Models}
    BY <2>2
  <2>4. found \in SUBSET Blueprinted /\ \A f \in Features : Manifest(f) \notin found
    BY <2>3 DEF Blueprinted, Manifest, Entity, Package, Models
  <2> QED
    BY <2>1, <2>2, <2>4
<1>3. RequestsOK
  BY <1>2, ScenariosAssumption DEF RequestsOK, Asks
<1>4. /\ Start.pc = "plan" /\ Start.todo = << >> /\ Start.originals = {} /\ Start.undo = << >>
      /\ Start.entries = {} /\ Start \in Frames
  BY DEF Start, Frames, Points, Absent, Files, FileKinds
<1>5. FramesOK /\ \A g \in Commands : frame[g] = Start
  BY <1>2, <1>4 DEF FramesOK
<1>6. /\ TreeOK
      /\ \A p \in Paths : tree[p] = Absent \/ (p \in found /\ tree[p].by = "project")
  BY <1>2 DEF TreeOK, Files, FileKinds, Absent
<1>7. \A g \in Commands : g # "nobody" /\ g # "project" /\ g # "developer"
  BY FilesAssumption
<1>8. settings \in [SettingsFiles -> SUBSET Adapters] /\ recipe \in Seq(Commands)
  BY <1>2
<1>9. Types
  BY <1>3, <1>5, <1>6, <1>8 DEF Types
<1>10. Distinct(<< >>) /\ ToSet(<< >>) = {}
  BY DEF Distinct, ToSet
<1>11. BlueprintTree
  <2>1. \A g \in Blueprints : g \in Commands /\ frame[g] = Start
    BY <1>3, <1>5, Kinds
  <2>2. ASSUME NEW g \in Blueprints
        PROVE  BlueprintShape(g)
    <3>1. frame[g].pc = "plan" /\ frame[g].undo = << >>
      BY <1>4, <2>1
    <3>2. \A S : << >> \in Seq(S)
      OBVIOUS
    <3>3. frame[g].undo \in Seq(Blueprinted \union Dirs) /\ Distinct(frame[g].undo)
      BY <1>10, <3>1, <3>2
    <3> QED
      BY <3>1, <3>3 DEF BlueprintShape, BlueprintPoints, Preparing, Undoing
  <2>3. \A g \in Blueprints, p \in Paths : ~Owes(g, p) /\ ~HeldAt(g, p)
    BY <1>4, <2>1 DEF Owes, HeldAt, At, Preparing, Undoing
  <2>4. \A g \in Blueprints, p \in Paths : tree[p].by # g /\ tree[p] # Rendered(g)
    BY <1>6, <1>7, <2>1, RenderedFile
  <2> QED
    BY <2>2, <2>3, <2>4, PathsApart DEF BlueprintTree
<1>12. FeaturesWhole
  <2>1. \A f \in Features : Manifest(f) \notin found /\ Manifest(f) \in Paths
    BY <1>2, PathsApart
  <2>2. \A f \in Features : ~Installed(f)
    BY <1>6, <2>1 DEF Installed, Exists
  <2> QED
    BY <2>2 DEF FeaturesWhole
<1>13. Watched
  <2>0. ASSUME NEW g \in Commands
        PROVE  /\ frame[g].pc = "plan" /\ frame[g].todo = << >> /\ frame[g].entries = {}
               /\ \A S : frame[g].todo \in Seq(S)
    <3>1. frame[g].pc = "plan" /\ frame[g].todo = << >> /\ frame[g].entries = {}
      BY <1>4, <1>5
    <3>2. \A S : << >> \in Seq(S)
      OBVIOUS
    <3> QED
      BY <3>1, <3>2
  <2>1. \A g \in Commands : BindingShape(g)
    BY <2>0 DEF BindingShape
  <2>2. ASSUME NEW g \in Commands
        PROVE  AdapterShape(g)
    <3>1. /\ Distinct(frame[g].todo) /\ ToSet(frame[g].todo) = {}
          /\ frame[g].todo = << >> /\ Len(<< >>) = 0
      BY <1>10, <2>0
    <3>2. \A i \in 1..Len(frame[g].todo) : frame[g].todo[i] = Activation => i = Len(frame[g].todo)
      BY <3>1
    <3> QED
      BY <2>0, <3>1, <3>2 DEF AdapterShape
  <2> QED
    BY <2>1, <2>2 DEF Watched
<1>14. StagesOK
  <2>1. stage \in [Commands -> [by : Commands, ran : Nat, recorded : Nat]]
    BY <1>2 DEF Unstaged
  <2>2. /\ target \in [by : Commands \union {"nobody", "developer"}, ran : Nat, recorded : Nat]
        /\ target.by \notin Commands
    BY <1>2, <1>7 DEF Nothing, EmptyDir, OtherDir
  <2>3. ASSUME NEW g \in Creators
        PROVE  StageShape(g)
    <3>1. g \in Commands /\ frame[g] = Start /\ stage[g] = Unstaged(g) /\ 0 \in 0..Steps
      BY <1>2, <1>3, <1>5, Kinds, StepsAssumption
    <3>2. Unstaged(g) \in [by : {g}, ran : 0..Steps, recorded : 0..Steps]
      BY <3>1 DEF Unstaged
    <3> QED
      BY <1>4, <3>1, <3>2 DEF StageShape
  <2> QED
    BY <2>1, <2>2, <2>3 DEF StagesOK, TargetIsWhole
<1>15. RecipeInv
  <2>1. Ended(recipe)
    BY <1>2, <1>8, <1>10 DEF Ended
  <2> QED
    BY <1>4, <1>5, <2>1 DEF RecipeInv, At
<1>16. SettingsWhole
  <2>1. \A g \in Commands : /\ Passed(g) = {} /\ ~At(g, "truncate")
                            /\ \A f : ~Fills(g, f)
    BY <1>4, <1>5 DEF Passed, At, Fills
  <2>2. \A a \in Adapters : ~Has(a, Activation)
    BY <1>2, <2>1 DEF Has, SettingsFiles, Activation
  <2> QED
    BY <2>1, <2>2 DEF SettingsWhole, Settled
<1>17. DeveloperWorkIsKept /\ mine \subseteq Sources
  BY <1>2 DEF DeveloperWorkIsKept
<1> QED
  BY <1>9, <1>11, <1>12, <1>13, <1>14, <1>15, <1>16, <1>17 DEF Inv

-----------------------------------------------------------------------------
\* What is known of the files stays known while nobody moves.
LEMMA NobodyMoves ==
  ASSUME Types, BlueprintTree, FeaturesWhole, Watched, DeveloperWorkIsKept,
         mine \subseteq Sources,
         UNCHANGED <<request, frame, tree, attic, removed, mine, late>>
  PROVE  /\ BlueprintTree' /\ FeaturesWhole' /\ Watched' /\ DeveloperWorkIsKept'
         /\ mine' \subseteq Sources /\ ExtensionsStay
<1>1. Blueprints' = Blueprints /\ \A h \in Commands : Rendered(h)' = Rendered(h)
  BY DEF Blueprints, Asked, Rendered
<1>2. \A h \in Commands :
        /\ BlueprintShape(h)' <=> BlueprintShape(h)
        /\ \A p : (Owes(h, p)' <=> Owes(h, p)) /\ (HeldAt(h, p)' <=> HeldAt(h, p))
        /\ Stays(h)' <=> Stays(h)
        /\ Newest(h)' = Newest(h)
        /\ \A pc : At(h, pc)' <=> At(h, pc)
  BY SameShape
<1>3. Blueprints \subseteq Commands
  BY Kinds DEF Types
<1>4. BlueprintTree'
  BY <1>1, <1>2, <1>3 DEF BlueprintTree
<1>5. \A f \in Features : /\ Module(f)' = Module(f) /\ (Installed(f)' <=> Installed(f))
                          /\ (Exists(Module(f))' <=> Exists(Module(f)))
  BY DEF Module, Installed, Manifest, Exists, Absent
<1>6. FeaturesWhole'
  BY <1>1, <1>2, <1>3, <1>5 DEF FeaturesWhole
<1>7. Seen
  BY DEF Seen
<1>8. \A h \in Commands : (Exposes(h)' <=> Exposes(h)) /\ (Installs(h)' <=> Installs(h))
  BY DEF Exposes, Installs
<1>9. Watched'
  BY <1>7, <1>8, StillWatched DEF Watched
<1>10. DeveloperWorkIsKept'
  BY <1>2 DEF DeveloperWorkIsKept
<1>11. ExtensionsStay
  BY TreeKeepsExtensions
<1> QED
  BY <1>4, <1>6, <1>9, <1>10, <1>11

-----------------------------------------------------------------------------
(* The steps.                                                               *)

\* A step of the specification that a command takes.
CommandMoves(g) ==
  \/ /\ \/ BlueprintStep(g) /\ UNCHANGED <<late, torn, staging, settings>>
        \/ BindingStep(g) /\ UNCHANGED <<staging, settings>>
        \/ StagingStep(g)
        \/ AdapterStep(g) /\ UNCHANGED staging
     /\ UNCHANGED recipe
     /\ crossed' = crossed \union Crossing
  \/ Record(g) /\ crossed' = crossed \union Crossing
  \/ Killed(g) /\ UNCHANGED crossed

\* What a command's step is to the files, the recipe, the settings and the staged
\* directories.
LEMMA CommandFacts ==
  ASSUME Inv, NEW g \in Commands, CommandMoves(g)
  PROVE  /\ Acts(g) /\ Recording(g) /\ crossed \subseteq crossed'
         /\ Installs(g) => AdapterActs(g)
         /\ ~Installs(g) => UNCHANGED settings /\ (torn => torn')
         /\ StagingStep(g) \/ (UNCHANGED staging /\ (g \in Creators => Goto(g, "killed")))
<1>1. Types /\ RequestsOK /\ BlueprintTree /\ Watched /\ StagesOK
  BY DEF Inv, Types
<1>2. /\ g \in Blueprints => BlueprintShape(g)
      /\ g \in Creators => StageShape(g)
      /\ Installs(g) => AdapterShape(g)
  BY <1>1 DEF BlueprintTree, StagesOK, Watched
<1>3. CASE BlueprintStep(g) /\ UNCHANGED <<late, torn, staging, settings, recipe>>
           /\ crossed' = crossed \union Crossing
  <2>1. g \in Blueprints
    BY <1>3 DEF BlueprintStep
  <2>2. Recording(g)
    BY <1>1, <1>2, <1>3, <2>1, BlueprintRecords
  <2> QED
    BY <1>1, <1>3, <2>1, <2>2, Kinds DEF Acts
<1>4. CASE BindingStep(g) /\ UNCHANGED <<staging, settings, recipe>>
           /\ crossed' = crossed \union Crossing
  <2>1. Exposes(g) /\ (torn => torn')
    BY <1>4 DEF BindingStep, PlanBinding, CheckBinding, WriteBinding, WriteBindingFails,
                BindingWritten
  <2>2. Recording(g)
    BY <1>1, <1>4, BindingRecords
  <2> QED
    BY <1>1, <1>4, <2>1, <2>2, Kinds DEF Acts
<1>5. CASE StagingStep(g) /\ UNCHANGED recipe /\ crossed' = crossed \union Crossing
  <2>1. g \in Creators /\ UNCHANGED <<settings, torn>>
    BY <1>5 DEF StagingStep, BeginProject, RunStep, NoteStep, RenameStaged, StagingFails
  <2>2. Recording(g)
    BY <1>1, <1>5, StagingRecords
  <2> QED
    BY <1>1, <1>5, <2>1, <2>2, Kinds DEF Acts
<1>6. CASE AdapterStep(g) /\ UNCHANGED <<staging, recipe>> /\ crossed' = crossed \union Crossing
  <2>1. Installs(g)
    BY <1>6 DEF AdapterStep
  <2>2. Recording(g)
    BY <1>1, <1>2, <1>6, <2>1, AdapterRecords
  <2> QED
    BY <1>1, <1>6, <2>1, <2>2, Kinds DEF Acts, AdapterActs
<1>7. CASE Record(g) /\ crossed' = crossed \union Crossing
  <2>1. Recording(g)
    BY <1>1, <1>7, RecordRecords
  <2>2. UNCHANGED <<staging, settings, torn>> /\ frame[g].pc \in {"load", "save"}
    BY <1>7 DEF Record, Load, Save, RecordFails, At
  <2>3. g \notin Creators
    BY <1>2, <2>2 DEF StageShape
  <2> QED
    BY <1>7, <2>1, <2>2, <2>3 DEF Acts, AdapterActs
<1>8. CASE Killed(g) /\ UNCHANGED crossed
  <2>1. UNCHANGED <<staging, settings, torn, recipe>> /\ Goto(g, "killed")
    BY <1>8 DEF Killed
  <2>2. Recording(g)
    BY <1>1, <1>8, <2>1, RecordRecords
  <2> QED
    BY <1>8, <2>1, <2>2 DEF Acts, AdapterActs
<1> QED
  BY <1>3, <1>4, <1>5, <1>6, <1>7, <1>8 DEF CommandMoves

\* Two commands that write at once, unaware of each other, are noted.
LEMMA Overlaps ==
  ASSUME Inv, NEW g \in Commands, CommandMoves(g)
  PROVE  /\ \A h \in Commands \ {g} : At(g, "save") /\ At(h, "save") /\ Saves(g) => crossed' # {}
         /\ Mixing /\ Merging(g) => crossed' # {}
<1>1. Types
  BY DEF Inv
<1>2. CASE crossed' = crossed \union Crossing
  <2>1. ASSUME NEW h \in Commands \ {g}, At(g, "save"), At(h, "save")
        PROVE  Crossing = Commands
    BY <2>1 DEF Crossing, Blind
  <2>2. Mixing => Crossing = Commands
    BY DEF Crossing
  <2> QED
    BY <1>2, <2>1, <2>2
<1>3. CASE Killed(g)
  <2>1. frame'[g].pc = "killed"
    BY <1>1, <1>3, KilledMoves DEF Becomes
  <2>2. ~Merging(g)
    BY <1>3 DEF Killed, Merging
  <2> QED
    BY <2>1, <2>2 DEF Saves
<1> QED
  BY <1>2, <1>3 DEF CommandMoves

\* A command's step keeps the invariant.
LEMMA CommandKeeps ==
  ASSUME Inv, NEW g \in Commands, CommandMoves(g)
  PROVE  Inv'
<1>1. /\ Types /\ mine \subseteq Sources /\ BlueprintTree /\ FeaturesWhole /\ Watched
      /\ StagesOK /\ RecipeInv /\ SettingsWhole /\ DeveloperWorkIsKept
  BY DEF Inv
<1>2. /\ Acts(g) /\ Recording(g) /\ crossed \subseteq crossed'
      /\ Installs(g) => AdapterActs(g)
      /\ ~Installs(g) => UNCHANGED settings /\ (torn => torn')
      /\ StagingStep(g) \/ (UNCHANGED staging /\ (g \in Creators => Goto(g, "killed")))
  BY CommandFacts
<1>3. /\ Turn(g) /\ UNCHANGED <<request, removed, mine, late>>
      /\ g \in Blueprints => BlueprintShape(g)' /\ Effects(g)
      /\ g \notin Blueprints => Elsewhere(g)
  BY <1>1, <1>2, Acting
<1>4. RecipeInv' /\ recipe' \in Seq(Commands)
  <2>1. \A h \in Commands \ {g} : At(g, "save") /\ At(h, "save") /\ Saves(g) => crossed' # {}
    BY Overlaps
  <2> QED
    BY <1>1, <1>2, <1>3, <2>1, RecordingKeeps
<1>5. settings' \in [SettingsFiles -> SUBSET Adapters]
  <2>1. CASE Installs(g)
    BY <1>1, <1>2, <2>1, AdapterElsewhere DEF Watched
  <2>2. CASE ~Installs(g)
    BY <1>1, <1>2, <2>2 DEF Types
  <2> QED
    BY <2>1, <2>2
<1>6. Types'
  <2>1. FramesOK' /\ TreeOK' /\ RequestsOK'
    BY <1>3 DEF Turn
  <2>2. SettingsFiles' = SettingsFiles
    BY DEF SettingsFiles, Config, Dependencies, Environment, Ignored, Secrets, Activation
  <2> QED
    BY <1>4, <1>5, <2>1, <2>2 DEF Types
<1>7. BlueprintTree' /\ FeaturesWhole'
  <2>1. CASE g \in Blueprints
    BY <1>1, <1>3, <2>1, EffectsOnTree, EffectsOnFeatures
  <2>2. CASE g \notin Blueprints
    BY <1>1, <1>3, <2>2, ElsewhereOnTree, ElsewhereOnFeatures
  <2> QED
    BY <2>1, <2>2
<1>8. Watched'
  BY <1>1, <1>2, ActsWatched
<1>9. StagesOK'
  <2>1. CASE StagingStep(g)
    BY <1>1, <2>1, StagingKeeps
  <2>2. CASE UNCHANGED staging /\ (g \in Creators => Goto(g, "killed"))
    <3>1. FramesOK' /\ \A h \in Commands \ {g} : frame'[h] = frame[h]
      BY <1>3 DEF Turn
    <3>2. UNCHANGED <<request, staging>>
      BY <1>3, <2>2
    <3> QED
      BY <1>1, <2>2, <3>1, <3>2, ElsewhereStages
  <2> QED
    BY <1>2, <2>1, <2>2
<1>10. SettingsWhole'
  <2>1. CASE Installs(g)
    <3>1. AdapterShape(g) /\ AdapterActs(g)
      BY <1>1, <1>2, <2>1 DEF Watched
    <3>2. AdapterMoves(g)
      BY <1>1, <3>1, AdapterActing
    <3>3. Mixing /\ Merging(g) => crossed' # {}
      BY Overlaps
    <3> QED
      BY <1>1, <1>2, <1>3, <2>1, <3>1, <3>2, <3>3, AdapterSettled
  <2>2. CASE ~Installs(g)
    <3>1. ExtensionsStay
      BY <1>1, <1>3, CommandsKeepExtensions
    <3>2. \A h \in Commands \ {g} : frame'[h] = frame[h]
      BY <1>3 DEF Turn
    <3> QED
      BY <1>1, <1>2, <1>3, <2>2, <3>1, <3>2, OthersSettled
  <2> QED
    BY <2>1, <2>2
<1>11. DeveloperWorkIsKept'
  BY <1>1, <1>3, CommandsKeepWork
<1>12. mine' \subseteq Sources'
  BY <1>1, <1>3 DEF Sources, Models, Package, Entity, Module, Extension, Contract
<1> QED
  BY <1>4, <1>6, <1>7, <1>8, <1>9, <1>10, <1>11, <1>12 DEF Inv

-----------------------------------------------------------------------------
\* What the developer looks after is theirs.
LEMMA ConcernedSources ==
  ASSUME RequestsOK, NEW g \in Commands
  PROVE  Concerned(g) \subseteq Sources
<1>1. CASE g \in Blueprints
  <2>1. Feature(g) \in Features /\ ~Exposes(g) /\ ~Installs(g)
    BY <1>1, Kinds
  <2>2. Concerned(g) = {Models, Package, Entity(Feature(g)), Module(Feature(g))}
    BY <1>1, <2>1 DEF Concerned
  <2> QED
    BY <2>1, <2>2 DEF Sources
<1>2. CASE g \notin Blueprints /\ Exposes(g)
  <2>1. Via(g) \in Vias /\ UseCase(g) \in UseCases /\ ~Installs(g)
    BY <1>2, Kinds
  <2>2. Concerned(g) = {ContractOf(g)}
    BY <1>2, <2>1 DEF Concerned
  <2> QED
    BY <2>1, <2>2 DEF Sources, ContractOf
<1>3. CASE g \notin Blueprints /\ ~Exposes(g) /\ Installs(g)
  <2>1. Adapter(g) \in Adapters
    BY <1>3, Kinds
  <2>2. Concerned(g) = {Extension(Adapter(g))}
    BY <1>3 DEF Concerned
  <2> QED
    BY <2>1, <2>2 DEF Sources
<1>4. CASE g \notin Blueprints /\ ~Exposes(g) /\ ~Installs(g)
  BY <1>4 DEF Concerned
<1> QED
  BY <1>1, <1>2, <1>3, <1>4

\* The developer writes a file, or deletes one.
LEMMA DevelopsTree ==
  ASSUME TreeOK, Develops
  PROVE  TreeOK'
<1>1. PICK p \in Sources : Develop(p)
  BY DEF Develops
<1>2. p \in Paths
  BY <1>1, PathsApart
<1>3. PICK file \in Files : tree' = [tree EXCEPT ![p] = file]
  <2>1. \A by \in {tree[p].by, "developer"} :
          [by |-> by, kind |-> "developer", entries |-> {}] \in Files
    BY <1>2 DEF TreeOK, Files, FileKinds
  <2>2. Absent \in Files
    BY DEF Absent, Files, FileKinds
  <2> QED
    BY <1>1, <2>1, <2>2 DEF Develop, Edit, Add, Delete, Does
<1>4. Paths' = Paths /\ Files' = Files
  BY DEF Files, Paths, Sources, Models, Package, Entity, Module, Manifest,
         Extension, Contract, Registry, Bindings, Composition
<1> QED
  BY <1>2, <1>3, <1>4 DEF TreeOK

\* The developer keeps the invariant.
LEMMA DevelopsKeeps ==
  ASSUME Inv, NEW g \in Commands, NEW p \in Concerned(g), Develop(p), Surprises,
         UNCHANGED <<request, frame, torn, staging, settings, recipe>>, crossed \subseteq crossed'
  PROVE  Inv'
<1>1. /\ Types /\ mine \subseteq Sources /\ BlueprintTree /\ FeaturesWhole /\ Watched
      /\ StagesOK /\ RecipeInv /\ SettingsWhole /\ DeveloperWorkIsKept
      /\ FramesOK /\ TreeOK /\ RequestsOK
  BY DEF Inv, Types
<1>2. Develops
  BY <1>1, ConcernedSources DEF Develops
<1>3. Types'
  <2>1. TreeOK'
    BY <1>1, <1>2, DevelopsTree
  <2>2. FramesOK' /\ RequestsOK'
    BY <1>1 DEF FramesOK, RequestsOK, Frames, Asks, Points, Paths, SettingsFiles, Texts, Files,
                FileKinds, Dirs
  <2>3. SettingsFiles' = SettingsFiles
    BY DEF SettingsFiles, Config, Dependencies, Environment, Ignored, Secrets, Activation
  <2> QED
    BY <1>1, <2>1, <2>2, <2>3 DEF Types
<1>4. BlueprintTree' /\ FeaturesWhole' /\ Watched'
  BY <1>1, <1>2, DevelopsOnTree, DevelopsOnFeatures, DevelopsWatched
<1>5. StagesOK'
  <2>1. FramesOK' /\ UNCHANGED frame /\ UNCHANGED <<request, staging>>
    BY <1>3 DEF Types
  <2>2. \A h \in Commands \ {"developer"} : frame'[h] = frame[h]
    BY <2>1
  <2> QED
    BY <1>1, <2>1, <2>2, ElsewhereStages
<1>6. RecipeInv'
  <2>1. UNCHANGED <<request, frame, recipe>>
    OBVIOUS
  <2> QED
    BY <1>1, <2>1, RecipeStays
<1>7. SettingsWhole'
  <2>1. UNCHANGED <<request, frame, settings, torn>>
    OBVIOUS
  <2>2. ExtensionsStay
    BY <1>1, <1>2, DeveloperKeepsExtensions
  <2> QED
    BY <1>1, <2>1, <2>2, DevelopsSettled
<1>8. DeveloperWorkIsKept' /\ mine' \subseteq Sources
  BY <1>1, <1>2, DeveloperKeepsWork
<1>9. Sources' = Sources
  BY DEF Sources, Models, Package, Entity, Module, Extension, Contract
<1> QED
  BY <1>3, <1>4, <1>5, <1>6, <1>7, <1>8, <1>9 DEF Inv

\* So does a directory at the target, and so does nothing at all.
LEMMA NothingMovesKeeps ==
  ASSUME Inv, \/ UNCHANGED staging
              \/ MakeTarget,
         UNCHANGED <<request, frame, tree, attic, removed, mine, late, torn, settings, recipe>>,
         crossed \subseteq crossed'
  PROVE  Inv'
<1>1. /\ Types /\ mine \subseteq Sources /\ BlueprintTree /\ FeaturesWhole /\ Watched
      /\ StagesOK /\ RecipeInv /\ SettingsWhole /\ DeveloperWorkIsKept
      /\ FramesOK /\ TreeOK /\ RequestsOK
  BY DEF Inv, Types
<1>2. UNCHANGED <<request, frame, tree, attic, removed, mine, late>>
  OBVIOUS
<1>3. /\ BlueprintTree' /\ FeaturesWhole' /\ Watched' /\ DeveloperWorkIsKept'
      /\ mine' \subseteq Sources /\ ExtensionsStay
  BY <1>1, <1>2, NobodyMoves
<1>4. Types'
  <2>1. TreeOK'
    BY <1>1 DEF TreeOK, Files, Paths, Sources, Models, Package, Entity, Module, Manifest,
                Extension, Contract, Registry, Bindings, Composition
  <2>2. FramesOK' /\ RequestsOK'
    BY <1>1 DEF FramesOK, RequestsOK, Frames, Asks, Points, Paths, SettingsFiles, Texts, Files,
                FileKinds, Dirs
  <2>3. SettingsFiles' = SettingsFiles
    BY DEF SettingsFiles, Config, Dependencies, Environment, Ignored, Secrets, Activation
  <2> QED
    BY <1>1, <2>1, <2>2, <2>3 DEF Types
<1>5. StagesOK'
  <2>1. FramesOK' /\ UNCHANGED frame /\ \A h \in Commands \ {"nobody"} : frame'[h] = frame[h]
    BY <1>4 DEF Types
  <2>2. ASSUME UNCHANGED staging
        PROVE  StagesOK'
    <3>1. UNCHANGED <<request, staging>>
      BY <2>2
    <3> QED
      BY <1>1, <2>1, <3>1, ElsewhereStages
  <2> QED
    BY <1>1, <2>2, TargetKeeps
<1>6. RecipeInv'
  <2>1. UNCHANGED <<request, frame, recipe>>
    OBVIOUS
  <2> QED
    BY <1>1, <2>1, RecipeStays
<1>7. SettingsWhole'
  <2>1. UNCHANGED <<request, frame, settings, torn>>
    OBVIOUS
  <2> QED
    BY <1>1, <1>3, <2>1, DevelopsSettled
<1>8. Sources' = Sources
  BY DEF Sources, Models, Package, Entity, Module, Extension, Contract
<1> QED
  BY <1>3, <1>4, <1>5, <1>6, <1>7, <1>8 DEF Inv

\* The invariant is inductive.
LEMMA NextInv ==
  Inv /\ [Next]_vars => Inv'
<1>1. SUFFICES ASSUME Inv, [Next]_vars
               PROVE  Inv'
  OBVIOUS
<1>2. ASSUME NEW g \in Commands, CommandMoves(g)
      PROVE  Inv'
  BY <1>1, <1>2, CommandKeeps
<1>3. ASSUME NEW g \in Commands, NEW p \in Concerned(g), Develop(p), Surprises,
             UNCHANGED <<request, frame, torn, staging, settings, recipe>>,
             crossed' = crossed \union Crossing
      PROVE  Inv'
  <2>1. crossed \subseteq crossed'
    BY <1>3
  <2> QED
    BY <1>1, <1>3, <2>1, DevelopsKeeps
<1>4. ASSUME MakeTarget, UNCHANGED recipe, crossed' = crossed \union Crossing
      PROVE  Inv'
  <2>1. UNCHANGED <<request, frame, tree, attic, removed, mine, late, torn, settings, recipe>>
    BY <1>4 DEF MakeTarget, contents
  <2>2. crossed \subseteq crossed'
    BY <1>4
  <2> QED
    BY <1>1, <1>4, <2>1, <2>2, NothingMovesKeeps
<1>5. ASSUME UNCHANGED vars
      PROVE  Inv'
  <2>1. /\ UNCHANGED <<request, frame, tree, attic, removed, mine, late, torn, settings, recipe>>
        /\ UNCHANGED staging /\ crossed \subseteq crossed'
    BY <1>5 DEF vars, files, staging
  <2> QED
    BY <1>1, <2>1, NothingMovesKeeps
<1>6. CASE Next
  BY <1>2, <1>3, <1>4, <1>6 DEF Next, CommandMoves
<1> QED
  BY <1>1, <1>5, <1>6

-----------------------------------------------------------------------------
(* What the invariant says.                                                 *)

\* What a refused blueprint has not deleted is not its own.
LEMMA NothingLeft ==
  ASSUME Types, BlueprintTree
  PROVE  FailureLeavesNothing
<1>1. SUFFICES ASSUME NEW g \in Blueprints, At(g, "refused"), ~frame[g].spoiled,
                      NEW p \in Paths \ removed, tree[p] = Rendered(g)
               PROVE  FALSE
  BY DEF FailureLeavesNothing
<1>2. g \in Commands /\ Rendered(g).by = g
  BY Kinds, RenderedFile DEF Types
<1>3. p \in Blueprinted \ removed
  BY <1>1, <1>2 DEF BlueprintTree
<1>4. Owes(g, p) \/ Stays(g)
  BY <1>1, <1>3 DEF BlueprintTree
<1> QED
  BY <1>1, <1>4 DEF Owes, Stays, At, Preparing, Undoing

\* What an adapter has, while no file is being filled, is in the files.
LEMMA HasComplete ==
  ASSUME \A h \in Commands : ~At(h, "fill"), NEW a \in Adapters,
         \A f \in Needed(a) : Has(a, f)
  PROVE  Complete(a)
<1>1. PICK todo : todo = Installation(a, FALSE)
  OBVIOUS
<1>2. /\ Needed(a) \subseteq (SettingsFiles \ {Activation}) \union {Extension(a)}
      /\ Extension(a) \in Needed(a) /\ FALSE \in BOOLEAN
  BY <1>1, InstallationFiles
<1>3. Extension(a) \notin SettingsFiles
  BY PathsApart
<1>4. ASSUME NEW f \in Needed(a) \ {Extension(a)}
      PROVE  a \in settings[f]
  <2>1. f \in SettingsFiles /\ Has(a, f)
    BY <1>2
  <2> QED
    BY <2>1 DEF Has, Fills
<1>5. Extension(a) \in removed \/ Exists(Extension(a))
  BY <1>2, <1>3 DEF Has
<1> QED
  BY <1>4, <1>5 DEF Complete, Needed

\* An installed feature has its module; an active adapter, and one that a command has
\* just installed, have what they need.
LEMMA InstalledComplete ==
  ASSUME Types, FeaturesWhole, Watched, SettingsWhole
  PROVE  InstalledIsComplete
<1>1. \A f \in Features : Installed(f) /\ Module(f) \notin removed => Exists(Module(f))
  BY DEF FeaturesWhole
<1>2. ASSUME ~torn, crossed = {}, \A g \in Commands : ~At(g, "fill")
      PROVE  /\ \A a \in settings[Activation] : Complete(a)
             /\ \A g \in Commands :
                  Installs(g) /\ frame[g].pc \in {"load", "save", "done"} => Complete(Adapter(g))
  <2>1. Settled
    BY <1>2 DEF SettingsWhole
  <2>2. ASSUME NEW a \in settings[Activation]
        PROVE  Complete(a)
    <3>1. Activation \in SettingsFiles
      BY DEF SettingsFiles
    <3>2. a \in Adapters /\ Has(a, Activation)
      BY <2>2, <3>1 DEF Types, Has
    <3>3. \A f \in Needed(a) : Has(a, f)
      BY <2>1, <3>2 DEF Settled
    <3> QED
      BY <1>2, <3>2, <3>3, HasComplete
  <2>3. ASSUME NEW g \in Commands, Installs(g), frame[g].pc \in {"load", "save", "done"}
        PROVE  Complete(Adapter(g))
    <3>1. Adapter(g) \in Adapters /\ frame[g].todo = << >>
      BY <2>3, Kinds DEF Types, Watched, AdapterShape
    <3>2. ToSet(<< >>) = {}
      BY DEF ToSet
    <3>3. Passed(g) = Needed(Adapter(g))
      BY <2>3, <3>1, <3>2 DEF Passed, At
    <3>4. \A f \in Needed(Adapter(g)) : Has(Adapter(g), f)
      BY <2>1, <2>3, <3>3 DEF Settled
    <3> QED
      BY <1>2, <3>1, <3>4, HasComplete
  <2> QED
    BY <2>2, <2>3
<1> QED
  BY <1>1, <1>2 DEF InstalledIsComplete

-----------------------------------------------------------------------------
(* The theorems.                                                            *)

\* The invariant holds throughout, whatever the commands, the developer and the
\* file system do.
THEOREM GenerationInvariant ==
  Spec => []Inv
<1>1. Init => Inv
  BY InitInv
<1>2. Inv /\ [Next]_vars => Inv'
  BY NextInv
<1> QED
  BY <1>1, <1>2, PTL DEF Spec

\* At the target of a guide or a replay there is never half a project.
THEOREM TargetIsAlwaysWhole ==
  Spec => []TargetIsWhole
<1>1. Inv => TargetIsWhole
  BY DEF Inv, StagesOK
<1> QED
  BY <1>1, GenerationInvariant, PTL

\* The recipe never has a command twice, or one whose files are not written, and loses
\* none unless two commands were recorded at once.
THEOREM RecipeAlwaysTells ==
  Spec => []RecipeTellsWhatWasDone
<1>1. Inv => RecipeTellsWhatWasDone
  BY RecipeTells DEF Inv
<1> QED
  BY <1>1, GenerationInvariant, PTL

\* A blueprint that was refused leaves nothing behind, unless a compensation failed or
\* the developer deleted what it had published.
THEOREM FailureAlwaysLeavesNothing ==
  Spec => []FailureLeavesNothing
<1>1. Inv => FailureLeavesNothing
  BY NothingLeft DEF Inv
<1> QED
  BY <1>1, GenerationInvariant, PTL

\* What the developer wrote is never lost, unless a binding or an adapter had already
\* looked at the path.
THEOREM DeveloperWorkIsAlwaysKept ==
  Spec => []DeveloperWorkIsKept
<1>1. Inv => DeveloperWorkIsKept
  BY DEF Inv
<1> QED
  BY <1>1, GenerationInvariant, PTL

\* What says that it is installed is complete.
THEOREM InstalledIsAlwaysComplete ==
  Spec => []InstalledIsComplete
<1>1. Inv => InstalledIsComplete
  BY InstalledComplete DEF Inv
<1> QED
  BY <1>1, GenerationInvariant, PTL

-----------------------------------------------------------------------------
(* What bindings serve.  The manifest of a transport is written last, from   *)
(* a plan that found what is there now, or no index at all.                  *)

Exposers == {g \in Commands : Exposes(g)}

\* The files that each binding generates again.
Indexed ==
  {Composition} \union {Registry(v) : v \in Vias} \union {Bindings(v) : v \in Vias}

Contracted(v, u) == Contract(v, u) \in removed \/ Exists(Contract(v, u))

\* Two bindings at a time.  Of three, the first may have planned when the second
\* stops before its manifest and the third before its own.
AtMostTwo == \A g, h, k \in Exposers : g = h \/ h = k \/ g = k
TwoAsked ==
  \A s \in Scenarios : \A g, h, k \in Commands :
    {s[g].kind, s[h].kind, s[k].kind} = {"binding"} => g = h \/ h = k \/ g = k

Served ==
  \A v \in Vias : \A u \in Entries(Bindings(v)) :
    u \in Entries(Registry(v)) /\ u \in Entries(Composition) /\ Contracted(v, u)

\* The manifest is the last to be written; a contract that is not to be is there.
Ordered(g) ==
  LET todo == frame[g].todo IN
  /\ \A i \in 1..Len(todo) : todo[i] = Bindings(Via(g)) => i = Len(todo)
  /\ ContractOf(g) \in ToSet(todo) \/ Contracted(Via(g), UseCase(g))

\* A plan that found no index.
Fresh(g) ==
  /\ frame[g].entries = {UseCase(g)} /\ frame[g].composed = {UseCase(g)}
  /\ {Registry(Via(g)), Composition} \subseteq ToSet(frame[g].todo)
  /\ \A o \in frame[g].originals : o.path = Composition => o.text = Text(Absent)

\* A plan that found what is there now, or has begun to write it.
Agrees(g) ==
  LET f == frame[g]
      manifest == Entries(Bindings(Via(g)))
  IN /\ manifest \subseteq f.entries /\ f.entries \subseteq f.composed
     /\ f.entries \subseteq manifest \union {UseCase(g)}
     /\ \A v \in Vias : Entries(Bindings(v)) \subseteq f.composed
     /\ Registry(Via(g)) \in ToSet(f.todo) \/ f.entries \subseteq Entries(Registry(Via(g)))
     /\ Composition \in ToSet(f.todo) \/ f.entries \subseteq Entries(Composition)

\* A binding that has written nothing, and one that may still write.
Unwritten(g) == frame[g].pc \in {"plan", "check"}
Pending(g) == frame[g].pc \in {"plan", "check", "write"}
Alone(g) == \A h \in Exposers \ {g} : ~Pending(h)

Serving ==
  /\ Served
  /\ (\A g \in Exposers : Unwritten(g)) => \A p \in Indexed : tree[p] = Absent
  /\ \A g \in Exposers : At(g, "check") => Ordered(g) /\ (Fresh(g) \/ (Agrees(g) /\ Alone(g)))
  /\ \A g \in Exposers : At(g, "write") => Ordered(g) /\ Agrees(g)

ServedInv == AtMostTwo /\ (~torn /\ crossed = {} => Serving)

\* What a step leaves there.
IndexStays == \A p \in Indexed : tree'[p] = tree[p]
ContractsStay ==
  \A v \in Vias, u \in UseCases : Contracted(v, u) => Contracted(v, u)'

\* The files of a binding are apart from each other, and from the sources.
LEMMA IndexApart ==
  /\ Indexed \subseteq Paths \ Sources /\ Indexed \intersect Blueprinted = {}
  /\ Composition \in Indexed
  /\ \A v \in Vias : /\ {Registry(v), Bindings(v)} \subseteq Indexed
                     /\ Registry(v) # Composition /\ Bindings(v) # Composition
                     /\ \A w \in Vias : /\ Registry(v) # Bindings(w)
                                        /\ Registry(v) = Registry(w) => v = w
                                        /\ Bindings(v) = Bindings(w) => v = w
<1>1. /\ Indexed \subseteq Paths \ Sources /\ Indexed \intersect Blueprinted = {}
      /\ Composition \in Indexed
      /\ \A v \in Vias : {Registry(v), Bindings(v)} \subseteq Indexed
  BY PathsApart DEF Indexed
<1>2. \A v \in Vias : /\ Registry(v) # Composition /\ Bindings(v) # Composition
                      /\ \A w \in Vias : /\ Registry(v) # Bindings(w)
                                         /\ Registry(v) = Registry(w) => v = w
                                         /\ Bindings(v) = Bindings(w) => v = w
  BY DEF Registry, Bindings, Composition
<1> QED
  BY <1>1, <1>2

\* A command that has the same to write has it in the same order.
LEMMA SameOrder ==
  ASSUME RequestsOK, UNCHANGED request, ContractsStay,
         NEW h \in Commands, Exposes(h), frame'[h].todo = frame[h].todo
  PROVE  Ordered(h) => Ordered(h)'
<1>1. /\ Via(h)' = Via(h) /\ UseCase(h)' = UseCase(h) /\ ContractOf(h)' = ContractOf(h)
      /\ Via(h) \in Vias /\ UseCase(h) \in UseCases
  BY Kinds DEF Via, UseCase, ContractOf
<1>2. Contracted(Via(h), UseCase(h)) => Contracted(Via(h), UseCase(h))'
  <2>1. PICK v \in Vias, u \in UseCases : v = Via(h) /\ u = UseCase(h)
    BY <1>1
  <2>2. Contracted(v, u) => Contracted(v, u)'
    BY DEF ContractsStay
  <2>3. Contracted(Via(h), UseCase(h))' <=> Contracted(v, u)'
    BY <1>1, <2>1 DEF Contracted, Exists, Contract
  <2> QED
    BY <2>1, <2>2, <2>3
<1>3. Bindings(Via(h))' = Bindings(Via(h))
  BY <1>1 DEF Bindings
<1> QED
  BY <1>1, <1>2, <1>3 DEF Ordered

\* While the index and the contracts stay, a binding that has the same to write is as
\* well planned as it was.
LEMMA SamePlan ==
  ASSUME RequestsOK, UNCHANGED request, IndexStays, ContractsStay,
         NEW h \in Commands, Exposes(h),
         frame'[h].todo = frame[h].todo, frame'[h].originals = frame[h].originals,
         frame'[h].entries = frame[h].entries, frame'[h].composed = frame[h].composed
  PROVE  /\ Ordered(h) => Ordered(h)'
         /\ Fresh(h) => Fresh(h)'
         /\ Agrees(h) => Agrees(h)'
<1>1. /\ Via(h)' = Via(h) /\ UseCase(h)' = UseCase(h) /\ ContractOf(h)' = ContractOf(h)
      /\ Via(h) \in Vias /\ UseCase(h) \in UseCases
  BY Kinds DEF Via, UseCase, ContractOf
<1>2. Ordered(h) => Ordered(h)'
  BY SameOrder
<1>3. Fresh(h) => Fresh(h)'
  BY <1>1 DEF Fresh, Registry, Composition, Text, Absent
<1>4. Agrees(h) => Agrees(h)'
  <2>1. /\ Entries(Composition)' = Entries(Composition)
        /\ \A v \in Vias : /\ Entries(Registry(v))' = Entries(Registry(v))
                           /\ Entries(Bindings(v))' = Entries(Bindings(v))
    BY IndexApart DEF IndexStays, Entries, Registry, Bindings, Composition
  <2>2. PICK v \in Vias : v = Via(h) /\ v = Via(h)'
    BY <1>1
  <2>3. /\ Entries(Registry(Via(h)))' = Entries(Registry(Via(h)))
        /\ Entries(Bindings(Via(h)))' = Entries(Bindings(Via(h)))
        /\ Registry(Via(h))' = Registry(Via(h)) /\ Composition' = Composition
    BY <2>1, <2>2 DEF Entries, Registry, Bindings, Composition
  <2> QED
    BY <1>1, <2>1, <2>3 DEF Agrees
<1> QED
  BY <1>2, <1>3, <1>4

\* What is served stays served.
LEMMA SameServed ==
  ASSUME TreeOK, Served, IndexStays, ContractsStay
  PROVE  Served'
<1>1. /\ Entries(Composition)' = Entries(Composition)
      /\ \A v \in Vias : /\ Entries(Registry(v))' = Entries(Registry(v))
                         /\ Entries(Bindings(v))' = Entries(Bindings(v))
                         /\ Entries(Bindings(v)) \subseteq UseCases
  BY IndexApart DEF IndexStays, Entries, Registry, Bindings, Composition, TreeOK, Files
<1>2. \A v \in Vias : \A u \in Entries(Bindings(v)) : Contracted(v, u)'
  BY <1>1 DEF Served, ContractsStay
<1> QED
  BY <1>1, <1>2 DEF Served

\* A step that leaves the index and the contracts, and after which the command that
\* takes it, if it is a binding, writes no more.
LEMMA QuietServing ==
  ASSUME TreeOK, RequestsOK, Serving, UNCHANGED request, IndexStays, ContractsStay,
         NEW g, \A h \in Commands \ {g} : frame'[h] = frame[h],
         g \in Exposers => ~Pending(g)'
  PROVE  Serving'
<1>1. Exposers' = Exposers /\ Exposers \subseteq Commands /\ \A h \in Exposers : Exposes(h)
  BY DEF Exposers, Exposes
<1>2. Served'
  BY SameServed DEF Serving
<1>3. ASSUME NEW h \in Exposers \ {g}
      PROVE  /\ Ordered(h) => Ordered(h)'
             /\ Fresh(h) => Fresh(h)'
             /\ Agrees(h) => Agrees(h)'
             /\ frame'[h] = frame[h]
             /\ \A pc : At(h, pc)' <=> At(h, pc)
             /\ Pending(h)' <=> Pending(h)
             /\ Unwritten(h)' <=> Unwritten(h)
  BY <1>1, SamePlan DEF At, Pending, Unwritten
<1>4. g \in Exposers => ~At(g, "check")' /\ ~At(g, "write")' /\ ~Unwritten(g)'
  BY DEF Pending, At, Unwritten
<1>5. \A h \in Exposers \ {g} : Alone(h) => Alone(h)'
  BY <1>1, <1>3 DEF Alone
<1>6. (\A h \in Exposers : Unwritten(h)') => \A p \in Indexed : tree'[p] = Absent
  BY <1>3, <1>4 DEF Serving, IndexStays
<1>7. Indexed' = Indexed /\ Absent' = Absent
  BY DEF Indexed, Composition, Registry, Bindings, Absent
<1>8. \A h \in Exposers : At(h, "check")' =>
        Ordered(h)' /\ (Fresh(h)' \/ (Agrees(h)' /\ Alone(h)'))
  BY <1>3, <1>4, <1>5 DEF Serving
<1>9. \A h \in Exposers : At(h, "write")' => Ordered(h)' /\ Agrees(h)'
  BY <1>3, <1>4 DEF Serving
<1> QED
  BY <1>1, <1>2, <1>6, <1>7, <1>8, <1>9 DEF Serving

\* What is planned is what has to change, the manifest last.
LEMMA ToWriteOrder ==
  ASSUME NEW g, Via(g) \in Vias, UseCase(g) \in UseCases, NEW todo, todo = ToWrite(g)
  PROVE  /\ \A p \in {ContractOf(g), Registry(Via(g)), Composition, Bindings(Via(g))} :
              p \in ToSet(todo) <=> Changes(g, p)
         /\ \A i \in 1..Len(todo) : todo[i] = Bindings(Via(g)) => i = Len(todo)
<1>1. PICK last : last = Bindings(Via(g))
  OBVIOUS
<1>2. PICK S : S = {ContractOf(g), Registry(Via(g)), Composition, last}
  OBVIOUS
<1>3. ASSUME NEW p \in S
      PROVE  /\ IfChanged(g, p) \in Seq(S)
             /\ ToSet(IfChanged(g, p)) = IF Changes(g, p) THEN {p} ELSE {}
             /\ Len(IfChanged(g, p)) \in {0, 1}
  BY DEF IfChanged, ToSet
<1>4. PICK a, b, c, d : /\ a = IfChanged(g, ContractOf(g)) /\ b = IfChanged(g, Registry(Via(g)))
                        /\ c = IfChanged(g, Composition) /\ d = IfChanged(g, last)
  OBVIOUS
<1>5. /\ a \in Seq(S) /\ b \in Seq(S) /\ c \in Seq(S) /\ d \in Seq(S) /\ Len(d) \in {0, 1}
      /\ ToSet(a) = IF Changes(g, ContractOf(g)) THEN {ContractOf(g)} ELSE {}
      /\ ToSet(b) = IF Changes(g, Registry(Via(g))) THEN {Registry(Via(g))} ELSE {}
      /\ ToSet(c) = IF Changes(g, Composition) THEN {Composition} ELSE {}
      /\ ToSet(d) = IF Changes(g, last) THEN {last} ELSE {}
  BY <1>2, <1>3, <1>4
<1>6. /\ ContractOf(g) # Registry(Via(g)) /\ ContractOf(g) # Composition
      /\ Registry(Via(g)) # Composition
      /\ ContractOf(g) # last /\ Registry(Via(g)) # last /\ Composition # last
  BY <1>1, PathsApart, IndexApart DEF ContractOf
<1>7. PICK ab, abc, all : ab = a \o b /\ abc = ab \o c /\ all = abc \o d
  OBVIOUS
<1>8. ASSUME NEW s \in Seq(S), NEW t \in Seq(S), NEW u, u = s \o t
      PROVE  u \in Seq(S) /\ ToSet(u) = ToSet(s) \union ToSet(t)
  <2>1. s \o t \in Seq(S) /\ ToSet(s \o t) = ToSet(s) \union ToSet(t)
    BY ConcatSet
  <2> QED
    BY <1>8, <2>1
<1>9. ab \in Seq(S) /\ ToSet(ab) = ToSet(a) \union ToSet(b)
  BY <1>5, <1>7, <1>8, Zenon
<1>10. abc \in Seq(S) /\ ToSet(abc) = ToSet(ab) \union ToSet(c)
  BY <1>5, <1>7, <1>8, <1>9, Zenon
<1>11. all \in Seq(S) /\ ToSet(all) = ToSet(abc) \union ToSet(d)
  BY <1>5, <1>7, <1>8, <1>10, Zenon
<1>12. todo = all
  BY <1>1, <1>4, <1>7 DEF ToWrite
<1>13. \A p \in {ContractOf(g), Registry(Via(g)), Composition, last} :
         p \in ToSet(todo) <=> Changes(g, p)
  BY <1>5, <1>6, <1>9, <1>10, <1>11, <1>12
<1>14. last \notin ToSet(abc)
  BY <1>5, <1>6, <1>9, <1>10
<1>15. PICK m \in Nat, n \in {0, 1} : m = Len(abc) /\ n = Len(d)
  BY <1>5, <1>10
<1>16. /\ Len(all) = m + n /\ DOMAIN abc = 1..m
       /\ \A i \in 1..m : all[i] = abc[i]
  BY <1>5, <1>7, <1>10, <1>15
<1>17. \A i \in 1..m : all[i] # last
  BY <1>14, <1>16 DEF ToSet
<1>18. ASSUME NEW i \in 1..(m + n), all[i] = last
       PROVE  i = m + n
  <2>1. i \notin 1..m
    BY <1>17, <1>18
  <2> QED
    BY <2>1
<1>19. \A i \in 1..Len(all) : all[i] = last => i = Len(all)
  BY <1>16, <1>18
<1> QED
  BY <1>1, <1>12, <1>13, <1>19

\* The frame of a binding that has planned.
LEMMA PlanFrame ==
  ASSUME Types, NEW g \in Commands, Exposes(g), PlanBinding(g), ~Goto(g, "refused")
  PROVE  /\ frame'[g].pc = "check" /\ frame'[g].todo = ToWrite(g)
         /\ frame'[g].entries = Merged(g) /\ frame'[g].composed = Composed(g)
         /\ frame'[g].originals =
              {[path |-> p, text |-> Text(tree[p])] : p \in ToSet(ToWrite(g))}
         /\ \A h \in Commands \ {g} : frame'[h] = frame[h]
<1>1. PICK todo, entries, composed, originals :
        /\ todo = ToWrite(g) /\ entries = Merged(g) /\ composed = Composed(g)
        /\ originals = {[path |-> p, text |-> Text(tree[p])] : p \in ToSet(ToWrite(g))}
  OBVIOUS
<1>2. frame[g] \in Frames /\ FramesOK
  BY DEF Types, FramesOK
<1>3. PICK f : f = [frame[g] EXCEPT !.pc = "check", !.todo = todo, !.entries = entries,
                                    !.composed = composed, !.originals = originals]
  OBVIOUS
<1>4. /\ f.pc = "check" /\ f.todo = todo /\ f.entries = entries /\ f.composed = composed
      /\ f.originals = originals
  BY <1>2, <1>3 DEF Frames
<1>5. frame' = [frame EXCEPT ![g] = f]
  BY <1>1, <1>3 DEF PlanBinding
<1>6. frame'[g] = f /\ \A h \in Commands \ {g} : frame'[h] = frame[h]
  BY <1>2, <1>5 DEF FramesOK
<1> QED
  BY <1>1, <1>4, <1>6

\* A binding that plans while no other writes finds no index, or one that serves; then no
\* other can change it.
LEMMA PlanServes ==
  ASSUME Types, AtMostTwo, Serving, NEW g \in Commands, Exposes(g), PlanBinding(g),
         \A h \in Exposers \ {g} : ~At(h, "write")
  PROVE  Serving'
<1>1. /\ TreeOK /\ RequestsOK /\ UNCHANGED <<tree, request, removed>> /\ At(g, "plan")
      /\ Via(g) \in Vias /\ UseCase(g) \in UseCases
  BY Kinds DEF Types, PlanBinding, files
<1>2. IndexStays
  BY <1>1 DEF IndexStays
<1>3. ContractsStay
  BY <1>1 DEF ContractsStay, Contracted, Exists, Contract, Absent
<1>4. CASE Goto(g, "refused")
  <2>1. frame'[g].pc = "refused" /\ \A h \in Commands \ {g} : frame'[h] = frame[h]
    BY <1>4, Goes DEF Types, Becomes, Points
  <2> QED
    BY <1>1, <1>2, <1>3, <2>1, QuietServing DEF Pending
<1>5. CASE ~Goto(g, "refused")
  <2>1. PICK todo, entries, composed, originals :
          /\ todo = ToWrite(g) /\ entries = Merged(g) /\ composed = Composed(g)
          /\ originals = {[path |-> p, text |-> Text(tree[p])] : p \in ToSet(todo)}
    OBVIOUS
  <2>2. /\ frame'[g].pc = "check" /\ frame'[g].todo = todo
        /\ frame'[g].entries = entries /\ frame'[g].composed = composed
        /\ frame'[g].originals = originals
        /\ \A h \in Commands \ {g} : frame'[h] = frame[h]
    BY <1>5, <2>1, PlanFrame
  <2>3. Exposers' = Exposers /\ Exposers \subseteq Commands /\ g \in Exposers
        /\ \A h \in Exposers : Exposes(h)
    BY <1>1 DEF Exposers, Exposes
  <2>4. Served'
    BY <1>1, <1>2, <1>3, SameServed DEF Serving
  <2>5. /\ Via(g)' = Via(g) /\ UseCase(g)' = UseCase(g) /\ ContractOf(g)' = ContractOf(g)
        /\ Bindings(Via(g))' = Bindings(Via(g)) /\ Registry(Via(g))' = Registry(Via(g))
        /\ Composition' = Composition
    BY <1>1 DEF Via, UseCase, ContractOf, Bindings, Registry, Composition
  <2>6. /\ \A p \in {ContractOf(g), Registry(Via(g)), Composition} :
             p \in ToSet(todo) <=> Changes(g, p)
        /\ \A i \in 1..Len(todo) : todo[i] = Bindings(Via(g)) => i = Len(todo)
    BY <1>1, <2>1, ToWriteOrder
  <2>7. Ordered(g)'
    <3>1. ContractOf(g) \notin ToSet(todo) => Exists(ContractOf(g))
      BY <2>6 DEF Changes
    <3>2. ContractOf(g) \notin ToSet(todo) => Contracted(Via(g), UseCase(g))'
      BY <1>1, <3>1 DEF Contracted, ContractOf, Exists, Absent, Contract, Via, UseCase
    <3> QED
      BY <2>2, <2>5, <2>6, <3>2 DEF Ordered
  <2>8. /\ Registry(Via(g)) # ContractOf(g) /\ Composition # ContractOf(g)
        /\ Registry(Via(g)) # Composition
    BY <1>1, PathsApart, IndexApart DEF ContractOf
  <2>9. ASSUME \A h \in Exposers : Unwritten(h)
        PROVE  Fresh(g)'
    <3>1. \A p \in Indexed : tree[p] = Absent
      BY <2>9 DEF Serving
    <3>2. /\ tree[Registry(Via(g))] = Absent /\ tree[Composition] = Absent
          /\ \A v \in Vias : Entries(Bindings(v)) = {}
      BY <1>1, <3>1, IndexApart DEF Entries, Absent
    <3>3. entries = {UseCase(g)} /\ composed = {UseCase(g)}
      BY <1>1, <2>1, <3>2 DEF Merged, Composed
    <3>4. \A some : Text(Absent) # Text(Index(g, some))
      BY DEF Text, Absent, Index
    <3>5. Registry(Via(g)) \in ToSet(todo) /\ Composition \in ToSet(todo)
      BY <2>6, <2>8, <3>2, <3>4 DEF Changes
    <3>6. \A o \in originals : o.path = Composition => o.text = Text(Absent)
      BY <2>1, <3>2
    <3>7. Text(Absent)' = Text(Absent)
      BY DEF Text, Absent
    <3> QED
      BY <2>2, <2>5, <3>3, <3>5, <3>6, <3>7 DEF Fresh
  <2>10. Agrees(g)'
    <3>1. /\ Entries(Bindings(Via(g))) \subseteq entries /\ entries \subseteq composed
          /\ entries \subseteq Entries(Bindings(Via(g))) \union {UseCase(g)}
          /\ \A v \in Vias : Entries(Bindings(v)) \subseteq composed
      BY <1>1, <2>1 DEF Merged, Composed
    <3>2. \A p, some : Text(tree[p]) = Text(Index(g, some)) => Entries(p) = some
      BY DEF Text, Index, Entries
    <3>3. Registry(Via(g)) \notin ToSet(todo) => Entries(Registry(Via(g))) = entries
      BY <2>1, <2>6, <2>8, <3>2 DEF Changes
    <3>4. Composition \notin ToSet(todo) => Entries(Composition) = composed
      BY <2>1, <2>6, <2>8, <3>2 DEF Changes
    <3>5. /\ Entries(Bindings(Via(g)))' = Entries(Bindings(Via(g)))
          /\ Entries(Registry(Via(g)))' = Entries(Registry(Via(g)))
          /\ Entries(Composition)' = Entries(Composition)
          /\ \A v \in Vias : Entries(Bindings(v))' = Entries(Bindings(v))
      BY <1>1, <2>5 DEF Entries, Bindings
    <3> QED
      BY <2>2, <2>5, <3>1, <3>3, <3>4, <3>5 DEF Agrees
  <2>11. (\E h \in Exposers : ~Unwritten(h)) => Alone(g)'
    <3>1. ASSUME NEW h \in Exposers, ~Unwritten(h), NEW k \in Exposers \ {g}
          PROVE  ~Pending(k)'
      <4>1. Unwritten(g)
        BY <1>1 DEF Unwritten, At
      <4>2. h # g /\ k = h
        BY <2>3, <3>1, <4>1 DEF AtMostTwo
      <4>3. ~Pending(h)
        BY <3>1, <4>2 DEF Pending, Unwritten, At
      <4> QED
        BY <2>2, <2>3, <4>2, <4>3 DEF Pending
    <3> QED
      BY <2>3, <3>1 DEF Alone
  <2>12. ASSUME NEW h \in Exposers \ {g}
         PROVE  /\ Ordered(h) => Ordered(h)'
                /\ Fresh(h) => Fresh(h)'
                /\ Agrees(h) => Agrees(h)'
                /\ \A pc : At(h, pc)' <=> At(h, pc)
                /\ Unwritten(h)' <=> Unwritten(h)
                /\ ~Alone(h)
    <3>1. h \in Commands /\ frame'[h] = frame[h] /\ Exposes(h)
      BY <2>2, <2>3
    <3>2. Pending(g)
      BY <1>1 DEF Pending, At
    <3> QED
      BY <1>1, <1>2, <1>3, <2>3, <3>1, <3>2, SamePlan DEF At, Unwritten, Alone
  <2>13. \A h \in Exposers : At(h, "check")' =>
           Ordered(h)' /\ (Fresh(h)' \/ (Agrees(h)' /\ Alone(h)'))
    BY <2>7, <2>9, <2>10, <2>11, <2>12 DEF Serving
  <2>14. \A h \in Exposers : At(h, "write")' => Ordered(h)' /\ Agrees(h)'
    BY <2>2, <2>12 DEF Serving, At
  <2>15. (\A h \in Exposers : Unwritten(h)') => \A p \in Indexed : tree'[p] = Absent
    <3>1. Unwritten(g)
      BY <1>1 DEF Unwritten, At
    <3> QED
      BY <1>2, <2>12, <3>1 DEF Serving, IndexStays
  <2>16. Indexed' = Indexed /\ Absent' = Absent
    BY DEF Indexed, Composition, Registry, Bindings, Absent
  <2> QED
    BY <2>3, <2>4, <2>13, <2>14, <2>15, <2>16 DEF Serving
<1> QED
  BY <1>4, <1>5

\* A plan that is still true agrees with what is there.
LEMMA CheckServes ==
  ASSUME Types, Serving, NEW g \in Commands, Exposes(g), BindingShape(g), CheckBinding(g)
  PROVE  Serving'
<1>1. /\ TreeOK /\ RequestsOK /\ UNCHANGED <<tree, request, removed>> /\ At(g, "check")
      /\ Via(g) \in Vias /\ UseCase(g) \in UseCases
  BY Kinds DEF Types, CheckBinding, files
<1>2. IndexStays
  BY <1>1 DEF IndexStays
<1>3. ContractsStay
  BY <1>1 DEF ContractsStay, Contracted, Exists, Contract, Absent
<1>4. PICK pc \in {"write", "refused"} : Goto(g, pc) /\ (pc = "write" => Unchanged(g))
  BY DEF CheckBinding
<1>5. /\ frame'[g].pc = pc /\ \A h \in Commands \ {g} : frame'[h] = frame[h]
      /\ frame'[g].todo = frame[g].todo /\ frame'[g].originals = frame[g].originals
      /\ frame'[g].entries = frame[g].entries /\ frame'[g].composed = frame[g].composed
  BY <1>4, Goes DEF Types, Becomes, Carries, Points
<1>6. CASE pc = "refused"
  BY <1>1, <1>2, <1>3, <1>5, <1>6, QuietServing DEF Pending
<1>7. CASE pc = "write"
  <2>1. Exposers' = Exposers /\ Exposers \subseteq Commands /\ g \in Exposers
        /\ \A h \in Exposers : Exposes(h)
    BY <1>1 DEF Exposers, Exposes
  <2>2. Served /\ Served'
    BY <1>1, <1>2, <1>3, SameServed DEF Serving
  <2>3. Ordered(g) /\ (Fresh(g) \/ Agrees(g))
    BY <1>1, <2>1 DEF Serving
  <2>4. Agrees(g)
    <3>1. ASSUME Fresh(g)
          PROVE  Agrees(g)
      <4>1. PICK o \in frame[g].originals : o.path = Composition
        BY <1>1, <3>1 DEF BindingShape, Fresh, At
      <4>2. Text(tree[Composition]) = Text(Absent)
        BY <1>4, <1>7, <3>1, <4>1 DEF Fresh, Unchanged
      <4>3. Entries(Composition) = {}
        BY <4>2 DEF Text, Absent, Entries
      <4>4. \A v \in Vias : Entries(Bindings(v)) = {}
        BY <2>2, <4>3 DEF Served
      <4> QED
        BY <1>1, <3>1, <4>4 DEF Agrees, Fresh
    <3> QED
      BY <2>3, <3>1
  <2>5. Ordered(g)' /\ Agrees(g)'
    BY <1>1, <1>2, <1>3, <1>5, <2>3, <2>4, SamePlan
  <2>6. ASSUME NEW h \in Exposers \ {g}
        PROVE  /\ Ordered(h) => Ordered(h)'
               /\ Fresh(h) => Fresh(h)'
               /\ Agrees(h) => Agrees(h)'
               /\ \A to : At(h, to)' <=> At(h, to)
               /\ ~Alone(h)
    <3>1. h \in Commands /\ frame'[h] = frame[h] /\ Exposes(h)
      BY <1>5, <2>1
    <3>2. Pending(g)
      BY <1>1 DEF Pending, At
    <3> QED
      BY <1>1, <1>2, <1>3, <2>1, <3>1, <3>2, SamePlan DEF At, Alone
  <2>7. ~At(g, "check")' /\ ~Unwritten(g)'
    BY <1>5, <1>7 DEF At, Unwritten
  <2>8. \A h \in Exposers : At(h, "check")' =>
          Ordered(h)' /\ (Fresh(h)' \/ (Agrees(h)' /\ Alone(h)'))
    BY <2>6, <2>7 DEF Serving
  <2>9. \A h \in Exposers : At(h, "write")' => Ordered(h)' /\ Agrees(h)'
    BY <2>5, <2>6 DEF Serving
  <2> QED
    BY <2>1, <2>2, <2>7, <2>8, <2>9 DEF Serving
<1> QED
  BY <1>6, <1>7

\* A binding writes a file: what its frame then is, and the index.
Writes(g, v, u, p, rest, e, c) ==
  /\ v = Via(g) /\ u = UseCase(g) /\ e = frame[g].entries /\ c = frame[g].composed
  /\ ToSet(frame[g].todo) = ToSet(rest) \union {p}
  /\ frame'[g].pc = "write" /\ frame'[g].todo = rest
  /\ frame'[g].entries = e /\ frame'[g].composed = c
  /\ \A h \in Commands \ {g} : frame'[h] = frame[h]
  /\ Entries(Registry(v))' = IF p = Registry(v) THEN e ELSE Entries(Registry(v))
  /\ Entries(Bindings(v))' = IF p = Bindings(v) THEN e ELSE Entries(Bindings(v))
  /\ Entries(Composition)' = IF p = Composition THEN c ELSE Entries(Composition)
  /\ \A w \in Vias \ {v} : /\ Entries(Bindings(w))' = Entries(Bindings(w))
                           /\ Entries(Registry(w))' = Entries(Registry(w))
  \* The manifest is the last file.
  /\ p = Bindings(v) => ToSet(frame[g].todo) = {p} /\ Contracted(v, u)

\* What a binding that writes has planned is what then is there.
LEMMA WriteFacts ==
  ASSUME Types, NEW g \in Commands, Exposes(g), BindingShape(g), WriteBinding(g), Ordered(g)
  PROVE  /\ ContractsStay /\ Ordered(g)'
         /\ \E v \in Vias, u \in UseCases : \E p, rest, e, c : Writes(g, v, u, p, rest, e, c)
<1>1. /\ TreeOK /\ RequestsOK /\ FramesOK /\ UNCHANGED <<request, removed>> /\ At(g, "write")
      /\ frame[g].todo # << >>
  BY DEF Types, WriteBinding, developer
<1>2. PICK v \in Vias, u \in UseCases : v = Via(g) /\ u = UseCase(g) /\ Contract(v, u) = ContractOf(g)
  BY <1>1, Kinds DEF ContractOf
<1>3. PICK p : p = Head(frame[g].todo)
  OBVIOUS
<1>4. PICK S : S = {Contract(v, u), Registry(v), Composition, Bindings(v)}
  OBVIOUS
<1>5. PICK todo, rest : todo \in Seq(S) /\ todo = frame[g].todo /\ rest = Tail(todo)
  BY <1>2, <1>4 DEF BindingShape
<1>6. /\ rest \in Seq(S) /\ p \in S /\ Len(rest) = Len(todo) - 1 /\ Len(todo) \in Nat \ {0}
      /\ \A i \in 1..(Len(todo) - 1) : rest[i] = todo[i + 1]
      /\ ToSet(todo) = ToSet(rest) \union {p} /\ p = todo[1]
  BY <1>1, <1>3, <1>5, TailSet
<1>7. /\ S \subseteq Paths
      /\ Registry(v) # Composition /\ Bindings(v) # Composition /\ Registry(v) # Bindings(v)
      /\ \A q \in Indexed : q # Contract(v, u)
      /\ {Registry(v), Bindings(v), Composition} \subseteq Indexed
  BY <1>4, PathsApart, IndexApart
<1>8. PICK e, c : e = frame[g].entries /\ c = frame[g].composed
  OBVIOUS
<1>9. /\ frame'[g].pc = "write" /\ frame'[g].todo = rest
      /\ frame'[g].entries = e /\ frame'[g].composed = c
      /\ \A h \in Commands \ {g} : frame'[h] = frame[h]
  <2>1. PICK f : f = [frame[g] EXCEPT !.todo = Tail(@)]
    OBVIOUS
  <2>2. frame' = [frame EXCEPT ![g] = f]
    BY <2>1 DEF WriteBinding
  <2>3. /\ Becomes(g, frame[g].pc, Tail(frame[g].todo), frame[g].originals,
                   frame[g].undo, frame[g].held, frame[g].spoiled)
        /\ Carries(g)
    BY <1>1, <2>1, <2>2, TodoSet
  <2> QED
    BY <1>1, <1>5, <1>8, <2>3 DEF Becomes, Carries, At
<1>10. PICK inode : tree' = [tree EXCEPT ![p] = [Content(g, p) EXCEPT !.by = inode]]
  BY <1>3 DEF WriteBinding
<1>11. \A q \in Paths \ {p} : tree'[q] = tree[q]
  BY <1>1, <1>10 DEF TreeOK
<1>12. PICK file : file = [Content(g, p) EXCEPT !.by = inode]
  OBVIOUS
<1>13. tree'[p] = file
  BY <1>1, <1>6, <1>7, <1>10, <1>12 DEF TreeOK
<1>14. /\ file # Absent
       /\ p = Registry(v) => file.entries = e
       /\ p = Composition => file.entries = c
       /\ p = Bindings(v) => file.entries = e
  <2>1. CASE p = Contract(v, u)
    BY <1>2, <1>7, <1>12, <2>1 DEF Content, Rendered, Absent
  <2>2. CASE p = Composition
    <3>1. file = [by |-> inode, kind |-> "index", entries |-> c]
      BY <1>2, <1>7, <1>8, <1>12, <2>2 DEF Content, Index
    <3> QED
      BY <1>7, <2>2, <3>1 DEF Absent
  <2>3. CASE p \in {Registry(v), Bindings(v)}
    <3>1. file = [by |-> inode, kind |-> "index", entries |-> e]
      BY <1>2, <1>7, <1>8, <1>12, <2>3 DEF Content, Index
    <3> QED
      BY <1>7, <2>3, <3>1 DEF Absent
  <2> QED
    BY <1>4, <1>6, <2>1, <2>2, <2>3
<1>15. ContractsStay
  <2>1. ASSUME NEW w \in Vias, NEW x \in UseCases, Contracted(w, x)
        PROVE  Contracted(w, x)'
    <3>1. PICK q \in Paths : q = Contract(w, x)
      BY PathsApart
    <3>2. q \in removed \/ tree[q] # Absent
      BY <2>1, <3>1 DEF Contracted, Exists
    <3>3. q \in removed' \/ tree'[q] # Absent
      BY <1>1, <1>11, <1>13, <1>14, <3>2
    <3> QED
      BY <3>1, <3>3 DEF Contracted, Exists, Contract, Absent
  <2> QED
    BY <2>1 DEF ContractsStay
<1>16. /\ Via(g)' = v /\ UseCase(g)' = u /\ ContractOf(g)' = Contract(v, u)
       /\ Exposers' = Exposers /\ Exposers \subseteq Commands /\ g \in Exposers
       /\ \A h \in Exposers : Exposes(h)
  BY <1>1, <1>2 DEF Exposers, Exposes, Via, UseCase, ContractOf, Contract
<1>18. /\ \A i \in 1..Len(todo) : todo[i] = Bindings(v) => i = Len(todo)
       /\ Contract(v, u) \in ToSet(todo) \/ Contracted(v, u)
  BY <1>2, <1>5 DEF Ordered
<1>20. /\ Contracted(v, u)' <=> Contract(v, u) \in removed \/ tree'[Contract(v, u)] # Absent
       /\ Bindings(v)' = Bindings(v) /\ Registry(v)' = Registry(v) /\ Composition' = Composition
       /\ Contract(v, u)' = Contract(v, u)
  BY <1>1 DEF Contracted, Exists, Contract, Absent, Bindings, Registry, Composition
<1>21. Ordered(g)'
  <2>1. ASSUME NEW i \in 1..Len(rest), rest[i] = Bindings(v)
        PROVE  i = Len(rest)
    <3>1. PICK n \in Nat \ {0} : n = Len(todo)
      BY <1>6
    <3>2. Len(rest) = n - 1 /\ i \in 1..(n - 1) /\ i + 1 \in 1..n
      BY <1>6, <2>1, <3>1
    <3>3. todo[i + 1] = Bindings(v)
      BY <1>6, <2>1, <3>1, <3>2
    <3>4. i + 1 = n
      BY <1>18, <3>1, <3>2, <3>3
    <3> QED
      BY <3>2, <3>4
  <2>2. Contract(v, u) \in ToSet(rest) \/ Contracted(v, u)'
    <3>1. CASE p = Contract(v, u)
      BY <1>13, <1>14, <1>20, <3>1
    <3>2. CASE p # Contract(v, u) /\ Contract(v, u) \in ToSet(todo)
      BY <1>6, <3>2
    <3>3. CASE Contracted(v, u)
      BY <1>15, <3>3 DEF ContractsStay
    <3> QED
      BY <1>18, <3>1, <3>2, <3>3
  <2>3. /\ frame'[g].todo = rest /\ Bindings(Via(g))' = Bindings(v)
        /\ Contracted(Via(g), UseCase(g))' <=> Contracted(v, u)'
    BY <1>9, <1>16, <1>20 DEF Bindings, Contracted, Contract, Exists
  <2> QED
    BY <1>16, <2>1, <2>2, <2>3 DEF Ordered
\* The files that it does not write are as they were.
<1>22. /\ \A q \in Indexed \ {p} : Entries(q)' = Entries(q)
       /\ Entries(Registry(v))' = IF p = Registry(v) THEN e ELSE Entries(Registry(v))
       /\ Entries(Bindings(v))' = IF p = Bindings(v) THEN e ELSE Entries(Bindings(v))
       /\ Entries(Composition)' = IF p = Composition THEN c ELSE Entries(Composition)
       /\ \A w \in Vias \ {v} : /\ Entries(Bindings(w))' = Entries(Bindings(w))
                                /\ Entries(Registry(w))' = Entries(Registry(w))
  <2>1. \A q \in Indexed \ {p} : tree'[q] = tree[q]
    BY <1>11, IndexApart
  <2>2. \A q \in Paths : Entries(q)' = tree'[q].entries /\ Entries(q) = tree[q].entries
    BY DEF Entries
  <2>3. \A w \in Vias : /\ Entries(Bindings(w))' = tree'[Bindings(w)].entries
                        /\ Entries(Registry(w))' = tree'[Registry(w)].entries
    BY DEF Entries, Bindings, Registry
  <2>4. Entries(Composition)' = tree'[Composition].entries
    BY DEF Entries, Composition
  <2>5. \A w \in Vias \ {v} : /\ Bindings(w) \in Indexed \ S /\ Registry(w) \in Indexed \ S
    BY <1>4, <1>7, IndexApart
  <2>6. \A q \in Indexed \ {p} : Entries(q)' = Entries(q)
    BY <2>1, <2>2, IndexApart
  <2>7. \A w \in Vias \ {v} : /\ Entries(Bindings(w))' = Entries(Bindings(w))
                              /\ Entries(Registry(w))' = Entries(Registry(w))
    BY <1>6, <2>1, <2>3, <2>5 DEF Entries
  <2>8. /\ Entries(Registry(v))' = IF p = Registry(v) THEN e ELSE Entries(Registry(v))
        /\ Entries(Bindings(v))' = IF p = Bindings(v) THEN e ELSE Entries(Bindings(v))
        /\ Entries(Composition)' = IF p = Composition THEN c ELSE Entries(Composition)
    BY <1>7, <1>13, <1>14, <2>1, <2>3, <2>4 DEF Entries
  <2> QED
    BY <2>6, <2>7, <2>8
\* The last file is the manifest: the others say what it will say.
<1>23. p = Bindings(v) => ToSet(todo) = {p} /\ Contracted(v, u)
  <2>1. ASSUME p = Bindings(v)
        PROVE  ToSet(todo) = {p}
    <3>1. PICK n \in Nat \ {0} : n = Len(todo)
      BY <1>6
    <3>2. 1 \in 1..Len(todo) /\ todo[1] = Bindings(v)
      BY <1>6, <2>1, <3>1
    <3>3. Len(todo) = 1
      BY <1>18, <3>2
    <3>4. DOMAIN todo = 1..1
      BY <1>5, <3>3
    <3> QED
      BY <1>6, <3>4 DEF ToSet
  <2> QED
    BY <1>7, <1>18, <2>1
<1>24. Writes(g, v, u, p, rest, e, c)
  BY <1>2, <1>5, <1>6, <1>8, <1>9, <1>22, <1>23 DEF Writes
<1> QED
  BY <1>15, <1>21, <1>24

\* A binding writes its next file: what it says is served, and the manifest says no more.
LEMMA WriteServes ==
  ASSUME Types, Serving, NEW g \in Commands, Exposes(g), BindingShape(g), WriteBinding(g),
         \A h \in Exposers \ {g} : ~At(h, "write")
  PROVE  Serving'
<1>1. /\ TreeOK /\ RequestsOK /\ UNCHANGED request /\ At(g, "write")
      /\ Exposers' = Exposers /\ Exposers \subseteq Commands /\ g \in Exposers
      /\ \A h \in Exposers : Exposes(h)
  BY DEF Types, WriteBinding, Exposers, Exposes
<1>2. Served /\ Ordered(g) /\ Agrees(g)
  BY <1>1 DEF Serving
<1>3. /\ ContractsStay /\ Ordered(g)'
      /\ \E v \in Vias, u \in UseCases : \E p, rest, e, c : Writes(g, v, u, p, rest, e, c)
  BY <1>2, WriteFacts
<1>4. PICK v \in Vias, u \in UseCases : \E p, rest, e, c : Writes(g, v, u, p, rest, e, c)
  BY <1>3
<1>5. PICK p, rest, e, c : Writes(g, v, u, p, rest, e, c)
  BY <1>4
<1>6. PICK todo : todo = ToSet(frame[g].todo)
  OBVIOUS
<1>7. /\ Registry(v) # Composition /\ Bindings(v) # Composition /\ Registry(v) # Bindings(v)
  BY IndexApart
<1>8. /\ Entries(Bindings(v)) \subseteq e /\ e \subseteq c
      /\ e \subseteq Entries(Bindings(v)) \union {u}
      /\ \A w \in Vias : Entries(Bindings(w)) \subseteq c
      /\ Registry(v) \in todo \/ e \subseteq Entries(Registry(v))
      /\ Composition \in todo \/ e \subseteq Entries(Composition)
  BY <1>2, <1>5, <1>6 DEF Writes, Agrees
<1>9. /\ todo = ToSet(rest) \union {p}
      /\ Entries(Registry(v))' = IF p = Registry(v) THEN e ELSE Entries(Registry(v))
      /\ Entries(Bindings(v))' = IF p = Bindings(v) THEN e ELSE Entries(Bindings(v))
      /\ Entries(Composition)' = IF p = Composition THEN c ELSE Entries(Composition)
      /\ \A w \in Vias \ {v} : /\ Entries(Bindings(w))' = Entries(Bindings(w))
                               /\ Entries(Registry(w))' = Entries(Registry(w))
      /\ p = Bindings(v) => todo = {p} /\ Contracted(v, u)
  BY <1>5, <1>6 DEF Writes
<1>10. /\ frame'[g].pc = "write" /\ frame'[g].todo = rest
       /\ frame'[g].entries = e /\ frame'[g].composed = c
       /\ \A h \in Commands \ {g} : frame'[h] = frame[h]
  BY <1>5 DEF Writes
<1>11. /\ Via(g)' = v /\ UseCase(g)' = u /\ Via(g) = v /\ UseCase(g) = u
       /\ Registry(v)' = Registry(v) /\ Composition' = Composition
       /\ Entries(Registry(Via(g)))' = Entries(Registry(v))'
       /\ Entries(Bindings(Via(g)))' = Entries(Bindings(v))'
  BY <1>1, <1>5 DEF Writes, Via, UseCase, Registry, Bindings, Composition, Entries
\* The last file is the manifest: the others say what it will say.
<1>12. p = Bindings(v) => e \subseteq Entries(Registry(v)) /\ e \subseteq Entries(Composition)
  BY <1>7, <1>8, <1>9
<1>13. Served'
  <2>0. \A w \in Vias : Entries(Bindings(w)) \subseteq UseCases
    BY <1>1, IndexApart DEF Entries, TreeOK, Files
  <2>1. ASSUME NEW w \in Vias, NEW x \in Entries(Bindings(w))
        PROVE  x \in Entries(Registry(w))' /\ x \in Entries(Composition)' /\ Contracted(w, x)'
    <3>1. /\ x \in Entries(Registry(w)) /\ x \in Entries(Composition) /\ Contracted(w, x)
          /\ x \in UseCases
      BY <1>2, <2>0, <2>1 DEF Served
    <3>2. x \in c /\ (w = v => x \in e)
      BY <1>8, <2>1
    <3> QED
      BY <1>3, <1>9, <3>1, <3>2 DEF ContractsStay
  <2>2. ASSUME p = Bindings(v), NEW x \in e
        PROVE  x \in Entries(Registry(v))' /\ x \in Entries(Composition)' /\ Contracted(v, x)'
    <3>1. x \in Entries(Registry(v)) /\ x \in Entries(Composition)
      BY <1>12, <2>2
    <3>2. Contracted(v, x) /\ x \in UseCases
      BY <1>2, <1>8, <1>9, <2>0, <2>2 DEF Served
    <3> QED
      BY <1>7, <1>3, <1>9, <2>2, <3>1, <3>2 DEF ContractsStay
  <2>3. ASSUME NEW w \in Vias, NEW x \in Entries(Bindings(w))'
        PROVE  x \in Entries(Bindings(w)) \/ (p = Bindings(v) /\ w = v /\ x \in e)
    BY <1>9, <2>3
  <2>4. \A w \in Vias : \A x \in Entries(Bindings(w))' :
          x \in Entries(Registry(w))' /\ x \in Entries(Composition)' /\ Contracted(w, x)'
    BY <2>1, <2>2, <2>3
  <2> QED
    BY <2>4 DEF Served
<1>14. Agrees(g)'
  <2>1. /\ Entries(Bindings(v))' \subseteq e /\ e \subseteq Entries(Bindings(v))' \union {u}
        /\ \A w \in Vias : Entries(Bindings(w))' \subseteq c
    BY <1>8, <1>9
  <2>2. Registry(v) \in ToSet(rest) \/ e \subseteq Entries(Registry(v))'
    BY <1>9, <1>8, <1>9
  <2>3. Composition \in ToSet(rest) \/ e \subseteq Entries(Composition)'
    BY <1>9, <1>8, <1>9
  <2> QED
    BY <1>10, <1>1, <1>8, <1>11, <2>1, <2>2, <2>3 DEF Agrees
<1>15. ASSUME NEW h \in Exposers \ {g}
       PROVE  /\ At(h, "check")' => Ordered(h)' /\ Fresh(h)'
              /\ ~At(h, "write")'
  <2>1. h \in Commands /\ frame'[h] = frame[h] /\ Exposes(h)
    BY <1>10, <1>1
  <2>2. ~Alone(h)
    BY <1>1, <1>1 DEF Alone, Pending, At
  <2>3. At(h, "check") => Ordered(h) /\ Fresh(h)
    BY <2>2 DEF Serving
  <2>4. /\ Via(h)' = Via(h) /\ UseCase(h)' = UseCase(h) /\ ContractOf(h)' = ContractOf(h)
        /\ Via(h) \in Vias /\ UseCase(h) \in UseCases
    BY <1>1, <2>1, Kinds DEF Via, UseCase, ContractOf, Contract
  <2>5. Fresh(h) => Fresh(h)'
    BY <2>1, <2>4 DEF Fresh, Registry, Composition, Text, Absent
  <2>6. Ordered(h) => Ordered(h)'
    BY <1>1, <1>3, <2>1, SameOrder
  <2> QED
    BY <2>1, <2>3, <2>5, <2>6 DEF At
<1>16. ~Unwritten(g)' /\ ~At(g, "check")'
  BY <1>10 DEF Unwritten, At
<1>17. \A h \in Exposers : At(h, "check")' =>
         Ordered(h)' /\ (Fresh(h)' \/ (Agrees(h)' /\ Alone(h)'))
  BY <1>15, <1>16
<1>18. \A h \in Exposers : At(h, "write")' => Ordered(h)' /\ Agrees(h)'
  BY <1>3, <1>14, <1>15
<1> QED
  BY <1>1, <1>13, <1>16, <1>17, <1>18 DEF Serving

\* A binding goes on, and writes no file.
LEMMA RestServes ==
  ASSUME Types, Serving, NEW g \in Commands, UNCHANGED <<tree, request, removed>>,
         \A h \in Commands \ {g} : frame'[h] = frame[h], ~Pending(g)'
  PROVE  Serving'
<1>1. TreeOK /\ RequestsOK /\ UNCHANGED request
  BY DEF Types
<1>2. IndexStays
  BY DEF IndexStays
<1>3. ContractsStay
  BY DEF ContractsStay, Contracted, Exists, Contract, Absent
<1> QED
  BY <1>1, <1>2, <1>3, QuietServing

\* Whatever a binding does, alone in what it writes, is served.
LEMMA BindingServes ==
  ASSUME Types, AtMostTwo, Serving, NEW g \in Commands, BindingShape(g), BindingStep(g),
         ~torn', Crossing = {}
  PROVE  Serving'
<1>1. Exposes(g)
  BY DEF BindingStep
<1>2. At(g, "write") => \A h \in Exposers \ {g} : ~At(h, "write")
  BY <1>1 DEF Crossing, Blind, Exposers
<1>3. CASE PlanBinding(g)
  <2>1. CASE Goto(g, "refused")
    <3>1. UNCHANGED <<tree, request, removed>>
      BY <1>3 DEF PlanBinding, files
    <3>2. ~Pending(g)' /\ \A h \in Commands \ {g} : frame'[h] = frame[h]
      BY <2>1, Goes DEF Types, Becomes, Points, Pending
    <3> QED
      BY <3>1, <3>2, RestServes
  <2>2. CASE ~Goto(g, "refused")
    <3>1. frame'[g].pc = "check" /\ At(g, "plan")
      BY <1>1, <1>3, <2>2, PlanFrame DEF PlanBinding
    <3>2. \A h \in Exposers \ {g} : ~At(h, "write")
      BY <3>1 DEF Crossing, ReadsHalf, Exposers
    <3> QED
      BY <1>1, <1>3, <3>2, PlanServes
  <2> QED
    BY <2>1, <2>2
<1>4. CASE CheckBinding(g)
  BY <1>1, <1>4, CheckServes
<1>5. CASE WriteBinding(g)
  BY <1>1, <1>2, <1>5, WriteServes DEF WriteBinding
<1>6. CASE WriteBindingFails(g)
  <2>1. UNCHANGED <<tree, request, removed>>
    BY <1>6 DEF WriteBindingFails, developer
  <2>2. ~Pending(g)' /\ \A h \in Commands \ {g} : frame'[h] = frame[h]
    BY <1>6, Goes DEF WriteBindingFails, Types, Becomes, Points, Pending
  <2> QED
    BY <2>1, <2>2, RestServes
<1>7. CASE BindingWritten(g)
  <2>1. UNCHANGED <<tree, request, removed>>
    BY <1>7 DEF BindingWritten, files
  <2>2. PICK pc \in {"done", "load"} : Goto(g, pc)
    BY <1>7 DEF BindingWritten
  <2>3. ~Pending(g)' /\ \A h \in Commands \ {g} : frame'[h] = frame[h]
    BY <2>2, Goes DEF Types, Becomes, Points, Pending
  <2> QED
    BY <2>1, <2>3, RestServes
<1> QED
  BY <1>3, <1>4, <1>5, <1>6, <1>7 DEF BindingStep

\* No other command writes what a binding does, or takes a contract back.
LEMMA CommandsKeepContracts ==
  ASSUME Types, NEW g \in Commands, UNCHANGED removed,
         g \in Blueprints => Effects(g), g \notin Blueprints => Elsewhere(g)
  PROVE  ContractsStay
<1>1. ASSUME NEW v \in Vias, NEW u \in UseCases, Contracted(v, u)
      PROVE  Contracted(v, u)'
  <2>1. PICK p \in Paths \ Blueprinted : p = Contract(v, u)
    BY PathsApart
  <2>2. p \in removed \/ Exists(p)
    BY <1>1, <2>1 DEF Contracted
  <2>3. p \in removed' \/ Exists(p)'
    BY <2>2, CommandsKeepPaths
  <2> QED
    BY <2>1, <2>3 DEF Contracted, Exists, Contract, Absent
<1> QED
  BY <1>1 DEF ContractsStay

\* What is generated again is written by bindings only.
LEMMA OthersKeepIndex ==
  ASSUME Inv, NEW g \in Commands, CommandMoves(g), ~BindingStep(g)
  PROVE  IndexStays
<1>1. /\ Types /\ Watched /\ BlueprintTree /\ TreeOK
      /\ Installs(g) => AdapterShape(g) /\ Adapter(g) \in Adapters
  BY Kinds DEF Inv, Types, Watched
<1>2. CASE g \in Blueprints
  <2>1. Effects(g)
    BY <1>1, <1>2, CommandFacts, Acting
  <2>2. \A p \in Paths \ Blueprinted : tree'[p] = tree[p]
    BY <1>1, <2>1, PathsApart DEF Effects, Rests, Publishing, Detaching, PuttingBack, TreeOK
  <2> QED
    BY <2>2, IndexApart DEF IndexStays
<1>3. CASE UNCHANGED tree
  BY <1>3 DEF IndexStays
<1>4. CASE Installs(g)
  <2>1. AdapterMoves(g)
    BY <1>1, <1>4, CommandFacts, AdapterActing
  <2>2. CASE Extends(g)
    <3>1. /\ frame[g].todo # << >> /\ Target(g) = Extension(Adapter(g))
      BY <1>1, <1>4, <2>2 DEF Extends, AdapterShape, At
    <3>2. Target(g) \in Sources
      BY <1>1, <1>4, <3>1, PathsApart
    <3>3. \A p \in Paths \ Sources : tree'[p] = tree[p]
      BY <1>1, <2>2, <3>2 DEF Extends, TreeOK
    <3> QED
      BY <3>3, IndexApart DEF IndexStays
  <2> QED
    BY <1>3, <2>1, <2>2 DEF AdapterMoves, Plans, Leaves, Reads, Truncates, FillsIt, Passes
<1>5. CASE StagingStep(g) \/ Record(g) \/ Killed(g)
  <2>1. UNCHANGED tree
    BY <1>1, <1>5, RecordMoves, KilledMoves
       DEF StagingStep, BeginProject, RunStep, NoteStep, RenameStaged, StagingFails, files,
           contents
  <2> QED
    BY <1>3, <2>1
<1> QED
  BY <1>2, <1>4, <1>5 DEF CommandMoves, BlueprintStep, AdapterStep

\* A command keeps what is served.
LEMMA CommandServes ==
  ASSUME Inv, ServedInv, NEW g \in Commands, CommandMoves(g)
  PROVE  ServedInv'
<1>1. /\ Types /\ Watched /\ BlueprintTree /\ TreeOK /\ RequestsOK
      /\ Exposes(g) => BindingShape(g) /\ ~Installs(g) /\ g \notin Creators /\ g \notin Blueprints
  BY Kinds DEF Inv, Types, Watched
<1>2. /\ Acts(g) /\ crossed \subseteq crossed'
      /\ Installs(g) => AdapterActs(g)
      /\ ~Installs(g) => (torn => torn')
  BY CommandFacts
<1>3. /\ Turn(g) /\ UNCHANGED <<request, removed>>
      /\ g \in Blueprints => Effects(g)
      /\ g \notin Blueprints => Elsewhere(g)
  BY <1>1, <1>2, Acting
<1>4. AtMostTwo'
  BY <1>3 DEF ServedInv, AtMostTwo, Exposers, Exposes
<1>5. torn => torn'
  <2>1. Installs(g) => AdapterMoves(g)
    BY <1>1, <1>2, AdapterActing DEF Watched
  <2> QED
    BY <1>2, <2>1 DEF AdapterMoves, Plans, Leaves, Reads, Truncates, FillsIt, Extends, Passes
<1>6. SUFFICES ASSUME ~torn', crossed' = {}
               PROVE  Serving'
  BY <1>4 DEF ServedInv
<1>7. Serving /\ AtMostTwo
  BY <1>2, <1>5, <1>6 DEF ServedInv
<1>8. CASE BindingStep(g) /\ crossed' = crossed \union Crossing
  <2>1. Exposes(g) /\ Crossing = {}
    BY <1>6, <1>8 DEF BindingStep
  <2> QED
    BY <1>1, <1>6, <1>7, <1>8, <2>1, BindingServes
<1>9. CASE Record(g) \/ Killed(g)
  <2>1. UNCHANGED <<tree, request, removed>> /\ \A h \in Commands \ {g} : frame'[h] = frame[h]
    BY <1>1, <1>9, RecordMoves, KilledMoves DEF Becomes
  <2>2. ~Pending(g)'
    BY <1>1, <1>9, RecordMoves, KilledMoves DEF Becomes, Pending
  <2> QED
    BY <1>1, <1>7, <2>1, <2>2, RestServes
<1>10. CASE ~BindingStep(g) /\ ~Record(g) /\ ~Killed(g)
  <2>1. g \notin Exposers
    BY <1>1, <1>10 DEF CommandMoves, BlueprintStep, StagingStep, AdapterStep, Exposers
  <2>2. IndexStays /\ ContractsStay
    BY <1>1, <1>3, <1>10, OthersKeepIndex, CommandsKeepContracts
  <2>3. \A h \in Commands \ {g} : frame'[h] = frame[h]
    BY <1>3 DEF Turn
  <2> QED
    BY <1>1, <1>3, <1>7, <2>1, <2>2, <2>3, QuietServing
<1> QED
  BY <1>8, <1>9, <1>10 DEF CommandMoves

\* So does whatever moves no command.
LEMMA StillServes ==
  ASSUME Inv, ServedInv, UNCHANGED <<request, frame>>, torn' = torn, crossed \subseteq crossed',
         IndexStays, ContractsStay
  PROVE  ServedInv'
<1>1. TreeOK /\ RequestsOK /\ "nobody" \notin Commands
  BY FilesAssumption DEF Inv, Types
<1>2. AtMostTwo'
  BY DEF ServedInv, AtMostTwo, Exposers, Exposes
<1>3. SUFFICES ASSUME ~torn', crossed' = {}
               PROVE  Serving'
  BY <1>2 DEF ServedInv
<1>4. Serving
  BY <1>3 DEF ServedInv
<1>5. "nobody" \notin Exposers /\ \A h \in Commands \ {"nobody"} : frame'[h] = frame[h]
  BY <1>1 DEF Exposers
<1>6. UNCHANGED request
  OBVIOUS
<1> QED
  BY <1>1, <1>4, <1>5, <1>6, QuietServing

\* The developer deletes a contract knowingly, and does not touch what is generated.
LEMMA DeveloperServes ==
  ASSUME TreeOK, Develops
  PROVE  IndexStays /\ ContractsStay
<1>1. PICK p \in Sources : Develop(p)
  BY DEF Develops
<1>2. p \in Paths
  BY <1>1, PathsApart
<1>3. /\ \A q \in Paths \ {p} : tree'[q] = tree[q]
      /\ removed \subseteq removed'
      /\ tree'[p].kind = "developer" \/ p \in removed'
  BY <1>1, <1>2 DEF Develop, Edit, Add, Delete, Does, TreeOK
<1>4. IndexStays
  BY <1>1, <1>3, IndexApart DEF IndexStays
<1>5. ASSUME NEW v \in Vias, NEW u \in UseCases, Contracted(v, u)
      PROVE  Contracted(v, u)'
  <2>1. PICK x \in Paths : x = Contract(v, u)
    BY PathsApart
  <2>2. x \in removed' \/ Exists(x)'
    BY <1>3, <1>5, <2>1 DEF Contracted, Exists, Absent
  <2> QED
    BY <2>1, <2>2 DEF Contracted, Contract, Exists, Absent
<1> QED
  BY <1>4, <1>5 DEF ContractsStay

\* In the beginning no index is there, and no command has begun.
LEMMA NoIndex ==
  ASSUME Init
  PROVE  /\ \A g \in Commands : frame[g].pc = "plan"
         /\ \A p \in Indexed : tree[p] = Absent
         /\ Served
<1>1. \A g \in Commands : frame[g].pc = "plan"
  BY DEF Init, Start
<1>2. \A p \in Indexed : tree[p] = Absent
  <2>1. PICK found \in SUBSET Blueprinted :
          tree = [p \in Paths |-> IF p \in found
                    THEN [by |-> "project", kind |-> "rendered", entries |-> {}]
                    ELSE Absent]
    <3>1. PICK scenario \in Scenarios, packaged \in BOOLEAN :
            LET created == {scenario[g].feature : g \in
                              {h \in Commands : scenario[h].kind = "entity"}}
                there == {Entity(f) : f \in Features \ created}
                           \union (IF packaged THEN {Package, Models} ELSE {})
            IN tree = [p \in Paths |-> IF p \in there
                         THEN [by |-> "project", kind |-> "rendered", entries |-> {}]
                         ELSE Absent]
      BY DEF Init
    <3>2. PICK found : found =
            {Entity(f) : f \in Features \ {scenario[g].feature : g \in
                                             {h \in Commands : scenario[h].kind = "entity"}}}
              \union (IF packaged THEN {Package, Models} ELSE {})
      OBVIOUS
    <3>3. found \subseteq {Entity(f) : f \in Features} \union {Package, Models}
      BY <3>2
    <3>4. found \in SUBSET Blueprinted
      BY <3>3 DEF Blueprinted
    <3> QED
      BY <3>1, <3>2, <3>4
  <2> QED
    BY <2>1, IndexApart
<1>3. Served
  BY <1>2, IndexApart DEF Served, Entries, Absent
<1> QED
  BY <1>1, <1>2, <1>3

\* In the beginning nothing is served.
LEMMA InitServes ==
  ASSUME Init, TwoAsked
  PROVE  ServedInv
<1>1. AtMostTwo
  <2>1. request \in Scenarios
    BY DEF Init
  <2> QED
    BY <2>1 DEF TwoAsked, AtMostTwo, Exposers, Exposes
<1>2. /\ \A g \in Exposers : Unwritten(g) /\ ~At(g, "check") /\ ~At(g, "write")
      /\ Served /\ \A p \in Indexed : tree[p] = Absent
  BY NoIndex DEF Exposers, Unwritten, At
<1> QED
  BY <1>1, <1>2 DEF ServedInv, Serving

\* A step is that of a command, or it moves none.
StillStep ==
  /\ UNCHANGED <<request, frame, faults>> /\ torn' = torn /\ crossed \subseteq crossed'
  /\ IndexStays /\ ContractsStay

\* Next is the commands' steps, and what the developer does.
LEMMA NextMoves ==
  ASSUME Inv, [Next]_vars
  PROVE  (\E g \in Commands : CommandMoves(g)) \/ StillStep
<1>1. ASSUME NEW g \in Commands, NEW p \in Concerned(g), Develop(p), Surprises,
             UNCHANGED <<request, frame, torn, staging, settings>>,
             crossed' = crossed \union Crossing
      PROVE  StillStep
  <2>1. TreeOK /\ Develops
    BY <1>1, ConcernedSources DEF Develops, Inv, Types
  <2>2. UNCHANGED faults
    BY <1>1 DEF Develop, Edit, Add, Delete, Does
  <2> QED
    BY <1>1, <2>1, <2>2, DeveloperServes DEF StillStep
<1>2. ASSUME UNCHANGED <<request, frame, tree, removed, torn, faults>>, crossed \subseteq crossed'
      PROVE  StillStep
  BY <1>2 DEF StillStep, IndexStays, ContractsStay, Contracted, Exists, Contract, Absent
<1>3. ASSUME MakeTarget, crossed' = crossed \union Crossing
      PROVE  StillStep
  BY <1>2, <1>3 DEF MakeTarget, contents
<1>4. ASSUME UNCHANGED vars
      PROVE  StillStep
  BY <1>2, <1>4 DEF vars, files
<1> QED
  BY <1>1, <1>3, <1>4 DEF Next, CommandMoves

\* The invariant is inductive, beside Inv.
LEMMA NextServes ==
  Inv /\ ServedInv /\ [Next]_vars => ServedInv'
BY NextMoves, CommandServes, StillServes DEF StillStep

\* What the manifest of a transport lists is served, whatever fails or is killed, as long
\* as at most two bindings are made at a time (a third can break it), none of them written
\* over the other, and no file is torn.
THEOREM ManifestIsAlwaysServed ==
  ASSUME TwoAsked
  PROVE  Spec => []ManifestIsServed
<1>1. Init => ServedInv
  BY InitServes
<1>2. Inv /\ ServedInv /\ [Next]_vars => ServedInv'
  BY NextServes
<1>3. ServedInv => ManifestIsServed
  BY DEF ServedInv, Serving, Served, Contracted, ManifestIsServed
<1> QED
  BY <1>1, <1>2, <1>3, GenerationInvariant, PTL DEF Spec

-----------------------------------------------------------------------------
(* What bindings serve while none of them is stopped.  Then one starts to    *)
(* write only when the one before has written all its files, and what a plan *)
(* has found there is part of what it writes.                                *)

\* Nothing has failed, or no binding was refused or killed.
Unbroken ==
  faults = 0 \/ \A g \in Exposers : frame[g].pc \notin {"refused", "killed"}

\* What is listed, and what a binding that writes will list.
Listed(x) == \E v \in Vias : x \in Entries(Bindings(v))
Coming(x, v) == \E g \in Exposers : At(g, "write") /\ UseCase(g) = x /\ Via(g) = v

\* Nothing is served that is not listed or will be.
Justified ==
  /\ \A v \in Vias : \A x \in Entries(Registry(v)) : x \in Entries(Bindings(v)) \/ Coming(x, v)
  /\ \A x \in Entries(Composition) : Listed(x) \/ \E v \in Vias : Coming(x, v)

\* A plan lists what was listed, and the use case; it leaves only what says so already.
Covers(g) ==
  LET f == frame[g]
      v == Via(g)
      u == UseCase(g)
  IN /\ u \in f.entries /\ f.entries \subseteq f.composed
     /\ f.entries \subseteq Entries(Bindings(v)) \union {u}
     /\ \A x \in f.composed : x = u \/ Listed(x)
     /\ Registry(v) \in ToSet(f.todo) \/ f.entries \subseteq Entries(Registry(v))
     /\ Composition \in ToSet(f.todo) \/ f.entries \subseteq Entries(Composition)
     /\ Bindings(v) \in ToSet(f.todo) \/ u \in Entries(Bindings(v))

\* What it will write has what it found there, and has what is there.
Recalls(g) ==
  \A o \in frame[g].originals :
    /\ o.path \in {Registry(Via(g)), Bindings(Via(g))} => o.text.entries \subseteq frame[g].entries
    /\ o.path = Composition => o.text.entries \subseteq frame[g].composed
Adds(g) ==
  LET f == frame[g] IN
  /\ \A p \in {Registry(Via(g)), Bindings(Via(g))} \intersect ToSet(f.todo) :
       Entries(p) \subseteq f.entries
  /\ Composition \in ToSet(f.todo) => Entries(Composition) \subseteq f.composed

Growing ==
  /\ Served /\ Justified
  /\ \A g \in Exposers : At(g, "check") => Ordered(g) /\ Covers(g) /\ Recalls(g)
  /\ \A g \in Exposers : At(g, "write") => Ordered(g) /\ Covers(g) /\ Adds(g)

GrowingInv ==
  faults \in Nat /\ (~torn /\ crossed = {} /\ Unbroken => Growing)

\* What a step adds to the index.
Grows ==
  /\ Entries(Composition) \subseteq Entries(Composition)'
  /\ \A v \in Vias : /\ Entries(Registry(v)) \subseteq Entries(Registry(v))'
                     /\ Entries(Bindings(v)) \subseteq Entries(Bindings(v))'

\* A plan that nobody changes covers what it did.
LEMMA StaysCovered ==
  ASSUME RequestsOK, UNCHANGED request, Grows, NEW h \in Commands, Exposes(h),
         frame'[h].todo = frame[h].todo, frame'[h].originals = frame[h].originals,
         frame'[h].entries = frame[h].entries, frame'[h].composed = frame[h].composed
  PROVE  /\ Covers(h) => Covers(h)'
         /\ Recalls(h) => Recalls(h)'
<1>1. PICK v \in Vias, u \in UseCases : v = Via(h) /\ u = UseCase(h)
  BY Kinds
<1>2. /\ Via(h)' = v /\ UseCase(h)' = u /\ Registry(v)' = Registry(v)
      /\ Bindings(v)' = Bindings(v) /\ Composition' = Composition
  BY <1>1 DEF Via, UseCase, Registry, Bindings, Composition
<1>3. \A x : Listed(x) => Listed(x)'
  BY DEF Listed, Grows
<1>4. Recalls(h) => Recalls(h)'
  BY <1>1, <1>2 DEF Recalls
<1>5. ASSUME Covers(h)
      PROVE  Covers(h)'
  <2>1. /\ Entries(Registry(v)) \subseteq Entries(Registry(v))'
        /\ Entries(Bindings(v)) \subseteq Entries(Bindings(v))'
        /\ Entries(Composition) \subseteq Entries(Composition)'
    BY DEF Grows
  <2>2. /\ Entries(Registry(Via(h)))' = Entries(Registry(v))'
        /\ Entries(Bindings(Via(h)))' = Entries(Bindings(v))'
        /\ Registry(Via(h))' = Registry(v) /\ Bindings(Via(h))' = Bindings(v)
    BY <1>2 DEF Entries, Registry, Bindings
  <2>3. PICK e, c, todo : e = frame[h].entries /\ c = frame[h].composed /\ todo = frame[h].todo
    OBVIOUS
  <2>4. /\ u \in e /\ e \subseteq c /\ e \subseteq Entries(Bindings(v)) \union {u}
        /\ \A x \in c : x = u \/ Listed(x)
        /\ Registry(v) \in ToSet(todo) \/ e \subseteq Entries(Registry(v))
        /\ Composition \in ToSet(todo) \/ e \subseteq Entries(Composition)
        /\ Bindings(v) \in ToSet(todo) \/ u \in Entries(Bindings(v))
    BY <1>1, <1>5, <2>3 DEF Covers
  <2> QED
    BY <1>2, <1>3, <2>1, <2>2, <2>3, <2>4 DEF Covers
<1> QED
  BY <1>4, <1>5

\* A file that is not written has what it had.
LEMMA StaysAdded ==
  ASSUME RequestsOK, UNCHANGED request, IndexStays, NEW h \in Commands, Exposes(h),
         frame'[h].todo = frame[h].todo,
         frame'[h].entries = frame[h].entries, frame'[h].composed = frame[h].composed
  PROVE  Adds(h) => Adds(h)'
<1>1. PICK v \in Vias : v = Via(h)
  BY Kinds
<1>2. /\ Via(h)' = v /\ Registry(v)' = Registry(v)
      /\ Bindings(v)' = Bindings(v) /\ Composition' = Composition
  BY <1>1 DEF Via, Registry, Bindings, Composition
<1>3. /\ Entries(Composition)' = Entries(Composition)
      /\ \A p \in {Registry(v), Bindings(v)} : tree'[p].entries = tree[p].entries
  BY IndexApart DEF IndexStays, Entries, Composition
<1> QED
  BY <1>1, <1>2, <1>3 DEF Adds, Entries

\* What stays has not been lost.
LEMMA IndexGrows ==
  ASSUME IndexStays
  PROVE  Grows
BY IndexApart DEF IndexStays, Grows, Entries, Registry, Bindings, Composition

\* A step that leaves the index and the contracts, and after which the command that
\* takes it, if it is a binding, neither checks nor writes, and has listed its use case
\* if it wrote.
LEMMA QuietGrowing ==
  ASSUME TreeOK, RequestsOK, Growing, UNCHANGED request, IndexStays, ContractsStay,
         NEW g, \A h \in Commands \ {g} : frame'[h] = frame[h],
         g \in Exposers =>
           /\ ~At(g, "check")' /\ ~At(g, "write")'
           /\ At(g, "write") => UseCase(g) \in Entries(Bindings(Via(g)))
  PROVE  Growing'
<1>1. Exposers' = Exposers /\ Exposers \subseteq Commands /\ \A h \in Exposers : Exposes(h)
  BY DEF Exposers, Exposes
<1>2. Served' /\ Grows
  BY SameServed, IndexGrows DEF Growing
<1>3. ASSUME NEW h \in Exposers \ {g}
      PROVE  /\ Ordered(h) => Ordered(h)'
             /\ Covers(h) => Covers(h)'
             /\ Recalls(h) => Recalls(h)'
             /\ Adds(h) => Adds(h)'
             /\ \A pc : At(h, pc)' <=> At(h, pc)
             /\ Via(h)' = Via(h) /\ UseCase(h)' = UseCase(h)
  <2>1. h \in Commands /\ Exposes(h) /\ frame'[h] = frame[h]
    BY <1>1
  <2> QED
    BY <1>2, <2>1, SameOrder, StaysCovered, StaysAdded DEF At, Via, UseCase
<1>4. /\ Entries(Composition)' = Entries(Composition)
      /\ \A v \in Vias : /\ Entries(Registry(v))' = Entries(Registry(v))
                         /\ Entries(Bindings(v))' = Entries(Bindings(v))
  BY IndexApart DEF IndexStays, Entries, Registry, Bindings, Composition
<1>5. \A x, v : Coming(x, v) => Coming(x, v)' \/ x \in Entries(Bindings(v))
  <2>1. ASSUME NEW x, NEW v, NEW h \in Exposers, At(h, "write"), UseCase(h) = x, Via(h) = v
        PROVE  Coming(x, v)' \/ x \in Entries(Bindings(v))
    <3>1. CASE h = g
      BY <2>1, <3>1
    <3>2. CASE h # g
      <4>1. h \in Exposers' /\ At(h, "write")' /\ UseCase(h)' = x /\ Via(h)' = v
        BY <1>1, <1>3, <2>1, <3>2
      <4> QED
        BY <4>1 DEF Coming
    <3> QED
      BY <3>1, <3>2
  <2> QED
    BY <2>1 DEF Coming
<1>6. Justified'
  <2>1. ASSUME NEW v \in Vias, NEW x \in Entries(Registry(v))
        PROVE  x \in Entries(Bindings(v)) \/ Coming(x, v)'
    BY <1>5, <2>1 DEF Growing, Justified
  <2>2. ASSUME NEW x \in Entries(Composition)
        PROVE  Listed(x) \/ \E v \in Vias : Coming(x, v)'
    BY <1>5, <2>2 DEF Growing, Justified, Listed
  <2>3. \A x : Listed(x)' <=> Listed(x)
    BY <1>4 DEF Listed
  <2> QED
    BY <1>4, <2>1, <2>2, <2>3 DEF Justified
<1>7. \A h \in Exposers : At(h, "check")' => Ordered(h)' /\ Covers(h)' /\ Recalls(h)'
  BY <1>3 DEF Growing
<1>8. \A h \in Exposers : At(h, "write")' => Ordered(h)' /\ Covers(h)' /\ Adds(h)'
  BY <1>3 DEF Growing
<1> QED
  BY <1>1, <1>2, <1>6, <1>7, <1>8 DEF Growing

\* A binding plans while no other writes, and finds that what is served is listed.
LEMMA PlanGrows ==
  ASSUME Types, Growing, NEW g \in Commands, Exposes(g), PlanBinding(g), ~Goto(g, "refused"),
         \A h \in Exposers : ~At(h, "write")
  PROVE  Growing'
<1>1. /\ TreeOK /\ RequestsOK /\ UNCHANGED <<tree, request, removed>> /\ At(g, "plan")
  BY DEF Types, PlanBinding, files
<1>2. PICK v \in Vias, u \in UseCases : v = Via(g) /\ u = UseCase(g)
  BY <1>1, Kinds
<1>3. IndexStays
  BY <1>1 DEF IndexStays
<1>4. ContractsStay
  BY <1>1 DEF ContractsStay, Contracted, Exists, Contract, Absent
<1>5. PICK todo, e, c, originals :
        /\ todo = ToWrite(g) /\ e = Merged(g) /\ c = Composed(g)
        /\ originals = {[path |-> p, text |-> Text(tree[p])] : p \in ToSet(todo)}
  OBVIOUS
<1>6. /\ frame'[g].pc = "check" /\ frame'[g].todo = todo
      /\ frame'[g].entries = e /\ frame'[g].composed = c
      /\ frame'[g].originals = originals
      /\ \A h \in Commands \ {g} : frame'[h] = frame[h]
  BY <1>5, PlanFrame
<1>7. /\ Exposers' = Exposers /\ Exposers \subseteq Commands /\ g \in Exposers
      /\ \A h \in Exposers : Exposes(h)
  BY <1>1 DEF Exposers, Exposes
<1>8. Served' /\ Grows
  BY <1>1, <1>3, <1>4, SameServed, IndexGrows DEF Growing
<1>9. /\ Via(g)' = v /\ UseCase(g)' = u /\ ContractOf(g)' = ContractOf(g)
      /\ Bindings(v)' = Bindings(v) /\ Registry(v)' = Registry(v)
      /\ Composition' = Composition /\ Contract(v, u)' = Contract(v, u)
      /\ ContractOf(g) = Contract(v, u)
  BY <1>1, <1>2 DEF Via, UseCase, ContractOf, Bindings, Registry, Composition, Contract
<1>10. /\ \A p \in {ContractOf(g), Registry(v), Composition, Bindings(v)} :
            p \in ToSet(todo) <=> Changes(g, p)
       /\ \A i \in 1..Len(todo) : todo[i] = Bindings(v) => i = Len(todo)
  BY <1>2, <1>5, ToWriteOrder
<1>11. /\ Registry(v) # ContractOf(g) /\ Composition # ContractOf(g) /\ Bindings(v) # ContractOf(g)
       /\ Registry(v) # Composition /\ Bindings(v) # Composition
  BY <1>9, PathsApart, IndexApart
<1>12. Ordered(g)'
  <2>1. ContractOf(g) \notin ToSet(todo) => Exists(ContractOf(g))
    BY <1>10 DEF Changes
  <2>2. ContractOf(g) \notin ToSet(todo) => Contracted(v, u)'
    BY <1>1, <1>9, <2>1 DEF Contracted, Exists, Absent
  <2>3. (Contracted(Via(g), UseCase(g)))' <=> Contracted(v, u)'
    BY <1>9 DEF Contracted, Contract, Exists
  <2>4. Bindings(Via(g))' = Bindings(v)
    BY <1>9 DEF Bindings
  <2> QED
    BY <1>6, <1>9, <1>10, <2>2, <2>3, <2>4 DEF Ordered
\* What it writes.
<1>13. /\ e = Entries(Bindings(v)) \union {u}
       /\ \A x : x \in c <=> x \in e \/ Listed(x)
  BY <1>2, <1>5 DEF Merged, Composed, Listed
<1>14. \A p, some : Text(tree[p]) = Text(Index(g, some)) => Entries(p) = some
  BY DEF Text, Index, Entries
<1>15. /\ Registry(v) \notin ToSet(todo) => Entries(Registry(v)) = e
       /\ Bindings(v) \notin ToSet(todo) => Entries(Bindings(v)) = e
       /\ Composition \notin ToSet(todo) => Entries(Composition) = c
  BY <1>2, <1>5, <1>10, <1>11, <1>14 DEF Changes
<1>16. /\ Entries(Bindings(v))' = Entries(Bindings(v))
       /\ Entries(Registry(v))' = Entries(Registry(v))
       /\ Entries(Composition)' = Entries(Composition)
       /\ \A x : Listed(x)' <=> Listed(x)
  BY <1>1 DEF Entries, Bindings, Registry, Composition, Listed
<1>17. Covers(g)'
  <2>1. /\ Entries(Registry(Via(g)))' = Entries(Registry(v))
        /\ Entries(Bindings(Via(g)))' = Entries(Bindings(v))
        /\ Registry(Via(g))' = Registry(v) /\ Bindings(Via(g))' = Bindings(v)
    BY <1>1, <1>9 DEF Entries, Registry, Bindings
  <2>2. /\ u \in e /\ e \subseteq c /\ e \subseteq Entries(Bindings(v)) \union {u}
        /\ Registry(v) \in ToSet(todo) \/ e \subseteq Entries(Registry(v))
        /\ Composition \in ToSet(todo) \/ e \subseteq Entries(Composition)
        /\ Bindings(v) \in ToSet(todo) \/ u \in Entries(Bindings(v))
    BY <1>13, <1>15
  <2>3. \A x \in c : x = u \/ Listed(x)'
    BY <1>13, <1>16 DEF Listed
  <2> QED
    BY <1>6, <1>9, <1>16, <2>1, <2>2, <2>3 DEF Covers
<1>18. \A x, w : ~Coming(x, w)
  BY DEF Coming
<1>19. /\ Entries(Registry(v)) \subseteq e /\ Entries(Bindings(v)) \subseteq e
       /\ Entries(Composition) \subseteq c
  BY <1>13, <1>18 DEF Growing, Justified
<1>20. Recalls(g)'
  <2>1. \A o \in originals : o.text.entries = Entries(o.path)
    BY <1>5 DEF Text, Entries
  <2>2. Registry(Via(g))' = Registry(v) /\ Bindings(Via(g))' = Bindings(v)
    BY <1>9 DEF Registry, Bindings
  <2> QED
    BY <1>6, <1>9, <1>19, <2>1, <2>2 DEF Recalls
<1>21. ASSUME NEW h \in Exposers \ {g}
       PROVE  /\ Ordered(h) => Ordered(h)'
              /\ Covers(h) => Covers(h)'
              /\ Recalls(h) => Recalls(h)'
              /\ \A pc : At(h, pc)' <=> At(h, pc)
  <2>1. h \in Commands /\ Exposes(h) /\ frame'[h] = frame[h]
    BY <1>6, <1>7
  <2> QED
    BY <1>1, <1>4, <1>8, <2>1, SameOrder, StaysCovered DEF At
<1>22. \A h \in Exposers : ~At(h, "write")'
  BY <1>6, <1>21 DEF At
<1>23. \A h \in Exposers : At(h, "check")' => Ordered(h)' /\ Covers(h)' /\ Recalls(h)'
  BY <1>12, <1>17, <1>20, <1>21 DEF Growing
<1>24. Justified'
  <2>1. /\ \A w \in Vias : /\ Entries(Registry(w))' = Entries(Registry(w))
                           /\ Entries(Bindings(w))' = Entries(Bindings(w))
    BY <1>1 DEF Entries, Bindings, Registry
  <2> QED
    BY <1>16, <1>18, <2>1 DEF Growing, Justified
<1> QED
  BY <1>7, <1>8, <1>22, <1>23, <1>24 DEF Growing

\* A plan that is still true adds to what is there.
LEMMA CheckGrows ==
  ASSUME Types, Growing, NEW g \in Commands, Exposes(g), BindingShape(g), At(g, "check"),
         Goto(g, "write"), Unchanged(g), UNCHANGED <<tree, request, removed>>
  PROVE  Growing'
<1>1. TreeOK /\ RequestsOK
  BY DEF Types
<1>2. PICK v \in Vias, u \in UseCases : v = Via(g) /\ u = UseCase(g)
  BY <1>1, Kinds
<1>3. IndexStays
  BY DEF IndexStays
<1>4. ContractsStay
  BY DEF ContractsStay, Contracted, Exists, Contract, Absent
<1>5. /\ frame'[g].pc = "write" /\ \A h \in Commands \ {g} : frame'[h] = frame[h]
      /\ frame'[g].todo = frame[g].todo /\ frame'[g].originals = frame[g].originals
      /\ frame'[g].entries = frame[g].entries /\ frame'[g].composed = frame[g].composed
  BY Goes DEF Types, Becomes, Carries, Points
<1>6. /\ Exposers' = Exposers /\ Exposers \subseteq Commands /\ g \in Exposers
      /\ \A h \in Exposers : Exposes(h)
  BY DEF Exposers, Exposes
<1>7. Served' /\ Grows
  BY <1>1, <1>3, <1>4, SameServed, IndexGrows DEF Growing
<1>8. Ordered(g) /\ Covers(g) /\ Recalls(g)
  BY <1>6 DEF Growing
<1>9. Adds(g)
  <2>1. ASSUME NEW p \in ToSet(frame[g].todo)
        PROVE  \E o \in frame[g].originals : o.path = p /\ o.text.entries = Entries(p)
    <3>1. PICK o \in frame[g].originals : o.path = p
      BY <2>1 DEF BindingShape, At
    <3>2. Text(tree[o.path]) = o.text
      BY DEF Unchanged
    <3> QED
      BY <3>1, <3>2 DEF Text, Entries
  <2> QED
    BY <1>8, <2>1 DEF Adds, Recalls
<1>10. Ordered(g)' /\ Covers(g)' /\ Adds(g)'
  BY <1>1, <1>3, <1>4, <1>5, <1>7, <1>8, <1>9, SameOrder, StaysCovered, StaysAdded
<1>11. ASSUME NEW h \in Exposers \ {g}
       PROVE  /\ Ordered(h) => Ordered(h)'
              /\ Covers(h) => Covers(h)'
              /\ Recalls(h) => Recalls(h)'
              /\ Adds(h) => Adds(h)'
              /\ \A pc : At(h, pc)' <=> At(h, pc)
  <2>1. h \in Commands /\ Exposes(h) /\ frame'[h] = frame[h]
    BY <1>5, <1>6
  <2> QED
    BY <1>1, <1>3, <1>4, <1>7, <2>1, SameOrder, StaysCovered, StaysAdded DEF At
<1>12. \A x, w : Coming(x, w) => Coming(x, w)'
  <2>1. ASSUME NEW x, NEW w, NEW h \in Exposers, At(h, "write"), UseCase(h) = x, Via(h) = w
        PROVE  Coming(x, w)'
    <3>1. h # g
      BY <2>1 DEF At
    <3>2. h \in Exposers' /\ At(h, "write")' /\ UseCase(h)' = x /\ Via(h)' = w
      BY <1>6, <1>11, <2>1, <3>1 DEF UseCase, Via
    <3> QED
      BY <3>2 DEF Coming
  <2> QED
    BY <2>1 DEF Coming
<1>13. Justified'
  <2>1. /\ \A w \in Vias : /\ Entries(Registry(w))' = Entries(Registry(w))
                           /\ Entries(Bindings(w))' = Entries(Bindings(w))
        /\ Entries(Composition)' = Entries(Composition)
        /\ \A x : Listed(x)' <=> Listed(x)
    BY DEF Entries, Bindings, Registry, Composition, Listed
  <2> QED
    BY <1>12, <2>1 DEF Growing, Justified
<1>14. \A h \in Exposers : At(h, "check")' => Ordered(h)' /\ Covers(h)' /\ Recalls(h)'
  BY <1>5, <1>11 DEF Growing, At
<1>15. \A h \in Exposers : At(h, "write")' => Ordered(h)' /\ Covers(h)' /\ Adds(h)'
  BY <1>10, <1>11 DEF Growing
<1> QED
  BY <1>6, <1>7, <1>13, <1>14, <1>15 DEF Growing

\* A file that is written again says more.
LEMMA WriteGrows ==
  ASSUME Types, Growing, NEW g \in Commands, Exposes(g), BindingShape(g), WriteBinding(g),
         \A h \in Exposers \ {g} : ~At(h, "write")
  PROVE  Growing'
<1>1. /\ TreeOK /\ RequestsOK /\ UNCHANGED request /\ At(g, "write")
      /\ Exposers' = Exposers /\ Exposers \subseteq Commands /\ g \in Exposers
      /\ \A h \in Exposers : Exposes(h)
  BY DEF Types, WriteBinding, Exposers, Exposes
<1>2. Served /\ Justified /\ Ordered(g) /\ Covers(g) /\ Adds(g)
  BY <1>1 DEF Growing
<1>3. /\ ContractsStay /\ Ordered(g)'
      /\ \E v \in Vias, u \in UseCases : \E p, rest, e, c : Writes(g, v, u, p, rest, e, c)
  BY <1>2, WriteFacts
<1>4. PICK v \in Vias, u \in UseCases : \E p, rest, e, c : Writes(g, v, u, p, rest, e, c)
  BY <1>3
<1>5. PICK p, rest, e, c : Writes(g, v, u, p, rest, e, c)
  BY <1>4
<1>6. PICK todo : todo = ToSet(frame[g].todo)
  OBVIOUS
<1>7. /\ u \in e /\ e \subseteq c /\ e \subseteq Entries(Bindings(v)) \union {u}
      /\ \A x \in c : x = u \/ Listed(x)
      /\ Registry(v) \in todo \/ e \subseteq Entries(Registry(v))
      /\ Composition \in todo \/ e \subseteq Entries(Composition)
      /\ Bindings(v) \in todo \/ u \in Entries(Bindings(v))
  BY <1>2, <1>5, <1>6 DEF Writes, Covers
<1>8. /\ Registry(v) \in todo => Entries(Registry(v)) \subseteq e
      /\ Bindings(v) \in todo => Entries(Bindings(v)) \subseteq e
      /\ Composition \in todo => Entries(Composition) \subseteq c
  BY <1>2, <1>5, <1>6 DEF Writes, Adds
<1>9. /\ todo = ToSet(rest) \union {p}
      /\ Entries(Registry(v))' = IF p = Registry(v) THEN e ELSE Entries(Registry(v))
      /\ Entries(Bindings(v))' = IF p = Bindings(v) THEN e ELSE Entries(Bindings(v))
      /\ Entries(Composition)' = IF p = Composition THEN c ELSE Entries(Composition)
      /\ \A w \in Vias \ {v} : /\ Entries(Bindings(w))' = Entries(Bindings(w))
                               /\ Entries(Registry(w))' = Entries(Registry(w))
      /\ p = Bindings(v) => todo = {p} /\ Contracted(v, u)
  BY <1>5, <1>6 DEF Writes
<1>10. Grows
  BY <1>8, <1>9 DEF Grows
<1>11. \A x : Listed(x) => Listed(x)'
  BY <1>10 DEF Listed, Grows
<1>12. Registry(v) # Composition /\ Bindings(v) # Composition /\ Registry(v) # Bindings(v)
  BY IndexApart
<1>13. Served'
  <2>1. ASSUME NEW w \in Vias, NEW x \in Entries(Bindings(w))
        PROVE  x \in Entries(Registry(w))' /\ x \in Entries(Composition)' /\ Contracted(w, x)'
    <3>1. /\ x \in Entries(Registry(w)) /\ x \in Entries(Composition) /\ Contracted(w, x)
      BY <1>2, <2>1 DEF Served
    <3>2. x \in UseCases
      BY <1>1, <2>1, IndexApart DEF Entries, TreeOK, Files
    <3> QED
      BY <1>3, <1>10, <3>1, <3>2 DEF Grows, ContractsStay
  <2>2. ASSUME p = Bindings(v), NEW x \in e
        PROVE  x \in Entries(Registry(v))' /\ x \in Entries(Composition)' /\ Contracted(v, x)'
    <3>1. x \in Entries(Registry(v)) /\ x \in Entries(Composition)
      BY <1>7, <1>9, <1>12, <2>2
    <3>2. CASE x = u
      <4>1. Contracted(v, u)'
        BY <1>3, <1>9, <2>2 DEF ContractsStay
      <4> QED
        BY <1>10, <3>1, <3>2, <4>1 DEF Grows
    <3>3. CASE x \in Entries(Bindings(v))
      BY <2>1, <3>3
    <3> QED
      BY <1>7, <2>2, <3>2, <3>3
  <2>3. ASSUME NEW w \in Vias, NEW x \in Entries(Bindings(w))'
        PROVE  x \in Entries(Bindings(w)) \/ (p = Bindings(v) /\ w = v /\ x \in e)
    BY <1>9, <2>3
  <2>4. \A w \in Vias : \A x \in Entries(Bindings(w))' :
          x \in Entries(Registry(w))' /\ x \in Entries(Composition)' /\ Contracted(w, x)'
    BY <2>1, <2>2, <2>3
  <2> QED
    BY <2>4 DEF Served
<1>14. /\ Via(g)' = v /\ UseCase(g)' = u /\ Via(g) = v /\ UseCase(g) = u
       /\ Registry(v)' = Registry(v) /\ Bindings(v)' = Bindings(v) /\ Composition' = Composition
       /\ Entries(Registry(Via(g)))' = Entries(Registry(v))'
       /\ Entries(Bindings(Via(g)))' = Entries(Bindings(v))'
  BY <1>1, <1>5 DEF Writes, Via, UseCase, Registry, Bindings, Composition, Entries
<1>15. /\ frame'[g].pc = "write" /\ frame'[g].todo = rest
       /\ frame'[g].entries = e /\ frame'[g].composed = c
       /\ \A h \in Commands \ {g} : frame'[h] = frame[h]
  BY <1>5 DEF Writes
<1>16. Covers(g)'
  <2>1. /\ e \subseteq Entries(Bindings(v))' \union {u}
        /\ \A x \in c : x = u \/ Listed(x)'
    BY <1>7, <1>10, <1>11 DEF Grows
  <2>2. /\ Registry(v) \in ToSet(rest) \/ e \subseteq Entries(Registry(v))'
        /\ Composition \in ToSet(rest) \/ e \subseteq Entries(Composition)'
        /\ Bindings(v) \in ToSet(rest) \/ u \in Entries(Bindings(v))'
    BY <1>7, <1>9
  <2> QED
    BY <1>7, <1>14, <1>15, <2>1, <2>2 DEF Covers
<1>17. Adds(g)'
  <2>1. /\ Registry(v) \in ToSet(rest) => Entries(Registry(v))' \subseteq e
        /\ Bindings(v) \in ToSet(rest) => Entries(Bindings(v))' \subseteq e
        /\ Composition \in ToSet(rest) => Entries(Composition)' \subseteq c
    BY <1>8, <1>9
  <2>2. Entries(Registry(v))' = tree'[Registry(v)].entries
        /\ Entries(Bindings(v))' = tree'[Bindings(v)].entries
    BY <1>14 DEF Entries
  <2>3. \A q \in {Registry(v), Bindings(v)} \intersect ToSet(rest) : tree'[q].entries \subseteq e
    BY <2>1, <2>2
  <2> QED
    BY <1>14, <1>15, <2>1, <2>3 DEF Adds, Entries
<1>18. Coming(u, v)' /\ \A x, w : Coming(x, w) => Coming(x, w)'
  <2>1. Coming(u, v)'
    BY <1>1, <1>14, <1>15 DEF Coming, At
  <2>2. ASSUME NEW x, NEW w, NEW h \in Exposers, At(h, "write"), UseCase(h) = x, Via(h) = w
        PROVE  Coming(x, w)'
    BY <1>14, <2>1, <2>2
  <2> QED
    BY <2>1, <2>2 DEF Coming
<1>19. Justified'
  <2>1. ASSUME NEW w \in Vias, NEW x \in Entries(Registry(w))'
        PROVE  x \in Entries(Bindings(w))' \/ Coming(x, w)'
    <3>1. CASE x \in Entries(Registry(w))
      BY <1>2, <1>10, <1>18, <3>1 DEF Justified, Grows
    <3>2. CASE w = v /\ x \in e
      BY <1>7, <1>10, <1>18, <3>2 DEF Grows
    <3> QED
      BY <1>9, <2>1, <3>1, <3>2
  <2>2. ASSUME NEW x \in Entries(Composition)'
        PROVE  Listed(x)' \/ \E w \in Vias : Coming(x, w)'
    <3>1. CASE x \in Entries(Composition)
      BY <1>2, <1>11, <1>18, <3>1 DEF Justified
    <3>2. CASE x \in c
      BY <1>7, <1>11, <1>18, <3>2
    <3> QED
      BY <1>9, <2>2, <3>1, <3>2
  <2> QED
    BY <2>1, <2>2 DEF Justified
<1>20. ASSUME NEW h \in Exposers \ {g}
       PROVE  /\ Ordered(h) => Ordered(h)'
              /\ Covers(h) => Covers(h)'
              /\ Recalls(h) => Recalls(h)'
              /\ \A pc : At(h, pc)' <=> At(h, pc)
  <2>1. h \in Commands /\ Exposes(h) /\ frame'[h] = frame[h]
    BY <1>1, <1>15
  <2> QED
    BY <1>1, <1>3, <1>10, <2>1, SameOrder, StaysCovered DEF At
<1>21. \A h \in Exposers : At(h, "check")' => Ordered(h)' /\ Covers(h)' /\ Recalls(h)'
  BY <1>15, <1>20 DEF Growing, At
<1>22. \A h \in Exposers : At(h, "write")' => Ordered(h)' /\ Covers(h)' /\ Adds(h)'
  BY <1>3, <1>16, <1>17, <1>20
<1> QED
  BY <1>1, <1>13, <1>19, <1>21, <1>22 DEF Growing

\* Whatever a binding does, alone in what it writes, is served, unless it is stopped.
LEMMA BindingGrows ==
  ASSUME Types, Growing, faults \in Nat, NEW g \in Commands, BindingShape(g), BindingStep(g),
         Unbroken', ~torn', Crossing = {}
  PROVE  Growing'
<1>1. Exposes(g) /\ FramesOK /\ TreeOK /\ RequestsOK /\ UNCHANGED request
  BY DEF BindingStep, Types, PlanBinding, CheckBinding, WriteBinding, WriteBindingFails,
         BindingWritten
<1>2. g \in Exposers /\ Exposers' = Exposers
  BY <1>1 DEF Exposers, Exposes
<1>3. At(g, "write") => \A h \in Exposers \ {g} : ~At(h, "write")
  BY <1>1 DEF Crossing, Blind, Exposers
\* It goes on, and writes no file.
<1>4. ASSUME UNCHANGED <<tree, removed>>, NEW pc \in Points \ {"check", "write"}, Goto(g, pc),
             At(g, "write") => frame[g].todo = << >>
      PROVE  Growing'
  <2>1. IndexStays
    BY <1>4 DEF IndexStays
  <2>2. ContractsStay
    BY <1>4 DEF ContractsStay, Contracted, Exists, Contract, Absent
  <2>3. /\ ~At(g, "check")' /\ ~At(g, "write")'
        /\ \A h \in Commands \ {g} : frame'[h] = frame[h]
    BY <1>1, <1>4, Goes DEF Becomes, At
  <2>4. At(g, "write") => UseCase(g) \in Entries(Bindings(Via(g)))
    <3>1. ASSUME At(g, "write")
          PROVE  Covers(g) /\ frame[g].todo = << >>
      BY <1>2, <1>4, <3>1 DEF Growing
    <3> QED
      BY <3>1 DEF Covers, ToSet
  <2> QED
    BY <1>1, <2>1, <2>2, <2>3, <2>4, QuietGrowing
<1>5. CASE PlanBinding(g)
  <2>1. At(g, "plan") /\ UNCHANGED <<tree, removed>>
    BY <1>5 DEF PlanBinding, files
  <2>2. CASE Goto(g, "refused")
    BY <1>4, <2>1, <2>2 DEF At, Points
  <2>3. CASE ~Goto(g, "refused")
    <3>1. frame'[g].pc = "check"
      BY <1>1, <1>5, <2>3, PlanFrame
    <3>2. \A h \in Exposers \ {g} : ~At(h, "write")
      BY <2>1, <3>1 DEF Crossing, ReadsHalf, Exposers
    <3>3. \A h \in Exposers : ~At(h, "write")
      BY <2>1, <3>2 DEF At
    <3> QED
      BY <1>1, <1>5, <2>3, <3>3, PlanGrows
  <2> QED
    BY <2>2, <2>3
<1>6. CASE CheckBinding(g)
  <2>1. At(g, "check") /\ UNCHANGED <<tree, request, removed>>
    BY <1>6 DEF CheckBinding, files
  <2>2. CASE Unchanged(g)
    BY <1>1, <1>6, <2>1, <2>2, CheckGrows DEF CheckBinding
  <2>3. CASE ~Unchanged(g)
    BY <1>4, <1>6, <2>1, <2>3 DEF CheckBinding, At, Points
  <2> QED
    BY <2>2, <2>3
<1>7. CASE WriteBinding(g)
  BY <1>1, <1>3, <1>7, WriteGrows DEF WriteBinding
<1>8. CASE WriteBindingFails(g)
  <2>1. faults' # 0
    BY <1>8 DEF WriteBindingFails
  <2>2. frame'[g].pc = "refused"
    BY <1>1, <1>8, Goes DEF WriteBindingFails, Becomes, Points
  <2> QED
    BY <1>2, <2>1, <2>2 DEF Unbroken
<1>9. CASE BindingWritten(g)
  <2>1. frame[g].todo = << >> /\ UNCHANGED <<tree, removed>>
    BY <1>9 DEF BindingWritten, files
  <2>2. PICK pc \in {"done", "load"} : Goto(g, pc)
    BY <1>9 DEF BindingWritten
  <2> QED
    BY <1>4, <2>1, <2>2 DEF Points
<1> QED
  BY <1>5, <1>6, <1>7, <1>8, <1>9 DEF BindingStep

\* A binding that was stopped does nothing more, and what has failed has.
LEMMA StaysUnbroken ==
  ASSUME Types, faults \in Nat, NEW g \in Commands, CommandMoves(g),
         \A h \in Commands \ {g} : frame'[h] = frame[h], UNCHANGED request
  PROVE  faults' \in Nat /\ (Unbroken' => Unbroken)
<1>1. RequestsOK
  BY DEF Types
<1>2. faults' \in {faults, faults + 1}
  <2>1. CASE BlueprintStep(g)
    BY <2>1 DEF BlueprintStep, Plan, PlanRefused, WritePackage, WriteEntity, Publishes, Check,
                MakeDirs, Write, Applied, Detach, Pop, Resolve, RemoveDir, RolledBack,
                WriteFails, DetachFails, files
  <2>2. CASE BindingStep(g)
    BY <2>2 DEF BindingStep, PlanBinding, CheckBinding, WriteBinding, WriteBindingFails,
                BindingWritten, files
  <2>3. CASE StagingStep(g)
    BY <2>3 DEF StagingStep, BeginProject, RunStep, NoteStep, RenameStaged, StagingFails, files
  <2>4. CASE AdapterStep(g)
    BY <2>4 DEF AdapterStep, Install, ReadSettings, Truncate, Fill, LookExtension,
                WriteExtension, AdapterInstalled, InstallFails, files
  <2>5. CASE Record(g) \/ Killed(g)
    BY <2>5 DEF Record, Load, Save, RecordFails, Killed, files
  <2> QED
    BY <2>1, <2>2, <2>3, <2>4, <2>5 DEF CommandMoves
<1>3. g \in Exposers => frame[g].pc \notin {"refused", "killed"}
  <2>1. ASSUME g \in Exposers
        PROVE  BindingStep(g) \/ Record(g) \/ Killed(g)
    <3>1. Exposes(g) /\ ~Installs(g) /\ g \notin Creators /\ g \notin Blueprints
      BY <1>1, <2>1, Kinds DEF Exposers
    <3> QED
      BY <3>1 DEF CommandMoves, BlueprintStep, StagingStep, AdapterStep
  <2>2. ASSUME BindingStep(g) \/ Record(g) \/ Killed(g)
        PROVE  frame[g].pc \notin {"refused", "killed"}
    BY <2>2 DEF BindingStep, PlanBinding, CheckBinding, WriteBinding, WriteBindingFails,
                BindingWritten, Record, Load, Save, RecordFails, Killed, At
  <2> QED
    BY <2>1, <2>2
<1>4. Exposers' = Exposers /\ Exposers \subseteq Commands
  BY DEF Exposers, Exposes
<1>5. Unbroken' => Unbroken
  <2>1. ASSUME NEW h \in Exposers, frame[h].pc \in {"refused", "killed"}
        PROVE  frame'[h].pc \in {"refused", "killed"}
    BY <1>3, <1>4, <2>1
  <2>2. faults' = 0 => faults = 0
    BY <1>2
  <2> QED
    BY <1>4, <2>1, <2>2 DEF Unbroken
<1> QED
  BY <1>2, <1>5

\* A command keeps what is served.
LEMMA CommandGrows ==
  ASSUME Inv, GrowingInv, NEW g \in Commands, CommandMoves(g)
  PROVE  GrowingInv'
<1>1. /\ Types /\ Watched /\ BlueprintTree /\ TreeOK /\ RequestsOK
      /\ Exposes(g) => BindingShape(g) /\ ~Installs(g) /\ g \notin Creators /\ g \notin Blueprints
  BY Kinds DEF Inv, Types, Watched
<1>2. /\ Acts(g) /\ crossed \subseteq crossed'
      /\ Installs(g) => AdapterActs(g)
      /\ ~Installs(g) => (torn => torn')
  BY CommandFacts
<1>3. /\ Turn(g) /\ UNCHANGED <<request, removed>>
      /\ g \in Blueprints => Effects(g)
      /\ g \notin Blueprints => Elsewhere(g)
  BY <1>1, <1>2, Acting
<1>4. faults \in Nat /\ faults' \in Nat /\ (Unbroken' => Unbroken)
  BY <1>1, <1>3, StaysUnbroken DEF GrowingInv, Turn
<1>5. torn => torn'
  <2>1. Installs(g) => AdapterMoves(g)
    BY <1>1, <1>2, AdapterActing DEF Watched
  <2> QED
    BY <1>2, <2>1 DEF AdapterMoves, Plans, Leaves, Reads, Truncates, FillsIt, Extends, Passes
<1>6. SUFFICES ASSUME ~torn', crossed' = {}, Unbroken'
               PROVE  Growing'
  BY <1>4 DEF GrowingInv
<1>7. Growing
  BY <1>2, <1>4, <1>5, <1>6 DEF GrowingInv
<1>8. CASE BindingStep(g) /\ crossed' = crossed \union Crossing
  <2>1. Exposes(g) /\ Crossing = {}
    BY <1>6, <1>8 DEF BindingStep
  <2> QED
    BY <1>1, <1>4, <1>6, <1>7, <1>8, <2>1, BindingGrows
\* A binding is not killed.
<1>9. ASSUME g \in Exposers, Killed(g)
      PROVE  FALSE
  <2>1. frame'[g].pc = "killed"
    BY <1>1, <1>9, KilledMoves DEF Becomes
  <2>2. faults' # 0
    BY <1>4, <1>9 DEF Killed
  <2>3. g \in Exposers'
    BY <1>3, <1>9 DEF Exposers, Exposes
  <2> QED
    BY <1>6, <2>1, <2>2, <2>3 DEF Unbroken
<1>10. CASE ~BindingStep(g)
  <2>1. IndexStays /\ ContractsStay
    BY <1>1, <1>3, <1>10, OthersKeepIndex, CommandsKeepContracts
  <2>2. \A h \in Commands \ {g} : frame'[h] = frame[h]
    BY <1>3 DEF Turn
  <2>3. ASSUME g \in Exposers
        PROVE  /\ ~At(g, "check")' /\ ~At(g, "write")'
               /\ At(g, "write") => UseCase(g) \in Entries(Bindings(Via(g)))
    <3>1. Record(g) \/ Killed(g)
      BY <1>1, <1>10, <2>3 DEF CommandMoves, BlueprintStep, StagingStep, AdapterStep, Exposers
    <3>2. CASE Record(g)
      BY <1>1, <3>2, RecordMoves DEF Becomes, At
    <3>3. CASE Killed(g)
      BY <1>9, <2>3, <3>3
    <3> QED
      BY <3>1, <3>2, <3>3
  <2>4. UNCHANGED request
    BY <1>3
  <2> QED
    BY <1>1, <1>7, <2>1, <2>2, <2>3, <2>4, QuietGrowing
<1>11. BindingStep(g) => g \in Exposers
  BY DEF BindingStep, Exposers
<1> QED
  BY <1>8, <1>9, <1>10, <1>11 DEF CommandMoves

\* So does whatever moves no command.
LEMMA StillGrows ==
  ASSUME Inv, GrowingInv, UNCHANGED <<request, frame, faults>>, torn' = torn,
         crossed \subseteq crossed', IndexStays, ContractsStay
  PROVE  GrowingInv'
<1>1. TreeOK /\ RequestsOK /\ "nobody" \notin Commands
  BY FilesAssumption DEF Inv, Types
<1>2. Unbroken' => Unbroken
  BY DEF Unbroken, Exposers, Exposes
<1>3. SUFFICES ASSUME ~torn', crossed' = {}, Unbroken'
               PROVE  Growing'
  BY DEF GrowingInv
<1>4. Growing
  BY <1>2, <1>3 DEF GrowingInv
<1>5. "nobody" \notin Exposers /\ \A h \in Commands \ {"nobody"} : frame'[h] = frame[h]
  BY <1>1 DEF Exposers
<1>6. UNCHANGED request
  OBVIOUS
<1> QED
  BY <1>1, <1>4, <1>5, <1>6, QuietGrowing

\* In the beginning nothing is served, and nothing has failed.
LEMMA InitGrows ==
  ASSUME Init
  PROVE  GrowingInv
<1>1. faults \in Nat
  BY DEF Init
<1>2. \A g \in Exposers : ~At(g, "check") /\ ~At(g, "write")
  BY NoIndex DEF Exposers, At
<1>3. Served /\ \A p \in Indexed : Entries(p) = {}
  BY NoIndex DEF Absent, Entries
<1>4. Justified
  BY <1>3, IndexApart DEF Justified
<1> QED
  BY <1>1, <1>2, <1>3, <1>4 DEF GrowingInv, Growing

\* This invariant is inductive too, beside Inv.
LEMMA NextGrows ==
  Inv /\ GrowingInv /\ [Next]_vars => GrowingInv'
BY NextMoves, CommandGrows, StillGrows DEF StillStep

\* What the manifest of a transport lists is served, however many bindings are made, as
\* long as none of them is refused or killed, or nothing has failed at all, none was
\* written over another, and no file is torn.
THEOREM ServedWhileNoneIsStopped ==
  Spec => [](Unbroken => ManifestIsServed)
<1>1. Init => GrowingInv
  BY InitGrows
<1>2. Inv /\ GrowingInv /\ [Next]_vars => GrowingInv'
  BY NextGrows
<1>3. GrowingInv => (Unbroken => ManifestIsServed)
  BY DEF GrowingInv, Growing, Served, Contracted, ManifestIsServed
<1> QED
  BY <1>1, <1>2, <1>3, GenerationInvariant, PTL DEF Spec
=============================================================================
