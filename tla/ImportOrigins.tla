----------------------------- MODULE ImportOrigins -----------------------------
(***************************************************************************)
(* How arclith-cli finds what a name of a project's source refers to       *)
(* without running the source (cli/arclith_cli/module_bindings.py and      *)
(* import_origins.py), beside Python, which runs it.  A module is a        *)
(* sequence of statements, one per line, each under no condition, under    *)
(* `if TYPE_CHECKING' or under a condition nobody knows.  Two analyses     *)
(* read it: one takes the imports under TYPE_CHECKING, as a type checker   *)
(* does, the other does not, as the interpreter.                           *)
(***************************************************************************)
EXTENDS Naturals, FiniteSets, Sequences, SequencesExt

CONSTANTS
  SourceModules, EntryModule,  \* modules of the project, and the one that is loaded
  SourceNames, Symbol,         \* names, and the one of the symbol the library exports
  Library,                     \* the library, which is not in the project
  Projects                     \* functions from modules to sequences of statements

VARIABLES
  sources,    \* the project
  checking,   \* TYPE_CHECKING holds
  loading,    \* modules being executed, the innermost last
  loaded,     \* modules executed
  line,       \* the next statement of each module
  values,     \* what each name of a module is bound to
  bound,      \* the statement that bound it, 0 if none
  unfinished  \* names whose value came from a module still being executed

importVars == <<sources, checking, loading, loaded, line, values, bound, unfinished>>

\* A statement, and the condition it is under: `from module import orig as name',
\* `import module as name', `name = orig', `name = orig.Symbol', a class or function,
\* `name, _ = ...', or `del name'.
Statements ==
  [kind : {"from", "import", "assign", "attribute", "define", "unpack", "delete"},
   guard : {"always", "typing", "met", "unmet"},
   module : SourceModules \union {Library}, orig : SourceNames, name : SourceNames]

ImportsAssumption ==
  /\ EntryModule \in SourceModules /\ Symbol \in SourceNames
  /\ Library \notin SourceModules
  /\ IsFiniteSet(SourceModules) /\ IsFiniteSet(SourceNames)
  /\ Projects \subseteq [SourceModules -> Seq(Statements)]

Names == SourceModules \X SourceNames
Unbound == <<"unbound">>
TheSymbol == <<"symbol">>
OfLibrary(name) == IF name = Symbol THEN TheSymbol ELSE <<"library", name>>
ModuleObject(m) == <<"module", m>>

ImportsInit ==
  /\ sources = [m \in SourceModules |-> <<>>]
  /\ checking = FALSE
  /\ loading = <<>> /\ loaded = {}
  /\ line = [m \in SourceModules |-> 1]
  /\ values = [n \in Names |-> Unbound] /\ bound = [n \in Names |-> 0]
  /\ unfinished = {}

-----------------------------------------------------------------------------
(* Python.                                                                  *)

\* The entry module of some project is loaded, or read by a type checker.
LoadEntry ==
  /\ loading = <<>> /\ loaded = {}
  /\ sources' \in Projects /\ checking' \in BOOLEAN
  /\ loading' = <<EntryModule>>
  /\ UNCHANGED <<loaded, line, values, bound, unfinished>>

Current == Last(loading)
Running == loading # <<>>
AtEnd == line[Current] > Len(sources[Current])
Statement == sources[Current][line[Current]]
Advances == line' = [line EXCEPT ![Current] = @ + 1]

Imports == Statement.kind \in {"from", "import"} /\ Statement.module # Library
Started(m) == m \in loaded \union ToSet(loading)

\* What the statement evaluates to.
Value ==
  CASE Statement.kind = "from"      ->
         IF Statement.module = Library THEN OfLibrary(Statement.orig)
         ELSE values[<<Statement.module, Statement.orig>>]
    [] Statement.kind = "import"    -> ModuleObject(Statement.module)
    [] Statement.kind = "assign"    -> values[<<Current, Statement.orig>>]
    [] Statement.kind = "attribute" ->
         LET via == values[<<Current, Statement.orig>>] IN
         CASE via = ModuleObject(Library) -> TheSymbol
           [] \E m \in SourceModules : via = ModuleObject(m) -> values[<<via[2], Symbol>>]
           [] OTHER -> Unbound
    [] Statement.kind = "define"    -> <<"definition", Current, line[Current]>>
    [] Statement.kind = "unpack"    -> <<"unpacked", Current, line[Current]>>

\* It depends on a name a module had not finished to bind.
Early ==
  \/ Imports /\ Statement.kind = "from" /\ Statement.module \notin loaded
  \/ Statement.kind = "from" /\ <<Statement.module, Statement.orig>> \in unfinished
  \/ Statement.kind \in {"assign", "attribute"}
       /\ <<Current, Statement.orig>> \in unfinished
  \/ Statement.kind = "attribute" /\ \E m \in SourceModules \ loaded :
       values[<<Current, Statement.orig>>] = ModuleObject(m)
  \/ Statement.kind = "attribute" /\ \E m \in SourceModules :
       values[<<Current, Statement.orig>>] = ModuleObject(m) /\ <<m, Symbol>> \in unfinished

Binds(value, by) ==
  LET n == <<Current, Statement.name>> IN
    /\ values' = [values EXCEPT ![n] = value]
    /\ bound' = [bound EXCEPT ![n] = by]
    /\ unfinished' = IF value # Unbound /\ Early THEN unfinished \union {n}
                     ELSE unfinished \ {n}

Met == Statement.guard \in {"always", "met"} \/ (Statement.guard = "typing" /\ checking)

\* A module is executed when it is first imported.
EnterModule ==
  /\ Running /\ ~AtEnd /\ Met /\ Imports /\ ~Started(Statement.module)
  /\ loading' = Append(loading, Statement.module)
  /\ UNCHANGED <<sources, checking, loaded, line, values, bound, unfinished>>

ExecuteStatement ==
  /\ Running /\ ~AtEnd /\ Met /\ (Imports => Started(Statement.module))
  /\ IF Statement.kind = "delete"
     THEN values[<<Current, Statement.name>>] # Unbound /\ Binds(Unbound, line[Current])
     ELSE Value # Unbound /\ Binds(Value, line[Current])
  /\ Advances
  /\ UNCHANGED <<sources, checking, loading, loaded>>

SkipStatement ==
  /\ Running /\ ~AtEnd /\ ~Met
  /\ Advances
  /\ UNCHANGED <<sources, checking, loading, loaded, values, bound, unfinished>>

LeaveModule ==
  /\ Running /\ AtEnd
  /\ loaded' = loaded \union {Current}
  /\ loading' = Front(loading)
  /\ UNCHANGED <<sources, checking, line, values, bound, unfinished>>

\* A statement that raises stops everything.
ImportsNext == LoadEntry \/ EnterModule \/ ExecuteStatement \/ SkipStatement \/ LeaveModule

-----------------------------------------------------------------------------
(* The bindings of a module (module_bindings.py), as a type checker has them. *)

End(m) == Len(sources[m]) + 1
IsImport(s) == s.kind \in {"from", "import"}

\* A defect that TLC must notice: what a condition may bind is overlooked.
Conditional_Never(s) == FALSE

\* Under a condition; but an import under TYPE_CHECKING is accepted.
Conditional(s) == s.guard \in {"met", "unmet"} \/ (s.guard = "typing" /\ ~IsImport(s))

\* The statement before a line that names `n' last, or 0.
LastEvent(m, n, before) ==
  LET is == {i \in 1..(before - 1) : sources[m][i].name = n} IN
    IF is = {} THEN 0 ELSE CHOOSE i \in is : \A j \in is : j <= i

\* uncertain_module_bindings_before
Uncertain(m, n, before) ==
  LET i == LastEvent(m, n, before) IN i # 0 /\ Conditional(sources[m][i])

\* module_bindings_before: an import, or nothing that can be followed.
Binding(m, n, before) ==
  LET i == LastEvent(m, n, before) IN
    IF i = 0 \/ Conditional(sources[m][i]) \/ ~IsImport(sources[m][i]) THEN 0 ELSE i

\* A line of a module that is read, or its end.
Positions == {p \in SourceModules \X Nat : p[2] \in 1..End(p[1])}
EndOf(m) == <<m, End(m)>>

\* Where the imports of a name lead: to a name of a module of the project, or out of
\* it; nowhere if they go round in a circle.
Resolved[q \in Positions \X SourceNames \X SUBSET Names] ==
  LET m == q[1][1]
      name == <<m, q[2]>>
      i == Binding(m, q[2], q[1][2])
      s == sources[m][i]
  IN IF name \in q[3] THEN [at |-> "nowhere"]
     ELSE IF i = 0 \/ s.kind = "import" THEN [at |-> "project", name |-> name]
     ELSE IF s.module = Library THEN [at |-> "library", name |-> s.orig]
     ELSE Resolved[<<EndOf(s.module), s.orig, q[3] \union {name}>>]

-----------------------------------------------------------------------------
(* The names of the symbol and of what exports it (import_origins.py), as the *)
(* interpreter has them.                                                      *)

Nothing == [names |-> {}, modules |-> {}]
Cleared(found, n) == [names |-> found.names \ {n}, modules |-> found.modules \ {n}]
Named(found, n) == [names |-> found.names \union {n}, modules |-> found.modules \ {n}]
Exporting(found, n) == [names |-> found.names \ {n}, modules |-> found.modules \union {n}]

\* One statement after the other.  Unpacking and `del' are overlooked where they are
\* under no condition, and so are the imports under TYPE_CHECKING.
References[q \in Positions \X SUBSET Names] ==
  LET m == q[1][1]
      i == q[1][2]
      s == sources[m][i - 1]
      found == References[<<<<m, i - 1>>, q[2]>>]
      rest == Cleared(found, s.name)
      \* What another module exports, unless the imports go round in a circle.
      IsSymbol(x, n) ==
        IF x = Library THEN n = Symbol
        ELSE <<x, n>> \notin q[2]
             /\ n \in References[<<EndOf(x), q[2] \union {<<x, n>>}>>].names
  IN IF i = 1 THEN Nothing
     ELSE IF s.guard = "typing" /\ IsImport(s) THEN found
     ELSE IF s.guard # "always" THEN rest
     ELSE CASE s.kind = "from" ->
                 IF IsSymbol(s.module, s.orig) THEN Named(found, s.name) ELSE rest
            [] s.kind = "import" ->
                 IF IsSymbol(s.module, Symbol) THEN Exporting(found, s.name) ELSE rest
            [] s.kind = "assign" ->
                 IF s.orig \in found.names THEN Named(found, s.name)
                 ELSE IF s.orig \in found.modules THEN Exporting(found, s.name) ELSE rest
            [] s.kind = "attribute" ->
                 IF s.orig \in found.modules THEN Named(found, s.name) ELSE rest
            [] s.kind = "define" -> rest
            [] OTHER -> found

-----------------------------------------------------------------------------
Unpacked(v) == v[1] = "unpacked"

\* What the first analysis says of a name is what a type checker finds: a name that
\* is not uncertain was bound by the statement the analysis takes, and the imports it
\* follows lead to the very object, unless a module was used before it was finished.
BindingsAreTrue ==
  checking => \A m \in loaded \union ToSet(loading), n \in SourceNames :
    /\ ~Uncertain(m, n, line[m]) => bound[<<m, n>>] = LastEvent(m, n, line[m])
    /\ LET to == Resolved[<<<<m, line[m]>>, n, {}>>] IN
         values[<<m, n>>] # Unbound /\ <<m, n>> \notin unfinished =>
           CASE to.at = "project" -> values[<<m, n>>] = values[to.name]
             [] to.at = "library" -> values[<<m, n>>] = OfLibrary(to.name)
             [] to.at = "nowhere" -> FALSE

\* What the second analysis takes for the symbol of the library, or for a module that
\* exports it, is that when the interpreter gets there, unless it was unpacked or
\* deleted, or a module was used before it was finished.
ReferencesAreTrue ==
  ~checking => \A m \in loaded \union ToSet(loading), n \in SourceNames :
    LET found == References[<<<<m, line[m]>>, {}>>]
        v == values[<<m, n>>]
        Is(w) == w \in {TheSymbol, Unbound} \/ Unpacked(w)
    IN <<m, n>> \notin unfinished =>
         /\ n \in found.names => Is(v)
         /\ n \in found.modules =>
              \/ v \in {Unbound, ModuleObject(Library)} \/ Unpacked(v)
              \/ \E exporting \in loaded :
                    /\ v = ModuleObject(exporting)
                    /\ Is(values[<<exporting, Symbol>>]) \/ <<exporting, Symbol>> \in unfinished
              \/ \E exporting \in ToSet(loading) : v = ModuleObject(exporting)

OriginsAreTrue == BindingsAreTrue /\ ReferencesAreTrue
=============================================================================
