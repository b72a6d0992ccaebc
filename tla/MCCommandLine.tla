------------------------- MODULE MCCommandLine ----------------------------
(* Small instances of CommandLine for TLC. *)
EXTENDS CommandLine

CONSTANTS g1, g2

Blueprint(f) == [kind |-> "blueprint", feature |-> f]
NewEntity(f) == [kind |-> "entity", feature |-> f]
Adding(a) == [kind |-> "adapter", adapter |-> a]
Binding(v, u) == [kind |-> "binding", via |-> v, usecase |-> u]

Guide == [kind |-> "guide"]
Replay == [kind |-> "replay"]

Two(a, b) == [g \in {g1, g2} |-> IF g = g1 THEN a ELSE b]

Pairs ==
  {Two(Blueprint("a"), Blueprint("a")), Two(Blueprint("a"), Blueprint("b")),
   Two(NewEntity("a"), Blueprint("a")), Two(NewEntity("a"), NewEntity("b")),
   Two(Binding("http", "x"), Binding("http", "x")),
   Two(Binding("http", "x"), Binding("http", "y")),
   Two(Binding("http", "x"), Binding("mcp", "y")),
   Two(Blueprint("a"), Binding("http", "x")),
   Two(Adding("otel"), Adding("otel")),
   Two(Adding("otel"), Adding("mongodb")),
   Two(Adding("mongodb"), Adding("mariadb")),
   Two(Guide, Replay)}

\* Two statements in the module that is loaded and two in the one it imports, or
\* three and one.
From(m, orig, name) ==
  [kind |-> "from", guard |-> "always", module |-> m, orig |-> orig, name |-> name]
Import(m, name) ==
  [kind |-> "import", guard |-> "always", module |-> m, orig |-> Symbol, name |-> name]
Local(kind, name, orig) ==
  [kind |-> kind, guard |-> "always", module |-> Library, orig |-> orig, name |-> name]
Guarded(some) ==
  {[s EXCEPT !.guard = g] : s \in some, g \in {"typing", "met", "unmet"}}

LocalStatements ==
  {Local("assign", "x", "Field"), Local("assign", "Field", "x"),
   Local("attribute", "x", "Field"), Local("attribute", "Field", "x"),
   Local("define", "Field", "Field"), Local("define", "x", "x"),
   Local("unpack", "Field", "Field"), Local("delete", "Field", "Field")}
EntryStatements ==
  {From(m, orig, name) : m \in {"pydantic", "other"}, orig \in SourceNames,
                         name \in SourceNames}
    \cup {Import("pydantic", "x"), Import("other", "x")} \cup LocalStatements
    \cup Guarded({From("pydantic", "Field", "Field"), Local("define", "Field", "Field")})
OtherStatements ==
  {From("pydantic", "Field", "Field"), From("entry", "x", "Field"), Import("entry", "x"),
   Local("define", "Field", "Field"), Local("attribute", "Field", "x")}
    \cup Guarded({Local("define", "Field", "Field")})
UpTo(some, n) == UNION {[1..i -> some] : i \in 0..n}
Of(entries, others) ==
  {[m \in SourceModules |-> IF m = "entry" THEN s ELSE t] : s \in entries, t \in others}

\* A name that the imported module takes is bound before and again after the import.
RebindingStatements ==
  {Local("define", "x", "x"), Import("other", "Field"), From("pydantic", "Field", "x"),
   From("other", "Field", "Field")}

SmallProjects ==
  Of(UpTo(EntryStatements, 2), UpTo(OtherStatements, 2))
    \cup Of([1..3 -> RebindingStatements], UpTo(OtherStatements, 1))
=============================================================================
