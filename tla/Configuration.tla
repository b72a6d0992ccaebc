---------------------------- MODULE Configuration -----------------------------
(***************************************************************************)
(* What an application starts with (infrastructure/config.py,              *)
(* secret_factory.py, secret_loader.py): the files of config/ merged in    *)
(* order, or the one file that export-config made of them, and over them   *)
(* the secrets that resolvers give.  A tree is a function from its paths   *)
(* to what is there: a mapping, null or a text.                            *)
(***************************************************************************)
EXTENDS Naturals, SequencesExt

CONSTANTS MaxSaves  \* bound

ConfigurationAssumption == MaxSaves \in Nat

VARIABLES
  config,      \* the files of config/, in the order they are merged
  mappings,    \* config/secrets.yaml: which paths are secrets, in order
  chain,       \* config/secrets.yaml: the resolvers
  held,        \* the secrets there are: of the process, and beside each place
  output,      \* what export-config wrote; config/ is the "same" or "edited" since
  start,       \* the last start of the application
  saves

configVars == <<config, mappings, chain, held, output, start, saves>>

\* adapters, its choice of a repository, and the section of that repository.
Root == <<"adapters">>
Choice == <<"adapters", "repository">>
Section == <<"adapters", "mongodb">>
Uri == <<"adapters", "mongodb", "uri">>
Name == <<"adapters", "mongodb", "db_name">>

Empty == << >>  \* the function without paths
Single(path, node) == [p \in {path} |-> node]
At(tree, path) == IF path \in DOMAIN tree THEN tree[path] ELSE "absent"

\* _resolve_key_path: where the content of a file goes, by its place in config/, in
\* the order of rglob; a file elsewhere in config/ is passed over.
KeyPaths == <<Root, Section, Root>>  \* adapters/adapters, adapters/outbound/mongodb, adapters

\* Contents by file, under its key path: a choice, a section or a part of one, a
\* section that is null, a file that is empty or that holds a text.
Mapping(key, children) == children @@ Single(key, "mapping")
Contents(i) ==
  LET v == IF i = 1 THEN "text1" ELSE IF i = 2 THEN "text2" ELSE "text3" IN
  IF KeyPaths[i] = Section
  THEN {Mapping(Section, Empty), Single(Section, v),
        Mapping(Section, Single(Uri, "null") @@ Single(Name, v)),
        Mapping(Section, Single(Uri, v)), Mapping(Section, Single(Name, v))}
  ELSE {Mapping(Root, Empty), Mapping(Root, Single(Choice, "mongodb")),
        Mapping(Root, Single(Section, "null")),
        Mapping(Root, Single(Choice, "mongodb") @@ Single(Section, "mapping")
                        @@ Single(Uri, v) @@ Single(Name, v))}

\* _wrap_at_path.
Wrapped(i, content) ==
  IF KeyPaths[i] = Section THEN content @@ Single(Root, "mapping") ELSE content

Above(p) == {SubSeq(p, 1, n) : n \in 1..(Len(p) - 1)}

\* Defect that TLC must notice: a section is replaced as a whole.
Merge_Shallow(base, override) ==
  [p \in {q \in DOMAIN base : \A a \in Above(q) \ {Root} : a \notin DOMAIN override}
           \cup DOMAIN override |->
     IF p \in DOMAIN override THEN override[p] ELSE base[p]]

\* _deep_merge: mappings are merged, anything else of the later file replaces.
Merge(base, override) ==
  LET kept == {p \in DOMAIN base : \A a \in Above(p) : At(override, a) \in {"mapping", "absent"}}
  IN [p \in kept \cup DOMAIN override |->
        IF p \in DOMAIN override THEN override[p] ELSE base[p]]

\* _build_merged_dict.
Merged ==
  LET file(i) == Wrapped(i, config[i])
  IN Merge(Merge(file(1), file(2)), file(3))

-----------------------------------------------------------------------------
(* Secrets.                                                                 *)

Places == {"project", "elsewhere"}

\* The environment stands for Vault too, which has none when it cannot be reached; the
\* file of the yaml resolver is the one beside the place that is loaded from.
Holds(resolver, path, place) ==
  LET at == IF resolver = "yaml" THEN place ELSE "process"
  IN <<resolver, path, at>> \in held

\* ChainSecretAdapter: the first that has it.
Secret(path, place) ==
  IF \E k \in DOMAIN chain : Holds(chain[k], path, place)
  THEN chain[SelectInSeq(chain, LAMBDA r : Holds(r, path, place))]
  ELSE "absent"

\* _set_nested: what is above becomes a mapping, what was below is gone.
SetNested(tree, path, value) ==
  LET below == {q \in DOMAIN tree : path \in Above(q)}
  IN [p \in (DOMAIN tree \ below) \cup {path} \cup Above(path) |->
        IF p = path THEN value ELSE IF p \in Above(path) THEN "mapping" ELSE tree[p]]

\* resolve_dict_secrets.
Resolve(tree, place) ==
  FoldLeft(LAMBDA r, path :
             IF Secret(path, place) # "absent"
             THEN [r EXCEPT !.tree = SetNested(@, path, Secret(path, place))]
             ELSE IF At(r.tree, path) = "null" THEN r
             ELSE [r EXCEPT !.missing = TRUE],
           [tree |-> tree, missing |-> FALSE], mappings)

\* AdaptersSettings: a selected repository has its section, with a name for its base.
Accepted(tree) ==
  /\ At(tree, Root) \in {"mapping", "absent"}
  /\ At(tree, Section) \in {"mapping", "null", "absent"}
  /\ At(tree, Choice) = "mongodb" => At(tree, Section) = "mapping"
  /\ At(tree, Section) = "mapping" => At(tree, Name) \notin {"absent", "null"}

\* _prepare_config and model_validate.
Loaded(tree, place) ==
  LET r == Resolve(tree, place)
  IN IF r.missing \/ ~Accepted(r.tree) THEN [started |-> FALSE, tree |-> Empty]
     ELSE [started |-> TRUE, tree |-> r.tree]

\* A start with the configuration `of'.
StartOf(of, tree, place) ==
  LET l == Loaded(tree, place)
  IN [config |-> of, place |-> place, started |-> l.started, tree |-> l.tree]
NotStarted == [config |-> "none", place |-> "project", started |-> FALSE, tree |-> Empty]

Directories == Contents(1) \X Contents(2) \X Contents(3)

ConfigurationInit ==
  /\ config \in Directories
  /\ mappings \in {<< >>, <<Uri>>, <<Uri, Name>>}
  /\ chain \in {<<"yaml">>, <<"env", "yaml">>}
  /\ held = {}
  /\ output = [tree |-> Empty, config |-> "none"]
  /\ start = NotStarted
  /\ saves = 0

\* The developer, or who operates the application, gives a secret or edits a file.
ProvideSecrets ==
  /\ mappings # << >> /\ saves < MaxSaves /\ saves' = saves + 1
  /\ \E r \in Range(chain), paths \in SUBSET {Uri, Name}, place \in Places :
       held' = {h \in held : h[1] # r}
                 \cup {<<r, p, IF r = "yaml" THEN place ELSE "process">> : p \in paths}
  /\ UNCHANGED <<config, mappings, chain, output>> /\ start' = NotStarted

SaveFile ==
  /\ saves < MaxSaves /\ saves' = saves + 1
  /\ \E i \in DOMAIN config : \E content \in Contents(i) \ {config[i]} :
       config' = [config EXCEPT ![i] = content]
  /\ output' = [output EXCEPT !.config = IF @ = "none" THEN @ ELSE "edited"] /\ start' = NotStarted
  /\ UNCHANGED <<mappings, chain, held>>

\* export_config_yaml: before the secrets.
ExportConfig ==
  /\ output' = [tree |-> Merged, config |-> "same"]
  /\ UNCHANGED <<config, mappings, chain, held, start, saves>>

\* load_config_dir and load_config_file.
LoadDirectory ==
  /\ start' = StartOf("same", Merged, "project")
  /\ UNCHANGED <<config, mappings, chain, held, output, saves>>
LoadFile ==
  /\ output.config # "none"
  /\ \E place \in Places : start' = StartOf(output.config, output.tree, place)
  /\ UNCHANGED <<config, mappings, chain, held, output, saves>>

ConfigurationNext ==
  ProvideSecrets \/ SaveFile \/ ExportConfig \/ LoadDirectory \/ LoadFile

-----------------------------------------------------------------------------
\* What the files say of a path: the last of them that sets it, or sets something
\* other than a mapping above it.
Says(path) ==
  LET speaks(i) ==
        LET tree == Wrapped(i, config[i])
        IN path \in DOMAIN tree \/ \E a \in Above(path) : At(tree, a) \notin {"absent", "mapping"}
      I == {i \in DOMAIN config : speaks(i)}
      last == CHOOSE i \in I : \A j \in I : j <= i
  IN IF I = {} THEN "absent" ELSE At(Wrapped(last, config[last]), path)

Mapped == Range(mappings)
Related(p) == {m \in Mapped : p = m \/ p \in Above(m) \/ m \in Above(p)}

\* An application that starts has, where a secret is mapped, what the first resolver of
\* the chain holds; no secret is missing; if config/ was not edited since the export, it
\* has everywhere else what the last of the files says, and starts as config/ itself
\* does where the secrets beside both are the same.
SettingsAreAsWritten ==
  start.started =>
    /\ \A m \in Mapped :
         At(start.tree, m) =
           IF Secret(m, start.place) = "absent" THEN "null" ELSE Secret(m, start.place)
    /\ start.config = "same" =>
         /\ \A p \in {Choice, Section, Uri, Name} :
              Related(p) = {} => At(start.tree, p) = Says(p)
         /\ (\A m \in Mapped : Holds("yaml", m, "project") = Holds("yaml", m, start.place)) =>
              start.tree = Loaded(Merged, "project").tree
=============================================================================
