------------------------ MODULE StateMachineDeclaration -----------------------
(***************************************************************************)
(* How arclith-cli checks the state machine a project declares             *)
(* (cli/arclith_cli/state_machine_spec.py), before it generates the        *)
(* transitions of an entity and a test that starts with one of them        *)
(* (state_machine_blueprint.py).  Transitions are in the order of their    *)
(* names, which is any.                                                    *)
(***************************************************************************)
EXTENDS Naturals, SequencesExt

CONSTANTS
  StateNames, InitialState,
  MaxTransitions  \* bound on the transitions of a declaration

DeclarationAssumption ==
  InitialState \in StateNames /\ MaxTransitions \in Nat \ {0}

VARIABLES
  states, transitions,  \* what is declared
  reachable,            \* of the check
  verdict

declarationVars == <<states, transitions, reachable, verdict>>

Transitions == [sources : SUBSET StateNames \ {{}}, target : StateNames]

\* At least two states, the initial one among them, and one transition.
Declares(some, moves) ==
  /\ InitialState \in some /\ some # {InitialState}
  /\ states' = some /\ transitions' = moves

DeclarationInit ==
  /\ states = StateNames
  /\ transitions = <<>>
  /\ reachable = {InitialState} /\ verdict = "unread"

-----------------------------------------------------------------------------
Ends(t) == t.sources \union {t.target}

\* from_dict, up to the search.
ReadDeclaration ==
  /\ verdict = "unread"
  /\ \E some \in SUBSET StateNames, n \in 1..MaxTransitions :
       \E moves \in [1..n -> Transitions] : Declares(some, moves)
  /\ verdict' = IF \A i \in DOMAIN transitions' : Ends(transitions'[i]) \subseteq states'
                THEN "sweep" ELSE "unknown state"
  /\ UNCHANGED reachable

\* One pass over the transitions: what it has reached counts at once.
Reached(from) ==
  FoldLeft(LAMBDA r, t : IF t.sources \intersect r = {} THEN r ELSE r \union {t.target},
           from, transitions)

\* A defect that TLC must notice: one pass is enough.
Again_Never(swept) == FALSE
Again(swept) == swept # reachable

Sweep ==
  /\ verdict = "sweep"
  /\ LET swept == Reached(reachable) IN
       /\ reachable' = swept
       /\ verdict' = IF Again(swept) THEN "sweep"
                     ELSE IF states \subseteq swept THEN "accepted" ELSE "unreachable"
  /\ UNCHANGED <<states, transitions>>

DeclarationNext == ReadDeclaration \/ Sweep

-----------------------------------------------------------------------------
Closed(s) ==
  /\ InitialState \in s
  /\ \A i \in DOMAIN transitions :
       transitions[i].sources \intersect s # {} => transitions[i].target \in s

\* A declaration is accepted exactly if no smaller set of states confines an entity,
\* and the transition with which the generated test starts exists: it is looked up
\* without a default.
DeclarationsAreLive ==
  /\ verdict = "accepted" =>
       /\ \A s \in SUBSET states : Closed(s) => s = states
       /\ \E i \in DOMAIN transitions : InitialState \in transitions[i].sources
  /\ verdict = "unreachable" => \E s \in SUBSET states : Closed(s) /\ s # states
=============================================================================
