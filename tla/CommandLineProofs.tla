--------------------------- MODULE CommandLineProofs ---------------------------
(***************************************************************************)
(* Proofs about what arclith-cli takes of a project without running it.    *)
(* CommandLineInv has a part for each of the four analyses.  That of       *)
(* declarations is that what a search has reached is within every closed   *)
(* set; that of replays ties a replay to what was run when the recipe was  *)
(* written, secret by secret; that of settings, that what is loaded is     *)
(* what files and secrets say and changes with them; that of imports, that *)
(* the values of names in the interpreter lead back through the imports    *)
(* that made them.  The analyses are loops and recursions of the code: the *)
(* first sections show that their definitions have solutions, and what a   *)
(* fold computes, for the sections that follow.                            *)
(***************************************************************************)
EXTENDS CommandLine, WellFoundedInduction, FiniteSetTheorems, TLAPS

-----------------------------------------------------------------------------
(* Numbers.                                                                  *)

\* A set of numbers that is not empty has a least element.
LEMMA LeastExists ==
  ASSUME NEW S, S \subseteq Nat, S # {}
  PROVE  \E n \in S : \A m \in S : n <= m
<1>1. \E n \in S : \A m \in S : ~(<<m, n>> \in OpToRel(<, Nat))
  BY NatLessThanWellFounded, WFMin
<1>2. PICK n \in S : \A m \in S : ~(<<m, n>> \in OpToRel(<, Nat))
  BY <1>1
<1>3. \A m \in S : ~(m < n)
  BY <1>2 DEF OpToRel
<1> QED
  BY <1>3

\* Induction, over a set of numbers.
LEMMA Induction ==
  ASSUME NEW S, 0 \in S, \A n \in Nat : n \in S => n + 1 \in S
  PROVE  \A n \in Nat : n \in S
<1>1. SUFFICES ASSUME NEW n \in Nat, n \notin S
               PROVE  FALSE
  OBVIOUS
<1>2. PICK least \in Nat \ S : \A m \in Nat \ S : least <= m
  BY <1>1, LeastExists
<1>3. least # 0 /\ least - 1 \in Nat /\ least - 1 \in S
  BY <1>2
<1> QED
  BY <1>2, <1>3

\* The greatest number of a set is the last.
LEMMA MaxIs ==
  ASSUME NEW s, NEW x \in s, s \subseteq Nat, \A y \in s : y <= x
  PROVE  Max(s) = x
<1>1. \A y \in s : x >= y
  OBVIOUS
<1>2. \A z \in s : (\A y \in s : z >= y) => z = x
  OBVIOUS
<1> QED
  BY <1>1, <1>2 DEF Max

\* A set of numbers up to n has a greatest one.
LEMMA MaxExists ==
  ASSUME NEW n \in Nat, NEW s \in SUBSET (1..n), s # {}
  PROVE  Max(s) \in s /\ \A y \in s : y <= Max(s)
<1>1. PICK x \in {m \in Nat : \A y \in s : y <= m} : \A m \in {m \in Nat : \A y \in s : y <= m} : x <= m
  <2>1. n \in {m \in Nat : \A y \in s : y <= m}
    OBVIOUS
  <2> QED
    BY <2>1, LeastExists
<1>2. x \in s
  <2>1. SUFFICES ASSUME x \notin s
                 PROVE  FALSE
    OBVIOUS
  <2>2. \A y \in s : y \in 1..n /\ y <= x /\ y # x
    BY <1>1, <2>1
  <2>3. PICK y \in s : TRUE
    OBVIOUS
  <2>4. x - 1 \in Nat /\ \A z \in s : z <= x - 1
    BY <2>2, <2>3
  <2> QED
    BY <1>1, <2>4
<1>3. s \subseteq Nat
  OBVIOUS
<1> QED
  BY <1>1, <1>2, <1>3, MaxIs

-----------------------------------------------------------------------------
(* Recursion.  A function defined by recursion satisfies its equation if    *)
(* what it is at an argument depends on smaller arguments only.             *)

Founded(P, D) == \A T \in SUBSET D : T # {} => \E x \in T : \A y \in T : <<y, x>> \notin P
Transitive(P, D) ==
  \A x, y, z \in D : <<x, y>> \in P /\ <<y, z>> \in P => <<x, z>> \in P

\* What a body B says at an argument is the same of functions that agree before it.
LooksBack(B, P, D, S) ==
  \A f, g \in [D -> S], x \in D :
    (\A y \in D : <<y, x>> \in P => f[y] = g[y]) => B[f, x] = B[g, x]

Recursive(B, P, D, S) ==
  /\ S # {} /\ B \in [[D -> S] \X D -> S]
  /\ Founded(P, D) /\ Transitive(P, D) /\ LooksBack(B, P, D, S)

Solves(f, B, D, S) == f \in [D -> S] /\ \A x \in D : f[x] = B[f, x]

\* The equation of a recursive function has a solution.
LEMMA Recursion ==
  ASSUME NEW B, NEW P, NEW D, NEW S, Recursive(B, P, D, S)
  PROVE  \E f : Solves(f, B, D, S)
<1> DEFINE UpTo(x) == {y \in D : y = x \/ <<y, x>> \in P}
           Good(f, x) == f \in [D -> S] /\ \A y \in UpTo(x) : f[y] = B[f, y]
<1>1. ASSUME NEW x \in D, NEW u \in D, NEW f, NEW g, Good(f, x), Good(g, u),
             NEW y \in UpTo(x) \cap UpTo(u)
      PROVE  f[y] = g[y]
  <2>1. PICK T : T = {z \in UpTo(x) \cap UpTo(u) : f[z] # g[z]}
    OBVIOUS
  <2>2. CASE T # {}
    <3>1. T \in SUBSET D
      BY <2>1
    <3>2. PICK z \in T : \A w \in T : <<w, z>> \notin P
      BY <2>2, <3>1 DEF Recursive, Founded
    <3>3. \A w \in D : <<w, z>> \in P => w \in UpTo(x) \cap UpTo(u)
      BY <2>1, <3>1 DEF Recursive, Transitive
    <3>4. \A w \in D : <<w, z>> \in P => f[w] = g[w]
      BY <2>1, <3>2, <3>3
    <3>5. B[f, z] = B[g, z]
      BY <1>1, <3>1, <3>4 DEF Recursive, LooksBack
    <3> QED
      BY <1>1, <2>1, <3>5
  <2> QED
    BY <1>1, <2>1, <2>2
<1> DEFINE best == [y \in D |-> CHOOSE g : Good(g, y)]
<1>0. ASSUME NEW x \in D, Good(best[x], x)
      PROVE  best[x] \in [D -> S] /\ best[x][x] = B[best[x], x] /\ best[x][x] \in S
  <2>1. x \in UpTo(x)
    OBVIOUS
  <2> HIDE DEF best, UpTo
  <2> QED
    BY <1>0, <2>1
<1>2. ASSUME NEW x \in D, \A y \in D : <<y, x>> \in P => Good(best[y], y)
      PROVE  \E f : Good(f, x)
  <2>1. PICK r \in S : TRUE
    BY DEF Recursive
  <2>2. PICK f : f = [y \in D |-> IF <<y, x>> \in P THEN best[y][y] ELSE r]
    OBVIOUS
  <2>3. f \in [D -> S]
    <3>1. \A y \in D : <<y, x>> \in P => best[y][y] \in S
      BY <1>0, <1>2
    <3> HIDE DEF best, Good, UpTo
    <3> QED
      BY <2>1, <2>2, <3>1
  <2>4. ASSUME NEW y \in D, <<y, x>> \in P
        PROVE  f[y] = B[f, y]
    <3>1. f[y] = best[y][y] /\ best[y] \in [D -> S] /\ best[y][y] = B[best[y], y]
      <4>1. Good(best[y], y)
        BY <1>2, <2>4
      <4> HIDE DEF best, Good, UpTo
      <4> QED
        BY <1>0, <2>2, <2>4, <4>1
    <3>2. ASSUME NEW z \in D, <<z, y>> \in P
          PROVE  f[z] = best[y][z]
      <4>1. <<z, x>> \in P
        BY <2>4, <3>2 DEF Recursive, Transitive
      <4>2. Good(best[z], z) /\ Good(best[y], y) /\ f[z] = best[z][z]
        BY <1>2, <2>2, <2>4, <4>1
      <4>3. z \in UpTo(z) \cap UpTo(y)
        BY <3>2
      <4> HIDE DEF UpTo, Good, best
      <4> QED
        BY <1>1, <4>2, <4>3
    <3>3. B[f, y] = B[best[y], y]
      BY <2>3, <3>1, <3>2 DEF Recursive, LooksBack
    <3> QED
      BY <3>1, <3>3
  <2>5. <<x, x>> \notin P
    <3>1. {x} \in SUBSET D /\ {x} # {}
      OBVIOUS
    <3> QED
      BY <3>1 DEF Recursive, Founded
  <2>6. PICK h : h = [f EXCEPT ![x] = B[f, x]]
    OBVIOUS
  <2>7. h \in [D -> S] /\ h[x] = B[f, x] /\ \A y \in D : y # x => h[y] = f[y]
    BY <2>3, <2>6 DEF Recursive
  <2>8. ASSUME NEW y \in UpTo(x)
        PROVE  h[y] = B[h, y]
    <3>1. \A z \in D : <<z, y>> \in P => h[z] = f[z]
      <4>1. ASSUME NEW z \in D, <<z, y>> \in P
            PROVE  z # x
        <5>1. <<z, x>> \in P
          BY <2>8, <4>1 DEF Recursive, Transitive
        <5> QED
          BY <2>5, <5>1
      <4> QED
        BY <2>7, <4>1
    <3>2. B[h, y] = B[f, y]
      BY <2>3, <2>7, <3>1 DEF Recursive, LooksBack
    <3> QED
      BY <2>4, <2>5, <2>7, <2>8, <3>2
  <2>9. Good(h, x)
    BY <2>7, <2>8
  <2> QED
    BY <2>9
<1>3. ASSUME NEW x \in D
      PROVE  Good(best[x], x)
  <2> DEFINE T == {y \in D : ~Good(best[y], y)}
  <2>1. SUFFICES ASSUME T # {}
                 PROVE  FALSE
    OBVIOUS
  <2>2. PICK y \in T : \A z \in T : <<z, y>> \notin P
    <3>1. T \in SUBSET D
      OBVIOUS
    <3> HIDE DEF T
    <3> QED
      BY <2>1, <3>1 DEF Recursive, Founded
  <2>3. \A z \in D : <<z, y>> \in P => Good(best[z], z)
    BY <2>2
  <2> HIDE DEF Good
  <2>4. \E f : Good(f, y)
    BY <1>2, <2>2, <2>3
  <2>5. Good(best[y], y)
    BY <2>2, <2>4
  <2> QED
    BY <2>2, <2>5
<1>4. PICK f : f = [x \in D |-> best[x][x]]
  OBVIOUS
<1>5. f \in [D -> S]
  <2>1. \A x \in D : best[x][x] \in S
    BY <1>0, <1>3
  <2> HIDE DEF best, Good, UpTo
  <2> QED
    BY <1>4, <2>1
<1>6. ASSUME NEW x \in D
      PROVE  f[x] = B[f, x]
  <2>1. f[x] = best[x][x] /\ best[x] \in [D -> S] /\ best[x][x] = B[best[x], x]
    <3> HIDE DEF best, Good, UpTo
    <3> QED
      BY <1>0, <1>3, <1>4
  <2>2. ASSUME NEW y \in D, <<y, x>> \in P
        PROVE  f[y] = best[x][y]
    <3>1. Good(best[y], y) /\ Good(best[x], x) /\ f[y] = best[y][y]
      BY <1>3, <1>4
    <3>2. y \in UpTo(y) \cap UpTo(x)
      BY <2>2
    <3> HIDE DEF UpTo, Good, best
    <3> QED
      BY <1>1, <3>1, <3>2
  <2>3. B[f, x] = B[best[x], x]
    BY <1>5, <2>1, <2>2 DEF Recursive, LooksBack
  <2> QED
    BY <2>1, <2>3
<1> QED
  BY <1>5, <1>6 DEF Solves

-----------------------------------------------------------------------------
(* Folds.                                                                    *)

\* What FoldLeft iterates, over the sets of positions of a sequence.
Folds(it, base, n, F) ==
  \A s \in SUBSET (1..n) : it[s] = IF s = {} THEN base ELSE F[it[s \ {Max(s)}], Max(s)]

\* There is what FoldLeft iterates.
LEMMA FoldExists ==
  ASSUME NEW S, NEW base \in S, NEW n \in Nat, NEW F \in [S \X (1..n) -> S]
  PROVE  \E it \in [SUBSET (1..n) -> S] : Folds(it, base, n, F)
<1>1. PICK D : D = SUBSET (1..n)
  OBVIOUS
<1>2. PICK P : P = {p \in D \X D : \E k \in p[2] : p[1] \subseteq 1..(k - 1)}
  OBVIOUS
<1>3. PICK B : B = [p \in [D -> S] \X D |->
                     IF p[2] = {} THEN base ELSE F[p[1][p[2] \ {Max(p[2])}], Max(p[2])]]
  OBVIOUS
<1>4. ASSUME NEW s \in D, s # {}
      PROVE  /\ Max(s) \in 1..n /\ s \ {Max(s)} \in D
             /\ <<s \ {Max(s)}, s>> \in P
  <2>1. Max(s) \in s /\ \A y \in s : y <= Max(s)
    BY <1>1, <1>4, MaxExists
  <2>2. PICK x : x = Max(s)
    OBVIOUS
  <2>3. x \in 1..n /\ s \ {x} \in D
    BY <1>1, <2>1, <2>2
  <2>4. ASSUME NEW y \in s \ {x}
        PROVE  y \in 1..(x - 1)
    <3>1. y \in 1..n /\ y <= x /\ y # x
      BY <1>1, <2>1, <2>2
    <3> QED
      BY <2>3, <3>1
  <2> QED
    BY <1>2, <2>1, <2>2, <2>3, <2>4
<1>5. \A f \in [D -> S], s \in D :
        B[f, s] = IF s = {} THEN base ELSE F[f[s \ {Max(s)}], Max(s)]
  BY <1>3
<1>6. Recursive(B, P, D, S)
  <2>1. B \in [[D -> S] \X D -> S]
    BY <1>3, <1>4
  <2>2. Founded(P, D)
    <3>1. SUFFICES ASSUME NEW T \in SUBSET D, T # {}
                   PROVE  \E x \in T : \A y \in T : <<y, x>> \notin P
      BY DEF Founded
    <3>2. PICK N : N = {m \in Nat : \E s \in T : s \subseteq 1..m}
      OBVIOUS
    <3>3. n \in N
      BY <1>1, <3>1, <3>2
    <3>4. PICK m \in N : \A k \in N : m <= k
      BY <3>2, <3>3, LeastExists
    <3>5. PICK s \in T : s \subseteq 1..m
      BY <3>2
    <3>6. ASSUME NEW t \in T, <<t, s>> \in P
          PROVE  FALSE
      <4>1. PICK k \in s : t \subseteq 1..(k - 1)
        BY <1>2, <3>6
      <4>2. k \in 1..m /\ m \in Nat /\ k - 1 \in Nat /\ k - 1 < m
        BY <3>2, <3>5
      <4> QED
        BY <3>2, <3>4, <3>6, <4>1, <4>2
    <3> QED
      BY <3>6
  <2>3. Transitive(P, D)
    <3>1. SUFFICES ASSUME NEW x \in D, NEW y \in D, NEW z \in D, <<x, y>> \in P, <<y, z>> \in P
                   PROVE  <<x, z>> \in P
      BY DEF Transitive
    <3>2. PICK k \in y, j \in z : x \subseteq 1..(k - 1) /\ y \subseteq 1..(j - 1)
      BY <1>2, <3>1
    <3>3. k \in 1..(j - 1) /\ j \in 1..n
      BY <1>1, <3>2
    <3>4. x \subseteq 1..(j - 1)
      BY <3>2, <3>3
    <3> QED
      BY <1>2, <3>2, <3>4
  <2>4. LooksBack(B, P, D, S)
    <3>1. SUFFICES ASSUME NEW f \in [D -> S], NEW g \in [D -> S], NEW x \in D,
                          \A y \in D : <<y, x>> \in P => f[y] = g[y]
                   PROVE  B[f, x] = B[g, x]
      BY DEF LooksBack
    <3> QED
      BY <1>4, <1>5, <3>1
  <2> QED
    BY <2>1, <2>2, <2>3, <2>4 DEF Recursive
<1>7. PICK it : Solves(it, B, D, S)
  BY <1>6, Recursion
<1>8. it \in [SUBSET (1..n) -> S]
  BY <1>1, <1>7 DEF Solves
<1>9. Folds(it, base, n, F)
  BY <1>1, <1>5, <1>7 DEF Solves, Folds
<1> QED
  BY <1>8, <1>9

\* The set of the first positions of a sequence loses the last one.
LEMMA Firsts ==
  ASSUME NEW n \in Nat, NEW k \in 1..n
  PROVE  1..k \in SUBSET (1..n) /\ 1..k # {} /\ Max(1..k) = k /\ (1..k) \ {k} = 1..(k - 1)
<1>1. k \in 1..k /\ 1..k \subseteq Nat /\ \A y \in 1..k : y <= k
  OBVIOUS
<1>2. Max(1..k) = k
  BY <1>1, MaxIs
<1> QED
  BY <1>2

-----------------------------------------------------------------------------
(* Declarations of state machines (StateMachineDeclaration).                *)

\* What a sweep has reached, transition by transition.
Sweeps(from, g) ==
  /\ g[0] = from /\ g[Len(transitions)] = Declaration!Reached(from)
  /\ \A k \in 1..Len(transitions) :
       g[k] = IF transitions[k].sources \intersect g[k - 1] = {} THEN g[k - 1]
              ELSE g[k - 1] \union {transitions[k].target}

\* A sweep, as a sequence of sets of reached states.
LEMMA SweepsExist ==
  ASSUME transitions \in Seq(Declaration!Transitions), NEW from \in SUBSET StateNames
  PROVE  \E g : Sweeps(from, g)
<1>1. PICK n \in Nat : n = Len(transitions) /\ DOMAIN transitions = 1..n
  OBVIOUS
<1>2. PICK F : F = [p \in (SUBSET StateNames) \X (1..n) |->
                     IF transitions[p[2]].sources \intersect p[1] = {} THEN p[1]
                     ELSE p[1] \union {transitions[p[2]].target}]
  OBVIOUS
<1>3. F \in [(SUBSET StateNames) \X (1..n) -> SUBSET StateNames]
  <2>1. ASSUME NEW k \in 1..n
        PROVE  transitions[k].target \in StateNames
    <3>1. transitions[k] \in Declaration!Transitions
      BY <1>1
    <3> QED
      BY <3>1 DEF Declaration!Transitions
  <2> QED
    BY <1>2, <2>1
<1>4. PICK it \in [SUBSET (1..n) -> SUBSET StateNames] : Folds(it, from, n, F)
  BY <1>3, FoldExists
<1> DEFINE Equation(f) ==
      f = [s \in SUBSET DOMAIN transitions |->
            IF s = {} THEN from
            ELSE IF transitions[Declaration!Max(s)].sources \intersect f[s \ {Declaration!Max(s)}] = {}
                 THEN f[s \ {Declaration!Max(s)}]
                 ELSE f[s \ {Declaration!Max(s)}] \union {transitions[Declaration!Max(s)].target}]
<1>5. \A s : Declaration!Max(s) = Max(s)
  BY DEF Max, Declaration!Max
<1>6. Equation(it)
  <2>1. ASSUME NEW s \in SUBSET (1..n), s # {}
        PROVE  it[s] = IF transitions[Max(s)].sources \intersect it[s \ {Max(s)}] = {}
                       THEN it[s \ {Max(s)}]
                       ELSE it[s \ {Max(s)}] \union {transitions[Max(s)].target}
    <3>1. Max(s) \in 1..n /\ it[s \ {Max(s)}] \in SUBSET StateNames
      BY <2>1, MaxExists
    <3> QED
      BY <1>2, <1>4, <2>1, <3>1 DEF Folds
  <2> QED
    BY <1>1, <1>4, <1>5, <2>1 DEF Folds
<1>7. PICK c : c = CHOOSE f : Equation(f)
  OBVIOUS
<1>8. Declaration!Reached(from) = c[DOMAIN transitions]
  BY <1>7 DEF Declaration!Reached, Declaration!FoldLeft, Declaration!MapThenFoldSet
<1>9. Equation(c)
  BY <1>6, <1>7
<1>10. PICK g : g = [k \in 0..n |-> c[1..k]]
  OBVIOUS
<1>11. ASSUME NEW k \in 1..n
       PROVE  g[k] = IF transitions[k].sources \intersect g[k - 1] = {} THEN g[k - 1]
                     ELSE g[k - 1] \union {transitions[k].target}
  <2>1. 1..k \in SUBSET (1..n) /\ 1..k # {} /\ Max(1..k) = k /\ (1..k) \ {k} = 1..(k - 1)
    BY Firsts
  <2>2. g[k] = c[1..k] /\ g[k - 1] = c[1..(k - 1)]
    BY <1>10
  <2>3. PICK s : s = 1..k
    OBVIOUS
  <2>4. s \in SUBSET DOMAIN transitions /\ s # {} /\ Declaration!Max(s) = k
    BY <1>1, <1>5, <2>1, <2>3
  <2>5. c[s] = IF transitions[k].sources \intersect c[s \ {k}] = {} THEN c[s \ {k}]
               ELSE c[s \ {k}] \union {transitions[k].target}
    BY <1>9, <2>4
  <2> QED
    BY <2>1, <2>2, <2>3, <2>5
<1>12. g[0] = from
  <2>1. 1..0 = {}
    OBVIOUS
  <2> QED
    BY <1>9, <1>10, <2>1
<1>13. g[n] = Declaration!Reached(from)
  BY <1>1, <1>8, <1>10
<1>14. Sweeps(from, g)
  BY <1>1, <1>11, <1>12, <1>13 DEF Sweeps
<1> QED
  BY <1>14

\* A sweep adds what is reachable, and only that; one that adds nothing is the last.
LEMMA SweepFacts ==
  ASSUME transitions \in Seq(Declaration!Transitions), NEW from \in SUBSET StateNames,
         InitialState \in from
  PROVE  /\ from \subseteq Declaration!Reached(from)
         /\ Declaration!Reached(from) = from => Declaration!Closed(from)
         /\ \A s : Declaration!Closed(s) /\ from \subseteq s => Declaration!Reached(from) \subseteq s
<1>1. PICK n \in Nat : n = Len(transitions) /\ DOMAIN transitions = 1..n
  OBVIOUS
<1>2. PICK g : Sweeps(from, g)
  BY SweepsExist
<1>3. /\ g[0] = from /\ g[n] = Declaration!Reached(from)
      /\ \A k \in 1..n :
           g[k] = IF transitions[k].sources \intersect g[k - 1] = {} THEN g[k - 1]
                  ELSE g[k - 1] \union {transitions[k].target}
  BY <1>1, <1>2 DEF Sweeps
<1>4. \A k \in Nat : k <= n => from \subseteq g[k] /\ \A j \in 0..k : g[j] \subseteq g[k]
  <2>1. PICK K : K = {k \in Nat : k <= n => from \subseteq g[k] /\ \A j \in 0..k : g[j] \subseteq g[k]}
    OBVIOUS
  <2>2. 0 \in K
    BY <1>3, <2>1
  <2>3. ASSUME NEW k \in Nat, k \in K
        PROVE  k + 1 \in K
    <3>1. SUFFICES ASSUME k + 1 <= n
                   PROVE  from \subseteq g[k + 1] /\ \A j \in 0..(k + 1) : g[j] \subseteq g[k + 1]
      BY <2>1
    <3>2. from \subseteq g[k] /\ \A j \in 0..k : g[j] \subseteq g[k]
      BY <2>1, <2>3, <3>1
    <3>3. k + 1 \in 1..n /\ (k + 1) - 1 = k
      BY <3>1
    <3>4. g[k] \subseteq g[k + 1]
      BY <1>3, <3>3
    <3> QED
      BY <3>2, <3>4
  <2>4. \A k \in Nat : k \in K
    BY <2>2, <2>3, Induction
  <2> QED
    BY <2>1, <2>4
<1>5. from \subseteq g[n]
  BY <1>4
<1>6. ASSUME g[n] = from
      PROVE  Declaration!Closed(from)
  <2>1. ASSUME NEW i \in 1..n, transitions[i].sources \intersect from # {}
        PROVE  transitions[i].target \in from
    <3>1. i - 1 \in 0..n /\ i - 1 \in Nat /\ i - 1 <= n /\ i \in 0..n
      OBVIOUS
    <3>2. from \subseteq g[i - 1]
      BY <1>4, <3>1
    <3>3. g[i] \subseteq g[n]
      BY <1>4, <3>1
    <3>4. transitions[i].target \in g[i]
      BY <1>3, <2>1, <3>2
    <3> QED
      BY <1>6, <3>3, <3>4
  <2> QED
    BY <1>1, <2>1 DEF Declaration!Closed
<1>7. ASSUME NEW s, Declaration!Closed(s), from \subseteq s
      PROVE  g[n] \subseteq s
  <2>1. PICK K : K = {k \in Nat : k <= n => g[k] \subseteq s}
    OBVIOUS
  <2>2. 0 \in K
    BY <1>3, <1>7, <2>1
  <2>3. ASSUME NEW k \in Nat, k \in K
        PROVE  k + 1 \in K
    <3>1. SUFFICES ASSUME k + 1 <= n
                   PROVE  g[k + 1] \subseteq s
      BY <2>1
    <3>2. g[k] \subseteq s /\ k + 1 \in 1..n /\ (k + 1) - 1 = k
      BY <2>1, <2>3, <3>1
    <3>3. transitions[k + 1].sources \intersect s # {} => transitions[k + 1].target \in s
      BY <1>1, <1>7, <3>2 DEF Declaration!Closed
    <3>4. g[k + 1] = IF transitions[k + 1].sources \intersect g[k] = {} THEN g[k]
                     ELSE g[k] \union {transitions[k + 1].target}
      BY <1>3, <3>2
    <3> QED
      BY <3>2, <3>3, <3>4
  <2>4. n \in K
    BY <2>2, <2>3, Induction
  <2> QED
    BY <2>1, <2>4
<1> QED
  BY <1>3, <1>5, <1>6, <1>7

\* What was reached is in every closed set; a verdict is that of a search that ended.
DeclarationInv ==
  /\ states \in SUBSET StateNames /\ transitions \in Seq(Declaration!Transitions)
  /\ verdict = "unread" => reachable = {InitialState}
  /\ verdict \in {"sweep", "accepted", "unreachable"} =>
       /\ InitialState \in reachable /\ reachable \subseteq states /\ states # {InitialState}
       /\ \A i \in DOMAIN transitions : Declaration!Ends(transitions[i]) \subseteq states
       /\ \A s : Declaration!Closed(s) => reachable \subseteq s
  /\ verdict = "accepted" => states \subseteq reachable
  /\ verdict = "unreachable" => Declaration!Closed(reachable) /\ reachable # states

\* Before a declaration is read, the initial state alone is reached.
LEMMA DeclarationInit == Declaration!DeclarationInit => DeclarationInv
<1>1. InitialState \in StateNames
  BY CommandLineAssumption DEF Declaration!DeclarationAssumption
<1> QED
  BY <1>1 DEF Declaration!DeclarationInit, DeclarationInv

\* A declaration is read.
LEMMA ReadKeeps ==
  ASSUME DeclarationInv, Declaration!ReadDeclaration
  PROVE  DeclarationInv'
<1>1. PICK some \in SUBSET StateNames, n \in 1..MaxTransitions :
        \E moves \in [1..n -> Declaration!Transitions] : Declaration!Declares(some, moves)
  BY DEF Declaration!ReadDeclaration
<1>2. PICK moves \in [1..n -> Declaration!Transitions] : Declaration!Declares(some, moves)
  BY <1>1
<1>3. MaxTransitions \in Nat
  BY CommandLineAssumption DEF Declaration!DeclarationAssumption
<1>4. /\ states' = some /\ transitions' = moves /\ InitialState \in some /\ some # {InitialState}
      /\ reachable' = reachable /\ reachable = {InitialState}
  BY <1>2 DEF Declaration!Declares, Declaration!ReadDeclaration, DeclarationInv
<1>5. transitions' \in Seq(Declaration!Transitions)
  BY <1>2, <1>3, <1>4
<1>6. /\ verdict' \in {"sweep", "unknown state"}
      /\ verdict' = "sweep" =>
           \A i \in DOMAIN transitions' : Declaration!Ends(transitions'[i]) \subseteq states'
  BY DEF Declaration!ReadDeclaration
<1>7. \A s : Declaration!Closed(s)' => reachable' \subseteq s
  BY <1>4 DEF Declaration!Closed
<1> QED
  BY <1>4, <1>5, <1>6, <1>7 DEF DeclarationInv, Declaration!Ends

\* A sweep.
LEMMA SweepKeeps ==
  ASSUME DeclarationInv, Declaration!Sweep
  PROVE  DeclarationInv'
<1>1. PICK swept : swept = Declaration!Reached(reachable)
  OBVIOUS
<1>2. /\ verdict = "sweep" /\ reachable' = swept /\ UNCHANGED <<states, transitions>>
      /\ verdict' = IF swept # reachable THEN "sweep"
                    ELSE IF states \subseteq swept THEN "accepted" ELSE "unreachable"
  BY <1>1 DEF Declaration!Sweep, Declaration!Again
<1>3. /\ states \in SUBSET StateNames /\ transitions \in Seq(Declaration!Transitions)
      /\ InitialState \in reachable /\ reachable \subseteq states /\ states # {InitialState}
      /\ \A i \in DOMAIN transitions : Declaration!Ends(transitions[i]) \subseteq states
      /\ \A s : Declaration!Closed(s) => reachable \subseteq s
  BY <1>2 DEF DeclarationInv
<1>4. /\ reachable \subseteq swept /\ (swept = reachable => Declaration!Closed(reachable))
      /\ \A s : Declaration!Closed(s) /\ reachable \subseteq s => swept \subseteq s
  BY <1>1, <1>3, SweepFacts
<1>5. Declaration!Closed(states)
  BY <1>3 DEF Declaration!Closed, Declaration!Ends
<1>6. \A s : Declaration!Closed(s)' <=> Declaration!Closed(s)
  BY <1>2 DEF Declaration!Closed
<1>7. /\ InitialState \in swept /\ swept \subseteq states
      /\ \A s : Declaration!Closed(s)' => swept \subseteq s
  BY <1>3, <1>4, <1>5, <1>6
<1>8. verdict' = "accepted" => states \subseteq swept
  BY <1>2
<1>9. verdict' = "unreachable" => Declaration!Closed(swept)' /\ swept # states
  BY <1>2, <1>4, <1>6
<1>10. verdict' # "unread"
  BY <1>2
<1> QED
  BY <1>2, <1>3, <1>7, <1>8, <1>9, <1>10 DEF DeclarationInv, Declaration!Ends

\* The invariant says what a verdict means.
LEMMA DeclarationSays == DeclarationInv => Declaration!DeclarationsAreLive
<1>1. SUFFICES ASSUME DeclarationInv
               PROVE  Declaration!DeclarationsAreLive
  OBVIOUS
<1>2. ASSUME verdict = "accepted"
      PROVE  /\ \A s \in SUBSET states : Declaration!Closed(s) => s = states
             /\ \E i \in DOMAIN transitions : InitialState \in transitions[i].sources
  <2>1. /\ \A s : Declaration!Closed(s) => states \subseteq s
        /\ InitialState \in states /\ states # {InitialState}
    BY <1>1, <1>2 DEF DeclarationInv
  <2>2. ASSUME \A i \in DOMAIN transitions : InitialState \notin transitions[i].sources
        PROVE  Declaration!Closed({InitialState})
    BY <2>2 DEF Declaration!Closed
  <2> QED
    BY <2>1, <2>2
<1>3. ASSUME verdict = "unreachable"
      PROVE  \E s \in SUBSET states : Declaration!Closed(s) /\ s # states
  BY <1>1, <1>3 DEF DeclarationInv
<1> QED
  BY <1>2, <1>3 DEF Declaration!DeclarationsAreLive

\* Each step of the check of a declaration keeps that.
LEMMA DeclarationNext ==
  DeclarationInv /\ [Declaration!DeclarationNext]_declarationVars => DeclarationInv'
<1>1. ASSUME DeclarationInv, UNCHANGED declarationVars
      PROVE  DeclarationInv'
  BY <1>1 DEF DeclarationInv, declarationVars, Declaration!Closed, Declaration!Ends
<1> QED
  BY <1>1, ReadKeeps, SweepKeeps DEF Declaration!DeclarationNext

-----------------------------------------------------------------------------
(* Replays of recipes (RecipeReplay).                                        *)

CommandNames == {"new", "unknown", "adapter", "crud", "state-machine"}
Runs ==
  {r \in [command : CommandNames, service : Services \union {Replays!None},
          secret : SecretValues \union {Replays!None},
          path : {Replays!None, "relative", "absolute"}, digest : Nat] :
     /\ r.command \notin Replays!Blueprinted => r.digest = Replays!Unrecorded
     /\ IF r.command = "adapter" THEN r.service \in Services /\ r.path # Replays!None
        ELSE r.secret = Replays!None /\ r.path = Replays!None}
Notes ==
  [id : Nat,
   args : [command : CommandNames, service : Services \union {Replays!None},
           secret : {Replays!None, Replays!Redacted},
           path : {Replays!None, "relative", Replays!ExternalPath}, digest : Nat],
   referred : BOOLEAN]

\* A step of the recipe says what was run, but for a secret and a path.
Shows(s, run) ==
  /\ \E p \in {Replays!Sanitized(run).path, "relative"} :
       /\ s.args = [Replays!Sanitized(run) EXCEPT !.path = p]
       /\ p = "relative" => run.path \in {"relative", "absolute"}
  /\ s.referred => run.command = "adapter"
Tells(s, runs) == s.id \in 1..Len(runs) /\ Shows(s, runs[s.id])

\* What a plan takes, step by step.
Plans(steps, g) ==
  /\ g[0] = << >> /\ g[Len(steps)] = Replays!Planned(steps)
  /\ \A k \in 1..Len(steps) :
       g[k] = IF steps[k].args.command \in Replays!Supported THEN Append(g[k - 1], steps[k])
              ELSE g[k - 1]

\* Such a sequence of plans exists.
LEMMA PlansExist ==
  ASSUME NEW steps \in Seq(Notes)
  PROVE  \E g : Plans(steps, g)
<1>1. PICK n \in Nat : n = Len(steps) /\ DOMAIN steps = 1..n
  OBVIOUS
<1>2. PICK F : F = [p \in Seq(Notes) \X (1..n) |->
                     IF steps[p[2]].args.command \in Replays!Supported
                     THEN Append(p[1], steps[p[2]]) ELSE p[1]]
  OBVIOUS
<1>3. F \in [Seq(Notes) \X (1..n) -> Seq(Notes)] /\ << >> \in Seq(Notes)
  <2>1. \A k \in 1..n : steps[k] \in Notes
    BY <1>1
  <2>2. \A s \in Seq(Notes), k \in 1..n : Append(s, steps[k]) \in Seq(Notes)
    BY <2>1
  <2> QED
    BY <1>2, <2>2
<1>4. PICK it \in [SUBSET (1..n) -> Seq(Notes)] : Folds(it, << >>, n, F)
  BY <1>3, FoldExists
<1> DEFINE Equation(f) ==
      f = [s \in SUBSET DOMAIN steps |->
            IF s = {} THEN << >>
            ELSE IF steps[Replays!Max(s)].args.command \in Replays!Supported
                 THEN Append(f[s \ {Replays!Max(s)}], steps[Replays!Max(s)])
                 ELSE f[s \ {Replays!Max(s)}]]
<1>5. \A s : Replays!Max(s) = Max(s)
  BY DEF Max, Replays!Max
<1>6. Equation(it)
  <2>1. ASSUME NEW s \in SUBSET (1..n), s # {}
        PROVE  it[s] = IF steps[Max(s)].args.command \in Replays!Supported
                       THEN Append(it[s \ {Max(s)}], steps[Max(s)])
                       ELSE it[s \ {Max(s)}]
    <3>1. Max(s) \in 1..n /\ it[s \ {Max(s)}] \in Seq(Notes)
      BY <2>1, MaxExists
    <3> QED
      BY <1>2, <1>4, <2>1, <3>1 DEF Folds
  <2> QED
    BY <1>1, <1>4, <1>5, <2>1 DEF Folds
<1>7. PICK c : c = CHOOSE f : Equation(f)
  OBVIOUS
<1>8. Replays!Planned(steps) = c[DOMAIN steps]
  BY <1>7 DEF Replays!Planned, Replays!FoldLeft, Replays!MapThenFoldSet
<1>9. Equation(c)
  BY <1>6, <1>7
<1>10. PICK g : g = [k \in 0..n |-> c[1..k]]
  OBVIOUS
<1>11. ASSUME NEW k \in 1..n
       PROVE  g[k] = IF steps[k].args.command \in Replays!Supported
                     THEN Append(g[k - 1], steps[k]) ELSE g[k - 1]
  <2>1. 1..k \in SUBSET (1..n) /\ 1..k # {} /\ Max(1..k) = k /\ (1..k) \ {k} = 1..(k - 1)
    BY Firsts
  <2>2. g[k] = c[1..k] /\ g[k - 1] = c[1..(k - 1)]
    BY <1>10
  <2>3. PICK s : s = 1..k
    OBVIOUS
  <2>4. s \in SUBSET DOMAIN steps /\ s # {} /\ Replays!Max(s) = k
    BY <1>1, <1>5, <2>1, <2>3
  <2>5. c[s] = IF steps[k].args.command \in Replays!Supported
               THEN Append(c[s \ {k}], steps[k]) ELSE c[s \ {k}]
    BY <1>9, <2>4
  <2> QED
    BY <2>1, <2>2, <2>3, <2>5
<1>12. g[0] = << >>
  <2>1. 1..0 = {}
    OBVIOUS
  <2> QED
    BY <1>9, <1>10, <2>1
<1>13. g[n] = Replays!Planned(steps)
  BY <1>1, <1>8, <1>10
<1>14. Plans(steps, g)
  BY <1>1, <1>11, <1>12, <1>13 DEF Plans
<1> QED
  BY <1>14

\* A plan has steps of what was selected, in their order.
LEMMA PlanFacts ==
  ASSUME NEW steps \in Seq(Notes)
  PROVE  /\ Replays!Planned(steps) \in Seq(Notes)
         /\ \A i \in DOMAIN Replays!Planned(steps) :
              \E j \in DOMAIN steps : Replays!Planned(steps)[i] = steps[j]
         /\ Replays!Ordered(steps) => Replays!Ordered(Replays!Planned(steps))
<1>1. PICK n \in Nat : n = Len(steps) /\ DOMAIN steps = 1..n
  OBVIOUS
<1>2. PICK g : Plans(steps, g)
  BY PlansExist
<1>3. /\ g[0] = << >> /\ g[n] = Replays!Planned(steps)
      /\ \A k \in 1..n :
           g[k] = IF steps[k].args.command \in Replays!Supported
                  THEN Append(g[k - 1], steps[k]) ELSE g[k - 1]
  BY <1>1, <1>2 DEF Plans
<1> DEFINE Sound(p, k) ==
      /\ p \in Seq(Notes)
      /\ \A i \in DOMAIN p : \E j \in 1..k : p[i] = steps[j]
      /\ Replays!Ordered(steps) => Replays!Ordered(p)
<1>4. \A k \in Nat : k <= n => Sound(g[k], k)
  <2>1. PICK K : K = {k \in Nat : k <= n => Sound(g[k], k)}
    OBVIOUS
  <2>2. 0 \in K
    <3>1. Sound(<< >>, 0)
      BY DEF Replays!Ordered
    <3> QED
      BY <1>3, <2>1, <3>1
  <2>3. ASSUME NEW k \in Nat, k \in K
        PROVE  k + 1 \in K
    <3>1. SUFFICES ASSUME k + 1 <= n
                   PROVE  Sound(g[k + 1], k + 1)
      BY <2>1
    <3>2. PICK p, s : p = g[k] /\ s = steps[k + 1]
      OBVIOUS
    <3>3. Sound(p, k) /\ k + 1 \in 1..n /\ (k + 1) - 1 = k
      BY <2>1, <2>3, <3>1, <3>2
    <3>4. s \in Notes
      BY <1>1, <3>2, <3>3
    <3>5. CASE g[k + 1] = p
      BY <3>3, <3>5
    <3>6. CASE g[k + 1] = Append(p, s)
      <4>1. PICK q, m : q = Append(p, s) /\ m = Len(p)
        OBVIOUS
      <4>2. /\ q \in Seq(Notes) /\ m \in Nat /\ DOMAIN q = 1..(m + 1) /\ DOMAIN p = 1..m
            /\ q[m + 1] = s /\ \A i \in 1..m : q[i] = p[i]
        BY <3>3, <3>4, <4>1
      <4>3. \A i \in DOMAIN q : \E j \in 1..(k + 1) : q[i] = steps[j]
        BY <3>2, <3>3, <4>2
      <4>4. ASSUME Replays!Ordered(steps)
            PROVE  Replays!Ordered(q)
        <5>1. ASSUME NEW i \in 1..m
              PROVE  q[i].id < s.id
          <6>1. PICK j \in 1..k : q[i] = steps[j]
            BY <3>3, <4>2
          <6> QED
            BY <1>1, <3>2, <3>3, <4>4, <6>1 DEF Replays!Ordered
        <5>2. \A i, j \in 1..m : i < j => q[i].id < q[j].id
          BY <3>3, <4>2, <4>4 DEF Replays!Ordered
        <5>3. \A i, j \in 1..(m + 1) : i < j => q[i].id < q[j].id
          BY <4>2, <5>1, <5>2
        <5> QED
          BY <4>2, <5>3 DEF Replays!Ordered
      <4>5. Sound(q, k + 1)
        BY <4>2, <4>3, <4>4
      <4> QED
        BY <3>6, <4>1, <4>5
    <3> QED
      BY <1>3, <3>2, <3>3, <3>5, <3>6
  <2>4. \A k \in Nat : k \in K
    BY <2>2, <2>3, Induction
  <2> QED
    BY <2>1, <2>4
<1>5. Sound(g[n], n)
  BY <1>4
<1> QED
  BY <1>1, <1>3, <1>5

Acts ==
  [command : CommandNames, service : Services \union {Replays!None},
   secret : SecretValues \union {Replays!None, Replays!Redacted},
   path : {Replays!None, "relative", Replays!ExternalPath}, digest : Nat]
Replayed ==
  [pc : {"idle", "prepare", "execute", "done", "failed", "refused"}, steps : Seq(Notes),
   args : Seq(Acts), known : BOOLEAN, env : [Services -> SecretValues \union {Replays!None}],
   done : Seq(Acts), copy : Seq(Notes)]

\* What was run and what is noted of it.
RecipeKept ==
  /\ ran \in Seq(Runs) /\ noted \in Seq(Notes) /\ Len(noted) = Len(ran) /\ release \in Nat
  /\ \A i \in DOMAIN noted : Tells(noted[i], ran)

\* How far a replay is, and with what it goes on.
ReplayKept ==
  LET r == replay IN
  /\ r \in Replayed
  /\ r.pc = "idle" => r = Replays!Idle
  /\ \A i \in DOMAIN r.steps : Tells(r.steps[i], ran)
  /\ r.pc \in {"prepare", "execute", "done", "failed"} => Replays!Ordered(r.steps)
  /\ r.pc \in {"idle", "prepare", "refused"} => r.done = << >> /\ r.copy = << >>
  /\ r.pc = "prepare" => r.steps # << >>
  /\ r.pc \in {"execute", "done", "failed"} =>
       \A i \in DOMAIN r.steps : Replays!Accepts(r.steps[i], r.env)
  /\ Len(r.done) <= Len(r.steps)
  /\ \A i \in DOMAIN r.done : r.done[i] = Replays!Hydrated(r.steps[i], r.env)
  /\ r.pc = "execute" =>
       /\ Len(r.done) < Len(r.steps) /\ r.copy = << >>
       /\ r.args = [i \in DOMAIN r.steps |-> Replays!Hydrated(r.steps[i], r.env)]
  /\ r.copy # << >> => r.copy = r.steps /\ Len(r.done) = Len(r.steps)

ReplayInv == RecipeKept /\ ReplayKept

\* A replay that has not begun is one.
LEMMA IdleIsReplayed ==
  Replays!Idle \in Replayed
  BY DEF Replays!Idle, Replayed

\* Before a replay, whatever is run and noted.
LEMMA IdleKept ==
  ASSUME replay = Replays!Idle
  PROVE  ReplayKept
<1>1. /\ replay.pc = "idle" /\ replay.steps = << >> /\ replay.done = << >>
      /\ replay.copy = << >>
  BY DEF Replays!Idle
<1>2. Len(<< >>) = 0 /\ DOMAIN << >> = {}
  OBVIOUS
<1> QED
  BY <1>1, <1>2, IdleIsReplayed DEF ReplayKept

\* Nothing was run at first.
LEMMA ReplayInit == Replays!ReplayInit => ReplayInv
<1>1. SUFFICES ASSUME Replays!ReplayInit
               PROVE  ReplayInv
  OBVIOUS
<1>2. ran = << >> /\ noted = << >> /\ release = 1 /\ replay = Replays!Idle
  BY <1>1 DEF Replays!ReplayInit
<1>3. RecipeKept
  BY <1>2 DEF RecipeKept
<1> QED
  BY <1>2, <1>3, IdleKept DEF ReplayInv

\* A step is run and noted.
LEMMA NoteKeeps ==
  ASSUME RecipeKept, Replays!NoteStep
  PROVE  RecipeKept'
<1>1. PICK step \in Replays!Runnable :
        /\ ran' = Append(ran, step)
        /\ noted' = Append(noted,
             [id |-> Len(noted) + 1, args |-> Replays!Sanitized(step),
              referred |-> step.command = "adapter"])
  BY DEF Replays!NoteStep
<1>2. release \in Nat /\ release' = release
  BY DEF RecipeKept, Replays!NoteStep
<1>3. step \in Runs
  <2>1. CASE step \in {Replays!Bare("new"), Replays!Bare("unknown")}
    BY <2>1 DEF Replays!Bare, Runs, CommandNames, Replays!None, Replays!Unrecorded,
                Replays!Blueprinted
  <2>2. CASE step \in [command : {"adapter"}, service : Services, secret : SecretValues,
                       path : {"relative", "absolute"}, digest : {Replays!Unrecorded}]
    BY <2>2 DEF Runs, CommandNames, Replays!None, Replays!Unrecorded, Replays!Blueprinted
  <2>3. ASSUME NEW c \in Replays!Blueprinted, NEW d \in {Replays!Unrecorded, Replays!Digest},
               step = [Replays!Bare(c) EXCEPT !.digest = d]
        PROVE  step \in Runs
    BY <1>2, <2>3 DEF Replays!Bare, Runs, CommandNames, Replays!None, Replays!Unrecorded,
                      Replays!Digest, Replays!Blueprinted
  <2> QED
    BY <2>1, <2>2, <2>3 DEF Replays!Runnable
<1>4. PICK note : note = [id |-> Len(noted) + 1, args |-> Replays!Sanitized(step),
                          referred |-> step.command = "adapter"]
  OBVIOUS
<1>5. PICK m \in Nat : m = Len(noted) /\ m = Len(ran)
  BY DEF RecipeKept
<1>6. /\ note \in Notes /\ Shows(note, step)
  <2>1. PICK x : x = Replays!Sanitized(step)
    OBVIOUS
  <2>2. /\ x = [command |-> step.command, service |-> step.service,
                secret |-> IF step.command = "adapter" THEN Replays!Redacted ELSE step.secret,
                path |-> IF step.path = "absolute" THEN Replays!ExternalPath ELSE step.path,
                digest |-> step.digest]
        /\ step.command # "adapter" => step.secret = Replays!None
        /\ step.path \in {Replays!None, "relative", "absolute"}
    BY <1>3, <2>1 DEF Runs, Replays!Sanitized
  <2>3. x \in [command : CommandNames, service : Services \union {Replays!None},
           secret : {Replays!None, Replays!Redacted},
           path : {Replays!None, "relative", Replays!ExternalPath}, digest : Nat]
    BY <1>3, <2>2 DEF Runs
  <2>4. note \in Notes
    BY <1>4, <1>5, <2>1, <2>3 DEF Notes
  <2>5. note.args = [x EXCEPT !.path = x.path]
    BY <1>4, <2>1, <2>2
  <2>6. x.path = "relative" => step.path = "relative"
    BY <2>2 DEF Replays!ExternalPath
  <2>7. note.referred => step.command = "adapter"
    BY <1>4
  <2> QED
    BY <2>1, <2>4, <2>5, <2>6, <2>7 DEF Shows
<1>7. /\ ran' \in Seq(Runs) /\ noted' \in Seq(Notes) /\ Len(ran') = m + 1 /\ Len(noted') = m + 1
      /\ ran'[m + 1] = step /\ noted'[m + 1] = note
      /\ \A i \in 1..m : ran'[i] = ran[i] /\ noted'[i] = noted[i]
      /\ DOMAIN noted' = 1..(m + 1) /\ DOMAIN noted = 1..m
  BY <1>1, <1>3, <1>4, <1>5, <1>6 DEF RecipeKept
<1>8. ASSUME NEW i \in 1..m
      PROVE  Tells(noted'[i], ran')
  <2>1. Tells(noted[i], ran) /\ noted'[i] = noted[i]
    BY <1>7 DEF RecipeKept
  <2>2. noted[i].id \in 1..m
    BY <1>5, <2>1 DEF Tells
  <2> QED
    BY <1>7, <2>1, <2>2 DEF Tells
<1>9. Tells(noted'[m + 1], ran')
  <2>1. note.id = m + 1
    BY <1>4, <1>5
  <2> QED
    BY <1>5, <1>6, <1>7, <2>1 DEF Tells
<1>10. \A i \in DOMAIN noted' : Tells(noted'[i], ran')
  BY <1>5, <1>7, <1>8, <1>9
<1> QED
  BY <1>2, <1>7, <1>10 DEF RecipeKept

\* The developer edits the recipe.
LEMMA CorrectKeeps ==
  ASSUME RecipeKept, Replays!CorrectRecipe
  PROVE  RecipeKept'
<1>1. UNCHANGED <<ran, release>> /\ ran \in Seq(Runs) /\ release \in Nat
  BY DEF Replays!CorrectRecipe, RecipeKept
<1>2. PICK n \in Nat : n = Len(noted) /\ DOMAIN noted = 1..n /\ n = Len(ran)
  BY DEF RecipeKept
<1>3. noted \in [1..n -> Notes] /\ noted \in Seq(Notes) /\ \A i \in 1..n : Tells(noted[i], ran)
  BY <1>2 DEF RecipeKept
<1>4. ASSUME NEW i \in 1..n, noted[i].args.path = Replays!ExternalPath,
             noted' = [noted EXCEPT ![i].args.path = "relative"]
      PROVE  noted' \in [1..n -> Notes] /\ \A j \in 1..n : Tells(noted'[j], ran)
  <2>1. PICK s, t : s = noted[i] /\ t = [s EXCEPT !.args.path = "relative"]
    OBVIOUS
  <2>2. /\ s \in Notes /\ Tells(s, ran) /\ noted' = [noted EXCEPT ![i] = t]
        /\ s.args.path = Replays!ExternalPath
    BY <1>3, <1>4, <2>1
  <2>3. /\ t \in Notes /\ t.id = s.id /\ t.referred = s.referred
        /\ t.args = [s.args EXCEPT !.path = "relative"]
    BY <2>1, <2>2 DEF Notes
  <2>4. PICK run \in Runs : run = ran[s.id] /\ Shows(s, run)
    BY <1>1, <2>2 DEF Tells
  <2>5. PICK x : x = Replays!Sanitized(run)
    OBVIOUS
  <2>6. PICK p \in {x.path, "relative"} : s.args = [x EXCEPT !.path = p]
    BY <2>4, <2>5 DEF Shows
  <2>7. /\ x = [command |-> run.command, service |-> run.service,
                secret |-> IF run.command = "adapter" THEN Replays!Redacted ELSE run.secret,
                path |-> IF run.path = "absolute" THEN Replays!ExternalPath ELSE run.path,
                digest |-> run.digest]
        /\ run.path \in {Replays!None, "relative", "absolute"}
    BY <2>5 DEF Runs, Replays!Sanitized
  <2>8. run.path = "absolute"
    BY <2>2, <2>6, <2>7 DEF Replays!ExternalPath, Replays!None
  <2>9. t.args = [x EXCEPT !.path = "relative"]
    BY <2>3, <2>6, <2>7
  <2>10. Shows(t, run)
    BY <2>3, <2>4, <2>5, <2>8, <2>9 DEF Shows
  <2>11. Tells(t, ran)
    BY <2>2, <2>3, <2>4, <2>10 DEF Tells
  <2> QED
    BY <1>3, <2>2, <2>3, <2>11
<1>5. ASSUME NEW i \in 1..n, noted' = [noted EXCEPT ![i].referred = FALSE]
      PROVE  noted' \in [1..n -> Notes] /\ \A j \in 1..n : Tells(noted'[j], ran)
  <2>1. PICK s, t : s = noted[i] /\ t = [s EXCEPT !.referred = FALSE]
    OBVIOUS
  <2>2. s \in Notes /\ Tells(s, ran) /\ noted' = [noted EXCEPT ![i] = t]
    BY <1>3, <1>5, <2>1
  <2>3. t \in Notes /\ t.id = s.id /\ t.args = s.args /\ ~t.referred
    BY <2>1, <2>2 DEF Notes
  <2>4. Tells(t, ran)
    BY <2>2, <2>3 DEF Tells, Shows
  <2> QED
    BY <1>3, <2>2, <2>3, <2>4
<1>6. ASSUME noted' = Replays!Reverse(noted)
      PROVE  noted' \in [1..n -> Notes] /\ \A j \in 1..n : Tells(noted'[j], ran)
  <2>1. noted' = [i \in 1..n |-> noted[(n - i) + 1]]
    BY <1>2, <1>6 DEF Replays!Reverse
  <2>2. \A i \in 1..n : (n - i) + 1 \in 1..n
    OBVIOUS
  <2> QED
    BY <1>3, <2>1, <2>2
<1>7. noted' \in [1..n -> Notes] /\ \A j \in 1..n : Tells(noted'[j], ran)
  BY <1>2, <1>4, <1>5, <1>6 DEF Replays!CorrectRecipe
<1>8. noted' \in Seq(Notes) /\ Len(noted') = n /\ DOMAIN noted' = 1..n
  BY <1>7
<1> QED
  BY <1>1, <1>2, <1>7, <1>8 DEF RecipeKept

\* A range of steps is selected.
LEMMA SelectKeeps ==
  ASSUME RecipeKept, replay = Replays!Idle, Replays!SelectSteps
  PROVE  ReplayInv'
<1>1. PICK first \in DOMAIN noted, last \in DOMAIN noted, strict \in BOOLEAN, known \in BOOLEAN :
        /\ first <= last
        /\ replay' = [replay EXCEPT
             !.steps = Replays!Planned(SubSeq(noted, first, last)), !.known = known,
             !.pc = IF \/ ~Replays!Ordered(noted)
                       \/ strict /\ Replays!Planned(SubSeq(noted, first, last))
                                      # SubSeq(noted, first, last)
                    THEN "refused"
                    ELSE IF Replays!Planned(SubSeq(noted, first, last)) = << >>
                         THEN "done" ELSE "prepare"]
  BY DEF Replays!SelectSteps
<1>2. PICK n \in Nat : n = Len(noted) /\ DOMAIN noted = 1..n /\ noted \in Seq(Notes)
  BY DEF RecipeKept
<1>3. PICK picked, plan : picked = SubSeq(noted, first, last) /\ plan = Replays!Planned(picked)
  OBVIOUS
<1>4. /\ picked \in Seq(Notes) /\ DOMAIN picked = 1..(last - first + 1)
      /\ first \in 1..n /\ last \in 1..n
      /\ \A i \in 1..(last - first + 1) :
           first + i - 1 \in 1..n /\ picked[i] = noted[first + i - 1]
  BY <1>1, <1>2, <1>3
<1>5. Replays!Ordered(noted) => Replays!Ordered(picked)
  <2>1. ASSUME Replays!Ordered(noted), NEW i \in DOMAIN picked, NEW j \in DOMAIN picked, i < j
        PROVE  picked[i].id < picked[j].id
    <3>1. /\ first + i - 1 \in 1..n /\ first + j - 1 \in 1..n /\ first + i - 1 < first + j - 1
          /\ picked[i] = noted[first + i - 1] /\ picked[j] = noted[first + j - 1]
      BY <1>4, <2>1
    <3> QED
      BY <1>2, <2>1, <3>1 DEF Replays!Ordered
  <2> QED
    BY <2>1 DEF Replays!Ordered
<1>6. /\ plan \in Seq(Notes) /\ (Replays!Ordered(noted) => Replays!Ordered(plan))
      /\ \A i \in DOMAIN plan : \E j \in DOMAIN picked : plan[i] = picked[j]
  BY <1>3, <1>4, <1>5, PlanFacts
<1>7. \A i \in DOMAIN plan : Tells(plan[i], ran)
  BY <1>2, <1>4, <1>6 DEF RecipeKept
<1>8. PICK pc : pc = IF ~Replays!Ordered(noted) \/ (strict /\ plan # picked) THEN "refused"
                     ELSE IF plan = << >> THEN "done" ELSE "prepare"
  OBVIOUS
<1>9. replay' = [replay EXCEPT !.steps = plan, !.known = known, !.pc = pc]
  BY <1>1, <1>3, <1>8
<1>10. /\ replay' \in Replayed /\ replay'.steps = plan /\ replay'.pc = pc
       /\ replay'.done = << >> /\ replay'.copy = << >>
  BY <1>6, <1>8, <1>9, IdleIsReplayed DEF Replayed, Replays!Idle
<1>11. UNCHANGED <<ran, noted, release>>
  BY DEF Replays!SelectSteps
<1>12. RecipeKept'
  BY <1>11 DEF RecipeKept
<1>13. Len(<< >>) = 0 /\ DOMAIN << >> = {} /\ Len(plan) >= 0 /\ (pc = "done" => DOMAIN plan = {})
  BY <1>6, <1>8
<1>14. /\ pc # "idle" /\ pc # "execute" /\ pc # "failed" /\ (pc # "refused" => Replays!Ordered(plan))
       /\ pc = "prepare" => plan # << >>
  BY <1>6, <1>8
<1>15. /\ \A i \in DOMAIN replay'.steps : Tells(replay'.steps[i], ran')
       /\ \A i \in DOMAIN replay'.done : FALSE
       /\ pc = "done" => \A i \in DOMAIN replay'.steps : FALSE
  BY <1>7, <1>10, <1>11, <1>13
<1> QED
  BY <1>10, <1>12, <1>13, <1>14, <1>15 DEF ReplayInv, ReplayKept, Replays!Ordered

\* With its secret, a step that tells what was run is one a command can execute.
LEMMA HydratedActs ==
  ASSUME NEW s \in Notes, ran \in Seq(Runs), Tells(s, ran),
         NEW env \in [Services -> SecretValues \union {Replays!None}]
  PROVE  Replays!Hydrated(s, env) \in Acts
<1>1. PICK run \in Runs : run = ran[s.id] /\ Shows(s, run)
  BY DEF Tells
<1>2. CASE ~s.referred
  BY <1>2 DEF Replays!Hydrated, Notes, Acts
<1>3. CASE s.referred
  <2>1. run.service \in Services
    BY <1>1, <1>3 DEF Shows, Runs
  <2>2. s.args.service = run.service
    BY <1>1 DEF Shows, Runs, Replays!Sanitized
  <2>3. env[s.args.service] \in SecretValues \union {Replays!None}
    BY <2>1, <2>2
  <2>4. PICK e \in SecretValues \union {Replays!None} : e = env[s.args.service]
    BY <2>3
  <2>5. Replays!Hydrated(s, env) = [s.args EXCEPT !.secret = e]
    BY <1>3, <2>4 DEF Replays!Hydrated
  <2> QED
    BY <2>5 DEF Notes, Acts
<1> QED
  BY <1>2, <1>3

\* Every step is prepared before the first one writes.
LEMMA PrepareKeeps ==
  ASSUME ReplayInv, Replays!PrepareSteps
  PROVE  ReplayInv'
<1>1. PICK r : r = replay
  OBVIOUS
<1>2. /\ r \in Replayed /\ r.pc = "prepare" /\ Replays!Ordered(r.steps)
      /\ r.done = << >> /\ r.copy = << >> /\ \A i \in DOMAIN r.steps : Tells(r.steps[i], ran)
      /\ UNCHANGED <<ran, noted, release>> /\ ran \in Seq(Runs)
  BY <1>1 DEF ReplayInv, RecipeKept, ReplayKept, Replays!PrepareSteps
<1>3. RecipeKept'
  BY <1>2 DEF ReplayInv, RecipeKept
<1>4. PICK env \in [Services -> SecretValues \union {Replays!None}] :
        replay' =
          IF \A i \in DOMAIN r.steps : Replays!Accepts(r.steps[i], env)
          THEN [r EXCEPT !.pc = "execute", !.env = env,
                  !.args = [i \in DOMAIN r.steps |-> Replays!Hydrated(r.steps[i], env)]]
          ELSE [r EXCEPT !.pc = "refused"]
  BY <1>1 DEF Replays!PrepareSteps
<1>5. PICK n \in Nat : n = Len(r.steps) /\ DOMAIN r.steps = 1..n /\ r.steps \in Seq(Notes)
  BY <1>2 DEF Replayed
<1>6. Len(<< >>) = 0 /\ DOMAIN << >> = {}
  OBVIOUS
<1>7. CASE replay' = [r EXCEPT !.pc = "refused"]
  <2>1. /\ replay' \in Replayed /\ replay'.pc = "refused" /\ replay'.steps = r.steps
        /\ replay'.done = << >> /\ replay'.copy = << >>
    BY <1>2, <1>7 DEF Replayed
  <2>2. ReplayKept'
    BY <1>2, <1>5, <1>6, <2>1 DEF ReplayKept
  <2> QED
    BY <1>3, <2>2 DEF ReplayInv
<1>8. PICK acts : acts = [i \in DOMAIN r.steps |-> Replays!Hydrated(r.steps[i], env)]
  OBVIOUS
<1>9. acts \in Seq(Acts)
  <2>1. \A i \in 1..n : r.steps[i] \in Notes /\ Tells(r.steps[i], ran)
    BY <1>2, <1>5
  <2>2. \A i \in 1..n : Replays!Hydrated(r.steps[i], env) \in Acts
    BY <1>2, <2>1, HydratedActs
  <2>3. acts \in [1..n -> Acts]
    BY <1>5, <1>8, <2>2
  <2> QED
    BY <2>3
<1>10. CASE /\ \A i \in DOMAIN r.steps : Replays!Accepts(r.steps[i], env)
            /\ replay' = [r EXCEPT !.pc = "execute", !.env = env, !.args = acts]
  <2>1. n > 0
    BY <1>1, <1>2, <1>5 DEF ReplayInv, ReplayKept
  <2>2. PICK q : q = replay'
    OBVIOUS
  <2>3. /\ q \in Replayed /\ q.pc = "execute" /\ q.steps = r.steps
        /\ q.done = << >> /\ q.copy = << >> /\ q.env = env /\ q.args = acts
    BY <1>2, <1>9, <1>10, <2>2 DEF Replayed
  <2>4. ASSUME NEW i \in DOMAIN q.steps
        PROVE  Replays!Accepts(q.steps[i], q.env)'
    <3>1. Replays!Accepts(q.steps[i], q.env)
      BY <1>10, <2>3
    <3> QED
      BY <1>2, <3>1
         DEF Replays!Accepts, Replays!Hydrates, Replays!Current, Replays!Hydrated,
             Replays!Placeholders, Replays!None, Replays!Blueprinted, Replays!Unrecorded,
             Replays!Digest, Replays!Redacted, Replays!ExternalPath
  <2>5. q.args = [i \in DOMAIN q.steps |-> Replays!Hydrated(q.steps[i], q.env)]
    BY <1>8, <2>3
  <2>6. (q.args = [i \in DOMAIN q.steps |-> Replays!Hydrated(q.steps[i], q.env)])'
    BY <2>5 DEF Replays!Hydrated
  <2>7. ReplayKept'
    BY <1>2, <1>5, <1>6, <2>1, <2>2, <2>3, <2>4, <2>6 DEF ReplayKept
  <2> QED
    BY <1>3, <2>7 DEF ReplayInv
<1> QED
  BY <1>4, <1>7, <1>8, <1>10

\* Primes of what a replay looks at, where the release stays.
LEMMA SameRelease ==
  ASSUME UNCHANGED release
  PROVE  \A s, env : /\ Replays!Accepts(s, env)' <=> Replays!Accepts(s, env)
                     /\ Replays!Hydrated(s, env)' = Replays!Hydrated(s, env)
  BY DEF Replays!Accepts, Replays!Hydrates, Replays!Current, Replays!Hydrated,
         Replays!Placeholders, Replays!None, Replays!Blueprinted, Replays!Unrecorded,
         Replays!Digest, Replays!Redacted, Replays!ExternalPath

\* The next step is executed.
LEMMA ExecuteKeeps ==
  ASSUME ReplayInv, Replays!ExecuteStep
  PROVE  ReplayInv'
<1>1. PICK r : r = replay
  OBVIOUS
<1>2. /\ r \in Replayed /\ r.pc = "execute" /\ Replays!Ordered(r.steps)
      /\ \A i \in DOMAIN r.steps : Tells(r.steps[i], ran)
      /\ \A i \in DOMAIN r.steps : Replays!Accepts(r.steps[i], r.env)
      /\ \A i \in DOMAIN r.done : r.done[i] = Replays!Hydrated(r.steps[i], r.env)
      /\ Len(r.done) < Len(r.steps) /\ r.copy = << >>
      /\ r.args = [i \in DOMAIN r.steps |-> Replays!Hydrated(r.steps[i], r.env)]
      /\ UNCHANGED <<ran, noted, release>>
  BY <1>1 DEF ReplayInv, ReplayKept, Replays!ExecuteStep
<1>3. RecipeKept'
  BY <1>2 DEF ReplayInv, RecipeKept
<1>4. PICK m \in Nat, n \in Nat : m = Len(r.done) /\ n = Len(r.steps)
  BY <1>2 DEF Replayed
<1>5. /\ DOMAIN r.steps = 1..n /\ DOMAIN r.done = 1..m /\ m + 1 \in 1..n /\ m < n
      /\ r.done \in Seq(Acts) /\ r.args \in Seq(Acts) /\ DOMAIN r.args = 1..n
      /\ r.steps \in Seq(Notes)
  <2>1. r.done \in Seq(Acts) /\ r.args \in Seq(Acts) /\ r.steps \in Seq(Notes) /\ m < n
    BY <1>2, <1>4 DEF Replayed
  <2>2. DOMAIN r.steps = 1..n /\ DOMAIN r.done = 1..m
    BY <1>4, <2>1
  <2>3. DOMAIN r.args = 1..n
    BY <1>2, <2>2
  <2> QED
    BY <2>1, <2>2, <2>3
<1>6. PICK act, done : act = r.args[m + 1] /\ done = Append(r.done, act)
  OBVIOUS
<1>7. act \in Acts /\ act = Replays!Hydrated(r.steps[m + 1], r.env)
  BY <1>2, <1>5, <1>6
<1>8. /\ done \in Seq(Acts) /\ Len(done) = m + 1 /\ DOMAIN done = 1..(m + 1)
      /\ done[m + 1] = act /\ \A i \in 1..m : done[i] = r.done[i]
  BY <1>4, <1>5, <1>6, <1>7
<1>9. \A i \in 1..(m + 1) : done[i] = Replays!Hydrated(r.steps[i], r.env)
  <2>1. ASSUME NEW i \in 1..m
        PROVE  done[i] = Replays!Hydrated(r.steps[i], r.env)
    BY <1>2, <1>5, <1>8
  <2>2. \A i \in 1..(m + 1) : i \in 1..m \/ i = m + 1
    OBVIOUS
  <2> QED
    BY <1>7, <1>8, <2>1, <2>2
<1>10. PICK pc, copy : /\ pc = IF m + 1 = n THEN "done" ELSE "execute"
                       /\ copy = IF m + 1 = n /\ ~r.known THEN r.steps ELSE << >>
  OBVIOUS
<1>11. replay' = [r EXCEPT !.done = done, !.pc = pc, !.copy = copy]
  BY <1>1, <1>2, <1>4, <1>6, <1>8, <1>10 DEF Replays!ExecuteStep
<1>12. PICK q : q = replay'
  OBVIOUS
<1>13. /\ q \in Replayed /\ q.pc = pc /\ q.steps = r.steps /\ q.done = done /\ q.copy = copy
       /\ q.env = r.env /\ q.args = r.args
  BY <1>2, <1>5, <1>8, <1>10, <1>11, <1>12 DEF Replayed
<1>14. /\ pc \in {"done", "execute"} /\ (pc = "execute" => m + 1 < n /\ copy = << >>)
       /\ copy # << >> => copy = r.steps /\ m + 1 = n
  BY <1>5, <1>10
<1>15. /\ \A i \in DOMAIN q.steps : Replays!Accepts(q.steps[i], q.env)'
       /\ \A i \in DOMAIN q.done : q.done[i] = Replays!Hydrated(q.steps[i], q.env)'
       /\ q.args = [i \in DOMAIN q.steps |-> Replays!Hydrated(q.steps[i], q.env)']
  BY <1>2, <1>8, <1>9, <1>13, SameRelease
<1>16. /\ Len(q.done) = m + 1 /\ Len(q.steps) = n /\ m + 1 <= n
       /\ Replays!Ordered(q.steps) /\ \A i \in DOMAIN q.steps : Tells(q.steps[i], ran')
  <2>1. Len(q.done) = m + 1 /\ Len(q.steps) = n /\ m + 1 <= n
    BY <1>4, <1>5, <1>8, <1>13
  <2>2. ran' = ran /\ Replays!Ordered(q.steps) /\ \A i \in DOMAIN q.steps : Tells(q.steps[i], ran)
    BY <1>2, <1>13
  <2> QED
    BY <2>1, <2>2
<1>17. ReplayKept'
  BY <1>12, <1>13, <1>14, <1>15, <1>16 DEF ReplayKept, Replays!Ordered
<1> QED
  BY <1>3, <1>17 DEF ReplayInv

\* A command raises.
LEMMA FailKeeps ==
  ASSUME ReplayInv, Replays!StepFails
  PROVE  ReplayInv'
<1>1. PICK r : r = replay
  OBVIOUS
<1>2. /\ r \in Replayed /\ r.pc = "execute" /\ Replays!Ordered(r.steps)
      /\ \A i \in DOMAIN r.steps : Tells(r.steps[i], ran)
      /\ \A i \in DOMAIN r.steps : Replays!Accepts(r.steps[i], r.env)
      /\ \A i \in DOMAIN r.done : r.done[i] = Replays!Hydrated(r.steps[i], r.env)
      /\ Len(r.done) <= Len(r.steps) /\ r.copy = << >>
      /\ UNCHANGED <<ran, noted, release>>
  BY <1>1 DEF ReplayInv, ReplayKept, Replays!StepFails
<1>3. RecipeKept'
  BY <1>2 DEF ReplayInv, RecipeKept
<1>4. PICK q : q = replay'
  OBVIOUS
<1>5. /\ q \in Replayed /\ q.pc = "failed" /\ q.steps = r.steps /\ q.done = r.done
      /\ q.copy = << >> /\ q.env = r.env
  BY <1>1, <1>2, <1>4 DEF Replayed, Replays!StepFails
<1>6. /\ \A i \in DOMAIN q.steps : Replays!Accepts(q.steps[i], q.env)'
      /\ \A i \in DOMAIN q.done : q.done[i] = Replays!Hydrated(q.steps[i], q.env)'
  BY <1>2, <1>5, SameRelease
<1>7. ReplayKept'
  BY <1>2, <1>4, <1>5, <1>6 DEF ReplayKept, Replays!Ordered
<1> QED
  BY <1>3, <1>7 DEF ReplayInv

\* Each step of a project, of its recipe and of a replay keeps that.
LEMMA ReplayNext ==
  ReplayInv /\ [Replays!ReplayNext]_replayVars => ReplayInv'
<1>1. SUFFICES ASSUME ReplayInv, [Replays!ReplayNext]_replayVars
               PROVE  ReplayInv'
  OBVIOUS
<1>2. ASSUME RecipeKept', replay = Replays!Idle, replay' = replay
      PROVE  ReplayInv'
  <2>1. /\ replay'.pc = "idle" /\ replay'.steps = << >> /\ replay'.done = << >>
        /\ replay'.copy = << >> /\ replay' \in Replayed /\ replay' = Replays!Idle
    BY <1>2, IdleIsReplayed DEF Replays!Idle
  <2>2. Len(<< >>) = 0 /\ DOMAIN << >> = {}
    OBVIOUS
  <2>3. (Replays!Idle)' = Replays!Idle
    BY DEF Replays!Idle, Replays!None
  <2>4. ReplayKept'
    BY <2>1, <2>2, <2>3 DEF ReplayKept
  <2> QED
    BY <1>2, <2>4 DEF ReplayInv
<1>3. RecipeKept /\ (replay.pc = "idle" => replay = Replays!Idle)
  BY <1>1 DEF ReplayInv, ReplayKept
<1>4. CASE Replays!NoteStep
  BY <1>2, <1>3, <1>4, NoteKeeps DEF Replays!NoteStep
<1>5. CASE Replays!CorrectRecipe
  BY <1>2, <1>3, <1>5, CorrectKeeps DEF Replays!CorrectRecipe
<1>6. CASE Replays!Upgrade
  BY <1>2, <1>3, <1>6 DEF Replays!Upgrade, RecipeKept
<1>7. CASE Replays!SelectSteps
  BY <1>3, <1>7, SelectKeeps DEF Replays!SelectSteps
<1>8. CASE UNCHANGED replayVars
  <2>1. UNCHANGED <<ran, noted, release, replay>>
    BY <1>8 DEF replayVars
  <2>2. PICK r : r = replay /\ r = replay'
    BY <2>1
  <2>3. (Replays!Idle)' = Replays!Idle
    BY DEF Replays!Idle, Replays!None
  <2>4. ReplayKept'
    BY <1>1, <2>1, <2>2, <2>3, SameRelease DEF ReplayInv, ReplayKept, Replays!Ordered
  <2> QED
    BY <1>1, <2>1, <2>4 DEF ReplayInv, RecipeKept
<1> QED
  BY <1>1, <1>4, <1>5, <1>6, <1>7, <1>8, PrepareKeeps, ExecuteKeeps, FailKeeps
     DEF Replays!ReplayNext

\* What a replay does is what was run.
LEMMA ReplaySays == ReplayInv => Replays!ReplaysAsRecorded
<1>1. SUFFICES ASSUME ReplayInv
               PROVE  Replays!ReplaysAsRecorded
  OBVIOUS
<1>2. PICK r : r = replay
  OBVIOUS
<1>3. /\ r \in Replayed /\ ran \in Seq(Runs) /\ Len(r.done) <= Len(r.steps)
      /\ \A i \in DOMAIN r.steps : Tells(r.steps[i], ran)
      /\ \A i \in DOMAIN r.done : r.done[i] = Replays!Hydrated(r.steps[i], r.env)
      /\ r.pc \in {"idle", "prepare", "refused"} => r.done = << >>
      /\ r.pc \in {"prepare", "execute", "done", "failed"} => Replays!Ordered(r.steps)
      /\ r.pc \in {"execute", "done", "failed"} =>
           \A i \in DOMAIN r.steps : Replays!Accepts(r.steps[i], r.env)
      /\ r.copy # << >> => r.copy = r.steps /\ Len(r.done) = Len(r.steps)
  BY <1>1, <1>2 DEF ReplayInv, RecipeKept, ReplayKept
<1>4. PICK m \in Nat, n \in Nat : m = Len(r.done) /\ n = Len(r.steps)
  BY <1>3 DEF Replayed
<1>5. /\ DOMAIN r.done = 1..m /\ DOMAIN r.steps = 1..n /\ m <= n
      /\ r.steps \in [1..n -> Notes] /\ r.done \in Seq(Acts)
  BY <1>3, <1>4 DEF Replayed
<1>6. ASSUME NEW i \in 1..m
      PROVE  LET id == r.steps[i].id IN
             /\ {r.done[i].secret, r.done[i].path} \cap Replays!Placeholders = {}
             /\ ran[id].digest \in {Replays!Unrecorded, Replays!Digest}
             /\ Replays!Answers(id) =>
                  [r.done[i] EXCEPT !.path = Replays!None] = [ran[id] EXCEPT !.path = Replays!None]
             /\ ~Replays!Moved(id) => r.done[i].path = ran[id].path
             /\ i > 1 => r.steps[i - 1].id < id
  <2>1. PICK s, d : s = r.steps[i] /\ d = r.done[i]
    OBVIOUS
  <2>2. i \in 1..n /\ s \in Notes /\ Tells(s, ran) /\ d = Replays!Hydrated(s, r.env)
    BY <1>3, <1>5, <2>1
  <2>3. r.done # << >>
    BY <1>4, <1>5
  <2>4. Replays!Ordered(r.steps) /\ Replays!Accepts(s, r.env)
    BY <1>3, <1>5, <2>1, <2>2, <2>3 DEF Replayed
  <2>5. PICK run \in Runs : run = ran[s.id] /\ Shows(s, run)
    BY <1>3, <2>2 DEF Tells
  <2>6. PICK x : x = Replays!Sanitized(run)
    OBVIOUS
  <2>7. /\ x = [command |-> run.command, service |-> run.service,
                secret |-> IF run.command = "adapter" THEN Replays!Redacted ELSE run.secret,
                path |-> IF run.path = "absolute" THEN Replays!ExternalPath ELSE run.path,
                digest |-> run.digest]
        /\ run.path \in {Replays!None, "relative", "absolute"}
    BY <2>6 DEF Runs, Replays!Sanitized
  <2>8. PICK p \in {x.path, "relative"} :
          s.args = [x EXCEPT !.path = p] /\ (p = "relative" => run.path \in {"relative", "absolute"})
    BY <2>5, <2>6 DEF Shows
  <2>9. /\ s.args = [command |-> run.command, service |-> run.service, secret |-> x.secret,
                     path |-> p, digest |-> run.digest]
        /\ s.referred => run.command = "adapter"
    BY <2>5, <2>7, <2>8 DEF Shows
  <2>10. /\ {d.secret, d.path} \cap Replays!Placeholders = {} /\ Replays!Current(d)
         /\ d = [command |-> run.command, service |-> run.service,
                 secret |-> IF s.referred THEN r.env[run.service] ELSE x.secret,
                 path |-> p, digest |-> run.digest]
    BY <2>2, <2>4, <2>9 DEF Replays!Accepts, Replays!Hydrates, Replays!Hydrated
  <2>11. run.digest \in {Replays!Unrecorded, Replays!Digest}
    BY <2>5, <2>10 DEF Replays!Current, Runs
  <2>12. d.secret # Replays!Redacted
    BY <2>10 DEF Replays!Placeholders
  <2>13. ASSUME Replays!Answers(s.id)
         PROVE  d.secret = run.secret
    <3>1. CASE run.command = "adapter"
      <4>1. s.referred /\ d.secret = r.env[run.service]
        BY <2>7, <2>10, <2>12, <3>1
      <4> QED
        BY <1>2, <2>5, <2>13, <3>1, <4>1 DEF Replays!Answers
    <3>2. CASE run.command # "adapter"
      BY <2>7, <2>9, <2>10, <3>2
    <3> QED
      BY <3>1, <3>2
  <2>14. d.secret = run.secret =>
           [d EXCEPT !.path = Replays!None] = [run EXCEPT !.path = Replays!None]
    <3>1. run = [command |-> run.command, service |-> run.service, secret |-> run.secret,
                 path |-> run.path, digest |-> run.digest]
      BY DEF Runs
    <3> QED
      BY <2>10, <3>1
  <2>15. run.path # "absolute" => d.path = run.path
    BY <2>7, <2>8, <2>10 DEF Replays!None
  <2>16. i > 1 => r.steps[i - 1].id < s.id
    BY <1>5, <2>1, <2>2, <2>4 DEF Replays!Ordered
  <2> QED
    BY <2>1, <2>5, <2>10, <2>11, <2>13, <2>14, <2>15, <2>16 DEF Replays!Moved
<1>7. r.copy # << >> => r.done = [i \in DOMAIN r.copy |-> Replays!Hydrated(r.copy[i], r.env)]
  <2>1. SUFFICES ASSUME r.copy = r.steps, m = n
                 PROVE  r.done = [i \in DOMAIN r.copy |-> Replays!Hydrated(r.copy[i], r.env)]
    BY <1>3, <1>4
  <2>2. r.done = [i \in 1..n |-> r.done[i]]
    BY <1>5, <2>1
  <2>3. \A i \in 1..n : r.done[i] = Replays!Hydrated(r.steps[i], r.env)
    BY <1>3, <1>5, <2>1
  <2> QED
    BY <1>5, <2>1, <2>2, <2>3
<1> QED
  BY <1>2, <1>3, <1>5, <1>6, <1>7 DEF Replays!ReplaysAsRecorded

-----------------------------------------------------------------------------
(* Settings (Configuration).                                                 *)

\* A file says something of a path, or of a path above that is no mapping.
Speaks(data, p) ==
  \/ p \in DOMAIN data
  \/ \E a \in Configurations!Above(p) : Configurations!At(data, a) \notin {"absent", "mapping"}

\* Of what is merged, the later file has the last word.
LEMMA LaterSpeaks ==
  ASSUME NEW base, NEW override, NEW p
  PROVE  Configurations!At(Configurations!Merge(base, override), p) =
           IF Speaks(override, p) THEN Configurations!At(override, p)
           ELSE Configurations!At(base, p)
<1>1. PICK kept : kept = {q \in DOMAIN base : \A a \in Configurations!Above(q) :
                            Configurations!At(override, a) \in {"mapping", "absent"}}
  OBVIOUS
<1>2. PICK merged : merged = [q \in kept \cup DOMAIN override |->
                               IF q \in DOMAIN override THEN override[q] ELSE base[q]]
  OBVIOUS
<1>3. merged = Configurations!Merge(base, override)
  BY <1>1, <1>2 DEF Configurations!Merge
<1>4. p \in kept <=> p \in DOMAIN base /\ ~(\E a \in Configurations!Above(p) :
                       Configurations!At(override, a) \notin {"absent", "mapping"})
  BY <1>1
<1>5. /\ DOMAIN merged = kept \cup DOMAIN override
      /\ p \in DOMAIN override => merged[p] = override[p]
      /\ p \in kept \ DOMAIN override => merged[p] = base[p]
  BY <1>2
<1> QED
  BY <1>3, <1>4, <1>5 DEF Speaks, Configurations!At

\* What the files say, as far as it is merged.
LEMMA MergedSays ==
  ASSUME DOMAIN config = 1..3, NEW p
  PROVE  Configurations!At(Configurations!Merged, p) = Configurations!Says(p)
<1>1. PICK w : w = [i \in 1..3 |-> Configurations!Wrapped(i, config[i])]
  OBVIOUS
<1>2. Configurations!Merged = Configurations!Merge(Configurations!Merge(w[1], w[2]), w[3])
  BY <1>1 DEF Configurations!Merged
<1>3. PICK I : I = {i \in 1..3 : Speaks(w[i], p)}
  OBVIOUS
<1>4. PICK last : last = CHOOSE i \in I : \A j \in I : j <= i
  OBVIOUS
<1>5. Configurations!Says(p) = IF I = {} THEN "absent" ELSE Configurations!At(w[last], p)
  <2>1. I = {i \in DOMAIN config :
              \/ p \in DOMAIN Configurations!Wrapped(i, config[i])
              \/ \E a \in Configurations!Above(p) :
                   Configurations!At(Configurations!Wrapped(i, config[i]), a)
                     \notin {"absent", "mapping"}}
    BY <1>1, <1>3 DEF Speaks
  <2>2. I # {} => last \in I
    <3>1. \A i \in I : i \in 1..3
      BY <1>3
    <3>2. I # {} => \E i \in I : \A j \in I : j <= i
      BY <3>1
    <3> QED
      BY <1>4, <3>2
  <2>3. Configurations!Says(p) =
          IF I = {} THEN "absent"
          ELSE Configurations!At(Configurations!Wrapped(last, config[last]), p)
    BY <1>4, <2>1 DEF Configurations!Says
  <2> QED
    BY <1>1, <1>3, <2>2, <2>3
<1>6. Configurations!At(Configurations!Merged, p) =
        IF 3 \in I THEN Configurations!At(w[3], p)
        ELSE IF 2 \in I THEN Configurations!At(w[2], p) ELSE Configurations!At(w[1], p)
  BY <1>2, <1>3, LaterSpeaks
<1>7. 1 \notin I => Configurations!At(w[1], p) = "absent"
  BY <1>3 DEF Speaks, Configurations!At
<1>8. ASSUME NEW k \in I, \A j \in I : j <= k
      PROVE  last = k
  <2>1. I \subseteq 1..3
    BY <1>3
  <2>2. \A i \in I : (\A j \in I : j <= i) => i = k
    BY <1>8, <2>1
  <2> QED
    BY <1>4, <1>8, <2>2
<1>9. CASE 3 \in I
  BY <1>3, <1>5, <1>6, <1>8, <1>9
<1>10. CASE 3 \notin I /\ 2 \in I
  BY <1>3, <1>5, <1>6, <1>8, <1>10
<1>11. CASE 3 \notin I /\ 2 \notin I /\ 1 \in I
  BY <1>3, <1>5, <1>6, <1>8, <1>11
<1>12. CASE I = {}
  BY <1>5, <1>6, <1>7, <1>12
<1> QED
  BY <1>3, <1>9, <1>10, <1>11, <1>12

\* A secret that is set changes nothing that is not above or below.
LEMMA SetNestedFacts ==
  ASSUME NEW data, NEW path, NEW value, NEW p
  PROVE  /\ Configurations!At(Configurations!SetNested(data, path, value), path) = value
         /\ p # path /\ p \notin Configurations!Above(path) /\ path \notin Configurations!Above(p) =>
              Configurations!At(Configurations!SetNested(data, path, value), p)
                = Configurations!At(data, p)
<1>1. PICK below : below = {q \in DOMAIN data : path \in Configurations!Above(q)}
  OBVIOUS
<1>2. PICK D : D = (DOMAIN data \ below) \cup {path} \cup Configurations!Above(path)
  OBVIOUS
<1>3. PICK set : set = [q \in D |-> IF q = path THEN value
                          ELSE IF q \in Configurations!Above(path) THEN "mapping" ELSE data[q]]
  OBVIOUS
<1>4. set = Configurations!SetNested(data, path, value)
  BY <1>1, <1>2, <1>3 DEF Configurations!SetNested
<1>5. path \in D /\ set[path] = value /\ DOMAIN set = D
  BY <1>2, <1>3
<1>6. ASSUME p # path, p \notin Configurations!Above(path), path \notin Configurations!Above(p)
      PROVE  (p \in D <=> p \in DOMAIN data) /\ (p \in D => set[p] = data[p])
  BY <1>1, <1>2, <1>3, <1>6
<1> QED
  BY <1>4, <1>5, <1>6 DEF Configurations!At

\* One path of secrets.yaml, after those before it.
Given(r, path, place) ==
  IF Configurations!Secret(path, place) # "absent"
  THEN [r EXCEPT !.tree = Configurations!SetNested(@, path, Configurations!Secret(path, place))]
  ELSE IF Configurations!At(r.tree, path) = "null" THEN r
  ELSE [r EXCEPT !.missing = TRUE]

Unsettled(data) == [tree |-> data, missing |-> FALSE]

\* The paths of secrets.yaml are resolved one after the other.
LEMMA ResolvesInOrder ==
  ASSUME NEW data, NEW place, NEW n \in 0..2, DOMAIN mappings = 1..n
  PROVE  Configurations!Resolve(data, place) =
           IF n = 0 THEN Unsettled(data)
           ELSE IF n = 1 THEN Given(Unsettled(data), mappings[1], place)
           ELSE Given(Given(Unsettled(data), mappings[1], place), mappings[2], place)
<1> DEFINE G(r, i) == Given(r, mappings[i], place)
           Equation(f) ==
             f = [s \in SUBSET DOMAIN mappings |->
                   IF s = {} THEN Unsettled(data)
                   ELSE G(f[s \ {Configurations!Max(s)}], Configurations!Max(s))]
<1>1. \A s : Configurations!Max(s) = Max(s)
  BY DEF Max, Configurations!Max
<1>2. PICK it : it = [s \in SUBSET (1..n) |->
                       IF s = {} THEN Unsettled(data)
                       ELSE IF s = {1} THEN G(Unsettled(data), 1)
                       ELSE IF s = {2} THEN G(Unsettled(data), 2)
                       ELSE G(G(Unsettled(data), 1), 2)]
  OBVIOUS
<1> HIDE DEF G
<1>3. Equation(it)
  <2>1. ASSUME NEW s \in SUBSET (1..n), s # {}
        PROVE  it[s] = G(it[s \ {Max(s)}], Max(s))
    <3>0. ASSUME s # {1}, s # {2}
          PROVE  s = {1, 2}
      <4>1. \A x \in s : x = 1 \/ x = 2
        OBVIOUS
      <4>2. 1 \in s /\ 2 \in s
        BY <2>1, <3>0, <4>1
      <4> QED
        BY <4>1, <4>2
    <3>1. s \in {{1}, {2}, {1, 2}} /\ s \in SUBSET (1..n)
      BY <3>0
    <3>2. CASE s = {1}
      <4>1. Max(s) = 1
        BY <3>2, MaxIs
      <4>2. s \ {1} = {} /\ {} \in SUBSET (1..n)
        BY <3>2
      <4> QED
        BY <1>2, <3>1, <3>2, <4>1, <4>2
    <3>3. CASE s = {2}
      <4>1. Max(s) = 2
        BY <3>3, MaxIs
      <4>2. s \ {2} = {} /\ {} \in SUBSET (1..n) /\ {2} # {1}
        BY <3>3
      <4> QED
        BY <1>2, <3>1, <3>3, <4>1, <4>2
    <3>4. CASE s = {1, 2}
      <4>0. 2 \in s /\ s \subseteq Nat /\ \A y \in s : y <= 2
        BY <3>4
      <4>1. Max(s) = 2
        BY <4>0, MaxIs
      <4>2. s \ {2} = {1} /\ {1} \in SUBSET (1..n) /\ s # {1} /\ s # {2} /\ {1} # {}
        BY <3>1, <3>4
      <4> QED
        BY <1>2, <3>1, <3>4, <4>1, <4>2
    <3> QED
      BY <3>1, <3>2, <3>3, <3>4
  <2>2. it[{}] = Unsettled(data)
    BY <1>2
  <2> QED
    BY <1>1, <1>2, <2>1, <2>2
<1>4. PICK c : c = CHOOSE f : Equation(f)
  OBVIOUS
<1>5. Configurations!Resolve(data, place) = c[DOMAIN mappings]
  BY <1>4 DEF Configurations!Resolve, Configurations!FoldLeft, Configurations!MapThenFoldSet,
              Given, Unsettled, G
<1>6. Equation(c)
  BY <1>3, <1>4
<1>7. /\ 1..0 = {} /\ 1..1 = {1} /\ 1..2 = {1, 2}
      /\ Max({1}) = 1 /\ Max({1, 2}) = 2
  <2>1. Max({1}) = 1
    BY MaxIs
  <2>2. Max({1, 2}) = 2
    <3>1. PICK s : s = {1, 2}
      OBVIOUS
    <3>2. 2 \in s /\ s \subseteq Nat /\ \A y \in s : y <= 2
      BY <3>1
    <3> QED
      BY <3>1, <3>2, MaxIs
  <2> QED
    BY <2>1, <2>2
<1>8. \A s \in SUBSET (1..n) : c[s] = IF s = {} THEN Unsettled(data) ELSE G(c[s \ {Max(s)}], Max(s))
  BY <1>1, <1>6
<1>9. CASE n = 0
  BY <1>5, <1>7, <1>8, <1>9
<1>10. CASE n = 1
  <2>1. c[{}] = Unsettled(data) /\ {1} \ {1} = {}
    BY <1>8
  <2>2. c[{1}] = G(Unsettled(data), 1)
    BY <1>7, <1>8, <1>10, <2>1
  <2> QED
    BY <1>5, <1>7, <1>10, <2>2 DEF G
<1>11. CASE n = 2
  <2>1. c[{}] = Unsettled(data) /\ {1} \ {1} = {}
    BY <1>8
  <2>2. c[{1}] = G(Unsettled(data), 1)
    <3>1. {1} \in SUBSET (1..n) /\ {1} # {}
      BY <1>11
    <3> QED
      BY <1>7, <1>8, <2>1, <3>1
  <2>3. c[{1, 2}] = G(G(Unsettled(data), 1), 2)
    <3>1. {1, 2} \in SUBSET (1..n) /\ {1, 2} # {} /\ {1, 2} \ {2} = {1}
      BY <1>11
    <3>2. PICK s : s = {1, 2}
      OBVIOUS
    <3>3. s \in SUBSET (1..n) /\ s # {} /\ Max(s) = 2 /\ s \ {2} = {1}
      BY <1>7, <3>1, <3>2
    <3>4. c[s] = G(c[s \ {2}], 2)
      BY <1>8, <3>3
    <3> QED
      BY <2>2, <3>2, <3>3, <3>4
  <2> QED
    BY <1>5, <1>7, <1>11, <2>3 DEF G
<1> QED
  BY <1>9, <1>10, <1>11

\* The paths secrets.yaml has.
Mappings == {<< >>, <<Configurations!Uri>>, <<Configurations!Uri, Configurations!Name>>}

\* What is mapped, as the code resolves it.
Settled(data, path, place) ==
  Configurations!At(data, path) =
    IF Configurations!Secret(path, place) = "absent" THEN "null"
    ELSE Configurations!Secret(path, place)
Apart(p, path) ==
  p # path /\ p \notin Configurations!Above(path) /\ path \notin Configurations!Above(p)

\* No secret is above another.
LEMMA PathsApart ==
  Apart(Configurations!Uri, Configurations!Name)
<1>1. PICK s : s = <<"adapters", "mongodb", "uri">>
  OBVIOUS
<1>2. PICK t : t = <<"adapters", "mongodb", "db_name">>
  OBVIOUS
<1>3. /\ s \in Seq({"adapters", "mongodb", "uri", "db_name"})
      /\ t \in Seq({"adapters", "mongodb", "uri", "db_name"})
      /\ Len(s) = 3 /\ Len(t) = 3 /\ s # t
  BY <1>1, <1>2
<1>4. \A n \in 1..2 : Len(SubSeq(s, 1, n)) = n /\ Len(SubSeq(t, 1, n)) = n
  BY <1>3
<1>5. \A a \in {SubSeq(s, 1, n) : n \in 1..2} : Len(a) # 3
  BY <1>4
<1>6. \A a \in {SubSeq(t, 1, n) : n \in 1..2} : Len(a) # 3
  BY <1>4
<1>7. Configurations!Above(s) = {SubSeq(s, 1, n) : n \in 1..2}
  BY <1>3 DEF Configurations!Above
<1>8. Configurations!Above(t) = {SubSeq(t, 1, n) : n \in 1..2}
  BY <1>3 DEF Configurations!Above
<1> QED
  BY <1>1, <1>2, <1>3, <1>5, <1>6, <1>7, <1>8 DEF Apart, Configurations!Uri, Configurations!Name

\* What is there once a path of secrets.yaml was resolved.
GivenAs(r, data, missing, path, place, t, b) ==
  /\ b \in BOOLEAN /\ r = [tree |-> t, missing |-> b]
  /\ ~b => ~missing /\ Settled(t, path, place)
  /\ \A p : Apart(p, path) => Configurations!At(t, p) = Configurations!At(data, p)

\* What one path of secrets.yaml changes.
LEMMA GivenFacts ==
  ASSUME NEW data, NEW missing \in BOOLEAN, NEW path, NEW place
  PROVE  \E t, b : GivenAs(Given([tree |-> data, missing |-> missing], path, place),
                           data, missing, path, place, t, b)
<1>1. PICK secret : secret = Configurations!Secret(path, place)
  OBVIOUS
<1>2. PICK set : set = Configurations!SetNested(data, path, secret)
  OBVIOUS
<1>3. Given([tree |-> data, missing |-> missing], path, place) =
        IF secret # "absent" THEN [tree |-> set, missing |-> missing]
        ELSE IF Configurations!At(data, path) = "null" THEN [tree |-> data, missing |-> missing]
        ELSE [tree |-> data, missing |-> TRUE]
  <2>1. PICK r : r = [tree |-> data, missing |-> missing]
    OBVIOUS
  <2>2. r.tree = data /\ set = Configurations!SetNested(r.tree, path, secret)
    BY <1>2, <2>1
  <2>3. [r EXCEPT !.tree = set] = [tree |-> set, missing |-> missing]
    BY <2>1
  <2>4. [r EXCEPT !.missing = TRUE] = [tree |-> data, missing |-> TRUE]
    <3>1. \A m : [r EXCEPT !.missing = m] = [tree |-> data, missing |-> m]
      BY <2>1
    <3>2. PICK m : m = TRUE
      OBVIOUS
    <3> QED
      BY <3>1, <3>2, Zenon
  <2>5. [r EXCEPT !.tree = Configurations!SetNested(@, path, secret)]
          = [tree |-> set, missing |-> missing]
    BY <2>2, <2>3
  <2> QED
    BY <1>1, <2>1, <2>2, <2>4, <2>5 DEF Given
<1>4. \A p : Apart(p, path) => Configurations!At(set, p) = Configurations!At(data, p)
  BY <1>2, SetNestedFacts DEF Apart
<1>5. secret # "absent" => Settled(set, path, place)
  BY <1>1, <1>2, SetNestedFacts DEF Settled
<1>6. secret = "absent" /\ Configurations!At(data, path) = "null" => Settled(data, path, place)
  BY <1>1 DEF Settled
<1>7. CASE secret # "absent"
  <2>1. GivenAs(Given([tree |-> data, missing |-> missing], path, place),
                data, missing, path, place, set, missing)
    BY <1>3, <1>4, <1>5, <1>7 DEF GivenAs
  <2> QED
    BY <2>1
<1>8. CASE secret = "absent" /\ Configurations!At(data, path) = "null"
  <2>1. GivenAs(Given([tree |-> data, missing |-> missing], path, place),
                data, missing, path, place, data, missing)
    BY <1>3, <1>6, <1>8 DEF GivenAs
  <2> QED
    BY <2>1
<1>9. CASE secret = "absent" /\ Configurations!At(data, path) # "null"
  <2>1. GivenAs(Given([tree |-> data, missing |-> missing], path, place),
                data, missing, path, place, data, TRUE)
    BY <1>3, <1>9 DEF GivenAs
  <2> QED
    BY <2>1
<1> QED
  BY <1>7, <1>8, <1>9

\* What is resolved has every secret, and what was there at any other path.
LEMMA ResolvesTo ==
  ASSUME mappings \in Mappings, NEW data, NEW place
  PROVE  /\ ~Configurations!Resolve(data, place).missing =>
              \A m \in Configurations!Mapped : Settled(Configurations!Resolve(data, place).tree, m, place)
         /\ \A p : Configurations!Related(p) = {} =>
              Configurations!At(Configurations!Resolve(data, place).tree, p)
                = Configurations!At(data, p)
<1>1. PICK u, v : u = Configurations!Uri /\ v = Configurations!Name
  OBVIOUS
<1>2. PICK r : r = Configurations!Resolve(data, place)
  OBVIOUS
<1>3. Apart(u, v)
  BY <1>1, PathsApart
<1>4. CASE mappings = << >>
  <2>1. DOMAIN mappings = 1..0
    BY <1>4
  <2>2. r = Unsettled(data)
    BY <1>2, <2>1, ResolvesInOrder
  <2>3. Configurations!Mapped = {}
    BY <2>1 DEF Configurations!Mapped, Configurations!Range
  <2> QED
    BY <1>2, <2>2, <2>3 DEF Unsettled
<1>5. CASE mappings = <<u>>
  <2>1. DOMAIN mappings = 1..1 /\ mappings[1] = u
    BY <1>5
  <2>2. r = Given([tree |-> data, missing |-> FALSE], u, place)
    BY <1>2, <2>1, ResolvesInOrder DEF Unsettled
  <2>3. Configurations!Mapped = {u}
    BY <2>1 DEF Configurations!Mapped, Configurations!Range
  <2>4. \A p : Configurations!Related(p) = {} => Apart(p, u)
    BY <2>3 DEF Configurations!Related, Apart
  <2>5. PICK t, b : GivenAs(r, data, FALSE, u, place, t, b)
    BY <2>2, GivenFacts
  <2> QED
    BY <1>2, <2>3, <2>4, <2>5 DEF GivenAs
<1>6. CASE mappings = <<u, v>>
  <2>1. DOMAIN mappings = 1..2 /\ mappings[1] = u /\ mappings[2] = v
    BY <1>6
  <2>2. r = Given(Given([tree |-> data, missing |-> FALSE], u, place), v, place)
    BY <1>2, <2>1, ResolvesInOrder DEF Unsettled
  <2>3. Configurations!Mapped = {u, v}
    BY <2>1 DEF Configurations!Mapped, Configurations!Range
  <2>4. \A p : Configurations!Related(p) = {} => Apart(p, u) /\ Apart(p, v)
    BY <2>3 DEF Configurations!Related, Apart
  <2>5. PICK q : q = Given([tree |-> data, missing |-> FALSE], u, place)
    OBVIOUS
  <2>6. PICK t, b : GivenAs(q, data, FALSE, u, place, t, b)
    BY <2>5, GivenFacts
  <2>7. PICK w, c : GivenAs(r, t, b, v, place, w, c)
    <3>1. r = Given([tree |-> t, missing |-> b], v, place) /\ b \in BOOLEAN
      BY <2>2, <2>5, <2>6 DEF GivenAs
    <3> QED
      BY <3>1, GivenFacts
  <2>8. ~c => Settled(w, u, place)
    BY <1>3, <2>6, <2>7 DEF Settled, GivenAs
  <2> QED
    BY <1>2, <2>3, <2>4, <2>6, <2>7, <2>8 DEF GivenAs
<1> QED
  BY <1>1, <1>4, <1>5, <1>6 DEF Mappings

\* Where the secrets beside two places are the same, so is what is resolved.
LEMMA SameSecrets ==
  ASSUME mappings \in Mappings, NEW data, NEW place,
         \A m \in Configurations!Mapped :
           Configurations!Holds("yaml", m, "project") = Configurations!Holds("yaml", m, place)
  PROVE  Configurations!Resolve(data, "project") = Configurations!Resolve(data, place)
<1>1. \A m \in Configurations!Mapped : \A r :
        Configurations!Holds(r, m, "project") <=> Configurations!Holds(r, m, place)
  BY DEF Configurations!Holds
<1>2. ASSUME NEW m \in Configurations!Mapped
      PROVE  Configurations!Secret(m, "project") = Configurations!Secret(m, place)
  <2>1. PICK I : I = {i \in 1..Len(chain) : Configurations!Holds(chain[i], m, "project")}
    OBVIOUS
  <2>2. I = {i \in 1..Len(chain) : Configurations!Holds(chain[i], m, place)}
    BY <1>1, <2>1
  <2>3. Configurations!SelectInSeq(chain, LAMBDA r : Configurations!Holds(r, m, "project"))
          = Configurations!SelectInSeq(chain, LAMBDA r : Configurations!Holds(r, m, place))
    BY <2>1, <2>2 DEF Configurations!SelectInSeq
  <2> QED
    BY <1>1, <2>3 DEF Configurations!Secret
<1>3. \A m \in Configurations!Mapped : \A r : Given(r, m, "project") = Given(r, m, place)
  BY <1>2 DEF Given
<1>4. PICK n \in 0..2 : DOMAIN mappings = 1..n
  <2>1. CASE mappings = << >>
    <3>1. DOMAIN mappings = 1..0
      BY <2>1
    <3> QED
      BY <3>1
  <2>2. CASE mappings = <<Configurations!Uri>>
    <3>1. DOMAIN mappings = 1..1
      BY <2>2
    <3> QED
      BY <3>1
  <2>3. CASE mappings = <<Configurations!Uri, Configurations!Name>>
    <3>1. DOMAIN mappings = 1..2
      BY <2>3
    <3> QED
      BY <3>1
  <2> QED
    BY <2>1, <2>2, <2>3 DEF Mappings
<1>5. \A i \in 1..n : mappings[i] \in Configurations!Mapped
  BY <1>4 DEF Configurations!Mapped, Configurations!Range
<1>6. \A p \in {"project", place} : Configurations!Resolve(data, p) =
           IF n = 0 THEN Unsettled(data)
           ELSE IF n = 1 THEN Given(Unsettled(data), mappings[1], p)
           ELSE Given(Given(Unsettled(data), mappings[1], p), mappings[2], p)
  BY <1>4, ResolvesInOrder
<1> QED
  BY <1>3, <1>4, <1>5, <1>6

\* The application starts with what it takes of T.
StartsWith(T) ==
  /\ Configurations!Loaded(T, start.place).started
  /\ start.tree = Configurations!Loaded(T, start.place).tree
  /\ start.config = "same" => T = Configurations!Merged

ConfigurationInv ==
  /\ DOMAIN config = 1..3 /\ mappings \in Mappings
  /\ output = [tree |-> output.tree, config |-> output.config]
  /\ output.config = "same" => output.tree = Configurations!Merged
  /\ start.started => \E T : StartsWith(T)

\* What is loaded depends on the tree and the secrets only.
LEMMA LoadedKept ==
  ASSUME UNCHANGED <<mappings, chain, held>>
  PROVE  \A T, p : Configurations!Loaded(T, p)' = Configurations!Loaded(T, p)
<1>1. ASSUME NEW T, NEW p
      PROVE  Configurations!Resolve(T, p)' = Configurations!Resolve(T, p)
  <2>1. mappings' = mappings /\ chain' = chain /\ held' = held
    OBVIOUS
  <2> QED
    BY <2>1 DEF Configurations!Resolve, Configurations!FoldLeft, Configurations!MapThenFoldSet,
                Configurations!Secret, Configurations!Holds, Configurations!SelectInSeq,
                Configurations!Min, Configurations!Max, Configurations!SetNested,
                Configurations!Above, Configurations!At
<1>2. ASSUME NEW T, NEW p
      PROVE  Configurations!Loaded(T, p)' = Configurations!Loaded(T, p)
  <2>1. Configurations!Resolve(T, p)' = Configurations!Resolve(T, p)
    BY <1>1
  <2> QED
    BY <2>1 DEF Configurations!Loaded
<1> QED
  BY <1>2

\* An application that did not start has no settings.
LEMMA ConfigurationInit ==
  ASSUME Configurations!ConfigurationInit
  PROVE  ConfigurationInv
<1>1. start.started = FALSE
  BY DEF Configurations!ConfigurationInit, Configurations!NotStarted
<1>2. output = [tree |-> Configurations!Empty, config |-> "none"] /\ mappings \in Mappings
  BY DEF Configurations!ConfigurationInit, Mappings
<1>3. DOMAIN config = 1..3
  BY DEF Configurations!ConfigurationInit, Configurations!Directories
<1> QED
  BY <1>1, <1>2, <1>3 DEF ConfigurationInv

\* An application that starts has the settings that files and secrets say.
LEMMA ConfigurationSays ==
  ASSUME ConfigurationInv
  PROVE  Configurations!SettingsAreAsWritten
<1>1. SUFFICES ASSUME start.started
               PROVE  /\ \A m \in Configurations!Mapped : Settled(start.tree, m, start.place)
                      /\ start.config = "same" =>
                           /\ \A p : Configurations!Related(p) = {} =>
                                Configurations!At(start.tree, p) = Configurations!Says(p)
                           /\ (\A m \in Configurations!Mapped :
                                 Configurations!Holds("yaml", m, "project")
                                   = Configurations!Holds("yaml", m, start.place)) =>
                                start.tree = Configurations!Loaded(Configurations!Merged, "project").tree
  BY DEF Configurations!SettingsAreAsWritten, Settled
<1>2. PICK T : StartsWith(T)
  BY <1>1 DEF ConfigurationInv
<1>3. PICK r : r = Configurations!Resolve(T, start.place)
  OBVIOUS
<1>4. ~r.missing /\ start.tree = r.tree
  BY <1>2, <1>3 DEF StartsWith, Configurations!Loaded
<1>5. mappings \in Mappings /\ DOMAIN config = 1..3
  BY DEF ConfigurationInv
<1>6. \A m \in Configurations!Mapped : Settled(start.tree, m, start.place)
  BY <1>3, <1>4, <1>5, ResolvesTo
<1>7. ASSUME start.config = "same"
      PROVE  T = Configurations!Merged
  BY <1>2, <1>7 DEF StartsWith
<1>8. ASSUME start.config = "same", NEW p, Configurations!Related(p) = {}
      PROVE  Configurations!At(start.tree, p) = Configurations!Says(p)
  <2>1. Configurations!At(r.tree, p) = Configurations!At(T, p)
    BY <1>3, <1>5, <1>8, ResolvesTo
  <2>2. Configurations!At(Configurations!Merged, p) = Configurations!Says(p)
    BY <1>5, MergedSays
  <2> QED
    BY <1>4, <1>7, <1>8, <2>1, <2>2
<1>9. ASSUME start.config = "same",
             \A m \in Configurations!Mapped :
               Configurations!Holds("yaml", m, "project")
                 = Configurations!Holds("yaml", m, start.place)
      PROVE  start.tree = Configurations!Loaded(Configurations!Merged, "project").tree
  <2>1. Configurations!Resolve(T, "project") = Configurations!Resolve(T, start.place)
    BY <1>5, <1>9, SameSecrets
  <2>2. Configurations!Loaded(T, "project") = Configurations!Loaded(T, start.place)
    BY <2>1 DEF Configurations!Loaded
  <2> QED
    BY <1>2, <1>7, <1>9, <2>2 DEF StartsWith
<1> QED
  BY <1>6, <1>8, <1>9

\* No step of an application or of its developer changes that.
LEMMA ConfigurationNext ==
  ASSUME ConfigurationInv, [Configurations!ConfigurationNext]_configurationVars
  PROVE  ConfigurationInv'
<1>0. CASE UNCHANGED configurationVars
  <2>1. UNCHANGED <<config, mappings, chain, held, output, start>>
    BY <1>0 DEF configurationVars
  <2>2. Configurations!Merged' = Configurations!Merged
    BY <2>1 DEF Configurations!Merged
  <2>3. \A T : StartsWith(T)' <=> StartsWith(T)
    BY <2>1, <2>2, LoadedKept DEF StartsWith
  <2> QED
    BY <2>1, <2>2, <2>3 DEF ConfigurationInv
<1>1. CASE Configurations!ProvideSecrets
  <2>1. start'.started = FALSE /\ UNCHANGED <<config, mappings, output>>
    BY <1>1 DEF Configurations!ProvideSecrets, Configurations!NotStarted
  <2> QED
    BY <2>1 DEF ConfigurationInv, Configurations!Merged
<1>2. CASE Configurations!SaveFile
  <2>1. start'.started = FALSE /\ UNCHANGED mappings
    BY <1>2 DEF Configurations!SaveFile, Configurations!NotStarted
  <2>2. DOMAIN config' = 1..3
    BY <1>2 DEF Configurations!SaveFile, ConfigurationInv
  <2>3. PICK o : o = output.config
    OBVIOUS
  <2>4. output' = [output EXCEPT !.config = IF o = "none" THEN o ELSE "edited"]
    BY <1>2, <2>3 DEF Configurations!SaveFile
  <2>5. output' = [tree |-> output.tree, config |-> IF o = "none" THEN o ELSE "edited"]
    BY <2>4 DEF ConfigurationInv
  <2>6. output'.config # "same"
    BY <2>5
  <2>7. output' = [tree |-> output'.tree, config |-> output'.config]
    BY <2>5
  <2> QED
    BY <2>1, <2>2, <2>6, <2>7 DEF ConfigurationInv, Mappings
<1>3. CASE Configurations!ExportConfig
  <2>1. /\ output' = [tree |-> Configurations!Merged, config |-> "same"]
        /\ UNCHANGED <<config, mappings, chain, held, start>>
    BY <1>3 DEF Configurations!ExportConfig
  <2>2. Configurations!Merged' = Configurations!Merged
    BY <2>1 DEF Configurations!Merged
  <2>3. \A T : StartsWith(T)' <=> StartsWith(T)
    BY <2>1, <2>2, LoadedKept DEF StartsWith
  <2> QED
    BY <2>1, <2>2, <2>3 DEF ConfigurationInv, Mappings
<1>4. ASSUME NEW of, NEW T, NEW place, start' = Configurations!StartOf(of, T, place),
             UNCHANGED <<config, mappings, chain, held, output>>,
             of = "same" => T = Configurations!Merged
      PROVE  ConfigurationInv'
  <2>1. PICK l : l = Configurations!Loaded(T, place)
    OBVIOUS
  <2>2. start' = [config |-> of, place |-> place, started |-> l.started, tree |-> l.tree]
    BY <1>4, <2>1 DEF Configurations!StartOf
  <2>3. Configurations!Merged' = Configurations!Merged
    BY <1>4 DEF Configurations!Merged
  <2>4. Configurations!Loaded(T, start.place)' = l
    <3>1. start'.place = place
      BY <2>2
    <3> QED
      BY <1>4, <2>1, <3>1, LoadedKept
  <2>5. start'.started => StartsWith(T)'
    BY <1>4, <2>2, <2>3, <2>4 DEF StartsWith
  <2> QED
    BY <1>4, <2>3, <2>5 DEF ConfigurationInv, Mappings
<1>5. CASE Configurations!LoadDirectory
  BY <1>4, <1>5 DEF Configurations!LoadDirectory
<1>6. CASE Configurations!LoadFile
  <2>1. PICK place : start' = Configurations!StartOf(output.config, output.tree, place)
    BY <1>6 DEF Configurations!LoadFile
  <2>2. UNCHANGED <<config, mappings, chain, held, output>>
    BY <1>6 DEF Configurations!LoadFile
  <2>3. output.config = "same" => output.tree = Configurations!Merged
    BY DEF ConfigurationInv
  <2> QED
    BY <1>4, <2>1, <2>2, <2>3
<1> QED
  BY <1>0, <1>1, <1>2, <1>3, <1>4, <1>5, <1>6 DEF Configurations!ConfigurationNext

-----------------------------------------------------------------------------
(* Where names come from (ImportOrigins).                                    *)

ProjectTyped ==
  /\ sources \in [SourceModules -> Seq(Origins!Statements)]
  /\ IsFiniteSet(SourceModules) /\ IsFiniteSet(SourceNames)
  /\ Library \notin SourceModules /\ Symbol \in SourceNames /\ EntryModule \in SourceModules

\* The statements of a module.
LEMMA SourceFacts ==
  ASSUME ProjectTyped, NEW m \in SourceModules
  PROVE  /\ Len(sources[m]) \in Nat /\ Origins!End(m) = Len(sources[m]) + 1
         /\ \A i \in 1..Len(sources[m]) : sources[m][i] \in Origins!Statements
         /\ Origins!EndOf(m) \in Origins!Positions
         /\ Origins!EndOf(m) = <<m, Origins!End(m)>>
<1>1. sources[m] \in Seq(Origins!Statements)
  BY DEF ProjectTyped
<1>2. PICK n \in Nat : n = Len(sources[m]) /\ \A i \in 1..n : sources[m][i] \in Origins!Statements
  BY <1>1
<1>3. Origins!End(m) = n + 1
  BY <1>2 DEF Origins!End
<1> QED
  BY <1>2, <1>3 DEF Origins!Positions, Origins!EndOf

\* The last event of a name, before a line and after it.
LEMMA LastEventFacts ==
  ASSUME ProjectTyped, NEW m \in SourceModules, NEW n, NEW k \in 1..Origins!End(m)
  PROVE  /\ Origins!LastEvent(m, n, k) \in 0..(k - 1)
         /\ k = 1 => Origins!LastEvent(m, n, k) = 0
         /\ k \in 1..Len(sources[m]) =>
              Origins!LastEvent(m, n, k + 1) =
                IF sources[m][k].name = n THEN k ELSE Origins!LastEvent(m, n, k)
<1>1. PICK is : is = {i \in 1..(k - 1) : sources[m][i].name = n}
  OBVIOUS
<1>2. PICK l : l = CHOOSE i \in is : \A j \in is : j <= i
  OBVIOUS
<1>3. Origins!LastEvent(m, n, k) = IF is = {} THEN 0 ELSE l
  BY <1>1, <1>2 DEF Origins!LastEvent
<1>4. k \in Nat /\ k >= 1
  BY SourceFacts
<1>5. is # {} => l \in is
  <2>1. SUFFICES ASSUME is # {}
                 PROVE  \E i \in is : \A j \in is : j <= i
    BY <1>2
  <2>2. k - 1 \in Nat /\ is \in SUBSET (1..(k - 1))
    BY <1>1, <1>4
  <2> QED
    BY <2>1, <2>2, MaxExists
<1>6. Origins!LastEvent(m, n, k) \in 0..(k - 1)
  BY <1>1, <1>3, <1>4, <1>5
<1>7. k = 1 => Origins!LastEvent(m, n, k) = 0
  BY <1>6
<1>8. ASSUME k \in 1..Len(sources[m])
      PROVE  Origins!LastEvent(m, n, k + 1) =
               IF sources[m][k].name = n THEN k ELSE Origins!LastEvent(m, n, k)
  <2>1. PICK js : js = {i \in 1..((k + 1) - 1) : sources[m][i].name = n}
    OBVIOUS
  <2>2. PICK c : c = CHOOSE i \in js : \A j \in js : j <= i
    OBVIOUS
  <2>3. Origins!LastEvent(m, n, k + 1) = IF js = {} THEN 0 ELSE c
    BY <2>1, <2>2 DEF Origins!LastEvent
  <2>4. CASE sources[m][k].name # n
    <3>1. js = is
      BY <1>1, <1>4, <2>1, <2>4
    <3> QED
      BY <1>2, <1>3, <2>2, <2>3, <2>4, <3>1
  <2>5. CASE sources[m][k].name = n
    <3>1. k \in js /\ \A j \in js : j <= k /\ j \in Nat
      BY <1>4, <2>1, <2>5
    <3>2. \A i \in js : (\A j \in js : j <= i) => i = k
      BY <1>4, <3>1
    <3>3. c = k
      BY <2>2, <3>1, <3>2
    <3> QED
      BY <2>3, <2>5, <3>1, <3>3
  <2> QED
    BY <2>4, <2>5
<1> QED
  BY <1>6, <1>7, <1>8

-----------------------------------------------------------------------------
\* A question of where a name comes from, and the answers.
Questions == Origins!Positions \X SourceNames \X SUBSET Origins!Names
Answers ==
  {[at |-> "nowhere"]} \cup [at : {"project"}, name : Origins!Names]
    \cup [at : {"library"}, name : SourceNames]

\* What Resolved says of a question, if f is what it says of others.
Answer(f, q) ==
  LET m == q[1][1]
      name == <<m, q[2]>>
      i == Origins!Binding(m, q[2], q[1][2])
      s == sources[m][i]
  IN IF name \in q[3] THEN [at |-> "nowhere"]
     ELSE IF i = 0 \/ s.kind = "import" THEN [at |-> "project", name |-> name]
     ELSE IF s.module = Library THEN [at |-> "library", name |-> s.orig]
     ELSE f[<<Origins!EndOf(s.module), s.orig, q[3] \cup {name}>>]

\* An answer asks with one more name visited.
LEMMA AnswerFacts ==
  ASSUME ProjectTyped, NEW q \in Questions
  PROVE  LET m == q[1][1]
             name == <<m, q[2]>>
             i == Origins!Binding(m, q[2], q[1][2])
             s == sources[m][i]
         IN /\ m \in SourceModules /\ q[1][2] \in 1..Origins!End(m) /\ name \in Origins!Names
            /\ q[2] \in SourceNames /\ q[3] \in SUBSET Origins!Names
            /\ i # 0 => /\ i \in 1..(q[1][2] - 1) /\ i \in 1..Len(sources[m])
                        /\ s \in Origins!Statements /\ Origins!IsImport(s)
                        /\ s.orig \in SourceNames
                        /\ s.module # Library => s.module \in SourceModules
                        /\ s.module # Library =>
                             <<Origins!EndOf(s.module), s.orig, q[3] \cup {name}>> \in Questions
<1>1. PICK at, n, v : q = <<at, n, v>> /\ at \in Origins!Positions /\ n \in SourceNames
                        /\ v \in SUBSET Origins!Names
  BY DEF Questions
<1>2. PICK m, k : at = <<m, k>> /\ m \in SourceModules /\ k \in 1..Origins!End(m)
  BY <1>1 DEF Origins!Positions
<1>3. PICK i : i = Origins!Binding(m, n, k)
  OBVIOUS
<1>4. Len(sources[m]) \in Nat /\ Origins!End(m) = Len(sources[m]) + 1
  BY <1>2, SourceFacts
<1>5. i # 0 => i = Origins!LastEvent(m, n, k) /\ Origins!IsImport(sources[m][i])
  BY <1>3 DEF Origins!Binding
<1>6. i # 0 => i \in 1..(k - 1) /\ i \in 1..Len(sources[m])
  <2>1. Origins!LastEvent(m, n, k) \in 0..(k - 1)
    BY <1>2, LastEventFacts
  <2> QED
    BY <1>2, <1>4, <1>5, <2>1
<1>7. <<m, n>> \in Origins!Names
  BY <1>1, <1>2 DEF Origins!Names
<1>8. ASSUME i # 0
      PROVE  /\ sources[m][i] \in Origins!Statements /\ sources[m][i].orig \in SourceNames
             /\ sources[m][i].module \in SourceModules \cup {Library}
  <2>1. sources[m][i] \in Origins!Statements
    BY <1>2, <1>6, <1>8, SourceFacts
  <2> QED
    BY <2>1 DEF Origins!Statements
<1>9. ASSUME i # 0, sources[m][i].module # Library
      PROVE  <<Origins!EndOf(sources[m][i].module), sources[m][i].orig, v \cup {<<m, n>>}>> \in Questions
  <2>1. Origins!EndOf(sources[m][i].module) \in Origins!Positions
    BY <1>8, <1>9, SourceFacts
  <2> QED
    BY <1>1, <1>7, <1>8, <1>9, <2>1 DEF Questions
<1>10. q[1][1] = m /\ q[2] = n /\ q[1][2] = k /\ q[3] = v
  BY <1>1, <1>2
<1> QED
  BY <1>1, <1>2, <1>3, <1>5, <1>6, <1>7, <1>8, <1>9, <1>10

\* What was visited, of what there is: it grows until there is nothing left to visit.
Left(v) == Cardinality(Origins!Names \ v)

\* With one more name visited there is less left to visit.
LEMMA LessIsLeft ==
  ASSUME ProjectTyped, NEW v \in SUBSET Origins!Names, NEW w \in SUBSET Origins!Names,
         v \subseteq w, v # w
  PROVE  Left(v) \in Nat /\ Left(w) \in Nat /\ Left(w) < Left(v)
<1>1. PICK A, B : A = Origins!Names \ w /\ B = Origins!Names \ v
  OBVIOUS
<1>2. IsFiniteSet(Origins!Names)
  BY FS_Product DEF ProjectTyped, Origins!Names
<1>3. IsFiniteSet(B) /\ A \subseteq B /\ A # B
  BY <1>1, <1>2, FS_Subset
<1>4. IsFiniteSet(A) /\ Cardinality(A) <= Cardinality(B) /\ (Cardinality(A) = Cardinality(B) => A = B)
  BY <1>3, FS_Subset
<1>5. Cardinality(A) \in Nat /\ Cardinality(B) \in Nat
  BY <1>3, <1>4, FS_CardinalityType
<1> QED
  BY <1>1, <1>3, <1>4, <1>5 DEF Left

\* Left is a number.
LEMMA LeftTyped ==
  ASSUME ProjectTyped, NEW v \in SUBSET Origins!Names
  PROVE  Left(v) \in Nat
<1>1. IsFiniteSet(Origins!Names)
  BY FS_Product DEF ProjectTyped, Origins!Names
<1>2. PICK A : A = Origins!Names \ v
  OBVIOUS
<1>3. IsFiniteSet(A)
  BY <1>1, <1>2, FS_Subset
<1> QED
  BY <1>2, <1>3, FS_CardinalityType DEF Left

\* The equation of Resolved.
LEMMA ResolvedSolves ==
  ASSUME ProjectTyped
  PROVE  \A q \in Questions : Origins!Resolved[q] = Answer(Origins!Resolved, q)
<1>1. PICK D, S : D = Questions /\ S = Answers
  OBVIOUS
<1>2. PICK P : P = {p \in D \X D : p[2][3] \subseteq p[1][3] /\ p[2][3] # p[1][3]}
  OBVIOUS
<1>3. PICK B : B = [p \in [D -> S] \X D |-> Answer(p[1], p[2])]
  OBVIOUS
<1>4. \A f \in [D -> S], q \in D : <<f, q>> \in [D -> S] \X D /\ B[<<f, q>>] = Answer(f, q)
  BY <1>3
<1>5. \A f, q : B[<<f, q>>] = B[f, q]
  OBVIOUS
<1>6. ASSUME NEW f \in [D -> S], NEW q \in D
      PROVE  Answer(f, q) \in S
  <2>1. PICK m, name, i, s :
          m = q[1][1] /\ name = <<m, q[2]>> /\ i = Origins!Binding(m, q[2], q[1][2])
            /\ s = sources[m][i]
    OBVIOUS
  <2>2. Answer(f, q) =
          IF name \in q[3] THEN [at |-> "nowhere"]
          ELSE IF i = 0 \/ s.kind = "import" THEN [at |-> "project", name |-> name]
          ELSE IF s.module = Library THEN [at |-> "library", name |-> s.orig]
          ELSE f[<<Origins!EndOf(s.module), s.orig, q[3] \cup {name}>>]
    BY <2>1 DEF Answer
  <2>3. /\ name \in Origins!Names
        /\ i # 0 => s.orig \in SourceNames
        /\ i # 0 /\ s.module # Library => <<Origins!EndOf(s.module), s.orig, q[3] \cup {name}>> \in D
    BY <1>1, <2>1, AnswerFacts
  <2> QED
    BY <1>1, <2>2, <2>3 DEF Answers
<1>7. B \in [[D -> S] \X D -> S]
  BY <1>3, <1>6
<1>8. \A q \in D : q[3] \in SUBSET Origins!Names
  BY <1>1 DEF Questions
<1>9. Founded(P, D)
  <2>1. SUFFICES ASSUME NEW T \in SUBSET D, T # {}
                 PROVE  \E x \in T : \A y \in T : <<y, x>> \notin P
    BY DEF Founded
  <2>2. PICK N : N = {Left(x[3]) : x \in T}
    OBVIOUS
  <2>3. N \subseteq Nat /\ N # {}
    BY <1>8, <2>1, <2>2, LeftTyped
  <2>4. PICK l \in N : \A k \in N : l <= k
    BY <2>3, LeastExists
  <2>5. PICK x \in T : Left(x[3]) = l
    BY <2>2, <2>4
  <2>6. ASSUME NEW y \in T, <<y, x>> \in P
        PROVE  FALSE
    <3>1. x[3] \subseteq y[3] /\ x[3] # y[3]
      BY <1>2, <2>6
    <3>2. Left(y[3]) \in Nat /\ Left(x[3]) \in Nat /\ Left(y[3]) < Left(x[3])
      BY <1>8, <3>1, LessIsLeft
    <3>3. l <= Left(y[3])
      BY <2>2, <2>4
    <3> QED
      BY <2>5, <3>2, <3>3
  <2> QED
    BY <2>6
<1>10. Transitive(P, D)
  <2>1. SUFFICES ASSUME NEW x \in D, NEW y \in D, NEW z \in D, <<x, y>> \in P, <<y, z>> \in P
                 PROVE  <<x, z>> \in P
    BY DEF Transitive
  <2>2. y[3] \subseteq x[3] /\ y[3] # x[3] /\ z[3] \subseteq y[3] /\ z[3] # y[3]
    BY <1>2, <2>1
  <2> QED
    BY <1>2, <2>2
<1>11. LooksBack(B, P, D, S)
  <2>1. SUFFICES ASSUME NEW f \in [D -> S], NEW g \in [D -> S], NEW q \in D,
                        \A y \in D : <<y, q>> \in P => f[y] = g[y]
                 PROVE  B[f, q] = B[g, q]
    BY Zenon DEF LooksBack
  <2>2. PICK m, name, i, s :
          m = q[1][1] /\ name = <<m, q[2]>> /\ i = Origins!Binding(m, q[2], q[1][2])
            /\ s = sources[m][i]
    OBVIOUS
  <2>3. PICK y : y = <<Origins!EndOf(s.module), s.orig, q[3] \cup {name}>>
    OBVIOUS
  <2>4. name \notin q[3] /\ i # 0 /\ s.module # Library => y \in D /\ <<y, q>> \in P
    <3>1. i # 0 /\ s.module # Library => y \in D
      BY <1>1, <2>2, <2>3, AnswerFacts
    <3>2. name \notin q[3] => q[3] \subseteq y[3] /\ q[3] # y[3]
      BY <2>3
    <3> QED
      BY <1>2, <3>1, <3>2
  <2>5. name \notin q[3] /\ i # 0 /\ s.module # Library => f[y] = g[y]
    BY <2>1, <2>4
  <2>6. \A h \in {f, g} :
          Answer(h, q) =
            IF name \in q[3] THEN [at |-> "nowhere"]
            ELSE IF i = 0 \/ s.kind = "import" THEN [at |-> "project", name |-> name]
            ELSE IF s.module = Library THEN [at |-> "library", name |-> s.orig]
            ELSE h[y]
    BY <2>2, <2>3 DEF Answer
  <2>7. Answer(f, q) = Answer(g, q)
    BY <2>5, <2>6
  <2>8. B[<<f, q>>] = Answer(f, q) /\ B[<<g, q>>] = Answer(g, q)
    BY <1>4
  <2> QED
    BY <1>5, <2>7, <2>8, Zenon
<1>12. S # {}
  BY <1>1 DEF Answers
<1>13. PICK f : Solves(f, B, D, S)
  BY <1>7, <1>9, <1>10, <1>11, <1>12, Recursion DEF Recursive
<1>14. f \in [D -> S] /\ \A q \in D : f[q] = Answer(f, q)
  BY <1>4, <1>5, <1>13, Zenon DEF Solves
<1> DEFINE Equation(g) == g = [q \in Questions |-> Answer(g, q)]
<1>15. Equation(f)
  BY <1>1, <1>14
<1>16. Origins!Resolved = CHOOSE g : Equation(g)
  BY DEF Origins!Resolved, Answer, Questions
<1>17. Equation(Origins!Resolved)
  <2> HIDE DEF Equation
  <2> QED
    BY <1>15, <1>16
<1> QED
  BY <1>17

\* A position to read a module up to, with what was visited; what is found there.
Readings == Origins!Positions \X SUBSET Origins!Names
Marks == [names : SUBSET SourceNames, modules : SUBSET SourceNames]

\* What References says of a name of a module, if f is what it says of readings.
Exports(f, v, x, n) ==
  IF x = Library THEN n = Symbol
  ELSE <<x, n>> \notin v /\ n \in f[<<Origins!EndOf(x), v \cup {<<x, n>>}>>].names

\* What is found after a statement s; `from' and `import' say what it takes.
After(found, s, name, module) ==
  IF s.guard = "typing" /\ Origins!IsImport(s) THEN found
  ELSE IF s.guard # "always" THEN Origins!Cleared(found, s.name)
  ELSE CASE s.kind = "from" ->
              IF name THEN Origins!Named(found, s.name) ELSE Origins!Cleared(found, s.name)
         [] s.kind = "import" ->
              IF module THEN Origins!Exporting(found, s.name) ELSE Origins!Cleared(found, s.name)
         [] s.kind = "assign" ->
              IF s.orig \in found.names THEN Origins!Named(found, s.name)
              ELSE IF s.orig \in found.modules THEN Origins!Exporting(found, s.name)
              ELSE Origins!Cleared(found, s.name)
         [] s.kind = "attribute" ->
              IF s.orig \in found.modules THEN Origins!Named(found, s.name)
              ELSE Origins!Cleared(found, s.name)
         [] s.kind = "define" -> Origins!Cleared(found, s.name)
         [] OTHER -> found

\* What References says of a reading, if f is what it says of others.
Reads(f, q) ==
  LET m == q[1][1]
      s == sources[m][q[1][2] - 1]
  IN IF q[1][2] = 1 THEN Origins!Nothing
     ELSE After(f[<<<<m, q[1][2] - 1>>, q[2]>>], s,
                Exports(f, q[2], s.module, s.orig), Exports(f, q[2], s.module, Symbol))

\* What is found is a set of names and a set of modules.
LEMMA AfterTyped ==
  ASSUME ProjectTyped, NEW found \in Marks, NEW s \in Origins!Statements,
         NEW name \in BOOLEAN, NEW module \in BOOLEAN
  PROVE  After(found, s, name, module) \in Marks
<1>1. s.name \in SourceNames
  BY DEF Origins!Statements
<1>2. found.names \in SUBSET SourceNames /\ found.modules \in SUBSET SourceNames
  BY DEF Marks
<1>3. \A x \in {Origins!Cleared(found, s.name), Origins!Named(found, s.name),
                Origins!Exporting(found, s.name), found} : x \in Marks
  BY <1>1, <1>2 DEF Origins!Cleared, Origins!Named, Origins!Exporting, Marks
<1>4. After(found, s, name, module)
        \in {Origins!Cleared(found, s.name), Origins!Named(found, s.name),
             Origins!Exporting(found, s.name), found}
  BY DEF After
<1> QED
  BY <1>3, <1>4

\* A reading goes back by a statement, or visits a name more.
LEMMA ReadingFacts ==
  ASSUME ProjectTyped, NEW q \in Readings
  PROVE  LET m == q[1][1]
             s == sources[m][q[1][2] - 1]
         IN /\ m \in SourceModules /\ q[1][2] \in 1..Origins!End(m) /\ q[1][2] \in Nat
            /\ q[2] \in SUBSET Origins!Names
            /\ q[1][2] # 1 =>
                 /\ q[1][2] - 1 \in 1..Len(sources[m]) /\ s \in Origins!Statements
                 /\ s.orig \in SourceNames /\ s.module \in SourceModules \cup {Library}
                 /\ <<<<m, q[1][2] - 1>>, q[2]>> \in Readings
            /\ \A x \in SourceModules, n \in SourceNames :
                 <<Origins!EndOf(x), q[2] \cup {<<x, n>>}>> \in Readings
<1>1. PICK at, v : q = <<at, v>> /\ at \in Origins!Positions /\ v \in SUBSET Origins!Names
  BY DEF Readings
<1>2. PICK m, k : at = <<m, k>> /\ m \in SourceModules /\ k \in 1..Origins!End(m)
  BY <1>1 DEF Origins!Positions
<1>3. Len(sources[m]) \in Nat /\ Origins!End(m) = Len(sources[m]) + 1
  BY <1>2, SourceFacts
<1>4. ASSUME k # 1
      PROVE  /\ k - 1 \in 1..Len(sources[m]) /\ sources[m][k - 1] \in Origins!Statements
             /\ sources[m][k - 1].orig \in SourceNames
             /\ sources[m][k - 1].module \in SourceModules \cup {Library}
             /\ <<<<m, k - 1>>, v>> \in Readings
  <2>1. k - 1 \in 1..Len(sources[m]) /\ k - 1 \in 1..Origins!End(m) /\ k - 1 \in Nat
    BY <1>2, <1>3, <1>4
  <2>2. sources[m][k - 1] \in Origins!Statements
    BY <1>2, <2>1, SourceFacts
  <2>3. <<m, k - 1>> \in Origins!Positions
    BY <1>2, <2>1 DEF Origins!Positions
  <2> QED
    BY <1>1, <2>1, <2>2, <2>3 DEF Readings, Origins!Statements
<1>5. ASSUME NEW x \in SourceModules, NEW n \in SourceNames
      PROVE  <<Origins!EndOf(x), v \cup {<<x, n>>}>> \in Readings
  <2>1. Origins!EndOf(x) \in Origins!Positions
    BY SourceFacts
  <2> QED
    BY <1>1, <2>1 DEF Readings, Origins!Names
<1>6. q[1][1] = m /\ q[1][2] = k /\ q[2] = v
  BY <1>1, <1>2
<1> QED
  BY <1>1, <1>2, <1>3, <1>4, <1>5, <1>6

\* What a module exports is known of what was read before.
LEMMA ReadsTyped ==
  ASSUME ProjectTyped, NEW f \in [Readings -> Marks], NEW q \in Readings
  PROVE  Reads(f, q) \in Marks
<1>1. PICK m, k, v, s : m = q[1][1] /\ k = q[1][2] /\ v = q[2] /\ s = sources[m][k - 1]
  OBVIOUS
<1>2. CASE k = 1
  BY <1>1, <1>2 DEF Reads, Origins!Nothing, Marks
<1>3. CASE k # 1
  <2>1. s \in Origins!Statements /\ <<<<m, k - 1>>, v>> \in Readings
    BY <1>1, <1>3, ReadingFacts
  <2>2. PICK found : found = f[<<<<m, k - 1>>, v>>]
    OBVIOUS
  <2>3. found \in Marks
    BY <2>1, <2>2
  <2>4. PICK a, b : a = Exports(f, v, s.module, s.orig) /\ b = Exports(f, v, s.module, Symbol)
    OBVIOUS
  <2>5. a \in BOOLEAN /\ b \in BOOLEAN
    BY <2>4 DEF Exports
  <2>6. Reads(f, q) = After(found, s, a, b)
    BY <1>1, <1>3, <2>2, <2>4 DEF Reads
  <2> QED
    BY <2>1, <2>3, <2>5, <2>6, AfterTyped
<1> QED
  BY <1>2, <1>3

\* A reading comes before another: more was visited, or it stops at an earlier line.
Before(p, q) ==
  \/ q[2] \subseteq p[2] /\ q[2] # p[2]
  \/ q[2] = p[2] /\ p[1][2] < q[1][2]

\* There is a first one of readings.
LEMMA BeforeFounded ==
  ASSUME ProjectTyped, NEW T \in SUBSET Readings, T # {}
  PROVE  \E x \in T : \A y \in T : ~Before(y, x)
<1>1. \A q \in Readings : q[2] \in SUBSET Origins!Names /\ q[1][2] \in Nat
  BY ReadingFacts
<1>2. PICK N : N = {Left(x[2]) : x \in T}
  OBVIOUS
<1>3. N \subseteq Nat /\ N # {}
  BY <1>1, <1>2, LeftTyped
<1>4. PICK l \in N : \A k \in N : l <= k
  BY <1>3, LeastExists
<1>5. PICK x \in T : Left(x[2]) = l
  BY <1>2, <1>4
<1>6. PICK K : K = {y[1][2] : y \in {z \in T : z[2] = x[2]}}
  OBVIOUS
<1>7. K \subseteq Nat /\ K # {}
  BY <1>1, <1>6
<1>8. PICK k \in K : \A j \in K : k <= j
  BY <1>7, LeastExists
<1>9. PICK y \in T : y[2] = x[2] /\ y[1][2] = k
  BY <1>6, <1>8
<1>10. ASSUME NEW z \in T, Before(z, y)
       PROVE  FALSE
  <2>1. CASE y[2] \subseteq z[2] /\ y[2] # z[2]
    <3>1. Left(z[2]) \in Nat /\ Left(y[2]) \in Nat /\ Left(z[2]) < Left(y[2])
      BY <1>1, <2>1, LessIsLeft
    <3>2. l <= Left(z[2])
      BY <1>2, <1>4
    <3> QED
      BY <1>5, <1>9, <3>1, <3>2
  <2>2. CASE y[2] = z[2] /\ z[1][2] < y[1][2]
    <3>1. z[1][2] \in K /\ z[1][2] \in Nat
      BY <1>1, <1>6, <1>9, <2>2
    <3>2. k <= z[1][2] /\ k \in Nat
      BY <1>7, <1>8, <3>1
    <3> QED
      BY <1>9, <2>2, <3>1, <3>2
  <2> QED
    BY <1>10, <2>1, <2>2 DEF Before
<1> QED
  BY <1>10

\* What References says of a reading depends on the readings before it.
LEMMA ReadsBack ==
  ASSUME ProjectTyped, NEW f \in [Readings -> Marks], NEW g \in [Readings -> Marks],
         NEW q \in Readings, \A y \in Readings : Before(y, q) => f[y] = g[y]
  PROVE  Reads(f, q) = Reads(g, q)
<1>1. PICK m, k, v, s : m = q[1][1] /\ k = q[1][2] /\ v = q[2] /\ s = sources[m][k - 1]
  OBVIOUS
<1>2. CASE k = 1
  BY <1>1, <1>2 DEF Reads
<1>3. CASE k # 1
  <2>1. PICK back : back = <<<<m, k - 1>>, v>>
    OBVIOUS
  <2>2. /\ back \in Readings /\ k \in Nat /\ s.orig \in SourceNames
        /\ s.module \in SourceModules \cup {Library}
    BY <1>1, <1>3, <2>1, ReadingFacts
  <2>3. back[2] = q[2] /\ back[1][2] < q[1][2]
    BY <1>1, <2>1, <2>2
  <2>4. f[back] = g[back]
    BY <2>2, <2>3 DEF Before
  <2>5. ASSUME NEW x \in SourceModules \cup {Library}, NEW n \in SourceNames
        PROVE  Exports(f, v, x, n) <=> Exports(g, v, x, n)
    <3>1. CASE x = Library \/ <<x, n>> \in v
      BY <3>1 DEF Exports
    <3>2. CASE x # Library /\ <<x, n>> \notin v
      <4>1. PICK y : y = <<Origins!EndOf(x), v \cup {<<x, n>>}>>
        OBVIOUS
      <4>2. y \in Readings
        BY <1>1, <2>5, <3>2, <4>1, ReadingFacts
      <4>3. q[2] \subseteq y[2] /\ q[2] # y[2]
        BY <1>1, <3>2, <4>1
      <4>4. f[y] = g[y]
        BY <4>2, <4>3 DEF Before
      <4> QED
        BY <4>1, <4>4 DEF Exports
    <3> QED
      BY <3>1, <3>2
  <2>6. Symbol \in SourceNames
    BY DEF ProjectTyped
  <2>7. \A h \in {f, g} : Reads(h, q) =
          After(h[back], s, Exports(h, v, s.module, s.orig), Exports(h, v, s.module, Symbol))
    BY <1>1, <1>3, <2>1 DEF Reads
  <2>8. /\ Exports(f, v, s.module, s.orig) = Exports(g, v, s.module, s.orig)
        /\ Exports(f, v, s.module, Symbol) = Exports(g, v, s.module, Symbol)
    <3>1. \A h, x, n : Exports(h, v, x, n) \in BOOLEAN
      BY DEF Exports
    <3> QED
      BY <2>2, <2>5, <2>6, <3>1
  <2> QED
    BY <2>4, <2>7, <2>8
<1> QED
  BY <1>2, <1>3

\* The equation of References.
LEMMA ReferencesSolves ==
  ASSUME ProjectTyped
  PROVE  \A q \in Readings : Origins!References[q] = Reads(Origins!References, q)
<1>1. PICK D, S : D = Readings /\ S = Marks
  OBVIOUS
<1>2. PICK P : P = {p \in D \X D : Before(p[1], p[2])}
  OBVIOUS
<1>3. PICK B : B = [p \in [D -> S] \X D |-> Reads(p[1], p[2])]
  OBVIOUS
<1>4. \A f \in [D -> S], q \in D : <<f, q>> \in [D -> S] \X D /\ B[<<f, q>>] = Reads(f, q)
  BY <1>3
<1>5. \A f, q : B[<<f, q>>] = B[f, q]
  OBVIOUS
<1>6. \A p \in D, q \in D : <<p, q>> \in P <=> Before(p, q)
  BY <1>2
<1>7. B \in [[D -> S] \X D -> S]
  <2>1. \A f \in [D -> S], q \in D : Reads(f, q) \in S
    BY <1>1, ReadsTyped
  <2> QED
    BY <1>3, <2>1
<1>8. Founded(P, D)
  <2>1. SUFFICES ASSUME NEW T \in SUBSET D, T # {}
                 PROVE  \E x \in T : \A y \in T : <<y, x>> \notin P
    BY DEF Founded
  <2>2. PICK x \in T : \A y \in T : ~Before(y, x)
    BY <1>1, <2>1, BeforeFounded
  <2> QED
    BY <1>6, <2>1, <2>2
<1>9. Transitive(P, D)
  <2>1. SUFFICES ASSUME NEW x \in D, NEW y \in D, NEW z \in D, <<x, y>> \in P, <<y, z>> \in P
                 PROVE  <<x, z>> \in P
    BY DEF Transitive
  <2>2. x[1][2] \in Nat /\ y[1][2] \in Nat /\ z[1][2] \in Nat
    BY <1>1, ReadingFacts
  <2>3. Before(x, y) /\ Before(y, z)
    BY <1>6, <2>1
  <2>4. Before(x, z)
    BY <2>2, <2>3 DEF Before
  <2> QED
    BY <1>6, <2>4
<1>10. LooksBack(B, P, D, S)
  <2>1. SUFFICES ASSUME NEW f \in [D -> S], NEW g \in [D -> S], NEW q \in D,
                        \A y \in D : <<y, q>> \in P => f[y] = g[y]
                 PROVE  B[f, q] = B[g, q]
    BY Zenon DEF LooksBack
  <2>2. \A y \in D : Before(y, q) => f[y] = g[y]
    BY <1>6, <2>1
  <2>3. Reads(f, q) = Reads(g, q)
    BY <1>1, <2>2, ReadsBack
  <2>4. B[<<f, q>>] = Reads(f, q) /\ B[<<g, q>>] = Reads(g, q)
    BY <1>4
  <2> QED
    BY <1>5, <2>3, <2>4, Zenon
<1>11. S # {}
  <2>1. Origins!Nothing \in Marks
    BY DEF Origins!Nothing, Marks
  <2> QED
    BY <1>1, <2>1
<1>12. PICK f : Solves(f, B, D, S)
  BY <1>7, <1>8, <1>9, <1>10, <1>11, Recursion DEF Recursive
<1>13. f \in [D -> S] /\ \A q \in D : f[q] = Reads(f, q)
  BY <1>4, <1>5, <1>12, Zenon DEF Solves
<1> DEFINE Equation(g) == g = [q \in Readings |-> Reads(g, q)]
<1>14. Equation(f)
  BY <1>1, <1>13
<1>15. Origins!References = CHOOSE g : Equation(g)
  BY DEF Origins!References, Reads, Readings, After, Exports
<1>16. Equation(Origins!References)
  <2> HIDE DEF Equation
  <2> QED
    BY <1>14, <1>15
<1> QED
  BY <1>16

Begun == loaded \cup Origins!ToSet(loading)

\* Modules are executed one in the other; one that was not started has nothing.
ModulesInv ==
  /\ ProjectTyped
  /\ loading \in Seq(SourceModules) /\ loaded \subseteq SourceModules
  /\ \A i, j \in DOMAIN loading : loading[i] = loading[j] => i = j
  /\ \A i \in DOMAIN loading : loading[i] \notin loaded
  /\ line \in [SourceModules -> Nat] /\ DOMAIN values = Origins!Names
  /\ DOMAIN bound = Origins!Names
  /\ \A m \in SourceModules : line[m] \in 1..Origins!End(m)
  /\ \A m \in loaded : line[m] = Origins!End(m)
  /\ \A m \in SourceModules \ Begun : line[m] = 1
  /\ \A m \in SourceModules \ Begun, n \in SourceNames :
       values[<<m, n>>] = Origins!Unbound /\ bound[<<m, n>>] = 0

\* A name that is not uncertain was bound by the last statement that names it.
BoundInv ==
  checking => \A m \in Begun, n \in SourceNames :
    ~Origins!Uncertain(m, n, line[m]) => bound[<<m, n>>] = Origins!LastEvent(m, n, line[m])

\* The imports of a name lead, through names of modules that were executed, to what it is.
LeadsTo(m, n, C, V) ==
  LET to == Origins!Resolved[<<<<m, line[m]>>, n, V>>]
  IN \/ to.at = "project" /\ to.name \in C /\ values[<<m, n>>] = values[to.name]
     \/ to.at = "library" /\ values[<<m, n>>] = Origins!OfLibrary(to.name)
Leads(m, n, C) ==
  /\ <<m, n>> \in C /\ \A x \in C : x \in Origins!Names /\ (x[1] \in loaded \/ x = <<m, n>>)
  /\ \A V \in SUBSET Origins!Names : V \cap C = {} => LeadsTo(m, n, C, V)
LeadsInv ==
  checking => \A m \in Begun, n \in SourceNames :
    values[<<m, n>>] # Origins!Unbound /\ <<m, n>> \notin unfinished => \E C : Leads(m, n, C)

\* What is taken for the symbol is it; what is taken for a module that exports it exports
\* it, when it is executed.
IsIt(v) == v \in {Origins!TheSymbol, Origins!Unbound} \/ Origins!Unpacked(v)
HasIt(x) ==
  \E V \in SUBSET Origins!Names :
    Symbol \in Origins!References[<<Origins!EndOf(x), V>>].names
IsOf(v) ==
  \/ v \in {Origins!Unbound, Origins!ModuleObject(Library)} \/ Origins!Unpacked(v)
  \/ \E x \in Begun : v = Origins!ModuleObject(x) /\ HasIt(x)
Marked(m, n, V) ==
  LET found == Origins!References[<<<<m, line[m]>>, V>>]
  IN /\ n \in found.names => IsIt(values[<<m, n>>])
     /\ n \in found.modules => IsOf(values[<<m, n>>])
MarkedInv ==
  ~checking => \A m \in Begun, n \in SourceNames : \A V \in SUBSET Origins!Names :
    <<m, n>> \notin unfinished => Marked(m, n, V)

OriginsInv == ModulesInv /\ BoundInv /\ LeadsInv /\ MarkedInv

-----------------------------------------------------------------------------
\* The statement that is executed next.
LEMMA StatementFacts ==
  ASSUME ModulesInv, Origins!Running
  PROVE  LET c == Origins!Current
             s == Origins!Statement
         IN /\ c \in SourceModules /\ c \in Origins!ToSet(loading) /\ c \notin loaded
            /\ line[c] \in Nat /\ Origins!End(c) = Len(sources[c]) + 1 /\ Len(sources[c]) \in Nat
            /\ Origins!AtEnd => line[c] = Origins!End(c)
            /\ ~Origins!AtEnd => /\ line[c] \in 1..Len(sources[c]) /\ s = sources[c][line[c]]
                                 /\ s \in Origins!Statements /\ s.name \in SourceNames
                                 /\ s.orig \in SourceNames
                                 /\ s.module \in SourceModules \cup {Library}
<1>1. PICK n \in Nat : n = Len(loading) /\ DOMAIN loading = 1..n
  BY DEF ModulesInv
<1>2. n # 0
  <2>1. SUFFICES ASSUME n = 0
                 PROVE  FALSE
    OBVIOUS
  <2>2. loading = << >>
    BY <1>1, <2>1 DEF ModulesInv
  <2> QED
    BY <2>2 DEF Origins!Running
<1>3. PICK c : c = Origins!Current
  OBVIOUS
<1>4. c = loading[n] /\ n \in DOMAIN loading
  BY <1>1, <1>2, <1>3 DEF Origins!Current, Origins!Last
<1>5. c \in SourceModules /\ c \in Origins!ToSet(loading) /\ c \notin loaded
  BY <1>1, <1>4 DEF ModulesInv, Origins!ToSet
<1>6. line[c] \in 1..Origins!End(c) /\ Len(sources[c]) \in Nat /\ Origins!End(c) = Len(sources[c]) + 1
  BY <1>5, SourceFacts DEF ModulesInv
<1>7. Origins!AtEnd => line[c] = Origins!End(c)
  BY <1>3, <1>6 DEF Origins!AtEnd
<1>8. ASSUME ~Origins!AtEnd
      PROVE  /\ line[c] \in 1..Len(sources[c]) /\ Origins!Statement = sources[c][line[c]]
             /\ sources[c][line[c]] \in Origins!Statements
  <2>1. line[c] \in 1..Len(sources[c])
    BY <1>3, <1>6, <1>8 DEF Origins!AtEnd
  <2>2. sources[c][line[c]] \in Origins!Statements
    BY <1>5, <2>1, SourceFacts DEF ModulesInv
  <2> QED
    BY <1>3, <2>1, <2>2 DEF Origins!Statement
<1>9. \A s \in Origins!Statements :
        s.name \in SourceNames /\ s.orig \in SourceNames /\ s.module \in SourceModules \cup {Library}
  BY DEF Origins!Statements
<1> QED
  BY <1>3, <1>5, <1>6, <1>7, <1>8, <1>9

\* What the bindings are after a statement.
LEMMA BindingFacts ==
  ASSUME ProjectTyped, NEW m \in SourceModules, NEW n, NEW k \in 1..Len(sources[m])
  PROVE  LET s == sources[m][k] IN
         /\ Origins!Binding(m, n, k + 1) =
              IF s.name # n THEN Origins!Binding(m, n, k)
              ELSE IF Origins!Conditional(s) \/ ~Origins!IsImport(s) THEN 0 ELSE k
         /\ Origins!Uncertain(m, n, k + 1) <=>
              IF s.name # n THEN Origins!Uncertain(m, n, k) ELSE Origins!Conditional(s)
<1>1. k \in 1..Origins!End(m) /\ k # 0
  BY SourceFacts
<1>2. Origins!LastEvent(m, n, k + 1) =
        IF sources[m][k].name = n THEN k ELSE Origins!LastEvent(m, n, k)
  BY <1>1, LastEventFacts
<1> QED
  BY <1>1, <1>2 DEF Origins!Binding, Origins!Uncertain

\* Where a name comes from, by the statement i that binds it.
Through(m, n, V, i) ==
  LET s == sources[m][i]
  IN IF <<m, n>> \in V THEN [at |-> "nowhere"]
     ELSE IF i = 0 \/ s.kind = "import" THEN [at |-> "project", name |-> <<m, n>>]
     ELSE IF s.module = Library THEN [at |-> "library", name |-> s.orig]
     ELSE Origins!Resolved[<<Origins!EndOf(s.module), s.orig, V \cup {<<m, n>>}>>]

\* A name is resolved by its binding before a line.
LEMMA ResolvedIs ==
  ASSUME ProjectTyped, NEW m \in SourceModules, NEW k \in 1..Origins!End(m), NEW n \in SourceNames,
         NEW V \in SUBSET Origins!Names
  PROVE  Origins!Resolved[<<<<m, k>>, n, V>>] = Through(m, n, V, Origins!Binding(m, n, k))
<1>1. PICK q : q = <<<<m, k>>, n, V>>
  OBVIOUS
<1>2. <<m, k>> \in Origins!Positions
  BY SourceFacts DEF Origins!Positions
<1>3. q \in Questions
  BY <1>1, <1>2 DEF Questions
<1>4. q[1][1] = m /\ q[1][2] = k /\ q[2] = n /\ q[3] = V
  BY <1>1
<1>5. Origins!Resolved[q] = Answer(Origins!Resolved, q)
  BY <1>3, ResolvedSolves
<1> QED
  BY <1>1, <1>4, <1>5 DEF Answer, Through

\* What is found after the statement of a line.
FoundAfter(m, k, V) ==
  LET s == sources[m][k]
  IN After(Origins!References[<<<<m, k>>, V>>], s,
           Exports(Origins!References, V, s.module, s.orig),
           Exports(Origins!References, V, s.module, Symbol))

\* References finds what there is after each statement.
LEMMA ReferencesAre ==
  ASSUME ProjectTyped, NEW m \in SourceModules, NEW k \in 1..Len(sources[m]),
         NEW V \in SUBSET Origins!Names
  PROVE  Origins!References[<<<<m, k + 1>>, V>>] = FoundAfter(m, k, V)
<1>1. PICK q : q = <<<<m, k + 1>>, V>>
  OBVIOUS
<1>2. <<m, k + 1>> \in Origins!Positions
  BY SourceFacts DEF Origins!Positions
<1>3. q \in Readings
  BY <1>1, <1>2 DEF Readings
<1>4. q[1][1] = m /\ q[1][2] = k + 1 /\ q[2] = V /\ k + 1 # 1 /\ (k + 1) - 1 = k
  BY <1>1
<1>5. Origins!References[q] = Reads(Origins!References, q)
  BY <1>3, ReferencesSolves
<1> QED
  BY <1>1, <1>4, <1>5 DEF Reads, FoundAfter

\* The analyses read the sources only.
LEMMA AnalysesKept ==
  ASSUME UNCHANGED sources
  PROVE  /\ Origins!Resolved' = Origins!Resolved /\ Origins!References' = Origins!References
         /\ \A m : Origins!End(m)' = Origins!End(m) /\ Origins!EndOf(m)' = Origins!EndOf(m)
<1>1. Origins!Resolved' = Origins!Resolved
  BY DEF Origins!Resolved, Origins!Positions, Origins!End, Origins!EndOf, Origins!Binding,
         Origins!LastEvent, Origins!Conditional, Origins!IsImport, Origins!Names
<1>2. Origins!References' = Origins!References
  BY DEF Origins!References, Origins!Positions, Origins!End, Origins!EndOf, Origins!Names,
         Origins!IsImport, Origins!Cleared, Origins!Named, Origins!Exporting, Origins!Nothing
<1>3. \A m : Origins!End(m)' = Origins!End(m) /\ Origins!EndOf(m)' = Origins!EndOf(m)
  BY DEF Origins!End, Origins!EndOf
<1> QED
  BY <1>1, <1>2, <1>3

\* Nothing is executed at first.
LEMMA OriginsInit ==
  ASSUME Origins!ImportsInit
  PROVE  OriginsInv
<1>1. /\ IsFiniteSet(SourceModules) /\ IsFiniteSet(SourceNames)
      /\ Library \notin SourceModules /\ Symbol \in SourceNames /\ EntryModule \in SourceModules
  BY CommandLineAssumption
     DEF Origins!ImportsAssumption, Origins!IsFiniteSet, IsFiniteSet
<1>2. << >> \in Seq(Origins!Statements) /\ Len(<< >>) = 0
  OBVIOUS
<1>3. sources \in [SourceModules -> Seq(Origins!Statements)]
  BY <1>2 DEF Origins!ImportsInit
<1>4. ProjectTyped
  BY <1>1, <1>3 DEF ProjectTyped
<1>5. loading = << >> /\ DOMAIN loading = {} /\ Begun = {}
  BY DEF Origins!ImportsInit, Begun, Origins!ToSet
<1>6. \A m \in SourceModules : line[m] = 1 /\ line[m] \in 1..Origins!End(m)
  BY <1>4, SourceFacts DEF Origins!ImportsInit
<1>7. \A m \in SourceModules, n \in SourceNames :
        values[<<m, n>>] = Origins!Unbound /\ bound[<<m, n>>] = 0
  BY DEF Origins!ImportsInit, Origins!Names
<1>8. /\ loading \in Seq(SourceModules) /\ loaded = {} /\ line \in [SourceModules -> Nat]
      /\ DOMAIN values = Origins!Names /\ DOMAIN bound = Origins!Names
  BY DEF Origins!ImportsInit
<1>9. ModulesInv
  BY <1>4, <1>5, <1>6, <1>7, <1>8 DEF ModulesInv
<1> QED
  BY <1>5, <1>9 DEF OriginsInv, BoundInv, LeadsInv, MarkedInv

\* The entry module starts with nothing.
LEMMA LoadKeeps ==
  ASSUME OriginsInv, Origins!LoadEntry
  PROVE  OriginsInv'
<1>1. /\ loading = << >> /\ loaded = {} /\ sources' \in Projects /\ loading' = <<EntryModule>>
      /\ UNCHANGED <<loaded, line, values, bound, unfinished>>
  BY DEF Origins!LoadEntry
<1>2. ProjectTyped'
  <2>1. Projects \subseteq [SourceModules -> Seq(Origins!Statements)]
    BY CommandLineAssumption DEF Origins!ImportsAssumption
  <2> QED
    BY <1>1, <2>1 DEF OriginsInv, ModulesInv, ProjectTyped
<1>3. Begun = {} /\ Begun' = {EntryModule}
  BY <1>1 DEF Begun, Origins!ToSet
<1>4. \A m \in SourceModules : line[m] = 1 /\ \A n \in SourceNames :
        values[<<m, n>>] = Origins!Unbound /\ bound[<<m, n>>] = 0
  BY <1>3 DEF OriginsInv, ModulesInv
<1>5. \A m \in SourceModules : Len(sources'[m]) \in Nat /\ Origins!End(m)' = Len(sources'[m]) + 1
  BY <1>2 DEF ProjectTyped, Origins!End
<1>6. ModulesInv'
  <2>1. EntryModule \in SourceModules
    BY <1>2 DEF ProjectTyped
  <2>2. /\ loading' \in Seq(SourceModules) /\ DOMAIN loading' = {1} /\ loading'[1] = EntryModule
        /\ loaded' = {}
    BY <1>1, <2>1
  <2>3. \A m \in SourceModules : line'[m] = 1 /\ 1 \in 1..Origins!End(m)'
    BY <1>1, <1>4, <1>5
  <2>4. \A m \in SourceModules, n \in SourceNames :
          values'[<<m, n>>] = Origins!Unbound /\ bound'[<<m, n>>] = 0
    BY <1>1, <1>4
  <2>5. line' \in [SourceModules -> Nat] /\ DOMAIN values' = Origins!Names /\ DOMAIN bound' = Origins!Names
    BY <1>1 DEF OriginsInv, ModulesInv
  <2> QED
    BY <1>2, <2>2, <2>3, <2>4, <2>5 DEF ModulesInv
<1>7. EntryModule \in SourceModules
  BY <1>2 DEF ProjectTyped
<1>8. BoundInv'
  <2>1. \A n : Origins!LastEvent(EntryModule, n, 1)' = 0
    BY DEF Origins!LastEvent
  <2>2. \A n \in SourceNames : line'[EntryModule] = 1 /\ bound'[<<EntryModule, n>>] = 0
    BY <1>1, <1>4, <1>7
  <2> QED
    BY <1>3, <2>1, <2>2 DEF BoundInv
<1>9. \A n \in SourceNames : values'[<<EntryModule, n>>] = Origins!Unbound
  BY <1>1, <1>4, <1>7
<1>10. LeadsInv'
  BY <1>3, <1>9 DEF LeadsInv
<1>11. MarkedInv'
  <2>1. IsIt(Origins!Unbound) /\ IsOf(Origins!Unbound)'
    BY DEF IsIt, IsOf
  <2> QED
    BY <1>3, <1>9, <2>1 DEF MarkedInv, Marked
<1> QED
  BY <1>6, <1>8, <1>10, <1>11 DEF OriginsInv

\* What was found is what it was if the same modules, or more, were started.
LEMMA FoundKept ==
  ASSUME UNCHANGED <<sources, checking, line, values, bound, unfinished>>,
         Begun \subseteq Begun', loaded \subseteq loaded'
  PROVE  /\ \A m, n : Origins!Uncertain(m, n, line[m])' <=> Origins!Uncertain(m, n, line[m])
         /\ \A m, n : Origins!LastEvent(m, n, line[m])' = Origins!LastEvent(m, n, line[m])
         /\ \A m, n, C : Leads(m, n, C) => Leads(m, n, C)'
         /\ \A m, n, V : Marked(m, n, V) => Marked(m, n, V)'
<1>1. /\ Origins!Resolved' = Origins!Resolved /\ Origins!References' = Origins!References
      /\ \A m : Origins!EndOf(m)' = Origins!EndOf(m)
  BY AnalysesKept
<1>2. \A m, n : Origins!LastEvent(m, n, line[m])' = Origins!LastEvent(m, n, line[m])
  BY DEF Origins!LastEvent
<1>3. \A m, n : Origins!Uncertain(m, n, line[m])' <=> Origins!Uncertain(m, n, line[m])
  BY DEF Origins!Uncertain, Origins!LastEvent
<1>4. ASSUME NEW m, NEW n, NEW C, Leads(m, n, C)
      PROVE  Leads(m, n, C)'
  <2>1. \A V : LeadsTo(m, n, C, V)' <=> LeadsTo(m, n, C, V)
    BY <1>1 DEF LeadsTo
  <2> QED
    BY <1>4, <2>1 DEF Leads
<1>5. \A x : HasIt(x)' <=> HasIt(x)
  BY <1>1 DEF HasIt
<1>6. \A v : IsOf(v) => IsOf(v)'
  BY <1>5 DEF IsOf
<1>7. ASSUME NEW m, NEW n, NEW V, Marked(m, n, V)
      PROVE  Marked(m, n, V)'
  BY <1>1, <1>6, <1>7 DEF Marked
<1> QED
  BY <1>2, <1>3, <1>4, <1>7

\* A module that is first imported has nothing yet.
LEMMA EnterKeeps ==
  ASSUME OriginsInv, Origins!EnterModule
  PROVE  OriginsInv'
<1>1. PICK M : M = Origins!Statement.module
  OBVIOUS
<1>2. /\ M \notin Begun /\ loading' = Append(loading, M) /\ Origins!Running /\ ~Origins!AtEnd
      /\ M # Library
      /\ UNCHANGED <<sources, checking, loaded, line, values, bound, unfinished>>
  BY <1>1 DEF Origins!EnterModule, Origins!Imports, Origins!Started, Begun
<1>3. M \in SourceModules
  BY <1>1, <1>2, StatementFacts DEF OriginsInv
<1>4. PICK n \in Nat : n = Len(loading) /\ DOMAIN loading = 1..n
  BY DEF OriginsInv, ModulesInv
<1>5. /\ loading' \in Seq(SourceModules) /\ DOMAIN loading' = 1..(n + 1) /\ loading'[n + 1] = M
      /\ \A i \in 1..n : loading'[i] = loading[i]
  BY <1>2, <1>3, <1>4 DEF OriginsInv, ModulesInv
<1>6. Begun' = Begun \cup {M}
  <2>1. Origins!ToSet(loading)' = Origins!ToSet(loading) \cup {M}
    BY <1>4, <1>5 DEF Origins!ToSet
  <2> QED
    BY <1>2, <2>1 DEF Begun
<1>7. \A i \in 1..n : loading[i] \in Begun
  BY <1>4 DEF Begun, Origins!ToSet
<1>8. ModulesInv'
  <2>1. \A i, j \in DOMAIN loading' : loading'[i] = loading'[j] => i = j
    BY <1>2, <1>4, <1>5, <1>7 DEF OriginsInv, ModulesInv
  <2>2. \A i \in DOMAIN loading' : loading'[i] \notin loaded'
    BY <1>2, <1>4, <1>5 DEF OriginsInv, ModulesInv, Begun
  <2>3. \A m : Origins!End(m)' = Origins!End(m)
    BY <1>2, AnalysesKept
  <2>4. ProjectTyped'
    BY <1>2 DEF OriginsInv, ModulesInv, ProjectTyped
  <2> QED
    BY <1>2, <1>5, <1>6, <2>1, <2>2, <2>3, <2>4 DEF OriginsInv, ModulesInv
<1>9. /\ line[M] = 1 /\ \A x \in SourceNames :
           values[<<M, x>>] = Origins!Unbound /\ bound[<<M, x>>] = 0
  BY <1>2, <1>3 DEF OriginsInv, ModulesInv
<1>10. /\ \A m, x : Origins!Uncertain(m, x, line[m])' <=> Origins!Uncertain(m, x, line[m])
       /\ \A m, x : Origins!LastEvent(m, x, line[m])' = Origins!LastEvent(m, x, line[m])
       /\ \A m, x, C : Leads(m, x, C) => Leads(m, x, C)'
       /\ \A m, x, V : Marked(m, x, V) => Marked(m, x, V)'
  BY <1>2, <1>6, FoundKept
<1>11. BoundInv'
  <2>1. \A x : Origins!LastEvent(M, x, 1) = 0
    BY <1>3, LastEventFacts, SourceFacts DEF OriginsInv, ModulesInv
  <2> QED
    BY <1>2, <1>6, <1>9, <1>10, <2>1 DEF OriginsInv, BoundInv
<1>12. LeadsInv'
  BY <1>2, <1>6, <1>9, <1>10 DEF OriginsInv, LeadsInv
<1>13. MarkedInv'
  <2>1. IsIt(Origins!Unbound) /\ IsOf(Origins!Unbound)'
    BY DEF IsIt, IsOf
  <2>2. \A x \in SourceNames : \A V : Marked(M, x, V)'
    BY <1>2, <1>9, <2>1 DEF Marked
  <2> QED
    BY <1>2, <1>6, <1>10, <2>2 DEF OriginsInv, MarkedInv
<1> QED
  BY <1>8, <1>11, <1>12, <1>13 DEF OriginsInv

\* A module that ends has what it had.
LEMMA LeaveKeeps ==
  ASSUME OriginsInv, Origins!LeaveModule
  PROVE  OriginsInv'
<1>1. PICK c : c = Origins!Current
  OBVIOUS
<1>2. /\ Origins!Running /\ Origins!AtEnd /\ loaded' = loaded \cup {c}
      /\ loading' = Origins!Front(loading)
      /\ UNCHANGED <<sources, checking, line, values, bound, unfinished>>
  BY <1>1 DEF Origins!LeaveModule
<1>3. c \in SourceModules /\ c \notin loaded /\ line[c] = Origins!End(c)
  BY <1>1, <1>2, StatementFacts DEF OriginsInv
<1>4. PICK n \in Nat : n = Len(loading) /\ DOMAIN loading = 1..n
  BY DEF OriginsInv, ModulesInv
<1>5. n # 0
  <2>1. SUFFICES ASSUME n = 0
                 PROVE  FALSE
    OBVIOUS
  <2>2. loading = << >>
    BY <1>4, <2>1 DEF OriginsInv, ModulesInv
  <2> QED
    BY <1>2, <2>2 DEF Origins!Running
<1>6. c = loading[n]
  BY <1>1, <1>4 DEF Origins!Current, Origins!Last
<1>7. /\ loading' \in Seq(SourceModules) /\ DOMAIN loading' = 1..(n - 1)
      /\ \A i \in 1..(n - 1) : loading'[i] = loading[i]
  <2>1. loading' = [i \in 1..(n - 1) |-> loading[i]]
    BY <1>2, <1>4, <1>5 DEF Origins!Front
  <2>2. \A i \in 1..(n - 1) : loading[i] \in SourceModules
    BY <1>4 DEF OriginsInv, ModulesInv
  <2>3. n - 1 \in Nat
    BY <1>5
  <2> QED
    BY <2>1, <2>2, <2>3
<1>8. Begun' = Begun
  <2>1. Origins!ToSet(loading) = Origins!ToSet(loading)' \cup {c}
    BY <1>4, <1>5, <1>6, <1>7 DEF Origins!ToSet
  <2> QED
    BY <1>2, <2>1 DEF Begun
<1>9. ModulesInv'
  <2>1. \A i, j \in DOMAIN loading' : loading'[i] = loading'[j] => i = j
    <3>1. \A i, j \in 1..n : loading[i] = loading[j] => i = j
      BY <1>4 DEF OriginsInv, ModulesInv
    <3>2. \A i \in 1..(n - 1) : i \in 1..n
      BY <1>4
    <3> QED
      BY <1>7, <3>1, <3>2
  <2>2. \A i \in DOMAIN loading' : loading'[i] \notin loaded'
    <3>1. \A i, j \in 1..n : loading[i] = loading[j] => i = j
      BY <1>4 DEF OriginsInv, ModulesInv
    <3>2. \A i \in 1..(n - 1) : i \in 1..n /\ i # n /\ n \in 1..n
      BY <1>4, <1>5
    <3>3. \A i \in 1..n : loading[i] \notin loaded
      BY <1>4 DEF OriginsInv, ModulesInv
    <3> QED
      BY <1>2, <1>6, <1>7, <3>1, <3>2, <3>3
  <2>3. \A m : Origins!End(m)' = Origins!End(m)
    BY <1>2, AnalysesKept
  <2>4. ProjectTyped'
    BY <1>2 DEF OriginsInv, ModulesInv, ProjectTyped
  <2>5. loaded' \subseteq SourceModules /\ \A m \in loaded' : line'[m] = Origins!End(m)'
    BY <1>2, <1>3, <2>3 DEF OriginsInv, ModulesInv
  <2> QED
    BY <1>2, <1>7, <1>8, <2>1, <2>2, <2>3, <2>4, <2>5 DEF OriginsInv, ModulesInv
<1>10. /\ \A m, x : Origins!Uncertain(m, x, line[m])' <=> Origins!Uncertain(m, x, line[m])
       /\ \A m, x : Origins!LastEvent(m, x, line[m])' = Origins!LastEvent(m, x, line[m])
       /\ \A m, x, C : Leads(m, x, C) => Leads(m, x, C)'
       /\ \A m, x, V : Marked(m, x, V) => Marked(m, x, V)'
  BY <1>2, <1>8, FoundKept
<1>11. BoundInv'
  BY <1>2, <1>8, <1>10 DEF OriginsInv, BoundInv
<1>12. LeadsInv'
  BY <1>2, <1>8, <1>10 DEF OriginsInv, LeadsInv
<1>13. MarkedInv'
  BY <1>2, <1>8, <1>10 DEF OriginsInv, MarkedInv
<1> QED
  BY <1>9, <1>11, <1>12, <1>13 DEF OriginsInv

\* A step that changes nothing.
LEMMA OriginsStutter ==
  ASSUME OriginsInv, UNCHANGED importVars
  PROVE  OriginsInv'
<1>1. UNCHANGED <<sources, checking, loading, loaded, line, values, bound, unfinished>>
  BY DEF importVars
<1>2. Begun' = Begun
  BY <1>1 DEF Begun, Origins!ToSet
<1>3. /\ \A m, x : Origins!Uncertain(m, x, line[m])' <=> Origins!Uncertain(m, x, line[m])
      /\ \A m, x : Origins!LastEvent(m, x, line[m])' = Origins!LastEvent(m, x, line[m])
      /\ \A m, x, C : Leads(m, x, C) => Leads(m, x, C)'
      /\ \A m, x, V : Marked(m, x, V) => Marked(m, x, V)'
  BY <1>1, <1>2, FoundKept
<1>4. \A m : Origins!End(m)' = Origins!End(m)
  BY <1>1, AnalysesKept
<1>5. ModulesInv'
  BY <1>1, <1>2, <1>4 DEF OriginsInv, ModulesInv, ProjectTyped
<1>6. BoundInv' /\ LeadsInv' /\ MarkedInv'
  BY <1>1, <1>2, <1>3 DEF OriginsInv, BoundInv, LeadsInv, MarkedInv
<1> QED
  BY <1>5, <1>6 DEF OriginsInv

\* The next line of the module that is executed.
LEMMA AdvanceKeeps ==
  ASSUME ModulesInv, Origins!Running, ~Origins!AtEnd, Origins!Advances,
         UNCHANGED <<sources, loading, loaded>>, DOMAIN values' = Origins!Names,
         DOMAIN bound' = Origins!Names,
         \A m \in SourceModules \ {Origins!Current}, n \in SourceNames :
           values'[<<m, n>>] = values[<<m, n>>] /\ bound'[<<m, n>>] = bound[<<m, n>>]
  PROVE  /\ ModulesInv' /\ Begun' = Begun
         /\ line'[Origins!Current] = line[Origins!Current] + 1
         /\ \A m \in SourceModules \ {Origins!Current} : line'[m] = line[m]
<1>1. PICK c : c = Origins!Current
  OBVIOUS
<1>2. /\ c \in SourceModules /\ c \in Origins!ToSet(loading) /\ c \notin loaded
      /\ line[c] \in 1..Len(sources[c]) /\ Len(sources[c]) \in Nat
      /\ Origins!End(c) = Len(sources[c]) + 1
  BY <1>1, StatementFacts
<1>3. line' = [line EXCEPT ![c] = line[c] + 1]
  BY <1>1 DEF Origins!Advances
<1>4. Begun' = Begun
  BY DEF Begun, Origins!ToSet
<1>5. /\ line' \in [SourceModules -> Nat] /\ line'[c] = line[c] + 1
      /\ \A m \in SourceModules \ {c} : line'[m] = line[m]
  BY <1>2, <1>3 DEF ModulesInv
<1>6. \A m : Origins!End(m)' = Origins!End(m)
  BY AnalysesKept
<1>7. \A m \in SourceModules : line'[m] \in 1..Origins!End(m)'
  <2>1. \A m \in SourceModules : line[m] \in 1..Origins!End(m)
    BY DEF ModulesInv
  <2>2. line[c] + 1 \in 1..(Len(sources[c]) + 1)
    BY <1>2
  <2>3. line'[c] \in 1..Origins!End(c)'
    BY <1>2, <1>5, <1>6, <2>2
  <2> QED
    BY <1>5, <1>6, <2>1, <2>3
<1>8. c \in Begun
  BY <1>2 DEF Begun
<1>9. \A m \in SourceModules \ Begun : line'[m] = 1
  BY <1>5, <1>8 DEF ModulesInv
<1>10. \A m \in loaded : line'[m] = Origins!End(m)'
  BY <1>2, <1>5, <1>6 DEF ModulesInv
<1>11. \A m \in SourceModules \ Begun, n \in SourceNames :
         values'[<<m, n>>] = Origins!Unbound /\ bound'[<<m, n>>] = 0
  BY <1>1, <1>8 DEF ModulesInv
<1>12. ProjectTyped'
  BY DEF ModulesInv, ProjectTyped
<1>13. ModulesInv'
  BY <1>4, <1>5, <1>7, <1>9, <1>10, <1>11, <1>12 DEF ModulesInv
<1> QED
  BY <1>1, <1>4, <1>5, <1>13

\* What is found of a name that the statement does not name.
LEMMA AfterOthers ==
  ASSUME NEW found, NEW s, NEW a, NEW b, NEW n, n # s.name
  PROVE  /\ n \in After(found, s, a, b).names => n \in found.names
         /\ n \in After(found, s, a, b).modules => n \in found.modules
<1>1. After(found, s, a, b)
        \in {Origins!Cleared(found, s.name), Origins!Named(found, s.name),
             Origins!Exporting(found, s.name), found}
  BY DEF After
<1>2. \A x \in {Origins!Cleared(found, s.name), Origins!Named(found, s.name),
                Origins!Exporting(found, s.name), found} :
        (n \in x.names => n \in found.names) /\ (n \in x.modules => n \in found.modules)
  BY DEF Origins!Cleared, Origins!Named, Origins!Exporting
<1> QED
  BY <1>1, <1>2

\* A statement leaves what there is of other names.
LEMMA OthersKept ==
  ASSUME ModulesInv, NEW c \in SourceModules, c \notin loaded, line[c] \in 1..Len(sources[c]),
         UNCHANGED <<sources, loading, loaded>>, line'[c] = line[c] + 1,
         \A m \in SourceModules \ {c} : line'[m] = line[m],
         \A y \in Origins!Names : y # <<c, sources[c][line[c]].name>> => values'[y] = values[y],
         NEW m \in SourceModules, NEW n \in SourceNames,
         <<m, n>> # <<c, sources[c][line[c]].name>>
  PROVE  /\ \A C : Leads(m, n, C) => Leads(m, n, C)'
         /\ \A V \in SUBSET Origins!Names : Marked(m, n, V) => Marked(m, n, V)'
         /\ Origins!Uncertain(m, n, line[m])' <=> Origins!Uncertain(m, n, line[m])
         /\ Origins!LastEvent(m, n, line[m])' = Origins!LastEvent(m, n, line[m])
<1>1. PICK s, k : s = sources[c][line[c]] /\ k = line[c]
  OBVIOUS
<1>2. /\ Origins!Resolved' = Origins!Resolved /\ Origins!References' = Origins!References
      /\ \A x : Origins!EndOf(x)' = Origins!EndOf(x)
  BY AnalysesKept
<1>3. ProjectTyped /\ k \in 1..Len(sources[c]) /\ k \in Nat
  BY <1>1, SourceFacts DEF ModulesInv
<1>4. k \in 1..Origins!End(c) /\ k + 1 \in 1..Origins!End(c)
  BY <1>3, SourceFacts
<1>5. <<m, n>> \in Origins!Names /\ values'[<<m, n>>] = values[<<m, n>>]
  BY <1>1 DEF Origins!Names
<1>6. m = c => line'[m] = k + 1 /\ line[m] = k /\ s.name # n
  BY <1>1
<1>7. m # c => line'[m] = line[m]
  OBVIOUS
<1>8. \A V \in SUBSET Origins!Names :
        Origins!Resolved[<<<<m, line'[m]>>, n, V>>] = Origins!Resolved[<<<<m, line[m]>>, n, V>>]
  <2>1. CASE m # c
    BY <1>7, <2>1
  <2>2. CASE m = c
    <3>1. Origins!Binding(c, n, k + 1) = Origins!Binding(c, n, k)
      BY <1>1, <1>3, <1>6, <2>2, BindingFacts
    <3>2. ASSUME NEW V \in SUBSET Origins!Names
          PROVE  Origins!Resolved[<<<<c, k + 1>>, n, V>>] = Origins!Resolved[<<<<c, k>>, n, V>>]
      <4>1. Origins!Resolved[<<<<c, k>>, n, V>>] = Through(c, n, V, Origins!Binding(c, n, k))
        BY <1>3, <1>4, ResolvedIs
      <4>2. Origins!Resolved[<<<<c, k + 1>>, n, V>>]
              = Through(c, n, V, Origins!Binding(c, n, k + 1))
        BY <1>3, <1>4, ResolvedIs
      <4> QED
        BY <3>1, <4>1, <4>2
    <3> QED
      BY <1>6, <2>2, <3>2
  <2> QED
    BY <2>1, <2>2
<1>9. ASSUME NEW C, Leads(m, n, C)
      PROVE  Leads(m, n, C)'
  <2>1. ASSUME NEW y \in C
        PROVE  values'[y] = values[y]
    <3>1. y \in Origins!Names /\ (y[1] \in loaded \/ y = <<m, n>>)
      BY <1>9 DEF Leads
    <3> QED
      BY <1>5, <3>1
  <2>2. ASSUME NEW V \in SUBSET Origins!Names, LeadsTo(m, n, C, V)
        PROVE  LeadsTo(m, n, C, V)'
    <3>1. PICK to : to = Origins!Resolved[<<<<m, line[m]>>, n, V>>]
      OBVIOUS
    <3>2. \/ to.at = "project" /\ to.name \in C /\ values'[<<m, n>>] = values'[to.name]
          \/ to.at = "library" /\ values'[<<m, n>>] = Origins!OfLibrary(to.name)
      BY <1>5, <2>1, <2>2, <3>1 DEF LeadsTo
    <3> QED
      BY <1>2, <1>8, <3>1, <3>2 DEF LeadsTo
  <2> QED
    BY <1>9, <2>2 DEF Leads
<1>10. \A v : IsOf(v)' <=> IsOf(v)
  <2>1. Begun' = Begun
    BY DEF Begun, Origins!ToSet
  <2>2. \A x : HasIt(x)' <=> HasIt(x)
    BY <1>2 DEF HasIt
  <2> QED
    BY <2>1, <2>2 DEF IsOf
<1>11. ASSUME NEW V \in SUBSET Origins!Names, Marked(m, n, V)
       PROVE  Marked(m, n, V)'
  <2>1. PICK found, now : /\ found = Origins!References[<<<<m, line[m]>>, V>>]
                          /\ now = Origins!References[<<<<m, line'[m]>>, V>>]
    OBVIOUS
  <2>2. (n \in now.names => n \in found.names) /\ (n \in now.modules => n \in found.modules)
    <3>1. CASE m # c
      BY <1>7, <2>1, <3>1
    <3>2. CASE m = c
      <4>1. PICK a, b : now = After(found, s, a, b)
        <5>1. PICK a, b : /\ a = Exports(Origins!References, V, s.module, s.orig)
                          /\ b = Exports(Origins!References, V, s.module, Symbol)
          OBVIOUS
        <5>2. Origins!References[<<<<c, k + 1>>, V>>] =
                After(Origins!References[<<<<c, k>>, V>>], s, a, b)
          BY <1>1, <1>3, <5>1, ReferencesAre DEF FoundAfter
        <5> QED
          BY <1>6, <2>1, <3>2, <5>2
      <4> QED
        BY <1>6, <3>2, <4>1, AfterOthers
    <3> QED
      BY <3>1, <3>2
  <2> QED
    BY <1>2, <1>5, <1>10, <1>11, <2>1, <2>2 DEF Marked
<1>12. /\ Origins!Uncertain(m, n, line[m])' <=> Origins!Uncertain(m, n, line'[m])
       /\ Origins!LastEvent(m, n, line[m])' = Origins!LastEvent(m, n, line'[m])
  BY DEF Origins!Uncertain, Origins!LastEvent, Origins!Conditional
<1>13. /\ Origins!Uncertain(m, n, line'[m]) <=> Origins!Uncertain(m, n, line[m])
       /\ Origins!LastEvent(m, n, line'[m]) = Origins!LastEvent(m, n, line[m])
  <2>1. CASE m # c
    BY <1>7, <2>1
  <2>2. CASE m = c
    <3>1. Origins!Uncertain(c, n, k + 1) <=> Origins!Uncertain(c, n, k)
      BY <1>1, <1>3, <1>6, <2>2, BindingFacts
    <3>2. Origins!LastEvent(c, n, k + 1) = Origins!LastEvent(c, n, k)
      BY <1>1, <1>3, <1>4, <1>6, <2>2, LastEventFacts
    <3> QED
      BY <1>6, <2>2, <3>1, <3>2
  <2> QED
    BY <2>1, <2>2
<1> QED
  BY <1>9, <1>11, <1>12, <1>13

\* Of the name a statement binds: where it comes from, if that was executed.
LEMMA NamedLeads ==
  ASSUME OriginsInv, checking, NEW c \in SourceModules, c \notin loaded,
         line[c] \in 1..Len(sources[c]), UNCHANGED <<sources, loading, loaded>>,
         line'[c] = line[c] + 1, NEW s, s = sources[c][line[c]], s \in Origins!Statements,
         \A y \in Origins!Names : y # <<c, s.name>> => values'[y] = values[y],
         s.kind = "from" /\ ~Origins!Conditional(s) =>
           \/ s.module = Library /\ values'[<<c, s.name>>] = Origins!OfLibrary(s.orig)
           \/ /\ s.module \in loaded /\ <<s.module, s.orig>> \notin unfinished
              /\ values[<<s.module, s.orig>>] # Origins!Unbound
              /\ values'[<<c, s.name>>] = values[<<s.module, s.orig>>]
  PROVE  \E C : Leads(c, s.name, C)'
<1>1. PICK k, n : k = line[c] /\ n = s.name
  OBVIOUS
<1>2. ProjectTyped /\ k \in 1..Len(sources[c]) /\ k \in Nat /\ loaded \subseteq SourceModules
  BY <1>1, SourceFacts DEF OriginsInv, ModulesInv
<1>3. k \in 1..Origins!End(c) /\ k + 1 \in 1..Origins!End(c) /\ k # 0
  BY <1>2, SourceFacts
<1>4. n \in SourceNames /\ <<c, n>> \in Origins!Names /\ s.orig \in SourceNames
  BY <1>1 DEF Origins!Statements, Origins!Names
<1>5. /\ Origins!Resolved' = Origins!Resolved
      /\ \A x : Origins!EndOf(x)' = Origins!EndOf(x)
  BY AnalysesKept
<1>6. Origins!Binding(c, n, k + 1) =
        IF Origins!Conditional(s) \/ ~Origins!IsImport(s) THEN 0 ELSE k
  <2>1. sources[c][k] = s /\ s.name = n
    BY <1>1
  <2>2. Origins!LastEvent(c, n, k + 1) = k
    BY <1>2, <1>3, <2>1, LastEventFacts
  <2> QED
    BY <1>3, <2>1, <2>2 DEF Origins!Binding
<1>7. \A V \in SUBSET Origins!Names :
        Origins!Resolved[<<<<c, k + 1>>, n, V>>] = Through(c, n, V, Origins!Binding(c, n, k + 1))
  BY <1>2, <1>3, <1>4, ResolvedIs
<1>8. \A V, C : LeadsTo(c, n, C, V)' <=>
        LET to == Origins!Resolved[<<<<c, k + 1>>, n, V>>]
        IN \/ to.at = "project" /\ to.name \in C /\ values'[<<c, n>>] = values'[to.name]
           \/ to.at = "library" /\ values'[<<c, n>>] = Origins!OfLibrary(to.name)
  BY <1>1, <1>5 DEF LeadsTo
<1>9. ASSUME \/ Origins!Conditional(s) \/ ~Origins!IsImport(s) \/ s.kind = "import"
             \/ s.kind = "from" /\ s.module = Library
      PROVE  Leads(c, n, {<<c, n>>})'
  <2>1. ASSUME NEW V \in SUBSET Origins!Names, V \cap {<<c, n>>} = {}
        PROVE  LeadsTo(c, n, {<<c, n>>}, V)'
    <3>1. PICK i, r : i = Origins!Binding(c, n, k + 1) /\ r = Through(c, n, V, i)
      OBVIOUS
    <3>2. CASE i = 0 \/ s.kind = "import"
      <4>1. i # 0 => sources[c][i] = s
        BY <1>1, <1>6, <3>1
      <4>2. r = [at |-> "project", name |-> <<c, n>>]
        BY <2>1, <3>1, <3>2, <4>1 DEF Through
      <4>3. Origins!Resolved[<<<<c, k + 1>>, n, V>>] = r
        BY <1>7, <3>1
      <4> QED
        BY <1>8, <4>2, <4>3
    <3>3. CASE i # 0 /\ s.kind # "import"
      <4>1. i = k /\ sources[c][i] = s /\ s.kind = "from" /\ ~Origins!Conditional(s)
        BY <1>1, <1>6, <3>1, <3>3 DEF Origins!IsImport
      <4>2. s.module = Library
        BY <1>6, <1>9, <3>1, <3>3, <4>1
      <4>3. r = [at |-> "library", name |-> s.orig]
        BY <2>1, <3>1, <3>3, <4>1, <4>2 DEF Through
      <4>4. Library \notin loaded
        BY <1>2 DEF ProjectTyped
      <4>5. values'[<<c, n>>] = Origins!OfLibrary(s.orig)
        BY <1>1, <4>1, <4>2, <4>4
      <4>6. Origins!Resolved[<<<<c, k + 1>>, n, V>>] = r
        BY <1>7, <3>1
      <4> QED
        BY <1>8, <4>3, <4>5, <4>6
    <3> QED
      BY <3>2, <3>3
  <2>2. Origins!Names' = Origins!Names
    BY DEF Origins!Names
  <2> QED
    BY <1>4, <2>1, <2>2 DEF Leads
<1>10. ASSUME ~Origins!Conditional(s), s.kind = "from", s.module # Library
       PROVE  \E C : Leads(c, n, C)'
  <2>1. PICK M, o : M = s.module /\ o = s.orig
    OBVIOUS
  <2>2. /\ M \in loaded /\ M \in SourceModules /\ <<M, o>> \notin unfinished
        /\ values[<<M, o>>] # Origins!Unbound /\ values'[<<c, n>>] = values[<<M, o>>]
        /\ M # c /\ M \in Begun
    BY <1>1, <1>2, <1>10, <2>1 DEF Begun
  <2>3. PICK C : Leads(M, o, C)
    BY <1>4, <2>1, <2>2 DEF OriginsInv, LeadsInv
  <2>4. line[M] = Origins!End(M)
    BY <2>2 DEF OriginsInv, ModulesInv
  <2>5. \A x \in C : x \in Origins!Names /\ x[1] \in loaded
    BY <2>2, <2>3 DEF Leads
  <2>6. \A x \in C : x # <<c, n>> /\ values'[x] = values[x]
    BY <1>1, <2>5
  <2>7. PICK D : D = C \cup {<<c, n>>}
    OBVIOUS
  <2>8. ASSUME NEW V \in SUBSET Origins!Names, V \cap D = {}
        PROVE  LeadsTo(c, n, D, V)'
    <3>1. PICK W : W = V \cup {<<c, n>>}
      OBVIOUS
    <3>2. W \in SUBSET Origins!Names /\ W \cap C = {}
      BY <1>4, <2>6, <2>7, <2>8, <3>1
    <3>3. LeadsTo(M, o, C, W)
      BY <2>3, <3>2 DEF Leads
    <3>4. PICK to : to = Origins!Resolved[<<Origins!EndOf(M), o, W>>]
      OBVIOUS
    <3>5. \/ to.at = "project" /\ to.name \in C /\ values[<<M, o>>] = values[to.name]
          \/ to.at = "library" /\ values[<<M, o>>] = Origins!OfLibrary(to.name)
      BY <2>4, <3>3, <3>4 DEF LeadsTo, Origins!EndOf
    <3>6. PICK i : i = Origins!Binding(c, n, k + 1)
      OBVIOUS
    <3>7. i = k /\ sources[c][i] = s /\ i # 0
      BY <1>1, <1>3, <1>6, <1>10, <3>6 DEF Origins!IsImport
    <3>8. Through(c, n, V, i) = to
      BY <1>10, <2>1, <2>7, <2>8, <3>1, <3>4, <3>7 DEF Through
    <3>9. Origins!Resolved[<<<<c, k + 1>>, n, V>>] = to
      BY <1>7, <3>6, <3>8
    <3>10. \/ to.at = "project" /\ to.name \in D /\ values'[<<c, n>>] = values'[to.name]
           \/ to.at = "library" /\ values'[<<c, n>>] = Origins!OfLibrary(to.name)
      BY <2>2, <2>6, <2>7, <3>5
    <3> QED
      BY <1>8, <3>9, <3>10
  <2>9. Origins!Names' = Origins!Names
    BY DEF Origins!Names
  <2>10. Leads(c, n, D)'
    BY <1>4, <2>5, <2>7, <2>8, <2>9 DEF Leads
  <2> QED
    BY <2>10
<1>11. Origins!IsImport(s) => s.kind \in {"from", "import"}
  BY DEF Origins!IsImport
<1> QED
  BY <1>1, <1>9, <1>10, <1>11

\* A statement whose condition is not met binds nothing, and is not taken to.
LEMMA SkipKeeps ==
  ASSUME OriginsInv, Origins!SkipStatement
  PROVE  OriginsInv'
<1>1. PICK c, s, k, nm : c = Origins!Current /\ s = Origins!Statement /\ k = line[c] /\ nm = s.name
  OBVIOUS
<1>2. /\ Origins!Running /\ ~Origins!AtEnd /\ ~Origins!Met /\ Origins!Advances
      /\ UNCHANGED <<sources, checking, loading, loaded, values, bound, unfinished>>
  BY DEF Origins!SkipStatement
<1>3. /\ c \in SourceModules /\ c \notin loaded /\ k \in 1..Len(sources[c]) /\ s = sources[c][k]
      /\ s \in Origins!Statements /\ nm \in SourceNames /\ ModulesInv /\ c \in Begun
  BY <1>1, <1>2, StatementFacts DEF OriginsInv, Begun
<1>4. /\ ModulesInv' /\ Begun' = Begun /\ line'[c] = k + 1
      /\ \A m \in SourceModules \ {c} : line'[m] = line[m]
  BY <1>1, <1>2, <1>3, AdvanceKeeps DEF ModulesInv
<1>5. \A m \in SourceModules, n \in SourceNames : <<m, n>> # <<c, nm>> =>
        /\ \A C : Leads(m, n, C) => Leads(m, n, C)'
        /\ \A V \in SUBSET Origins!Names : Marked(m, n, V) => Marked(m, n, V)'
        /\ Origins!Uncertain(m, n, line[m])' <=> Origins!Uncertain(m, n, line[m])
        /\ Origins!LastEvent(m, n, line[m])' = Origins!LastEvent(m, n, line[m])
  BY <1>1, <1>2, <1>3, <1>4, OthersKept
<1>6. Begun \subseteq SourceModules
  <2>1. \A i \in DOMAIN loading : loading[i] \in SourceModules
    BY <1>3 DEF ModulesInv
  <2> QED
    BY <1>3, <2>1 DEF Begun, ModulesInv, Origins!ToSet
<1>7. s.guard = "unmet" \/ (s.guard = "typing" /\ ~checking)
  BY <1>1, <1>2, <1>3 DEF Origins!Met, Origins!Statements
<1>8. ASSUME checking
      PROVE  Origins!Conditional(s) /\ Origins!Uncertain(c, nm, line[c])'
  <2>1. Origins!Conditional(s)
    BY <1>7, <1>8 DEF Origins!Conditional
  <2>2. ProjectTyped
    BY <1>3 DEF ModulesInv
  <2>3. Origins!Uncertain(c, nm, k + 1)
    BY <1>1, <1>3, <2>1, <2>2, BindingFacts
  <2>4. Origins!Uncertain(c, nm, line[c])' <=> Origins!Uncertain(c, nm, line'[c])
    BY <1>2 DEF Origins!Uncertain, Origins!LastEvent, Origins!Conditional
  <2> QED
    BY <1>4, <2>1, <2>3, <2>4
<1>9. BoundInv'
  <2>1. SUFFICES ASSUME checking, NEW m \in Begun, NEW n \in SourceNames,
                        ~Origins!Uncertain(m, n, line[m])'
                 PROVE  bound[<<m, n>>] = Origins!LastEvent(m, n, line[m])'
    BY <1>2, <1>4 DEF BoundInv
  <2>2. <<m, n>> # <<c, nm>>
    BY <1>8, <2>1
  <2> QED
    BY <1>5, <1>6, <2>1, <2>2 DEF OriginsInv, BoundInv
<1>10. LeadsInv'
  <2>1. SUFFICES ASSUME checking, NEW m \in Begun, NEW n \in SourceNames,
                        values[<<m, n>>] # Origins!Unbound, <<m, n>> \notin unfinished
                 PROVE  \E C : Leads(m, n, C)'
    BY <1>2, <1>4 DEF LeadsInv
  <2>2. CASE <<m, n>> # <<c, nm>>
    BY <1>5, <1>6, <2>1, <2>2 DEF OriginsInv, LeadsInv
  <2>3. CASE <<m, n>> = <<c, nm>>
    <3>1. \E C : Leads(c, nm, C)'
      BY <1>1, <1>2, <1>3, <1>4, <1>8, <2>1, NamedLeads
    <3> QED
      BY <2>3, <3>1
  <2> QED
    BY <2>2, <2>3
<1>11. MarkedInv'
  <2>1. SUFFICES ASSUME ~checking, NEW m \in Begun, NEW n \in SourceNames,
                        NEW V \in SUBSET Origins!Names, <<m, n>> \notin unfinished
                 PROVE  Marked(m, n, V)'
    <3>1. Origins!Names' = Origins!Names
      BY DEF Origins!Names
    <3> QED
      BY <1>2, <1>4, <3>1 DEF MarkedInv
  <2>2. Marked(m, n, V)
    BY <2>1 DEF OriginsInv, MarkedInv
  <2>3. CASE <<m, n>> # <<c, nm>>
    BY <1>5, <1>6, <2>1, <2>2, <2>3
  <2>4. CASE <<m, n>> = <<c, nm>>
    <3>1. PICK found, now : /\ found = Origins!References[<<<<c, k>>, V>>]
                            /\ now = Origins!References[<<<<c, k + 1>>, V>>]
      OBVIOUS
    <3>2. now \in {found, Origins!Cleared(found, nm)}
      <4>1. PICK a, b : /\ a = Exports(Origins!References, V, s.module, s.orig)
                        /\ b = Exports(Origins!References, V, s.module, Symbol)
        OBVIOUS
      <4>2. now = After(found, s, a, b)
        BY <1>3, <3>1, <4>1, ReferencesAre DEF ModulesInv, FoundAfter
      <4> QED
        BY <1>1, <1>7, <4>2 DEF After
    <3>3. (n \in now.names => n \in found.names) /\ (n \in now.modules => n \in found.modules)
      BY <3>2 DEF Origins!Cleared
    <3>4. Origins!References' = Origins!References
      BY <1>2, AnalysesKept
    <3>5. \A x : HasIt(x)' <=> HasIt(x)
      BY <1>2, <3>4, AnalysesKept DEF HasIt
    <3>6. \A v : IsOf(v)' <=> IsOf(v)
      BY <1>4, <3>5 DEF IsOf
    <3> QED
      BY <1>1, <1>2, <1>4, <2>2, <2>4, <3>1, <3>3, <3>4, <3>6 DEF Marked
  <2> QED
    BY <2>3, <2>4
<1> QED
  BY <1>4, <1>9, <1>10, <1>11 DEF OriginsInv

\* What a statement evaluates to, by its kind.
LEMMA ValueIs ==
  ASSUME NEW c, NEW s, c = Origins!Current, s = Origins!Statement, s \in Origins!Statements,
         s.kind # "delete"
  PROVE  /\ s.kind = "from" =>
              Origins!Value = IF s.module = Library THEN Origins!OfLibrary(s.orig)
                              ELSE values[<<s.module, s.orig>>]
         /\ s.kind = "import" => Origins!Value = Origins!ModuleObject(s.module)
         /\ s.kind = "assign" => Origins!Value = values[<<c, s.orig>>]
         /\ s.kind = "attribute" =>
              LET via == values[<<c, s.orig>>]
              IN Origins!Value =
                   IF via = Origins!ModuleObject(Library) THEN Origins!TheSymbol
                   ELSE IF \E m \in SourceModules : via = Origins!ModuleObject(m)
                   THEN values[<<via[2], Symbol>>]
                   ELSE Origins!Unbound
         /\ s.kind = "unpack" => Origins!Value = <<"unpacked", c, line[c]>>
<1>1. s.kind \in {"from", "import", "assign", "attribute", "define", "unpack"}
  BY DEF Origins!Statements
<1>2. CASE s.kind = "from"
  BY <1>2 DEF Origins!Value
<1>3. CASE s.kind = "import"
  BY <1>3 DEF Origins!Value
<1>4. CASE s.kind = "assign"
  BY <1>4 DEF Origins!Value
<1>5. CASE s.kind = "attribute"
  <2>1. PICK via : via = values[<<c, s.orig>>]
    OBVIOUS
  <2>2. Library \notin SourceModules
    BY CommandLineAssumption DEF Origins!ImportsAssumption
  <2>3. \A m \in SourceModules : Origins!ModuleObject(m) # Origins!ModuleObject(Library)
    BY <2>2 DEF Origins!ModuleObject
  <2>4. CASE via = Origins!ModuleObject(Library)
    BY <1>5, <2>1, <2>3, <2>4 DEF Origins!Value
  <2>5. CASE \E m \in SourceModules : via = Origins!ModuleObject(m)
    BY <1>5, <2>1, <2>3, <2>5 DEF Origins!Value
  <2>6. CASE /\ via # Origins!ModuleObject(Library)
             /\ ~\E m \in SourceModules : via = Origins!ModuleObject(m)
    BY <1>5, <2>1, <2>6 DEF Origins!Value
  <2> QED
    BY <1>5, <2>1, <2>3, <2>4, <2>5, <2>6
<1>6. CASE s.kind = "define"
  BY <1>6
<1>7. CASE s.kind = "unpack"
  BY <1>7 DEF Origins!Value
<1> QED
  BY <1>1, <1>2, <1>3, <1>4, <1>5, <1>6, <1>7

\* What is bound is told of its name, but early.
LEMMA ExecuteFacts ==
  ASSUME OriginsInv, Origins!ExecuteStatement, NEW c, NEW s, NEW k,
         c = Origins!Current, s = Origins!Statement, k = line[c]
  PROVE  /\ c \in SourceModules /\ c \notin loaded /\ k \in 1..Len(sources[c])
         /\ s = sources[c][k] /\ s \in Origins!Statements /\ s.name \in SourceNames
         /\ s.orig \in SourceNames /\ s.module \in SourceModules \cup {Library}
         /\ c \in Begun /\ ModulesInv' /\ Begun' = Begun /\ line'[c] = k + 1
         /\ \A m \in SourceModules \ {c} : line'[m] = line[m]
         /\ \A y \in Origins!Names : y # <<c, s.name>> =>
              /\ values'[y] = values[y] /\ bound'[y] = bound[y]
              /\ y \in unfinished' <=> y \in unfinished
         /\ bound'[<<c, s.name>>] = k
         /\ \/ values'[<<c, s.name>>] = Origins!Unbound
            \/ s.kind # "delete" /\ values'[<<c, s.name>>] = Origins!Value
                 /\ (Origins!Early => <<c, s.name>> \in unfinished')
         /\ UNCHANGED <<sources, checking, loading, loaded>>
<1>1. /\ Origins!Running /\ ~Origins!AtEnd /\ Origins!Advances
      /\ UNCHANGED <<sources, checking, loading, loaded>>
  BY DEF Origins!ExecuteStatement
<1>2. /\ c \in SourceModules /\ c \notin loaded /\ k \in 1..Len(sources[c])
      /\ s = sources[c][k] /\ s \in Origins!Statements /\ s.name \in SourceNames
      /\ s.orig \in SourceNames /\ s.module \in SourceModules \cup {Library}
      /\ c \in Begun /\ ModulesInv
  BY <1>1, StatementFacts DEF OriginsInv, Begun
<1>3. PICK x, v : /\ x = <<c, s.name>>
                  /\ v = IF s.kind = "delete" THEN Origins!Unbound ELSE Origins!Value
  OBVIOUS
<1>4. /\ values' = [values EXCEPT ![x] = v] /\ bound' = [bound EXCEPT ![x] = k]
      /\ unfinished' = IF v # Origins!Unbound /\ Origins!Early THEN unfinished \cup {x}
                       ELSE unfinished \ {x}
  <2>1. CASE s.kind = "delete"
    BY <1>3, <2>1 DEF Origins!ExecuteStatement, Origins!Binds
  <2>2. CASE s.kind # "delete"
    BY <1>3, <2>2 DEF Origins!ExecuteStatement, Origins!Binds
  <2> QED
    BY <2>1, <2>2
<1>5. x \in Origins!Names /\ DOMAIN values = Origins!Names /\ DOMAIN bound = Origins!Names
  BY <1>2, <1>3 DEF Origins!Names, ModulesInv
<1>6. /\ values'[x] = v /\ bound'[x] = k
      /\ \A y \in Origins!Names : y # x => values'[y] = values[y] /\ bound'[y] = bound[y]
      /\ DOMAIN values' = Origins!Names /\ DOMAIN bound' = Origins!Names
  BY <1>4, <1>5
<1>7. \A y : y # x => (y \in unfinished' <=> y \in unfinished)
  BY <1>4
<1>8. v = Origins!Unbound \/ (Origins!Early => x \in unfinished')
  BY <1>4
<1>9. \A m \in SourceModules \ {c}, n \in SourceNames :
        values'[<<m, n>>] = values[<<m, n>>] /\ bound'[<<m, n>>] = bound[<<m, n>>]
  BY <1>3, <1>6 DEF Origins!Names
<1>10. /\ ModulesInv' /\ Begun' = Begun /\ line'[c] = k + 1
       /\ \A m \in SourceModules \ {c} : line'[m] = line[m]
  BY <1>1, <1>2, <1>6, <1>9, AdvanceKeeps
<1> QED
  BY <1>1, <1>2, <1>3, <1>6, <1>7, <1>8, <1>10

\* What is taken for the symbol, or for a module that has it, when it is bound.
LEMMA NamedMarked ==
  ASSUME OriginsInv, Origins!ExecuteStatement, ~checking, NEW c, NEW s, NEW k, NEW x,
         c = Origins!Current, s = Origins!Statement, k = line[c], x = <<c, s.name>>,
         x \notin unfinished', NEW V \in SUBSET Origins!Names
  PROVE  Marked(c, s.name, V)'
<1>1. PICK v : v = values'[x]
  OBVIOUS
<1>2. /\ c \in SourceModules /\ c \notin loaded /\ k \in 1..Len(sources[c])
      /\ s = sources[c][k] /\ s \in Origins!Statements /\ s.name \in SourceNames
      /\ s.orig \in SourceNames /\ s.module \in SourceModules \cup {Library}
      /\ c \in Begun /\ Begun' = Begun /\ line'[c] = k + 1 /\ UNCHANGED sources
      /\ v = Origins!Unbound \/ (s.kind # "delete" /\ v = Origins!Value /\ ~Origins!Early)
  BY <1>1, ExecuteFacts
<1>3. PICK found, now : /\ found = Origins!References[<<<<c, k>>, V>>]
                        /\ now = Origins!References[<<<<c, k + 1>>, V>>]
  OBVIOUS
<1>4. ModulesInv /\ ProjectTyped /\ Library \notin SourceModules /\ Symbol \in SourceNames
  BY DEF OriginsInv, ModulesInv, ProjectTyped
<1>5. PICK a, b : /\ a = Exports(Origins!References, V, s.module, s.orig)
                  /\ b = Exports(Origins!References, V, s.module, Symbol)
  OBVIOUS
<1>6. now = After(found, s, a, b)
  <2>1. c \in SourceModules /\ k \in 1..Len(sources[c]) /\ sources[c][k] = s
    BY <1>2
  <2>2. Origins!References[<<<<c, k + 1>>, V>>] = FoundAfter(c, k, V)
    BY <1>4, <2>1, ReferencesAre
  <2> QED
    BY <1>3, <1>5, <2>1, <2>2 DEF FoundAfter
<1>7. \A m \in Begun, n \in SourceNames : \A W \in SUBSET Origins!Names :
        <<m, n>> \notin unfinished => Marked(m, n, W)
  BY DEF OriginsInv, MarkedInv
<1>8. SUFFICES (s.name \in now.names => IsIt(v)) /\ (s.name \in now.modules => IsOf(v))
  <2>1. Origins!References' = Origins!References
    BY <1>2, AnalysesKept
  <2>2. \A y : HasIt(y)' <=> HasIt(y)
    BY <1>2, <2>1, AnalysesKept DEF HasIt
  <2>3. \A w : IsOf(w)' <=> IsOf(w)
    BY <1>2, <2>2 DEF IsOf
  <2> QED
    BY <1>1, <1>2, <1>3, <2>1, <2>3 DEF Marked
<1>9. CASE v = Origins!Unbound
  BY <1>9 DEF IsIt, IsOf
<1>10. SUFFICES ASSUME v # Origins!Unbound, s.guard = "always"
                PROVE  (s.name \in now.names => IsIt(v)) /\ (s.name \in now.modules => IsOf(v))
  <2>1. s.guard \in {"always", "met"}
    BY DEF Origins!ExecuteStatement, Origins!Met
  <2>2. CASE s.guard = "met"
    <3>1. now = Origins!Cleared(found, s.name)
      BY <1>6, <2>2 DEF After
    <3> QED
      BY <3>1 DEF Origins!Cleared
  <2> QED
    BY <1>9, <2>1, <2>2
<1>11. s.kind # "delete" /\ v = Origins!Value /\ ~Origins!Early
  BY <1>2, <1>10
<1>12. ASSUME NEW y \in loaded, NEW n \in SourceNames, NEW W \in SUBSET Origins!Names,
              <<y, n>> \notin unfinished,
              n \in Origins!References[<<Origins!EndOf(y), W>>].names
       PROVE  IsIt(values[<<y, n>>])
  <2>1. y \in Begun /\ y \in SourceModules /\ line[y] = Origins!End(y)
    BY <1>4 DEF ModulesInv, Begun
  <2>2. Marked(y, n, W)
    BY <1>7, <1>12, <2>1
  <2> QED
    BY <1>12, <2>1, <2>2 DEF Marked, Origins!EndOf
<1>13. CASE s.kind = "from"
  <2>1. now = IF a THEN Origins!Named(found, s.name) ELSE Origins!Cleared(found, s.name)
    BY <1>6, <1>10, <1>13 DEF After, Origins!IsImport
  <2>2. SUFFICES ASSUME a
                 PROVE  IsIt(v)
    BY <2>1 DEF Origins!Named, Origins!Cleared
  <2>3. CASE s.module = Library
    <3>1. s.orig = Symbol
      BY <1>5, <2>2, <2>3 DEF Exports
    <3>2. v = Origins!TheSymbol
      BY <1>2, <1>11, <1>13, <2>3, <3>1, ValueIs DEF Origins!OfLibrary
    <3> QED
      BY <3>2 DEF IsIt
  <2>4. CASE s.module # Library
    <3>1. s.module \in loaded /\ <<s.module, s.orig>> \notin unfinished
      BY <1>11, <1>13, <2>4 DEF Origins!Early, Origins!Imports
    <3>2. PICK W : W = V \cup {<<s.module, s.orig>>}
      OBVIOUS
    <3>3. /\ W \in SUBSET Origins!Names
          /\ s.orig \in Origins!References[<<Origins!EndOf(s.module), W>>].names
      <4>1. <<s.module, s.orig>> \in Origins!Names
        BY <1>2, <1>4, <2>4 DEF Origins!Names
      <4>2. s.orig \in Origins!References[<<Origins!EndOf(s.module), W>>].names
        BY <1>5, <2>2, <2>4, <3>2 DEF Exports
      <4> QED
        BY <3>2, <4>1, <4>2
    <3>4. IsIt(values[<<s.module, s.orig>>])
      BY <1>2, <1>12, <3>1, <3>3
    <3> QED
      BY <1>2, <1>11, <1>13, <2>4, <3>4, ValueIs
  <2> QED
    BY <2>3, <2>4
<1>14. CASE s.kind = "import"
  <2>1. now = IF b THEN Origins!Exporting(found, s.name) ELSE Origins!Cleared(found, s.name)
    BY <1>6, <1>10, <1>14 DEF After, Origins!IsImport
  <2>2. SUFFICES ASSUME b
                 PROVE  IsOf(v)
    BY <2>1 DEF Origins!Exporting, Origins!Cleared
  <2>3. v = Origins!ModuleObject(s.module)
    BY <1>2, <1>11, <1>14, ValueIs
  <2>4. CASE s.module = Library
    BY <2>3, <2>4 DEF IsOf
  <2>5. CASE s.module # Library
    <3>1. s.module \in Begun
      BY <1>14, <2>5 DEF Origins!ExecuteStatement, Origins!Imports, Origins!Started, Begun
    <3>2. PICK W : W = V \cup {<<s.module, Symbol>>}
      OBVIOUS
    <3>3. /\ W \in SUBSET Origins!Names
          /\ Symbol \in Origins!References[<<Origins!EndOf(s.module), W>>].names
      <4>1. <<s.module, Symbol>> \in Origins!Names
        BY <1>2, <1>4, <2>5 DEF Origins!Names
      <4>2. Symbol \in Origins!References[<<Origins!EndOf(s.module), W>>].names
        BY <1>5, <2>2, <2>5, <3>2 DEF Exports
      <4> QED
        BY <3>2, <4>1, <4>2
    <3> QED
      BY <2>3, <3>1, <3>3 DEF IsOf, HasIt
  <2> QED
    BY <2>4, <2>5
<1>15. CASE s.kind = "assign"
  <2>1. now = IF s.orig \in found.names THEN Origins!Named(found, s.name)
              ELSE IF s.orig \in found.modules THEN Origins!Exporting(found, s.name)
              ELSE Origins!Cleared(found, s.name)
    BY <1>6, <1>10, <1>15 DEF After, Origins!IsImport
  <2>2. <<c, s.orig>> \notin unfinished
    BY <1>11, <1>15 DEF Origins!Early
  <2>3. v = values[<<c, s.orig>>]
    BY <1>2, <1>11, <1>15, ValueIs
  <2>4. Marked(c, s.orig, V)
    BY <1>2, <1>7, <2>2
  <2>5. (s.orig \in found.names => IsIt(v)) /\ (s.orig \in found.modules => IsOf(v))
    BY <1>3, <2>3, <2>4 DEF Marked
  <2> QED
    BY <2>1, <2>5 DEF Origins!Named, Origins!Exporting, Origins!Cleared
<1>16. CASE s.kind = "attribute"
  <2>1. now = IF s.orig \in found.modules THEN Origins!Named(found, s.name)
              ELSE Origins!Cleared(found, s.name)
    BY <1>6, <1>10, <1>16 DEF After, Origins!IsImport
  <2>2. SUFFICES ASSUME s.orig \in found.modules
                 PROVE  IsIt(v)
    BY <2>1 DEF Origins!Named, Origins!Cleared
  <2>3. PICK via : via = values[<<c, s.orig>>]
    OBVIOUS
  <2>4. <<c, s.orig>> \notin unfinished
    BY <1>11, <1>16 DEF Origins!Early
  <2>5. IsOf(via)
    <3>1. Marked(c, s.orig, V)
      BY <1>2, <1>7, <2>4
    <3> QED
      BY <1>3, <2>2, <2>3, <3>1 DEF Marked
  <2>6. v = IF via = Origins!ModuleObject(Library) THEN Origins!TheSymbol
            ELSE IF \E m \in SourceModules : via = Origins!ModuleObject(m)
            THEN values[<<via[2], Symbol>>] ELSE Origins!Unbound
    BY <1>2, <1>11, <1>16, <2>3, ValueIs
  <2>7. CASE via = Origins!ModuleObject(Library)
    BY <2>6, <2>7 DEF IsIt
  <2>8. CASE via # Origins!ModuleObject(Library)
    <3>1. PICK m \in SourceModules : via = Origins!ModuleObject(m)
      BY <1>10, <2>6, <2>8
    <3>2. v = values[<<m, Symbol>>]
      BY <2>6, <2>8, <3>1 DEF Origins!ModuleObject
    <3>3. m \in loaded /\ <<m, Symbol>> \notin unfinished
      BY <1>2, <1>11, <1>16, <2>3, <3>1 DEF Origins!Early
    <3>4. ~(via \in {Origins!Unbound, Origins!ModuleObject(Library)} \/ Origins!Unpacked(via))
      BY <2>8, <3>1 DEF Origins!Unbound, Origins!ModuleObject, Origins!Unpacked
    <3>5. PICK y \in Begun : via = Origins!ModuleObject(y) /\ HasIt(y)
      BY <2>5, <3>4 DEF IsOf
    <3>6. y = m
      BY <3>1, <3>5 DEF Origins!ModuleObject
    <3>7. PICK W \in SUBSET Origins!Names :
            Symbol \in Origins!References[<<Origins!EndOf(m), W>>].names
      BY <3>5, <3>6 DEF HasIt
    <3>8. IsIt(values[<<m, Symbol>>])
      BY <1>4, <1>12, <3>3, <3>7
    <3> QED
      BY <3>2, <3>8
  <2> QED
    BY <2>7, <2>8
<1>17. CASE s.kind = "define"
  <2>1. now = Origins!Cleared(found, s.name)
    BY <1>6, <1>10, <1>17 DEF After, Origins!IsImport
  <2> QED
    BY <2>1 DEF Origins!Cleared
<1>18. CASE s.kind = "unpack"
  <2>1. v = <<"unpacked", c, line[c]>>
    BY <1>2, <1>11, <1>18, ValueIs
  <2>2. Origins!Unpacked(v)
    BY <2>1 DEF Origins!Unpacked
  <2> QED
    BY <2>2 DEF IsIt, IsOf
<1>19. s.kind \in {"from", "import", "assign", "attribute", "define", "unpack"}
  BY <1>2, <1>11 DEF Origins!Statements
<1> QED
  BY <1>13, <1>14, <1>15, <1>16, <1>17, <1>18, <1>19

\* A statement that is executed binds what the analyses take of it.
LEMMA ExecuteStatementKeeps ==
  ASSUME OriginsInv, Origins!ExecuteStatement
  PROVE  OriginsInv'
<1>1. PICK c, s, k, nm : c = Origins!Current /\ s = Origins!Statement /\ k = line[c] /\ nm = s.name
  OBVIOUS
<1>2. /\ c \in SourceModules /\ c \notin loaded /\ k \in 1..Len(sources[c])
      /\ s = sources[c][k] /\ s \in Origins!Statements /\ nm \in SourceNames
      /\ s.orig \in SourceNames /\ s.module \in SourceModules \cup {Library}
      /\ c \in Begun /\ ModulesInv' /\ Begun' = Begun /\ line'[c] = k + 1
      /\ \A m \in SourceModules \ {c} : line'[m] = line[m]
      /\ \A y \in Origins!Names : y # <<c, nm>> =>
           /\ values'[y] = values[y] /\ bound'[y] = bound[y]
           /\ y \in unfinished' <=> y \in unfinished
      /\ bound'[<<c, nm>>] = k
      /\ \/ values'[<<c, nm>>] = Origins!Unbound
         \/ s.kind # "delete" /\ values'[<<c, nm>>] = Origins!Value
              /\ (Origins!Early => <<c, nm>> \in unfinished')
      /\ UNCHANGED <<sources, checking, loading, loaded>>
  BY <1>1, ExecuteFacts
<1>3. ModulesInv /\ ProjectTyped
  BY DEF OriginsInv, ModulesInv
<1>4. \A m \in SourceModules, n \in SourceNames : <<m, n>> # <<c, nm>> =>
        /\ \A C : Leads(m, n, C) => Leads(m, n, C)'
        /\ \A V \in SUBSET Origins!Names : Marked(m, n, V) => Marked(m, n, V)'
        /\ Origins!Uncertain(m, n, line[m])' <=> Origins!Uncertain(m, n, line[m])
        /\ Origins!LastEvent(m, n, line[m])' = Origins!LastEvent(m, n, line[m])
  BY <1>1, <1>2, <1>3, OthersKept
<1>5. Begun \subseteq SourceModules
  <2>1. \A i \in DOMAIN loading : loading[i] \in SourceModules
    BY <1>3 DEF ModulesInv
  <2> QED
    BY <1>3, <2>1 DEF Begun, ModulesInv, Origins!ToSet
<1>6. ASSUME NEW m \in Begun, NEW n \in SourceNames, <<m, n>> # <<c, nm>>
      PROVE  /\ values'[<<m, n>>] = values[<<m, n>>] /\ bound'[<<m, n>>] = bound[<<m, n>>]
             /\ <<m, n>> \in unfinished' <=> <<m, n>> \in unfinished
  <2>1. <<m, n>> \in Origins!Names
    BY <1>5 DEF Origins!Names
  <2> QED
    BY <1>2, <1>6, <2>1
<1>7. BoundInv'
  <2>1. SUFFICES ASSUME checking, NEW m \in Begun, NEW n \in SourceNames,
                        ~Origins!Uncertain(m, n, line[m])'
                 PROVE  bound'[<<m, n>>] = Origins!LastEvent(m, n, line[m])'
    BY <1>2 DEF BoundInv
  <2>2. CASE <<m, n>> # <<c, nm>>
    BY <1>4, <1>5, <1>6, <2>1, <2>2 DEF OriginsInv, BoundInv
  <2>3. CASE <<m, n>> = <<c, nm>>
    <3>1. k \in 1..Origins!End(c)
      BY <1>2, <1>3, SourceFacts
    <3>2. sources[c][k].name = nm
      BY <1>1, <1>2
    <3>3. Origins!LastEvent(c, nm, k + 1) = k
      <4>1. /\ c \in SourceModules /\ k \in 1..Origins!End(c)
            /\ k \in 1..Len(sources[c]) /\ sources[c][k].name = nm
        BY <1>2, <3>1, <3>2
      <4> QED
        BY <1>3, <4>1, LastEventFacts
    <3>4. Origins!LastEvent(c, nm, line[c])' = Origins!LastEvent(c, nm, line'[c])
      BY <1>2 DEF Origins!LastEvent
    <3> QED
      BY <1>2, <2>3, <3>3, <3>4
  <2> QED
    BY <2>2, <2>3
<1>8. LeadsInv'
  <2>1. SUFFICES ASSUME checking, NEW m \in Begun, NEW n \in SourceNames,
                        values'[<<m, n>>] # Origins!Unbound, <<m, n>> \notin unfinished'
                 PROVE  \E C : Leads(m, n, C)'
    BY <1>2 DEF LeadsInv
  <2>2. CASE <<m, n>> # <<c, nm>>
    BY <1>4, <1>5, <1>6, <2>1, <2>2 DEF OriginsInv, LeadsInv
  <2>3. CASE <<m, n>> = <<c, nm>>
    <3>1. s.kind # "delete" /\ values'[<<c, nm>>] = Origins!Value /\ ~Origins!Early
      BY <1>2, <2>1, <2>3
    <3>2. ASSUME s.kind = "from"
          PROVE  \/ s.module = Library /\ values'[<<c, nm>>] = Origins!OfLibrary(s.orig)
                 \/ /\ s.module \in loaded /\ <<s.module, s.orig>> \notin unfinished
                    /\ values[<<s.module, s.orig>>] # Origins!Unbound
                    /\ values'[<<c, nm>>] = values[<<s.module, s.orig>>]
      <4>1. Origins!Value = IF s.module = Library THEN Origins!OfLibrary(s.orig)
                            ELSE values[<<s.module, s.orig>>]
        BY <1>1, <1>2, <3>1, <3>2, ValueIs
      <4>2. s.module # Library =>
              s.module \in loaded /\ <<s.module, s.orig>> \notin unfinished
        BY <1>1, <3>1, <3>2 DEF Origins!Early, Origins!Imports
      <4>3. CASE s.module = Library
        BY <3>1, <4>1, <4>3
      <4>4. CASE s.module # Library
        BY <2>1, <2>3, <3>1, <4>1, <4>2, <4>4
      <4> QED
        BY <4>3, <4>4
    <3>3. \A y \in Origins!Names : y # <<c, s.name>> => values'[y] = values[y]
      BY <1>1, <1>2
    <3>4. \E C : Leads(c, s.name, C)'
      BY <1>1, <1>2, <2>1, <3>2, <3>3, NamedLeads
    <3> QED
      BY <1>1, <2>3, <3>4
  <2> QED
    BY <2>2, <2>3
<1>9. MarkedInv'
  <2>1. SUFFICES ASSUME ~checking, NEW m \in Begun, NEW n \in SourceNames,
                        NEW V \in SUBSET Origins!Names, <<m, n>> \notin unfinished'
                 PROVE  Marked(m, n, V)'
    <3>1. Origins!Names' = Origins!Names
      BY DEF Origins!Names
    <3> QED
      BY <1>2, <3>1 DEF MarkedInv
  <2>2. CASE <<m, n>> # <<c, nm>>
    BY <1>4, <1>5, <1>6, <2>1, <2>2 DEF OriginsInv, MarkedInv
  <2>3. CASE <<m, n>> = <<c, nm>>
    <3>1. Marked(c, nm, V)'
      BY <1>1, <2>1, <2>3, NamedMarked
    <3> QED
      BY <2>3, <3>1
  <2> QED
    BY <2>2, <2>3
<1> QED
  BY <1>2, <1>7, <1>8, <1>9 DEF OriginsInv

\* No step of the interpreter makes an analysis wrong.
LEMMA OriginsNext ==
  ASSUME OriginsInv, [Origins!ImportsNext]_importVars
  PROVE  OriginsInv'
BY LoadKeeps, EnterKeeps, ExecuteStatementKeeps, SkipKeeps, LeaveKeeps, OriginsStutter
   DEF Origins!ImportsNext

\* Names are what the analyses say.
LEMMA OriginsSay ==
  ASSUME OriginsInv
  PROVE  Origins!OriginsAreTrue
<1>1. {} \in SUBSET Origins!Names
  OBVIOUS
<1>2. ASSUME checking, NEW m \in Begun, NEW n \in SourceNames,
             values[<<m, n>>] # Origins!Unbound, <<m, n>> \notin unfinished
      PROVE  LET to == Origins!Resolved[<<<<m, line[m]>>, n, {}>>] IN
             CASE to.at = "project" -> values[<<m, n>>] = values[to.name]
               [] to.at = "library" -> values[<<m, n>>] = Origins!OfLibrary(to.name)
               [] to.at = "nowhere" -> FALSE
  <2>1. PICK C : Leads(m, n, C)
    BY <1>2 DEF OriginsInv, LeadsInv
  <2>2. LeadsTo(m, n, C, {})
    BY <1>1, <2>1 DEF Leads
  <2>3. PICK to : to = Origins!Resolved[<<<<m, line[m]>>, n, {}>>]
    OBVIOUS
  <2>4. \/ to.at = "project" /\ values[<<m, n>>] = values[to.name]
        \/ to.at = "library" /\ values[<<m, n>>] = Origins!OfLibrary(to.name)
    BY <2>2, <2>3 DEF LeadsTo
  <2>5. CASE to.at = "project"
    BY <2>3, <2>4, <2>5
  <2>6. CASE to.at = "library"
    BY <2>3, <2>4, <2>6
  <2> QED
    BY <2>4, <2>5, <2>6
<1>3. Origins!BindingsAreTrue
  BY <1>2 DEF Origins!BindingsAreTrue, OriginsInv, BoundInv, Begun
<1>4. ASSUME ~checking, NEW m \in Begun, NEW n \in SourceNames, <<m, n>> \notin unfinished
      PROVE  LET found == Origins!References[<<<<m, line[m]>>, {}>>]
                 v == values[<<m, n>>]
             IN /\ n \in found.names => IsIt(v)
                /\ n \in found.modules =>
                     \/ v \in {Origins!Unbound, Origins!ModuleObject(Library)} \/ Origins!Unpacked(v)
                     \/ \E exporting \in loaded :
                          /\ v = Origins!ModuleObject(exporting)
                          /\ \/ IsIt(values[<<exporting, Symbol>>])
                             \/ <<exporting, Symbol>> \in unfinished
                     \/ \E exporting \in Origins!ToSet(loading) :
                          v = Origins!ModuleObject(exporting)
  <2>1. PICK found, v : found = Origins!References[<<<<m, line[m]>>, {}>>] /\ v = values[<<m, n>>]
    OBVIOUS
  <2>2. Marked(m, n, {})
    BY <1>1, <1>4 DEF OriginsInv, MarkedInv
  <2>3. (n \in found.names => IsIt(v)) /\ (n \in found.modules => IsOf(v))
    BY <2>1, <2>2 DEF Marked
  <2>4. ASSUME NEW x \in loaded, HasIt(x), <<x, Symbol>> \notin unfinished
        PROVE  IsIt(values[<<x, Symbol>>])
    <3>1. /\ x \in Begun /\ x \in SourceModules /\ line[x] = Origins!End(x)
          /\ Symbol \in SourceNames
      BY DEF OriginsInv, ModulesInv, ProjectTyped, Begun
    <3>2. PICK V \in SUBSET Origins!Names :
            Symbol \in Origins!References[<<Origins!EndOf(x), V>>].names
      BY <2>4 DEF HasIt
    <3>3. Marked(x, Symbol, V)
      BY <1>4, <2>4, <3>1 DEF OriginsInv, MarkedInv
    <3> QED
      BY <3>1, <3>2, <3>3 DEF Marked, Origins!EndOf
  <2>5. n \in found.modules =>
          \/ v \in {Origins!Unbound, Origins!ModuleObject(Library)} \/ Origins!Unpacked(v)
          \/ \E exporting \in loaded :
               /\ v = Origins!ModuleObject(exporting)
               /\ IsIt(values[<<exporting, Symbol>>]) \/ <<exporting, Symbol>> \in unfinished
          \/ \E exporting \in Origins!ToSet(loading) : v = Origins!ModuleObject(exporting)
    BY <2>3, <2>4 DEF IsOf, Begun
  <2> QED
    BY <2>1, <2>3, <2>5
<1>5. Origins!ReferencesAreTrue
  BY <1>4 DEF Origins!ReferencesAreTrue, IsIt, Begun
<1> QED
  BY <1>3, <1>5 DEF Origins!OriginsAreTrue

-----------------------------------------------------------------------------
(* The command line.                                                        *)

\* What each part keeps of what it has read.
CommandLineInv == DeclarationInv /\ OriginsInv /\ ReplayInv /\ ConfigurationInv

\* Before the first command, nothing has been read.
LEMMA CommandLineInitInv == CommandLineInit => CommandLineInv
BY DeclarationInit, OriginsInit, ReplayInit, ConfigurationInit
   DEF CommandLineInit, CommandLineInv

\* A step is a step of one of the parts at most, and leaves the others alone.
LEMMA CommandLineSteps ==
  ASSUME [CommandLineNext]_commandLineVars
  PROVE  /\ [Declaration!DeclarationNext]_declarationVars
         /\ [Origins!ImportsNext]_importVars
         /\ [Replays!ReplayNext]_replayVars
         /\ [Configurations!ConfigurationNext]_configurationVars
<1>1. CASE CommandLineNext
  <2>1. \/ UNCHANGED <<declarationVars, importVars, replayVars, configurationVars>>
        \/ /\ Declaration!DeclarationNext
           /\ UNCHANGED <<importVars, replayVars, configurationVars>>
        \/ /\ Origins!ImportsNext
           /\ UNCHANGED <<declarationVars, replayVars, configurationVars>>
        \/ /\ Replays!ReplayNext
           /\ UNCHANGED <<declarationVars, importVars, configurationVars>>
        \/ /\ Configurations!ConfigurationNext
           /\ UNCHANGED <<declarationVars, importVars, replayVars>>
    BY <1>1 DEF CommandLineNext
  <2> QED
    BY <2>1
<1>2. CASE UNCHANGED commandLineVars
  BY <1>2 DEF commandLineVars
<1> QED
  BY <1>1, <1>2

\* No step makes what is taken of a project wrong.
LEMMA CommandLineNextInv ==
  ASSUME CommandLineInv, [CommandLineNext]_commandLineVars
  PROVE  CommandLineInv'
<1>1. /\ [Declaration!DeclarationNext]_declarationVars
      /\ [Origins!ImportsNext]_importVars
      /\ [Replays!ReplayNext]_replayVars
      /\ [Configurations!ConfigurationNext]_configurationVars
  BY CommandLineSteps
<1>2. DeclarationInv'
  BY <1>1, DeclarationNext DEF CommandLineInv
<1>3. OriginsInv'
  BY <1>1, OriginsNext DEF CommandLineInv
<1>4. ReplayInv'
  BY <1>1, ReplayNext DEF CommandLineInv
<1>5. ConfigurationInv'
  BY <1>1, ConfigurationNext DEF CommandLineInv
<1> QED
  BY <1>2, <1>3, <1>4, <1>5 DEF CommandLineInv

\* What the command line takes of a project without running it is so, whatever the
\* state machines, modules, recipes and configurations.
THEOREM AcceptedIsAlwaysTrue == CommandLineSpec => []AcceptedIsTrue
<1>1. CommandLineInit => CommandLineInv
  BY CommandLineInitInv
<1>2. CommandLineInv /\ [CommandLineNext]_commandLineVars => CommandLineInv'
  BY CommandLineNextInv
<1>3. CommandLineInv => AcceptedIsTrue
  BY DeclarationSays, OriginsSay, ReplaySays, ConfigurationSays
     DEF CommandLineInv, AcceptedIsTrue
<1> QED
  BY <1>1, <1>2, <1>3, PTL DEF CommandLineSpec

\* The commands that generate files do what they do, whatever is taken of projects.
THEOREM GenerationIsPartOfIt == CommandLineSpec => Spec
<1>1. CommandLineInit => Init
  BY DEF CommandLineInit
<1>2. [CommandLineNext]_commandLineVars => [Next]_vars
  <2>1. CommandLineNext => [Next]_vars
    BY DEF CommandLineNext, generationVars
  <2>2. UNCHANGED commandLineVars => UNCHANGED vars
    BY DEF commandLineVars, generationVars
  <2> QED
    BY <2>1, <2>2
<1> QED
  BY <1>1, <1>2, PTL DEF CommandLineSpec, Spec
=============================================================================
