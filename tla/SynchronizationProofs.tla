----------------------- MODULE SynchronizationProofs ------------------------
(***************************************************************************)
(* What a synchronization scope claims of its progress is true, for any    *)
(* number of jobs, keys, changes and failing calls: the inductive          *)
(* invariant says what the frame of the claim's owner still knows of the   *)
(* source, the target and the checkpoint.                                  *)
(***************************************************************************)
EXTENDS Synchronization, TLAPS, FiniteSetTheorems, WellFoundedInduction

USE JobsAssumption, LimitsAssumption

-----------------------------------------------------------------------------
(* The inductive invariant.                                                 *)

Working == {"poll", "fetch", "item", "commit", "save", "finish", "sweep", "publish"}
Holding == Working \union {"close", "release"}
Fetched == {"item", "commit", "save", "finish", "sweep", "publish"}
Opening == {"reserve", "claim", "refused"}

Waiting(f) == f.items \union f.rest
Concluded(r) == r # NoReport /\ r.complete

\* The source only moves on: nothing is applied that it did not give, and nothing that
\* is older than what it now has of the key has a later number.
Timely ==
  /\ checkpoint.cursor <= changes
  /\ \A k \in Keys :
       /\ source[k] <= changes /\ handled[k] <= changes /\ target[k] <= changes
       /\ source[k] # 0 => handled[k] <= source[k] /\ target[k] <= source[k]

\* From the claim to the release the job owns the scope, and while it works nobody
\* else moves the checkpoint.
Held(j) ==
  LET f == run[j] IN
    /\ f.pc \in Holding => owner = j
    /\ f.pc \in Working => f.version = checkpoint.version
    /\ f.pc \in {"fetch", "item", "commit"} => f.report.pages < MaxPages
    /\ f.pc \notin Working => f.items = {} /\ f.rest = {} /\ f.seen = {}
    /\ f.pc \in Opening => f.listed = {}

\* No item in hand is later than what the source now has of its key.
Dated(j) ==
  \A i \in run[j].listed \union Waiting(run[j]) :
    i.change <= changes /\ (source[i.key] # 0 => i.change <= source[i.key])

\* No item that waits is older than what was applied of its key.
Pending(j) ==
  LET f == run[j] IN
    f.pc \in Working =>
      /\ \A i \in Waiting(f) : handled[i.key] <= i.change /\ target[i.key] <= i.change
      /\ \A i, o \in Waiting(f) : i.key = o.key => i = o
      /\ f.pc # "item" => f.items = {}

\* An incremental job has the changes up to its watermark in hand or behind it.
Covered(j) ==
  LET f == run[j] IN
    Mode[j] = "incremental" /\ f.pc \in Working =>
      /\ f.pc # "sweep"
      /\ f.pc \in {"poll", "fetch", "item", "commit"} => f.cursor = checkpoint.cursor
      /\ f.pc \in {"save", "finish", "publish"} => f.watermark = checkpoint.cursor
      /\ f.pc \in {"item", "commit"} =>
           /\ checkpoint.cursor <= f.watermark /\ f.watermark <= changes
           /\ \A k \in Keys : source[k] <= f.watermark =>
                \/ handled[k] >= source[k]
                \/ \E i \in f.items : i.key = k /\ i.change = source[k]
      /\ f.pc \in Fetched /\ ~f.more =>
           \A i \in f.listed : source[i.key] = i.change => i.change <= f.watermark
      /\ f.pc \in {"finish", "publish"} => ~f.more

\* A full job has what it listed in hand or behind it.
Enumerated(j) ==
  LET f == run[j] IN
    Mode[j] = "full" /\ f.pc \in Working =>
      /\ \A i \in f.listed :
           i \in Waiting(f) \/ (i.key \in f.seen /\ handled[i.key] >= i.change)
      /\ f.pc \in Fetched /\ ~f.more => f.rest = {}
      /\ f.pc \in {"finish", "sweep", "publish"} => ~f.more

\* What a complete report claims.
Justified(j) ==
  \A i \in run[j].listed : Mode[j] = "full" \/ source[i.key] = i.change =>
    /\ handled[i.key] >= i.change
    /\ Mode[j] = "incremental" => i.change <= checkpoint.cursor

Reported(j) ==
  LET f == run[j] IN
    /\ f.pc \in Working \union Opening => ~f.report.complete
    /\ f.pc \in Working \union {"claim", "refused"} => ~Concluded(reports[j])
    /\ f.report.complete \/ Concluded(reports[j]) => Justified(j)

Fits(j) ==
  Held(j) /\ Dated(j) /\ Pending(j) /\ Covered(j) /\ Enumerated(j) /\ Reported(j)

SyncInv == TypeOK /\ Timely /\ CursorIsCovered /\ \A j \in Jobs : Fits(j)

-----------------------------------------------------------------------------
(* The least and the greatest of a set of numbers.                          *)

\* A set of numbers that is not empty has a least element.
LEMMA LeastExists ==
  ASSUME NEW S, S \subseteq Nat, S # {}
  PROVE  \E n \in S : \A m \in S : n <= m
<1>1. \E n \in S : \A m \in S : ~(<<m, n>> \in OpToRel(<, Nat))
  BY NatLessThanWellFounded, WFMin
<1>2. PICK n \in S : \A m \in S : ~(<<m, n>> \in OpToRel(<, Nat))
  BY <1>1
<1>3. \A m \in S : ~(m < n)
  BY <1>2 DEF OpToRel
<1> QED
  BY <1>3

\* One that is bounded has a greatest.
LEMMA GreatestExists ==
  ASSUME NEW N \in Nat, NEW S, S \subseteq 0..N, S # {}
  PROVE  \E n \in S : \A m \in S : m <= n
<1> DEFINE D == {N - n : n \in S}
<1>1. D \subseteq Nat /\ D # {}
  <2>1. \A n \in S : n \in 0..N /\ N - n \in Nat
    OBVIOUS
  <2>2. PICK n \in S : TRUE
    OBVIOUS
  <2>3. N - n \in D
    BY <2>2
  <2> QED
    BY <2>1, <2>3
<1>2. PICK d \in D : \A e \in D : d <= e
  BY <1>1, LeastExists
<1>3. PICK n \in S : d = N - n
  OBVIOUS
<1>4. ASSUME NEW m \in S
      PROVE  m <= n
  <2>1. N - m \in D
    OBVIOUS
  <2>2. N - n <= N - m
    BY <1>2, <1>3, <2>1
  <2>3. n \in 0..N /\ m \in 0..N
    OBVIOUS
  <2> HIDE DEF D
  <2> QED
    BY <2>2, <2>3
<1> QED
  BY <1>4

\* The item whose turn it is exists as long as there is one.
LEMMA TurnIsAnItem ==
  ASSUME TypeOK, NEW j \in Jobs, run[j].items # {}
  PROVE  Turn(j) \in run[j].items /\ Turn(j) \in Items
         /\ Turn(j).key \in Keys /\ Turn(j).change \in 1..MaxChanges
<1>1. run[j].items \subseteq Items
  BY DEF TypeOK, Frames
<1> DEFINE S == {i.change : i \in run[j].items}
<1>2. S \subseteq Nat /\ S # {}
  BY <1>1 DEF Items
<1>3. PICK n \in S : \A m \in S : n <= m
  BY <1>2, LeastExists
<1>4. PICK i \in run[j].items : i.change = n
  OBVIOUS
<1>5. \A o \in run[j].items : i.change <= o.change
  BY <1>3, <1>4
<1>6. Turn(j) \in run[j].items
  BY <1>5 DEF Turn
<1> QED
  BY <1>1, <1>6 DEF Items

-----------------------------------------------------------------------------
(* Pages of the source.                                                     *)

\* The source holds finitely many items, one for each key.
LEMMA PresentFinite ==
  ASSUME TypeOK
  PROVE  /\ IsFiniteSet(Present) /\ Present \subseteq Items
         /\ \A i \in Present : i.key \in Keys /\ i.change \in 1..MaxChanges
                               /\ source[i.key] = i.change
         /\ \A k \in Keys : source[k] # 0 => [key |-> k, change |-> source[k]] \in Present
<1> DEFINE L == {k \in Keys : source[k] # 0}
           f == [k \in L |-> [key |-> k, change |-> source[k]]]
<1>1. IsFiniteSet(L)
  BY FS_Subset
<1>2. \A k \in L : f[k] \in Present
  BY DEF TypeOK, Present, Items
<1>3. ASSUME NEW i \in Present
      PROVE  \E k \in L : f[k] = i
  <2>1. i.key \in L /\ i = [key |-> i.key, change |-> i.change] /\ source[i.key] = i.change
    BY DEF Present, Items
  <2> QED
    BY <2>1
<1>4. f \in Surjection(L, Present)
  BY <1>2, <1>3 DEF Surjection
<1>5. IsFiniteSet(Present)
  BY <1>1, <1>4, FS_Surjection
<1> QED
  BY <1>2, <1>5 DEF Present, Items

\* A page holds what is older than any of its items.
LEMMA PageIsClosed ==
  ASSUME NEW S, S \subseteq Items, IsFiniteSet(S), NEW i \in FirstPage(S), NEW o \in S,
         o.change <= i.change
  PROVE  o \in FirstPage(S)
<1> DEFINE B(x) == {p \in S : p.change < x.change}
<1>1. i \in S /\ Cardinality(B(i)) < PageSize
  BY DEF FirstPage
<1>2. B(o) \subseteq B(i)
  BY <1>1 DEF Items
<1>3. IsFiniteSet(B(i))
  BY FS_Subset
<1>4. IsFiniteSet(B(o)) /\ Cardinality(B(o)) <= Cardinality(B(i))
  BY <1>2, <1>3, FS_Subset
<1>5. Cardinality(B(o)) \in Nat /\ Cardinality(B(i)) \in Nat
  BY <1>3, <1>4, FS_CardinalityType
<1>6. Cardinality(B(o)) < PageSize
  BY <1>1, <1>4, <1>5
<1> QED
  BY <1>6 DEF FirstPage

-----------------------------------------------------------------------------
(* Steps of one job.                                                        *)

\* What a step of j may do to the rest: only the owner of the scope moves what was
\* handled and the cursor, never back, and never past the source.
Onward(j) ==
  /\ UNCHANGED <<source, changes>>
  /\ target' \in [Keys -> 0..MaxChanges] /\ handled' \in [Keys -> 0..MaxChanges]
  /\ active' \subseteq Keys /\ checkpoint' \in Checkpoint
  /\ owner' \in Jobs \union {NoJob} /\ reports' \in [Jobs -> Report \union {NoReport}]
  /\ attempts' \in [Jobs -> Nat] /\ \A i \in Jobs : attempts'[i] <= MaxAttempts[i]
  /\ Timely' /\ CursorIsCovered'
  /\ checkpoint.cursor <= checkpoint'.cursor
  /\ \A k \in Keys : handled[k] <= handled'[k] /\ target[k] <= target'[k]
  /\ \/ owner = j
     \/ /\ UNCHANGED <<handled, target>> /\ checkpoint'.version = checkpoint.version
        /\ checkpoint'.cursor = checkpoint.cursor
  /\ owner' # owner => owner \in {NoJob, j}
  /\ \A i \in Jobs \ {j} : reports'[i] = reports[i]

\* A complete report stays justified.
LEMMA JustifiedStays ==
  ASSUME SyncInv, NEW i \in Jobs, NEW j, Onward(j), run'[i].listed = run[i].listed,
         Justified(i)
  PROVE  Justified(i)'
<1>1. \A x \in run[i].listed : x.key \in Keys /\ x.change \in 1..MaxChanges
  BY DEF SyncInv, TypeOK, Frames, Items
<1>2. \A k \in Keys : handled[k] \in Nat /\ handled'[k] \in Nat
  BY DEF SyncInv, TypeOK, Onward
<1>3. checkpoint.cursor \in Nat /\ checkpoint'.cursor \in Nat
  BY DEF SyncInv, TypeOK, Onward, Checkpoint
<1>4. source' = source
  BY DEF Onward
<1> QED
  BY <1>1, <1>2, <1>3, <1>4 DEF Justified, Onward

\* The other jobs hold what they held.
LEMMA OthersFit ==
  ASSUME SyncInv, NEW j \in Jobs, Onward(j), NEW i \in Jobs \ {j}, run'[i] = run[i]
  PROVE  Fits(i)'
<1>1. Fits(i) /\ source' = source /\ changes' = changes /\ reports'[i] = reports[i]
  BY DEF SyncInv, Onward
<1>2. CASE run[i].pc \in Holding
  <2>1. owner = i /\ owner' = i
    BY <1>1, <1>2 DEF Fits, Held, Onward
  <2>2. /\ handled' = handled /\ target' = target
        /\ checkpoint'.version = checkpoint.version /\ checkpoint'.cursor = checkpoint.cursor
    BY <2>1 DEF Onward
  <2> QED
    BY <1>1, <2>1, <2>2
       DEF Fits, Held, Dated, Pending, Covered, Enumerated, Reported, Justified
<1>3. CASE run[i].pc \notin Holding
  <2>1. run[i].pc \notin Working
    BY <1>3 DEF Holding
  <2>2. Held(i)' /\ Dated(i)' /\ Pending(i)' /\ Covered(i)' /\ Enumerated(i)'
    BY <1>1, <1>3, <2>1 DEF Fits, Held, Dated, Pending, Covered, Enumerated
  <2>3. Justified(i) => Justified(i)'
    BY JustifiedStays
  <2>4. Reported(i)'
    BY <1>1, <2>3 DEF Fits, Reported
  <2> QED
    BY <2>2, <2>4 DEF Fits
<1> QED
  BY <1>2, <1>3

\* It is enough that the job that steps keeps to its frame.
LEMMA StepKeeps ==
  ASSUME SyncInv, NEW j \in Jobs, Onward(j), NEW f \in Frames, Become(j, f), Fits(j)'
  PROVE  SyncInv'
<1>1. run' \in [Jobs -> Frames] /\ \A i \in Jobs \ {j} : run'[i] = run[i]
  BY DEF Become, SyncInv, TypeOK
<1>2. TypeOK'
  BY <1>1 DEF SyncInv, TypeOK, Onward
<1>3. \A i \in Jobs : Fits(i)'
  BY <1>1, OthersFit
<1> QED
  BY <1>2, <1>3 DEF SyncInv, Onward

\* A step that leaves the target, the checkpoint and the claim where they are.
LEMMA Stays ==
  ASSUME SyncInv, NEW j \in Jobs, UNCHANGED <<world, checkpoint, owner>>,
         attempts' \in [Jobs -> Nat], \A i \in Jobs : attempts'[i] <= MaxAttempts[i],
         reports' \in [Jobs -> Report \union {NoReport}],
         \A i \in Jobs \ {j} : reports'[i] = reports[i]
  PROVE  Onward(j)
<1>1. UNCHANGED <<source, changes, target, active, handled, checkpoint, owner>>
  BY DEF world
<1>2. Timely' /\ CursorIsCovered'
  BY <1>1 DEF SyncInv, Timely, CursorIsCovered
<1>3. \A k \in Keys : handled[k] \in Nat /\ target[k] \in Nat
  BY DEF SyncInv, TypeOK
<1>4. checkpoint.cursor \in Nat
  BY DEF SyncInv, TypeOK, Checkpoint
<1> QED
  BY <1>1, <1>2, <1>3, <1>4 DEF SyncInv, TypeOK, Onward

\* The frame that Leave makes.
Left(j, pc, rep, f) ==
  /\ Become(j, f) /\ run'[j] = f
  /\ f.pc = pc /\ f.report = rep /\ f.listed = run[j].listed
  /\ f.items = {} /\ f.rest = {} /\ f.seen = {}

\* It is a frame.
LEMMA LeaveShape ==
  ASSUME TypeOK, NEW j \in Jobs, NEW pc \in {"idle", "close", "release"}, NEW rep \in Report,
         Leave(j, pc, rep)
  PROVE  \E f \in Frames : Left(j, pc, rep, f)
<1>1. PICK f : f = [Idle EXCEPT !.pc = pc, !.report = rep, !.listed = run[j].listed]
  OBVIOUS
<1>2. f = [pc |-> pc, report |-> rep, version |-> 0, cursor |-> 0, watermark |-> 0,
           items |-> {}, more |-> TRUE, rest |-> {}, listed |-> run[j].listed, seen |-> {}]
  BY <1>1 DEF Idle
<1>3. f \in Frames
  BY <1>2 DEF Frames, TypeOK
<1>4. Become(j, f)
  BY <1>1 DEF Leave
<1>5. run'[j] = f
  BY <1>4 DEF Become, TypeOK
<1>6. /\ f.pc = pc /\ f.report = rep /\ f.listed = run[j].listed
      /\ f.items = {} /\ f.rest = {} /\ f.seen = {}
  BY <1>2
<1> QED
  BY <1>3, <1>4, <1>5, <1>6 DEF Left

\* A job that leaves, whatever it did last, claims nothing that is not justified.
LEMMA LeaveKeeps ==
  ASSUME SyncInv, NEW j \in Jobs, NEW pc \in {"idle", "close", "release"}, NEW rep \in Report,
         Leave(j, pc, rep), Onward(j), pc # "idle" => owner' = j,
         rep.complete \/ Concluded(reports'[j]) => Justified(j)
  PROVE  SyncInv'
<1>0. PICK f \in Frames : Left(j, pc, rep, f)
  BY LeaveShape DEF SyncInv
<1>1. /\ Become(j, f) /\ run'[j] = f
      /\ f.pc = pc /\ f.report = rep /\ f.listed = run[j].listed
      /\ f.items = {} /\ f.rest = {} /\ f.seen = {}
  BY <1>0 DEF Left
<1>2. Held(j)' /\ Pending(j)' /\ Covered(j)' /\ Enumerated(j)'
  BY <1>1 DEF Held, Pending, Covered, Enumerated, Holding, Working, Opening
<1>3. Dated(j)'
  <2>1. Dated(j) /\ source' = source /\ changes' = changes
    BY DEF SyncInv, Fits, Onward
  <2> QED
    BY <1>1, <2>1 DEF Dated, Waiting
<1>4. Reported(j)'
  <2>1. Justified(j) => Justified(j)'
    BY <1>1, JustifiedStays
  <2> QED
    BY <1>1, <2>1 DEF Reported, Working, Opening
<1> QED
  BY <1>1, <1>2, <1>3, <1>4, StepKeeps DEF Fits

\* A report that says that it failed is a report.
LEMMA FailedReport ==
  ASSUME NEW rep \in Report
  PROVE  Failed(rep) \in Report /\ ~Failed(rep).complete
BY DEF Report, Failed

\* A job that works and fails goes to the finally clause.
LEMMA FailKeeps ==
  ASSUME SyncInv, NEW j \in Jobs, Fail(j), Onward(j), run[j].pc \in Working, owner' = owner,
         reports' = reports
  PROVE  SyncInv'
<1>1. owner = j /\ ~Concluded(reports[j]) /\ run[j].report \in Report
  BY DEF SyncInv, Fits, Held, Reported, Holding, TypeOK, Frames
<1> QED
  BY <1>1, FailedReport, LeaveKeeps DEF Fail

\* A job that leaves without a claim that it did not have.
LEMMA LeavesQuietly ==
  ASSUME SyncInv, NEW j \in Jobs, NEW pc \in {"idle", "close", "release"},
         NEW rep \in {run[j].report, Failed(run[j].report)}, Leave(j, pc, rep),
         pc # "idle" => run[j].pc \in Holding,
         UNCHANGED <<world, checkpoint, owner, attempts>>,
         \/ reports' = reports
         \/ \E r \in {run[j].report, Failed(run[j].report)} : SaveReport(j, r)
  PROVE  SyncInv'
<1>1. /\ run[j].report \in Report /\ Failed(run[j].report) \in Report
      /\ ~Failed(run[j].report).complete
  BY FailedReport DEF SyncInv, TypeOK, Frames
<1>2. /\ reports' \in [Jobs -> Report \union {NoReport}]
      /\ \A i \in Jobs \ {j} : reports'[i] = reports[i]
      /\ reports'[j] \in {reports[j], run[j].report, Failed(run[j].report)}
  BY <1>1 DEF SaveReport, SyncInv, TypeOK
<1>3. Onward(j)
  BY <1>2, Stays DEF SyncInv, TypeOK
<1>4. rep.complete \/ Concluded(reports'[j]) => Justified(j)
  BY <1>1, <1>2 DEF SyncInv, Fits, Reported, Concluded
<1>5. pc # "idle" => owner' = j
  BY DEF SyncInv, Fits, Held
<1> QED
  BY <1>1, <1>3, <1>4, <1>5, LeaveKeeps

\* The frame of a job that goes on: what it holds is kept but for what is said.
LEMMA GotoShape ==
  ASSUME TypeOK, NEW j \in Jobs, NEW pc,
         pc \in {"claim", "refused", "fetch", "commit", "sweep", "publish"}, Goto(j, pc)
  PROVE  \E f \in Frames :
           Become(j, f) /\ run'[j] = f /\ f.pc = pc /\ f = [run[j] EXCEPT !.pc = pc]
<1>1. PICK f : f = [run[j] EXCEPT !.pc = pc]
  OBVIOUS
<1>2. f \in Frames /\ f.pc = pc
  <2>1. run[j] \in Frames
    BY DEF TypeOK
  <2>2. f.pc = pc
    BY <1>1, <2>1 DEF Frames
  <2>3. f \in Frames
    BY <1>1, <2>1 DEF Frames
  <2> QED
    BY <2>2, <2>3
<1>3. Become(j, f)
  BY <1>1 DEF Goto
<1>4. run'[j] = f
  BY <1>3 DEF Become, TypeOK
<1> QED
  BY <1>1, <1>2, <1>3, <1>4

\* The job runner begins an attempt.
LEMMA BeginKeeps ==
  ASSUME SyncInv, NEW j \in Jobs, Begin(j)
  PROVE  SyncInv'
<1>1. PICK f : f = [Idle EXCEPT !.pc = "reserve"]
  OBVIOUS
<1>2. f = [pc |-> "reserve", report |-> NewReport, version |-> 0, cursor |-> 0,
           watermark |-> 0, items |-> {}, more |-> TRUE, rest |-> {}, listed |-> {},
           seen |-> {}]
  BY <1>1 DEF Idle
<1>3. f \in Frames
  BY <1>2 DEF Frames, Report, NewReport
<1>4. Become(j, f)
  BY <1>1 DEF Begin
<1>5. run'[j] = f
  BY <1>4 DEF Become, SyncInv, TypeOK
<1>6. Onward(j) /\ reports' = reports
  <2>1. /\ attempts' \in [Jobs -> Nat] /\ \A i \in Jobs : attempts'[i] <= MaxAttempts[i]
        /\ UNCHANGED <<world, checkpoint, owner, reports>>
    BY DEF Begin, store, SyncInv, TypeOK
  <2> QED
    BY <2>1, Stays DEF SyncInv, TypeOK
<1>7. Held(j)' /\ Dated(j)' /\ Pending(j)' /\ Covered(j)' /\ Enumerated(j)' /\ Reported(j)'
  BY <1>2, <1>5, <1>6
     DEF Held, Dated, Pending, Covered, Enumerated, Reported, Justified, Holding, Working,
         Opening, Waiting, NewReport
<1> QED
  BY <1>3, <1>4, <1>6, <1>7, StepKeeps DEF Fits

\* It reserves its report.
LEMMA ReserveKeeps ==
  ASSUME SyncInv, NEW j \in Jobs, Reserve(j)
  PROVE  SyncInv'
<1>1. UNCHANGED <<world, checkpoint, owner, attempts>> /\ run[j].report \in Report
  BY DEF Reserve, SyncInv, TypeOK, Frames
<1>2. CASE CanSave(j)
  <2>1. SaveReport(j, run[j].report) /\ Goto(j, "claim") /\ run[j].pc = "reserve"
    BY <1>2 DEF Reserve, At
  <2>2. PICK f \in Frames :
          Become(j, f) /\ run'[j] = f /\ f.pc = "claim" /\ f = [run[j] EXCEPT !.pc = "claim"]
    BY <2>1, GotoShape DEF SyncInv
  <2>3. /\ f.report = run[j].report /\ f.listed = run[j].listed /\ f.items = run[j].items
        /\ f.rest = run[j].rest /\ f.seen = run[j].seen
    BY <2>2 DEF SyncInv, TypeOK, Frames
  <2>4. /\ reports' \in [Jobs -> Report \union {NoReport}] /\ reports'[j] = run[j].report
        /\ \A i \in Jobs \ {j} : reports'[i] = reports[i]
    BY <1>1, <2>1 DEF SaveReport, SyncInv, TypeOK
  <2>5. Onward(j)
    BY <1>1, <2>4, Stays DEF SyncInv, TypeOK
  <2>6. Fits(j) /\ source' = source /\ changes' = changes
    BY <2>5 DEF SyncInv, Onward
  <2>7. /\ f.items = {} /\ f.rest = {} /\ f.seen = {} /\ f.listed = {}
        /\ ~run[j].report.complete
    BY <2>1, <2>3, <2>6 DEF Fits, Held, Working, Opening, Reported
  <2>8. Held(j)' /\ Dated(j)' /\ Pending(j)' /\ Covered(j)' /\ Enumerated(j)' /\ Reported(j)'
    BY <2>2, <2>3, <2>4, <2>7
       DEF Held, Dated, Pending, Covered, Enumerated, Reported, Justified, Holding, Working,
           Opening, Waiting, Concluded
  <2> QED
    BY <2>2, <2>5, <2>8, StepKeeps DEF Fits
<1>3. CASE ~CanSave(j)
  BY <1>1, <1>3, LeavesQuietly DEF Reserve, End
<1> QED
  BY <1>2, <1>3

\* A claim that the store gives, whether the job learns of it or not.
LEMMA ClaimGoesOn ==
  ASSUME SyncInv, NEW j \in Jobs, Claims(j), owner' = j,
         checkpoint' = [checkpoint EXCEPT !.source = SourceVersion[j]],
         UNCHANGED <<world, reports, attempts>>
  PROVE  Onward(j) /\ checkpoint'.version = checkpoint.version
         /\ checkpoint'.cursor = checkpoint.cursor
<1>1. UNCHANGED <<source, changes, target, active, handled>> /\ owner = NoJob
  BY DEF world, Claims
<1>2. /\ checkpoint' \in Checkpoint /\ checkpoint'.version = checkpoint.version
      /\ checkpoint'.cursor = checkpoint.cursor
  BY DEF SyncInv, TypeOK, Checkpoint
<1>3. Timely' /\ CursorIsCovered'
  BY <1>1, <1>2 DEF SyncInv, Timely, CursorIsCovered
<1>4. (\A k \in Keys : handled[k] \in Nat /\ target[k] \in Nat) /\ checkpoint.cursor \in Nat
  BY DEF SyncInv, TypeOK, Checkpoint
<1> QED
  BY <1>1, <1>2, <1>3, <1>4 DEF SyncInv, TypeOK, Onward

\* The claim: the job reads the cursor that it goes on from.
LEMMA ClaimKeeps ==
  ASSUME SyncInv, NEW j \in Jobs, Claim(j)
  PROVE  SyncInv'
<1>1. UNCHANGED <<world, reports, attempts>> /\ run[j].pc = "claim" /\ run[j] \in Frames
  BY DEF Claim, SyncInv, TypeOK, At
<1>2. /\ run[j].items = {} /\ run[j].rest = {} /\ run[j].seen = {} /\ run[j].listed = {}
      /\ ~run[j].report.complete /\ ~Concluded(reports[j])
  BY <1>1 DEF SyncInv, Fits, Held, Working, Opening, Reported
<1>3. CASE Claims(j)
  <2>1. /\ owner' = j /\ checkpoint' = [checkpoint EXCEPT !.source = SourceVersion[j]]
        /\ Become(j, [run[j] EXCEPT
               !.pc = "poll", !.version = checkpoint.version,
               !.cursor = IF Mode[j] = "incremental" THEN checkpoint.cursor ELSE 0])
    BY <1>3 DEF Claim
  <2>2. PICK f : f = [run[j] EXCEPT
               !.pc = "poll", !.version = checkpoint.version,
               !.cursor = IF Mode[j] = "incremental" THEN checkpoint.cursor ELSE 0]
    OBVIOUS
  <2>3. /\ f \in Frames /\ f.pc = "poll" /\ f.version = checkpoint.version
        /\ Mode[j] = "incremental" => f.cursor = checkpoint.cursor
        /\ f.report = run[j].report /\ f.listed = run[j].listed /\ f.items = run[j].items
        /\ f.rest = run[j].rest /\ f.seen = run[j].seen
    <3>1. PICK c : c = IF Mode[j] = "incremental" THEN checkpoint.cursor ELSE 0
      OBVIOUS
    <3>2. checkpoint.version \in Nat /\ c \in 0..MaxChanges
      BY <3>1 DEF SyncInv, TypeOK, Checkpoint
    <3>3. f = [run[j] EXCEPT !.pc = "poll", !.version = checkpoint.version, !.cursor = c]
      BY <2>2, <3>1
    <3>4. /\ f \in Frames /\ f.pc = "poll" /\ f.version = checkpoint.version /\ f.cursor = c
          /\ f.report = run[j].report /\ f.listed = run[j].listed
          /\ f.items = run[j].items /\ f.rest = run[j].rest /\ f.seen = run[j].seen
      BY <1>1, <3>2, <3>3 DEF Frames
    <3> QED
      BY <3>1, <3>4
  <2>4. Become(j, f)
    BY <2>1, <2>2
  <2>5. run'[j] = f
    BY <2>4 DEF Become, SyncInv, TypeOK
  <2>6. Onward(j) /\ checkpoint'.version = checkpoint.version
        /\ checkpoint'.cursor = checkpoint.cursor
    BY <1>1, <1>3, <2>1, ClaimGoesOn
  <2>7. Held(j)' /\ Dated(j)' /\ Pending(j)' /\ Covered(j)' /\ Enumerated(j)' /\ Reported(j)'
    BY <1>1, <1>2, <2>1, <2>3, <2>5, <2>6
       DEF Held, Dated, Pending, Covered, Enumerated, Reported, Justified, Holding, Working,
           Opening, Waiting, Fetched
  <2> QED
    BY <2>3, <2>4, <2>6, <2>7, StepKeeps DEF Fits
<1>4. CASE ~Claims(j)
  <2>1. Goto(j, "refused") /\ UNCHANGED <<owner, checkpoint>>
    BY <1>4 DEF Claim
  <2>2. PICK f \in Frames :
          Become(j, f) /\ run'[j] = f /\ f.pc = "refused"
          /\ f = [run[j] EXCEPT !.pc = "refused"]
    BY <2>1, GotoShape DEF SyncInv
  <2>3. /\ f.report = run[j].report /\ f.listed = run[j].listed /\ f.items = run[j].items
        /\ f.rest = run[j].rest /\ f.seen = run[j].seen
    BY <1>1, <2>2 DEF Frames
  <2>4. Onward(j)
    BY <1>1, <2>1, Stays DEF SyncInv, TypeOK
  <2>5. Held(j)' /\ Dated(j)' /\ Pending(j)' /\ Covered(j)' /\ Enumerated(j)' /\ Reported(j)'
    BY <1>1, <1>2, <2>2, <2>3
       DEF Held, Dated, Pending, Covered, Enumerated, Reported, Justified, Holding, Working,
           Opening, Waiting, Concluded
  <2> QED
    BY <2>2, <2>4, <2>5, StepKeeps DEF Fits
<1> QED
  BY <1>3, <1>4

\* A refusal is reported.
LEMMA RefusedKeeps ==
  ASSUME SyncInv, NEW j \in Jobs, Refused(j)
  PROVE  SyncInv'
BY LeavesQuietly DEF Refused, End

\* What a job that works knows of its frame and of the scope.
LEMMA WorkerFacts ==
  ASSUME SyncInv, NEW j \in Jobs, run[j].pc \in Working
  PROVE  /\ run[j] \in Frames /\ owner = j /\ j # NoJob
         /\ run[j].version = checkpoint.version
         /\ ~run[j].report.complete /\ ~Concluded(reports[j])
         /\ Fits(j) /\ run[j].pc \in Holding
BY DEF SyncInv, TypeOK, Fits, Held, Reported, Holding

\* Steps that only turn to another place, without a change of what the frame holds.
LEMMA GotoKeeps ==
  ASSUME SyncInv, NEW j \in Jobs, NEW pc, UNCHANGED <<world, store, attempts>>, Goto(j, pc),
         \/ run[j].pc = "poll" /\ pc = "fetch" /\ run[j].report.pages < MaxPages
         \/ run[j].pc = "item" /\ pc = "commit" /\ run[j].items = {}
         \/ run[j].pc = "finish" /\ pc \in {"sweep", "publish"}
            /\ (pc = "sweep" => Mode[j] = "full")
  PROVE  SyncInv'
<1>1. run[j].pc \in Working /\ run[j] \in Frames /\ Fits(j) /\ owner = j
      /\ run[j].version = checkpoint.version
  BY WorkerFacts DEF Working
<1>2. PICK f \in Frames :
        Become(j, f) /\ run'[j] = f /\ f.pc = pc /\ f = [run[j] EXCEPT !.pc = pc]
  BY GotoShape DEF SyncInv
<1>3. /\ f.report = run[j].report /\ f.version = run[j].version /\ f.cursor = run[j].cursor
      /\ f.watermark = run[j].watermark /\ f.items = run[j].items /\ f.more = run[j].more
      /\ f.rest = run[j].rest /\ f.listed = run[j].listed /\ f.seen = run[j].seen
  BY <1>1, <1>2 DEF Frames
<1>4. UNCHANGED <<source, changes, target, active, handled, checkpoint, owner, reports>>
  BY DEF world, store
<1>5. Onward(j)
  BY <1>4, Stays DEF SyncInv, TypeOK, world
<1>6. Held(j)' /\ Dated(j)' /\ Reported(j)'
  BY <1>1, <1>2, <1>3, <1>4
     DEF Fits, Held, Dated, Reported, Justified, Holding, Working, Opening, Waiting
<1>7. Pending(j)'
  BY <1>1, <1>2, <1>3, <1>4 DEF Fits, Pending, Working, Waiting
<1>8. Covered(j)'
  BY <1>1, <1>2, <1>3, <1>4 DEF Fits, Covered, Working, Fetched
<1>9. Enumerated(j)'
  BY <1>1, <1>2, <1>3, <1>4 DEF Fits, Enumerated, Working, Fetched, Waiting
<1> QED
  BY <1>2, <1>5, <1>6, <1>7, <1>8, <1>9, StepKeeps DEF Fits

\* A failure before anything was done.
LEMMA FailsQuietly ==
  ASSUME SyncInv, NEW j \in Jobs, Fail(j), run[j].pc \in Working,
         UNCHANGED <<world, store, attempts>>
  PROVE  SyncInv'
BY WorkerFacts, LeavesQuietly DEF Fail, store

\* The poll, the end of a page, the last poll, and the calls that fail there.
LEMMA TurnKeeps ==
  ASSUME SyncInv, NEW j \in Jobs,
         Poll(j) \/ FetchFails(j) \/ ItemFails(j) \/ PageApplied(j) \/ Finish(j)
  PROVE  SyncInv'
<1>1. UNCHANGED <<world, store, attempts>>
  BY DEF Poll, FetchFails, ItemFails, PageApplied, Finish
<1>2. run[j].pc \in {"poll", "fetch", "item", "finish"}
  BY DEF Poll, FetchFails, ItemFails, PageApplied, Finish, At
<1>3. CASE Fail(j)
  BY <1>1, <1>2, <1>3, FailsQuietly DEF Working
<1>4. CASE ~Fail(j)
  <2>1. CASE Poll(j)
    BY <1>1, <1>4, <2>1, GotoKeeps DEF Poll, At
  <2>2. CASE PageApplied(j)
    BY <1>1, <1>4, <2>2, GotoKeeps DEF PageApplied, At
  <2>3. CASE Finish(j)
    BY <1>1, <1>4, <2>3, GotoKeeps DEF Finish, At
  <2> QED
    BY <1>4, <2>1, <2>2, <2>3 DEF FetchFails, ItemFails
<1> QED
  BY <1>3, <1>4

\* The watermark is the last change of the page, or the cursor when it is empty.
Last(page, c) ==
  IF page = {} THEN c
  ELSE CHOOSE n \in {i.change : i \in page} : \A i \in page : i.change <= n

\* It is a number, and no item of the page is later.
LEMMA WatermarkIsLast ==
  ASSUME NEW page, page \subseteq Items, NEW c \in 0..MaxChanges
  PROVE  /\ Last(page, c) \in 0..MaxChanges /\ \A i \in page : i.change <= Last(page, c)
         /\ page = {} => Last(page, c) = c
         /\ page # {} => \E i \in page : i.change = Last(page, c)
<1>1. CASE page = {}
  BY <1>1 DEF Last
<1>2. CASE page # {}
  <2> DEFINE S == {i.change : i \in page}
  <2>1. S \subseteq 0..MaxChanges /\ S # {}
    BY <1>2 DEF Items
  <2>2. \E m \in S : \A o \in S : o <= m
    BY <2>1, GreatestExists
  <2>3. \E m \in S : \A i \in page : i.change <= m
    BY <2>2
  <2>4. Last(page, c) \in S /\ \A i \in page : i.change <= Last(page, c)
    BY <1>2, <2>3 DEF Last
  <2> QED
    BY <1>2, <2>1, <2>4
<1> QED
  BY <1>1, <1>2

\* A page is fetched: what the source now has after the cursor is in it, or later than
\* all of it.
LEMMA FetchKeeps ==
  ASSUME SyncInv, NEW j \in Jobs, Fetch(j)
  PROVE  SyncInv'
<1>1. /\ run[j].pc = "fetch" /\ run[j].pc \in Working /\ run[j] \in Frames /\ owner = j
      /\ run[j].version = checkpoint.version /\ Fits(j)
  BY WorkerFacts DEF Fetch, At, Working
<1>2. PICK listed : listed = IF run[j].report.pages = 0 THEN Present ELSE run[j].listed
  OBVIOUS
<1>3. PICK left : left = IF Mode[j] = "full"
                         THEN IF run[j].report.pages = 0 THEN Present ELSE run[j].rest
                         ELSE {i \in Present : i.change > run[j].cursor}
  OBVIOUS
<1>4. PICK page : page = FirstPage(left)
  OBVIOUS
<1>5. PICK n : n = Last(page, run[j].cursor)
  OBVIOUS
<1>6. PICK more : more = (page # left)
  OBVIOUS
<1>7. PICK f : f = [run[j] EXCEPT !.pc = "item", !.items = page, !.more = more,
                                  !.rest = left \ page, !.listed = listed, !.watermark = n]
  OBVIOUS
<1>8. Become(j, f)
  <2>1. Become(j, [run[j] EXCEPT !.pc = "item", !.items = FirstPage(left),
                                 !.more = FirstPage(left) # left,
                                 !.rest = left \ FirstPage(left), !.listed = listed,
                                 !.watermark = Last(FirstPage(left), run[j].cursor)])
    BY <1>2, <1>3 DEF Fetch, Last
  <2> QED
    BY <1>4, <1>5, <1>6, <1>7, <2>1
<1>9. Present \subseteq Items /\ IsFiniteSet(Present)
      /\ \A i \in Present : i.key \in Keys /\ i.change \in 1..MaxChanges
                            /\ source[i.key] = i.change
  BY PresentFinite DEF SyncInv
<1>10. /\ listed \subseteq Items /\ left \subseteq Items /\ page \subseteq left
       /\ page \subseteq Items
  BY <1>1, <1>2, <1>3, <1>4, <1>9 DEF Frames, FirstPage
<1>11. /\ n \in 0..MaxChanges /\ \A i \in page : i.change <= n
       /\ page = {} => n = run[j].cursor
       /\ page # {} => \E i \in page : i.change = n
  <2>1. run[j].cursor \in 0..MaxChanges
    BY <1>1 DEF Frames
  <2> QED
    BY <1>5, <1>10, <2>1, WatermarkIsLast
<1>12. more \in BOOLEAN
  BY <1>6
<1>13. /\ f \in Frames /\ f.pc = "item" /\ f.items = page /\ f.rest = left \ page
       /\ f.listed = listed /\ f.watermark = n /\ f.report = run[j].report
       /\ f.version = run[j].version /\ f.cursor = run[j].cursor /\ f.seen = run[j].seen
       /\ f.more = more
  <2>1. left \ page \subseteq Items
    BY <1>10
  <2>2. f = [pc |-> "item", report |-> run[j].report, version |-> run[j].version,
             cursor |-> run[j].cursor, watermark |-> n, items |-> page, more |-> more,
             rest |-> left \ page, listed |-> listed, seen |-> run[j].seen]
    BY <1>1, <1>7 DEF Frames
  <2> QED
    BY <1>1, <1>10, <1>11, <1>12, <2>1, <2>2 DEF Frames
<1>14. run'[j] = f
  BY <1>8 DEF Become, SyncInv, TypeOK
<1>15. UNCHANGED <<source, changes, target, active, handled, checkpoint, owner, reports,
                   attempts>>
  BY DEF Fetch, world, store
<1>16. Onward(j)
  BY <1>15, Stays DEF SyncInv, TypeOK, world
<1>17. Waiting(f) = left
  BY <1>10, <1>13 DEF Waiting
<1>18. Held(j)' /\ Reported(j)'
  BY <1>1, <1>13, <1>14, <1>15, WorkerFacts
     DEF Fits, Held, Reported, Holding, Working, Opening
<1>19. \A i \in listed \union left : i \in Present \/ i \in run[j].listed \union run[j].rest
  BY <1>2, <1>3
<1>20. Dated(j)'
  <2>1. \A i \in Present : i.change <= changes /\ (source[i.key] # 0 => i.change <= source[i.key])
    BY <1>9 DEF SyncInv, Timely
  <2>2. \A i \in listed \union Waiting(f) :
          i.change <= changes /\ (source[i.key] # 0 => i.change <= source[i.key])
    BY <1>1, <1>17, <1>19, <2>1 DEF Fits, Dated, Waiting
  <2> QED
    BY <1>13, <1>14, <1>15, <2>2 DEF Dated
<1>21. Pending(j)'
  <2>1. left \subseteq Present \/ left = run[j].rest
    BY <1>3
  <2>2. \A i \in left : handled[i.key] <= i.change /\ target[i.key] <= i.change
    BY <1>1, <1>9, <2>1 DEF Fits, Pending, Waiting, SyncInv, Timely
  <2>3. \A i, o \in left : i.key = o.key => i = o
    <3>1. CASE left \subseteq Present
      <4>1. \A i \in left : i = [key |-> i.key, change |-> source[i.key]]
        BY <1>9, <1>10, <3>1 DEF Items
      <4> QED
        BY <4>1
    <3>2. CASE left = run[j].rest
      BY <1>1, <3>2 DEF Fits, Pending, Waiting
    <3> QED
      BY <2>1, <3>1, <3>2
  <2> QED
    BY <1>13, <1>14, <1>15, <1>17, <2>2, <2>3 DEF Pending
<1>22. Covered(j)'
  <2> SUFFICES ASSUME Mode[j] = "incremental"
               PROVE  Covered(j)'
    BY DEF Covered
  <2>1. /\ run[j].cursor = checkpoint.cursor
        /\ left = {i \in Present : i.change > checkpoint.cursor}
        /\ checkpoint.cursor \in 0..MaxChanges
    BY <1>1, <1>3 DEF Fits, Covered, SyncInv, TypeOK, Checkpoint
  <2>2. checkpoint.cursor <= n /\ n <= changes
    <3>1. CASE page = {}
      BY <1>11, <2>1, <3>1 DEF SyncInv, Timely, TypeOK
    <3>2. CASE page # {}
      <4>1. PICK i \in page : i.change = n
        BY <1>11, <3>2
      <4>2. i \in Present /\ i.change > checkpoint.cursor /\ i.change <= changes
        BY <1>9, <1>10, <2>1, <4>1 DEF SyncInv, Timely
      <4> QED
        BY <1>9, <2>1, <4>1, <4>2
    <3> QED
      BY <3>1, <3>2
  <2>3. \A i \in left : i.change <= n => i \in page
    <3> SUFFICES ASSUME NEW i \in left, i.change <= n
                 PROVE  i \in page
      OBVIOUS
    <3>1. page # {}
      BY <1>9, <1>11, <2>1
    <3>2. PICK o \in page : o.change = n
      BY <1>11, <3>1
    <3>3. IsFiniteSet(left)
      BY <1>9, <2>1, FS_Subset
    <3> QED
      BY <1>4, <1>10, <3>2, <3>3, PageIsClosed
  <2>4. ASSUME NEW k \in Keys, source[k] <= n
        PROVE  handled[k] >= source[k] \/ \E i \in page : i.key = k /\ i.change = source[k]
    <3>0. source[k] \in Nat /\ handled[k] \in Nat
      BY DEF SyncInv, TypeOK
    <3>1. CASE source[k] <= checkpoint.cursor
      BY <3>1 DEF SyncInv, CursorIsCovered
    <3>2. CASE source[k] > checkpoint.cursor
      <4>1. source[k] # 0
        BY <2>1, <3>0, <3>2
      <4>2. PICK i : i = [key |-> k, change |-> source[k]]
        OBVIOUS
      <4>3. i \in Present /\ i.key = k /\ i.change = source[k]
        BY <4>1, <4>2, PresentFinite DEF SyncInv
      <4>4. i \in left
        BY <2>1, <3>2, <4>3
      <4>5. i \in page
        BY <2>3, <2>4, <4>3, <4>4
      <4> QED
        BY <4>3, <4>5
    <3> QED
      BY <2>1, <3>0, <3>1, <3>2
  <2>5. ASSUME ~more, NEW i \in listed, source[i.key] = i.change
        PROVE  i.change <= n
    <3>1. i \in Items /\ i.key \in Keys /\ i.change \in 1..MaxChanges
      BY <1>10 DEF Items
    <3>2. i \in Present
      BY <2>5, <3>1 DEF Present
    <3>3. CASE i.change <= checkpoint.cursor
      BY <1>11, <2>1, <2>2, <3>1, <3>3
    <3>4. CASE i.change > checkpoint.cursor
      BY <1>6, <1>11, <2>1, <2>5, <3>2, <3>4
    <3> QED
      BY <2>1, <3>1, <3>3, <3>4
  <2> QED
    BY <1>13, <1>14, <1>15, <2>1, <2>2, <2>4, <2>5 DEF Covered
<1>23. Enumerated(j)'
  <2> SUFFICES ASSUME Mode[j] = "full"
               PROVE  Enumerated(j)'
    BY DEF Enumerated
  <2>1. \A i \in listed : i \in left \/ (i.key \in run[j].seen /\ handled[i.key] >= i.change)
    <3>1. CASE run[j].report.pages = 0
      BY <1>2, <1>3, <3>1
    <3>2. CASE run[j].report.pages # 0
      <4>1. run[j].items = {}
        BY <1>1 DEF Fits, Pending
      <4>2. left = Waiting(run[j]) /\ listed = run[j].listed
        BY <1>2, <1>3, <3>2, <4>1 DEF Waiting
      <4> QED
        BY <1>1, <4>2 DEF Fits, Enumerated
    <3> QED
      BY <3>1, <3>2
  <2>2. ~more => left \ page = {}
    BY <1>6
  <2> QED
    BY <1>13, <1>14, <1>15, <1>17, <2>1, <2>2 DEF Enumerated
<1> QED
  BY <1>8, <1>13, <1>16, <1>18, <1>20, <1>21, <1>22, <1>23, StepKeeps DEF Fits

-----------------------------------------------------------------------------
(* Items.                                                                   *)

\* An item that waits is applied or skipped: neither the target nor what was handled
\* goes back, and nothing overtakes the source.
LEMMA ItemGoesOn ==
  ASSUME SyncInv, NEW j \in Jobs, run[j].pc = "item", NEW item \in run[j].items,
         UNCHANGED <<source, changes, store, attempts>>, active' \subseteq Keys,
         handled' \in {handled, [handled EXCEPT ![item.key] = item.change]},
         target' \in {target, [target EXCEPT ![item.key] = item.change]}
  PROVE  Onward(j)
<1>1. /\ Fits(j) /\ owner = j /\ run[j] \in Frames
  BY WorkerFacts DEF Working
<1>2. item \in Items /\ item.key \in Keys /\ item.change \in 1..MaxChanges
  BY <1>1 DEF Frames, Items
<1>3. /\ handled[item.key] <= item.change /\ target[item.key] <= item.change
      /\ item.change <= changes /\ (source[item.key] # 0 => item.change <= source[item.key])
  BY <1>1 DEF Fits, Pending, Dated, Waiting, Working
<1>4. /\ handled \in [Keys -> 0..MaxChanges] /\ target \in [Keys -> 0..MaxChanges]
      /\ source \in [Keys -> 0..MaxChanges]
  BY DEF SyncInv, TypeOK
<1>5. /\ handled' \in [Keys -> 0..MaxChanges] /\ target' \in [Keys -> 0..MaxChanges]
      /\ \A k \in Keys \ {item.key} : handled'[k] = handled[k] /\ target'[k] = target[k]
      /\ handled'[item.key] \in {handled[item.key], item.change}
      /\ target'[item.key] \in {target[item.key], item.change}
  BY <1>2, <1>4
<1>6. \A k \in Keys : handled[k] <= handled'[k] /\ target[k] <= target'[k]
  <2>1. ASSUME NEW k \in Keys PROVE handled[k] <= handled'[k] /\ target[k] <= target'[k]
    <3>1. handled[k] \in Nat /\ target[k] \in Nat
      BY <1>4
    <3>2. CASE k = item.key
      BY <1>2, <1>3, <1>5, <3>1, <3>2
    <3>3. CASE k # item.key
      BY <1>5, <3>1, <3>3
    <3> QED
      BY <3>2, <3>3
  <2> QED
    BY <2>1
<1>7. UNCHANGED <<source, changes, checkpoint, owner, reports, attempts>>
  BY DEF store
<1>8. checkpoint.cursor \in Nat
  BY DEF SyncInv, TypeOK, Checkpoint
<1>9. Timely'
  <2>1. ASSUME NEW k \in Keys
        PROVE  /\ source[k] <= changes /\ handled'[k] <= changes /\ target'[k] <= changes
               /\ source[k] # 0 => handled'[k] <= source[k] /\ target'[k] <= source[k]
    <3>1. CASE k = item.key
      BY <1>3, <1>5, <3>1 DEF SyncInv, Timely
    <3>2. CASE k # item.key
      BY <1>5, <3>2 DEF SyncInv, Timely
    <3> QED
      BY <3>1, <3>2
  <2> QED
    BY <1>7, <2>1 DEF SyncInv, Timely
<1>10. CursorIsCovered'
  <2>1. ASSUME NEW k \in Keys, source[k] <= checkpoint.cursor
        PROVE  handled'[k] >= source[k]
    <3>1. handled[k] >= source[k] /\ handled[k] <= handled'[k]
      BY <1>6, <2>1 DEF SyncInv, CursorIsCovered
    <3>2. handled[k] \in Nat /\ handled'[k] \in Nat /\ source[k] \in Nat
      BY <1>4, <1>5
    <3> QED
      BY <3>1, <3>2
  <2> QED
    BY <1>7, <2>1 DEF CursorIsCovered
<1> QED
  BY <1>1, <1>5, <1>6, <1>7, <1>8, <1>9, <1>10 DEF Onward, SyncInv, TypeOK

\* An item that is done leaves the page, and its key is seen.
LEMMA ItemKeeps ==
  ASSUME SyncInv, NEW j \in Jobs, SkipItem(j) \/ ApplyItem(j)
  PROVE  SyncInv'
<1>1. PICK item : item = Turn(j)
  OBVIOUS
<1>2. /\ run[j].pc = "item" /\ run[j].items # {}
      /\ ItemDone(j, item, TRUE) \/ ItemDone(j, item, FALSE)
      /\ UNCHANGED <<source, changes, store, attempts>>
      /\ target' \in {target, [target EXCEPT ![item.key] = item.change]}
  BY <1>1 DEF SkipItem, ApplyItem, Applies, At
<1>3. /\ item \in run[j].items /\ item \in Items
      /\ item.key \in Keys /\ item.change \in 1..MaxChanges
  BY <1>1, <1>2, TurnIsAnItem DEF SyncInv
<1>4. active' \subseteq Keys
  BY <1>1, <1>3 DEF SkipItem, ApplyItem, Applies, SyncInv, TypeOK
<1>5. handled' = [handled EXCEPT ![item.key] = item.change]
  BY <1>2 DEF ItemDone
<1>6. Onward(j)
  BY <1>2, <1>3, <1>4, <1>5, ItemGoesOn
<1>7. /\ Fits(j) /\ owner = j /\ run[j] \in Frames /\ run[j].version = checkpoint.version
      /\ ~run[j].report.complete /\ ~Concluded(reports[j])
  BY <1>2, WorkerFacts DEF Working
<1>8. PICK seen : seen = IF Mode[j] = "full" THEN run[j].seen \union {item.key}
                         ELSE run[j].seen
  OBVIOUS
<1>9. PICK items : items = run[j].items \ {item}
  OBVIOUS
<1>10. PICK f : f = [run[j] EXCEPT !.items = items, !.seen = seen]
  OBVIOUS
<1>11. Become(j, f)
  BY <1>2, <1>8, <1>9, <1>10 DEF ItemDone, SeenAfter
<1>12. /\ f \in Frames /\ f.pc = run[j].pc /\ f.items = items /\ f.rest = run[j].rest
       /\ f.listed = run[j].listed /\ f.watermark = run[j].watermark
       /\ f.report = run[j].report /\ f.version = run[j].version
       /\ f.cursor = run[j].cursor /\ f.seen = seen /\ f.more = run[j].more
  <2>1. seen \subseteq Keys /\ items \subseteq Items
    BY <1>3, <1>7, <1>8, <1>9 DEF Frames
  <2>2. f = [pc |-> run[j].pc, report |-> run[j].report, version |-> run[j].version,
             cursor |-> run[j].cursor, watermark |-> run[j].watermark, items |-> items,
             more |-> run[j].more, rest |-> run[j].rest, listed |-> run[j].listed,
             seen |-> seen]
    BY <1>7, <1>10 DEF Frames
  <2> QED
    BY <1>7, <2>1, <2>2 DEF Frames
<1>13. run'[j] = f
  BY <1>11 DEF Become, SyncInv, TypeOK
<1>14. UNCHANGED <<source, changes, checkpoint, owner, reports>>
  BY <1>2 DEF store
<1>15. /\ \A k \in Keys \ {item.key} : handled'[k] = handled[k] /\ target'[k] = target[k]
       /\ handled'[item.key] = item.change
       /\ \A k \in Keys : handled[k] \in Nat /\ handled'[k] \in Nat /\ source[k] \in Nat
       /\ \A k \in Keys : handled[k] <= handled'[k]
  BY <1>2, <1>3, <1>5, <1>6 DEF Onward, SyncInv, TypeOK
<1>16. /\ Waiting(f) \subseteq Waiting(run[j]) /\ item \in Waiting(run[j])
       /\ \A i \in Waiting(run[j]) : i \in Waiting(f) \/ i = item
       /\ Waiting(run[j]) \subseteq Items /\ run[j].listed \subseteq Items
  BY <1>3, <1>7, <1>9, <1>12 DEF Waiting, Frames
<1>17. Held(j)' /\ Reported(j)'
  BY <1>2, <1>7, <1>12, <1>13, <1>14
     DEF Fits, Held, Reported, Holding, Working, Opening
<1>18. Dated(j)'
  BY <1>7, <1>12, <1>13, <1>14, <1>16 DEF Fits, Dated
<1>19. Pending(j)'
  <2>1. \A i, o \in Waiting(f) : i.key = o.key => i = o
    BY <1>2, <1>7, <1>16 DEF Fits, Pending, Working
  <2>2. ASSUME NEW i \in Waiting(f)
        PROVE  handled'[i.key] <= i.change /\ target'[i.key] <= i.change
    <3>1. i \in Waiting(run[j]) /\ i.key \in Keys /\ i.change \in 1..MaxChanges
      BY <1>16 DEF Items
    <3>2. handled[i.key] <= i.change /\ target[i.key] <= i.change
      BY <1>2, <1>7, <3>1 DEF Fits, Pending, Working
    <3>3. CASE i.key = item.key
      <4>1. i = item
        BY <1>2, <1>7, <1>16, <3>1, <3>3 DEF Fits, Pending, Working
      <4>2. target'[item.key] \in {target[item.key], item.change}
        BY <1>2, <1>3 DEF SyncInv, TypeOK
      <4> QED
        BY <1>15, <3>1, <3>2, <4>1, <4>2
    <3>4. CASE i.key # item.key
      BY <1>15, <3>1, <3>2, <3>4
    <3> QED
      BY <3>3, <3>4
  <2> QED
    BY <1>2, <1>12, <1>13, <2>1, <2>2 DEF Pending
<1>20. Covered(j)'
  <2> SUFFICES ASSUME Mode[j] = "incremental"
               PROVE  Covered(j)'
    BY DEF Covered
  <2>1. Covered(j)
    BY <1>7 DEF Fits
  <2>2. ASSUME NEW k \in Keys, source[k] <= f.watermark
        PROVE  handled'[k] >= source[k] \/ \E i \in items : i.key = k /\ i.change = source[k]
    <3>1. CASE handled[k] >= source[k]
      BY <1>15, <3>1
    <3>2. CASE handled[k] < source[k]
      <4>1. PICK i \in run[j].items : i.key = k /\ i.change = source[k]
        BY <1>2, <1>12, <1>15, <2>1, <2>2, <3>2 DEF Covered, Working
      <4>2. CASE i = item
        BY <1>15, <4>1, <4>2
      <4>3. CASE i # item
        BY <1>9, <4>1, <4>3
      <4> QED
        BY <4>2, <4>3
    <3> QED
      BY <1>15, <3>1, <3>2
  <2> QED
    BY <1>2, <1>12, <1>13, <1>14, <2>1, <2>2 DEF Covered, Working, Fetched
<1>21. Enumerated(j)'
  <2> SUFFICES ASSUME Mode[j] = "full"
               PROVE  Enumerated(j)'
    BY DEF Enumerated
  <2>1. Enumerated(j)
    BY <1>7 DEF Fits
  <2>2. ASSUME NEW i \in run[j].listed
        PROVE  i \in Waiting(f) \/ (i.key \in seen /\ handled'[i.key] >= i.change)
    <3>1. i.key \in Keys /\ i.change \in 1..MaxChanges
      BY <1>16 DEF Items
    <3>2. CASE i \in Waiting(run[j])
      BY <1>8, <1>15, <1>16, <3>1, <3>2
    <3>3. CASE i \notin Waiting(run[j])
      <4>1. i.key \in run[j].seen /\ handled[i.key] >= i.change
        BY <1>2, <2>1, <3>3 DEF Enumerated, Working
      <4>2. handled'[i.key] >= i.change
        BY <1>15, <3>1, <4>1
      <4> QED
        BY <1>8, <4>1, <4>2
    <3> QED
      BY <3>2, <3>3
  <2> QED
    BY <1>2, <1>12, <1>13, <2>1, <2>2 DEF Enumerated, Working, Fetched
<1> QED
  BY <1>6, <1>11, <1>12, <1>17, <1>18, <1>19, <1>20, <1>21, StepKeeps DEF Fits

-----------------------------------------------------------------------------
(* The checkpoint.                                                          *)

\* A page is stored: an incremental job moves the cursor to its watermark, behind which
\* nothing waits.
LEMMA PageGoesOn ==
  ASSUME SyncInv, NEW j \in Jobs, run[j].pc = "commit", StorePage(j),
         UNCHANGED <<world, owner, reports, attempts>>
  PROVE  /\ Onward(j) /\ checkpoint'.version = checkpoint.version + 1
         /\ Mode[j] = "incremental" => checkpoint'.cursor = run[j].watermark
<1>1. /\ Fits(j) /\ owner = j /\ run[j] \in Frames /\ run[j].items = {}
  BY WorkerFacts DEF Working, Fits, Pending
<1>2. checkpoint \in Checkpoint /\ checkpoint.cursor \in 0..MaxChanges
  BY DEF SyncInv, TypeOK, Checkpoint
<1>3. CursorOf(j) \in 0..MaxChanges
  BY <1>1, <1>2 DEF CursorOf, Frames
<1>4. PICK n : n = CursorOf(j)
  OBVIOUS
<1>5. checkpoint' = [checkpoint EXCEPT !.version = checkpoint.version + 1, !.cursor = n,
                                       !.complete = FALSE]
  BY <1>4 DEF StorePage
<1>6. /\ checkpoint' \in Checkpoint /\ checkpoint'.version = checkpoint.version + 1
      /\ checkpoint'.cursor = n
  <2>1. /\ checkpoint.version + 1 \in Nat
        /\ checkpoint.source \in {SourceVersion[i] : i \in Jobs} \union {NoVersion}
    BY <1>2 DEF Checkpoint
  <2>2. checkpoint' = [version |-> checkpoint.version + 1, cursor |-> n, complete |-> FALSE,
                       source |-> checkpoint.source]
    BY <1>2, <1>5 DEF Checkpoint
  <2> QED
    BY <1>3, <1>4, <2>1, <2>2 DEF Checkpoint
<1>7. UNCHANGED <<source, changes, target, active, handled>>
  BY DEF world
<1>8. /\ checkpoint.cursor <= n /\ n <= changes
      /\ \A k \in Keys : source[k] <= n => handled[k] >= source[k]
  <2>1. CASE Mode[j] = "incremental"
    <3>1. n = run[j].watermark
      BY <1>4, <2>1 DEF CursorOf
    <3> QED
      BY <1>1, <2>1, <3>1 DEF Fits, Covered, Working
  <2>2. CASE Mode[j] # "incremental"
    <3>1. n = checkpoint.cursor
      BY <1>4, <2>2 DEF CursorOf
    <3> QED
      BY <1>2, <3>1 DEF SyncInv, Timely, CursorIsCovered
  <2> QED
    BY <2>1, <2>2
<1>9. Timely' /\ CursorIsCovered'
  BY <1>6, <1>7, <1>8 DEF SyncInv, Timely, CursorIsCovered
<1>10. \A k \in Keys : handled[k] \in Nat /\ target[k] \in Nat
  BY DEF SyncInv, TypeOK
<1>11. Onward(j)
  BY <1>1, <1>6, <1>7, <1>8, <1>9, <1>10 DEF Onward, SyncInv, TypeOK
<1> QED
  BY <1>4, <1>6, <1>11 DEF CursorOf

\* The commit of a page.
LEMMA CommitKeeps ==
  ASSUME SyncInv, NEW j \in Jobs, CommitPage(j)
  PROVE  SyncInv'
<1>1. /\ run[j].pc = "commit" /\ UNCHANGED <<world, owner, reports, attempts>>
      /\ run[j] \in Frames /\ Fits(j) /\ owner = j /\ run[j].version = checkpoint.version
      /\ run[j].items = {} /\ run[j].report.pages < MaxPages
      /\ ~run[j].report.complete /\ ~Concluded(reports[j])
  BY WorkerFacts DEF CommitPage, At, Working, Fits, Pending, Held
<1>2. Current(j)
  BY <1>1 DEF Current
<1>3. /\ StorePage(j)
      /\ Become(j, [run[j] EXCEPT !.pc = "save", !.version = @ + 1, !.report = PageReport(j)])
  BY <1>2 DEF CommitPage
<1>4. /\ Onward(j) /\ checkpoint'.version = checkpoint.version + 1
      /\ Mode[j] = "incremental" => checkpoint'.cursor = run[j].watermark
  BY <1>1, <1>3, PageGoesOn
<1>5. PICK rep : rep = PageReport(j)
  OBVIOUS
<1>6. rep \in Report /\ ~rep.complete
  BY <1>1, <1>5 DEF PageReport, Report, Frames
<1>7. PICK f : f = [run[j] EXCEPT !.pc = "save", !.version = run[j].version + 1, !.report = rep]
  OBVIOUS
<1>8. Become(j, f)
  BY <1>3, <1>5, <1>7
<1>9. /\ f \in Frames /\ f.pc = "save" /\ f.items = run[j].items /\ f.rest = run[j].rest
      /\ f.listed = run[j].listed /\ f.watermark = run[j].watermark
      /\ f.report = rep /\ f.version = run[j].version + 1
      /\ f.cursor = run[j].cursor /\ f.seen = run[j].seen /\ f.more = run[j].more
  <2>1. run[j].version + 1 \in Nat
    BY <1>1 DEF Frames
  <2>2. f = [pc |-> "save", report |-> rep, version |-> run[j].version + 1,
             cursor |-> run[j].cursor, watermark |-> run[j].watermark,
             items |-> run[j].items, more |-> run[j].more, rest |-> run[j].rest,
             listed |-> run[j].listed, seen |-> run[j].seen]
    BY <1>1, <1>7 DEF Frames
  <2> QED
    BY <1>1, <1>6, <2>1, <2>2 DEF Frames
<1>10. run'[j] = f
  BY <1>8 DEF Become, SyncInv, TypeOK
<1>11. UNCHANGED <<source, changes, target, active, handled, owner, reports>>
  BY <1>1 DEF world
<1>12. Held(j)' /\ Reported(j)' /\ Dated(j)' /\ Pending(j)' /\ Enumerated(j)'
  BY <1>1, <1>4, <1>6, <1>9, <1>10, <1>11
     DEF Fits, Held, Reported, Dated, Pending, Enumerated, Holding, Working, Opening,
         Waiting, Fetched
<1>13. Covered(j)'
  BY <1>1, <1>4, <1>9, <1>10, <1>11 DEF Fits, Covered, Working, Fetched
<1> QED
  BY <1>4, <1>8, <1>9, <1>12, <1>13, StepKeeps DEF Fits

\* The report of a page is saved, and the next page is read or the end begins.
LEMMA SaveKeeps ==
  ASSUME SyncInv, NEW j \in Jobs, SavePage(j)
  PROVE  SyncInv'
<1>1. /\ run[j].pc = "save" /\ UNCHANGED <<world, checkpoint, owner, attempts>>
      /\ run[j] \in Frames /\ Fits(j) /\ owner = j /\ run[j].version = checkpoint.version
      /\ run[j].items = {} /\ ~run[j].report.complete /\ ~Concluded(reports[j])
      /\ run[j].pc \in Holding
  BY WorkerFacts DEF SavePage, At, Working, Fits, Pending, Held
<1>2. CASE CanSave(j)
  <2>1. /\ SaveReport(j, run[j].report)
        /\ Become(j, [run[j] EXCEPT !.pc = IF run[j].more THEN "poll" ELSE "finish",
                                    !.cursor = run[j].watermark])
    BY <1>2 DEF SavePage
  <2>2. PICK pc : pc = IF run[j].more THEN "poll" ELSE "finish"
    OBVIOUS
  <2>3. PICK f : f = [run[j] EXCEPT !.pc = pc, !.cursor = run[j].watermark]
    OBVIOUS
  <2>4. Become(j, f)
    BY <2>1, <2>2, <2>3
  <2>5. pc \in {"poll", "finish"} /\ (pc = "finish" => ~run[j].more)
    BY <2>2
  <2>6. /\ f \in Frames /\ f.pc = pc /\ f.items = run[j].items /\ f.rest = run[j].rest
        /\ f.listed = run[j].listed /\ f.watermark = run[j].watermark
        /\ f.report = run[j].report /\ f.version = run[j].version
        /\ f.cursor = run[j].watermark /\ f.seen = run[j].seen /\ f.more = run[j].more
    BY <1>1, <2>3, <2>5 DEF Frames
  <2>7. run'[j] = f
    BY <2>4 DEF Become, SyncInv, TypeOK
  <2>8. /\ reports' \in [Jobs -> Report \union {NoReport}] /\ reports'[j] = run[j].report
        /\ \A i \in Jobs \ {j} : reports'[i] = reports[i]
    BY <1>1, <2>1 DEF SaveReport, SyncInv, TypeOK, Frames
  <2>9. Onward(j)
    BY <1>1, <2>8, Stays DEF SyncInv, TypeOK
  <2>10. UNCHANGED <<source, changes, target, active, handled, checkpoint, owner>>
    BY <1>1 DEF world
  <2>11. Held(j)' /\ Reported(j)' /\ Dated(j)' /\ Pending(j)' /\ Enumerated(j)'
    BY <1>1, <2>5, <2>6, <2>7, <2>8, <2>10
       DEF Fits, Held, Reported, Dated, Pending, Enumerated, Holding, Working, Opening,
           Waiting, Fetched, Concluded
  <2>12. Covered(j)'
    BY <1>1, <2>5, <2>6, <2>7, <2>10 DEF Fits, Covered, Working, Fetched
  <2> QED
    BY <2>4, <2>6, <2>9, <2>11, <2>12, StepKeeps DEF Fits
<1>3. CASE ~CanSave(j)
  BY <1>1, <1>3, LeavesQuietly DEF SavePage, Fail
<1> QED
  BY <1>2, <1>3

\* The end of a run is stored: the cursor stays where it is.
LEMMA SuccessGoesOn ==
  ASSUME SyncInv, NEW j \in Jobs, owner = j, StoreSuccess,
         UNCHANGED <<world, owner, reports, attempts>>
  PROVE  Onward(j)
<1>1. checkpoint' \in Checkpoint /\ checkpoint'.cursor = checkpoint.cursor
      /\ checkpoint.cursor \in Nat
  <2>1. checkpoint \in Checkpoint /\ checkpoint.version + 1 \in Nat
    BY DEF SyncInv, TypeOK, Checkpoint
  <2>2. checkpoint' = [version |-> checkpoint.version + 1, cursor |-> checkpoint.cursor,
                       complete |-> TRUE, source |-> checkpoint.source]
    BY <2>1 DEF StoreSuccess, Checkpoint
  <2> QED
    BY <2>1, <2>2 DEF Checkpoint
<1>2. UNCHANGED <<source, changes, target, active, handled>>
  BY DEF world
<1>3. Timely' /\ CursorIsCovered'
  BY <1>1, <1>2 DEF SyncInv, Timely, CursorIsCovered
<1>4. \A k \in Keys : handled[k] \in Nat /\ target[k] \in Nat
  BY DEF SyncInv, TypeOK
<1> QED
  BY <1>1, <1>2, <1>3, <1>4 DEF Onward, SyncInv, TypeOK

\* A job that has come to its end can justify a complete report.
LEMMA EndIsJustified ==
  ASSUME SyncInv, NEW j \in Jobs, run[j].pc = "publish"
  PROVE  Justified(j)
<1>1. /\ Fits(j) /\ run[j] \in Frames /\ run[j].items = {} /\ ~run[j].more
  <2>1. /\ Fits(j) /\ run[j] \in Frames /\ run[j].items = {}
    BY WorkerFacts DEF Working, Fits, Pending
  <2>2. Mode[j] = "incremental" \/ Mode[j] = "full"
    OBVIOUS
  <2> QED
    BY <2>1, <2>2 DEF Fits, Covered, Enumerated, Working
<1>2. CASE Mode[j] = "full"
  BY <1>1, <1>2 DEF Fits, Enumerated, Working, Fetched, Waiting, Justified
<1>3. CASE Mode[j] = "incremental"
  <2>1. ASSUME NEW i \in run[j].listed, source[i.key] = i.change
        PROVE  handled[i.key] >= i.change /\ i.change <= checkpoint.cursor
    <3>1. i.key \in Keys
      BY <1>1 DEF Frames, Items
    <3>2. i.change <= checkpoint.cursor
      BY <1>1, <1>3, <2>1 DEF Fits, Covered, Working, Fetched
    <3> QED
      BY <2>1, <3>1, <3>2 DEF SyncInv, CursorIsCovered
  <2> QED
    BY <1>3, <2>1 DEF Justified
<1> QED
  BY <1>2, <1>3

\* The records that a full enumeration did not list are deactivated.
LEMMA SweepKeeps ==
  ASSUME SyncInv, NEW j \in Jobs, Sweep(j)
  PROVE  SyncInv'
<1>1. /\ run[j].pc = "sweep" /\ UNCHANGED <<source, changes, target, handled, store, attempts>>
      /\ Goto(j, "publish")
      /\ run[j] \in Frames /\ Fits(j) /\ owner = j /\ run[j].version = checkpoint.version
      /\ run[j].items = {} /\ ~run[j].report.complete /\ ~Concluded(reports[j])
  BY WorkerFacts DEF Sweep, At, Working, Fits, Pending
<1>2. UNCHANGED <<checkpoint, owner, reports>>
  BY <1>1 DEF store
<1>3. Onward(j)
  <2>1. active' \subseteq Keys
    BY DEF Sweep, SyncInv, TypeOK
  <2>2. Timely' /\ CursorIsCovered'
    BY <1>1, <1>2 DEF SyncInv, Timely, CursorIsCovered
  <2>3. (\A k \in Keys : handled[k] \in Nat /\ target[k] \in Nat) /\ checkpoint.cursor \in Nat
    BY DEF SyncInv, TypeOK, Checkpoint
  <2> QED
    BY <1>1, <1>2, <2>1, <2>2, <2>3 DEF Onward, SyncInv, TypeOK
<1>4. PICK f \in Frames :
        Become(j, f) /\ run'[j] = f /\ f.pc = "publish" /\ f = [run[j] EXCEPT !.pc = "publish"]
  BY <1>1, GotoShape DEF SyncInv
<1>5. /\ f.report = run[j].report /\ f.version = run[j].version /\ f.cursor = run[j].cursor
      /\ f.watermark = run[j].watermark /\ f.items = run[j].items /\ f.more = run[j].more
      /\ f.rest = run[j].rest /\ f.listed = run[j].listed /\ f.seen = run[j].seen
  BY <1>1, <1>4 DEF Frames
<1>6. Held(j)' /\ Reported(j)' /\ Dated(j)' /\ Pending(j)'
  BY <1>1, <1>2, <1>4, <1>5
     DEF Fits, Held, Reported, Dated, Pending, Holding, Working, Opening, Waiting, Fetched
<1>7. Covered(j)' /\ Enumerated(j)'
  BY <1>1, <1>2, <1>4, <1>5 DEF Fits, Covered, Enumerated, Working, Waiting, Fetched
<1> QED
  BY <1>3, <1>4, <1>6, <1>7, StepKeeps DEF Fits

\* The end of the run, and the finally clause.
LEMMA EndKeeps ==
  ASSUME SyncInv, NEW j \in Jobs, Publish(j) \/ Close(j) \/ Release(j)
  PROVE  SyncInv'
<1>1. CASE Publish(j)
  <2>1. /\ run[j].pc = "publish" /\ UNCHANGED <<world, owner, reports, attempts>>
        /\ run[j] \in Frames /\ owner = j /\ run[j].version = checkpoint.version
    BY <1>1, WorkerFacts DEF Publish, At, Working
  <2>2. /\ StoreSuccess /\ Leave(j, "close", [run[j].report EXCEPT !.complete = TRUE])
    BY <1>1, <2>1 DEF Publish, Current
  <2>3. PICK rep : rep = [run[j].report EXCEPT !.complete = TRUE]
    OBVIOUS
  <2>4. rep \in Report
    BY <2>1, <2>3 DEF Frames, Report
  <2>5. Leave(j, "close", rep)
    BY <2>2, <2>3
  <2>6. Onward(j) /\ owner' = j
    BY <2>1, <2>2, SuccessGoesOn
  <2> QED
    BY <2>1, <2>4, <2>5, <2>6, EndIsJustified, LeaveKeeps
<1>2. CASE Close(j)
  <2>1. /\ run[j].pc \in Holding /\ UNCHANGED <<world, checkpoint, owner, attempts>>
        /\ \/ SaveReport(j, run[j].report) /\ Leave(j, "release", run[j].report)
           \/ Leave(j, "release", Failed(run[j].report)) /\ UNCHANGED reports
    BY <1>2 DEF Close, At, Holding
  <2> QED
    BY <2>1, LeavesQuietly
<1>3. CASE Release(j)
  <2>1. /\ run[j].pc = "release" /\ UNCHANGED <<world, checkpoint, reports, attempts>>
        /\ owner = j /\ owner' = NoJob /\ Leave(j, "idle", run[j].report)
        /\ run[j].report \in Report /\ Fits(j)
    BY <1>3 DEF Release, At, End, SyncInv, Fits, Held, Holding, TypeOK, Frames
  <2>2. UNCHANGED <<source, changes, target, active, handled>>
    BY <2>1 DEF world
  <2>3. Timely' /\ CursorIsCovered'
    BY <2>1, <2>2 DEF SyncInv, Timely, CursorIsCovered
  <2>4. (\A k \in Keys : handled[k] \in Nat /\ target[k] \in Nat) /\ checkpoint.cursor \in Nat
    BY DEF SyncInv, TypeOK, Checkpoint
  <2>5. Onward(j)
    BY <2>1, <2>2, <2>3, <2>4 DEF Onward, SyncInv, TypeOK
  <2>6. run[j].report.complete \/ Concluded(reports'[j]) => Justified(j)
    BY <2>1 DEF Fits, Reported
  <2> QED
    BY <2>1, <2>5, <2>6, LeaveKeeps
<1> QED
  BY <1>1, <1>2, <1>3

\* A report that is deleted claims nothing.
LEMMA DeleteKeeps ==
  ASSUME SyncInv, NEW j \in Jobs, DeleteReport(j)
  PROVE  SyncInv'
<1>1. UNCHANGED <<world, checkpoint, owner, run, attempts>>
  BY DEF DeleteReport
<1>2. /\ reports' \in [Jobs -> Report \union {NoReport}] /\ reports'[j] = NoReport
      /\ \A i \in Jobs \ {j} : reports'[i] = reports[i]
  BY DEF DeleteReport, SyncInv, TypeOK
<1>3. Onward(j)
  BY <1>1, <1>2, Stays DEF SyncInv, TypeOK
<1>4. run[j] \in Frames /\ Become(j, run[j]) /\ run'[j] = run[j]
  BY <1>1 DEF SyncInv, TypeOK, Become
<1>5. Fits(j)'
  <2>1. Fits(j) /\ UNCHANGED <<source, changes, target, handled, checkpoint, owner>>
    BY <1>1 DEF SyncInv, world
  <2> QED
    BY <1>2, <1>4, <2>1
       DEF Fits, Held, Dated, Pending, Covered, Enumerated, Reported, Justified, Concluded
<1> QED
  BY <1>3, <1>4, <1>5, StepKeeps

-----------------------------------------------------------------------------
(* Calls that raise, and the source.                                        *)

\* A call without effect.
LEMMA CallKeeps ==
  ASSUME SyncInv, NEW j \in Jobs, CallLost(j)
  PROVE  SyncInv'
<1>1. UNCHANGED <<world, checkpoint, owner, reports, attempts>>
  BY DEF CallLost, store
<1>2. CASE run[j].pc \in {"reserve", "claim", "refused"} /\ End(j)
  BY <1>1, <1>2, LeavesQuietly DEF End
<1>3. CASE run[j].pc \in {"commit", "save", "sweep", "publish"} /\ Fail(j)
  BY <1>1, <1>3, LeavesQuietly DEF Fail, Holding, Working
<1>4. CASE At(j, "close") /\ Leave(j, "release", Failed(run[j].report))
  BY <1>1, <1>4, LeavesQuietly DEF At, Holding
<1>5. CASE At(j, "release") /\ Leave(j, "idle", Failed(run[j].report))
  BY <1>1, <1>5, LeavesQuietly
<1> QED
  BY <1>2, <1>3, <1>4, <1>5 DEF CallLost

\* A call with effect, of which the job only learns that it raised.
LEMMA ReplyKeeps ==
  ASSUME SyncInv, NEW j \in Jobs, ReplyLost(j)
  PROVE  SyncInv'
<1>0. run[j].report \in Report /\ Fits(j)
  BY DEF SyncInv, TypeOK, Frames
<1>1. ASSUME At(j, "claim"), Claims(j), owner' = j,
             checkpoint' = [checkpoint EXCEPT !.source = SourceVersion[j]], End(j),
             UNCHANGED <<world, reports, attempts>>
      PROVE  SyncInv'
  <2>1. Onward(j)
    BY <1>1, ClaimGoesOn
  <2>2. run[j].report.complete \/ Concluded(reports'[j]) => Justified(j)
    BY <1>0, <1>1 DEF Fits, Reported
  <2> QED
    BY <1>0, <1>1, <2>1, <2>2, LeaveKeeps DEF End
<1>2. ASSUME At(j, "item"), run[j].items # {}, Applies(Turn(j)), Fail(j),
             UNCHANGED <<source, changes, handled, store, attempts>>
      PROVE  SyncInv'
  <2>1. PICK item : item = Turn(j)
    OBVIOUS
  <2>2. item \in run[j].items /\ item.key \in Keys
    BY <1>2, <2>1, TurnIsAnItem DEF SyncInv
  <2>3. /\ target' = [target EXCEPT ![item.key] = item.change] /\ active' \subseteq Keys
    BY <1>2, <2>1, <2>2 DEF Applies, SyncInv, TypeOK
  <2>4. Onward(j)
    BY <1>2, <2>2, <2>3, ItemGoesOn DEF At
  <2> QED
    BY <1>2, <2>4, FailKeeps DEF At, Working, store
<1>3. ASSUME At(j, "commit"), StorePage(j), Fail(j),
             UNCHANGED <<world, owner, reports, attempts>>
      PROVE  SyncInv'
  BY <1>3, PageGoesOn, FailKeeps DEF At, Working
<1>4. ASSUME At(j, "sweep"), active' = active \intersect run[j].seen, Fail(j),
             UNCHANGED <<source, changes, target, handled, store, attempts>>
      PROVE  SyncInv'
  <2>1. UNCHANGED <<checkpoint, owner, reports>>
    BY <1>4 DEF store
  <2>2. active' \subseteq Keys
    BY <1>4 DEF SyncInv, TypeOK
  <2>3. Timely' /\ CursorIsCovered'
    BY <1>4, <2>1 DEF SyncInv, Timely, CursorIsCovered
  <2>4. (\A k \in Keys : handled[k] \in Nat /\ target[k] \in Nat) /\ checkpoint.cursor \in Nat
    BY DEF SyncInv, TypeOK, Checkpoint
  <2>5. Onward(j)
    BY <1>4, <2>1, <2>2, <2>3, <2>4 DEF Onward, SyncInv, TypeOK
  <2> QED
    BY <1>4, <2>1, <2>5, FailKeeps DEF At, Working
<1>5. ASSUME At(j, "publish"), StoreSuccess, Fail(j), owner = j,
             UNCHANGED <<world, owner, reports, attempts>>
      PROVE  SyncInv'
  BY <1>5, SuccessGoesOn, FailKeeps DEF At, Working
<1>6. ASSUME At(j, "close"), SaveReport(j, run[j].report),
             Leave(j, "release", Failed(run[j].report)),
             UNCHANGED <<world, checkpoint, owner, attempts>>
      PROVE  SyncInv'
  BY <1>6, LeavesQuietly DEF At, Holding
<1> QED
  BY <1>1, <1>2, <1>3, <1>4, <1>5, <1>6 DEF ReplyLost, Current

\* The source changes: its last change is later than all that is in hand.
LEMMA SourceKeeps ==
  ASSUME SyncInv, NEW k \in Keys, Upsert(k) \/ Remove(k)
  PROVE  SyncInv'
<1>1. UNCHANGED <<target, active, handled, checkpoint, owner, reports, run, attempts>>
  BY DEF Upsert, Remove, store
<1>2. /\ source' \in [Keys -> 0..MaxChanges] /\ changes' \in 0..MaxChanges
      /\ changes <= changes' /\ changes \in Nat
      /\ \A l \in Keys : \/ source'[l] = source[l] \/ source'[l] = 0
                         \/ source'[l] = changes' /\ changes < changes'
  <2>1. changes \in 0..MaxChanges /\ source \in [Keys -> 0..MaxChanges]
    BY DEF SyncInv, TypeOK
  <2>2. CASE Upsert(k)
    BY <2>1, <2>2 DEF Upsert
  <2>3. CASE Remove(k)
    BY <2>1, <2>3 DEF Remove
  <2> QED
    BY <2>2, <2>3
<1>3. TypeOK'
  BY <1>1, <1>2 DEF SyncInv, TypeOK
<1>4. (\A l \in Keys : /\ source[l] \in Nat /\ source'[l] \in Nat
                       /\ handled[l] \in Nat /\ target[l] \in Nat)
      /\ checkpoint.cursor \in Nat /\ changes' \in Nat
  BY <1>2 DEF SyncInv, TypeOK, Checkpoint
<1>5. Timely' /\ CursorIsCovered'
  BY <1>1, <1>2, <1>4 DEF SyncInv, Timely, CursorIsCovered
<1>6. ASSUME NEW j \in Jobs
      PROVE  Fits(j)'
  <2>1. /\ Fits(j) /\ run[j] \in Frames
        /\ \A i \in run[j].listed \union Waiting(run[j]) :
             i.key \in Keys /\ i.change \in Nat /\ i.change # 0 /\ i.change <= changes
    BY DEF SyncInv, TypeOK, Fits, Dated, Frames, Items, Waiting
  <2>2. Held(j)' /\ Pending(j)' /\ Enumerated(j)'
    BY <1>1, <2>1 DEF Fits, Held, Pending, Enumerated
  <2>3. Dated(j)'
    BY <1>1, <1>2, <1>4, <2>1 DEF Fits, Dated
  <2>4. \A i \in run[j].listed : source'[i.key] = i.change => source[i.key] = i.change
    BY <1>2, <2>1
  <2>5. Reported(j)'
    BY <1>1, <2>1, <2>4 DEF Fits, Reported, Justified
  <2>6. Covered(j)'
    <3> SUFFICES ASSUME Mode[j] = "incremental", run[j].pc \in Working
                 PROVE  Covered(j)'
      BY <1>1 DEF Covered
    <3>1. Covered(j) /\ run[j].watermark \in Nat
      BY <2>1 DEF Fits, Frames
    <3>2. ASSUME run[j].pc \in {"item", "commit"}, NEW l \in Keys,
                 source'[l] <= run[j].watermark
          PROVE  \/ handled[l] >= source'[l]
                 \/ \E i \in run[j].items : i.key = l /\ i.change = source'[l]
      <4>1. run[j].watermark <= changes
        BY <3>1, <3>2 DEF Covered
      <4>2. source'[l] = source[l] \/ source'[l] = 0
        BY <1>2, <1>4, <3>1, <3>2, <4>1
      <4> QED
        BY <1>4, <3>1, <3>2, <4>2 DEF Covered
    <3>3. run[j].pc \in {"item", "commit"} => run[j].watermark <= changes'
      BY <1>2, <1>4, <3>1 DEF Covered
    <3> QED
      BY <1>1, <2>4, <3>1, <3>2, <3>3 DEF Covered
  <2> QED
    BY <2>2, <2>3, <2>5, <2>6 DEF Fits
<1> QED
  BY <1>3, <1>5, <1>6 DEF SyncInv

-----------------------------------------------------------------------------
(* The theorems.                                                            *)

\* Every step keeps the invariant.
LEMMA SyncStep ==
  ASSUME SyncInv, [Next]_vars
  PROVE  SyncInv'
<1>1. CASE UNCHANGED vars
  <2>1. /\ UNCHANGED <<source, changes, target, active, handled>>
        /\ UNCHANGED <<checkpoint, owner, reports, run, attempts>>
    BY <1>1 DEF vars, world, store
  <2>2. TypeOK' /\ Timely' /\ CursorIsCovered'
    BY <2>1 DEF SyncInv, TypeOK, Timely, CursorIsCovered
  <2>3. ASSUME NEW j \in Jobs
        PROVE  Fits(j)'
    <3>1. Fits(j)
      BY DEF SyncInv
    <3> QED
      BY <2>1, <3>1 DEF Fits, Held, Dated, Pending, Covered, Enumerated, Reported, Justified
  <2> QED
    BY <2>2, <2>3 DEF SyncInv
<1>2. ASSUME NEW k \in Keys, Upsert(k) \/ Remove(k)
      PROVE  SyncInv'
  BY <1>2, SourceKeeps
<1>3. ASSUME NEW j \in Jobs,
             Begin(j) \/ Attempt(j) \/ DeleteReport(j) \/ CallLost(j) \/ ReplyLost(j)
      PROVE  SyncInv'
  BY <1>3, BeginKeeps, ReserveKeeps, ClaimKeeps, RefusedKeeps, TurnKeeps, FetchKeeps,
     ItemKeeps, CommitKeeps, SaveKeeps, SweepKeeps, EndKeeps, DeleteKeeps, CallKeeps,
     ReplyKeeps DEF Attempt
<1> QED
  BY <1>1, <1>2, <1>3 DEF Next

\* It holds at the start.
LEMMA SyncInit == Init => SyncInv
<1> SUFFICES ASSUME Init
             PROVE  SyncInv
  OBVIOUS
<1>1. PICK f : f = Idle
  OBVIOUS
<1>2. /\ f \in Frames /\ f.pc = "idle" /\ f.report = NewReport /\ f.items = {}
      /\ f.rest = {} /\ f.listed = {} /\ f.seen = {}
  BY <1>1 DEF Idle, Frames, Report, NewReport
<1>3. \A j \in Jobs : run[j] = f
  BY <1>1 DEF Init
<1>4. checkpoint \in Checkpoint /\ checkpoint.cursor = 0
  BY DEF Init, Checkpoint
<1>5. TypeOK
  <2>1. run \in [Jobs -> Frames]
    BY <1>1, <1>2 DEF Init
  <2> QED
    BY <1>4, <2>1 DEF Init, TypeOK
<1>6. Timely /\ CursorIsCovered
  BY <1>4 DEF Init, Timely, CursorIsCovered
<1>7. \A j \in Jobs : Fits(j)
  BY <1>2, <1>3
     DEF Init, Fits, Held, Dated, Pending, Covered, Enumerated, Reported, Justified, Holding,
         Working, Opening, Waiting, NewReport, Concluded
<1> QED
  BY <1>5, <1>6, <1>7 DEF SyncInv

\* The inductive invariant, in every reachable state.
THEOREM SyncInductive == Spec => []SyncInv
<1>1. Init => SyncInv
  BY SyncInit
<1>2. SyncInv /\ [Next]_vars => SyncInv'
  BY SyncStep
<1> QED
  BY <1>1, <1>2, PTL DEF Spec

\* What the scope claims of its progress is true: an incremental run may start after the
\* cursor without missing a change, and a complete report covers what the source listed
\* as its run began, whatever calls failed and however often it was tried again.
THEOREM NothingIsEverSkipped == Spec => []NothingIsSkipped
<1>1. SyncInv => NothingIsSkipped
  <2> SUFFICES ASSUME SyncInv
               PROVE  NothingIsSkipped
    OBVIOUS
  <2>1. ASSUME NEW j \in Jobs, reports[j] # NoReport, reports[j].complete
        PROVE  Justified(j)
    BY <2>1 DEF SyncInv, Fits, Reported, Concluded
  <2> QED
    BY <2>1 DEF NothingIsSkipped, CompleteIsTrue, Justified, SyncInv
<1> QED
  BY <1>1, SyncInductive, PTL

\* What a step moves of the values, the cursor and the active records.
LEMMA StepsOnward ==
  ASSUME SyncInv, Next
  PROVE  \/ UNCHANGED <<target, active, handled>> /\ checkpoint'.cursor = checkpoint.cursor
         \/ \E j \in Jobs : \/ Onward(j) /\ active \subseteq active'
                            \/ Sweep(j) \/ (At(j, "sweep") /\ ReplyLost(j))
<1> DEFINE Rests == UNCHANGED <<target, active, handled>>
                    /\ checkpoint'.cursor = checkpoint.cursor
<1>1. ASSUME NEW k \in Keys, Upsert(k) \/ Remove(k)
      PROVE  Rests
  BY <1>1 DEF Upsert, Remove, store
<1>2. ASSUME NEW j \in Jobs,
             \/ Begin(j) \/ Reserve(j) \/ Refused(j) \/ Poll(j) \/ Fetch(j) \/ FetchFails(j)
             \/ ItemFails(j) \/ PageApplied(j) \/ SavePage(j) \/ Finish(j) \/ Close(j)
             \/ Release(j) \/ DeleteReport(j) \/ CallLost(j)
      PROVE  Rests
  BY <1>2 DEF Begin, Reserve, Refused, Poll, Fetch, FetchFails, ItemFails, PageApplied,
              SavePage, Finish, Close, Release, DeleteReport, CallLost, world, store
<1>3. ASSUME NEW j \in Jobs, SkipItem(j) \/ ApplyItem(j) \/ (At(j, "item") /\ ReplyLost(j))
      PROVE  Onward(j) /\ active \subseteq active'
  <2>1. PICK item : item = Turn(j)
    OBVIOUS
  <2>2. /\ run[j].pc = "item" /\ run[j].items # {}
        /\ UNCHANGED <<source, changes, store, attempts>>
        /\ handled' \in {handled, [handled EXCEPT ![item.key] = item.change]}
        /\ target' \in {target, [target EXCEPT ![item.key] = item.change]}
        /\ active' \in {active, active \union {item.key}}
    BY <1>3, <2>1 DEF SkipItem, ApplyItem, ReplyLost, Applies, ItemDone, At
  <2>3. item \in run[j].items /\ item.key \in Keys
    BY <2>1, <2>2, TurnIsAnItem DEF SyncInv
  <2>4. active' \subseteq Keys
    BY <2>2, <2>3 DEF SyncInv, TypeOK
  <2> QED
    BY <2>2, <2>3, <2>4, ItemGoesOn
<1>4. ASSUME NEW j \in Jobs, CommitPage(j) \/ (At(j, "commit") /\ ReplyLost(j))
      PROVE  Rests \/ (Onward(j) /\ active \subseteq active')
  <2>1. CASE StorePage(j)
    <3>1. run[j].pc = "commit" /\ UNCHANGED <<world, owner, reports, attempts>>
      BY <1>4 DEF CommitPage, ReplyLost, At
    <3> QED
      BY <2>1, <3>1, PageGoesOn DEF world
  <2>2. CASE ~StorePage(j)
    BY <1>4, <2>2 DEF CommitPage, ReplyLost, At, world
  <2> QED
    BY <2>1, <2>2
<1>5. ASSUME NEW j \in Jobs,
             \/ Claim(j) \/ Publish(j)
             \/ (At(j, "claim") \/ At(j, "publish") \/ At(j, "close")) /\ ReplyLost(j)
      PROVE  Rests
  <2>1. /\ UNCHANGED world
        /\ \/ checkpoint' = [checkpoint EXCEPT !.source = SourceVersion[j]]
           \/ StoreSuccess \/ UNCHANGED checkpoint
    BY <1>5 DEF Claim, Publish, ReplyLost, At
  <2>2. checkpoint \in Checkpoint
    BY DEF SyncInv, TypeOK
  <2>3. checkpoint'.cursor = checkpoint.cursor
    BY <2>1, <2>2 DEF StoreSuccess, Checkpoint
  <2> QED
    BY <2>1, <2>3 DEF world
<1>6. ASSUME NEW j \in Jobs, ReplyLost(j)
      PROVE  run[j].pc \in {"claim", "item", "commit", "sweep", "publish", "close"}
  BY <1>6 DEF ReplyLost, At
<1>7. ASSUME NEW j \in Jobs,
             Begin(j) \/ Attempt(j) \/ DeleteReport(j) \/ CallLost(j) \/ ReplyLost(j)
      PROVE  \/ Rests
             \/ Onward(j) /\ active \subseteq active'
             \/ Sweep(j) \/ (At(j, "sweep") /\ ReplyLost(j))
  BY <1>2, <1>3, <1>4, <1>5, <1>6, <1>7 DEF Attempt, At
<1> QED
  BY <1>1, <1>7 DEF Next

\* Of a sweep: only what it deactivates changes, and it is the owner's.
LEMMA SweepEffect ==
  ASSUME SyncInv, NEW j \in Jobs, Sweep(j) \/ (At(j, "sweep") /\ ReplyLost(j))
  PROVE  /\ run[j].pc = "sweep" /\ active' = active \intersect run[j].seen
         /\ UNCHANGED <<target, handled, checkpoint>>
BY DEF Sweep, ReplyLost, At, store

\* An item is not applied over a later change of the same key, nor forgotten, and the
\* cursor does not go back.
THEOREM NothingEverRegresses == Spec => NothingRegresses
<1> DEFINE Kept == /\ \A k \in Keys : handled'[k] >= handled[k] /\ target'[k] >= target[k]
                   /\ checkpoint'.cursor >= checkpoint.cursor
<1>1. SyncInv /\ [Next]_vars => [Kept]_vars
  <2> SUFFICES ASSUME SyncInv, Next
               PROVE  Kept
    OBVIOUS
  <2>1. /\ \A k \in Keys : handled[k] \in Nat /\ target[k] \in Nat
        /\ checkpoint.cursor \in Nat
    BY DEF SyncInv, TypeOK, Checkpoint
  <2>2. CASE UNCHANGED <<target, active, handled>> /\ checkpoint'.cursor = checkpoint.cursor
    BY <2>1, <2>2
  <2>3. ASSUME NEW j \in Jobs, Onward(j)
        PROVE  Kept
    <3>1. /\ \A k \in Keys : handled'[k] \in Nat /\ target'[k] \in Nat
          /\ checkpoint'.cursor \in Nat
      BY <2>3 DEF Onward, Checkpoint
    <3> QED
      BY <2>1, <2>3, <3>1 DEF Onward
  <2>4. ASSUME NEW j \in Jobs, Sweep(j) \/ (At(j, "sweep") /\ ReplyLost(j))
        PROVE  Kept
    BY <2>1, <2>4, SweepEffect
  <2> HIDE DEF Kept
  <2> QED
    BY <2>2, <2>3, <2>4, StepsOnward
<1> QED
  BY <1>1, SyncInductive, PTL DEF NothingRegresses, Spec

\* Only what a complete enumeration of the source did not list is deactivated, once all
\* that it did list was handled.
THEOREM SweepsAreJustified == Spec => SweepIsJustified
<1> DEFINE Just == \A k \in active \ active' :
                     /\ owner # NoJob
                     /\ k \notin {i.key : i \in run[owner].listed}
                     /\ \A i \in run[owner].listed : handled[i.key] >= i.change
<1>1. SyncInv /\ [Next]_vars => [Just]_vars
  <2> SUFFICES ASSUME SyncInv, Next
               PROVE  Just
    OBVIOUS
  <2>1. CASE active \subseteq active'
    BY <2>1
  <2>2. ASSUME NEW j \in Jobs, Sweep(j) \/ (At(j, "sweep") /\ ReplyLost(j))
        PROVE  Just
    <3>1. run[j].pc = "sweep" /\ active' = active \intersect run[j].seen
      BY <2>2, SweepEffect
    <3>2. /\ owner = j /\ j # NoJob /\ Fits(j) /\ run[j].items = {}
      BY <3>1, WorkerFacts DEF Working, Fits, Pending
    <3>3. Mode[j] = "full"
      <4>1. Mode[j] # "incremental"
        BY <3>1, <3>2 DEF Fits, Covered, Working
      <4> QED
        BY <4>1
    <3>4. run[j].rest = {}
      BY <3>1, <3>2, <3>3 DEF Fits, Enumerated, Working, Fetched
    <3>5. \A i \in run[j].listed : i.key \in run[j].seen /\ handled[i.key] >= i.change
      BY <3>1, <3>2, <3>3, <3>4 DEF Fits, Enumerated, Working, Waiting
    <3> QED
      BY <3>1, <3>2, <3>5
  <2> HIDE DEF Just
  <2> QED
    BY <2>1, <2>2, StepsOnward
<1> QED
  BY <1>1, SyncInductive, PTL DEF SweepIsJustified, Spec
=============================================================================
