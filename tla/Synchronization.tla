-------------------------- MODULE Synchronization ---------------------------
(***************************************************************************)
(* One synchronization scope: the job handler that pulls pages from a      *)
(* source and applies them to a target                                     *)
(* (application/services/synchronization.py), with the memory target and   *)
(* checkpoint store (adapters/outbound/memory/synchronization.py).  A job  *)
(* executes one attempt at a time, several jobs compete for the scope, and *)
(* the source changes meanwhile.  An item is a key and the number of the   *)
(* source change that it carries; a cursor is the number of the last       *)
(* change it covers, 0 for none.                                           *)
(***************************************************************************)
EXTENDS Naturals, FiniteSets

CONSTANTS
  Jobs, NoJob,
  Mode,          \* "full" or "incremental", for each job
  SourceVersion, \* source_version of each job's definition
  NoVersion,
  Keys,          \* external keys
  PageSize, MaxPages, MaxFullItems,
  Deactivates,   \* missing_policy = "deactivate"
  MaxRecords,    \* capacity of the target
  MaxReports,    \* capacity for reports
  MaxAttempts,   \* max_attempts of each job
  MaxChanges,    \* bound on the changes of the source
  CallsFail      \* calls of the ports may raise, before or after their effect

ASSUME JobsAssumption ==
  /\ NoJob \notin Jobs /\ Mode \in [Jobs -> {"full", "incremental"}]
  /\ \A j \in Jobs : SourceVersion[j] # NoVersion
ASSUME LimitsAssumption ==
  /\ IsFiniteSet(Keys) /\ PageSize \in Nat \ {0} /\ MaxPages \in Nat \ {0} /\ MaxFullItems \in Nat \ {0}
  /\ MaxRecords \in Nat \ {0} /\ MaxReports \in Nat \ {0}
  /\ MaxAttempts \in [Jobs -> Nat \ {0}] /\ MaxChanges \in Nat
  /\ Deactivates \in BOOLEAN /\ CallsFail \in BOOLEAN

VARIABLES
  source,      \* last change of each key, 0 when it is absent from the source
  changes,     \* number of changes so far
  target,      \* change each record holds, 0 when there is none
  active,      \* records that are active
  handled,     \* last change of each key that was applied or deliberately skipped
  checkpoint,  \* SyncCheckpoint of the scope
  owner,       \* _owners of the scope
  reports,     \* _reports
  run,         \* the frame of each job's attempt
  attempts     \* attempts each job has begun

store == <<checkpoint, owner, reports>>
world == <<source, changes, target, active, handled>>
vars == <<world, store, run, attempts>>

-----------------------------------------------------------------------------
Items == [key : Keys, change : 1..MaxChanges]

Report == [pages : 0..MaxPages, complete : BOOLEAN, failed : BOOLEAN]
NewReport == [pages |-> 0, complete |-> FALSE, failed |-> FALSE]
NoReport == [pages |-> 0]

Checkpoint ==
  [version : Nat, cursor : 0..MaxChanges, complete : BOOLEAN,
   source : {SourceVersion[j] : j \in Jobs} \union {NoVersion}]

\* `items' is what is left of the page, `rest' the part of a full enumeration that
\* was not fetched, `listed' the whole of it.
Idle ==
  [pc |-> "idle", report |-> NewReport, version |-> 0, cursor |-> 0,
   watermark |-> 0, items |-> {}, more |-> TRUE, rest |-> {}, listed |-> {},
   seen |-> {}]

Frames ==
  [pc : {"idle", "reserve", "claim", "refused", "poll", "fetch", "item", "commit",
         "save", "finish", "sweep", "publish", "close", "release"},
   report : Report, version : Nat, cursor : 0..MaxChanges,
   watermark : 0..MaxChanges, items : SUBSET Items, more : BOOLEAN,
   rest : SUBSET Items, listed : SUBSET Items, seen : SUBSET Keys]

TypeOK ==
  /\ source \in [Keys -> 0..MaxChanges] /\ changes \in 0..MaxChanges
  /\ target \in [Keys -> 0..MaxChanges] /\ active \subseteq Keys
  /\ handled \in [Keys -> 0..MaxChanges]
  /\ checkpoint \in Checkpoint
  /\ owner \in Jobs \union {NoJob}
  /\ reports \in [Jobs -> Report \union {NoReport}]
  /\ run \in [Jobs -> Frames]
  /\ attempts \in [Jobs -> Nat] /\ \A j \in Jobs : attempts[j] <= MaxAttempts[j]

Init ==
  /\ source = [k \in Keys |-> 0] /\ changes = 0
  /\ target = [k \in Keys |-> 0] /\ active = {}
  /\ handled = [k \in Keys |-> 0]
  /\ checkpoint = [version |-> 0, cursor |-> 0, complete |-> FALSE,
                   source |-> NoVersion]
  /\ owner = NoJob
  /\ reports = [j \in Jobs |-> NoReport]
  /\ run = [j \in Jobs |-> Idle]
  /\ attempts = [j \in Jobs |-> 0]

-----------------------------------------------------------------------------
(* The source.                                                              *)

Upsert(k) ==
  /\ changes < MaxChanges
  /\ changes' = changes + 1
  /\ source' = [source EXCEPT ![k] = changes + 1]
  /\ UNCHANGED <<target, active, handled, store, run, attempts>>

Remove(k) ==
  /\ source[k] # 0
  /\ source' = [source EXCEPT ![k] = 0]
  /\ UNCHANGED <<changes, target, active, handled, store, run, attempts>>

Present == {i \in Items : source[i.key] = i.change}

\* The source's obligation: the oldest items come first, at most `limit' of them.
FirstPage(items) ==
  {i \in items : Cardinality({o \in items : o.change < i.change}) < PageSize}

-----------------------------------------------------------------------------
(* Frames.                                                                  *)

At(j, pc) == run[j].pc = pc
Become(j, frame) == run' = [run EXCEPT ![j] = frame]
Goto(j, pc) == Become(j, [run[j] EXCEPT !.pc = pc])

\* execute's except clauses: the report says so, and the finally clause follows.
Failed(report) == [report EXCEPT !.complete = FALSE, !.failed = TRUE]
Leave(j, pc, report) ==
  Become(j, [Idle EXCEPT !.pc = pc, !.report = report, !.listed = run[j].listed])
Fail(j) == Leave(j, "close", Failed(run[j].report))

\* The attempt ends, successfully or not; what it listed is remembered.
End(j) == Leave(j, "idle", run[j].report)

\* save_report refuses a new report above capacity.
CanSave(j) ==
  \/ reports[j] # NoReport
  \/ Cardinality({i \in Jobs : reports[i] # NoReport}) < MaxReports
SaveReport(j, report) ==
  reports' = [reports EXCEPT ![j] = report]

\* The job runner executes one attempt of a job at a time, and no other once one
\* succeeded.
Begin(j) ==
  /\ At(j, "idle") /\ attempts[j] < MaxAttempts[j]
  /\ ~(attempts[j] > 0 /\ run[j].report.complete)
  /\ attempts' = [attempts EXCEPT ![j] = @ + 1]
  /\ Become(j, [Idle EXCEPT !.pc = "reserve"])
  /\ UNCHANGED <<world, store>>

\* "Reserve report capacity before causing target effects."
Reserve(j) ==
  /\ At(j, "reserve")
  /\ IF CanSave(j)
     THEN SaveReport(j, run[j].report) /\ Goto(j, "claim")
     ELSE End(j) /\ UNCHANGED reports
  /\ UNCHANGED <<world, checkpoint, owner, attempts>>

Claims(j) ==
  /\ owner = NoJob
  /\ checkpoint.source \in {NoVersion, SourceVersion[j]}

Claim(j) ==
  /\ At(j, "claim")
  /\ IF Claims(j)
     THEN /\ owner' = j
          /\ checkpoint' = [checkpoint EXCEPT !.source = SourceVersion[j]]
          /\ Become(j, [run[j] EXCEPT
               !.pc = "poll", !.version = checkpoint.version,
               !.cursor = IF Mode[j] = "incremental" THEN checkpoint.cursor ELSE 0])
     ELSE Goto(j, "refused") /\ UNCHANGED <<owner, checkpoint>>
  /\ UNCHANGED <<world, reports, attempts>>

\* SyncBusy or SyncVersionConflict is reported.
Refused(j) ==
  /\ At(j, "refused")
  /\ IF CanSave(j) THEN SaveReport(j, Failed(run[j].report)) ELSE UNCHANGED reports
  /\ End(j)
  /\ UNCHANGED <<world, checkpoint, owner, attempts>>

-----------------------------------------------------------------------------
(* Pages.                                                                   *)

\* cancellation.checkpoint() raises when the job was cancelled; then max_pages.
Poll(j) ==
  /\ At(j, "poll")
  /\ \/ Fail(j)
     \/ run[j].report.pages < MaxPages /\ Goto(j, "fetch")
  /\ UNCHANGED <<world, store, attempts>>

\* fetch_page, and the validation of what it returned.
Fetch(j) ==
  /\ At(j, "fetch")
  /\ LET f == run[j]
         listed == IF f.report.pages = 0 THEN Present ELSE f.listed
         left == IF Mode[j] = "full"
                 THEN IF f.report.pages = 0 THEN Present ELSE f.rest
                 ELSE {i \in Present : i.change > f.cursor}
         page == FirstPage(left)
     IN Become(j, [f EXCEPT !.pc = "item", !.items = page, !.more = page # left,
                            !.rest = left \ page, !.listed = listed,
                            !.watermark =
                               IF page = {} THEN f.cursor
                               ELSE CHOOSE n \in {i.change : i \in page} :
                                      \A i \in page : i.change <= n])
  /\ UNCHANGED <<world, store, attempts>>

FetchFails(j) ==
  /\ At(j, "fetch")
  /\ Fail(j)
  /\ UNCHANGED <<world, store, attempts>>

\* The item whose turn it is.
Turn(j) ==
  CHOOSE i \in run[j].items : \A o \in run[j].items : i.change <= o.change

\* max_full_items, checked before the key is added to `seen'.
HasRoom(j, k) ==
  Mode[j] = "full" => k \in run[j].seen \/ Cardinality(run[j].seen) < MaxFullItems

\* A defect that TLC must notice: a skipped item is not seen.
SeenAfter_Applied(j, k, skipped) ==
  IF Mode[j] = "full" /\ ~skipped THEN run[j].seen \union {k} ELSE run[j].seen

SeenAfter(j, k, skipped) ==
  IF Mode[j] = "full" THEN run[j].seen \union {k} ELSE run[j].seen

ItemDone(j, item, skipped) ==
  /\ Become(j, [run[j] EXCEPT !.items = @ \ {item},
                              !.seen = SeenAfter(j, item.key, skipped)])
  /\ handled' = [handled EXCEPT ![item.key] = item.change]

\* The mapper returns None.
SkipItem(j) ==
  /\ At(j, "item") /\ run[j].items # {}
  /\ HasRoom(j, Turn(j).key)
  /\ ItemDone(j, Turn(j), TRUE)
  /\ UNCHANGED <<source, changes, target, active, store, attempts>>

\* InMemorySyncTarget._apply: created, unchanged, or updated and active again.
Applies(item) ==
  /\ target[item.key] # 0 \/ Cardinality({k \in Keys : target[k] # 0}) < MaxRecords
  /\ target' = [target EXCEPT ![item.key] = item.change]
  /\ active' = active \union {item.key}

ApplyItem(j) ==
  /\ At(j, "item") /\ run[j].items # {}
  /\ HasRoom(j, Turn(j).key)
  /\ Applies(Turn(j))
  /\ ItemDone(j, Turn(j), FALSE)
  /\ UNCHANGED <<source, changes, store, attempts>>

\* A limit is reached, the item has no key or no mapping, or the target refuses it.
ItemFails(j) ==
  /\ At(j, "item") /\ run[j].items # {}
  /\ Fail(j)
  /\ UNCHANGED <<world, store, attempts>>

\* A defect that TLC must notice: the page is committed before its last items.
PageApplied_Early(j) ==
  /\ At(j, "item")
  /\ Goto(j, "commit")
  /\ UNCHANGED <<world, store, attempts>>

PageApplied(j) ==
  /\ At(j, "item") /\ run[j].items = {}
  /\ Goto(j, "commit")
  /\ UNCHANGED <<world, store, attempts>>

\* _validate_commit.
Current(j) == owner = j /\ checkpoint.version = run[j].version

\* A defect that TLC must notice: a full run that moves the incremental cursor.
CursorOf_AnyMode(j) == run[j].watermark

CursorOf(j) ==
  IF Mode[j] = "incremental" THEN run[j].watermark ELSE checkpoint.cursor

PageReport(j) == [run[j].report EXCEPT !.pages = @ + 1]

StorePage(j) ==
  checkpoint' = [checkpoint EXCEPT !.version = @ + 1, !.cursor = CursorOf(j),
                                   !.complete = FALSE]

CommitPage(j) ==
  /\ At(j, "commit")
  /\ IF Current(j)
     THEN /\ StorePage(j)
          /\ Become(j, [run[j] EXCEPT !.pc = "save", !.version = @ + 1,
                                      !.report = PageReport(j)])
     ELSE Fail(j) /\ UNCHANGED checkpoint
  /\ UNCHANGED <<world, owner, reports, attempts>>

\* save_report and report_progress after a page, then the next page or the end.
SavePage(j) ==
  /\ At(j, "save")
  /\ IF CanSave(j)
     THEN /\ SaveReport(j, run[j].report)
          /\ Become(j, [run[j] EXCEPT !.pc = IF run[j].more THEN "poll" ELSE "finish",
                                      !.cursor = run[j].watermark])
     ELSE Fail(j) /\ UNCHANGED reports
  /\ UNCHANGED <<world, checkpoint, owner, attempts>>

-----------------------------------------------------------------------------
(* The end.                                                                 *)

\* The last cancellation.checkpoint(), and whether there is something to sweep.
Finish(j) ==
  /\ At(j, "finish")
  /\ \/ Fail(j)
     \/ Goto(j, IF Mode[j] = "full" /\ Deactivates THEN "sweep" ELSE "publish")
  /\ UNCHANGED <<world, store, attempts>>

\* deactivate_missing.
Sweep(j) ==
  /\ At(j, "sweep")
  /\ active' = active \intersect run[j].seen
  /\ Goto(j, "publish")
  /\ UNCHANGED <<source, changes, target, handled, store, attempts>>

StoreSuccess == checkpoint' = [checkpoint EXCEPT !.version = @ + 1, !.complete = TRUE]

Publish(j) ==
  /\ At(j, "publish")
  /\ IF Current(j)
     THEN /\ StoreSuccess
          /\ Leave(j, "close", [run[j].report EXCEPT !.complete = TRUE])
     ELSE Fail(j) /\ UNCHANGED checkpoint
  /\ UNCHANGED <<world, owner, reports, attempts>>

\* finally: save_report, which may be refused, then release.
Close(j) ==
  /\ At(j, "close")
  /\ IF CanSave(j)
     THEN SaveReport(j, run[j].report) /\ Leave(j, "release", run[j].report)
     ELSE Leave(j, "release", Failed(run[j].report)) /\ UNCHANGED reports
  /\ UNCHANGED <<world, checkpoint, owner, attempts>>

Release(j) ==
  /\ At(j, "release")
  /\ owner' = IF owner = j THEN NoJob ELSE owner
  /\ End(j)
  /\ UNCHANGED <<world, checkpoint, reports, attempts>>

\* delete_report, refused for the job that holds the claim.
DeleteReport(j) ==
  /\ reports[j] # NoReport
  /\ owner # j
  /\ reports' = [reports EXCEPT ![j] = NoReport]
  /\ UNCHANGED <<world, checkpoint, owner, run, attempts>>

-----------------------------------------------------------------------------
(* Calls that raise, and the interruption of the attempt by its owner.      *)

\* Without effect.  A failed save_report in the finally clause still releases; a
\* failed release leaves the claim.
CallLost(j) ==
  /\ CallsFail
  /\ \/ run[j].pc \in {"reserve", "claim", "refused"} /\ End(j)
     \/ run[j].pc \in {"commit", "save", "sweep", "publish"} /\ Fail(j)
     \/ At(j, "close") /\ Leave(j, "release", Failed(run[j].report))
     \/ At(j, "release") /\ Leave(j, "idle", Failed(run[j].report))
  /\ UNCHANGED <<world, store, attempts>>

\* With effect: the caller only sees that it raised.
ReplyLost(j) ==
  /\ CallsFail
  /\ \/ /\ At(j, "claim") /\ Claims(j)
        /\ owner' = j
        /\ checkpoint' = [checkpoint EXCEPT !.source = SourceVersion[j]]
        /\ End(j)
        /\ UNCHANGED <<world, reports, attempts>>
     \/ /\ At(j, "item") /\ run[j].items # {} /\ HasRoom(j, Turn(j).key)
        /\ Applies(Turn(j))
        /\ Fail(j)
        /\ UNCHANGED <<source, changes, handled, store, attempts>>
     \/ /\ At(j, "commit") /\ Current(j)
        /\ StorePage(j) /\ Fail(j)
        /\ UNCHANGED <<world, owner, reports, attempts>>
     \/ /\ At(j, "sweep")
        /\ active' = active \intersect run[j].seen
        /\ Fail(j)
        /\ UNCHANGED <<source, changes, target, handled, store, attempts>>
     \/ /\ At(j, "publish") /\ Current(j)
        /\ StoreSuccess /\ Fail(j)
        /\ UNCHANGED <<world, owner, reports, attempts>>
     \/ /\ At(j, "close") /\ CanSave(j)
        /\ SaveReport(j, run[j].report)
        /\ Leave(j, "release", Failed(run[j].report))
        /\ UNCHANGED <<world, checkpoint, owner, attempts>>

-----------------------------------------------------------------------------
Attempt(j) ==
  \/ Reserve(j) \/ Claim(j) \/ Refused(j)
  \/ Poll(j) \/ Fetch(j) \/ FetchFails(j)
  \/ SkipItem(j) \/ ApplyItem(j) \/ ItemFails(j) \/ PageApplied(j)
  \/ CommitPage(j) \/ SavePage(j)
  \/ Finish(j) \/ Sweep(j) \/ Publish(j) \/ Close(j) \/ Release(j)

Next ==
  \/ \E k \in Keys : Upsert(k) \/ Remove(k)
  \/ \E j \in Jobs :
       Begin(j) \/ Attempt(j) \/ DeleteReport(j) \/ CallLost(j) \/ ReplyLost(j)

Spec == Init /\ [][Next]_vars

-----------------------------------------------------------------------------
(* Correctness.                                                             *)

\* An incremental run may start after the cursor without missing anything: each
\* change of the source up to it was applied, or skipped by the mapper.
CursorIsCovered ==
  \A k \in Keys :
    source[k] <= checkpoint.cursor => handled[k] >= source[k]

\* An item is not applied over a later change of the same key, nor forgotten.
NothingRegresses ==
  [][/\ \A k \in Keys : handled'[k] >= handled[k] /\ target'[k] >= target[k]
     /\ checkpoint'.cursor >= checkpoint.cursor]_vars

\* Only a key that a complete enumeration of the source did not list is
\* deactivated: not one of a page that failed, not one the mapper skipped.
SweepIsJustified ==
  [][\A k \in active \ active' :
       /\ owner # NoJob
       /\ k \notin {i.key : i \in run[owner].listed}
       /\ \A i \in run[owner].listed : handled[i.key] >= i.change]_vars

\* A report is complete only when everything the source listed as the run began was
\* handled and, in an incremental run, is covered by the cursor (unless the source
\* removed or changed it before its page came).
CompleteIsTrue ==
  \A j \in Jobs : reports[j] # NoReport /\ reports[j].complete =>
    \A i \in run[j].listed : Mode[j] = "full" \/ source[i.key] = i.change =>
      /\ handled[i.key] >= i.change
      /\ Mode[j] = "incremental" => i.change <= checkpoint.cursor

\* What the scope claims of its progress is true: of its cursor and of its reports.
NothingIsSkipped == CursorIsCovered /\ CompleteIsTrue
=============================================================================
