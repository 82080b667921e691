--------------------------- MODULE PatchPipeline ---------------------------
(***************************************************************************)
(* The asynchronous patch pipeline of app/routes/patchwise.py.             *)
(*                                                                         *)
(* A job runs up to Steps shell tools over a patch in a worker thread.     *)
(* Its record is kept twice: in the dictionary _pipeline_jobs (mem) and in *)
(* the table patch_pipeline_jobs (db).  Writers update the dictionary and  *)
(* then the table, a failed table write being swallowed; readers overlay   *)
(* the dictionary row on the table row; the worker, however, looks for a   *)
(* cancel request in the table alone.  The dictionary is lost when the     *)
(* process restarts, and both stores drop their oldest rows when the       *)
(* dictionary grows past MaxItems.  A finished run also updates the row of *)
(* the review session the patch belongs to.                                *)
(*                                                                         *)
(* The server runs on eventlet green threads, which switch only where they *)
(* block: a worker blocks in the shell tools only.  The actions below are  *)
(* at least as fine as that: a worker may also be interrupted between a    *)
(* progress report and the next cancel check.                              *)
(***************************************************************************)
EXTENDS Naturals, FiniteSets

CONSTANTS
  Jobs,        \* job identifiers; _new_trace_id never repeats one
  Sessions,    \* review sessions, each with the patch it submits
  Unreviewed,  \* the sessions nobody has the model review: the ids that
               \* start_pipeline makes up when the request names none
  NoSession,   \* "no payload"
  Steps,       \* number of shell tools in a run (4 in the code)
  MaxItems,    \* rows kept by _prune_pipeline_jobs (200 in the code)
  MaxFaults,   \* bound on failed database calls
  MaxCrashes   \* bound on restarts of the process

ASSUME StepsAssumption == Steps \in Nat \ {0}
ASSUME NoSessionAssumption == NoSession \notin Sessions
ASSUME UnreviewedAssumption == Unreviewed \subseteq Sessions
ASSUME BoundsAssumption ==
  MaxItems \in Nat /\ MaxFaults \in Nat /\ MaxCrashes \in Nat

VARIABLES
  mem,       \* mem[j]: j's row in _pipeline_jobs
  memOlder,  \* <<a, b>>: a's row in mem was updated before b's
  db,        \* db[j]: j's row in patch_pipeline_jobs
  dbOlder,   \* <<a, b>>: a's row in db was updated before b's
  worker,    \* worker[j]: the thread that runs j
  review,    \* review[s]: status of the ReviewSession row of s
  evicted,   \* history: jobs a prune has dropped from mem or db
  askedAt,   \* history: tools begun when the first cancel of j was accepted
  faults,    \* failed database calls so far
  crashes    \* restarts so far

vars == <<mem, memOlder, db, dbOlder, worker, review, evicted, askedAt,
          faults, crashes>>

-----------------------------------------------------------------------------
(* Rows.  A row of mem is a dictionary: status "absent", cancel FALSE and
   result "none" stand for a key that is not there.  A row of db has every
   column; its status is "absent" when there is no row. *)

Terminal == {"completed", "failed", "canceled"}
Active == {"queued", "running", "canceling"}
Result == {"none", "PASS", "FAIL", "CANCELED"}

NoMemRow == [status |-> "absent", cancel |-> FALSE, result |-> "none"]
NoDbRow == [status |-> "absent", cancel |-> FALSE, result |-> "none",
            payload |-> NoSession]

\* Column defaults of the PatchPipelineJob model.
FreshDbRow == [NoDbRow EXCEPT !.status = "queued"]

Status == Terminal \cup Active \cup {"", "absent"}
MemRows == [status : Status, cancel : BOOLEAN, result : Result]
DbRows == [status : Status, cancel : BOOLEAN, result : Result,
           payload : Sessions \cup {NoSession}]

InMem == {j \in Jobs : mem[j] # NoMemRow}
InDb == {j \in Jobs : db[j].status # "absent"}

\* dict.update, and the "if key in updates" assignments of the upsert.
Put(row, upd) ==
  [k \in DOMAIN row |-> IF k \in DOMAIN upd THEN upd[k] ELSE row[k]]

\* Mutant: the upsert replaces the row instead of updating it.
UpsertReplaces(row, upd) == Put(FreshDbRow, upd)

\* _upsert_pipeline_job_db creates the row it does not find.
Upsert(row, upd) ==
  Put(IF row.status = "absent" THEN FreshDbRow ELSE row, upd)

\* What a reader is shown: the table row overlaid by the dictionary row.
View(j) ==
  [status |-> IF mem[j].status # "absent" THEN mem[j].status ELSE db[j].status,
   cancel |-> mem[j].cancel \/ db[j].cancel,
   result |-> IF mem[j].result # "none" THEN mem[j].result ELSE db[j].result]

\* updated_at of j becomes the latest of the rows in the set present.
Touch(older, present, j) ==
  {p \in older : p[1] # j} \cup {<<k, j>> : k \in present \ {j}}

\* Mutant: the rows are sorted the other way round.
SurplusNewest(present, older) ==
  {j \in present :
     Cardinality({k \in present : <<j, k>> \in older}) + MaxItems
       < Cardinality(present)}

\* The oldest rows, those beyond the MaxItems latest ones.
Surplus(present, older) ==
  {j \in present :
     Cardinality({k \in present : <<k, j>> \in older}) + MaxItems
       < Cardinality(present)}

\* A database call that works costs nothing, one that fails costs a fault.
Cost(ok) == IF ok THEN 0 ELSE 1
Pay(cost) == faults + cost <= MaxFaults /\ faults' = faults + cost

-----------------------------------------------------------------------------
(* The worker. *)

Alive == {"spawned", "check", "exec", "wrap", "report"}
Idle == [pc |-> "none", ran |-> 0, failed |-> FALSE, canceled |-> FALSE,
         input |-> NoSession]

\* A thread about to run the patch of s.
Spawned(s) == [pc |-> "spawned", ran |-> 0, failed |-> FALSE,
               canceled |-> FALSE, input |-> s]

Workers == [pc : Alive \cup {"none", "done", "dead"}, ran : 0 .. Steps,
            failed : BOOLEAN, canceled : BOOLEAN,
            input : Sessions \cup {NoSession}]

NotAsked == Steps + 1

\* Mutant: failed wins over canceled.
OverallFailedFirst(w) == IF w.failed THEN "FAIL"
                         ELSE IF w.canceled THEN "CANCELED" ELSE "PASS"

\* _build_pipeline_summary: canceled wins over failed, failed over passed.
Overall(w) == IF w.canceled THEN "CANCELED"
              ELSE IF w.failed THEN "FAIL" ELSE "PASS"

\* Mutants: the summary is stored as it is; a canceled run is left canceling.
TerminalStatusRaw(overall) == overall
TerminalStatusLazy(overall) == CASE overall = "PASS" -> "completed"
                                 [] overall = "FAIL" -> "failed"
                                 [] overall = "CANCELED" -> "canceling"

\* The terminal status of a run, at the end of _run_pipeline_job.
TerminalStatus(overall) == CASE overall = "PASS" -> "completed"
                             [] overall = "FAIL" -> "failed"
                             [] overall = "CANCELED" -> "canceled"

-----------------------------------------------------------------------------
Init ==
  /\ mem = [j \in Jobs |-> NoMemRow] /\ memOlder = {}
  /\ db = [j \in Jobs |-> NoDbRow] /\ dbOlder = {}
  /\ worker = [j \in Jobs |-> Idle]
  /\ review = [s \in Sessions |-> "absent"]
  /\ evicted = {}
  /\ askedAt = [j \in Jobs |-> NotAsked]
  /\ faults = 0 /\ crashes = 0

\* _set_pipeline_job: the dictionary first, then the table; ok tells whether
\* the table write got through.
SetJob(j, upd, ok) ==
  /\ mem' = [mem EXCEPT ![j] = Put(@, upd)]
  /\ memOlder' = Touch(memOlder, InMem, j)
  /\ db' = IF ok THEN [db EXCEPT ![j] = Upsert(@, upd)] ELSE db
  /\ dbOlder' = IF ok THEN Touch(dbOlder, InDb, j) ELSE dbOlder

\* The part start and retry share: prune, write the queued row, then the
\* payload in a write of its own, and start the thread.  The table is pruned
\* only when the dictionary was.
Launch(j, s) ==
  \E okPrune, okRow, okPayload \in BOOLEAN :
    LET memOut == Surplus(InMem, memOlder)
        dbOut == IF memOut # {} /\ okPrune THEN Surplus(InDb, dbOlder) ELSE {}
        row(r) == IF okRow THEN Upsert(r, [status |-> "queued"]) ELSE r
        paid(r) == IF okPayload THEN Upsert(r, [payload |-> s]) ELSE r
        stays == InDb \ dbOut
    IN  /\ worker[j].pc = "none"
        /\ memOut = {} => okPrune
        /\ Pay(Cost(okPrune) + Cost(okRow) + Cost(okPayload))
        /\ mem' = [k \in Jobs |->
                     IF k = j THEN Put(NoMemRow, [status |-> "queued"])
                     ELSE IF k \in memOut THEN NoMemRow ELSE mem[k]]
        /\ memOlder' = Touch({p \in memOlder : p[1] \notin memOut
                                            /\ p[2] \notin memOut},
                             InMem \ memOut, j)
        /\ db' = [k \in Jobs |->
                    IF k = j THEN paid(row(NoDbRow))
                    ELSE IF k \in dbOut THEN NoDbRow ELSE db[k]]
        /\ LET kept == {p \in dbOlder : p[1] \notin dbOut /\ p[2] \notin dbOut}
           IN  dbOlder' = IF okRow \/ okPayload
                          THEN Touch(kept, stays, j) ELSE kept
        /\ evicted' = evicted \cup memOut \cup dbOut
        /\ worker' = [worker EXCEPT ![j] = Spawned(s)]
        /\ UNCHANGED <<review, askedAt, crashes>>

\* start_pipeline with a patch it can read.
Start(j, s) == Launch(j, s)

\* start_pipeline without one: a failed row, no payload and no thread.
Reject(j) ==
  \E ok \in BOOLEAN :
    /\ worker[j].pc = "none"
    /\ Pay(Cost(ok))
    /\ SetJob(j, [status |-> "failed"], ok)
    /\ worker' = [worker EXCEPT ![j].pc = "done"]
    /\ UNCHANGED <<review, evicted, askedAt, crashes>>

\* retry_pipeline of the job old, whatever its status: a new job runs the
\* payload of old's table row.
Retry(old, j) ==
  /\ db[old].status # "absent"
  /\ db[old].payload # NoSession
  /\ Launch(j, db[old].payload)

\* Mutant: cancel_pipeline looks the job up in the dictionary only.
CancelReadsMemory(j, readOk) ==
  IF mem[j].status = "absent" THEN "" ELSE mem[j].status

\* The status cancel_pipeline reads: a failed table read leaves it with the
\* dictionary row.
CancelReads(j, readOk) ==
  LET seen == IF readOk THEN View(j).status ELSE mem[j].status
  IN  IF seen = "absent" THEN "" ELSE seen

\* Mutant: a queued job is marked canceled although its thread is coming.
CancelStatusEager(status) ==
  CASE status = "queued" -> "canceled"
    [] status = "running" -> "canceling"
    [] status \notin {"queued", "running"} -> status

\* The status an unfinished job is given.
CancelStatus(status) ==
  IF status \in {"queued", "running"} THEN "canceling" ELSE status

\* cancel_pipeline of a job that it finds.
Cancel(j) ==
  \E readOk, ok \in BOOLEAN :
    LET status == CancelReads(j, readOk)
    IN  /\ j \in InMem \/ (readOk /\ j \in InDb)
        /\ Pay(Cost(readOk) + Cost(ok))
        /\ \/ /\ status \in Terminal
              /\ SetJob(j, [cancel |-> TRUE], ok)
              /\ UNCHANGED askedAt
           \/ /\ status \notin Terminal
              /\ SetJob(j, [cancel |-> TRUE, status |-> CancelStatus(status)], ok)
              /\ askedAt' = IF askedAt[j] = NotAsked
                            THEN [askedAt EXCEPT ![j] = worker[j].ran]
                            ELSE askedAt
        /\ UNCHANGED <<worker, review, evicted, crashes>>

-----------------------------------------------------------------------------
(* The worker thread: _run_pipeline_job around _execute_pipeline. *)

\* _is_pipeline_job_cancel_requested: the table alone, FALSE on an error.
SeesCancel(j, readOk) == readOk /\ db[j].cancel

\* progress_hook: the status shown while the run goes on.
Progress(j, readOk) ==
  [status |-> IF SeesCancel(j, readOk) THEN "canceling" ELSE "running"]

Begin(j) ==
  \E ok \in BOOLEAN :
    /\ worker[j].pc = "spawned"
    /\ Pay(Cost(ok))
    /\ SetJob(j, [status |-> "running"], ok)
    /\ worker' = [worker EXCEPT ![j].pc = "check"]
    /\ UNCHANGED <<review, evicted, askedAt, crashes>>

\* _run_or_cancel when no cancel is seen: the next tool starts.
StartTool(j) ==
  \E readOk \in BOOLEAN :
    /\ worker[j].pc = "check"
    /\ ~ SeesCancel(j, readOk)
    /\ Pay(Cost(readOk))
    /\ worker' = [worker EXCEPT ![j].pc = "exec", ![j].ran = @ + 1]
    /\ UNCHANGED <<mem, memOlder, db, dbOlder, review, evicted, askedAt,
                   crashes>>

\* _run_or_cancel when a cancel is seen: the step is CANCELED, its progress is
\* reported, and the steps after it are left out.
SkipTool(j) ==
  \E readOk, ok \in BOOLEAN :
    /\ worker[j].pc = "check"
    /\ SeesCancel(j, TRUE)
    /\ Pay(Cost(readOk) + Cost(ok))
    /\ SetJob(j, Progress(j, readOk), ok)
    /\ worker' = [worker EXCEPT ![j].pc = "wrap", ![j].canceled = TRUE]
    /\ UNCHANGED <<review, evicted, askedAt, crashes>>

\* _run_shell_step returns: a tool passes, fails (a timeout included) or is
\* skipped because it is not installed; then its progress is reported.
EndTool(j) ==
  \E outcome \in {"PASS", "FAIL", "SKIP"}, readOk, ok \in BOOLEAN :
    /\ worker[j].pc = "exec"
    /\ Pay(Cost(readOk) + Cost(ok))
    /\ SetJob(j, Progress(j, readOk), ok)
    /\ worker' = [worker EXCEPT
         ![j].pc = IF worker[j].ran = Steps THEN "wrap" ELSE "check",
         ![j].failed = @ \/ outcome = "FAIL"]
    /\ UNCHANGED <<review, evicted, askedAt, crashes>>

\* Mutant: a failed run sends the review back to pending.
SettleFailed(s, failed, canceled) ==
  IF review[s] = "absent" THEN review
  ELSE [review EXCEPT ![s] = IF canceled \/ failed THEN "pending"
                             ELSE "reviewed"]

\* The review row at the end of _execute_pipeline: a run with a failed step
\* leaves the status as it is.
Settle(s, failed, canceled) ==
  IF review[s] = "absent" \/ failed THEN review
  ELSE [review EXCEPT ![s] = IF canceled THEN "pending" ELSE "reviewed"]

WrapUp(j) ==
  /\ worker[j].pc = "wrap"
  /\ review' = Settle(worker[j].input, worker[j].failed, worker[j].canceled)
  /\ worker' = [worker EXCEPT ![j].pc = "report"]
  /\ UNCHANGED <<mem, memOlder, db, dbOlder, evicted, askedAt, faults, crashes>>

Report(j) ==
  \E ok \in BOOLEAN :
    LET overall == Overall(worker[j])
    IN  /\ worker[j].pc = "report"
        /\ Pay(Cost(ok))
        /\ SetJob(j, [status |-> TerminalStatus(overall),
                      result |-> overall], ok)
        /\ worker' = [worker EXCEPT ![j].pc = "done"]
        /\ UNCHANGED <<review, evicted, askedAt, crashes>>

\* An exception out of _execute_pipeline: the patch file cannot be written
\* before the first tool, or the commit of the review row fails (a fault of
\* the database, which the write that follows may or may not share).
Abort(j) ==
  \E ok \in BOOLEAN :
    /\ \/ worker[j].pc = "check" /\ worker[j].ran = 0 /\ Pay(Cost(ok))
       \/ worker[j].pc = "wrap" /\ Pay(1)
    /\ SetJob(j, [status |-> "failed"], ok)
    /\ worker' = [worker EXCEPT ![j].pc = "done"]
    /\ UNCHANGED <<review, evicted, askedAt, crashes>>

-----------------------------------------------------------------------------
(* The other writers of the review row, and the restart. *)

\* run_pipeline: the same run inside the request, which nobody can cancel.
InlineRun(s) ==
  /\ \E failed \in BOOLEAN : review' = Settle(s, failed, FALSE)
  /\ UNCHANGED <<mem, memOlder, db, dbOlder, worker, evicted, askedAt, faults,
                 crashes>>

\* review_patch writes (or creates) the row after the model has answered.
ReviewPatch(s) ==
  /\ review' = [review EXCEPT ![s] = "reviewed"]
  /\ UNCHANGED <<mem, memOlder, db, dbOlder, worker, evicted, askedAt, faults,
                 crashes>>

\* export_patch_report
Export(s) ==
  /\ review[s] # "absent"
  /\ review' = [review EXCEPT ![s] = "exported"]
  /\ UNCHANGED <<mem, memOlder, db, dbOlder, worker, evicted, askedAt, faults,
                 crashes>>

\* The process dies and comes back: the dictionary and the threads are gone,
\* the tables stay, and nothing at startup looks at unfinished jobs.
Crash ==
  /\ crashes < MaxCrashes
  /\ crashes' = crashes + 1
  /\ mem' = [j \in Jobs |-> NoMemRow] /\ memOlder' = {}
  /\ worker' = [j \in Jobs |->
       IF worker[j].pc \in Alive THEN [worker[j] EXCEPT !.pc = "dead"]
       ELSE worker[j]]
  /\ UNCHANGED <<db, dbOlder, review, evicted, askedAt, faults>>

-----------------------------------------------------------------------------
WorkerStep(j) ==
  \/ Begin(j) \/ StartTool(j) \/ SkipTool(j) \/ EndTool(j)
  \/ WrapUp(j) \/ Report(j)

Next ==
  \/ \E j \in Jobs, s \in Sessions : Start(j, s)
  \/ \E j \in Jobs : Reject(j)
  \/ \E old, j \in Jobs : Retry(old, j)
  \/ \E j \in Jobs : Cancel(j)
  \/ \E j \in Jobs : WorkerStep(j)
  \/ \E j \in Jobs : Abort(j)
  \/ \E s \in Sessions : InlineRun(s)
  \/ \E s \in Sessions \ Unreviewed : ReviewPatch(s)
  \/ \E s \in Sessions : Export(s)
  \/ Crash

Spec == Init /\ [][Next]_vars

\* The hub of eventlet runs every green thread that is ready, and every tool
\* has a timeout, so a worker goes on until it is done.
FairSpec == Spec /\ \A j \in Jobs : WF_vars(WorkerStep(j))

-----------------------------------------------------------------------------
\* Type invariant.
TypeOK ==
  /\ mem \in [Jobs -> MemRows] /\ memOlder \subseteq Jobs \X Jobs
  /\ db \in [Jobs -> DbRows] /\ dbOlder \subseteq Jobs \X Jobs
  /\ worker \in [Jobs -> Workers]
  /\ review \in [Sessions -> {"absent", "pending", "reviewed", "exported"}]
  /\ evicted \subseteq Jobs
  /\ askedAt \in [Jobs -> 0 .. NotAsked]
  /\ faults \in 0 .. MaxFaults /\ crashes \in 0 .. MaxCrashes

\* A job whose record nothing has tampered with: no database call has failed
\* and no prune has dropped it.
Intact(j) == faults = 0 /\ j \notin evicted

\* While a thread works on a job, neither store calls the job finished: a
\* client that polls until a terminal status never stops early.  It holds
\* through failed writes, prunes, restarts and cancels (run_pipeline_job,
\* cancel_pipeline, the upsert that re-creates a dropped row).
NoWorkBehindTerminal ==
  \A j \in Jobs : worker[j].pc \in Alive =>
    mem[j].status \notin Terminal /\ db[j].status \notin Terminal

\* A cancel that was accepted stops the run at the next step boundary: no tool
\* begins after it, for a job whose record is intact.
CancelStopsTools ==
  \A j \in Jobs : Intact(j) => worker[j].ran <= askedAt[j]

\* How a run ends is decided by when the cancel came: a run reported with a
\* result is canceled exactly when a cancel was accepted while tools were left.
CancelDecidesOutcome ==
  \A j \in Jobs :
    (Intact(j) /\ worker[j].pc = "done" /\ View(j).result # "none") =>
      (View(j).status = "canceled" <=> askedAt[j] < Steps)

\* The overlay never shows what the table does not hold, so a restart takes
\* nothing away from a reader: this needs both stores to be pruned alike.
MemoryMirrorsTable ==
  faults = 0 => \A j \in InMem :
    /\ j \in InDb
    /\ mem[j].status \in {"absent", db[j].status}
    /\ mem[j].result \in {"none", db[j].result}
    /\ mem[j].cancel => db[j].cancel

\* Every intact row of a run that had a thread can be retried, with the input
\* it ran on.
RetryPossible ==
  \A j \in Jobs : Intact(j) /\ worker[j].input # NoSession =>
    db[j].payload = worker[j].input

\* A review session falls back to pending only because a user canceled one of
\* its runs.
PendingWasCanceled ==
  \A s \in Sessions : review[s] = "pending" =>
    \E j \in Jobs : /\ worker[j].input = s /\ worker[j].canceled
                    /\ askedAt[j] < Steps

\* The phase a reader is told, and the cancels that were accepted.
Phase == [j \in Jobs |->
  CASE worker[j].pc = "none" -> "new"
    [] j \in evicted -> "forgotten"
    [] worker[j].pc # "none" /\ j \notin evicted ->
         IF View(j).status \in Active THEN "active" ELSE View(j).status]
Asked == {j \in Jobs : askedAt[j] # NotAsked}

Lifecycle == INSTANCE JobLifecycle WITH phase <- Phase, asked <- Asked

\* As long as the database answers, what readers are told follows the job
\* lifecycle: terminal statuses are final whoever acts next (a late cancel, a
\* retry, a restart), and canceled is only reported to those who asked.
ImplementsLifecycle == Lifecycle!Spec

\* A job that is started is eventually reported finished, unless the process
\* is restarted under it: also when it is canceled, pruned or when table
\* writes fail.
StartedIsReported ==
  \A j \in Jobs : worker[j].pc = "spawned" ~>
    (worker[j].pc = "dead" \/ View(j).status \in Terminal)
=============================================================================
