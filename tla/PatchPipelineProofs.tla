------------------------ MODULE PatchPipelineProofs ------------------------
(***************************************************************************)
(* Theorems about PatchPipeline, for every set of jobs and sessions and    *)
(* every value of the bounds.                                              *)
(***************************************************************************)
EXTENDS PatchPipeline, FiniteSetTheorems, TLAPS

(***************************************************************************)
(* An update that may be applied to any row of either store.               *)
(***************************************************************************)
Fits(upd) ==
  /\ \A r \in MemRows : Put(r, upd) \in MemRows
  /\ \A r \in DbRows : Put(r, upd) \in DbRows

(***************************************************************************)
(* Every update the handlers make fits: the row stays a row of its store.  *)
(***************************************************************************)
LEMMA StatusFits == ASSUME NEW s \in Status PROVE Fits([status |-> s])
BY DEF Fits, Put, MemRows, DbRows, Status, Result, Terminal, Active

LEMMA CancelFits == Fits([cancel |-> TRUE])
BY DEF Fits, Put, MemRows, DbRows, Status, Result, Terminal, Active

LEMMA CancelStatusFits ==
  ASSUME NEW s \in Status PROVE Fits([cancel |-> TRUE, status |-> s])
BY DEF Fits, Put, MemRows, DbRows, Status, Result, Terminal, Active

LEMMA ResultFits ==
  ASSUME NEW s \in Status, NEW r \in Result
  PROVE  Fits([status |-> s, result |-> r])
BY DEF Fits, Put, MemRows, DbRows, Status, Result, Terminal, Active

LEMMA PayloadFits ==
  ASSUME NEW s \in Sessions, NEW r \in DbRows
  PROVE  Put(r, [payload |-> s]) \in DbRows
BY DEF Put, DbRows, Status, Result, Terminal, Active

LEMMA EmptyRows == NoMemRow \in MemRows /\ NoDbRow \in DbRows
                   /\ FreshDbRow \in DbRows
BY DEF NoMemRow, NoDbRow, FreshDbRow, MemRows, DbRows, Status, Result,
       Terminal, Active

(***************************************************************************)
(* _set_pipeline_job keeps both stores well formed.                        *)
(***************************************************************************)
LEMMA TouchType ==
  ASSUME NEW older, NEW present, NEW j \in Jobs,
         older \subseteq Jobs \X Jobs, present \subseteq Jobs
  PROVE  Touch(older, present, j) \subseteq Jobs \X Jobs
BY DEF Touch

LEMMA SetJobType ==
  ASSUME TypeOK, NEW j \in Jobs, NEW upd, Fits(upd), NEW ok \in BOOLEAN,
         SetJob(j, upd, ok)
  PROVE  /\ mem' \in [Jobs -> MemRows] /\ memOlder' \subseteq Jobs \X Jobs
         /\ db' \in [Jobs -> DbRows] /\ dbOlder' \subseteq Jobs \X Jobs
<1>1. mem' \in [Jobs -> MemRows]
  BY DEF SetJob, Fits, TypeOK
<1>2. Upsert(db[j], upd) \in DbRows
  BY EmptyRows DEF Upsert, Fits, TypeOK
<1>3. db' \in [Jobs -> DbRows]
  BY <1>2 DEF SetJob, TypeOK
<1>4. InMem \subseteq Jobs /\ InDb \subseteq Jobs
  BY DEF InMem, InDb
<1>5. memOlder' \subseteq Jobs \X Jobs /\ dbOlder' \subseteq Jobs \X Jobs
  BY <1>4, TouchType DEF SetJob, TypeOK
<1>6. QED
  BY <1>1, <1>3, <1>5

LEMMA PayType ==
  ASSUME TypeOK, NEW c \in Nat, Pay(c)
  PROVE  faults' \in 0 .. MaxFaults
BY BoundsAssumption DEF Pay, TypeOK

LEMMA CostType == \A ok \in BOOLEAN : Cost(ok) \in Nat
BY DEF Cost

(***************************************************************************)
(* Launching a job keeps the types: the rows it writes, the rows it drops. *)
(***************************************************************************)
LEMMA LaunchType ==
  ASSUME TypeOK, NEW j \in Jobs, NEW s \in Sessions, Launch(j, s)
  PROVE  TypeOK'
<1> DEFINE memOut == Surplus(InMem, memOlder)
<1>1. PICK okPrune \in BOOLEAN, okRow \in BOOLEAN, okPayload \in BOOLEAN :
        Launch(j, s)!(okPrune, okRow, okPayload)
  BY DEF Launch
<1> DEFINE dbOut == IF memOut # {} /\ okPrune THEN Surplus(InDb, dbOlder)
                    ELSE {}
           row(r) == IF okRow THEN Upsert(r, [status |-> "queued"]) ELSE r
           paid(r) == IF okPayload THEN Upsert(r, [payload |-> s]) ELSE r
           kept == {p \in dbOlder : p[1] \notin dbOut /\ p[2] \notin dbOut}
<1>2. memOut \subseteq Jobs /\ dbOut \subseteq Jobs
  BY DEF Surplus, InMem, InDb
<1>3. Fits([status |-> "queued"])
  BY StatusFits DEF Status, Active
<1>4. mem' \in [Jobs -> MemRows]
  <2>1. Put(NoMemRow, [status |-> "queued"]) \in MemRows
    BY <1>3, EmptyRows DEF Fits
  <2>2. mem' = [k \in Jobs |->
                  IF k = j THEN Put(NoMemRow, [status |-> "queued"])
                  ELSE IF k \in memOut THEN NoMemRow ELSE mem[k]]
    BY <1>1
  <2>3. QED
    BY <2>1, <2>2, EmptyRows DEF TypeOK
<1>5. db' \in [Jobs -> DbRows]
  <2>1. \A r \in DbRows : row(r) \in DbRows
    BY <1>3, EmptyRows DEF Upsert, Fits
  <2>2. \A r \in DbRows : paid(r) \in DbRows
    BY PayloadFits, EmptyRows DEF Upsert
  <2>3. db' = [k \in Jobs |-> IF k = j THEN paid(row(NoDbRow))
                              ELSE IF k \in dbOut THEN NoDbRow ELSE db[k]]
    BY <1>1
  <2>4. QED
    BY <2>1, <2>2, <2>3, EmptyRows DEF TypeOK
<1>6. memOlder' \subseteq Jobs \X Jobs
  <2>1. memOlder' = Touch({p \in memOlder : p[1] \notin memOut
                                         /\ p[2] \notin memOut},
                          InMem \ memOut, j)
    BY <1>1
  <2>2. QED
    BY <2>1, TouchType DEF TypeOK, InMem
<1>7. dbOlder' \subseteq Jobs \X Jobs
  <2>1. dbOlder' = IF okRow \/ okPayload THEN Touch(kept, InDb \ dbOut, j)
                   ELSE kept
    BY <1>1
  <2>2. QED
    BY <2>1, TouchType DEF TypeOK, InDb
<1>8. worker' \in [Jobs -> Workers]
  <2>1. Spawned(s) \in Workers
    BY StepsAssumption DEF Spawned, Workers, Alive
  <2>2. QED
    BY <1>1, <2>1 DEF TypeOK
<1>9. evicted' \subseteq Jobs
  BY <1>1, <1>2 DEF TypeOK
<1>10. faults' \in 0 .. MaxFaults
  BY <1>1, CostType, PayType
<1>11. QED
  BY <1>1, <1>4, <1>5, <1>6, <1>7, <1>8, <1>9, <1>10 DEF TypeOK

(***************************************************************************)
(* An action that only writes the row of j and moves its thread on keeps   *)
(* the types.                                                              *)
(***************************************************************************)
LEMMA WorkerWriteType ==
  ASSUME TypeOK, NEW j \in Jobs, NEW upd, Fits(upd), NEW ok \in BOOLEAN,
         SetJob(j, upd, ok), NEW w \in Workers,
         worker' = [worker EXCEPT ![j] = w],
         faults' \in 0 .. MaxFaults,
         UNCHANGED <<review, evicted, askedAt, crashes>>
  PROVE  TypeOK'
<1>1. worker' \in [Jobs -> Workers]
  BY DEF TypeOK
<1>2. QED
  BY <1>1, SetJobType DEF TypeOK

LEMMA ProgressFits ==
  ASSUME NEW j \in Jobs, NEW readOk \in BOOLEAN
  PROVE  Fits(Progress(j, readOk))
BY StatusFits DEF Progress, Status, Active

LEMMA BeginType ==
  ASSUME TypeOK, NEW j \in Jobs, Begin(j) PROVE TypeOK'
<1>1. PICK ok \in BOOLEAN : Begin(j)!(ok)
  BY DEF Begin
<1>2. Fits([status |-> "running"])
  BY StatusFits DEF Status, Active
<1>3. faults' \in 0 .. MaxFaults
  BY <1>1, CostType, PayType
<1>4. [worker[j] EXCEPT !.pc = "check"] \in Workers
  BY DEF TypeOK, Workers, Alive
<1>5. QED
  BY <1>1, <1>2, <1>3, <1>4, WorkerWriteType

LEMMA SkipToolType ==
  ASSUME TypeOK, NEW j \in Jobs, SkipTool(j) PROVE TypeOK'
<1>1. PICK readOk \in BOOLEAN, ok \in BOOLEAN : SkipTool(j)!(readOk, ok)
  BY DEF SkipTool
<1>2. faults' \in 0 .. MaxFaults
  BY <1>1, CostType, PayType
<1>3. [worker[j] EXCEPT !.pc = "wrap", !.canceled = TRUE] \in Workers
  BY DEF TypeOK, Workers, Alive
<1>4. QED
  BY <1>1, <1>2, <1>3, ProgressFits, WorkerWriteType

LEMMA StartToolType ==
  ASSUME TypeOK, NEW j \in Jobs, StartTool(j), worker[j].ran # Steps
  PROVE  TypeOK'
<1>1. PICK readOk \in BOOLEAN : StartTool(j)!(readOk)
  BY DEF StartTool
<1>2. faults' \in 0 .. MaxFaults
  BY <1>1, CostType, PayType
<1>3. [worker[j] EXCEPT !.pc = "exec", !.ran = @ + 1] \in Workers
  <2>1. worker[j].ran \in 0 .. Steps
    BY DEF TypeOK, Workers
  <2>2. worker[j].ran + 1 \in 0 .. Steps
    BY <2>1, StepsAssumption
  <2>3. QED
    BY <2>2 DEF TypeOK, Workers, Alive
<1>4. worker' \in [Jobs -> Workers]
  BY <1>1, <1>3 DEF TypeOK
<1>5. QED
  BY <1>1, <1>2, <1>4 DEF TypeOK

LEMMA EndToolType ==
  ASSUME TypeOK, NEW j \in Jobs, EndTool(j) PROVE TypeOK'
<1>1. PICK outcome \in {"PASS", "FAIL", "SKIP"}, readOk \in BOOLEAN,
           ok \in BOOLEAN : EndTool(j)!(outcome, readOk, ok)
  BY DEF EndTool
<1>2. faults' \in 0 .. MaxFaults
  BY <1>1, CostType, PayType
<1> DEFINE w == [worker[j] EXCEPT
                   !.pc = IF worker[j].ran = Steps THEN "wrap" ELSE "check",
                   !.failed = @ \/ outcome = "FAIL"]
<1>3. w \in Workers
  BY DEF TypeOK, Workers, Alive
<1>4. /\ worker' = [worker EXCEPT ![j] = w]
      /\ SetJob(j, Progress(j, readOk), ok)
      /\ UNCHANGED <<review, evicted, askedAt, crashes>>
  BY <1>1
<1> HIDE DEF w
<1>5. QED
  BY <1>2, <1>3, <1>4, ProgressFits, WorkerWriteType

LEMMA SettleType ==
  ASSUME TypeOK, NEW s, NEW failed, NEW canceled
  PROVE  Settle(s, failed, canceled) \in
           [Sessions -> {"absent", "pending", "reviewed", "exported"}]
BY DEF TypeOK, Settle

LEMMA WrapUpType ==
  ASSUME TypeOK, NEW j \in Jobs, WrapUp(j) PROVE TypeOK'
<1>1. [worker[j] EXCEPT !.pc = "report"] \in Workers
  BY DEF TypeOK, Workers, Alive
<1>2. worker' \in [Jobs -> Workers]
  BY <1>1 DEF WrapUp, TypeOK
<1>3. QED
  BY <1>2, SettleType DEF WrapUp, TypeOK

LEMMA OverallType == \A w : Overall(w) \in {"PASS", "FAIL", "CANCELED"}
BY DEF Overall

LEMMA TerminalStatusType ==
  \A o \in {"PASS", "FAIL", "CANCELED"} : TerminalStatus(o) \in Terminal
BY DEF TerminalStatus, Terminal

LEMMA ReportType ==
  ASSUME TypeOK, NEW j \in Jobs, Report(j) PROVE TypeOK'
<1>1. PICK ok \in BOOLEAN : Report(j)!(ok)
  BY DEF Report
<1> DEFINE overall == Overall(worker[j])
<1>2. Fits([status |-> TerminalStatus(overall), result |-> overall])
  BY OverallType, TerminalStatusType, ResultFits DEF Status, Result
<1>3. faults' \in 0 .. MaxFaults
  BY <1>1, CostType, PayType
<1>4. [worker[j] EXCEPT !.pc = "done"] \in Workers
  BY DEF TypeOK, Workers
<1>5. QED
  BY <1>1, <1>2, <1>3, <1>4, WorkerWriteType

LEMMA FailedFits == Fits([status |-> "failed"])
BY StatusFits DEF Status, Terminal

LEMMA AbortType ==
  ASSUME TypeOK, NEW j \in Jobs, Abort(j) PROVE TypeOK'
<1>1. PICK ok \in BOOLEAN : Abort(j)!(ok)
  BY DEF Abort
<1>2. faults' \in 0 .. MaxFaults
  BY <1>1, CostType, PayType
<1>3. [worker[j] EXCEPT !.pc = "done"] \in Workers
  BY DEF TypeOK, Workers
<1>4. QED
  BY <1>1, <1>2, <1>3, FailedFits, WorkerWriteType

LEMMA RejectType ==
  ASSUME TypeOK, NEW j \in Jobs, Reject(j) PROVE TypeOK'
<1>1. PICK ok \in BOOLEAN : Reject(j)!(ok)
  BY DEF Reject
<1>2. faults' \in 0 .. MaxFaults
  BY <1>1, CostType, PayType
<1>3. [worker[j] EXCEPT !.pc = "done"] \in Workers
  BY DEF TypeOK, Workers
<1>4. QED
  BY <1>1, <1>2, <1>3, FailedFits, WorkerWriteType

LEMMA CancelReadsType ==
  ASSUME TypeOK, NEW j \in Jobs, NEW readOk \in BOOLEAN
  PROVE  CancelReads(j, readOk) \in Status
BY DEF CancelReads, View, TypeOK, MemRows, DbRows, Status

LEMMA CancelType ==
  ASSUME TypeOK, NEW j \in Jobs, Cancel(j) PROVE TypeOK'
<1>1. PICK readOk \in BOOLEAN, ok \in BOOLEAN : Cancel(j)!(readOk, ok)
  BY DEF Cancel
<1> DEFINE status == CancelReads(j, readOk)
<1>2. CancelStatus(status) \in Status
  BY CancelReadsType DEF CancelStatus, Status, Active
<1>3. PICK upd : Fits(upd) /\ SetJob(j, upd, ok)
  BY <1>1, <1>2, CancelFits, CancelStatusFits
<1>4. faults' \in 0 .. MaxFaults
  BY <1>1, CostType, PayType
<1>5. askedAt' \in [Jobs -> 0 .. NotAsked]
  <2>1. worker[j].ran \in 0 .. NotAsked
    BY StepsAssumption DEF TypeOK, Workers, NotAsked
  <2>2. QED
    BY <1>1, <2>1 DEF TypeOK
<1>6. QED
  BY <1>1, <1>3, <1>4, <1>5, SetJobType DEF TypeOK

LEMMA CrashType == ASSUME TypeOK, Crash PROVE TypeOK'
<1>1. worker' \in [Jobs -> Workers]
  BY DEF Crash, TypeOK, Workers
<1>2. QED
  BY <1>1, EmptyRows, BoundsAssumption DEF Crash, TypeOK

LEMMA ReviewType ==
  ASSUME TypeOK, NEW s \in Sessions,
         InlineRun(s) \/ ReviewPatch(s) \/ Export(s)
  PROVE  TypeOK'
<1>1. CASE InlineRun(s)
  <2>1. review' \in [Sessions -> {"absent", "pending", "reviewed", "exported"}]
    <3>1. PICK failed \in BOOLEAN : review' = Settle(s, failed, FALSE)
      BY <1>1 DEF InlineRun
    <3>2. QED
      BY <3>1, SettleType
  <2>2. QED
    BY <1>1, <2>1 DEF InlineRun, TypeOK
<1>2. CASE ReviewPatch(s)
  BY <1>2 DEF ReviewPatch, TypeOK
<1>3. CASE Export(s)
  BY <1>3 DEF Export, TypeOK
<1>4. QED
  BY <1>1, <1>2, <1>3

-----------------------------------------------------------------------------
(***************************************************************************)
(* The first inductive invariant.  A thread that is about to start a tool  *)
(* has one left (TypeOK needs this for the count of tools), an identifier  *)
(* that is not in use has left no trace, and neither store holds a         *)
(* terminal status while a thread is alive.                                *)
(***************************************************************************)
ToolsLeft ==
  \A j \in Jobs : worker[j].pc \in {"spawned", "check"} => worker[j].ran # Steps

UnusedIsClean ==
  \A j \in Jobs : worker[j].pc = "none" =>
    /\ mem[j] = NoMemRow /\ db[j] = NoDbRow
    /\ askedAt[j] = NotAsked /\ j \notin evicted
    /\ worker[j] = Idle

IInv == TypeOK /\ ToolsLeft /\ UnusedIsClean /\ NoWorkBehindTerminal

(***************************************************************************)
(* What _set_pipeline_job does to the rows: j's take the status of the     *)
(* update, the table's only if the write gets through; all others stay.    *)
(***************************************************************************)
LEMMA SetJobStatus ==
  ASSUME TypeOK, NEW j \in Jobs, NEW upd, NEW ok \in BOOLEAN,
         SetJob(j, upd, ok), "status" \in DOMAIN upd
  PROVE  /\ mem'[j].status = upd["status"]
         /\ db'[j].status \in {upd["status"], db[j].status}
         /\ \A k \in Jobs \ {j} : mem'[k] = mem[k] /\ db'[k] = db[k]
<1>1. "status" \in DOMAIN mem[j]
  BY DEF TypeOK, MemRows
<1>2. \A r \in DbRows : "status" \in DOMAIN r
  BY DEF DbRows
<1>3. mem'[j].status = upd["status"]
  BY <1>1 DEF SetJob, Put, TypeOK
<1>4. Upsert(db[j], upd).status = upd["status"]
  BY <1>2, EmptyRows DEF Upsert, Put, TypeOK
<1>5. db'[j].status \in {upd["status"], db[j].status}
  BY <1>4 DEF SetJob, TypeOK
<1>6. \A k \in Jobs \ {j} : mem'[k] = mem[k] /\ db'[k] = db[k]
  BY DEF SetJob, TypeOK
<1>7. QED
  BY <1>3, <1>5, <1>6

(***************************************************************************)
(* A step of a worker, or a rejected job, keeps the invariant: it writes   *)
(* the row of one job only, with a terminal status only as the thread      *)
(* ends.                                                                   *)
(***************************************************************************)
LEMMA WriteStep ==
  ASSUME IInv, NEW j \in Jobs, NEW upd, NEW ok \in BOOLEAN,
         SetJob(j, upd, ok), "status" \in DOMAIN upd, NEW w \in Workers,
         worker' = [worker EXCEPT ![j] = w],
         UNCHANGED <<evicted, askedAt>>,
         w.pc # "none",
         w.pc \in {"spawned", "check"} => w.ran # Steps,
         w.pc \in Alive => /\ worker[j].pc \in Alive
                           /\ upd["status"] \notin Terminal
  PROVE  ToolsLeft' /\ UnusedIsClean' /\ NoWorkBehindTerminal'
<1> USE DEF IInv
<1>1. /\ worker'[j] = w
      /\ \A k \in Jobs \ {j} : worker'[k] = worker[k]
  BY DEF TypeOK
<1>2. ToolsLeft'
  BY <1>1 DEF ToolsLeft
<1>3. UnusedIsClean'
  BY <1>1, SetJobStatus DEF UnusedIsClean, NotAsked
<1>4. NoWorkBehindTerminal'
  BY <1>1, SetJobStatus DEF NoWorkBehindTerminal
<1>5. QED
  BY <1>2, <1>3, <1>4

LEMMA BeginInv == ASSUME IInv, NEW j \in Jobs, Begin(j) PROVE IInv'
<1>1. PICK ok \in BOOLEAN : Begin(j)!(ok)
  BY DEF Begin
<1> DEFINE w == [worker[j] EXCEPT !.pc = "check"]
<1>2. /\ w \in Workers /\ w.pc = "check" /\ w.ran = worker[j].ran
      /\ worker[j].pc = "spawned"
  BY <1>1 DEF IInv, TypeOK, Workers, Alive
<1>3. w.ran # Steps
  BY <1>2 DEF IInv, ToolsLeft
<1> HIDE DEF w
<1>4. /\ worker' = [worker EXCEPT ![j] = w]
      /\ SetJob(j, [status |-> "running"], ok)
      /\ UNCHANGED <<evicted, askedAt>>
  BY <1>1 DEF w
<1> DEFINE upd == [status |-> "running"]
<1>5. "status" \in DOMAIN upd /\ upd["status"] \notin Terminal
  BY DEF Terminal
<1>6. SetJob(j, upd, ok)
  BY <1>4
<1> HIDE DEF upd
<1>7. ToolsLeft' /\ UnusedIsClean' /\ NoWorkBehindTerminal'
  BY <1>2, <1>3, <1>4, <1>5, <1>6, WriteStep DEF Alive
<1>8. QED
  BY <1>7, BeginType DEF IInv

LEMMA SkipToolInv == ASSUME IInv, NEW j \in Jobs, SkipTool(j) PROVE IInv'
<1>1. PICK readOk \in BOOLEAN, ok \in BOOLEAN : SkipTool(j)!(readOk, ok)
  BY DEF SkipTool
<1> DEFINE w == [worker[j] EXCEPT !.pc = "wrap", !.canceled = TRUE]
<1>2. /\ w \in Workers /\ w.pc = "wrap" /\ worker[j].pc = "check"
  BY <1>1 DEF IInv, TypeOK, Workers, Alive
<1>3. /\ "status" \in DOMAIN Progress(j, readOk)
      /\ Progress(j, readOk)["status"] \notin Terminal
  BY DEF Progress, Terminal
<1> HIDE DEF w
<1>4. /\ worker' = [worker EXCEPT ![j] = w]
      /\ SetJob(j, Progress(j, readOk), ok)
      /\ UNCHANGED <<evicted, askedAt>>
  BY <1>1 DEF w
<1>5. ToolsLeft' /\ UnusedIsClean' /\ NoWorkBehindTerminal'
  BY <1>2, <1>3, <1>4, WriteStep DEF Alive
<1>6. QED
  BY <1>5, SkipToolType DEF IInv

LEMMA EndToolInv == ASSUME IInv, NEW j \in Jobs, EndTool(j) PROVE IInv'
<1>1. PICK outcome \in {"PASS", "FAIL", "SKIP"}, readOk \in BOOLEAN,
           ok \in BOOLEAN : EndTool(j)!(outcome, readOk, ok)
  BY DEF EndTool
<1> DEFINE w == [worker[j] EXCEPT
                   !.pc = IF worker[j].ran = Steps THEN "wrap" ELSE "check",
                   !.failed = @ \/ outcome = "FAIL"]
<1>2. /\ w \in Workers /\ w.pc \in {"wrap", "check"}
      /\ w.pc = "check" => w.ran # Steps
      /\ worker[j].pc = "exec"
  BY <1>1 DEF IInv, TypeOK, Workers, Alive
<1>3. /\ "status" \in DOMAIN Progress(j, readOk)
      /\ Progress(j, readOk)["status"] \notin Terminal
  BY DEF Progress, Terminal
<1>4. /\ worker' = [worker EXCEPT ![j] = w]
      /\ SetJob(j, Progress(j, readOk), ok)
      /\ UNCHANGED <<evicted, askedAt>>
  BY <1>1
<1> HIDE DEF w
<1>5. ToolsLeft' /\ UnusedIsClean' /\ NoWorkBehindTerminal'
  BY <1>2, <1>3, <1>4, WriteStep DEF Alive
<1>6. QED
  BY <1>5, EndToolType DEF IInv

(***************************************************************************)
(* Steps that leave both stores alone.                                     *)
(***************************************************************************)
LEMMA ThreadStep ==
  ASSUME IInv, NEW j \in Jobs, NEW w \in Workers,
         worker[j].pc \in Alive, w.pc \in Alive \ {"spawned", "check"},
         worker' = [worker EXCEPT ![j] = w],
         UNCHANGED <<mem, db, evicted, askedAt>>
  PROVE  ToolsLeft' /\ UnusedIsClean' /\ NoWorkBehindTerminal'
<1> USE DEF IInv
<1>1. /\ worker'[j] = w
      /\ \A k \in Jobs \ {j} : worker'[k] = worker[k]
  BY DEF TypeOK
<1>2. ToolsLeft'
  BY <1>1 DEF ToolsLeft
<1>3. UnusedIsClean'
  BY <1>1 DEF UnusedIsClean, Alive, NotAsked
<1>4. NoWorkBehindTerminal'
  BY <1>1 DEF NoWorkBehindTerminal
<1>5. QED
  BY <1>2, <1>3, <1>4

LEMMA StartToolInv == ASSUME IInv, NEW j \in Jobs, StartTool(j) PROVE IInv'
<1>1. PICK readOk \in BOOLEAN : StartTool(j)!(readOk)
  BY DEF StartTool
<1> DEFINE w == [worker[j] EXCEPT !.pc = "exec", !.ran = @ + 1]
<1>2. worker[j].ran # Steps
  BY <1>1 DEF IInv, ToolsLeft
<1>3. TypeOK'
  BY <1>2, StartToolType DEF IInv
<1>4. worker' = [worker EXCEPT ![j] = w] /\ UNCHANGED <<mem, db, evicted, askedAt>>
  BY <1>1
<1>5. w = worker'[j]
  BY <1>4 DEF IInv, TypeOK
<1>6. w \in Workers
  BY <1>3, <1>5 DEF TypeOK
<1>7. worker[j].pc \in Alive /\ w.pc \in Alive \ {"spawned", "check"}
  BY <1>1 DEF IInv, TypeOK, Workers, Alive
<1> HIDE DEF w
<1>8. QED
  BY <1>3, <1>4, <1>6, <1>7, ThreadStep DEF IInv

LEMMA WrapUpInv == ASSUME IInv, NEW j \in Jobs, WrapUp(j) PROVE IInv'
<1> DEFINE w == [worker[j] EXCEPT !.pc = "report"]
<1>1. w \in Workers
  BY DEF IInv, TypeOK, Workers, Alive
<1>2. worker' = [worker EXCEPT ![j] = w] /\ UNCHANGED <<mem, db, evicted, askedAt>>
  BY DEF WrapUp
<1>3. worker[j].pc \in Alive /\ w.pc \in Alive \ {"spawned", "check"}
  BY DEF WrapUp, IInv, TypeOK, Workers, Alive
<1> HIDE DEF w
<1>4. QED
  BY <1>1, <1>2, <1>3, ThreadStep, WrapUpType DEF IInv

LEMMA ReportInv == ASSUME IInv, NEW j \in Jobs, Report(j) PROVE IInv'
<1>1. PICK ok \in BOOLEAN : Report(j)!(ok)
  BY DEF Report
<1> DEFINE w == [worker[j] EXCEPT !.pc = "done"]
           overall == Overall(worker[j])
           upd == [status |-> TerminalStatus(overall), result |-> overall]
<1>2. /\ w \in Workers /\ w.pc = "done"
      /\ worker' = [worker EXCEPT ![j] = w]
      /\ SetJob(j, upd, ok)
      /\ UNCHANGED <<evicted, askedAt>>
  BY <1>1 DEF IInv, TypeOK, Workers
<1>3. "status" \in DOMAIN upd
  OBVIOUS
<1> HIDE DEF w, upd
<1>4. ToolsLeft' /\ UnusedIsClean' /\ NoWorkBehindTerminal'
  BY <1>2, <1>3, WriteStep DEF Alive
<1>5. QED
  BY <1>4, ReportType DEF IInv

(***************************************************************************)
(* Abort and Reject record the job as failed and leave no thread.          *)
(***************************************************************************)
LEMMA FailedStep ==
  ASSUME IInv, NEW j \in Jobs, NEW ok \in BOOLEAN,
         SetJob(j, [status |-> "failed"], ok),
         worker' = [worker EXCEPT ![j].pc = "done"],
         UNCHANGED <<evicted, askedAt>>
  PROVE  ToolsLeft' /\ UnusedIsClean' /\ NoWorkBehindTerminal'
<1> DEFINE w == [worker[j] EXCEPT !.pc = "done"]
<1>1. /\ w \in Workers /\ w.pc = "done"
      /\ worker' = [worker EXCEPT ![j] = w]
  BY DEF IInv, TypeOK, Workers
<1> DEFINE upd == [status |-> "failed"]
<1>2. "status" \in DOMAIN upd /\ SetJob(j, upd, ok)
  OBVIOUS
<1> HIDE DEF w, upd
<1>3. /\ w.pc # "none" /\ w.pc \notin Alive
      /\ w.pc \in {"spawned", "check"} => w.ran # Steps
  BY <1>1 DEF Alive
<1>4. QED
  BY <1>1, <1>2, <1>3, WriteStep, ZenonT(60)

LEMMA AbortInv == ASSUME IInv, NEW j \in Jobs, Abort(j) PROVE IInv'
BY FailedStep, AbortType DEF Abort, IInv

LEMMA RejectInv == ASSUME IInv, NEW j \in Jobs, Reject(j) PROVE IInv'
BY FailedStep, RejectType DEF Reject, IInv

LEMMA LaunchInv ==
  ASSUME IInv, NEW j \in Jobs, NEW s \in Sessions, Launch(j, s)
  PROVE  IInv'
<1> DEFINE memOut == Surplus(InMem, memOlder)
<1>1. PICK okPrune \in BOOLEAN, okRow \in BOOLEAN, okPayload \in BOOLEAN :
        Launch(j, s)!(okPrune, okRow, okPayload)
  BY DEF Launch
<1> DEFINE dbOut == IF memOut # {} /\ okPrune THEN Surplus(InDb, dbOlder)
                    ELSE {}
           row(r) == IF okRow THEN Upsert(r, [status |-> "queued"]) ELSE r
           paid(r) == IF okPayload THEN Upsert(r, [payload |-> s]) ELSE r
<1>2. /\ mem'[j] = Put(NoMemRow, [status |-> "queued"])
      /\ \A k \in Jobs \ {j} : mem'[k] \in {mem[k], NoMemRow}
      /\ \A k \in Jobs \ {j} : mem'[k] = IF k \in memOut THEN NoMemRow
                                         ELSE mem[k]
  BY <1>1
<1>3. /\ db'[j] = paid(row(NoDbRow))
      /\ \A k \in Jobs \ {j} : db'[k] = IF k \in dbOut THEN NoDbRow ELSE db[k]
  BY <1>1
<1>4. /\ worker'[j] = Spawned(s)
      /\ \A k \in Jobs \ {j} : worker'[k] = worker[k]
  BY <1>1 DEF IInv, TypeOK
<1>5. memOut \subseteq {k \in Jobs : mem[k] # NoMemRow}
      /\ dbOut \subseteq {k \in Jobs : db[k].status # "absent"}
  BY DEF Surplus, InMem, InDb
<1>6. evicted' = evicted \cup memOut \cup dbOut /\ askedAt' = askedAt
  BY <1>1
<1> HIDE DEF memOut, dbOut
<1>7. ToolsLeft'
  BY <1>4, StepsAssumption DEF IInv, ToolsLeft, Spawned
<1>8. UnusedIsClean'
  <2> SUFFICES ASSUME NEW k \in Jobs, worker'[k].pc = "none"
               PROVE  /\ mem'[k] = NoMemRow /\ db'[k] = NoDbRow
                      /\ askedAt'[k] = NotAsked /\ k \notin evicted'
                      /\ worker'[k] = Idle
    BY DEF UnusedIsClean, NotAsked, NoMemRow, NoDbRow, Idle
  <2>1. k # j
    BY <1>4 DEF Spawned
  <2>2. /\ mem[k] = NoMemRow /\ db[k] = NoDbRow
        /\ askedAt[k] = NotAsked /\ k \notin evicted
        /\ worker[k] = Idle
    BY <1>4, <2>1 DEF IInv, UnusedIsClean
  <2>3. k \notin memOut /\ k \notin dbOut
    BY <1>5, <2>2 DEF NoDbRow
  <2>4. QED
    BY <1>2, <1>3, <1>4, <1>6, <2>1, <2>2, <2>3
<1>9. NoWorkBehindTerminal'
  <2>1. mem'[j].status = "queued"
    BY <1>2 DEF Put, NoMemRow
  <2>2. db'[j].status \in {"queued", "absent"}
    BY <1>3 DEF Put, Upsert, NoDbRow, FreshDbRow
  <2>3. \A k \in Jobs \ {j} :
          /\ mem'[k].status \in {mem[k].status, "absent"}
          /\ db'[k].status \in {db[k].status, "absent"}
    BY <1>2, <1>3 DEF NoMemRow, NoDbRow
  <2>4. QED
    BY <1>4, <2>1, <2>2, <2>3 DEF IInv, NoWorkBehindTerminal, Terminal
<1>10. QED
  BY <1>7, <1>8, <1>9, LaunchType DEF IInv

(***************************************************************************)
(* A cancel of a job whose thread is alive never sees a terminal status,   *)
(* nor writes one.                                                         *)
(***************************************************************************)
LEMMA CancelSeesActive ==
  ASSUME IInv, NEW j \in Jobs, NEW readOk \in BOOLEAN, worker[j].pc \in Alive
  PROVE  /\ CancelReads(j, readOk) \notin Terminal
         /\ CancelStatus(CancelReads(j, readOk)) \notin Terminal
<1>1. mem[j].status \notin Terminal /\ db[j].status \notin Terminal
  BY DEF IInv, NoWorkBehindTerminal
<1>2. CancelReads(j, readOk) \notin Terminal
  BY <1>1 DEF CancelReads, View, Terminal
<1>3. QED
  BY <1>2 DEF CancelStatus, Terminal

LEMMA CancelInv == ASSUME IInv, NEW j \in Jobs, Cancel(j) PROVE IInv'
<1>1. PICK readOk \in BOOLEAN, ok \in BOOLEAN : Cancel(j)!(readOk, ok)
  BY DEF Cancel
<1> DEFINE status == CancelReads(j, readOk)
<1>2. worker' = worker /\ evicted' = evicted
  BY <1>1
<1>3. worker[j].pc # "none"
  <2>1. j \in InMem \/ j \in InDb
    BY <1>1
  <2>2. QED
    BY <2>1 DEF InMem, InDb, IInv, UnusedIsClean, NoDbRow
<1>4. \A k \in Jobs \ {j} : /\ mem'[k] = mem[k] /\ db'[k] = db[k]
                            /\ askedAt'[k] = askedAt[k]
  BY <1>1 DEF SetJob, IInv, TypeOK
<1>5. ToolsLeft'
  BY <1>2 DEF IInv, ToolsLeft
<1>6. UnusedIsClean'
  BY <1>2, <1>3, <1>4 DEF IInv, UnusedIsClean, NotAsked
<1>7. NoWorkBehindTerminal'
  <2>1. ASSUME worker[j].pc \in Alive
        PROVE  mem'[j].status \notin Terminal /\ db'[j].status \notin Terminal
    <3> DEFINE upd == [cancel |-> TRUE, status |-> CancelStatus(status)]
    <3>1. SetJob(j, upd, ok)
      BY <1>1, <2>1, CancelSeesActive
    <3>2. "status" \in DOMAIN upd /\ upd["status"] \notin Terminal
      BY <2>1, CancelSeesActive
    <3> HIDE DEF upd
    <3>3. db[j].status \notin Terminal
      BY <2>1 DEF IInv, NoWorkBehindTerminal
    <3>4. QED
      BY <3>1, <3>2, <3>3, SetJobStatus DEF IInv
  <2>2. QED
    BY <1>2, <1>4, <2>1 DEF IInv, NoWorkBehindTerminal
<1>8. QED
  BY <1>5, <1>6, <1>7, CancelType DEF IInv

LEMMA CrashInv == ASSUME IInv, Crash PROVE IInv'
<1>1. \A j \in Jobs : /\ worker'[j].pc \notin Alive
                      /\ worker[j].pc \in Alive => worker'[j].pc = "dead"
                      /\ worker[j].pc \notin Alive => worker'[j] = worker[j]
                      /\ mem'[j] = NoMemRow
  BY DEF Crash, IInv, TypeOK, Workers, Alive
<1>2. UNCHANGED <<db, evicted, askedAt>>
  BY DEF Crash
<1>3. ToolsLeft'
  BY <1>1 DEF IInv, ToolsLeft, Alive
<1>4. UnusedIsClean'
  BY <1>1, <1>2 DEF IInv, UnusedIsClean, Alive, NotAsked
<1>5. NoWorkBehindTerminal'
  BY <1>1 DEF NoWorkBehindTerminal
<1>6. QED
  BY <1>3, <1>4, <1>5, CrashType DEF IInv

(***************************************************************************)
(* Every other action leaves the stores and the threads alone.             *)
(***************************************************************************)
LEMMA RestInv ==
  ASSUME IInv, UNCHANGED <<mem, db, worker, evicted, askedAt>>
  PROVE  ToolsLeft' /\ UnusedIsClean' /\ NoWorkBehindTerminal'
BY DEF IInv, ToolsLeft, UnusedIsClean, NoWorkBehindTerminal, NotAsked

LEMMA StutterType == ASSUME TypeOK, UNCHANGED vars PROVE TypeOK'
BY DEF TypeOK, vars

(***************************************************************************)
(* The three facts that make IInv an inductive invariant.                  *)
(***************************************************************************)
LEMMA InitInv == Init => IInv
<1> SUFFICES ASSUME Init PROVE IInv
  OBVIOUS
<1>1. TypeOK
  <2>1. worker \in [Jobs -> Workers]
    <3>1. Idle \in Workers
      BY StepsAssumption DEF Idle, Workers
    <3>2. QED
      BY <3>1 DEF Init
  <2>2. askedAt \in [Jobs -> 0 .. NotAsked]
    BY StepsAssumption DEF Init, NotAsked
  <2>3. mem \in [Jobs -> MemRows] /\ db \in [Jobs -> DbRows]
    BY EmptyRows DEF Init
  <2>4. QED
    BY <2>1, <2>2, <2>3, BoundsAssumption DEF Init, TypeOK
<1>2. ToolsLeft
  BY DEF Init, Idle, ToolsLeft
<1>3. UnusedIsClean
  BY DEF Init, UnusedIsClean
<1>4. NoWorkBehindTerminal
  BY DEF Init, Idle, Alive, NoWorkBehindTerminal
<1>5. QED
  BY <1>1, <1>2, <1>3, <1>4 DEF IInv

LEMMA StepInv == IInv /\ [Next]_vars => IInv'
<1> SUFFICES ASSUME IInv, [Next]_vars PROVE IInv'
  OBVIOUS
<1>1. ASSUME NEW j \in Jobs, NEW s \in Sessions, Start(j, s) PROVE IInv'
  BY <1>1, LaunchInv DEF Start
<1>2. ASSUME NEW j \in Jobs, Reject(j) PROVE IInv'
  BY <1>2, RejectInv
<1>3. ASSUME NEW old \in Jobs, NEW j \in Jobs, Retry(old, j) PROVE IInv'
  <2>1. db[old].payload \in Sessions
    BY <1>3 DEF Retry, IInv, TypeOK, DbRows
  <2>2. QED
    BY <1>3, <2>1, LaunchInv DEF Retry
<1>4. ASSUME NEW j \in Jobs, Cancel(j) PROVE IInv'
  BY <1>4, CancelInv
<1>5. ASSUME NEW j \in Jobs, WorkerStep(j) PROVE IInv'
  BY <1>5, BeginInv, StartToolInv, SkipToolInv, EndToolInv, WrapUpInv,
     ReportInv DEF WorkerStep
<1>6. ASSUME NEW j \in Jobs, Abort(j) PROVE IInv'
  BY <1>6, AbortInv
<1>7. ASSUME NEW s \in Sessions, InlineRun(s) \/ ReviewPatch(s) \/ Export(s)
      PROVE  IInv'
  <2>1. UNCHANGED <<mem, db, worker, evicted, askedAt>>
    BY <1>7 DEF InlineRun, ReviewPatch, Export
  <2>2. TypeOK'
    BY <1>7, ReviewType DEF IInv
  <2>3. QED
    BY <2>1, <2>2, RestInv DEF IInv
<1>8. CASE Crash
  BY <1>8, CrashInv
<1>9. CASE UNCHANGED vars
  BY <1>9, RestInv, StutterType DEF vars, IInv
<1>10. QED
  BY <1>1, <1>2, <1>3, <1>4, <1>5, <1>6, <1>7, <1>8, <1>9 DEF Next

LEMMA InvariantHolds == Spec => []IInv
BY InitInv, StepInv, PTL DEF Spec

-----------------------------------------------------------------------------
(***************************************************************************)
(* Type correctness of the pipeline: the rows of both stores, the threads  *)
(* and the review rows stay well formed, and a run never counts more tools *)
(* than there are (_execute_pipeline's step list).                         *)
(***************************************************************************)
THEOREM TypeCorrect == Spec => []TypeOK
<1>1. IInv => TypeOK
  BY DEF IInv
<1>2. QED
  BY <1>1, InvariantHolds, PTL

(***************************************************************************)
(* While a thread works on a job neither the dictionary nor the table says *)
(* that the job is finished, for any number of jobs, tools, failed writes, *)
(* prunes and restarts.                                                    *)
(***************************************************************************)
THEOREM WorkIsVisible == Spec => []NoWorkBehindTerminal
<1>1. IInv => NoWorkBehindTerminal
  BY DEF IInv
<1>2. QED
  BY <1>1, InvariantHolds, PTL

-----------------------------------------------------------------------------
(***************************************************************************)
(* The second inductive invariant is about the record of a job that no     *)
(* failed call and no prune has touched: the table has its row, with the   *)
(* input of the run, and remembers a cancel for as long as the thread      *)
(* lives; no tool has begun since.                                         *)
(***************************************************************************)
Kept(j) ==
  Intact(j) /\ worker[j].pc # "none" =>
    /\ db[j].status # "absent"
    /\ worker[j].input # NoSession => db[j].payload = worker[j].input
    /\ worker[j].ran <= askedAt[j]
    /\ askedAt[j] # NotAsked /\ worker[j].pc \in Alive => db[j].cancel

KInv == IInv /\ \A j \in Jobs : Kept(j)

(***************************************************************************)
(* The updates of _set_pipeline_job neither take a cancel back nor touch   *)
(* the payload.                                                            *)
(***************************************************************************)
Plain(upd) ==
  /\ DOMAIN upd \subseteq {"status", "cancel", "result"}
  /\ "status" \in DOMAIN upd => upd["status"] # "absent"
  /\ "cancel" \in DOMAIN upd => upd["cancel"]

LEMMA PutPlain ==
  ASSUME NEW r \in DbRows, NEW upd, Plain(upd)
  PROVE  /\ Put(r, upd).payload = r.payload
         /\ r.status # "absent" => Put(r, upd).status # "absent"
         /\ r.cancel => Put(r, upd).cancel
         /\ "cancel" \in DOMAIN upd => Put(r, upd).cancel
BY DEF DbRows, Plain, Put

LEMMA SetJobKeeps ==
  ASSUME TypeOK, NEW j \in Jobs, NEW upd, Plain(upd), SetJob(j, upd, TRUE),
         db[j].status # "absent"
  PROVE  /\ db'[j].status # "absent"
         /\ db'[j].payload = db[j].payload
         /\ db[j].cancel => db'[j].cancel
         /\ "cancel" \in DOMAIN upd => db'[j].cancel
<1>1. db'[j] = Put(db[j], upd)
  BY DEF SetJob, Upsert, TypeOK
<1>2. db[j] \in DbRows
  BY DEF TypeOK
<1>3. QED
  BY <1>1, <1>2, PutPlain

LEMMA SetJobOthers ==
  ASSUME TypeOK, NEW j \in Jobs, NEW upd, NEW ok \in BOOLEAN,
         SetJob(j, upd, ok)
  PROVE  \A k \in Jobs \ {j} : db'[k] = db[k]
BY DEF SetJob, TypeOK

(***************************************************************************)
(* No failed call so far means none before, and none in this step.         *)
(***************************************************************************)
LEMMA PayIntact ==
  ASSUME TypeOK, NEW c \in Nat, Pay(c), faults' = 0
  PROVE  faults = 0 /\ c = 0
BY BoundsAssumption DEF Pay, TypeOK

LEMMA WriteKeeps ==
  ASSUME KInv, NEW j \in Jobs, NEW upd, NEW ok \in BOOLEAN,
         SetJob(j, upd, ok), Plain(upd),
         faults' = 0 => faults = 0 /\ ok,
         NEW w, worker' = [worker EXCEPT ![j] = w],
         w.ran = worker[j].ran, w.input = worker[j].input,
         worker[j].pc # "none", w.pc \in Alive => worker[j].pc \in Alive,
         UNCHANGED <<evicted, askedAt>>
  PROVE  \A k \in Jobs : Kept(k)'
<1> SUFFICES ASSUME NEW k \in Jobs, Intact(k)', worker'[k].pc # "none"
             PROVE  /\ db'[k].status # "absent"
                    /\ worker'[k].input # NoSession =>
                         db'[k].payload = worker'[k].input
                    /\ worker'[k].ran <= askedAt'[k]
                    /\ askedAt'[k] # NotAsked /\ worker'[k].pc \in Alive =>
                         db'[k].cancel
  BY DEF Kept, NotAsked
<1>1. TypeOK /\ Kept(k) /\ Kept(j)
  BY DEF KInv, IInv
<1>2. faults = 0 /\ ok = TRUE /\ Intact(k)
  BY DEF Intact
<1>3. CASE k = j
  <2>1. worker'[j] = w
    BY <1>1 DEF TypeOK
  <2>2. /\ db[j].status # "absent"
        /\ worker[j].input # NoSession => db[j].payload = worker[j].input
        /\ worker[j].ran <= askedAt[j]
        /\ askedAt[j] # NotAsked /\ worker[j].pc \in Alive => db[j].cancel
    BY <1>1, <1>2, <1>3 DEF Kept
  <2>3. SetJob(j, upd, TRUE)
    BY <1>2
  <2>4. QED
    BY <1>1, <1>3, <2>1, <2>2, <2>3, SetJobKeeps
<1>4. CASE k # j
  <2>1. worker'[k] = worker[k] /\ db'[k] = db[k]
    BY <1>1, <1>4, SetJobOthers DEF TypeOK
  <2>2. QED
    BY <1>1, <1>2, <2>1 DEF Kept
<1>5. QED
  BY <1>3, <1>4

LEMMA CostZero == \A ok \in BOOLEAN : Cost(ok) = 0 => ok
BY DEF Cost

LEMMA BeginKeeps ==
  ASSUME KInv, NEW j \in Jobs, Begin(j) PROVE \A k \in Jobs : Kept(k)'
<1>1. PICK ok \in BOOLEAN : Begin(j)!(ok)
  BY DEF Begin
<1> DEFINE w == [worker[j] EXCEPT !.pc = "check"]
           upd == [status |-> "running"]
<1>2. /\ w.ran = worker[j].ran /\ w.input = worker[j].input
      /\ worker[j].pc # "none" /\ worker[j].pc \in Alive
  BY <1>1 DEF KInv, IInv, TypeOK, Workers, Alive
<1>3. Plain(upd)
  BY DEF Plain
<1>4. faults' = 0 => faults = 0 /\ ok
  BY <1>1, PayIntact, CostType, CostZero DEF KInv, IInv
<1>5. /\ worker' = [worker EXCEPT ![j] = w] /\ SetJob(j, upd, ok)
      /\ UNCHANGED <<evicted, askedAt>>
  BY <1>1
<1> HIDE DEF w, upd
<1>6. QED
  BY <1>2, <1>3, <1>4, <1>5, WriteKeeps

LEMMA ProgressPlain ==
  ASSUME NEW j \in Jobs, NEW readOk \in BOOLEAN PROVE Plain(Progress(j, readOk))
BY DEF Progress, Plain

LEMMA SkipToolKeeps ==
  ASSUME KInv, NEW j \in Jobs, SkipTool(j) PROVE \A k \in Jobs : Kept(k)'
<1>1. PICK readOk \in BOOLEAN, ok \in BOOLEAN : SkipTool(j)!(readOk, ok)
  BY DEF SkipTool
<1> DEFINE w == [worker[j] EXCEPT !.pc = "wrap", !.canceled = TRUE]
           upd == Progress(j, readOk)
<1>2. /\ w.ran = worker[j].ran /\ w.input = worker[j].input
      /\ worker[j].pc # "none" /\ worker[j].pc \in Alive
  BY <1>1 DEF KInv, IInv, TypeOK, Workers, Alive
<1>3. faults' = 0 => faults = 0 /\ ok
  <2>1. Cost(readOk) \in Nat /\ Cost(ok) \in Nat
    BY CostType
  <2>2. faults' = 0 => faults = 0 /\ Cost(readOk) + Cost(ok) = 0
    BY <1>1, <2>1, PayIntact DEF KInv, IInv
  <2>3. QED
    BY <2>1, <2>2, CostZero
<1>4. /\ worker' = [worker EXCEPT ![j] = w] /\ SetJob(j, upd, ok)
      /\ UNCHANGED <<evicted, askedAt>>
  BY <1>1
<1>5. Plain(upd)
  BY ProgressPlain
<1> HIDE DEF w, upd
<1>6. QED
  BY <1>2, <1>3, <1>4, <1>5, WriteKeeps

LEMMA EndToolKeeps ==
  ASSUME KInv, NEW j \in Jobs, EndTool(j) PROVE \A k \in Jobs : Kept(k)'
<1>1. PICK outcome \in {"PASS", "FAIL", "SKIP"}, readOk \in BOOLEAN,
           ok \in BOOLEAN : EndTool(j)!(outcome, readOk, ok)
  BY DEF EndTool
<1> DEFINE w == [worker[j] EXCEPT
                   !.pc = IF worker[j].ran = Steps THEN "wrap" ELSE "check",
                   !.failed = @ \/ outcome = "FAIL"]
           upd == Progress(j, readOk)
<1>2. /\ w.ran = worker[j].ran /\ w.input = worker[j].input
      /\ worker[j].pc # "none" /\ worker[j].pc \in Alive
  BY <1>1 DEF KInv, IInv, TypeOK, Workers, Alive
<1>3. faults' = 0 => faults = 0 /\ ok
  <2>1. Cost(readOk) \in Nat /\ Cost(ok) \in Nat
    BY CostType
  <2>2. faults' = 0 => faults = 0 /\ Cost(readOk) + Cost(ok) = 0
    BY <1>1, <2>1, PayIntact DEF KInv, IInv
  <2>3. QED
    BY <2>1, <2>2, CostZero
<1>4. /\ worker' = [worker EXCEPT ![j] = w] /\ SetJob(j, upd, ok)
      /\ UNCHANGED <<evicted, askedAt>>
  BY <1>1
<1>5. Plain(upd)
  BY ProgressPlain
<1> HIDE DEF w, upd
<1>6. QED
  BY <1>2, <1>3, <1>4, <1>5, WriteKeeps

LEMMA ReportKeeps ==
  ASSUME KInv, NEW j \in Jobs, Report(j) PROVE \A k \in Jobs : Kept(k)'
<1>1. PICK ok \in BOOLEAN : Report(j)!(ok)
  BY DEF Report
<1> DEFINE w == [worker[j] EXCEPT !.pc = "done"]
           overall == Overall(worker[j])
           upd == [status |-> TerminalStatus(overall), result |-> overall]
<1>2. /\ w.ran = worker[j].ran /\ w.input = worker[j].input
      /\ worker[j].pc # "none" /\ worker[j].pc \in Alive
  BY <1>1 DEF KInv, IInv, TypeOK, Workers, Alive
<1>3. Plain(upd)
  BY OverallType, TerminalStatusType DEF Plain, Terminal
<1>4. faults' = 0 => faults = 0 /\ ok
  BY <1>1, PayIntact, CostType, CostZero DEF KInv, IInv
<1>5. /\ worker' = [worker EXCEPT ![j] = w] /\ SetJob(j, upd, ok)
      /\ UNCHANGED <<evicted, askedAt>>
  BY <1>1
<1> HIDE DEF w, upd
<1>6. QED
  BY <1>2, <1>3, <1>4, <1>5, WriteKeeps

LEMMA AbortKeeps ==
  ASSUME KInv, NEW j \in Jobs, Abort(j) PROVE \A k \in Jobs : Kept(k)'
<1>1. PICK ok \in BOOLEAN : Abort(j)!(ok)
  BY DEF Abort
<1> DEFINE w == [worker[j] EXCEPT !.pc = "done"]
           upd == [status |-> "failed"]
<1>2. /\ w.ran = worker[j].ran /\ w.input = worker[j].input
      /\ worker[j].pc # "none" /\ worker[j].pc \in Alive
  BY <1>1 DEF KInv, IInv, TypeOK, Workers, Alive
<1>3. Plain(upd)
  BY DEF Plain
<1>4. faults' = 0 => faults = 0 /\ ok
  <2>1. CASE Pay(Cost(ok))
    BY <2>1, PayIntact, CostType, CostZero DEF KInv, IInv
  <2>2. CASE Pay(1)
    BY <2>2, PayIntact DEF KInv, IInv
  <2>3. QED
    BY <1>1, <2>1, <2>2
<1>5. /\ worker' = [worker EXCEPT ![j] = w] /\ SetJob(j, upd, ok)
      /\ UNCHANGED <<evicted, askedAt>>
  BY <1>1
<1> HIDE DEF w, upd
<1>6. QED
  BY <1>2, <1>3, <1>4, <1>5, WriteKeeps

(***************************************************************************)
(* A tool starts only if the table shows no cancel: so none was accepted,  *)
(* and there is a tool left to count.                                      *)
(***************************************************************************)
LEMMA StartToolKeeps ==
  ASSUME KInv, NEW j \in Jobs, StartTool(j) PROVE \A k \in Jobs : Kept(k)'
<1>1. PICK readOk \in BOOLEAN : StartTool(j)!(readOk)
  BY DEF StartTool
<1>2. TypeOK /\ worker' = [worker EXCEPT ![j].pc = "exec", ![j].ran = @ + 1]
  BY <1>1 DEF KInv, IInv
<1>3. /\ worker'[j].ran = worker[j].ran + 1
      /\ worker'[j].input = worker[j].input
      /\ \A k \in Jobs \ {j} : worker'[k] = worker[k]
  BY <1>2 DEF TypeOK, Workers
<1>4. worker[j].pc = "check" /\ worker[j].ran # Steps
  BY <1>1 DEF KInv, IInv, ToolsLeft
<1>5. worker[j].ran \in 0 .. Steps /\ askedAt[j] \in 0 .. NotAsked
  BY <1>2 DEF TypeOK, Workers
<1>6. UNCHANGED <<db, evicted, askedAt>>
  BY <1>1
<1>7. ASSUME NEW k \in Jobs, Intact(k)', worker'[k].pc # "none"
      PROVE  /\ db'[k].status # "absent"
             /\ worker'[k].input # NoSession =>
                  db'[k].payload = worker'[k].input
             /\ worker'[k].ran <= askedAt'[k]
             /\ askedAt'[k] # NotAsked /\ worker'[k].pc \in Alive =>
                  db'[k].cancel
  <2>1. faults = 0 /\ readOk
    BY <1>1, <1>2, <1>7, PayIntact, CostType, CostZero DEF Intact
  <2>2. Intact(k) /\ Kept(k)
    BY <1>6, <1>7, <2>1 DEF Intact, KInv
  <2>3. CASE k = j
    <3>1. ~ db[j].cancel
      BY <1>1, <2>1 DEF SeesCancel
    <3>2. askedAt[j] = NotAsked
      BY <1>4, <2>2, <2>3, <3>1 DEF Kept, Alive
    <3>3. worker[j].ran + 1 <= askedAt[j]
      BY <1>4, <1>5, <3>2, StepsAssumption DEF NotAsked
    <3>4. QED
      BY <1>3, <1>4, <1>6, <2>2, <2>3, <3>2, <3>3 DEF Kept
  <2>4. CASE k # j
    BY <1>3, <1>6, <1>7, <2>2, <2>4 DEF Kept
  <2>5. QED
    BY <2>3, <2>4
<1>8. QED
  BY <1>7 DEF Kept, NotAsked

LEMMA WrapUpKeeps ==
  ASSUME KInv, NEW j \in Jobs, WrapUp(j) PROVE \A k \in Jobs : Kept(k)'
<1>1. /\ worker' = [worker EXCEPT ![j].pc = "report"] /\ worker[j].pc = "wrap"
      /\ UNCHANGED <<db, evicted, askedAt, faults>>
  BY DEF WrapUp
<1>2. \A k \in Jobs : /\ worker'[k].ran = worker[k].ran
                      /\ worker'[k].input = worker[k].input
                      /\ worker'[k].pc # "none" => worker[k].pc # "none"
                      /\ worker'[k].pc \in Alive => worker[k].pc \in Alive
  BY <1>1 DEF KInv, IInv, TypeOK, Workers, Alive
<1>3. QED
  BY <1>1, <1>2 DEF KInv, Kept, Intact, NotAsked

LEMMA CrashKeeps == ASSUME KInv, Crash PROVE \A k \in Jobs : Kept(k)'
<1>1. UNCHANGED <<db, evicted, askedAt, faults>>
  BY DEF Crash
<1>2. \A k \in Jobs : /\ worker'[k].ran = worker[k].ran
                      /\ worker'[k].input = worker[k].input
                      /\ worker'[k].pc # "none" => worker[k].pc # "none"
                      /\ worker'[k].pc \notin Alive
  BY DEF Crash, KInv, IInv, TypeOK, Workers, Alive
<1>3. QED
  BY <1>1, <1>2 DEF KInv, Kept, Intact, NotAsked

LEMMA RejectKeeps ==
  ASSUME KInv, NEW j \in Jobs, Reject(j) PROVE \A k \in Jobs : Kept(k)'
<1>1. PICK ok \in BOOLEAN : Reject(j)!(ok)
  BY DEF Reject
<1> DEFINE upd == [status |-> "failed"]
<1>2. SetJob(j, upd, ok) /\ Plain(upd)
  BY <1>1 DEF Plain
<1>3. TypeOK /\ worker[j] = Idle /\ askedAt[j] = NotAsked
      /\ db[j] = NoDbRow
  BY <1>1 DEF KInv, IInv, UnusedIsClean
<1>4. /\ worker'[j].ran = 0 /\ worker'[j].input = NoSession
      /\ worker'[j].pc \notin Alive
      /\ \A k \in Jobs \ {j} : worker'[k] = worker[k] /\ db'[k] = db[k]
  BY <1>1, <1>2, <1>3, SetJobOthers DEF TypeOK, Workers, Idle, Alive
<1>5. UNCHANGED <<evicted, askedAt>>
  BY <1>1
<1>6. ASSUME ok PROVE db'[j].status # "absent"
  BY <1>2, <1>3, <1>6, EmptyRows DEF SetJob, Upsert, Put, NoDbRow, FreshDbRow,
     TypeOK
<1>7. faults' = 0 => faults = 0 /\ ok
  BY <1>1, <1>3, PayIntact, CostType, CostZero
<1>8. 0 <= askedAt[j]
  BY <1>3, StepsAssumption DEF NotAsked
<1>9. QED
  BY <1>3, <1>4, <1>5, <1>6, <1>7, <1>8 DEF KInv, Kept, Intact, NotAsked

LEMMA LaunchKeeps ==
  ASSUME KInv, NEW j \in Jobs, NEW s \in Sessions, Launch(j, s)
  PROVE  \A k \in Jobs : Kept(k)'
<1> DEFINE memOut == Surplus(InMem, memOlder)
<1>1. PICK okPrune \in BOOLEAN, okRow \in BOOLEAN, okPayload \in BOOLEAN :
        Launch(j, s)!(okPrune, okRow, okPayload)
  BY DEF Launch
<1> DEFINE dbOut == IF memOut # {} /\ okPrune THEN Surplus(InDb, dbOlder)
                    ELSE {}
           row(r) == IF okRow THEN Upsert(r, [status |-> "queued"]) ELSE r
           paid(r) == IF okPayload THEN Upsert(r, [payload |-> s]) ELSE r
<1>2. /\ db'[j] = paid(row(NoDbRow))
      /\ \A k \in Jobs \ {j} : db'[k] = IF k \in dbOut THEN NoDbRow ELSE db[k]
  BY <1>1
<1>3. TypeOK /\ askedAt[j] = NotAsked /\ worker[j].pc = "none"
  BY <1>1 DEF KInv, IInv, UnusedIsClean
<1>4. /\ worker'[j] = Spawned(s)
      /\ \A k \in Jobs \ {j} : worker'[k] = worker[k]
  BY <1>1, <1>3 DEF TypeOK
<1>5. evicted' = evicted \cup memOut \cup dbOut /\ askedAt' = askedAt
  BY <1>1
<1>6. faults' = 0 => faults = 0 /\ okRow /\ okPayload
  <2>1. Cost(okPrune) \in Nat /\ Cost(okRow) \in Nat /\ Cost(okPayload) \in Nat
    BY CostType
  <2>2. faults' = 0 =>
          faults = 0 /\ Cost(okPrune) + Cost(okRow) + Cost(okPayload) = 0
    BY <1>1, <1>3, <2>1, PayIntact
  <2>3. QED
    BY <2>1, <2>2, CostZero
<1>7. ASSUME okRow, okPayload
      PROVE  db'[j].status # "absent" /\ db'[j].payload = s
  BY <1>2, <1>7 DEF Upsert, Put, NoDbRow, FreshDbRow
<1>8. 0 <= askedAt[j]
  BY <1>3, StepsAssumption DEF NotAsked
<1> HIDE DEF memOut, dbOut
<1>9. Kept(j)'
  BY <1>3, <1>4, <1>5, <1>6, <1>7, <1>8 DEF Kept, Intact, Spawned, NotAsked
<1>10. ASSUME NEW k \in Jobs \ {j} PROVE Kept(k)'
  BY <1>2, <1>4, <1>5, <1>6 DEF KInv, Kept, Intact, NotAsked
<1>11. QED
  BY <1>9, <1>10

LEMMA CancelKeeps ==
  ASSUME KInv, NEW j \in Jobs, Cancel(j) PROVE \A k \in Jobs : Kept(k)'
<1>1. PICK readOk \in BOOLEAN, ok \in BOOLEAN : Cancel(j)!(readOk, ok)
  BY DEF Cancel
<1> DEFINE status == CancelReads(j, readOk)
<1>2. TypeOK /\ IInv /\ worker' = worker /\ evicted' = evicted
  BY <1>1 DEF KInv, IInv
<1>3. PICK upd : /\ SetJob(j, upd, ok) /\ Plain(upd) /\ "cancel" \in DOMAIN upd
  <2>1. Plain([cancel |-> TRUE])
    BY DEF Plain
  <2>2. CancelStatus(status) # "absent"
    BY DEF CancelStatus, CancelReads
  <2>3. Plain([cancel |-> TRUE, status |-> CancelStatus(status)])
    BY <2>2 DEF Plain
  <2>4. QED
    BY <1>1, <2>1, <2>3
<1>4. /\ \A k \in Jobs \ {j} : askedAt'[k] = askedAt[k]
      /\ askedAt'[j] = askedAt[j]
         \/ (askedAt[j] = NotAsked /\ askedAt'[j] = worker[j].ran)
  BY <1>1, <1>2 DEF TypeOK
<1>5. faults' = 0 => faults = 0 /\ ok
  <2>1. Cost(readOk) \in Nat /\ Cost(ok) \in Nat
    BY CostType
  <2>2. faults' = 0 => faults = 0 /\ Cost(readOk) + Cost(ok) = 0
    BY <1>1, <1>2, <2>1, PayIntact
  <2>3. QED
    BY <2>1, <2>2, CostZero
<1>6. ASSUME NEW k \in Jobs \ {j} PROVE Kept(k)'
  <2>1. db'[k] = db[k]
    BY <1>2, <1>3, SetJobOthers
  <2>2. QED
    BY <1>2, <1>4, <1>5, <2>1 DEF KInv, Kept, Intact, NotAsked
<1>7. Kept(j)'
  <2>1. SUFFICES ASSUME Intact(j)', worker'[j].pc # "none"
                 PROVE  /\ db'[j].status # "absent"
                        /\ worker'[j].input # NoSession =>
                             db'[j].payload = worker'[j].input
                        /\ worker'[j].ran <= askedAt'[j]
                        /\ askedAt'[j] # NotAsked /\ worker'[j].pc \in Alive =>
                             db'[j].cancel
    BY DEF Kept, NotAsked
  <2>2. Intact(j) /\ ok = TRUE /\ worker[j].pc # "none"
    BY <1>2, <1>5, <2>1 DEF Intact
  <2>3. /\ db[j].status # "absent"
        /\ worker[j].input # NoSession => db[j].payload = worker[j].input
        /\ worker[j].ran <= askedAt[j]
    BY <2>2 DEF KInv, Kept
  <2>4. /\ db'[j].status # "absent" /\ db'[j].payload = db[j].payload
        /\ db'[j].cancel
    BY <1>2, <1>3, <2>2, <2>3, SetJobKeeps
  <2>5. worker[j].ran <= askedAt'[j]
    <3>1. worker[j].ran \in Nat
      BY <1>2, StepsAssumption DEF TypeOK, Workers
    <3>2. QED
      BY <1>4, <2>3, <3>1
  <2>6. QED
    BY <1>2, <2>3, <2>4, <2>5
<1>8. QED
  BY <1>6, <1>7

LEMMA StepKeeps == KInv /\ [Next]_vars => KInv'
<1> SUFFICES ASSUME KInv, [Next]_vars PROVE KInv'
  OBVIOUS
<1>0. IInv'
  BY StepInv DEF KInv
<1>1. ASSUME NEW j \in Jobs, NEW s \in Sessions, Start(j, s)
      PROVE  \A k \in Jobs : Kept(k)'
  BY <1>1, LaunchKeeps DEF Start
<1>2. ASSUME NEW j \in Jobs, Reject(j) PROVE \A k \in Jobs : Kept(k)'
  BY <1>2, RejectKeeps
<1>3. ASSUME NEW old \in Jobs, NEW j \in Jobs, Retry(old, j)
      PROVE  \A k \in Jobs : Kept(k)'
  <2>1. db[old].payload \in Sessions
    BY <1>3 DEF Retry, KInv, IInv, TypeOK, DbRows
  <2>2. QED
    BY <1>3, <2>1, LaunchKeeps DEF Retry
<1>4. ASSUME NEW j \in Jobs, Cancel(j) PROVE \A k \in Jobs : Kept(k)'
  BY <1>4, CancelKeeps
<1>5. ASSUME NEW j \in Jobs, WorkerStep(j) PROVE \A k \in Jobs : Kept(k)'
  BY <1>5, BeginKeeps, StartToolKeeps, SkipToolKeeps, EndToolKeeps, WrapUpKeeps,
     ReportKeeps DEF WorkerStep
<1>6. ASSUME NEW j \in Jobs, Abort(j) PROVE \A k \in Jobs : Kept(k)'
  BY <1>6, AbortKeeps
<1>7. ASSUME UNCHANGED <<db, worker, evicted, askedAt, faults>>
      PROVE  \A k \in Jobs : Kept(k)'
  BY <1>7 DEF KInv, Kept, Intact, NotAsked
<1>8. CASE Crash
  BY <1>0, <1>8, CrashKeeps DEF KInv
<1>9. ASSUME NEW s \in Sessions, InlineRun(s) \/ ReviewPatch(s) \/ Export(s)
      PROVE  \A k \in Jobs : Kept(k)'
  BY <1>7, <1>9 DEF InlineRun, ReviewPatch, Export
<1>10. CASE UNCHANGED vars
  BY <1>0, <1>7, <1>10 DEF vars, KInv
<1>11. QED
  BY <1>0, <1>1, <1>2, <1>3, <1>4, <1>5, <1>6, <1>8, <1>9, <1>10
     DEF Next, KInv

LEMMA InitKeeps == Init => KInv
BY InitInv DEF Init, Idle, KInv, Kept

LEMMA RecordHolds == Spec => []KInv
BY InitKeeps, StepKeeps, PTL DEF Spec

(***************************************************************************)
(* No tool of a run begins after its cancel was accepted, for a job whose  *)
(* record is intact (cancel_pipeline, _run_or_cancel).                     *)
(***************************************************************************)
THEOREM CancelIsHonoured == Spec => []CancelStopsTools
<1>1. KInv => CancelStopsTools
  <2> SUFFICES ASSUME KInv, NEW j \in Jobs, Intact(j)
               PROVE  worker[j].ran <= askedAt[j]
    BY DEF CancelStopsTools
  <2>1. CASE worker[j].pc = "none"
    <3>1. worker[j].ran = 0 /\ askedAt[j] = NotAsked
      BY <2>1 DEF KInv, IInv, UnusedIsClean, Idle
    <3>2. QED
      BY <3>1, StepsAssumption DEF NotAsked
  <2>2. CASE worker[j].pc # "none"
    BY <2>2 DEF KInv, Kept
  <2>3. QED
    BY <2>1, <2>2
<1>2. QED
  BY <1>1, RecordHolds, PTL

(***************************************************************************)
(* Every run whose record is intact can be retried with the input it ran   *)
(* on (start_pipeline, retry_pipeline, _upsert_pipeline_job_db).           *)
(***************************************************************************)
THEOREM RetryKeepsInput == Spec => []RetryPossible
<1>1. KInv => RetryPossible
  BY DEF KInv, IInv, UnusedIsClean, Idle, Kept, RetryPossible
<1>2. QED
  BY <1>1, RecordHolds, PTL
-----------------------------------------------------------------------------
(***************************************************************************)
(* The third inductive invariant is about the cause of an outcome.  While  *)
(* the thread lives the table shows a cancel only if one was accepted, and *)
(* no later than now; a run that ends as canceled was asked to while tools *)
(* were left, and one that does not has run them all.                      *)
(***************************************************************************)
Cause(j) ==
  /\ worker[j].pc \in Alive =>
       /\ db[j].cancel => askedAt[j] # NotAsked
       /\ askedAt[j] # NotAsked => askedAt[j] <= worker[j].ran
  /\ worker[j].canceled => askedAt[j] < Steps

Course(j) ==
  /\ worker[j].pc \in {"spawned", "check", "exec"} => ~ worker[j].canceled
  /\ worker[j].pc \in {"wrap", "report"} /\ ~ worker[j].canceled =>
       worker[j].ran = Steps
  /\ worker[j].pc # "done" => mem[j].result = "none" /\ db[j].result = "none"

Outcome(j) ==
  Intact(j) /\ worker[j].pc = "done" /\ View(j).result # "none" =>
    /\ db[j].status \in Terminal /\ mem[j].status \in {"absent", db[j].status}
    /\ db[j].status = "canceled" <=> askedAt[j] < Steps

Trace(j) == Cause(j) /\ Course(j) /\ Outcome(j)

CInv == KInv /\ \A j \in Jobs : Trace(j)

\* A canceled run stays one, with its input and its cause.
Lasting(j) ==
  worker[j].canceled => /\ worker'[j].canceled
                        /\ worker'[j].input = worker[j].input
                        /\ askedAt[j] < Steps => askedAt'[j] < Steps

(***************************************************************************)
(* What an update leaves alone.                                            *)
(***************************************************************************)
LEMMA SetJobLeaves ==
  ASSUME TypeOK, NEW j \in Jobs, NEW upd, NEW ok \in BOOLEAN, SetJob(j, upd, ok)
  PROVE  /\ "cancel" \notin DOMAIN upd => (db'[j].cancel => db[j].cancel)
         /\ "result" \notin DOMAIN upd =>
              /\ mem'[j].result = mem[j].result
              /\ db'[j].result \in {"none", db[j].result}
         /\ "status" \notin DOMAIN upd =>
              /\ mem'[j].status = mem[j].status
              /\ db[j].status # "absent" => db'[j].status = db[j].status
         /\ \A k \in Jobs \ {j} : mem'[k] = mem[k] /\ db'[k] = db[k]
<1>1. /\ mem[j] \in MemRows /\ db[j] \in DbRows
      /\ mem'[j] = Put(mem[j], upd)
      /\ db'[j] \in {db[j], Upsert(db[j], upd)}
  BY DEF SetJob, TypeOK
<1>2. "result" \notin DOMAIN upd => mem'[j].result = mem[j].result
  BY <1>1 DEF Put, MemRows
<1>3. "status" \notin DOMAIN upd => mem'[j].status = mem[j].status
  BY <1>1 DEF Put, MemRows
<1>4. ASSUME NEW r \in DbRows
      PROVE  /\ "cancel" \notin DOMAIN upd => Put(r, upd).cancel = r.cancel
             /\ "result" \notin DOMAIN upd => Put(r, upd).result = r.result
             /\ "status" \notin DOMAIN upd => Put(r, upd).status = r.status
  BY DEF Put, DbRows
<1>5. FreshDbRow \in DbRows /\ FreshDbRow.result = "none" /\ FreshDbRow.cancel = FALSE
  BY EmptyRows DEF FreshDbRow, NoDbRow
<1>6. "cancel" \notin DOMAIN upd => (db'[j].cancel => db[j].cancel)
  BY <1>1, <1>4, <1>5 DEF Upsert
<1>7. "result" \notin DOMAIN upd => db'[j].result \in {"none", db[j].result}
  BY <1>1, <1>4, <1>5 DEF Upsert
<1>8. "status" \notin DOMAIN upd /\ db[j].status # "absent" =>
        db'[j].status = db[j].status
  BY <1>1, <1>4 DEF Upsert
<1>9. \A k \in Jobs \ {j} : mem'[k] = mem[k] /\ db'[k] = db[k]
  BY DEF SetJob, TypeOK
<1> QED
  BY <1>2, <1>3, <1>6, <1>7, <1>8, <1>9

\* A job that a step does not touch.
LEMMA SameTrace ==
  ASSUME NEW k \in Jobs, Trace(k), mem'[k] = mem[k], db'[k] = db[k],
         worker'[k] = worker[k], askedAt'[k] = askedAt[k],
         Intact(k)' => Intact(k)
  PROVE  Trace(k)' /\ Lasting(k)
<1>1. View(k)' = View(k)
  BY DEF View
<1>2. Cause(k)'
  BY DEF Trace, Cause, NotAsked
<1>3. Course(k)'
  BY DEF Trace, Course
<1>4. Outcome(k)'
  BY <1>1 DEF Trace, Outcome
<1>5. Lasting(k)
  BY DEF Lasting
<1> QED
  BY <1>2, <1>3, <1>4, <1>5 DEF Trace

(***************************************************************************)
(* A write of the thread that is not its result.                           *)
(***************************************************************************)
LEMMA WriteTrace ==
  ASSUME CInv, NEW j \in Jobs, NEW upd, NEW ok \in BOOLEAN, SetJob(j, upd, ok),
         "cancel" \notin DOMAIN upd, "result" \notin DOMAIN upd,
         faults' = 0 => faults = 0, UNCHANGED <<evicted, askedAt>>,
         NEW w \in Workers, worker' = [worker EXCEPT ![j] = w],
         w.ran = worker[j].ran, w.input = worker[j].input,
         worker[j].canceled => w.canceled, worker[j].pc # "done",
         w.pc \in Alive => worker[j].pc \in Alive,
         w.canceled => askedAt[j] < Steps,
         w.pc \in {"spawned", "check", "exec"} => ~ w.canceled,
         w.pc \in {"wrap", "report"} /\ ~ w.canceled => w.ran = Steps
  PROVE  \A k \in Jobs : Trace(k)' /\ Lasting(k)
<1>1. TypeOK /\ Trace(j)
  BY DEF CInv, KInv, IInv
<1>2. worker'[j] = w /\ \A k \in Jobs \ {j} : worker'[k] = worker[k]
  BY <1>1 DEF TypeOK
<1>3. mem[j].result = "none" /\ db[j].result = "none"
  BY <1>1 DEF Trace, Course
<1>4. mem'[j].result = "none" /\ db'[j].result = "none"
  BY <1>1, <1>3, SetJobLeaves
<1>5. db'[j].cancel => db[j].cancel
  BY <1>1, SetJobLeaves
<1>6. Cause(j)'
  BY <1>1, <1>2, <1>5 DEF Trace, Cause, NotAsked
<1>7. Course(j)'
  BY <1>2, <1>4 DEF Course
<1>8. Outcome(j)'
  BY <1>4 DEF Outcome, View
<1>9. Lasting(j)
  BY <1>2 DEF Lasting
<1>10. ASSUME NEW k \in Jobs \ {j} PROVE Trace(k)' /\ Lasting(k)
  <2>1. mem'[k] = mem[k] /\ db'[k] = db[k]
    BY <1>1, SetJobLeaves
  <2>2. Intact(k)' => Intact(k)
    BY DEF Intact
  <2> QED
    BY <1>2, <2>1, <2>2, SameTrace DEF CInv
<1> QED
  BY <1>6, <1>7, <1>8, <1>9, <1>10 DEF Trace

LEMMA FaultsGrow ==
  ASSUME TypeOK, NEW c \in Nat, Pay(c) PROVE faults' = 0 => faults = 0
BY PayIntact

LEMMA BeginTrace ==
  ASSUME CInv, NEW j \in Jobs, Begin(j) PROVE \A k \in Jobs : Trace(k)' /\ Lasting(k)
<1>1. PICK ok \in BOOLEAN : Begin(j)!(ok)
  BY DEF Begin
<1> DEFINE w == [worker[j] EXCEPT !.pc = "check"]
           upd == [status |-> "running"]
<1>2. TypeOK /\ Trace(j)
  BY DEF CInv, KInv, IInv
<1>3. /\ w \in Workers /\ w.pc = "check" /\ w.ran = worker[j].ran
      /\ w.input = worker[j].input /\ w.canceled = worker[j].canceled
      /\ worker[j].pc = "spawned"
  BY <1>1, <1>2 DEF TypeOK, Workers, Alive
<1>4. faults' = 0 => faults = 0
  BY <1>1, <1>2, FaultsGrow, CostType
<1>5. ~ worker[j].canceled
  BY <1>2, <1>3 DEF Trace, Course
<1>6. /\ worker' = [worker EXCEPT ![j] = w] /\ SetJob(j, upd, ok)
      /\ UNCHANGED <<evicted, askedAt>>
      /\ "cancel" \notin DOMAIN upd /\ "result" \notin DOMAIN upd
  BY <1>1
<1> HIDE DEF w, upd
<1> QED
  BY <1>3, <1>4, <1>5, <1>6, WriteTrace DEF Alive

LEMMA SkipToolTrace ==
  ASSUME CInv, NEW j \in Jobs, SkipTool(j)
  PROVE  \A k \in Jobs : Trace(k)' /\ Lasting(k)
<1>1. PICK readOk \in BOOLEAN, ok \in BOOLEAN : SkipTool(j)!(readOk, ok)
  BY DEF SkipTool
<1> DEFINE w == [worker[j] EXCEPT !.pc = "wrap", !.canceled = TRUE]
           upd == Progress(j, readOk)
<1>2. TypeOK /\ Trace(j) /\ ToolsLeft
  BY DEF CInv, KInv, IInv
<1>3. /\ w \in Workers /\ w.pc = "wrap" /\ w.ran = worker[j].ran
      /\ w.input = worker[j].input /\ w.canceled = TRUE
      /\ worker[j].pc = "check"
  BY <1>1, <1>2 DEF TypeOK, Workers, Alive
<1>4. faults' = 0 => faults = 0
  <2>1. Cost(readOk) + Cost(ok) \in Nat
    BY CostType
  <2> QED
    BY <1>1, <1>2, <2>1, FaultsGrow
<1>5. askedAt[j] < Steps
  <2>1. db[j].cancel
    BY <1>1 DEF SeesCancel
  <2>2. askedAt[j] <= worker[j].ran
    BY <1>2, <1>3, <2>1 DEF Trace, Cause, Alive
  <2>3. worker[j].ran \in 0 .. Steps /\ worker[j].ran # Steps
    BY <1>2, <1>3 DEF TypeOK, Workers, ToolsLeft
  <2>4. askedAt[j] \in Nat
    BY <1>2, StepsAssumption DEF TypeOK, NotAsked
  <2> QED
    BY <2>2, <2>3, <2>4, StepsAssumption
<1>6. /\ worker' = [worker EXCEPT ![j] = w] /\ SetJob(j, upd, ok)
      /\ UNCHANGED <<evicted, askedAt>>
  BY <1>1
<1>7. "cancel" \notin DOMAIN upd /\ "result" \notin DOMAIN upd
  BY DEF Progress
<1> HIDE DEF w, upd
<1> QED
  BY <1>3, <1>4, <1>5, <1>6, <1>7, WriteTrace DEF Alive

LEMMA EndToolTrace ==
  ASSUME CInv, NEW j \in Jobs, EndTool(j)
  PROVE  \A k \in Jobs : Trace(k)' /\ Lasting(k)
<1>1. PICK outcome \in {"PASS", "FAIL", "SKIP"}, readOk \in BOOLEAN,
           ok \in BOOLEAN : EndTool(j)!(outcome, readOk, ok)
  BY DEF EndTool
<1> DEFINE w == [worker[j] EXCEPT
                   !.pc = IF worker[j].ran = Steps THEN "wrap" ELSE "check",
                   !.failed = @ \/ outcome = "FAIL"]
           upd == Progress(j, readOk)
<1>2. TypeOK /\ Trace(j)
  BY DEF CInv, KInv, IInv
<1>3. /\ w \in Workers /\ w.pc \in {"wrap", "check"} /\ w.ran = worker[j].ran
      /\ w.input = worker[j].input /\ w.canceled = worker[j].canceled
      /\ worker[j].pc = "exec" /\ (w.pc = "wrap" => w.ran = Steps)
  BY <1>1, <1>2 DEF TypeOK, Workers, Alive
<1>4. faults' = 0 => faults = 0
  <2>1. Cost(readOk) + Cost(ok) \in Nat
    BY CostType
  <2> QED
    BY <1>1, <1>2, <2>1, FaultsGrow
<1>5. ~ worker[j].canceled
  BY <1>2, <1>3 DEF Trace, Course
<1>6. /\ worker' = [worker EXCEPT ![j] = w] /\ SetJob(j, upd, ok)
      /\ UNCHANGED <<evicted, askedAt>>
  BY <1>1
<1>7. "cancel" \notin DOMAIN upd /\ "result" \notin DOMAIN upd
  BY DEF Progress
<1> HIDE DEF w, upd
<1> QED
  BY <1>3, <1>4, <1>5, <1>6, <1>7, WriteTrace DEF Alive

\* Abort and Reject: the thread ends, or never was, without a result.
LEMMA FailedTrace ==
  ASSUME CInv, NEW j \in Jobs, NEW ok \in BOOLEAN,
         SetJob(j, [status |-> "failed"], ok), worker[j].pc # "done",
         worker' = [worker EXCEPT ![j].pc = "done"],
         faults' = 0 => faults = 0, UNCHANGED <<evicted, askedAt>>
  PROVE  \A k \in Jobs : Trace(k)' /\ Lasting(k)
<1> DEFINE w == [worker[j] EXCEPT !.pc = "done"]
           upd == [status |-> "failed"]
<1>1. TypeOK /\ Trace(j)
  BY DEF CInv, KInv, IInv
<1>2. /\ w \in Workers /\ w.pc = "done" /\ w.ran = worker[j].ran
      /\ w.input = worker[j].input /\ w.canceled = worker[j].canceled
  BY <1>1 DEF TypeOK, Workers
<1>3. worker[j].canceled => askedAt[j] < Steps
  BY <1>1 DEF Trace, Cause
<1>4. /\ worker' = [worker EXCEPT ![j] = w] /\ SetJob(j, upd, ok)
      /\ "cancel" \notin DOMAIN upd /\ "result" \notin DOMAIN upd
  OBVIOUS
<1> HIDE DEF w, upd
<1>5. /\ w \in Workers /\ w.ran = worker[j].ran /\ w.input = worker[j].input
      /\ worker[j].canceled => w.canceled
      /\ w.pc \in Alive => worker[j].pc \in Alive
      /\ w.canceled => askedAt[j] < Steps
      /\ w.pc \in {"spawned", "check", "exec"} => ~ w.canceled
      /\ w.pc \in {"wrap", "report"} /\ ~ w.canceled => w.ran = Steps
  BY <1>2, <1>3 DEF Alive
<1> QED
  BY <1>4, <1>5, WriteTrace

LEMMA AbortTrace ==
  ASSUME CInv, NEW j \in Jobs, Abort(j) PROVE \A k \in Jobs : Trace(k)' /\ Lasting(k)
<1>1. PICK ok \in BOOLEAN : Abort(j)!(ok)
  BY DEF Abort
<1>2. TypeOK
  BY DEF CInv, KInv, IInv
<1>3. faults' = 0 => faults = 0
  BY <1>1, <1>2, FaultsGrow, CostType
<1> QED
  BY <1>1, <1>3, FailedTrace

LEMMA RejectTrace ==
  ASSUME CInv, NEW j \in Jobs, Reject(j) PROVE \A k \in Jobs : Trace(k)' /\ Lasting(k)
<1>1. PICK ok \in BOOLEAN : Reject(j)!(ok)
  BY DEF Reject
<1>2. TypeOK
  BY DEF CInv, KInv, IInv
<1>3. faults' = 0 => faults = 0
  BY <1>1, <1>2, FaultsGrow, CostType
<1> QED
  BY <1>1, <1>3, FailedTrace
\* The two steps of the thread that write neither store.
LEMMA ThreadTrace ==
  ASSUME CInv, NEW j \in Jobs, NEW w \in Workers,
         worker' = [worker EXCEPT ![j] = w],
         UNCHANGED <<mem, db, evicted, askedAt>>, faults' = 0 => faults = 0,
         worker[j].pc \in Alive, w.pc \in Alive,
         worker[j].ran <= w.ran, w.input = worker[j].input,
         w.canceled = worker[j].canceled,
         w.pc \in {"spawned", "check", "exec"} => ~ w.canceled,
         w.pc \in {"wrap", "report"} /\ ~ w.canceled => w.ran = Steps
  PROVE  \A k \in Jobs : Trace(k)' /\ Lasting(k)
<1>1. TypeOK /\ Trace(j)
  BY DEF CInv, KInv, IInv
<1>2. worker'[j] = w /\ \A k \in Jobs \ {j} : worker'[k] = worker[k]
  BY <1>1 DEF TypeOK
<1>3. Cause(j)'
  <2>1. /\ db[j].cancel => askedAt[j] # NotAsked
        /\ askedAt[j] # NotAsked => askedAt[j] <= worker[j].ran
        /\ worker[j].canceled => askedAt[j] < Steps
    BY <1>1 DEF Trace, Cause
  <2>2. askedAt[j] \in Nat /\ worker[j].ran \in Nat /\ w.ran \in Nat
    BY <1>1, StepsAssumption DEF TypeOK, NotAsked, Workers
  <2>3. askedAt[j] # NotAsked => askedAt[j] <= w.ran
    BY <2>1, <2>2
  <2> QED
    BY <1>2, <2>1, <2>3 DEF Cause, NotAsked
<1>4. Course(j)'
  BY <1>1, <1>2 DEF Trace, Course, Alive
<1>5. Outcome(j)'
  BY <1>2 DEF Outcome, Alive
<1>6. Lasting(j)
  BY <1>2 DEF Lasting
<1>7. ASSUME NEW k \in Jobs \ {j} PROVE Trace(k)' /\ Lasting(k)
  <2>1. Intact(k)' => Intact(k)
    BY DEF Intact
  <2> QED
    BY <1>2, <2>1, SameTrace DEF CInv
<1> QED
  BY <1>3, <1>4, <1>5, <1>6, <1>7 DEF Trace

LEMMA StartToolTrace ==
  ASSUME CInv, NEW j \in Jobs, StartTool(j)
  PROVE  \A k \in Jobs : Trace(k)' /\ Lasting(k)
<1>1. PICK readOk \in BOOLEAN : StartTool(j)!(readOk)
  BY DEF StartTool
<1> DEFINE w == [worker[j] EXCEPT !.pc = "exec", !.ran = @ + 1]
<1>2. TypeOK /\ Trace(j) /\ ToolsLeft
  BY DEF CInv, KInv, IInv
<1>3. worker[j].ran \in 0 .. Steps /\ worker[j].ran # Steps /\ worker[j].pc = "check"
  BY <1>1, <1>2 DEF TypeOK, Workers, ToolsLeft
<1>4. worker[j].ran + 1 \in 0 .. Steps /\ worker[j].ran <= worker[j].ran + 1
  BY <1>3, StepsAssumption
<1>5. /\ w \in Workers /\ w.pc = "exec" /\ w.ran = worker[j].ran + 1
      /\ w.input = worker[j].input /\ w.canceled = worker[j].canceled
  BY <1>2, <1>4 DEF TypeOK, Workers, Alive
<1>6. ~ worker[j].canceled
  BY <1>2, <1>3 DEF Trace, Course
<1>7. faults' = 0 => faults = 0
  BY <1>1, <1>2, FaultsGrow, CostType
<1>8. worker' = [worker EXCEPT ![j] = w] /\ UNCHANGED <<mem, db, evicted, askedAt>>
  BY <1>1
<1> HIDE DEF w
<1> QED
  BY <1>3, <1>4, <1>5, <1>6, <1>7, <1>8, ThreadTrace DEF Alive

LEMMA WrapUpTrace ==
  ASSUME CInv, NEW j \in Jobs, WrapUp(j) PROVE \A k \in Jobs : Trace(k)' /\ Lasting(k)
<1> DEFINE w == [worker[j] EXCEPT !.pc = "report"]
<1>1. TypeOK /\ Trace(j) /\ worker[j].pc = "wrap"
  BY DEF CInv, KInv, IInv, WrapUp
<1>2. /\ w \in Workers /\ w.pc = "report" /\ w.ran = worker[j].ran
      /\ w.input = worker[j].input /\ w.canceled = worker[j].canceled
  BY <1>1 DEF TypeOK, Workers, Alive
<1>3. ~ worker[j].canceled => worker[j].ran = Steps
  BY <1>1 DEF Trace, Course
<1>4. worker[j].ran <= worker[j].ran
  BY <1>1 DEF TypeOK, Workers
<1>5. /\ worker' = [worker EXCEPT ![j] = w]
      /\ UNCHANGED <<mem, db, evicted, askedAt, faults>>
  BY DEF WrapUp
<1> HIDE DEF w
<1> QED
  BY <1>1, <1>2, <1>3, <1>4, <1>5, ThreadTrace DEF Alive

(***************************************************************************)
(* The result of a run.  Without a failed write both stores take it.       *)
(***************************************************************************)
LEMMA ReportTrace ==
  ASSUME CInv, NEW j \in Jobs, Report(j) PROVE \A k \in Jobs : Trace(k)' /\ Lasting(k)
<1>1. PICK ok \in BOOLEAN : Report(j)!(ok)
  BY DEF Report
<1> DEFINE overall == Overall(worker[j])
           upd == [status |-> TerminalStatus(overall), result |-> overall]
<1>2. TypeOK /\ Trace(j) /\ Kept(j) /\ worker[j].pc = "report"
  BY <1>1 DEF CInv, KInv, IInv
<1>3. /\ worker'[j].pc = "done" /\ worker'[j].canceled = worker[j].canceled
      /\ worker'[j].input = worker[j].input
      /\ \A k \in Jobs \ {j} : worker'[k] = worker[k]
  BY <1>1, <1>2 DEF TypeOK, Workers
<1>4. SetJob(j, upd, ok) /\ UNCHANGED <<evicted, askedAt>>
  BY <1>1
<1>5. faults' = 0 => faults = 0 /\ ok
  BY <1>1, <1>2, PayIntact, CostType, CostZero
<1>6. overall = "CANCELED" <=> worker[j].canceled
  BY DEF Overall
<1>7. TerminalStatus(overall) = "canceled" <=> worker[j].canceled
  BY <1>6, OverallType DEF TerminalStatus
<1>8. Cause(j)' /\ Course(j)' /\ Lasting(j)
  BY <1>2, <1>3, <1>4 DEF Trace, Cause, Course, Lasting, Alive
<1>9. Outcome(j)'
  <2> SUFFICES ASSUME Intact(j)'
               PROVE  /\ db'[j].status \in Terminal
                      /\ mem'[j].status \in {"absent", db'[j].status}
                      /\ db'[j].status = "canceled" <=> askedAt'[j] < Steps
    BY DEF Outcome
  <2>1. Intact(j) /\ ok = TRUE
    BY <1>4, <1>5 DEF Intact
  <2>2. "status" \in DOMAIN upd /\ upd["status"] = TerminalStatus(overall)
        /\ TerminalStatus(overall) \in Terminal
    BY OverallType, TerminalStatusType
  <2> HIDE DEF upd, overall
  <2>3. mem'[j].status = TerminalStatus(overall)
    BY <1>2, <1>4, <2>2, SetJobStatus
  <2>4. db'[j].status = TerminalStatus(overall)
    <3>1. db' = [db EXCEPT ![j] = Upsert(@, upd)]
      BY <1>4, <2>1 DEF SetJob
    <3>2. \A r \in DbRows : "status" \in DOMAIN r
      BY DEF DbRows
    <3>3. Upsert(db[j], upd).status = upd["status"]
      BY <1>2, <2>2, <3>2, EmptyRows DEF Upsert, Put, TypeOK
    <3> QED
      BY <1>2, <2>2, <3>1, <3>3 DEF TypeOK
  <2>5. worker[j].canceled <=> askedAt[j] < Steps
    <3>1. worker[j].canceled => askedAt[j] < Steps
      BY <1>2 DEF Trace, Cause
    <3>2. ASSUME ~ worker[j].canceled PROVE ~ (askedAt[j] < Steps)
      <4>1. worker[j].ran = Steps
        BY <1>2, <3>2 DEF Trace, Course
      <4>2. worker[j].ran <= askedAt[j]
        BY <1>2, <2>1 DEF Kept
      <4>3. askedAt[j] \in Nat
        BY <1>2, StepsAssumption DEF TypeOK, NotAsked
      <4> QED
        BY <4>1, <4>2, <4>3, StepsAssumption
    <3> QED
      BY <3>1, <3>2
  <2> QED
    BY <1>4, <1>7, <2>2, <2>3, <2>4, <2>5
<1>10. ASSUME NEW k \in Jobs \ {j} PROVE Trace(k)' /\ Lasting(k)
  <2> HIDE DEF upd
  <2>1. mem'[k] = mem[k] /\ db'[k] = db[k]
    BY <1>2, <1>4, SetJobLeaves
  <2>2. Intact(k)' => Intact(k)
    BY <1>4, <1>5 DEF Intact
  <2> QED
    BY <1>3, <1>4, <2>1, <2>2, SameTrace DEF CInv
<1> QED
  BY <1>8, <1>9, <1>10 DEF Trace

LEMMA LaunchTrace ==
  ASSUME CInv, NEW j \in Jobs, NEW s \in Sessions, Launch(j, s)
  PROVE  \A k \in Jobs : Trace(k)' /\ Lasting(k)
<1> DEFINE memOut == Surplus(InMem, memOlder)
<1>1. PICK okPrune \in BOOLEAN, okRow \in BOOLEAN, okPayload \in BOOLEAN :
        Launch(j, s)!(okPrune, okRow, okPayload)
  BY DEF Launch
<1> DEFINE dbOut == IF memOut # {} /\ okPrune THEN Surplus(InDb, dbOlder)
                    ELSE {}
           row(r) == IF okRow THEN Upsert(r, [status |-> "queued"]) ELSE r
           paid(r) == IF okPayload THEN Upsert(r, [payload |-> s]) ELSE r
<1>2. TypeOK /\ worker[j] = Idle /\ askedAt[j] = NotAsked
  BY <1>1 DEF CInv, KInv, IInv, UnusedIsClean
<1>3. /\ mem'[j] = Put(NoMemRow, [status |-> "queued"])
      /\ db'[j] = paid(row(NoDbRow))
      /\ \A k \in Jobs \ {j} :
           /\ mem'[k] = IF k \in memOut THEN NoMemRow ELSE mem[k]
           /\ db'[k] = IF k \in dbOut THEN NoDbRow ELSE db[k]
  BY <1>1
<1>4. /\ worker'[j] = Spawned(s)
      /\ \A k \in Jobs \ {j} : worker'[k] = worker[k]
  BY <1>1, <1>2 DEF TypeOK
<1>5. evicted' = evicted \cup memOut \cup dbOut /\ askedAt' = askedAt
  BY <1>1
<1>6. faults' = 0 => faults = 0
  <2>1. Cost(okPrune) + Cost(okRow) + Cost(okPayload) \in Nat
    BY CostType
  <2> QED
    BY <1>1, <1>2, <2>1, FaultsGrow
<1>7. /\ mem'[j].result = "none" /\ db'[j].result = "none" /\ ~ db'[j].cancel
  <2>1. mem'[j].result = "none"
    BY <1>3 DEF Put, NoMemRow
  <2>2. row(NoDbRow).result = "none" /\ ~ row(NoDbRow).cancel
        /\ row(NoDbRow) \in DbRows
    <3>1. Upsert(NoDbRow, [status |-> "queued"]).result = "none"
          /\ ~ Upsert(NoDbRow, [status |-> "queued"]).cancel
      BY DEF Upsert, Put, NoDbRow, FreshDbRow
    <3>2. Upsert(NoDbRow, [status |-> "queued"]) \in DbRows
      BY StatusFits, EmptyRows DEF Fits, Upsert, Status, Active
    <3> QED
      BY <3>1, <3>2, EmptyRows DEF NoDbRow
  <2>3. \A r \in DbRows : r.result = "none" /\ ~ r.cancel =>
          paid(r).result = "none" /\ ~ paid(r).cancel
    <3>1. \A r \in DbRows : r.result = "none" /\ ~ r.cancel =>
            /\ Put(r, [payload |-> s]).result = "none"
            /\ ~ Put(r, [payload |-> s]).cancel
      BY DEF Put, DbRows
    <3>2. FreshDbRow \in DbRows /\ FreshDbRow.result = "none" /\ ~ FreshDbRow.cancel
      BY EmptyRows DEF FreshDbRow, NoDbRow
    <3> QED
      BY <3>1, <3>2 DEF Upsert
  <2> HIDE DEF row, paid
  <2> QED
    BY <1>3, <2>1, <2>2, <2>3
<1>8. Trace(j)' /\ Lasting(j)
  <2>1. Cause(j)'
    BY <1>2, <1>4, <1>5, <1>7 DEF Cause, Spawned, NotAsked
  <2>2. Course(j)'
    BY <1>4, <1>7 DEF Course, Spawned
  <2>3. Outcome(j)'
    BY <1>7 DEF Outcome, View
  <2>4. Lasting(j)
    BY <1>2 DEF Lasting, Idle
  <2> QED
    BY <2>1, <2>2, <2>3, <2>4 DEF Trace
<1> HIDE DEF memOut, dbOut
<1>9. ASSUME NEW k \in Jobs \ {j} PROVE Trace(k)' /\ Lasting(k)
  <2>1. CASE k \notin memOut \cup dbOut
    <3>1. Intact(k)' => Intact(k)
      BY <1>5, <1>6 DEF Intact
    <3> QED
      BY <1>3, <1>4, <1>5, <2>1, <3>1, SameTrace DEF CInv
  <2>2. CASE k \in memOut \cup dbOut
    <3>1. /\ mem'[k].result \in {"none", mem[k].result}
          /\ db'[k].result \in {"none", db[k].result}
          /\ db'[k].cancel => db[k].cancel
      BY <1>3 DEF NoMemRow, NoDbRow
    <3>2. Trace(k)
      BY DEF CInv
    <3>3. Cause(k)'
      BY <1>4, <1>5, <3>1, <3>2 DEF Trace, Cause, NotAsked
    <3>4. Course(k)'
      BY <1>4, <3>1, <3>2 DEF Trace, Course
    <3>5. Outcome(k)'
      BY <1>5, <2>2 DEF Outcome, Intact
    <3>6. Lasting(k)
      BY <1>4, <1>5 DEF Lasting
    <3> QED
      BY <3>3, <3>4, <3>5, <3>6 DEF Trace
  <2> QED
    BY <2>1, <2>2
<1> QED
  BY <1>8, <1>9

(***************************************************************************)
(* A cancel of a job whose thread is alive is noted at the present tool;   *)
(* one of a finished job that has its result changes no status.            *)
(***************************************************************************)
LEMMA CancelTrace ==
  ASSUME CInv, NEW j \in Jobs, Cancel(j) PROVE \A k \in Jobs : Trace(k)' /\ Lasting(k)
<1>1. PICK readOk \in BOOLEAN, ok \in BOOLEAN : Cancel(j)!(readOk, ok)
  BY DEF Cancel
<1> DEFINE status == CancelReads(j, readOk)
<1>2. TypeOK /\ IInv /\ Trace(j) /\ Kept(j)
      /\ UNCHANGED <<worker, evicted>>
  BY <1>1 DEF CInv, KInv, IInv
<1>3. PICK upd : /\ SetJob(j, upd, ok) /\ "result" \notin DOMAIN upd
                 /\ status \in Terminal => "status" \notin DOMAIN upd
  <2>1. CASE status \in Terminal
    <3>1. SetJob(j, [cancel |-> TRUE], ok)
      BY <1>1, <2>1
    <3> QED
      BY <3>1
  <2>2. CASE status \notin Terminal
    <3>1. SetJob(j, [cancel |-> TRUE, status |-> CancelStatus(status)], ok)
      BY <1>1, <2>2
    <3> QED
      BY <2>2, <3>1
  <2> QED
    BY <2>1, <2>2
<1>4. /\ \A k \in Jobs \ {j} : askedAt'[k] = askedAt[k]
      /\ status \in Terminal => askedAt' = askedAt
      /\ status \notin Terminal =>
           askedAt'[j] = IF askedAt[j] = NotAsked THEN worker[j].ran ELSE askedAt[j]
  BY <1>1, <1>2 DEF TypeOK
<1>5. faults' = 0 => faults = 0 /\ readOk /\ ok
  <2>1. Cost(readOk) \in Nat /\ Cost(ok) \in Nat
    BY CostType
  <2>2. faults' = 0 => faults = 0 /\ Cost(readOk) + Cost(ok) = 0
    BY <1>1, <1>2, <2>1, PayIntact
  <2>3. QED
    BY <2>1, <2>2, CostZero
<1>6. /\ mem'[j].result = mem[j].result /\ db'[j].result \in {"none", db[j].result}
      /\ status \in Terminal =>
           /\ mem'[j].status = mem[j].status
           /\ db[j].status # "absent" => db'[j].status = db[j].status
      /\ \A k \in Jobs \ {j} : mem'[k] = mem[k] /\ db'[k] = db[k]
  BY <1>2, <1>3, SetJobLeaves
<1>7. worker[j].ran \in 0 .. Steps /\ askedAt[j] \in Nat
  BY <1>2, StepsAssumption DEF TypeOK, Workers, NotAsked
<1>8. worker[j].pc \in Alive => status \notin Terminal
  BY <1>2, CancelSeesActive
<1> HIDE DEF status
<1>9. worker[j].canceled => askedAt[j] < Steps /\ askedAt'[j] = askedAt[j]
  BY <1>2, <1>4, <1>7, StepsAssumption DEF Trace, Cause, NotAsked
<1>10. Cause(j)'
  <2>1. ASSUME worker[j].pc \in Alive
        PROVE  askedAt'[j] # NotAsked /\ askedAt'[j] <= worker[j].ran
    <3>1. askedAt[j] # NotAsked => askedAt[j] <= worker[j].ran
      BY <1>2, <2>1 DEF Trace, Cause
    <3>2. worker[j].ran # NotAsked /\ worker[j].ran <= worker[j].ran
      BY <1>7, StepsAssumption DEF NotAsked
    <3> QED
      BY <1>4, <1>8, <2>1, <3>1, <3>2
  <2> QED
    BY <1>2, <1>9, <2>1 DEF Cause, NotAsked
<1>11. Course(j)'
  BY <1>2, <1>6 DEF Trace, Course
<1>12. Outcome(j)'
  <2> SUFFICES ASSUME Intact(j)', worker[j].pc = "done", View(j)'.result # "none"
               PROVE  /\ db'[j].status \in Terminal
                      /\ mem'[j].status \in {"absent", db'[j].status}
                      /\ db'[j].status = "canceled" <=> askedAt'[j] < Steps
    BY <1>2 DEF Outcome
  <2>1. Intact(j) /\ readOk = TRUE
    BY <1>2, <1>5 DEF Intact
  <2>2. View(j).result # "none"
    BY <1>6 DEF View
  <2>3. /\ db[j].status \in Terminal /\ mem[j].status \in {"absent", db[j].status}
        /\ db[j].status = "canceled" <=> askedAt[j] < Steps
    BY <1>2, <2>1, <2>2 DEF Trace, Outcome
  <2>4. status \in Terminal
    BY <2>1, <2>3 DEF status, CancelReads, View, Terminal
  <2> QED
    BY <1>4, <1>6, <2>3, <2>4 DEF Terminal
<1>13. Lasting(j)
  BY <1>2, <1>9 DEF Lasting
<1>14. ASSUME NEW k \in Jobs \ {j} PROVE Trace(k)' /\ Lasting(k)
  <2>1. Intact(k)' => Intact(k)
    BY <1>2, <1>5 DEF Intact
  <2> QED
    BY <1>2, <1>4, <1>6, <2>1, SameTrace DEF CInv
<1> QED
  BY <1>10, <1>11, <1>12, <1>13, <1>14 DEF Trace

LEMMA CrashTrace ==
  ASSUME CInv, Crash PROVE \A k \in Jobs : Trace(k)' /\ Lasting(k)
<1> SUFFICES ASSUME NEW k \in Jobs PROVE Trace(k)' /\ Lasting(k)
  OBVIOUS
<1>1. TypeOK /\ Trace(k)
  BY DEF CInv, KInv, IInv
<1>2. UNCHANGED <<db, evicted, askedAt, faults>> /\ mem'[k] = NoMemRow
  BY DEF Crash
<1>3. /\ worker'[k].pc \notin Alive
      /\ worker'[k].pc = "done" <=> worker[k].pc = "done"
      /\ worker'[k].canceled = worker[k].canceled
      /\ worker'[k].input = worker[k].input
  BY <1>1 DEF Crash, TypeOK, Workers, Alive
<1>4. Cause(k)'
  BY <1>1, <1>2, <1>3 DEF Trace, Cause
<1>5. Course(k)'
  BY <1>1, <1>2, <1>3 DEF Trace, Course, Alive, NoMemRow
<1>6. Outcome(k)'
  BY <1>1, <1>2, <1>3 DEF Trace, Outcome, Intact, View, NoMemRow
<1>7. Lasting(k)
  BY <1>2, <1>3 DEF Lasting
<1> QED
  BY <1>4, <1>5, <1>6, <1>7 DEF Trace

LEMMA QuietTrace ==
  ASSUME CInv, UNCHANGED <<mem, db, worker, evicted, askedAt, faults>>
  PROVE  \A k \in Jobs : Trace(k)' /\ Lasting(k)
<1> SUFFICES ASSUME NEW k \in Jobs PROVE Trace(k)' /\ Lasting(k)
  OBVIOUS
<1>1. Intact(k)' => Intact(k)
  BY DEF Intact
<1> QED
  BY <1>1, SameTrace DEF CInv

LEMMA StepTrace ==
  ASSUME CInv, [Next]_vars PROVE \A k \in Jobs : Trace(k)' /\ Lasting(k)
<1> SUFFICES ASSUME NEW k \in Jobs PROVE Trace(k)' /\ Lasting(k)
  OBVIOUS
<1>1. ASSUME NEW j \in Jobs, NEW s \in Sessions, Start(j, s)
      PROVE  Trace(k)' /\ Lasting(k)
  BY <1>1, LaunchTrace DEF Start
<1>2. ASSUME NEW old \in Jobs, NEW j \in Jobs, Retry(old, j)
      PROVE  Trace(k)' /\ Lasting(k)
  <2>1. db[old].payload \in Sessions
    BY <1>2 DEF Retry, CInv, KInv, IInv, TypeOK, DbRows
  <2> QED
    BY <1>2, <2>1, LaunchTrace DEF Retry
<1>3. ASSUME NEW j \in Jobs, Reject(j) \/ Cancel(j) \/ Abort(j)
      PROVE  Trace(k)' /\ Lasting(k)
  BY <1>3, RejectTrace, CancelTrace, AbortTrace
<1>4. ASSUME NEW j \in Jobs, WorkerStep(j) PROVE Trace(k)' /\ Lasting(k)
  BY <1>4, BeginTrace, StartToolTrace, SkipToolTrace, EndToolTrace, WrapUpTrace,
     ReportTrace DEF WorkerStep
<1>5. ASSUME NEW s \in Sessions, InlineRun(s) \/ ReviewPatch(s) \/ Export(s)
      PROVE  Trace(k)' /\ Lasting(k)
  BY <1>5, QuietTrace DEF InlineRun, ReviewPatch, Export
<1>6. CASE Crash
  BY <1>6, CrashTrace
<1>7. CASE UNCHANGED vars
  BY <1>7, QuietTrace DEF vars
<1> QED
  BY <1>1, <1>2, <1>3, <1>4, <1>5, <1>6, <1>7 DEF Next

(***************************************************************************)
(* Only the end of a canceled run makes a session pending.                 *)
(***************************************************************************)
LEMMA BecomesPending ==
  ASSUME TypeOK, [Next]_vars, NEW s \in Sessions,
         review[s] # "pending", review'[s] = "pending"
  PROVE  \E j \in Jobs : worker[j].input = s /\ worker[j].canceled
<1>1. ~ UNCHANGED review
  OBVIOUS
<1>2. ASSUME NEW j \in Jobs, WrapUp(j)
      PROVE  worker[j].input = s /\ worker[j].canceled
  <2>1. review' = Settle(worker[j].input, worker[j].failed, worker[j].canceled)
    BY <1>2 DEF WrapUp
  <2> QED
    BY <2>1 DEF Settle, TypeOK
<1>3. ASSUME NEW t \in Sessions, InlineRun(t) PROVE FALSE
  <2>1. PICK failed \in BOOLEAN : review' = Settle(t, failed, FALSE)
    BY <1>3 DEF InlineRun
  <2> QED
    BY <2>1 DEF Settle, TypeOK
<1>4. ASSUME NEW t \in Sessions, ReviewPatch(t) \/ Export(t) PROVE FALSE
  BY <1>4 DEF ReviewPatch, Export, TypeOK
<1>5. ASSUME NEW j \in Jobs, NEW t \in Sessions, Launch(j, t) PROVE FALSE
  BY <1>1, <1>5 DEF Launch
<1>6. ASSUME NEW old \in Jobs, NEW j \in Jobs, Retry(old, j) PROVE FALSE
  <2>1. db[old].payload \in Sessions
    BY <1>6 DEF Retry, TypeOK, DbRows
  <2> QED
    BY <1>5, <1>6, <2>1 DEF Retry
<1>7. ASSUME NEW j \in Jobs,
             Reject(j) \/ Cancel(j) \/ Abort(j) \/ Begin(j) \/ StartTool(j)
               \/ SkipTool(j) \/ EndTool(j) \/ Report(j)
      PROVE  FALSE
  BY <1>1, <1>7 DEF Reject, Cancel, Abort, Begin, StartTool, SkipTool, EndTool, Report
<1>8. CASE Crash \/ UNCHANGED vars
  BY <1>1, <1>8 DEF Crash, vars
<1> QED
  BY <1>2, <1>3, <1>4, <1>5, <1>6, <1>7, <1>8 DEF Next, Start, WorkerStep

LEMMA PendingStep ==
  ASSUME CInv, PendingWasCanceled, [Next]_vars PROVE PendingWasCanceled'
<1> SUFFICES ASSUME NEW s \in Sessions, review'[s] = "pending"
             PROVE  \E j \in Jobs : /\ worker'[j].input = s /\ worker'[j].canceled
                                    /\ askedAt'[j] < Steps
  BY DEF PendingWasCanceled
<1>1. TypeOK
  BY DEF CInv, KInv, IInv
<1>2. PICK j \in Jobs : worker[j].input = s /\ worker[j].canceled
  BY <1>1, BecomesPending DEF PendingWasCanceled
<1>3. askedAt[j] < Steps
  BY <1>2 DEF CInv, Trace, Cause
<1>4. Lasting(j)
  BY StepTrace
<1> QED
  BY <1>2, <1>3, <1>4 DEF Lasting

LEMMA CauseHolds == Spec => [](CInv /\ PendingWasCanceled)
<1>1. Init => CInv /\ PendingWasCanceled
  <2> SUFFICES ASSUME Init PROVE CInv /\ PendingWasCanceled
    OBVIOUS
  <2>1. ASSUME NEW j \in Jobs PROVE Trace(j)
    BY DEF Init, Trace, Cause, Course, Outcome, Idle, Alive, NoMemRow, NoDbRow
  <2>2. PendingWasCanceled
    BY DEF Init, PendingWasCanceled
  <2> QED
    BY <2>1, <2>2, InitKeeps DEF CInv
<1>2. CInv /\ PendingWasCanceled /\ [Next]_vars => (CInv /\ PendingWasCanceled)'
  <2> SUFFICES ASSUME CInv, PendingWasCanceled, [Next]_vars
               PROVE  CInv' /\ PendingWasCanceled'
    OBVIOUS
  <2>1. KInv'
    BY StepKeeps DEF CInv
  <2>2. \A k \in Jobs : Trace(k)'
    BY StepTrace
  <2>3. PendingWasCanceled'
    BY PendingStep
  <2> QED
    BY <2>1, <2>2, <2>3 DEF CInv
<1> QED
  BY <1>1, <1>2, PTL DEF Spec

(***************************************************************************)
(* The outcome of an intact run tells whether its cancel came in time: one *)
(* that was accepted before the last tool had begun, and no other, makes   *)
(* it canceled, and a later one changes nothing (_build_pipeline_summary,  *)
(* cancel_pipeline).                                                       *)
(***************************************************************************)
THEOREM OutcomeHasCause == Spec => []CancelDecidesOutcome
<1>1. CInv => CancelDecidesOutcome
  <2> SUFFICES ASSUME CInv, NEW j \in Jobs, Intact(j), worker[j].pc = "done",
                      View(j).result # "none"
               PROVE  View(j).status = "canceled" <=> askedAt[j] < Steps
    BY DEF CancelDecidesOutcome
  <2>1. /\ mem[j].status \in {"absent", db[j].status}
        /\ db[j].status = "canceled" <=> askedAt[j] < Steps
    BY DEF CInv, Trace, Outcome
  <2> QED
    BY <2>1 DEF View
<1> QED
  BY <1>1, CauseHolds, PTL

(***************************************************************************)
(* A review session is pending only through a run on its patch that a user *)
(* canceled while tools were left (_execute_pipeline's update of the row). *)
(***************************************************************************)
THEOREM PendingHasCause == Spec => []PendingWasCanceled
BY CauseHolds, PTL

-----------------------------------------------------------------------------
(***************************************************************************)
(* Both stores alike.                                                      *)
(*                                                                         *)
(* As long as no database call has failed, the dictionary holds a part of  *)
(* the table, updated in the same order, and the rows it lacks (those of   *)
(* before a restart) are older than all it has.  The prune therefore picks *)
(* the same rows of both, as far as the dictionary has them.               *)
(***************************************************************************)
Copied(j) ==
  /\ j \in InMem => j \in InDb
  /\ mem[j].status \in {"absent", db[j].status}
  /\ mem[j].result \in {"none", db[j].result}
  /\ mem[j].cancel => db[j].cancel

Alike ==
  /\ IsFiniteSet(InMem) /\ IsFiniteSet(InDb)
  /\ \A j \in Jobs : Copied(j)
  /\ \A a, b \in InMem : <<a, b>> \in memOlder <=> <<a, b>> \in dbOlder
  /\ \A d \in InDb \ InMem, m \in InMem : <<d, m>> \in dbOlder

MInv == IInv /\ (faults = 0 => Alike)

LEMMA PrunedAlike ==
  ASSUME Alike, NEW j \in InMem
  PROVE  j \in Surplus(InMem, memOlder) <=> j \in Surplus(InDb, dbOlder)
<1> DEFINE lost == InDb \ InMem
           inMem == {k \in InMem : <<k, j>> \in memOlder}
           inDb == {k \in InDb : <<k, j>> \in dbOlder}
<1>1. InMem \subseteq InDb /\ j \in InDb
  BY DEF Alike, Copied, InMem
<1>2. IsFiniteSet(InMem) /\ IsFiniteSet(InDb)
  BY DEF Alike
<1>3. inDb = inMem \cup lost
  BY <1>1 DEF Alike
<1>4. InDb = InMem \cup lost
  BY <1>1
<1>5. inMem \cap lost = {} /\ InMem \cap lost = {}
  OBVIOUS
<1>6. IsFiniteSet(lost) /\ IsFiniteSet(inMem)
  <2>1. lost \in SUBSET InDb /\ inMem \in SUBSET InMem
    OBVIOUS
  <2> QED
    BY <1>2, <2>1, FS_Subset
<1>7. /\ Cardinality(lost) \in Nat /\ Cardinality(inMem) \in Nat
      /\ Cardinality(InMem) \in Nat /\ Cardinality({}) = 0
  BY <1>2, <1>6, FS_CardinalityType, FS_EmptySet
<1>8. Cardinality(inDb) = Cardinality(inMem) + Cardinality(lost)
  <2>1. Cardinality(inMem \cup lost) =
          Cardinality(inMem) + Cardinality(lost) - Cardinality(inMem \cap lost)
    BY <1>6, FS_Union
  <2> HIDE DEF inMem, inDb, lost
  <2> QED
    BY <1>3, <1>5, <1>7, <2>1
<1>9. Cardinality(InDb) = Cardinality(InMem) + Cardinality(lost)
  <2>1. Cardinality(InMem \cup lost) =
          Cardinality(InMem) + Cardinality(lost) - Cardinality(InMem \cap lost)
    BY <1>2, <1>6, FS_Union
  <2>2. Cardinality(InMem \cap lost) = 0
    BY <1>5, <1>7
  <2>3. Cardinality(InDb) = Cardinality(InMem \cup lost)
    BY <1>4
  <2> HIDE DEF lost
  <2> QED
    BY <1>7, <2>1, <2>2, <2>3
<1>10. j \in Surplus(InMem, memOlder) <=>
         Cardinality(inMem) + MaxItems < Cardinality(InMem)
  BY DEF Surplus, InMem
<1>11. j \in Surplus(InDb, dbOlder) <=>
         Cardinality(inDb) + MaxItems < Cardinality(InDb)
  BY <1>1 DEF Surplus, InDb
<1> HIDE DEF inMem, inDb, lost
<1> QED
  BY <1>7, <1>8, <1>9, <1>10, <1>11, BoundsAssumption

\* What Touch does to the order, of two jobs that are present afterwards.
LEMMA OrderAfter ==
  ASSUME NEW older, older \subseteq Jobs \X Jobs, NEW present, NEW j,
         NEW a \in present \cup {j}, NEW b
  PROVE  <<a, b>> \in Touch(older, present, j) <=>
           a # j /\ (b = j \/ <<a, b>> \in older)
BY DEF Touch

(***************************************************************************)
(* A write that gets through leaves the stores alike.                      *)
(***************************************************************************)
LEMMA WrittenAlike ==
  ASSUME TypeOK, Alike, NEW j \in Jobs, NEW upd, Plain(upd),
         SetJob(j, upd, TRUE),
         "status" \in DOMAIN upd \/ (j \in InDb /\ "cancel" \in DOMAIN upd)
  PROVE  Alike'
<1>1. /\ mem[j] \in MemRows /\ db[j] \in DbRows
      /\ mem'[j] = Put(mem[j], upd) /\ db'[j] = Upsert(db[j], upd)
      /\ \A k \in Jobs \ {j} : mem'[k] = mem[k] /\ db'[k] = db[k]
  BY DEF SetJob, TypeOK
<1>2. PICK r \in DbRows : /\ db'[j] = Put(r, upd)
                          /\ r = IF db[j].status = "absent" THEN FreshDbRow ELSE db[j]
  BY <1>1, EmptyRows DEF Upsert, FreshDbRow, DbRows, NoDbRow, Status, Active
<1>3. r.status # "absent"
  BY <1>2 DEF FreshDbRow, NoDbRow
<1>4. db'[j].status # "absent"
  BY <1>2, <1>3, PutPlain
<1>5. mem'[j] # NoMemRow
  <2>1. /\ "status" \in DOMAIN upd => mem'[j].status = upd["status"]
        /\ "cancel" \in DOMAIN upd => mem'[j].cancel = upd["cancel"]
    BY <1>1 DEF Put, MemRows
  <2> QED
    BY <2>1 DEF Plain, NoMemRow
<1>6. Copied(j)'
  <2>1. Copied(j)
    BY DEF Alike
  <2>2. mem'[j].status \in {"absent", db'[j].status}
    <3>1. "status" \in DOMAIN upd =>
            mem'[j].status = upd["status"] /\ db'[j].status = upd["status"]
      BY <1>1, <1>2 DEF Put, MemRows, DbRows
    <3>2. "status" \notin DOMAIN upd =>
            /\ mem'[j].status = mem[j].status /\ db'[j].status = r.status
            /\ r = db[j]
      BY <1>1, <1>2 DEF Put, MemRows, DbRows, InDb
    <3> QED
      BY <2>1, <3>1, <3>2 DEF Copied
  <2>3. mem'[j].result \in {"none", db'[j].result}
    <3>1. "result" \in DOMAIN upd =>
            mem'[j].result = upd["result"] /\ db'[j].result = upd["result"]
      BY <1>1, <1>2 DEF Put, MemRows, DbRows
    <3>2. "result" \notin DOMAIN upd =>
            mem'[j].result = mem[j].result /\ db'[j].result = r.result
      BY <1>1, <1>2 DEF Put, MemRows, DbRows
    <3>3. r = db[j] \/ mem[j] = NoMemRow
      BY <1>2, <2>1 DEF Copied, InMem, InDb
    <3> QED
      BY <2>1, <3>1, <3>2, <3>3 DEF Copied, NoMemRow
  <2>4. mem'[j].cancel => db'[j].cancel
    <3>1. "cancel" \in DOMAIN upd =>
            mem'[j].cancel = upd["cancel"] /\ db'[j].cancel = upd["cancel"]
      BY <1>1, <1>2 DEF Put, MemRows, DbRows
    <3>2. "cancel" \notin DOMAIN upd =>
            mem'[j].cancel = mem[j].cancel /\ db'[j].cancel = r.cancel
      BY <1>1, <1>2 DEF Put, MemRows, DbRows
    <3>3. r = db[j] \/ mem[j] = NoMemRow
      BY <1>2, <2>1 DEF Copied, InMem, InDb
    <3>4. CASE "cancel" \in DOMAIN upd
      BY <3>1, <3>4, Zenon
    <3>5. CASE "cancel" \notin DOMAIN upd
      <4>1. mem[j] = NoMemRow => ~ mem[j].cancel
        BY DEF NoMemRow
      <4> QED
        BY <2>1, <3>2, <3>3, <3>5, <4>1, Zenon DEF Copied
    <3> QED
      BY <3>4, <3>5
  <2> QED
    BY <1>4, <2>2, <2>3, <2>4 DEF Copied, InDb
<1>7. \A k \in Jobs : Copied(k)'
  <2>1. ASSUME NEW k \in Jobs \ {j} PROVE Copied(k)'
    BY <1>1 DEF Alike, Copied, InMem, InDb
  <2> QED
    BY <1>6, <2>1
<1>8. InMem' = InMem \cup {j} /\ InDb' = InDb \cup {j}
  BY <1>1, <1>4, <1>5 DEF InMem, InDb
<1>9. IsFiniteSet(InMem') /\ IsFiniteSet(InDb')
  <2>1. IsFiniteSet(InMem \cup {j}) /\ IsFiniteSet(InDb \cup {j})
    BY FS_AddElement DEF Alike
  <2> QED
    BY <1>8, <2>1
<1>10. /\ memOlder' = Touch(memOlder, InMem, j)
       /\ dbOlder' = Touch(dbOlder, InDb, j)
  BY DEF SetJob
<1>11. ASSUME NEW a \in InMem', NEW b \in InMem'
       PROVE  <<a, b>> \in memOlder' <=> <<a, b>> \in dbOlder'
  <2>1. memOlder \subseteq Jobs \X Jobs /\ dbOlder \subseteq Jobs \X Jobs
    BY DEF TypeOK
  <2>2. InMem \subseteq InDb
    BY DEF Alike, Copied, InMem
  <2>3. a \in InMem \cup {j} /\ a \in InDb \cup {j} /\ b \in InMem \cup {j}
    BY <1>8, <2>2
  <2>4. <<a, b>> \in memOlder' <=> a # j /\ (b = j \/ <<a, b>> \in memOlder)
    BY <1>10, <2>1, <2>3, OrderAfter
  <2>5. <<a, b>> \in dbOlder' <=> a # j /\ (b = j \/ <<a, b>> \in dbOlder)
    <3>1. a \in InDb \cup {j}
      BY <2>3
    <3>2. dbOlder' = Touch(dbOlder, InDb, j)
      BY <1>10
    <3> QED
      BY <2>1, <3>1, <3>2, OrderAfter
  <2>6. CASE a = j \/ b = j
    BY <2>4, <2>5, <2>6
  <2>7. CASE a # j /\ b # j
    <3>1. a \in InMem /\ b \in InMem
      BY <2>3, <2>7
    <3>2. <<a, b>> \in memOlder <=> <<a, b>> \in dbOlder
      BY <3>1 DEF Alike
    <3> QED
      BY <2>4, <2>5, <2>7, <3>2
  <2> QED
    BY <2>6, <2>7
<1>12. ASSUME NEW d \in InDb' \ InMem', NEW m \in InMem'
       PROVE  <<d, m>> \in dbOlder'
  <2>1. dbOlder \subseteq Jobs \X Jobs
    BY DEF TypeOK
  <2>2. d \in InDb \cup {j} /\ d # j /\ d \in InDb \ InMem /\ m \in InMem \cup {j}
    BY <1>8
  <2>3. <<d, m>> \in dbOlder' <=> d # j /\ (m = j \/ <<d, m>> \in dbOlder)
    BY <1>10, <2>1, <2>2, OrderAfter
  <2> QED
    BY <2>2, <2>3 DEF Alike
<1> QED
  BY <1>7, <1>9, <1>11, <1>12 DEF Alike

(***************************************************************************)
(* So does the launch of a job: what the prune takes from the dictionary   *)
(* it takes from the table too, and beyond that only rows the dictionary   *)
(* lacks.                                                                  *)
(***************************************************************************)
LEMMA LaunchedAlike ==
  ASSUME IInv, Alike, NEW j \in Jobs, NEW s \in Sessions, Launch(j, s),
         faults' = 0
  PROVE  Alike'
<1> DEFINE memOut == Surplus(InMem, memOlder)
<1>1. PICK okPrune \in BOOLEAN, okRow \in BOOLEAN, okPayload \in BOOLEAN :
        Launch(j, s)!(okPrune, okRow, okPayload)
  BY DEF Launch
<1>2. TypeOK /\ mem[j] = NoMemRow /\ db[j] = NoDbRow
  BY <1>1 DEF IInv, UnusedIsClean
<1>3. okPrune /\ okRow /\ okPayload
  <2>1. Cost(okPrune) \in Nat /\ Cost(okRow) \in Nat /\ Cost(okPayload) \in Nat
    BY CostType
  <2>2. Cost(okPrune) + Cost(okRow) + Cost(okPayload) = 0
    BY <1>1, <1>2, <2>1, PayIntact
  <2> QED
    BY <2>1, <2>2, CostZero
<1> DEFINE dbOut == IF memOut # {} THEN Surplus(InDb, dbOlder) ELSE {}
           row == Upsert(NoDbRow, [status |-> "queued"])
<1>4. /\ mem'[j] = Put(NoMemRow, [status |-> "queued"])
      /\ \A k \in Jobs \ {j} : mem'[k] = IF k \in memOut THEN NoMemRow ELSE mem[k]
  BY <1>1
<1>5. /\ db'[j] = Upsert(row, [payload |-> s])
      /\ \A k \in Jobs \ {j} : db'[k] = IF k \in dbOut THEN NoDbRow ELSE db[k]
  BY <1>1, <1>3
<1>6. /\ memOlder' = Touch({p \in memOlder : p[1] \notin memOut
                                           /\ p[2] \notin memOut},
                           InMem \ memOut, j)
      /\ dbOlder' = Touch({p \in dbOlder : p[1] \notin dbOut
                                         /\ p[2] \notin dbOut},
                          InDb \ dbOut, j)
  BY <1>1, <1>3
<1>7. \A k \in InMem : k \in memOut <=> k \in dbOut
  BY PrunedAlike DEF Surplus
<1>8. j \notin InMem /\ j \notin InDb /\ memOut \subseteq InMem /\ dbOut \subseteq InDb
  BY <1>2 DEF InMem, InDb, NoDbRow, Surplus
<1> HIDE DEF memOut, dbOut
<1>9. mem'[j].status = "queued" /\ mem'[j].result = "none" /\ ~ mem'[j].cancel
  BY <1>4 DEF Put, NoMemRow
<1>10. db'[j].status = "queued"
  BY <1>5 DEF Upsert, Put, NoDbRow, FreshDbRow
<1>11. /\ InMem' = (InMem \ memOut) \cup {j}
       /\ InDb' = (InDb \ dbOut) \cup {j}
  <2>1. mem'[j] # NoMemRow
    BY <1>9 DEF NoMemRow
  <2>2. InMem' = (InMem \ memOut) \cup {j}
    BY <1>4, <2>1 DEF InMem
  <2>3. NoDbRow.status = "absent"
    BY DEF NoDbRow
  <2>4. InDb' = (InDb \ dbOut) \cup {j}
    BY <1>5, <1>10, <2>3 DEF InDb
  <2> QED
    BY <2>2, <2>4
<1>12. \A k \in Jobs : Copied(k)'
  <2>1. Copied(j)'
    BY <1>9, <1>10 DEF Copied, InDb
  <2>2. ASSUME NEW k \in Jobs \ {j}, k \in InMem, k \notin memOut PROVE Copied(k)'
    <3>1. mem'[k] = mem[k] /\ db'[k] = db[k]
      BY <1>4, <1>5, <1>7, <2>2
    <3> QED
      BY <3>1 DEF Alike, Copied, InMem, InDb
  <2>3. ASSUME NEW k \in Jobs \ {j}, ~ (k \in InMem /\ k \notin memOut)
        PROVE  Copied(k)'
    <3>1. mem'[k] = NoMemRow
      BY <1>4, <2>3 DEF InMem
    <3> QED
      BY <3>1 DEF Copied, InMem, NoMemRow
  <2> QED
    BY <2>1, <2>2, <2>3
<1>13. IsFiniteSet(InMem') /\ IsFiniteSet(InDb')
  <2>1. IsFiniteSet(InMem \ memOut) /\ IsFiniteSet(InDb \ dbOut)
    BY FS_Difference DEF Alike
  <2>2. IsFiniteSet((InMem \ memOut) \cup {j}) /\ IsFiniteSet((InDb \ dbOut) \cup {j})
    BY <2>1, FS_AddElement
  <2> QED
    BY <1>11, <2>2
<1>14. ASSUME NEW a \in InMem', NEW b \in InMem'
       PROVE  <<a, b>> \in memOlder' <=> <<a, b>> \in dbOlder'
  <2>1. InMem \subseteq InDb
    BY DEF Alike, Copied, InMem
  <2>2. /\ a \in (InMem \ memOut) \cup {j} /\ b \in (InMem \ memOut) \cup {j}
        /\ a \in (InDb \ dbOut) \cup {j}
    BY <1>7, <1>11, <2>1
  <2>3. <<a, b>> \in memOlder' <=> a # j /\ (b = j \/ <<a, b>> \in memOlder)
    BY <1>2, <1>6, <1>8, <2>2 DEF Touch, TypeOK
  <2>4. <<a, b>> \in dbOlder' <=> a # j /\ (b = j \/ <<a, b>> \in dbOlder)
    BY <1>2, <1>6, <1>7, <1>8, <2>2 DEF Touch, TypeOK
  <2>5. CASE a = j \/ b = j
    BY <2>3, <2>4, <2>5
  <2>6. CASE a # j /\ b # j
    <3>1. a \in InMem /\ b \in InMem
      BY <2>2, <2>6
    <3>2. <<a, b>> \in memOlder <=> <<a, b>> \in dbOlder
      BY <3>1 DEF Alike
    <3> QED
      BY <2>3, <2>4, <2>6, <3>2
  <2> QED
    BY <2>5, <2>6
<1>15. ASSUME NEW d \in InDb' \ InMem', NEW m \in InMem'
       PROVE  <<d, m>> \in dbOlder'
  <2>1. d \in InDb \ InMem /\ d # j /\ d \notin dbOut
    BY <1>7, <1>11
  <2>2. m = j \/ (m \in InMem /\ m \notin dbOut)
    BY <1>7, <1>11
  <2>3. CASE m = j
    BY <1>6, <2>1, <2>3 DEF Touch
  <2>4. CASE m \in InMem /\ m \notin dbOut
    <3>1. <<d, m>> \in dbOlder
      BY <2>1, <2>4 DEF Alike
    <3> QED
      BY <1>6, <2>1, <2>4, <3>1 DEF Touch
  <2> QED
    BY <2>2, <2>3, <2>4
<1> QED
  BY <1>12, <1>13, <1>14, <1>15 DEF Alike

(***************************************************************************)
(* A cancel finds the row it writes to in the table.                       *)
(***************************************************************************)
LEMMA CanceledAlike ==
  ASSUME IInv, Alike, NEW j \in Jobs, Cancel(j), faults' = 0 PROVE Alike'
<1>1. PICK readOk \in BOOLEAN, ok \in BOOLEAN : Cancel(j)!(readOk, ok)
  BY DEF Cancel
<1> DEFINE status == CancelReads(j, readOk)
<1>2. TypeOK
  BY DEF IInv
<1>3. ok = TRUE
  <2>1. Cost(readOk) \in Nat /\ Cost(ok) \in Nat
    BY CostType
  <2>2. Cost(readOk) + Cost(ok) = 0
    BY <1>1, <1>2, <2>1, PayIntact
  <2> QED
    BY <2>1, <2>2, CostZero
<1>4. j \in InDb
  BY <1>1 DEF Alike, Copied
<1>5. PICK upd : /\ SetJob(j, upd, ok) /\ Plain(upd) /\ "cancel" \in DOMAIN upd
  <2>1. Plain([cancel |-> TRUE])
    BY DEF Plain
  <2>2. CancelStatus(status) # "absent"
    BY DEF CancelStatus, CancelReads
  <2>3. Plain([cancel |-> TRUE, status |-> CancelStatus(status)])
    BY <2>2 DEF Plain
  <2> QED
    BY <1>1, <2>1, <2>3
<1> QED
  BY <1>2, <1>3, <1>4, <1>5, WrittenAlike

(***************************************************************************)
(* Every other write sets the status.                                      *)
(***************************************************************************)
LEMMA StatusAlike ==
  ASSUME TypeOK, Alike, faults' = 0, NEW j \in Jobs, NEW upd, NEW ok \in BOOLEAN,
         SetJob(j, upd, ok), Plain(upd), "status" \in DOMAIN upd,
         NEW c \in Nat, Pay(c + Cost(ok))
  PROVE  Alike'
<1>1. Cost(ok) \in Nat
  BY CostType
<1>2. c + Cost(ok) = 0
  BY <1>1, PayIntact
<1>3. ok = TRUE
  BY <1>1, <1>2, CostZero
<1> QED
  BY <1>3, WrittenAlike

LEMMA WorkerAlike ==
  ASSUME TypeOK, Alike, faults' = 0, NEW j \in Jobs,
         Begin(j) \/ SkipTool(j) \/ EndTool(j) \/ Report(j) \/ Abort(j) \/ Reject(j)
  PROVE  Alike'
<1>1. \A ok \in BOOLEAN : 0 + Cost(ok) = Cost(ok)
  BY CostType
<1>2. /\ Plain([status |-> "running"]) /\ Plain([status |-> "failed"])
      /\ "status" \in DOMAIN [status |-> "running"]
      /\ "status" \in DOMAIN [status |-> "failed"]
  BY DEF Plain
<1>3. \A readOk : /\ Plain(Progress(j, readOk))
                  /\ "status" \in DOMAIN Progress(j, readOk)
  BY DEF Plain, Progress
<1>4. CASE Begin(j)
  <2>1. PICK ok \in BOOLEAN : Begin(j)!(ok)
    BY <1>4 DEF Begin
  <2>2. SetJob(j, [status |-> "running"], ok) /\ Pay(0 + Cost(ok))
    BY <1>1, <2>1
  <2> QED
    BY <1>2, <2>2, StatusAlike
<1>5. CASE SkipTool(j)
  <2>1. PICK readOk \in BOOLEAN, ok \in BOOLEAN : SkipTool(j)!(readOk, ok)
    BY <1>5 DEF SkipTool
  <2>2. SetJob(j, Progress(j, readOk), ok) /\ Pay(Cost(readOk) + Cost(ok))
    BY <2>1
  <2>3. Cost(readOk) \in Nat
    BY CostType
  <2> QED
    BY <1>3, <2>2, <2>3, StatusAlike
<1>6. CASE EndTool(j)
  <2>1. PICK outcome \in {"PASS", "FAIL", "SKIP"}, readOk \in BOOLEAN,
             ok \in BOOLEAN : EndTool(j)!(outcome, readOk, ok)
    BY <1>6 DEF EndTool
  <2>2. SetJob(j, Progress(j, readOk), ok) /\ Pay(Cost(readOk) + Cost(ok))
    BY <2>1
  <2>3. Cost(readOk) \in Nat
    BY CostType
  <2> QED
    BY <1>3, <2>2, <2>3, StatusAlike
<1>7. CASE Report(j)
  <2>1. PICK ok \in BOOLEAN : Report(j)!(ok)
    BY <1>7 DEF Report
  <2> DEFINE upd == [status |-> TerminalStatus(Overall(worker[j])),
                     result |-> Overall(worker[j])]
  <2>2. SetJob(j, upd, ok) /\ Pay(0 + Cost(ok))
    BY <1>1, <2>1
  <2>3. TerminalStatus(Overall(worker[j])) # "absent"
    BY OverallType DEF TerminalStatus
  <2>4. Plain(upd) /\ "status" \in DOMAIN upd
    BY <2>3 DEF Plain
  <2> HIDE DEF upd
  <2> QED
    BY <2>2, <2>4, StatusAlike
<1>8. CASE Abort(j)
  <2>1. PICK ok \in BOOLEAN : Abort(j)!(ok)
    BY <1>8 DEF Abort
  <2>2. SetJob(j, [status |-> "failed"], ok)
    BY <2>1
  <2>3. Pay(Cost(ok)) \/ Pay(1)
    BY <2>1
  <2>4. ~ Pay(1)
    BY PayIntact
  <2> QED
    BY <1>1, <1>2, <2>2, <2>3, <2>4, StatusAlike
<1>9. CASE Reject(j)
  <2>1. PICK ok \in BOOLEAN : Reject(j)!(ok)
    BY <1>9 DEF Reject
  <2>2. SetJob(j, [status |-> "failed"], ok) /\ Pay(0 + Cost(ok))
    BY <1>1, <2>1
  <2> QED
    BY <1>2, <2>2, StatusAlike
<1> QED
  BY <1>4, <1>5, <1>6, <1>7, <1>8, <1>9

\* Steps that write no row.
LEMMA UntouchedAlike ==
  ASSUME Alike, UNCHANGED <<mem, memOlder, db, dbOlder>> PROVE Alike'
<1>1. InMem' = InMem /\ InDb' = InDb
  BY DEF InMem, InDb
<1>2. \A j \in Jobs : Copied(j)'
  BY <1>1 DEF Alike, Copied
<1> QED
  BY <1>1, <1>2 DEF Alike

LEMMA CrashAlike == ASSUME Alike, Crash PROVE Alike'
<1>1. /\ \A j \in Jobs : mem'[j] = NoMemRow
      /\ UNCHANGED <<db, dbOlder>>
  BY DEF Crash
<1>2. InMem' = {} /\ InDb' = InDb
  BY <1>1 DEF InMem, InDb
<1>3. \A j \in Jobs : Copied(j)'
  BY <1>1, <1>2 DEF Copied, NoMemRow
<1> QED
  BY <1>2, <1>3, FS_EmptySet DEF Alike

LEMMA StepAlike == MInv /\ [Next]_vars => MInv'
<1> SUFFICES ASSUME MInv, [Next]_vars, faults' = 0 PROVE Alike'
  BY StepInv DEF MInv
<1>1. IInv /\ TypeOK
  BY DEF MInv, IInv
<1>2. ASSUME NEW c \in Nat, Pay(c) PROVE Alike
  BY <1>1, <1>2, PayIntact DEF MInv
<1>3. \A ok \in BOOLEAN : Cost(ok) \in Nat
  BY CostType
<1>4. faults = 0 => Alike
  BY DEF MInv
<1>5. ASSUME NEW j \in Jobs, NEW s \in Sessions, Launch(j, s) PROVE Alike'
  <2>1. PICK okPrune \in BOOLEAN, okRow \in BOOLEAN, okPayload \in BOOLEAN :
          Launch(j, s)!(okPrune, okRow, okPayload)
    BY <1>5 DEF Launch
  <2>2. Pay(Cost(okPrune) + Cost(okRow) + Cost(okPayload))
    BY <2>1
  <2>3. Cost(okPrune) + Cost(okRow) + Cost(okPayload) \in Nat
    BY <1>3
  <2> QED
    BY <1>1, <1>2, <1>5, <2>2, <2>3, LaunchedAlike
<1>6. ASSUME NEW old \in Jobs, NEW j \in Jobs, Retry(old, j) PROVE Alike'
  <2>1. db[old].payload \in Sessions
    BY <1>1, <1>6 DEF Retry, TypeOK, DbRows
  <2> QED
    BY <1>5, <1>6, <2>1 DEF Retry
<1>7. ASSUME NEW j \in Jobs, Cancel(j) PROVE Alike'
  <2>1. PICK readOk \in BOOLEAN, ok \in BOOLEAN : Cancel(j)!(readOk, ok)
    BY <1>7 DEF Cancel
  <2>2. Pay(Cost(readOk) + Cost(ok)) /\ Cost(readOk) + Cost(ok) \in Nat
    BY <1>3, <2>1
  <2> QED
    BY <1>1, <1>2, <1>7, <2>2, CanceledAlike
<1>8. ASSUME NEW j \in Jobs,
             Begin(j) \/ SkipTool(j) \/ EndTool(j) \/ Report(j) \/ Abort(j)
               \/ Reject(j)
      PROVE  Alike'
  <2>1. \E c \in Nat : Pay(c)
    <3>1. ASSUME NEW readOk \in BOOLEAN, NEW ok \in BOOLEAN
          PROVE  Cost(readOk) + Cost(ok) \in Nat /\ 1 \in Nat
      BY <1>3
    <3> QED
      BY <1>3, <1>8, <3>1 DEF Begin, SkipTool, EndTool, Report, Abort, Reject
  <2> QED
    BY <1>1, <1>2, <1>8, <2>1, WorkerAlike
<1>9. ASSUME NEW j \in Jobs, StartTool(j) PROVE Alike'
  <2>1. PICK readOk \in BOOLEAN : StartTool(j)!(readOk)
    BY <1>9 DEF StartTool
  <2>2. Pay(Cost(readOk)) /\ UNCHANGED <<mem, memOlder, db, dbOlder>>
    BY <2>1
  <2> QED
    BY <1>2, <1>3, <2>2, UntouchedAlike
<1>10. ASSUME NEW j \in Jobs, WrapUp(j) PROVE Alike'
  BY <1>4, <1>10, UntouchedAlike DEF WrapUp
<1>11. ASSUME NEW s \in Sessions, InlineRun(s) \/ ReviewPatch(s) \/ Export(s)
       PROVE  Alike'
  BY <1>4, <1>11, UntouchedAlike DEF InlineRun, ReviewPatch, Export
<1>12. CASE Crash
  BY <1>4, <1>12, CrashAlike DEF Crash
<1>13. CASE UNCHANGED vars
  BY <1>4, <1>13, UntouchedAlike DEF vars
<1> QED
  BY <1>5, <1>6, <1>7, <1>8, <1>9, <1>10, <1>11, <1>12, <1>13
     DEF Next, Start, WorkerStep

(***************************************************************************)
(* A restart takes nothing away from a reader: while no database call has  *)
(* failed, what the dictionary says of a job the table says too, whatever  *)
(* the prune of both (_prune_pipeline_jobs) has dropped.                   *)
(***************************************************************************)
THEOREM TableIsEnough == Spec => []MemoryMirrorsTable
<1>1. Init => MInv
  <2> SUFFICES ASSUME Init PROVE IInv /\ Alike
    BY DEF MInv
  <2>1. InMem = {} /\ InDb = {}
    BY DEF Init, InMem, InDb, NoDbRow
  <2>2. \A j \in Jobs : Copied(j)
    BY <2>1 DEF Init, Copied, NoMemRow
  <2> QED
    BY <2>1, <2>2, InitInv, FS_EmptySet DEF Alike
<1>2. MInv => MemoryMirrorsTable
  BY DEF MInv, Alike, Copied, MemoryMirrorsTable, InMem
<1> QED
  BY <1>1, <1>2, StepAlike, PTL DEF Spec

-----------------------------------------------------------------------------
(***************************************************************************)
(* The life cycle.                                                         *)
(*                                                                         *)
(* While the database answers, a reader of a job that no prune has dropped *)
(* is told the status of its table row, which is terminal exactly when the *)
(* thread has ended by itself.                                             *)
(***************************************************************************)
Told(j) ==
  j \notin evicted /\ worker[j].pc # "none" =>
    db[j].status \in IF worker[j].pc = "done" THEN Terminal ELSE Active

LInv == CInv /\ MInv /\ faults = 0 /\ \A j \in Jobs : Told(j)

PhaseOf(j) ==
  IF worker[j].pc = "none" THEN "new"
  ELSE IF j \in evicted THEN "forgotten"
  ELSE IF db[j].status \in Active THEN "active" ELSE db[j].status

LEMMA LFacts ==
  ASSUME LInv
  PROVE  /\ TypeOK /\ IInv /\ Alike /\ faults = 0
         /\ \A j \in Jobs : Told(j) /\ Trace(j)
BY DEF LInv, MInv, IInv, CInv

\* A write that gets through gives the table row the status of the update.
LEMMA StatusWritten ==
  ASSUME TypeOK, NEW j \in Jobs, NEW upd, SetJob(j, upd, TRUE),
         "status" \in DOMAIN upd
  PROVE  /\ db'[j].status = upd["status"]
         /\ \A k \in Jobs \ {j} : db'[k] = db[k]
<1>1. \A r \in DbRows : "status" \in DOMAIN r
  BY DEF DbRows
<1>2. db'[j] = Upsert(db[j], upd) /\ \A k \in Jobs \ {j} : db'[k] = db[k]
  BY DEF SetJob, TypeOK
<1>3. db[j] \in DbRows /\ FreshDbRow \in DbRows
  BY EmptyRows DEF TypeOK, FreshDbRow, DbRows, NoDbRow, Status, Active
<1> QED
  BY <1>1, <1>2, <1>3 DEF Upsert, Put

\* What a reader is told of a job, in the two states of a step.
LEMMA PhaseIs ==
  /\ LInv => \A j \in Jobs : Phase[j] = PhaseOf(j)
  /\ LInv' => \A j \in Jobs : Phase'[j] = PhaseOf(j)'
  /\ Phase = [j \in Jobs |-> Phase[j]] /\ Phase' = [j \in Jobs |-> Phase'[j]]
<1>1. ASSUME LInv, NEW j \in Jobs PROVE Phase[j] = PhaseOf(j)
  <2>1. View(j).status = db[j].status
    BY <1>1 DEF LInv, MInv, Alike, Copied, View
  <2>2. CASE worker[j].pc = "none"
    <3>1. j \notin evicted
      BY <1>1, <2>2 DEF LInv, MInv, IInv, UnusedIsClean, NotAsked
    <3> QED
      BY <2>2, <3>1 DEF Phase, PhaseOf
  <2>3. CASE worker[j].pc # "none" /\ j \in evicted
    BY <2>3 DEF Phase, PhaseOf
  <2>4. CASE worker[j].pc # "none" /\ j \notin evicted
    <3>1. Phase[j] = IF View(j).status \in Active THEN "active"
                     ELSE View(j).status
      BY <2>4 DEF Phase
    <3>2. PhaseOf(j) = IF db[j].status \in Active THEN "active" ELSE db[j].status
      BY <2>4 DEF PhaseOf
    <3> QED
      BY <2>1, <3>1, <3>2
  <2> QED
    BY <2>2, <2>3, <2>4
<1>2. ASSUME LInv', NEW j \in Jobs PROVE Phase'[j] = PhaseOf(j)'
  <2>1. View(j)'.status = db'[j].status
    BY <1>2 DEF LInv, MInv, Alike, Copied, View
  <2>2. CASE worker'[j].pc = "none"
    <3>1. j \notin evicted'
      BY <1>2, <2>2 DEF LInv, MInv, IInv, UnusedIsClean, NotAsked
    <3> QED
      BY <2>2, <3>1 DEF Phase, PhaseOf
  <2>3. CASE worker'[j].pc # "none" /\ j \in evicted'
    BY <2>3 DEF Phase, PhaseOf
  <2>4. CASE worker'[j].pc # "none" /\ j \notin evicted'
    <3>1. Phase'[j] = IF View(j)'.status \in Active THEN "active"
                     ELSE View(j)'.status
      BY <2>4 DEF Phase
    <3>2. PhaseOf(j)' = IF db'[j].status \in Active THEN "active" ELSE db'[j].status
      BY <2>4 DEF PhaseOf
    <3> QED
      BY <2>1, <3>1, <3>2
  <2> QED
    BY <2>2, <2>3, <2>4
<1>3. Phase = [j \in Jobs |-> Phase[j]] /\ Phase' = [j \in Jobs |-> Phase'[j]]
  BY DEF Phase
<1> QED
  BY <1>1, <1>2, <1>3

(***************************************************************************)
(* A write of one job's status.                                            *)
(***************************************************************************)
LEMMA WriteTold ==
  ASSUME LInv, NEW j \in Jobs, NEW upd, SetJob(j, upd, TRUE),
         "status" \in DOMAIN upd, NEW w, worker' = [worker EXCEPT ![j] = w],
         upd["status"] \in IF w.pc = "done" THEN Terminal ELSE Active,
         UNCHANGED evicted
  PROVE  \A k \in Jobs : Told(k)'
<1>1. worker'[j] = w /\ \A k \in Jobs \ {j} : worker'[k] = worker[k]
  BY LFacts DEF TypeOK
<1>2. db'[j].status = upd["status"] /\ \A k \in Jobs \ {j} : db'[k] = db[k]
  BY LFacts, StatusWritten
<1>3. Told(j)'
  BY <1>1, <1>2 DEF Told
<1>4. ASSUME NEW k \in Jobs \ {j} PROVE Told(k)'
  <2>1. Told(k)
    BY LFacts
  <2> QED
    BY <1>1, <1>2, <2>1 DEF Told
<1> QED
  BY <1>3, <1>4

LEMMA WritePhase ==
  ASSUME LInv, LInv', NEW j \in Jobs, NEW upd, SetJob(j, upd, TRUE),
         "status" \in DOMAIN upd, NEW w, worker' = [worker EXCEPT ![j] = w],
         w.pc # "none", UNCHANGED evicted
  PROVE  Phase' = [Phase EXCEPT ![j] =
                     IF j \in evicted THEN "forgotten"
                     ELSE IF upd["status"] \in Active THEN "active"
                     ELSE upd["status"]]
<1>1. worker'[j] = w /\ \A k \in Jobs \ {j} : worker'[k] = worker[k]
  BY LFacts DEF TypeOK
<1>2. db'[j].status = upd["status"] /\ \A k \in Jobs \ {j} : db'[k] = db[k]
  BY LFacts, StatusWritten
<1>3. Phase'[j] = IF j \in evicted THEN "forgotten"
                  ELSE IF upd["status"] \in Active THEN "active"
                  ELSE upd["status"]
  BY <1>1, <1>2, PhaseIs DEF PhaseOf
<1>4. ASSUME NEW k \in Jobs \ {j} PROVE Phase'[k] = Phase[k]
  <2>1. PhaseOf(k)' = PhaseOf(k)
    BY <1>1, <1>2 DEF PhaseOf
  <2> QED
    BY <2>1, PhaseIs
<1> QED
  BY <1>3, <1>4, PhaseIs

(***************************************************************************)
(* The three kinds of writes: the progress of a thread, its end, and the   *)
(* refusal of a job that never had one.                                    *)
(***************************************************************************)
Written(j, upd, w) ==
  /\ SetJob(j, upd, TRUE) /\ "status" \in DOMAIN upd
  /\ worker' = [worker EXCEPT ![j] = w]
  /\ UNCHANGED <<evicted, askedAt>>
  /\ \/ /\ worker[j].pc \in Alive /\ w.pc \in Alive
        /\ upd["status"] \in Active
     \/ /\ worker[j].pc \in Alive /\ w.pc = "done"
        /\ upd["status"] \in Terminal
        /\ upd["status"] = "canceled" => askedAt[j] # NotAsked
     \/ worker[j].pc = "none" /\ w.pc = "done" /\ upd["status"] = "failed"

LEMMA FreeOfFaults ==
  ASSUME TypeOK, faults' = 0, NEW c \in Nat, NEW ok \in BOOLEAN, Pay(c + Cost(ok))
  PROVE  ok = TRUE
<1>1. Cost(ok) \in Nat
  BY CostType
<1>2. c + Cost(ok) = 0
  BY <1>1, PayIntact
<1> QED
  BY <1>1, <1>2, CostZero

LEMMA WorkerWrites ==
  ASSUME LInv, faults' = 0, NEW j \in Jobs,
         Begin(j) \/ SkipTool(j) \/ EndTool(j) \/ Report(j) \/ Abort(j) \/ Reject(j)
  PROVE  \E upd, w : Written(j, upd, w)
<1>1. \A c \in BOOLEAN : Cost(c) \in Nat /\ 0 + Cost(c) = Cost(c)
  BY CostType
<1>2. TypeOK /\ Trace(j)
  BY LFacts
<1>3. \A readOk : /\ Progress(j, readOk)["status"] \in Active
                  /\ "status" \in DOMAIN Progress(j, readOk)
  BY DEF Progress, Active
<1>4. CASE Begin(j)
  <2>1. PICK ok \in BOOLEAN : Begin(j)!(ok)
    BY <1>4 DEF Begin
  <2>2. ok = TRUE
    BY <1>1, <1>2, <2>1, FreeOfFaults
  <2> DEFINE upd == [status |-> "running"]
             w == [worker[j] EXCEPT !.pc = "check"]
  <2>3. Written(j, upd, w)
    BY <1>2, <2>1, <2>2 DEF Written, Alive, Active, TypeOK, Workers
  <2> HIDE DEF upd, w
  <2> QED
    BY <2>3
<1>5. CASE SkipTool(j)
  <2>1. PICK readOk \in BOOLEAN, ok \in BOOLEAN : SkipTool(j)!(readOk, ok)
    BY <1>5 DEF SkipTool
  <2>2. ok = TRUE
    BY <1>1, <1>2, <2>1, FreeOfFaults
  <2> DEFINE upd == Progress(j, readOk)
             w == [worker[j] EXCEPT !.pc = "wrap", !.canceled = TRUE]
  <2>3. w.pc = "wrap" /\ worker[j].pc = "check"
    BY <1>2, <2>1 DEF TypeOK, Workers
  <2>4. SetJob(j, upd, TRUE) /\ worker' = [worker EXCEPT ![j] = w]
        /\ UNCHANGED <<evicted, askedAt>>
    BY <2>1, <2>2
  <2> HIDE DEF w
  <2>5. Written(j, upd, w)
    BY <1>3, <2>3, <2>4 DEF Written, Alive
  <2> HIDE DEF upd
  <2> QED
    BY <2>5
<1>6. CASE EndTool(j)
  <2>1. PICK outcome \in {"PASS", "FAIL", "SKIP"}, readOk \in BOOLEAN,
             ok \in BOOLEAN : EndTool(j)!(outcome, readOk, ok)
    BY <1>6 DEF EndTool
  <2>2. ok = TRUE
    BY <1>1, <1>2, <2>1, FreeOfFaults
  <2> DEFINE upd == Progress(j, readOk)
             w == [worker[j] EXCEPT
                     !.pc = IF worker[j].ran = Steps THEN "wrap" ELSE "check",
                     !.failed = @ \/ outcome = "FAIL"]
  <2>3. w.pc \in {"wrap", "check"} /\ worker[j].pc = "exec"
    BY <1>2, <2>1 DEF TypeOK, Workers
  <2>4. SetJob(j, upd, TRUE) /\ worker' = [worker EXCEPT ![j] = w]
        /\ UNCHANGED <<evicted, askedAt>>
    BY <2>1, <2>2
  <2> HIDE DEF w
  <2>5. Written(j, upd, w)
    BY <1>3, <2>3, <2>4 DEF Written, Alive
  <2> HIDE DEF upd
  <2> QED
    BY <2>5
<1>7. CASE Report(j)
  <2>1. PICK ok \in BOOLEAN : Report(j)!(ok)
    BY <1>7 DEF Report
  <2>2. ok = TRUE
    BY <1>1, <1>2, <2>1, FreeOfFaults
  <2> DEFINE overall == Overall(worker[j])
             upd == [status |-> TerminalStatus(overall), result |-> overall]
             w == [worker[j] EXCEPT !.pc = "done"]
  <2>3. w.pc = "done" /\ worker[j].pc = "report"
    BY <1>2, <2>1 DEF TypeOK, Workers
  <2>4. SetJob(j, upd, TRUE) /\ worker' = [worker EXCEPT ![j] = w]
        /\ UNCHANGED <<evicted, askedAt>>
    BY <2>1, <2>2
  <2>5. upd["status"] \in Terminal /\ "status" \in DOMAIN upd
    BY OverallType DEF TerminalStatus, Terminal
  <2>6. upd["status"] = "canceled" => askedAt[j] # NotAsked
    <3>1. upd["status"] = "canceled" => worker[j].canceled
      BY OverallType DEF TerminalStatus, Overall
    <3>2. worker[j].canceled => askedAt[j] < Steps
      BY <1>2 DEF Trace, Cause
    <3> QED
      BY <3>1, <3>2, StepsAssumption DEF NotAsked
  <2> HIDE DEF w, upd
  <2>7. Written(j, upd, w)
    BY <2>3, <2>4, <2>5, <2>6 DEF Written, Alive
  <2> QED
    BY <2>7
<1>8. CASE Abort(j)
  <2>1. PICK ok \in BOOLEAN : Abort(j)!(ok)
    BY <1>8 DEF Abort
  <2>2. ~ Pay(1)
    BY <1>2, PayIntact
  <2>3. ok = TRUE
    BY <1>1, <1>2, <2>1, <2>2, FreeOfFaults
  <2> DEFINE upd == [status |-> "failed"]
             w == [worker[j] EXCEPT !.pc = "done"]
  <2>4. w.pc = "done" /\ worker[j].pc \in Alive
    BY <1>2, <2>1 DEF TypeOK, Workers, Alive
  <2>5. SetJob(j, upd, TRUE) /\ worker' = [worker EXCEPT ![j] = w]
        /\ UNCHANGED <<evicted, askedAt>>
    BY <2>1, <2>3
  <2> HIDE DEF w
  <2>6. Written(j, upd, w)
    BY <2>4, <2>5 DEF Written, Terminal
  <2> HIDE DEF upd
  <2> QED
    BY <2>6
<1>9. CASE Reject(j)
  <2>1. PICK ok \in BOOLEAN : Reject(j)!(ok)
    BY <1>9 DEF Reject
  <2>2. ok = TRUE
    BY <1>1, <1>2, <2>1, FreeOfFaults
  <2> DEFINE upd == [status |-> "failed"]
             w == [worker[j] EXCEPT !.pc = "done"]
  <2>3. w.pc = "done" /\ worker[j].pc = "none"
    BY <1>2, <2>1 DEF TypeOK, Workers
  <2>4. SetJob(j, upd, TRUE) /\ worker' = [worker EXCEPT ![j] = w]
        /\ UNCHANGED <<evicted, askedAt>>
    BY <2>1, <2>2
  <2> HIDE DEF w
  <2>5. Written(j, upd, w)
    BY <2>3, <2>4 DEF Written
  <2> HIDE DEF upd
  <2> QED
    BY <2>5
<1> QED
  BY <1>4, <1>5, <1>6, <1>7, <1>8, <1>9

LEMMA WorkerTold ==
  ASSUME LInv, NEW j \in Jobs, NEW upd, NEW w, Written(j, upd, w)
  PROVE  \A k \in Jobs : Told(k)'
<1>1. /\ SetJob(j, upd, TRUE) /\ "status" \in DOMAIN upd
      /\ worker' = [worker EXCEPT ![j] = w] /\ UNCHANGED evicted
  BY DEF Written
<1>2. upd["status"] \in IF w.pc = "done" THEN Terminal ELSE Active
  BY DEF Written, Alive, Terminal
<1> QED
  BY <1>1, <1>2, WriteTold

LEMMA WorkerLife ==
  ASSUME LInv, LInv', NEW j \in Jobs, NEW upd, NEW w, Written(j, upd, w)
  PROVE  Lifecycle!Next \/ UNCHANGED Lifecycle!vars
<1>1. /\ SetJob(j, upd, TRUE) /\ "status" \in DOMAIN upd /\ w.pc # "none"
      /\ worker' = [worker EXCEPT ![j] = w] /\ UNCHANGED <<evicted, askedAt>>
  BY DEF Written, Alive
<1>2. Phase' = [Phase EXCEPT ![j] =
                  IF j \in evicted THEN "forgotten"
                  ELSE IF upd["status"] \in Active THEN "active"
                  ELSE upd["status"]]
  BY <1>1, WritePhase
<1>3. Phase[j] = PhaseOf(j) /\ Told(j) /\ UNCHANGED Asked
  BY <1>1, PhaseIs, LFacts DEF Asked, NotAsked
<1>4. CASE worker[j].pc # "none" /\ j \in evicted
  <2>1. Phase[j] = "forgotten"
    BY <1>3, <1>4 DEF PhaseOf
  <2> QED
    BY <1>2, <1>3, <1>4, <2>1, PhaseIs DEF Lifecycle!vars
<1>5. CASE /\ worker[j].pc \in Alive /\ w.pc \in Alive
           /\ upd["status"] \in Active /\ j \notin evicted
  <2>1. Phase[j] = "active"
    BY <1>3, <1>5 DEF PhaseOf, Told, Alive
  <2> QED
    BY <1>2, <1>3, <1>5, <2>1, PhaseIs DEF Lifecycle!vars
<1>6. CASE /\ worker[j].pc \in Alive /\ upd["status"] \in Terminal
           /\ j \notin evicted
           /\ upd["status"] = "canceled" => askedAt[j] # NotAsked
  <2>1. Phase[j] = "active"
    BY <1>3, <1>6 DEF PhaseOf, Told, Alive
  <2>2. Phase' = [Phase EXCEPT ![j] = upd["status"]]
    BY <1>2, <1>6 DEF Terminal, Active
  <2>3. upd["status"] \in Lifecycle!Ended
    BY <1>6 DEF Terminal, Lifecycle!Ended
  <2>4. upd["status"] = "canceled" => j \in Asked
    BY <1>6 DEF Asked
  <2>5. Lifecycle!Finish(j, upd["status"])
    BY <1>3, <2>1, <2>2, <2>3, <2>4 DEF Lifecycle!Finish
  <2> QED
    BY <2>3, <2>5 DEF Lifecycle!Next
<1>7. CASE worker[j].pc = "none" /\ upd["status"] = "failed"
  <2>1. Phase[j] = "new" /\ j \notin evicted
    BY <1>3, <1>7, LFacts DEF PhaseOf, IInv, UnusedIsClean
  <2>2. Phase' = [Phase EXCEPT ![j] = "failed"]
    BY <1>2, <1>7, <2>1 DEF Active
  <2>3. Lifecycle!Refuse(j)
    BY <1>3, <2>1, <2>2 DEF Lifecycle!Refuse
  <2> QED
    BY <2>3 DEF Lifecycle!Next
<1> QED
  BY <1>4, <1>5, <1>6, <1>7 DEF Written, Alive

(***************************************************************************)
(* A cancel, and what it finds in the table.                               *)
(***************************************************************************)
LEMMA CancelFinds ==
  ASSUME LInv, faults' = 0, NEW j \in Jobs, Cancel(j)
  PROVE  /\ UNCHANGED <<worker, evicted>> /\ worker[j].pc # "none"
         /\ \A k \in Jobs \ {j} : db'[k] = db[k]
         /\ \/ /\ db[j].status \in Terminal /\ db'[j].status = db[j].status
               /\ Asked' = Asked
            \/ /\ db[j].status \notin Terminal
               /\ db'[j].status = CancelStatus(db[j].status)
               /\ Asked' = Asked \cup {j}
<1>1. PICK readOk \in BOOLEAN, ok \in BOOLEAN : Cancel(j)!(readOk, ok)
  BY DEF Cancel
<1>2. TypeOK /\ IInv /\ Alike
  BY LFacts
<1>3. readOk = TRUE /\ ok = TRUE
  <2>1. Cost(readOk) \in Nat /\ Cost(ok) \in Nat
    BY CostType
  <2>2. Cost(readOk) + Cost(ok) = 0
    BY <1>1, <1>2, <2>1, PayIntact
  <2> QED
    BY <2>1, <2>2, CostZero
<1>4. j \in InDb /\ db[j].status # "absent" /\ View(j).status = db[j].status
  BY <1>1, <1>2 DEF Alike, Copied, InDb, View
<1>5. CancelReads(j, readOk) = db[j].status
  BY <1>3, <1>4 DEF CancelReads
<1>6. worker[j].pc # "none"
  BY <1>2, <1>4 DEF IInv, UnusedIsClean, NoDbRow
<1>7. CASE db[j].status \in Terminal
  <2> DEFINE upd == [cancel |-> TRUE]
  <2>1. SetJob(j, upd, TRUE) /\ UNCHANGED askedAt /\ "status" \notin DOMAIN upd
    BY <1>1, <1>3, <1>5, <1>7
  <2> HIDE DEF upd
  <2>2. db'[j].status = db[j].status /\ \A k \in Jobs \ {j} : db'[k] = db[k]
    BY <1>2, <1>4, <2>1, SetJobLeaves
  <2>3. Asked' = Asked
    BY <2>1 DEF Asked, NotAsked
  <2> QED
    BY <1>1, <1>6, <1>7, <2>2, <2>3
<1>8. CASE db[j].status \notin Terminal
  <2> DEFINE upd == [cancel |-> TRUE, status |-> CancelStatus(db[j].status)]
  <2>1. SetJob(j, upd, TRUE)
    BY <1>1, <1>3, <1>5, <1>8
  <2>2. "status" \in DOMAIN upd /\ upd["status"] = CancelStatus(db[j].status)
    OBVIOUS
  <2> HIDE DEF upd
  <2>3. /\ db'[j].status = CancelStatus(db[j].status)
        /\ \A k \in Jobs \ {j} : db'[k] = db[k]
    BY <1>2, <2>1, <2>2, StatusWritten
  <2>4. askedAt' = IF askedAt[j] = NotAsked
                   THEN [askedAt EXCEPT ![j] = worker[j].ran] ELSE askedAt
    BY <1>1, <1>5, <1>8
  <2>5. worker[j].ran # NotAsked
    BY <1>2, StepsAssumption DEF TypeOK, Workers, NotAsked
  <2>6. Asked' = Asked \cup {j}
    <3>1. j \in Asked' /\ \A k \in Jobs \ {j} : askedAt'[k] = askedAt[k]
      BY <1>2, <2>4, <2>5 DEF Asked, TypeOK, NotAsked
    <3>2. \A k \in Jobs \ {j} : k \in Asked' <=> k \in Asked
      BY <3>1 DEF Asked, NotAsked
    <3> QED
      BY <3>1, <3>2 DEF Asked
  <2> QED
    BY <1>1, <1>6, <1>8, <2>3, <2>6
<1> QED
  BY <1>7, <1>8

LEMMA CancelTold ==
  ASSUME LInv, faults' = 0, NEW j \in Jobs, Cancel(j)
  PROVE  \A k \in Jobs : Told(k)'
<1> SUFFICES ASSUME NEW k \in Jobs PROVE Told(k)'
  OBVIOUS
<1>1. Told(k) /\ UNCHANGED <<worker, evicted>>
  BY CancelFinds, LFacts
<1>2. CASE k # j
  BY <1>1, <1>2, CancelFinds DEF Told
<1>3. CASE k = j
  <2>1. db'[j].status \in {db[j].status, "canceling"}
    BY CancelFinds DEF CancelStatus
  <2>2. db'[j].status = "canceling" => db[j].status \notin Terminal
    BY CancelFinds DEF CancelStatus, Terminal
  <2> QED
    BY <1>1, <1>3, <2>1, <2>2 DEF Told, Active, Terminal
<1> QED
  BY <1>2, <1>3

LEMMA CancelLife ==
  ASSUME LInv, LInv', NEW j \in Jobs, Cancel(j)
  PROVE  Lifecycle!Next \/ UNCHANGED Lifecycle!vars
<1>1. faults' = 0
  BY DEF LInv
<1>2. UNCHANGED <<worker, evicted>> /\ worker[j].pc # "none" /\ Told(j)
  BY <1>1, CancelFinds, LFacts
<1>3. ASSUME NEW k \in Jobs PROVE Phase'[k] = Phase[k]
  <2>1. CASE k # j
    <3>1. PhaseOf(k)' = PhaseOf(k)
      BY <1>1, <1>2, <2>1, CancelFinds DEF PhaseOf
    <3> QED
      BY <3>1, PhaseIs
  <2>2. CASE k = j /\ j \in evicted
    <3>1. PhaseOf(k)' = "forgotten" /\ PhaseOf(k) = "forgotten"
      BY <1>2, <2>2 DEF PhaseOf
    <3> QED
      BY <3>1, PhaseIs
  <2>3. CASE k = j /\ j \notin evicted
    <3>1. db'[j].status = db[j].status
          \/ (db[j].status \in Active /\ db'[j].status \in Active)
      BY <1>1, <1>2, <2>3, CancelFinds DEF Told, CancelStatus, Active
    <3>2. PhaseOf(j)' = PhaseOf(j)
      BY <1>2, <2>3, <3>1 DEF PhaseOf
    <3> QED
      BY <2>3, <3>2, PhaseIs
  <2> QED
    BY <2>1, <2>2, <2>3
<1>4. UNCHANGED Phase
  BY <1>3, PhaseIs
<1>5. CASE Asked' = Asked
  BY <1>4, <1>5 DEF Lifecycle!vars
<1>6. CASE db[j].status \notin Terminal /\ Asked' = Asked \cup {j}
  <2>1. Phase[j] \in {"active", "forgotten"}
    BY <1>2, <1>6, PhaseIs DEF PhaseOf, Told
  <2>2. Lifecycle!Ask(j)
    BY <1>4, <1>6, <2>1 DEF Lifecycle!Ask
  <2> QED
    BY <2>2 DEF Lifecycle!Next
<1> QED
  BY <1>1, <1>5, <1>6, CancelFinds

(***************************************************************************)
(* A launch: a new job, and those that the prune has dropped.              *)
(***************************************************************************)
LEMMA LaunchGone ==
  ASSUME LInv, faults' = 0, NEW j \in Jobs, NEW s \in Sessions, Launch(j, s)
  PROVE  \E gone \in SUBSET Jobs :
           /\ j \notin gone /\ j \notin evicted /\ evicted' = evicted \cup gone
           /\ \A k \in gone : worker[k].pc # "none"
           /\ \A k \in Jobs \ {j} : worker'[k] = worker[k]
           /\ \A k \in Jobs \ {j} : k \notin gone => db'[k] = db[k]
           /\ worker[j].pc = "none" /\ worker'[j].pc = "spawned"
           /\ db'[j].status = "queued" /\ UNCHANGED askedAt
<1> DEFINE memOut == Surplus(InMem, memOlder)
<1>1. PICK okPrune \in BOOLEAN, okRow \in BOOLEAN, okPayload \in BOOLEAN :
        Launch(j, s)!(okPrune, okRow, okPayload)
  BY DEF Launch
<1> DEFINE dbOut == IF memOut # {} /\ okPrune THEN Surplus(InDb, dbOlder)
                    ELSE {}
           row(r) == IF okRow THEN Upsert(r, [status |-> "queued"]) ELSE r
           paid(r) == IF okPayload THEN Upsert(r, [payload |-> s]) ELSE r
           gone == memOut \cup dbOut
<1>2. TypeOK /\ IInv
  BY LFacts
<1>3. okRow /\ okPayload
  <2>1. Cost(okPrune) \in Nat /\ Cost(okRow) \in Nat /\ Cost(okPayload) \in Nat
    BY CostType
  <2>2. Cost(okPrune) + Cost(okRow) + Cost(okPayload) = 0
    BY <1>1, <1>2, <2>1, PayIntact
  <2> QED
    BY <2>1, <2>2, CostZero
<1>4. /\ db'[j] = paid(row(NoDbRow))
      /\ \A k \in Jobs \ {j} : db'[k] = IF k \in dbOut THEN NoDbRow ELSE db[k]
  BY <1>1
<1>5. db'[j].status = "queued"
  BY <1>3, <1>4 DEF Upsert, Put, NoDbRow, FreshDbRow
<1>6. /\ worker[j].pc = "none" /\ UNCHANGED askedAt
      /\ evicted' = evicted \cup memOut \cup dbOut
      /\ worker' = [worker EXCEPT ![j] = Spawned(s)]
  BY <1>1
<1>7. worker'[j].pc = "spawned" /\ \A k \in Jobs \ {j} : worker'[k] = worker[k]
  BY <1>2, <1>6 DEF TypeOK, Spawned
<1>8. \A k \in gone : k \in Jobs /\ (k \in InMem \/ k \in InDb)
  BY DEF Surplus, InMem, InDb
<1>9. \A k \in Jobs : worker[k].pc = "none" => k \notin InMem /\ k \notin InDb
  BY <1>2 DEF IInv, UnusedIsClean, InMem, InDb, NoDbRow
<1>10. j \notin evicted
  BY <1>2, <1>6 DEF IInv, UnusedIsClean
<1>11. evicted' = evicted \cup gone /\ dbOut \subseteq gone
  BY <1>6
<1> HIDE DEF memOut, dbOut, gone
<1>12. gone \in SUBSET Jobs /\ j \notin gone /\ \A k \in gone : worker[k].pc # "none"
  BY <1>6, <1>8, <1>9
<1>13. \A k \in Jobs \ {j} : k \notin gone => db'[k] = db[k]
  BY <1>4, <1>11
<1> QED
  BY <1>5, <1>6, <1>7, <1>10, <1>11, <1>12, <1>13

LEMMA LaunchTold ==
  ASSUME LInv, faults' = 0, NEW j \in Jobs, NEW s \in Sessions, Launch(j, s)
  PROVE  \A k \in Jobs : Told(k)'
<1>1. PICK gone \in SUBSET Jobs :
           /\ j \notin gone /\ j \notin evicted /\ evicted' = evicted \cup gone
           /\ \A k \in Jobs \ {j} : worker'[k] = worker[k]
           /\ \A k \in Jobs \ {j} : k \notin gone => db'[k] = db[k]
           /\ worker'[j].pc = "spawned" /\ db'[j].status = "queued"
  BY LaunchGone
<1>2. Told(j)'
  BY <1>1 DEF Told, Active
<1>3. ASSUME NEW k \in Jobs \ {j} PROVE Told(k)'
  <2>1. Told(k)
    BY LFacts
  <2> QED
    BY <1>1, <2>1 DEF Told
<1> QED
  BY <1>2, <1>3

LEMMA LaunchLife ==
  ASSUME LInv, LInv', NEW j \in Jobs, NEW s \in Sessions, Launch(j, s)
  PROVE  Lifecycle!Next
<1>1. faults' = 0
  BY DEF LInv
<1>2. PICK gone \in SUBSET Jobs :
           /\ j \notin gone /\ j \notin evicted /\ evicted' = evicted \cup gone
           /\ \A k \in gone : worker[k].pc # "none"
           /\ \A k \in Jobs \ {j} : worker'[k] = worker[k]
           /\ \A k \in Jobs \ {j} : k \notin gone => db'[k] = db[k]
           /\ worker[j].pc = "none" /\ worker'[j].pc = "spawned"
           /\ db'[j].status = "queued" /\ UNCHANGED askedAt
  BY <1>1, LaunchGone
<1>3. Phase[j] = "new" /\ Phase'[j] = "active"
  BY <1>2, PhaseIs DEF PhaseOf, Active
<1>4. ASSUME NEW k \in gone PROVE Phase[k] # "new" /\ Phase'[k] = "forgotten"
  <2>1. k \in Jobs /\ k # j /\ worker[k].pc # "none"
    BY <1>2
  <2>2. PhaseOf(k)' = "forgotten"
    BY <1>2, <2>1 DEF PhaseOf
  <2>3. PhaseOf(k) # "new"
    <3>1. Told(k)
      BY <2>1, LFacts
    <3> QED
      BY <2>1, <3>1 DEF PhaseOf, Told, Terminal, Active
  <2> QED
    BY <2>1, <2>2, <2>3, PhaseIs
<1>5. ASSUME NEW k \in Jobs \ {j}, k \notin gone PROVE Phase'[k] = Phase[k]
  <2>1. PhaseOf(k)' = PhaseOf(k)
    BY <1>2, <1>5 DEF PhaseOf
  <2> QED
    BY <2>1, PhaseIs
<1>6. Phase' = [k \in Jobs |-> IF k = j THEN "active"
                               ELSE IF k \in gone THEN "forgotten" ELSE Phase[k]]
  BY <1>3, <1>4, <1>5, PhaseIs
<1>7. Asked' = Asked
  BY <1>2 DEF Asked, NotAsked
<1>8. Lifecycle!Submit(j, gone)
  BY <1>2, <1>3, <1>4, <1>6, <1>7 DEF Lifecycle!Submit
<1> QED
  BY <1>8 DEF Lifecycle!Next

(***************************************************************************)
(* Steps that change no row and no outcome.                                *)
(***************************************************************************)
Quiet ==
  /\ UNCHANGED <<db, evicted, askedAt>>
  /\ \A k \in Jobs : /\ worker'[k].pc = "none" <=> worker[k].pc = "none"
                     /\ worker'[k].pc = "done" <=> worker[k].pc = "done"

LEMMA QuietSteps ==
  ASSUME TypeOK,
         \/ \E j \in Jobs : StartTool(j) \/ WrapUp(j)
         \/ \E s \in Sessions : InlineRun(s) \/ ReviewPatch(s) \/ Export(s)
         \/ Crash \/ UNCHANGED vars
  PROVE  Quiet
<1>1. ASSUME NEW j \in Jobs, StartTool(j) \/ WrapUp(j) PROVE Quiet
  <2>1. /\ UNCHANGED <<db, evicted, askedAt>>
        /\ worker[j].pc \in {"check", "wrap"}
        /\ worker'[j].pc \in {"exec", "report"}
        /\ \A k \in Jobs \ {j} : worker'[k] = worker[k]
    BY <1>1 DEF StartTool, WrapUp, TypeOK, Workers
  <2> QED
    BY <2>1 DEF Quiet
<1>2. ASSUME NEW s \in Sessions, InlineRun(s) \/ ReviewPatch(s) \/ Export(s)
      PROVE  Quiet
  BY <1>2 DEF InlineRun, ReviewPatch, Export, Quiet
<1>3. CASE Crash
  BY <1>3 DEF Crash, Quiet, TypeOK, Workers, Alive
<1>4. CASE UNCHANGED vars
  BY <1>4 DEF vars, Quiet
<1> QED
  BY <1>1, <1>2, <1>3, <1>4

LEMMA QuietTold == ASSUME LInv, Quiet PROVE \A k \in Jobs : Told(k)'
BY LFacts DEF Quiet, Told

LEMMA QuietLife == ASSUME LInv, LInv', Quiet PROVE UNCHANGED Lifecycle!vars
<1>1. ASSUME NEW k \in Jobs PROVE Phase'[k] = Phase[k]
  <2>1. PhaseOf(k)' = PhaseOf(k)
    BY DEF Quiet, PhaseOf
  <2> QED
    BY <2>1, PhaseIs
<1>2. Phase' = Phase
  BY <1>1, PhaseIs
<1> QED
  BY <1>2 DEF Quiet, Asked, NotAsked, Lifecycle!vars

(***************************************************************************)
(* All steps.                                                              *)
(***************************************************************************)
LEMMA RetryLaunches ==
  ASSUME TypeOK, NEW old \in Jobs, NEW j \in Jobs, Retry(old, j)
  PROVE  \E s \in Sessions : Launch(j, s)
BY DEF Retry, TypeOK, DbRows

LEMMA ToldStep ==
  ASSUME LInv, faults' = 0, [Next]_vars PROVE \A k \in Jobs : Told(k)'
<1>1. TypeOK
  BY LFacts
<1>2. ASSUME NEW j \in Jobs, NEW s \in Sessions, Start(j, s)
      PROVE  \A k \in Jobs : Told(k)'
  BY <1>2, LaunchTold DEF Start
<1>3. ASSUME NEW old \in Jobs, NEW j \in Jobs, Retry(old, j)
      PROVE  \A k \in Jobs : Told(k)'
  BY <1>1, <1>3, RetryLaunches, LaunchTold
<1>4. ASSUME NEW j \in Jobs, Cancel(j) PROVE \A k \in Jobs : Told(k)'
  BY <1>4, CancelTold
<1>5. ASSUME NEW j \in Jobs,
             Begin(j) \/ SkipTool(j) \/ EndTool(j) \/ Report(j) \/ Abort(j)
               \/ Reject(j)
      PROVE  \A k \in Jobs : Told(k)'
  BY <1>5, WorkerWrites, WorkerTold
<1>6. ASSUME \/ \E j \in Jobs : StartTool(j) \/ WrapUp(j)
             \/ \E s \in Sessions : InlineRun(s) \/ ReviewPatch(s) \/ Export(s)
             \/ Crash \/ UNCHANGED vars
      PROVE  \A k \in Jobs : Told(k)'
  BY <1>1, <1>6, QuietSteps, QuietTold
<1> QED
  BY <1>2, <1>3, <1>4, <1>5, <1>6 DEF Next, WorkerStep

LEMMA LifeStep ==
  ASSUME LInv, LInv', [Next]_vars
  PROVE  Lifecycle!Next \/ UNCHANGED Lifecycle!vars
<1>1. TypeOK /\ faults' = 0
  BY LFacts DEF LInv
<1>2. ASSUME NEW j \in Jobs, NEW s \in Sessions, Start(j, s)
      PROVE  Lifecycle!Next
  BY <1>2, LaunchLife DEF Start
<1>3. ASSUME NEW old \in Jobs, NEW j \in Jobs, Retry(old, j)
      PROVE  Lifecycle!Next
  BY <1>1, <1>3, RetryLaunches, LaunchLife
<1>4. ASSUME NEW j \in Jobs, Cancel(j)
      PROVE  Lifecycle!Next \/ UNCHANGED Lifecycle!vars
  BY <1>4, CancelLife
<1>5. ASSUME NEW j \in Jobs,
             Begin(j) \/ SkipTool(j) \/ EndTool(j) \/ Report(j) \/ Abort(j)
               \/ Reject(j)
      PROVE  Lifecycle!Next \/ UNCHANGED Lifecycle!vars
  BY <1>1, <1>5, WorkerWrites, WorkerLife
<1>6. ASSUME \/ \E j \in Jobs : StartTool(j) \/ WrapUp(j)
             \/ \E s \in Sessions : InlineRun(s) \/ ReviewPatch(s) \/ Export(s)
             \/ Crash \/ UNCHANGED vars
      PROVE  UNCHANGED Lifecycle!vars
  BY <1>1, <1>6, QuietSteps, QuietLife
<1> QED
  BY <1>2, <1>3, <1>4, <1>5, <1>6 DEF Next, WorkerStep

(***************************************************************************)
(* As long as the database answers, what readers are told of a job is its  *)
(* life cycle: active once, ended once and for good, canceled only for     *)
(* those who asked, whatever restarts, retries and late cancels do         *)
(* (cancel_pipeline, _run_pipeline_job, _prune_pipeline_jobs).             *)
(***************************************************************************)
THEOREM IsLifecycle ==
  ASSUME MaxFaults = 0 PROVE Spec => ImplementsLifecycle
<1>1. Init => LInv /\ Lifecycle!Init
  <2> SUFFICES ASSUME Init PROVE LInv /\ Lifecycle!Init
    OBVIOUS
  <2>1. CInv
    <3>1. ASSUME NEW j \in Jobs PROVE Trace(j)
      BY DEF Init, Trace, Cause, Course, Outcome, Idle, Alive, NoMemRow, NoDbRow
    <3> QED
      BY <3>1, InitKeeps DEF CInv
  <2>2. MInv
    <3>1. InMem = {} /\ InDb = {}
      BY DEF Init, InMem, InDb, NoDbRow
    <3>2. \A j \in Jobs : Copied(j)
      BY <3>1 DEF Init, Copied, NoMemRow
    <3> QED
      BY <3>1, <3>2, InitInv, FS_EmptySet DEF MInv, Alike, Init
  <2>3. \A j \in Jobs : worker[j].pc = "none"
    BY DEF Init, Idle
  <2>4. faults = 0 /\ \A j \in Jobs : Told(j)
    BY <2>3 DEF Init, Told
  <2>5. LInv
    BY <2>1, <2>2, <2>4 DEF LInv
  <2>6. Phase = [j \in Jobs |-> "new"]
    <3>1. \A j \in Jobs : Phase[j] = "new"
      BY <2>3, <2>5, PhaseIs DEF PhaseOf
    <3> QED
      BY <3>1, PhaseIs
  <2>7. Asked = {}
    BY DEF Init, Asked
  <2> QED
    BY <2>5, <2>6, <2>7 DEF Lifecycle!Init
<1>2. LInv /\ [Next]_vars => LInv'
  <2> SUFFICES ASSUME LInv, [Next]_vars PROVE LInv'
    OBVIOUS
  <2>1. KInv' /\ MInv'
    BY StepKeeps, StepAlike DEF LInv, CInv
  <2>2. CInv'
    BY <2>1, StepTrace DEF LInv, CInv
  <2>3. faults' = 0
    BY <2>1 DEF MInv, IInv, TypeOK
  <2> QED
    BY <2>1, <2>2, <2>3, ToldStep DEF LInv
<1>3. LInv /\ LInv' /\ [Next]_vars => [Lifecycle!Next]_(Lifecycle!vars)
  BY LifeStep
<1> QED
  BY <1>1, <1>2, <1>3, PTL DEF Spec, ImplementsLifecycle, Lifecycle!Spec
=============================================================================
