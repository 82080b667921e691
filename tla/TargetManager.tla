--------------------------- MODULE TargetManager ---------------------------
(***************************************************************************)
(* The target manager: the routes of app/routes/target_manager.py and the   *)
(* plans, runs and verdicts of app/services/target_validation_service.py.   *)
(*                                                                         *)
(* A request (job) writes "connecting", waits for adb, and writes what came *)
(* of it to the row with the id it started from.  Ids are SQLite row ids:   *)
(* when the newest row goes, the next one gets its id.  The device, adb and *)
(* the page that reads the stream are external.                             *)
(***************************************************************************)
EXTENDS Naturals, FiniteSetsExt

CONSTANTS
  Serials,         \* serial numbers of devices
  Jobs,            \* requests that wait for adb
  Requests,        \* what a validation may say: sets of Topics
  MaxTargets,      \* bound on row ids
  MaxTargetCrashes \* bound on restarts of the server

\* What the words of a request ask for, and the words of failure in it.
Topics == {"reboot", "kernel", "panic", "audio", "memory", "performance", "network", "storage"}
            \cup {"bad", "gone"}

ASSUME TargetAssumption ==
  /\ Requests \subseteq SUBSET Topics
  /\ MaxTargets \in Nat /\ MaxTargetCrashes \in Nat

VARIABLES
  targets,    \* the targets table: id -> [serial, status], or NoTarget
  runs,       \* the validation_runs table: job -> [target, result], or NoRun
  kind,       \* what a job does
  jobAt,      \* how far it is
  onTarget,   \* the id it works on
  onSerial,   \* the serial it talks to
  asked,      \* the Topics of its request
  ran,        \* commands of its plan executed so far
  failures,   \* did one of them return non-zero?
  words,      \* the worst words of their output: clean, bad or gone
  shown,      \* the result the page was shown
  deleted,    \* was a target with that id deleted while the job ran?
  abandoned,  \* ids a dead job left "connecting"
  targetCrashes

jobData == <<kind, onTarget, onSerial, asked>>
jobRun == <<ran, failures, words, shown>>
targetVars == <<targets, runs, jobAt, jobData, jobRun, deleted, abandoned, targetCrashes>>

Ids == 1 .. MaxTargets
NoTarget == [serial |-> "none", status |-> "none"]
NoRun == [target |-> 0, result |-> "none"]
Results == {"PASS", "FAIL", "ERROR"}
Busy == {"adb", "commands", "result", "closing"}

TargetInit ==
  /\ targets = [i \in Ids |-> NoTarget]
  /\ runs = [j \in Jobs |-> NoRun]
  /\ kind = [j \in Jobs |-> "none"]
  /\ jobAt = [j \in Jobs |-> "idle"]
  /\ onTarget = [j \in Jobs |-> 0]
  /\ onSerial = [j \in Jobs |-> "none"]
  /\ asked = [j \in Jobs |-> {}]
  /\ ran = [j \in Jobs |-> 0]
  /\ failures = [j \in Jobs |-> FALSE]
  /\ words = [j \in Jobs |-> "clean"]
  /\ shown = [j \in Jobs |-> "none"]
  /\ deleted = [j \in Jobs |-> FALSE]
  /\ abandoned = {} /\ targetCrashes = 0

Known == {i \in Ids : targets[i] # NoTarget}
Working(j) == jobAt[j] \in Busy
JobsOn(i) == {j \in Jobs : Working(j) /\ onTarget[j] = i}

(***************************************************************************)
(* plan_commands: three commands for every device, more for the topics of   *)
(* the request, and three others when it named none.                        *)
(***************************************************************************)
CommandsFor(topic) ==
  IF topic \in {"kernel", "memory", "storage"} THEN 1
  ELSE IF topic \in {"panic", "bad", "gone"} THEN 0 ELSE 2

PlannedCommands(topics) ==
  LET extra == MapThenSumSet(CommandsFor, topics)
                 + (IF "panic" \in topics /\ "kernel" \notin topics THEN 1 ELSE 0)
  IN 3 + (IF extra = 0 THEN 3 ELSE extra)

(* summarize: words of failure count wherever they stand, in the output or  *)
(* in the request; a non-zero return only takes a PASS away.                *)
Says(j, what) == words[j] = what \/ what \in asked[j]

Summarize(j) ==
  IF Says(j, "gone") THEN "ERROR"
  ELSE IF Says(j, "bad") \/ "panic" \in asked[j] THEN "FAIL"
  ELSE IF failures[j] THEN "FAIL" ELSE "PASS"

----------------------------------------------------------------------------
(* A request begins: its row says "connecting", committed.                  *)
Begins(j, what, i, serial) ==
  /\ jobAt[j] = "idle"
  /\ targets' = [targets EXCEPT ![i] = [serial |-> serial, status |-> "connecting"]]
  /\ kind' = [kind EXCEPT ![j] = what]
  /\ onTarget' = [onTarget EXCEPT ![j] = i]
  /\ onSerial' = [onSerial EXCEPT ![j] = serial]
  /\ abandoned' = abandoned \ {i}
  /\ UNCHANGED <<runs, jobRun, deleted, targetCrashes>>

NextId == IF Known = {} THEN 1 ELSE Max(Known) + 1
RowOf(serial) == {i \in Known : targets[i].serial = serial}

ConnectTarget(j, serial) ==
  /\ \E i \in IF RowOf(serial) = {} THEN Ids \cap {NextId} ELSE RowOf(serial) :
       Begins(j, "connect", i, serial)
  /\ jobAt' = [jobAt EXCEPT ![j] = "adb"]
  /\ UNCHANGED asked

RefreshTarget(j, i) ==
  /\ i \in Known
  /\ Begins(j, "refresh", i, targets[i].serial)
  /\ jobAt' = [jobAt EXCEPT ![j] = "adb"]
  /\ UNCHANGED asked

ValidateTarget(j, i, topics) ==
  /\ i \in Known
  /\ Begins(j, "validate", i, targets[i].serial)
  /\ jobAt' = [jobAt EXCEPT ![j] = "commands"]
  /\ asked' = [asked EXCEPT ![j] = topics]

(***************************************************************************)
(* The end of a request: the row of that id gets its status, if there is    *)
(* one; otherwise the commit fails and nothing is written.                  *)
(***************************************************************************)
Settle(j, status) ==
  LET i == onTarget[j] IN
  targets' = IF i \in Known THEN [targets EXCEPT ![i].status = status] ELSE targets

Ends(j) ==
  /\ jobAt' = [jobAt EXCEPT ![j] = "over"]
  /\ UNCHANGED <<jobData, ran, failures, words, deleted, targetCrashes>>

CheckAnswers(j, ok) ==
  /\ jobAt[j] = "adb"
  /\ Settle(j, IF ok THEN "online" ELSE "offline")
  /\ Ends(j)
  /\ UNCHANGED <<runs, shown, abandoned>>

(* subprocess.run raises what check_target_connected does not expect.       *)
CheckRaises(j) ==
  /\ jobAt[j] = "adb"
  /\ abandoned' = abandoned \cup {onTarget[j]}
  /\ Ends(j)
  /\ UNCHANGED <<targets, runs, shown>>

(* The generator's finally clause: status and run row in one commit.        *)
Records(j, result) ==
  /\ Settle(j, IF result = "PASS" THEN "online" ELSE "offline")
  /\ runs' = IF onTarget[j] \in Known
               THEN [runs EXCEPT ![j] = [target |-> onTarget[j], result |-> result]]
               ELSE runs
  /\ Ends(j)
  /\ UNCHANGED abandoned

----------------------------------------------------------------------------
(* A command runs: its return code, the words of its output.  When adb is   *)
(* missing the plan ends there; a command that timed out returned 124.      *)
Outcomes == [rc : BOOLEAN, says : {"clean", "bad", "gone"}]
Worst(a, b) ==
  IF "gone" \in {a, b} THEN "gone" ELSE IF "bad" \in {a, b} THEN "bad" ELSE "clean"

CommandRuns(j, out) ==
  /\ jobAt[j] = "commands" /\ ran[j] < PlannedCommands(asked[j])
  /\ ran' = [ran EXCEPT ![j] = @ + 1]
  /\ failures' = [failures EXCEPT ![j] = @ \/ ~out.rc]
  /\ words' = [words EXCEPT ![j] = Worst(@, out.says)]
  /\ UNCHANGED <<targets, runs, jobAt, jobData, shown, deleted, abandoned, targetCrashes>>

AdbMissing(j) ==
  /\ jobAt[j] = "commands" /\ ran[j] < PlannedCommands(asked[j])
  /\ ran' = [ran EXCEPT ![j] = @ + 1]
  /\ failures' = [failures EXCEPT ![j] = TRUE]
  /\ words' = [words EXCEPT ![j] = "gone"]
  /\ jobAt' = [jobAt EXCEPT ![j] = "result"]
  /\ UNCHANGED <<targets, runs, jobData, shown, deleted, abandoned, targetCrashes>>

PlanEnds(j) ==
  /\ jobAt[j] = "commands" /\ ran[j] = PlannedCommands(asked[j])
  /\ jobAt' = [jobAt EXCEPT ![j] = "result"]
  /\ UNCHANGED <<targets, runs, jobData, jobRun, deleted, abandoned, targetCrashes>>

(* The summary has been written (by the model, perhaps) and is sent; only   *)
(* after that the generator takes over the result.                          *)
SendResult(j) ==
  /\ jobAt[j] = "result"
  /\ shown' = [shown EXCEPT ![j] = Summarize(j)]
  /\ jobAt' = [jobAt EXCEPT ![j] = "closing"]
  /\ UNCHANGED <<targets, runs, jobData, ran, failures, words, deleted, abandoned, targetCrashes>>

RecordResult(j) ==
  /\ jobAt[j] = "closing"
  /\ Records(j, shown[j])
  /\ UNCHANGED shown

(* An unexpected exception is shown and recorded as an error.               *)
ValidationRaises(j) ==
  /\ jobAt[j] \in {"commands", "result"}
  /\ shown' = [shown EXCEPT ![j] = "ERROR"]
  /\ Records(j, "ERROR")

\* Mutant: nothing is written when the page goes away.
PageLeavesUnseen(j) ==
  /\ jobAt[j] \in {"commands", "result", "closing"}
  /\ Ends(j)
  /\ UNCHANGED <<targets, runs, shown, abandoned>>

(* The page went away: the next event closes the generator, and its finally *)
(* clause records the result it has, the initial ERROR.                     *)
PageLeaves(j) ==
  /\ jobAt[j] \in {"commands", "result", "closing"}
  /\ Records(j, "ERROR")
  /\ UNCHANGED shown

----------------------------------------------------------------------------
\* Mutant: the rows of the runs stay.
DisconnectOnly(i) ==
  /\ i \in Known
  /\ targets' = [targets EXCEPT ![i] = NoTarget]
  /\ deleted' = [j \in Jobs |-> deleted[j] \/ j \in JobsOn(i)]
  /\ abandoned' = abandoned \ {i}
  /\ UNCHANGED <<runs, jobAt, jobData, jobRun, targetCrashes>>

(* The rows of its runs go with a target.                                   *)
DisconnectTarget(i) ==
  /\ i \in Known
  /\ targets' = [targets EXCEPT ![i] = NoTarget]
  /\ runs' = [j \in Jobs |-> IF runs[j].target = i THEN NoRun ELSE runs[j]]
  /\ deleted' = [j \in Jobs |-> deleted[j] \/ j \in JobsOn(i)]
  /\ abandoned' = abandoned \ {i}
  /\ UNCHANGED <<jobAt, jobData, jobRun, targetCrashes>>

TargetCrash ==
  /\ targetCrashes < MaxTargetCrashes /\ targetCrashes' = targetCrashes + 1
  /\ jobAt' = [j \in Jobs |-> IF Working(j) THEN "over" ELSE jobAt[j]]
  /\ abandoned' = abandoned \cup {onTarget[j] : j \in {k \in Jobs : Working(k)}}
  /\ UNCHANGED <<targets, runs, jobData, jobRun, deleted>>

JobNext(j) ==
  \/ \E serial \in Serials : ConnectTarget(j, serial)
  \/ \E i \in Ids : RefreshTarget(j, i)
  \/ \E i \in Ids, topics \in Requests : ValidateTarget(j, i, topics)
  \/ \E ok \in BOOLEAN : CheckAnswers(j, ok)
  \/ CheckRaises(j)
  \/ \E out \in Outcomes : CommandRuns(j, out)
  \/ AdbMissing(j) \/ PlanEnds(j) \/ SendResult(j) \/ RecordResult(j)
  \/ ValidationRaises(j) \/ PageLeaves(j)

TargetNext ==
  \/ \E j \in Jobs : JobNext(j)
  \/ \E i \in Ids : DisconnectTarget(i)
  \/ TargetCrash

TargetSpec == TargetInit /\ [][TargetNext]_targetVars

----------------------------------------------------------------------------
TargetTypeOK ==
  /\ targets \in [Ids -> [serial : Serials, status : {"connecting", "online", "offline"}]
                         \cup {NoTarget}]
  /\ runs \in [Jobs -> [target : Ids, result : Results] \cup {NoRun}]
  /\ kind \in [Jobs -> {"none", "connect", "refresh", "validate"}]
  /\ jobAt \in [Jobs -> Busy \cup {"idle", "over"}]
  /\ onTarget \in [Jobs -> Ids \cup {0}] /\ onSerial \in [Jobs -> Serials \cup {"none"}]
  /\ asked \in [Jobs -> SUBSET Topics] /\ ran \in [Jobs -> Nat]
  /\ failures \in [Jobs -> BOOLEAN] /\ words \in [Jobs -> {"clean", "bad", "gone"}]
  /\ shown \in [Jobs -> Results \cup {"none"}] /\ deleted \in [Jobs -> BOOLEAN]
  /\ abandoned \subseteq Ids /\ targetCrashes \in 0 .. MaxTargetCrashes

(* When no request works on a target its status is not "connecting",        *)
(* however the requests on it overlapped (target_manager.py:65), unless one *)
(* died: of an exception or with the process.                               *)
TargetSettles ==
  \A i \in Known \ abandoned :
    targets[i].status = "connecting" => JobsOn(i) # {}

(* What the runs table says of a run is what happened.  It is of a target   *)
(* with the serial it ran on, unless its target was deleted under it and    *)
(* the id is another target's by now; PASS and FAIL are what the page was   *)
(* shown, and PASS means that every command of the plan ran, returned zero  *)
(* and said nothing bad.  A page that left has an ERROR recorded, whatever  *)
(* it had been shown.  (stream_target_validation, target_manager.py:216)    *)
TargetRunIsTrue ==
  \A j \in Jobs : runs[j] # NoRun =>
    /\ deleted[j] \/ ( /\ runs[j].target \in Known
                       /\ targets[runs[j].target].serial = onSerial[j] )
    /\ runs[j].result \in {"PASS", "FAIL"} => shown[j] = runs[j].result
    /\ runs[j].result = "PASS" => /\ ran[j] = PlannedCommands(asked[j])
                                  /\ ~failures[j] /\ words[j] = "clean"
=============================================================================
