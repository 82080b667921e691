--------------------------- MODULE LocalTerminal ---------------------------
(***************************************************************************)
(* The shells of app/services/terminal_service.py and the agent mode of     *)
(* app/routes/terminal_routes.py.                                           *)
(*                                                                         *)
(* A terminal keeps the number of its pty, not the pty: the number is free  *)
(* again as soon as somebody closes it and the next pty gets the lowest one *)
(* free.  Nothing looks at the process of a shell: its end shows only when  *)
(* a read of the pty fails, which it does when the last process that holds  *)
(* the other side is gone.  Green threads: a reader waits in select for up  *)
(* to 0.2 s, and the event loop takes one waiting reader per number.        *)
(* Shells, the kernel's numbers, the model and the commands are external.   *)
(***************************************************************************)
EXTENDS Naturals, FiniteSets, Sequences, FiniteSetsExt

CONSTANTS
  Terminals,     \* session ids
  MaxNumber,     \* descriptor numbers in use at most
  MaxKills,      \* bound on terminal:kill of one terminal
  MaxCommands,   \* commands in an answer of the model
  MaxAuditFaults \* bound on writes of the audit that fail

Commands == {"denied", "quick", "slow", "broken"}
Numbers == 1 .. MaxNumber

ASSUME TerminalAssumption ==
  /\ "free" \notin Terminals
  /\ MaxNumber \in Nat /\ MaxKills \in Nat
  /\ MaxCommands \in Nat /\ MaxAuditFaults \in Nat

VARIABLES
  number,     \* master_fd of a terminal, 0 before it is made
  alive,      \* the flag of the session
  shell,      \* the process: none, running or ended
  orphan,     \* has an ended shell left a process that holds the pty?
  waiting,    \* its reader is in select
  ownerOf,    \* number -> the terminal whose pty it is, or Free
  kills,      \* how often a terminal was killed
  crowded,    \* terminals made while a reader still waited on their number
  agent,      \* agent mode: idle, model, running or answered
  onTerminal, \* the terminal of the request
  todo,       \* commands of the answer not handled yet
  outputs,    \* what the request returns: each command with its text
  audit,      \* the rows of terminal_command_audit
  auditFaults

ptyVars == <<number, alive, shell, orphan, waiting, ownerOf, kills, crowded>>
agentVars == <<agent, onTerminal, todo, outputs, audit, auditFaults>>
terminalVars == <<ptyVars, agentVars>>

Free == "free"

TerminalInit ==
  /\ number = [t \in Terminals |-> 0]
  /\ alive = [t \in Terminals |-> FALSE]
  /\ shell = [t \in Terminals |-> "none"]
  /\ orphan = [t \in Terminals |-> FALSE]
  /\ waiting = [t \in Terminals |-> FALSE]
  /\ ownerOf = [n \in Numbers |-> Free]
  /\ kills = [t \in Terminals |-> 0] /\ crowded = {}
  /\ agent = "idle" /\ onTerminal = Free
  /\ todo = <<>> /\ outputs = <<>> /\ audit = <<>> /\ auditFaults = 0

Made(t) == number[t] # 0
FreeNumbers == {n \in Numbers : ownerOf[n] = Free}
Owns(t) == Made(t) /\ ownerOf[number[t]] = t
WaitingOn(n) == {t \in Terminals : waiting[t] /\ number[t] = n}

----------------------------------------------------------------------------
\* create_session: a pty, a shell and a reader.  The event loop refuses a
\* second reader of one number, and the reader then calls the session dead.
CreateTerminal(t) ==
  /\ ~Made(t) /\ FreeNumbers # {}
  /\ LET n == Min(FreeNumbers)
         accepted == WaitingOn(n) = {}
     IN  /\ number' = [number EXCEPT ![t] = n]
         /\ ownerOf' = [ownerOf EXCEPT ![n] = t]
         /\ waiting' = [waiting EXCEPT ![t] = accepted]
         /\ alive' = [alive EXCEPT ![t] = accepted]
         /\ crowded' = IF accepted THEN crowded ELSE crowded \cup {t}
  /\ shell' = [shell EXCEPT ![t] = "running"]
  /\ UNCHANGED <<orphan, kills>>

\* The shell ends; what it started in the background may hold the pty.
ShellExits(t) ==
  /\ shell[t] = "running"
  /\ shell' = [shell EXCEPT ![t] = "ended"]
  /\ \E left \in BOOLEAN : orphan' = [orphan EXCEPT ![t] = left]
  /\ UNCHANGED <<number, alive, waiting, ownerOf, kills, crowded>>

HolderExits(t) ==
  /\ orphan[t]
  /\ orphan' = [orphan EXCEPT ![t] = FALSE]
  /\ UNCHANGED <<number, alive, shell, waiting, ownerOf, kills, crowded>>

\* Whoever owns the number a reader waits on, nobody is left on the other side.
OtherSideGone(t) ==
  LET owner == ownerOf[number[t]]
  IN  waiting[t] /\ owner # Free /\ shell[owner] = "ended" /\ ~orphan[owner]

\* Mutant: the reader closes the number when it leaves.
ReaderSeesEndAndCloses(t) ==
  /\ OtherSideGone(t)
  /\ waiting' = [waiting EXCEPT ![t] = FALSE]
  /\ alive' = [alive EXCEPT ![t] = FALSE]
  /\ ownerOf' = [ownerOf EXCEPT ![number[t]] = Free]
  /\ UNCHANGED <<number, shell, orphan, kills, crowded>>

\* Mutant: the reader leaves and the session stays alive.
ReaderSeesEndOnly(t) ==
  /\ OtherSideGone(t)
  /\ waiting' = [waiting EXCEPT ![t] = FALSE]
  /\ UNCHANGED <<number, alive, shell, orphan, ownerOf, kills, crowded>>

\* The read fails: the reader leaves and the session is dead.  The number stays
\* open.
ReaderSeesEnd(t) ==
  /\ OtherSideGone(t)
  /\ waiting' = [waiting EXCEPT ![t] = FALSE]
  /\ alive' = [alive EXCEPT ![t] = FALSE]
  /\ UNCHANGED <<number, shell, orphan, ownerOf, kills, crowded>>

\* The wait of 0.2 s is over: a reader of a dead session leaves, and so does one
\* whose number is closed; any other waits again.
ReaderWakes(t) ==
  /\ waiting[t] /\ (~alive[t] \/ ownerOf[number[t]] = Free)
  /\ waiting' = [waiting EXCEPT ![t] = FALSE]
  /\ alive' = [alive EXCEPT ![t] = FALSE]
  /\ UNCHANGED <<number, shell, orphan, ownerOf, kills, crowded>>

\* kill: the flag, a signal to the process group, and the number is closed, each
\* time it is called.  Shells end of the signal or the lost pty when they like.
Kill(t) ==
  /\ Made(t) /\ kills[t] < MaxKills
  /\ alive' = [alive EXCEPT ![t] = FALSE]
  /\ ownerOf' = [ownerOf EXCEPT ![number[t]] = Free]
  /\ kills' = [kills EXCEPT ![t] = @ + 1]
  /\ UNCHANGED <<number, shell, orphan, waiting, crowded>>

----------------------------------------------------------------------------
\* terminal_agent_mode: a terminal is made when the id is new, then the model
\* is asked.
AgentAsks(t) ==
  /\ agent = "idle"
  /\ IF Made(t) THEN UNCHANGED ptyVars ELSE CreateTerminal(t)
  /\ agent' = "model" /\ onTerminal' = t
  /\ UNCHANGED <<todo, outputs, audit, auditFaults>>

\* extract_bash_blocks: the commands of the answer, in order.
ModelAnswers ==
  /\ agent = "model"
  /\ \E n \in 0 .. MaxCommands : todo' \in [1 .. n -> Commands]
  /\ agent' = "running"
  /\ UNCHANGED <<ptyVars, onTerminal, outputs, audit, auditFaults>>

\* What becomes of a command: the text the caller gets, and the audited row.  A
\* command that ran in silence returns its exit code as text.
CommandOutcomes(command) ==
  CASE command = "denied" -> [text : {"blocked"}, exit : {126}, allowed : {FALSE}]
    [] command = "slow" -> [text : {"timed out"}, exit : {124}, allowed : {TRUE}]
    [] command = "broken" -> [text : {"failed"}, exit : {127}, allowed : {TRUE}]
    [] command = "quick" -> [text : {"output", "(exit)"}, exit : {0, 1}, allowed : {TRUE}]

Audited(command, outcome) ==
  [command |-> command, exit |-> outcome.exit, allowed |-> outcome.allowed]

\* _record_audit: a failed write is swallowed.
RecordAudit(row) ==
  \/ /\ audit' = Append(audit, row)
     /\ UNCHANGED auditFaults
  \/ /\ auditFaults < MaxAuditFaults
     /\ auditFaults' = auditFaults + 1
     /\ UNCHANGED audit

\* execute_safe_command: a denied command is recorded and not run; any other is
\* run to its end, its time limit or its failure, and recorded.  The caller gets
\* the text only.
ExecuteSafeCommand ==
  /\ agent = "running" /\ todo # <<>>
  /\ \E outcome \in CommandOutcomes(Head(todo)) :
       /\ RecordAudit(Audited(Head(todo), outcome))
       /\ outputs' = Append(outputs, [command |-> Head(todo), text |-> outcome.text])
  /\ todo' = Tail(todo)
  /\ UNCHANGED <<ptyVars, agent, onTerminal>>

AgentAnswers ==
  /\ agent = "running" /\ todo = <<>>
  /\ agent' = "answered"
  /\ UNCHANGED <<ptyVars, onTerminal, todo, outputs, audit, auditFaults>>

TerminalNext ==
  \/ \E t \in Terminals : CreateTerminal(t) /\ UNCHANGED agentVars
  \/ \E t \in Terminals : ShellExits(t) /\ UNCHANGED agentVars
  \/ \E t \in Terminals : HolderExits(t) /\ UNCHANGED agentVars
  \/ \E t \in Terminals : ReaderSeesEnd(t) /\ UNCHANGED agentVars
  \/ \E t \in Terminals : ReaderWakes(t) /\ UNCHANGED agentVars
  \/ \E t \in Terminals : Kill(t) /\ UNCHANGED agentVars
  \/ \E t \in Terminals : AgentAsks(t)
  \/ ModelAnswers \/ ExecuteSafeCommand \/ AgentAnswers

TerminalSpec == TerminalInit /\ [][TerminalNext]_terminalVars

\* A reader runs when its read is ready or its wait is over.  Nothing is assumed
\* of shells, of what they leave behind, of users and of the agent.
TerminalFairness ==
  \A t \in Terminals :
    /\ WF_terminalVars(ReaderSeesEnd(t) /\ UNCHANGED agentVars)
    /\ WF_terminalVars(ReaderWakes(t) /\ UNCHANGED agentVars)

----------------------------------------------------------------------------
Outputs == [command : Commands, text : {"blocked", "timed out", "failed", "output", "(exit)"}]
Rows == [command : Commands, exit : {0, 1, 124, 126, 127}, allowed : BOOLEAN]

TerminalTypeOK ==
  /\ number \in [Terminals -> 0 .. MaxNumber]
  /\ alive \in [Terminals -> BOOLEAN] /\ waiting \in [Terminals -> BOOLEAN]
  /\ shell \in [Terminals -> {"none", "running", "ended"}]
  /\ orphan \in [Terminals -> BOOLEAN]
  /\ ownerOf \in [Numbers -> Terminals \cup {Free}]
  /\ kills \in [Terminals -> 0 .. MaxKills]
  /\ crowded \subseteq Terminals
  /\ agent \in {"idle", "model", "running", "answered"}
  /\ onTerminal \in Terminals \cup {Free}
  /\ todo \in Seq(Commands) /\ outputs \in Seq(Outputs) /\ audit \in Seq(Rows)
  /\ auditFaults \in 0 .. MaxAuditFaults

\* Another terminal of the same number was killed at least twice: the second
\* kill closes the number, whoever has it by then.
Robbed(t) ==
  \E u \in Terminals \ {t} : number[u] = number[t] /\ kills[u] >= 2

\* A session that is alive writes to its own pty: a number is not given away
\* under it, except by the second kill of another terminal.  And a session whose
\* pty is its own, with a shell or a process of it still there, is alive, except
\* one made while a reader of a killed session still waited on its number, which
\* is dead from the start.  That a session is alive says nothing of its shell.
\* (kill, terminal_service.py:159; _start_reader_thread, 96)
AliveMeansOwnPty ==
  \A t \in Terminals : Made(t) =>
    /\ alive[t] => Owns(t) \/ Robbed(t)
    /\ Owns(t) /\ (shell[t] = "running" \/ orphan[t]) => alive[t] \/ t \in crowded

\* The end of a shell is noticed once nothing holds its pty any more, although
\* nobody asks for the process: the session goes dead, or it has lost its number
\* to a kill of another.  (_start_reader_thread, terminal_service.py:98)
EndIsNoticed ==
  \A t \in Terminals :
    (Owns(t) /\ shell[t] = "ended" /\ ~orphan[t]) ~> (~alive[t] \/ ~Owns(t))
=============================================================================
