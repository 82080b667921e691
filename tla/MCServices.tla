----------------------------- MODULE MCServices -----------------------------
(***************************************************************************)
(* The services of the workbench that share no state, in one instance.      *)
(* Each behaviour is one of a single component, the focus: interleaving the *)
(* steps of components that cannot see each other would show nothing new.   *)
(***************************************************************************)
EXTENDS SshTerminal, AgentChat, TargetManager, UpstreamTracker, MCSeriesParser,
        Autofix, LocalTerminal

CONSTANTS s1, c1, d1, d2, j1, j2, j3, t1, t2, u1, u2, e1, f1, f2

VARIABLE focus

MCSessions == {s1}
MCChats == {c1}
MCSerials == {d1, d2}
MCJobs == {j1, j2, j3}
MCPending == {j1, j2}
MCTerminals == {t1, t2}
MCUrls == {u1, u2}
MCEditors == {e1}
MCPaths == {f1, f2}
MCRequests == {{}, {"panic", "storage", "gone"}}
MCBlobs == {[words |-> {}, replies |-> 1], [words |-> {"merged", "rejected"}, replies |-> 0]}

\* Two files of one name, and two texts: plain code with a printk and a blank
\* line that only trimming makes empty, and a diff.
MCBaseNameOf(p) == "driver.c"
MCSafeNameOf(s) == "default"
Line(what, blanks) == [kind |-> what, blanks |-> blanks]
MCTexts ==
  {<<Line("printk", FALSE), Line("empty", TRUE), Line("empty", FALSE), Line("empty", FALSE)>>,
   <<Line("header", FALSE), Line("added", TRUE)>>}
MCSelections == {Fixes}

----------------------------------------------------------------------------
Others(component) ==
  /\ component # "ssh" => UNCHANGED sshVars
  /\ component # "chat" => UNCHANGED chatVars
  /\ component # "target" => UNCHANGED targetVars
  /\ component # "tracker" => UNCHANGED trackerVars
  /\ component # "parser" => UNCHANGED parserVars
  /\ component # "autofix" => UNCHANGED autofixVars
  /\ component # "terminal" => UNCHANGED terminalVars

Only(component) == focus = component /\ Others(component) /\ UNCHANGED focus

Components == {"ssh", "chat", "target", "tracker", "parser", "autofix", "terminal"}

\* Only the focus starts in more than one way.
Init ==
  /\ focus \in Components
  /\ SshInit /\ ChatInit /\ TargetInit /\ TrackerInit /\ TerminalInit
  /\ IF focus = "parser" THEN ParserInit
     ELSE mailbox = <<>> /\ tracked = <<>> /\ series = {}
  /\ IF focus = "autofix" THEN AutofixInit
     ELSE AutofixInit /\ \A p, q \in Paths : disk[p] = disk[q] /\ ~disk[p].foreign /\ ~IsDiff(disk[p].text)

Next ==
  \/ SshNext /\ Only("ssh")
  \/ ChatNext /\ Only("chat")
  \/ TargetNext /\ Only("target")
  \/ TrackerNext /\ Only("tracker")
  \/ ParserNext /\ Only("parser")
  \/ AutofixNext /\ Only("autofix")
  \/ TerminalNext /\ Only("terminal")

serviceVars == <<focus, sshVars, chatVars, targetVars, trackerVars, parserVars,
                 autofixVars, terminalVars>>

\* SshFairness and TerminalFairness, where those terminals are the focus.
Fairness ==
  /\ \A s \in Sessions :
       /\ WF_serviceVars(TimerFires(s) /\ Only("ssh"))
       /\ WF_serviceVars(Deliver(s) /\ Only("ssh"))
       /\ SF_serviceVars(ReaderSeesExit(s) /\ Only("ssh"))
       /\ WF_serviceVars(ReaderStops(s) /\ Only("ssh"))
  /\ \A t \in Terminals :
       /\ WF_serviceVars(ReaderSeesEnd(t) /\ UNCHANGED agentVars /\ Only("terminal"))
       /\ WF_serviceVars(ReaderWakes(t) /\ UNCHANGED agentVars /\ Only("terminal"))

Spec == Init /\ [][Next]_serviceVars /\ Fairness

\* The requests on targets come in order, and the third only when it can get
\* the id of a target that was deleted under a validation.
RequestsInOrder ==
  /\ jobAt[j2] # "idle" => jobAt[j1] # "idle"
  /\ jobAt[j3] # "idle" =>
       /\ jobAt[j2] # "idle" /\ targetCrashes = 0
       /\ \E j \in {j1, j2} :
            /\ kind[j] = "validate" /\ deleted[j]
            /\ \A k \in MCJobs \ {j} : kind[k] = "connect" /\ onTarget[k] = onTarget[j]

----------------------------------------------------------------------------
\* The types of every component, whose states only the focus leaves.
TypesOK ==
  /\ SshTypeOK /\ ChatTypeOK /\ TargetTypeOK /\ TrackerTypeOK
  /\ AutofixTypeOK /\ TerminalTypeOK
=============================================================================
