---------------------------- MODULE SshTerminal ----------------------------
(***************************************************************************)
(* The SSH terminal: the sessions of app/ssh_manager.py, the socket events  *)
(* of app/routes/terminal_routes.py, and the tabs of the terminal page      *)
(* (static/js/terminal/akdw_sessions.js and akdw_terminal.js).              *)
(*                                                                         *)
(* A connect waits twice: first for TCP, when the client has no transport   *)
(* that a close could reach ("dialing"), then for authentication and the    *)
(* shell ("shell").  Between two waits a handler runs alone.  The page      *)
(* receives the events of a session in order, later than they were sent; a  *)
(* request of the page is handled when it is made.  Session ids are fresh.  *)
(* The remote host, the network and the user are external.                  *)
(***************************************************************************)
EXTENDS Naturals, Sequences

CONSTANTS
  Sessions,    \* the ids the page will generate
  MaxInbox,    \* bound on the events of one session on their way to the page
  MaxFaults    \* bound on reloads, socket reconnects and server restarts

ASSUME SshAssumption == MaxInbox \in Nat \ {0} /\ MaxFaults \in Nat

VARIABLES
  conn,      \* how far SSHSession.connect is
  client,    \* SSHSession.client, as the transport it holds
  channel,   \* SSHSession.channel
  active,    \* SSHSession.active
  reader,    \* is the read loop alive?
  early,     \* was the session closed while it was dialing?
  table,     \* _sessions
  tab,       \* tabs[id].status
  timer,     \* pendingConnectTimers
  own,       \* tabs the page opened itself; the others it found in a listing
  room,      \* rooms the socket of the page has joined
  inbox,     \* events on their way to the page
  listing,   \* the answer to /api/terminal/sessions the page holds: id -> active
  faults

sshServer == <<conn, client, channel, active, reader, early, table>>
sshPage == <<tab, timer, own>>
sshNet == <<room, inbox>>
sshVars == <<sshServer, sshPage, sshNet, listing, faults>>

Events == {"connected", "closed", "error"}
NoListing == [s \in {} |-> FALSE]

SshInit ==
  /\ conn = [s \in Sessions |-> "idle"]
  /\ client = [s \in Sessions |-> "none"]
  /\ channel = [s \in Sessions |-> "none"]
  /\ active = [s \in Sessions |-> FALSE]
  /\ reader = [s \in Sessions |-> FALSE]
  /\ early = [s \in Sessions |-> FALSE]
  /\ table = {}
  /\ tab = [s \in Sessions |-> "none"]
  /\ timer = [s \in Sessions |-> FALSE]
  /\ own = {} /\ room = {}
  /\ inbox = [s \in Sessions |-> <<>>]
  /\ listing = NoListing /\ faults = 0

(* socketio.emit(event, room=s): only a page that is in the room gets it.   *)
EmitTo(s, event) ==
  /\ s \in room => Len(inbox[s]) < MaxInbox
  /\ inbox' = IF s \in room THEN [inbox EXCEPT ![s] = Append(@, event)] ELSE inbox

(***************************************************************************)
(* Connecting.  doConnect adds the tab, starts the 15 s timer and sends     *)
(* terminal_connect, whose handler joins the room and enters the session    *)
(* into the table before it dials.                                          *)
(***************************************************************************)
\* Mutant: the page waits without a timer.
ConnectUntimed(s) ==
  /\ conn[s] = "idle"
  /\ tab' = [tab EXCEPT ![s] = "connecting"]
  /\ own' = own \cup {s} /\ room' = room \cup {s} /\ table' = table \cup {s}
  /\ conn' = [conn EXCEPT ![s] = "dialing"]
  /\ UNCHANGED <<timer, client, channel, active, reader, early, inbox, listing, faults>>

ConnectSession(s) ==
  /\ conn[s] = "idle"
  /\ tab' = [tab EXCEPT ![s] = "connecting"]
  /\ timer' = [timer EXCEPT ![s] = TRUE]
  /\ own' = own \cup {s} /\ room' = room \cup {s} /\ table' = table \cup {s}
  /\ conn' = [conn EXCEPT ![s] = "dialing"]
  /\ UNCHANGED <<client, channel, active, reader, early, inbox, listing, faults>>

HostAnswers(s) ==
  /\ conn[s] = "dialing"
  /\ conn' = [conn EXCEPT ![s] = "shell"]
  /\ client' = [client EXCEPT ![s] = "open"]
  /\ UNCHANGED <<channel, active, reader, early, table, sshPage, sshNet, listing, faults>>

(* The shell is open: the reader starts and the room is told.               *)
ShellOpens(s) ==
  /\ conn[s] = "shell" /\ client[s] = "open"
  /\ EmitTo(s, "connected")
  /\ conn' = [conn EXCEPT ![s] = "over"]
  /\ channel' = [channel EXCEPT ![s] = "open"]
  /\ active' = [active EXCEPT ![s] = TRUE]
  /\ reader' = [reader EXCEPT ![s] = TRUE]
  /\ UNCHANGED <<client, early, table, sshPage, room, listing, faults>>

\* Mutant: the transport of a failed connect is not closed.
ConnectFailsOpen(s) ==
  /\ conn[s] \in {"dialing", "shell"}
  /\ EmitTo(s, "error")
  /\ conn' = [conn EXCEPT ![s] = "over"]
  /\ table' = table \ {s}
  /\ UNCHANGED <<client, channel, active, reader, early, sshPage, room, listing, faults>>

(* A failed connect closes the session of that id, if the table still has   *)
(* it, and tells the room.                                                  *)
ConnectFails(s) ==
  /\ conn[s] \in {"dialing", "shell"}
  /\ EmitTo(s, "error")
  /\ conn' = [conn EXCEPT ![s] = "over"]
  /\ table' = table \ {s}
  /\ client' = IF s \in table /\ client[s] = "open"
                 THEN [client EXCEPT ![s] = "closed"] ELSE client
  /\ UNCHANGED <<channel, active, reader, early, sshPage, room, listing, faults>>

(***************************************************************************)
(* The read loop.                                                           *)
(***************************************************************************)
Hangup(s, how) ==
  /\ channel[s] = "open" \/ (channel[s] = "exited" /\ how = "closed")
  /\ channel' = [channel EXCEPT ![s] = how]
  /\ UNCHANGED <<conn, client, active, reader, early, table, sshPage, sshNet, listing, faults>>

(* What every end of the loop does.                                         *)
ReaderEnds(s) ==
  /\ reader[s]
  /\ reader' = [reader EXCEPT ![s] = FALSE]
  /\ active' = [active EXCEPT ![s] = channel[s] = "open"]
  /\ UNCHANGED <<conn, client, channel, early, table, sshPage, room, listing, faults>>

ReaderSeesExit(s) ==
  /\ active[s] /\ channel[s] # "open"
  /\ EmitTo(s, "closed")
  /\ ReaderEnds(s)

ReaderStops(s) == ~active[s] /\ inbox' = inbox /\ ReaderEnds(s)

ReaderFails(s) == active[s] /\ inbox' = inbox /\ ReaderEnds(s)

(***************************************************************************)
(* terminal_input for the sessions S: an unknown one is answered with an    *)
(* error, a closed one is marked inactive.  To any other the input is sent; *)
(* when that fails, the channel's window being full for instance, nothing   *)
(* changes, and where it is sent the session gets its reader back.          *)
(***************************************************************************)
Reached(S) == {s \in S \cap table : channel[s] \in {"open", "exited"}}
TerminalInput(S, joined) ==
  /\ \A s \in (S \cap joined) \ table : Len(inbox[s]) < MaxInbox
  /\ inbox' = [s \in Sessions |->
       IF s \in (S \cap joined) \ table THEN Append(inbox[s], "error") ELSE inbox[s]]
  /\ \E sent \in SUBSET Reached(S) :
       /\ active' = [s \in Sessions |->
            \/ s \in sent
            \/ active[s] /\ ~(s \in S \cap table /\ channel[s] = "closed")]
       /\ reader' = [s \in Sessions |-> s \in sent \/ reader[s]]

UserTypes(s) ==
  /\ tab[s] # "none"
  /\ TerminalInput({s}, room)
  /\ UNCHANGED <<conn, client, channel, early, table, sshPage, room, listing, faults>>

(***************************************************************************)
(* The page.                                                                *)
(***************************************************************************)
Shows(event) ==
  CASE event = "connected" -> "connected"
    [] event = "closed" -> "disconnected"
    [] event = "error" -> "error"

\* Mutant: the connect timer goes on after the answer.
DeliverTimed(s) ==
  /\ inbox[s] # <<>>
  /\ inbox' = [inbox EXCEPT ![s] = Tail(@)]
  /\ tab' = IF tab[s] = "none" THEN tab
            ELSE [tab EXCEPT ![s] = Shows(Head(inbox[s]))]
  /\ UNCHANGED <<sshServer, timer, own, room, listing, faults>>

(* Every event ends the wait; one for a tab that is gone changes no tab.    *)
Deliver(s) ==
  /\ inbox[s] # <<>>
  /\ inbox' = [inbox EXCEPT ![s] = Tail(@)]
  /\ timer' = [timer EXCEPT ![s] = FALSE]
  /\ tab' = IF tab[s] = "none" THEN tab
            ELSE [tab EXCEPT ![s] = Shows(Head(inbox[s]))]
  /\ UNCHANGED <<sshServer, own, room, listing, faults>>

TimerFires(s) ==
  /\ timer[s]
  /\ timer' = [timer EXCEPT ![s] = FALSE]
  /\ tab' = [tab EXCEPT ![s] = "error"]
  /\ UNCHANGED <<sshServer, own, sshNet, listing, faults>>

\* Mutant: the session is dropped and not closed.
CloseTabOnly(s) ==
  /\ tab[s] # "none"
  /\ tab' = [tab EXCEPT ![s] = "none"]
  /\ timer' = [timer EXCEPT ![s] = FALSE]
  /\ own' = own \ {s} /\ room' = room \ {s} /\ table' = table \ {s}
  /\ Len(inbox[s]) < MaxInbox
  /\ inbox' = [inbox EXCEPT ![s] = Append(@, "closed")]
  /\ early' = [early EXCEPT ![s] = @ \/ (s \in table /\ conn[s] = "dialing")]
  /\ UNCHANGED <<conn, client, channel, active, reader, listing, faults>>

(* The tab goes at once; terminal_disconnect_session drops the session,     *)
(* closes what it has by now, leaves the room and answers the sender.       *)
CloseTab(s) ==
  /\ tab[s] # "none"
  /\ tab' = [tab EXCEPT ![s] = "none"]
  /\ timer' = [timer EXCEPT ![s] = FALSE]
  /\ own' = own \ {s} /\ room' = room \ {s} /\ table' = table \ {s}
  /\ Len(inbox[s]) < MaxInbox
  /\ inbox' = [inbox EXCEPT ![s] = Append(@, "closed")]
  /\ IF s \in table
       THEN /\ active' = [active EXCEPT ![s] = FALSE]
            /\ channel' = [channel EXCEPT ![s] = IF @ = "none" THEN @ ELSE "closed"]
            /\ client' = [client EXCEPT ![s] = IF @ = "none" THEN @ ELSE "closed"]
            /\ early' = [early EXCEPT ![s] = conn[s] = "dialing"]
       ELSE UNCHANGED <<active, channel, client, early>>
  /\ UNCHANGED <<conn, reader, listing, faults>>

(* restoreActiveSessions asks for the sessions, on opening and every        *)
(* minute, and opens a tab for those that have none; each is sent a newline.*)
ListSessions ==
  /\ listing = NoListing /\ table # {}
  /\ listing' = [s \in table |-> active[s]]
  /\ UNCHANGED <<sshServer, sshPage, sshNet, faults>>

RestoreSessions ==
  /\ listing # NoListing
  /\ LET found == DOMAIN listing
         new == {s \in found : tab[s] = "none"}
     IN /\ tab' = [s \in Sessions |-> IF s \notin new THEN tab[s]
                     ELSE IF listing[s] THEN "connected" ELSE "disconnected"]
        /\ room' = room \cup new
        /\ TerminalInput(found, room \cup new)
  /\ listing' = NoListing
  /\ UNCHANGED <<conn, client, channel, early, table, timer, own, faults>>

(***************************************************************************)
(* Faults.  A new socket is in no room, and what was on its way is lost.    *)
(***************************************************************************)
NewSocket ==
  /\ faults < MaxFaults /\ faults' = faults + 1
  /\ room' = {} /\ inbox' = [s \in Sessions |-> <<>>]

SocketReconnects == NewSocket /\ UNCHANGED <<sshServer, sshPage, listing>>

ReloadPage ==
  /\ NewSocket
  /\ tab' = [s \in Sessions |-> "none"]
  /\ timer' = [s \in Sessions |-> FALSE]
  /\ own' = {} /\ listing' = NoListing
  /\ UNCHANGED sshServer

ServerRestarts ==
  /\ NewSocket
  /\ conn' = [s \in Sessions |-> IF conn[s] = "idle" THEN "idle" ELSE "over"]
  /\ client' = [s \in Sessions |-> "none"]
  /\ channel' = [s \in Sessions |-> "none"]
  /\ active' = [s \in Sessions |-> FALSE]
  /\ reader' = [s \in Sessions |-> FALSE]
  /\ early' = [s \in Sessions |-> FALSE]
  /\ table' = {}
  /\ UNCHANGED <<sshPage, listing>>

SshNext ==
  \/ \E s \in Sessions :
       \/ ConnectSession(s) \/ HostAnswers(s) \/ ShellOpens(s) \/ ConnectFails(s)
       \/ \E how \in {"exited", "closed"} : Hangup(s, how)
       \/ ReaderSeesExit(s) \/ ReaderStops(s) \/ ReaderFails(s)
       \/ UserTypes(s) \/ Deliver(s) \/ TimerFires(s) \/ CloseTab(s)
  \/ ListSessions \/ RestoreSessions
  \/ SocketReconnects \/ ReloadPage \/ ServerRestarts

SshSpec == SshInit /\ [][SshNext]_sshVars

(* The browser's timer fires, the socket delivers, and a read loop looks at *)
(* its channel every 0.1 s; strongly where it also sends, since only the    *)
(* bound MaxInbox of the model can keep an event from being sent.  Nothing  *)
(* is assumed of the remote host, of the server's connect or of the user.   *)
SshFairness ==
  \A s \in Sessions :
    /\ WF_sshVars(TimerFires(s)) /\ WF_sshVars(Deliver(s))
    /\ SF_sshVars(ReaderSeesExit(s)) /\ WF_sshVars(ReaderStops(s))

----------------------------------------------------------------------------
SshTypeOK ==
  /\ conn \in [Sessions -> {"idle", "dialing", "shell", "over"}]
  /\ client \in [Sessions -> {"none", "open", "closed"}]
  /\ channel \in [Sessions -> {"none", "open", "exited", "closed"}]
  /\ active \in [Sessions -> BOOLEAN] /\ reader \in [Sessions -> BOOLEAN]
  /\ early \in [Sessions -> BOOLEAN] /\ table \subseteq Sessions
  /\ tab \in [Sessions -> {"none", "connecting", "connected", "disconnected", "error"}]
  /\ timer \in [Sessions -> BOOLEAN] /\ own \subseteq Sessions /\ room \subseteq Sessions
  /\ inbox \in [Sessions -> Seq(Events)]
  /\ \A s \in Sessions : Len(inbox[s]) <= MaxInbox
  /\ \E S \in SUBSET Sessions : listing \in [S -> BOOLEAN]
  /\ faults \in 0 .. MaxFaults

(* A transport that is open but out of the table, which nothing can close   *)
(* any more, belongs to a session that was closed while it was dialing: the *)
(* only window in which close() finds nothing to close (ssh_manager.py:71   *)
(* waits up to 25 s, the page gives up after 15).                           *)
SshLeakOnlyEarly ==
  \A s \in Sessions : client[s] = "open" /\ s \notin table => early[s]

(* A tab the page opened itself says "connected" while its shell is open    *)
(* and it has read its events, although its timer may have declared the     *)
(* connect failed before the server's answer came.                          *)
SshTabTruth ==
  \A s \in own \cap room \cap table :
    channel[s] = "open" /\ inbox[s] = <<>> => tab[s] = "connected"

(* No tab waits for ever: even if the server's answer is lost with the      *)
(* socket, the page's own timer ends the wait.                              *)
SshSettles ==
  \A s \in Sessions : tab[s] = "connecting" ~> tab[s] # "connecting"

(* A read loop whose shell is over leaves: the remote hung up, or the tab   *)
(* was closed, whatever input is sent meanwhile.  A session closed while it *)
(* was dialing is left out: its shell opens later, and nobody can end it.   *)
(* (_read_loop, ssh_manager.py:107; close, 195)                             *)
SshReadersLeave ==
  \A s \in Sessions :
    (reader[s] /\ (channel[s] # "open" \/ (s \notin table /\ ~early[s]))) ~> ~reader[s]
=============================================================================
