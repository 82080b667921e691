---------------------------- MODULE DeviceProofs -----------------------------
(***************************************************************************)
(* What the services keep that talk to shells and devices: the two terminals *)
(* and the target manager.                                                  *)
(***************************************************************************)
EXTENDS SshTerminal, LocalTerminal, TargetManager, FiniteSetTheorems, SequenceTheorems,
        WellFoundedInduction, TLAPS

(***************************************************************************)
(* What the SSH terminal keeps for every number of sessions, events on      *)
(* their way, reloads, reconnects and restarts: no transport is out of      *)
(* reach unless its session was closed while it dialed, and a tab of the    *)
(* page's own is not wrong about an open shell for longer than its events   *)
(* are on the way.                                                          *)
(***************************************************************************)
\* A session that is dialing and out of the table was closed in that window.
DialsInTable ==
  \A s \in Sessions : conn[s] = "dialing" /\ s \notin table => early[s]

\* Only a connect that has ended has a channel.
ChannelAfterConnect ==
  \A s \in Sessions : channel[s] # "none" => conn[s] = "over"

OwnTabsExist == \A s \in own : tab[s] # "none"

\* The last word on its way to the page about an open shell is that it is open,
\* or the page has read it and its timer is gone.
LastWord(s) ==
  IF inbox[s] = <<>> THEN tab[s] = "connected" /\ ~timer[s]
  ELSE inbox[s][Len(inbox[s])] = "connected"

PageFollows ==
  \A s \in own \cap room \cap table : channel[s] = "open" => LastWord(s)

SshInv ==
  /\ SshTypeOK /\ SshLeakOnlyEarly /\ DialsInTable
  /\ ChannelAfterConnect /\ OwnTabsExist /\ PageFollows

-----------------------------------------------------------------------------
LEMMA SshInitInv == SshInit => SshInv
<1> SUFFICES ASSUME SshInit PROVE SshInv
  OBVIOUS
<1>1. SshTypeOK
  <2>1. <<>> \in Seq(Events) /\ Len(<<>>) = 0
    OBVIOUS
  <2>2. listing \in [{} -> BOOLEAN]
    BY DEF SshInit, NoListing
  <2>3. \E S \in SUBSET Sessions : listing \in [S -> BOOLEAN]
    BY <2>2
  <2>4. /\ inbox \in [Sessions -> Seq(Events)]
        /\ \A s \in Sessions : Len(inbox[s]) <= MaxInbox
    BY <2>1, SshAssumption DEF SshInit
  <2> QED
    BY <2>3, <2>4, SshAssumption DEF SshInit, SshTypeOK
<1>2. SshLeakOnlyEarly /\ DialsInTable /\ ChannelAfterConnect /\ OwnTabsExist /\ PageFollows
  BY DEF SshInit, SshLeakOnlyEarly, DialsInTable, ChannelAfterConnect, OwnTabsExist, PageFollows
<1> QED
  BY <1>1, <1>2 DEF SshInv

(* What a queue of events is when one is added or taken.                    *)
LEMMA Added ==
  ASSUME NEW q \in Seq(Events), NEW e \in Events
  PROVE  /\ Append(q, e) \in Seq(Events)
         /\ Len(Append(q, e)) = Len(q) + 1
         /\ Append(q, e) # <<>>
         /\ Append(q, e)[Len(Append(q, e))] = e
OBVIOUS

LEMMA Taken ==
  ASSUME NEW q \in Seq(Events), q # <<>>
  PROVE  /\ Head(q) \in Events
         /\ Tail(q) \in Seq(Events)
         /\ Len(Tail(q)) = Len(q) - 1
         /\ Tail(q) = <<>> => Head(q) = q[Len(q)]
         /\ Tail(q) # <<>> => Tail(q)[Len(Tail(q))] = q[Len(q)]
<1>1. /\ Head(q) \in Events /\ Tail(q) \in Seq(Events)
      /\ Len(Tail(q)) = Len(q) - 1
      /\ \A i \in 1 .. Len(Tail(q)) : Tail(q)[i] = q[i + 1]
  BY HeadTailProperties
<1>2. /\ Len(q) \in Nat \ {0}
      /\ Tail(q) = <<>> <=> Len(Tail(q)) = 0
      /\ Head(q) = q[1]
  BY <1>1, EmptySeq, LenProperties
<1> QED
  BY <1>1, <1>2

LEMMA Emitted ==
  ASSUME SshTypeOK, NEW s \in Sessions, NEW e \in Events, EmitTo(s, e)
  PROVE  /\ inbox' \in [Sessions -> Seq(Events)]
         /\ \A t \in Sessions : Len(inbox'[t]) <= MaxInbox
         /\ \A t \in Sessions : t # s => inbox'[t] = inbox[t]
         /\ s \in room => inbox'[s] # <<>> /\ inbox'[s][Len(inbox'[s])] = e
<1>1. /\ inbox[s] \in Seq(Events) /\ inbox \in [Sessions -> Seq(Events)]
      /\ \A t \in Sessions : Len(inbox[t]) <= MaxInbox
  BY DEF SshTypeOK
<1>2. CASE s \notin room
  BY <1>1, <1>2 DEF EmitTo
<1>3. CASE s \in room
  <2> DEFINE q == Append(inbox[s], e)
  <2>1. inbox' = [inbox EXCEPT ![s] = q] /\ Len(inbox[s]) < MaxInbox
    BY <1>3 DEF EmitTo
  <2>2. q \in Seq(Events) /\ Len(q) = Len(inbox[s]) + 1 /\ q # <<>> /\ q[Len(q)] = e
    BY <1>1, Added
  <2>3. Len(inbox[s]) \in Nat
    BY <1>1
  <2> HIDE DEF q
  <2>4. Len(q) <= MaxInbox
    BY <2>1, <2>2, <2>3, SshAssumption
  <2> QED
    BY <1>1, <2>1, <2>2, <2>4
<1> QED
  BY <1>2, <1>3

-----------------------------------------------------------------------------
(* Every action keeps the invariant: the types, then what the server keeps, *)
(* then what page and server keep together.                                 *)
ServerKeeps == SshLeakOnlyEarly /\ DialsInTable /\ ChannelAfterConnect

LEMMA ConnectInv ==
  ASSUME SshInv, NEW s \in Sessions, ConnectSession(s)
  PROVE  SshInv'
<1> USE DEF sshServer, sshPage, sshNet
<1>1. SshTypeOK'
  BY DEF SshInv, SshTypeOK, ConnectSession
<1>2. ServerKeeps'
  BY DEF SshInv, SshTypeOK, ServerKeeps, SshLeakOnlyEarly, DialsInTable, ChannelAfterConnect, ConnectSession
<1>3. (OwnTabsExist /\ PageFollows)'
  BY DEF SshInv, SshTypeOK, ChannelAfterConnect, OwnTabsExist, PageFollows, LastWord, ConnectSession
<1> QED
  BY <1>1, <1>2, <1>3 DEF SshInv, ServerKeeps

LEMMA HostAnswersInv ==
  ASSUME SshInv, NEW s \in Sessions, HostAnswers(s)
  PROVE  SshInv'
<1> USE DEF sshServer, sshPage, sshNet
<1>1. SshTypeOK'
  BY DEF SshInv, SshTypeOK, HostAnswers
<1>2. ServerKeeps'
  BY DEF SshInv, SshTypeOK, ServerKeeps, SshLeakOnlyEarly, DialsInTable, ChannelAfterConnect, HostAnswers
<1>3. (OwnTabsExist /\ PageFollows)'
  BY DEF SshInv, SshTypeOK, ChannelAfterConnect, OwnTabsExist, PageFollows, LastWord, HostAnswers
<1> QED
  BY <1>1, <1>2, <1>3 DEF SshInv, ServerKeeps

LEMMA ShellOpensInv ==
  ASSUME SshInv, NEW s \in Sessions, ShellOpens(s)
  PROVE  SshInv'
<1> USE DEF sshServer, sshPage, sshNet
<1>1. SshTypeOK'
  <2>1. "connected" \in Events /\ EmitTo(s, "connected") /\ SshTypeOK
    BY DEF SshInv, Events, ShellOpens
  <2>2. /\ inbox' \in [Sessions -> Seq(Events)]
        /\ \A t \in Sessions : Len(inbox'[t]) <= MaxInbox
    BY <2>1, Emitted
  <2> QED
    BY <2>1, <2>2 DEF SshTypeOK, ShellOpens
<1>2. ServerKeeps'
  BY DEF SshInv, SshTypeOK, ServerKeeps, SshLeakOnlyEarly, DialsInTable, ChannelAfterConnect, ShellOpens
<1>3. (OwnTabsExist /\ PageFollows)'
  <2>1. "connected" \in Events /\ EmitTo(s, "connected") /\ SshTypeOK
    BY DEF SshInv, Events, ShellOpens
  <2>2. /\ \A t \in Sessions : t # s => inbox'[t] = inbox[t]
        /\ s \in room => inbox'[s] # <<>> /\ inbox'[s][Len(inbox'[s])] = "connected"
    BY <2>1, Emitted
  <2> QED
    BY <2>2 DEF SshInv, SshTypeOK, ChannelAfterConnect, OwnTabsExist, PageFollows, LastWord, ShellOpens
<1> QED
  BY <1>1, <1>2, <1>3 DEF SshInv, ServerKeeps

LEMMA ConnectFailsInv ==
  ASSUME SshInv, NEW s \in Sessions, ConnectFails(s)
  PROVE  SshInv'
<1> USE DEF sshServer, sshPage, sshNet
<1>1. SshTypeOK'
  <2>1. "error" \in Events /\ EmitTo(s, "error") /\ SshTypeOK
    BY DEF SshInv, Events, ConnectFails
  <2>2. /\ inbox' \in [Sessions -> Seq(Events)]
        /\ \A t \in Sessions : Len(inbox'[t]) <= MaxInbox
    BY <2>1, Emitted
  <2> QED
    BY <2>1, <2>2 DEF SshTypeOK, ConnectFails
<1>2. ServerKeeps'
  BY DEF SshInv, SshTypeOK, ServerKeeps, SshLeakOnlyEarly, DialsInTable, ChannelAfterConnect, ConnectFails
<1>3. (OwnTabsExist /\ PageFollows)'
  <2>1. "error" \in Events /\ EmitTo(s, "error") /\ SshTypeOK
    BY DEF SshInv, Events, ConnectFails
  <2>2. /\ \A t \in Sessions : t # s => inbox'[t] = inbox[t]
        /\ s \in room => inbox'[s] # <<>> /\ inbox'[s][Len(inbox'[s])] = "error"
    BY <2>1, Emitted
  <2> QED
    BY <2>2 DEF SshInv, SshTypeOK, ChannelAfterConnect, OwnTabsExist, PageFollows, LastWord, ConnectFails
<1> QED
  BY <1>1, <1>2, <1>3 DEF SshInv, ServerKeeps

LEMMA HangupInv ==
  ASSUME SshInv, NEW s \in Sessions, NEW how \in {"exited", "closed"}, Hangup(s, how)
  PROVE  SshInv'
<1> USE DEF sshServer, sshPage, sshNet
<1>1. SshTypeOK'
  BY DEF SshInv, SshTypeOK, Hangup
<1>2. ServerKeeps'
  BY DEF SshInv, SshTypeOK, ServerKeeps, SshLeakOnlyEarly, DialsInTable, ChannelAfterConnect, Hangup
<1>3. (OwnTabsExist /\ PageFollows)'
  BY DEF SshInv, SshTypeOK, ChannelAfterConnect, OwnTabsExist, PageFollows, LastWord, Hangup
<1> QED
  BY <1>1, <1>2, <1>3 DEF SshInv, ServerKeeps

LEMMA ReaderSeesExitInv ==
  ASSUME SshInv, NEW s \in Sessions, ReaderSeesExit(s)
  PROVE  SshInv'
<1> USE DEF sshServer, sshPage, sshNet
<1>1. SshTypeOK'
  <2>1. "closed" \in Events /\ EmitTo(s, "closed") /\ SshTypeOK
    BY DEF SshInv, Events, ReaderSeesExit, ReaderEnds
  <2>2. /\ inbox' \in [Sessions -> Seq(Events)]
        /\ \A t \in Sessions : Len(inbox'[t]) <= MaxInbox
    BY <2>1, Emitted
  <2> QED
    BY <2>1, <2>2 DEF SshTypeOK, ReaderSeesExit, ReaderEnds
<1>2. ServerKeeps'
  BY DEF SshInv, SshTypeOK, ServerKeeps, SshLeakOnlyEarly, DialsInTable, ChannelAfterConnect, ReaderSeesExit, ReaderEnds
<1>3. (OwnTabsExist /\ PageFollows)'
  <2>1. "closed" \in Events /\ EmitTo(s, "closed") /\ SshTypeOK
    BY DEF SshInv, Events, ReaderSeesExit, ReaderEnds
  <2>2. \A t \in Sessions : t # s => inbox'[t] = inbox[t]
    BY <2>1, Emitted
  <2>3. /\ channel[s] # "open"
        /\ UNCHANGED <<channel, table, own, room, tab, timer>>
    BY DEF ReaderSeesExit, ReaderEnds
  <2>4. OwnTabsExist'
    BY <2>3 DEF SshInv, OwnTabsExist
  <2>5. \A t \in own \cap room \cap table : channel[t] = "open" => LastWord(t)'
    BY <2>2, <2>3 DEF SshInv, SshTypeOK, PageFollows, LastWord
  <2> QED
    BY <2>3, <2>4, <2>5 DEF PageFollows
<1> QED
  BY <1>1, <1>2, <1>3 DEF SshInv, ServerKeeps

LEMMA ReaderEndsInv ==
  ASSUME SshInv, NEW s \in Sessions, ReaderEnds(s), inbox' = inbox
  PROVE  SshInv'
<1> USE DEF sshServer, sshPage, sshNet
<1>1. SshTypeOK'
  BY DEF SshInv, SshTypeOK, ReaderEnds
<1>2. ServerKeeps'
  BY DEF SshInv, SshTypeOK, ServerKeeps, SshLeakOnlyEarly, DialsInTable, ChannelAfterConnect, ReaderEnds
<1>3. (OwnTabsExist /\ PageFollows)'
  BY DEF SshInv, SshTypeOK, ChannelAfterConnect, OwnTabsExist, PageFollows, LastWord, ReaderEnds
<1> QED
  BY <1>1, <1>2, <1>3 DEF SshInv, ServerKeeps

(* Input reaches the page of a session that is not in the table only.       *)
LEMMA InputSays ==
  ASSUME SshTypeOK, NEW S, NEW joined, TerminalInput(S, joined)
  PROVE  /\ inbox' \in [Sessions -> Seq(Events)]
         /\ \A t \in Sessions : Len(inbox'[t]) <= MaxInbox
         /\ \A t \in table : inbox'[t] = inbox[t]
         /\ active' \in [Sessions -> BOOLEAN] /\ reader' \in [Sessions -> BOOLEAN]
<1>1. /\ inbox \in [Sessions -> Seq(Events)] /\ table \subseteq Sessions
      /\ \A t \in Sessions : Len(inbox[t]) <= MaxInbox
  BY DEF SshTypeOK
<1>2. /\ DOMAIN inbox' = Sessions /\ inbox' = [t \in Sessions |-> inbox'[t]]
      /\ \A t \in Sessions : inbox'[t] = IF t \in (S \cap joined) \ table
                                         THEN Append(inbox[t], "error") ELSE inbox[t]
      /\ \A t \in (S \cap joined) \ table : Len(inbox[t]) < MaxInbox
  BY DEF TerminalInput
<1>3. \A t \in Sessions : inbox'[t] \in Seq(Events) /\ Len(inbox'[t]) <= MaxInbox
  <2> SUFFICES ASSUME NEW t \in Sessions
               PROVE  inbox'[t] \in Seq(Events) /\ Len(inbox'[t]) <= MaxInbox
    OBVIOUS
  <2>1. CASE t \in (S \cap joined) \ table
    <3>1. /\ Append(inbox[t], "error") \in Seq(Events)
          /\ Len(Append(inbox[t], "error")) = Len(inbox[t]) + 1
      BY <1>1, Added DEF Events
    <3>2. Len(inbox[t]) \in Nat /\ Len(inbox[t]) < MaxInbox
      BY <1>1, <1>2, <2>1
    <3> QED
      BY <1>2, <2>1, <3>1, <3>2, SshAssumption
  <2>2. CASE t \notin (S \cap joined) \ table
    BY <1>1, <1>2, <2>2
  <2> QED
    BY <2>1, <2>2
<1>4. inbox' \in [Sessions -> Seq(Events)]
  BY <1>2, <1>3
<1>5. active' \in [Sessions -> BOOLEAN] /\ reader' \in [Sessions -> BOOLEAN]
  <2>1. PICK sent \in SUBSET Reached(S) :
          /\ active' = [s \in Sessions |->
               \/ s \in sent
               \/ active[s] /\ ~(s \in S \cap table /\ channel[s] = "closed")]
          /\ reader' = [s \in Sessions |-> s \in sent \/ reader[s]]
    BY DEF TerminalInput
  <2> QED
    BY <2>1 DEF SshTypeOK
<1> QED
  BY <1>1, <1>2, <1>3, <1>4, <1>5

LEMMA UserTypesInv ==
  ASSUME SshInv, NEW s \in Sessions, UserTypes(s)
  PROVE  SshInv'
<1> USE DEF sshServer, sshPage, sshNet
<1>1. SshTypeOK'
  <2>1. SshTypeOK /\ TerminalInput({s}, room)
    BY DEF SshInv, UserTypes
  <2>2. /\ inbox' \in [Sessions -> Seq(Events)]
        /\ \A t \in Sessions : Len(inbox'[t]) <= MaxInbox
        /\ active' \in [Sessions -> BOOLEAN] /\ reader' \in [Sessions -> BOOLEAN]
    BY <2>1, InputSays
  <2> QED
    BY <2>1, <2>2 DEF SshTypeOK, UserTypes
<1>2. ServerKeeps'
  BY DEF SshInv, SshTypeOK, ServerKeeps, SshLeakOnlyEarly, DialsInTable, ChannelAfterConnect, UserTypes
<1>3. (OwnTabsExist /\ PageFollows)'
  <2>1. SshTypeOK /\ TerminalInput({s}, room)
    BY DEF SshInv, UserTypes
  <2>2. \A t \in table : inbox'[t] = inbox[t]
    BY <2>1, InputSays
  <2> QED
    BY <2>2 DEF SshInv, SshTypeOK, ChannelAfterConnect, OwnTabsExist, PageFollows, LastWord, UserTypes
<1> QED
  BY <1>1, <1>2, <1>3 DEF SshInv, ServerKeeps

LEMMA DeliverInv ==
  ASSUME SshInv, NEW s \in Sessions, Deliver(s)
  PROVE  SshInv'
<1> USE DEF sshServer, sshPage, sshNet
<1>1. SshTypeOK'
  <2>1. /\ inbox[s] \in Seq(Events) /\ inbox[s] # <<>> /\ Len(inbox[s]) <= MaxInbox
        /\ inbox' = [inbox EXCEPT ![s] = Tail(inbox[s])]
    BY DEF SshInv, SshTypeOK, Deliver
  <2>2. /\ Head(inbox[s]) \in Events /\ Tail(inbox[s]) \in Seq(Events)
        /\ Len(Tail(inbox[s])) = Len(inbox[s]) - 1 /\ Len(inbox[s]) \in Nat
    BY <2>1, Taken
  <2>3. Len(Tail(inbox[s])) <= MaxInbox
    BY <2>1, <2>2, SshAssumption
  <2>4. /\ inbox' \in [Sessions -> Seq(Events)]
        /\ \A t \in Sessions : Len(inbox'[t]) <= MaxInbox
    BY <2>1, <2>2, <2>3 DEF SshInv, SshTypeOK
  <2>5. Shows(Head(inbox[s])) \in {"connected", "disconnected", "error"}
    BY <2>2 DEF Events, Shows
  <2>6. tab' \in [Sessions -> {"none", "connecting", "connected", "disconnected", "error"}]
    BY <2>5 DEF SshInv, SshTypeOK, Deliver
  <2> QED
    BY <2>4, <2>6 DEF SshInv, SshTypeOK, Deliver
<1>2. ServerKeeps'
  BY DEF SshInv, SshTypeOK, ServerKeeps, SshLeakOnlyEarly, DialsInTable, ChannelAfterConnect, Deliver
<1>3. (OwnTabsExist /\ PageFollows)'
  <2>1. /\ inbox[s] \in Seq(Events) /\ inbox[s] # <<>>
        /\ inbox'[s] = Tail(inbox[s]) /\ ~timer'[s]
        /\ \A t \in Sessions : t # s => inbox'[t] = inbox[t] /\ tab'[t] = tab[t] /\ timer'[t] = timer[t]
        /\ tab[s] # "none" => tab'[s] = Shows(Head(inbox[s]))
        /\ UNCHANGED <<channel, table, own, room>>
    BY DEF SshInv, SshTypeOK, Deliver
  <2>2. /\ Head(inbox[s]) \in Events
        /\ Tail(inbox[s]) = <<>> => Head(inbox[s]) = inbox[s][Len(inbox[s])]
        /\ Tail(inbox[s]) # <<>> =>
             Tail(inbox[s])[Len(Tail(inbox[s]))] = inbox[s][Len(inbox[s])]
    BY <2>1, Taken
  <2>3. Shows(Head(inbox[s])) # "none" /\ Shows("connected") = "connected"
    BY <2>2 DEF Events, Shows
  <2>4. OwnTabsExist'
    BY <2>1, <2>3 DEF SshInv, SshTypeOK, OwnTabsExist
  <2>5. ASSUME NEW t \in own \cap room \cap table, channel[t] = "open"
        PROVE  LastWord(t)'
    <3>1. LastWord(t) /\ tab[t] # "none" /\ t \in Sessions
      BY <2>5 DEF SshInv, SshTypeOK, PageFollows, OwnTabsExist
    <3>2. CASE t = s
      BY <2>1, <2>2, <2>3, <3>1, <3>2 DEF LastWord
    <3>3. CASE t # s
      BY <2>1, <3>1, <3>3 DEF LastWord
    <3> QED
      BY <3>2, <3>3
  <2> QED
    BY <2>1, <2>4, <2>5 DEF PageFollows
<1> QED
  BY <1>1, <1>2, <1>3 DEF SshInv, ServerKeeps

LEMMA TimerFiresInv ==
  ASSUME SshInv, NEW s \in Sessions, TimerFires(s)
  PROVE  SshInv'
<1> USE DEF sshServer, sshPage, sshNet
<1>1. SshTypeOK'
  BY DEF SshInv, SshTypeOK, TimerFires
<1>2. ServerKeeps'
  BY DEF SshInv, SshTypeOK, ServerKeeps, SshLeakOnlyEarly, DialsInTable, ChannelAfterConnect, TimerFires
<1>3. (OwnTabsExist /\ PageFollows)'
  BY DEF SshInv, SshTypeOK, ChannelAfterConnect, OwnTabsExist, PageFollows, LastWord, TimerFires
<1> QED
  BY <1>1, <1>2, <1>3 DEF SshInv, ServerKeeps

LEMMA CloseTabInv ==
  ASSUME SshInv, NEW s \in Sessions, CloseTab(s)
  PROVE  SshInv'
<1> USE DEF sshServer, sshPage, sshNet
<1>1. SshTypeOK'
  <2>1. inbox[s] \in Seq(Events) /\ Len(inbox[s]) < MaxInbox
    BY DEF SshInv, SshTypeOK, CloseTab
  <2>2. /\ Append(inbox[s], "closed") \in Seq(Events)
        /\ Len(Append(inbox[s], "closed")) = Len(inbox[s]) + 1
    BY <2>1, Added DEF Events
  <2>3. Len(Append(inbox[s], "closed")) <= MaxInbox
    BY <2>1, <2>2, SshAssumption
  <2>4. /\ inbox' \in [Sessions -> Seq(Events)]
        /\ \A t \in Sessions : Len(inbox'[t]) <= MaxInbox
    BY <2>2, <2>3 DEF SshInv, SshTypeOK, CloseTab
  <2> QED
    BY <2>4 DEF SshInv, SshTypeOK, CloseTab
<1>2. ServerKeeps'
  BY ZenonT(60)
     DEF SshInv, SshTypeOK, ServerKeeps, SshLeakOnlyEarly, DialsInTable, ChannelAfterConnect, CloseTab
<1>3. (OwnTabsExist /\ PageFollows)'
  <2>1. OwnTabsExist'
    BY DEF SshInv, SshTypeOK, OwnTabsExist, CloseTab
  <2>2. \A t \in (own \cap room \cap table)' :
          /\ t \in own \cap room \cap table /\ t # s /\ t \in Sessions
          /\ inbox'[t] = inbox[t] /\ tab'[t] = tab[t] /\ timer'[t] = timer[t]
          /\ channel'[t] = channel[t]
    BY DEF SshInv, SshTypeOK, CloseTab
  <2> QED
    BY <2>1, <2>2 DEF SshInv, PageFollows, LastWord
<1> QED
  BY <1>1, <1>2, <1>3 DEF SshInv, ServerKeeps

LEMMA ListSessionsInv ==
  ASSUME SshInv, ListSessions
  PROVE  SshInv'
<1> USE DEF sshServer, sshPage, sshNet
<1>1. SshTypeOK'
  <2>1. listing' \in [table -> BOOLEAN] /\ table \in SUBSET Sessions
    BY DEF SshInv, SshTypeOK, ListSessions
  <2>2. (\E S \in SUBSET Sessions : listing \in [S -> BOOLEAN])'
    BY <2>1
  <2> QED
    BY <2>2 DEF SshInv, SshTypeOK, ListSessions
<1>2. ServerKeeps'
  BY DEF SshInv, SshTypeOK, ServerKeeps, SshLeakOnlyEarly, DialsInTable, ChannelAfterConnect, ListSessions
<1>3. (OwnTabsExist /\ PageFollows)'
  BY DEF SshInv, SshTypeOK, ChannelAfterConnect, OwnTabsExist, PageFollows, LastWord, ListSessions
<1> QED
  BY <1>1, <1>2, <1>3 DEF SshInv, ServerKeeps

LEMMA RestoreInv ==
  ASSUME SshInv, RestoreSessions
  PROVE  SshInv'
<1> DEFINE found == DOMAIN listing
           new == {s \in found : tab[s] = "none"}
<1>1. /\ TerminalInput(found, room \cup new)
      /\ tab' = [s \in Sessions |-> IF s \notin new THEN tab[s]
                   ELSE IF listing[s] THEN "connected" ELSE "disconnected"]
      /\ room' = room \cup new
      /\ listing' = NoListing
      /\ UNCHANGED <<conn, client, channel, early, table, timer, own, faults>>
  BY DEF RestoreSessions
<1>2. SshTypeOK /\ found \subseteq Sessions
  BY DEF SshInv, SshTypeOK
<1> HIDE DEF found
<1>3. /\ inbox' \in [Sessions -> Seq(Events)]
      /\ \A t \in Sessions : Len(inbox'[t]) <= MaxInbox
      /\ \A t \in table : inbox'[t] = inbox[t]
      /\ active' \in [Sessions -> BOOLEAN] /\ reader' \in [Sessions -> BOOLEAN]
  BY <1>1, <1>2, InputSays
<1>4. SshTypeOK'
  <2>1. listing' \in [{} -> BOOLEAN]
    BY <1>1 DEF NoListing
  <2>2. (\E S \in SUBSET Sessions : listing \in [S -> BOOLEAN])'
    BY <2>1
  <2>3. tab' \in [Sessions -> {"none", "connecting", "connected", "disconnected", "error"}]
    BY <1>1, <1>2 DEF SshTypeOK
  <2>4. room' \subseteq Sessions
    BY <1>1, <1>2 DEF SshTypeOK
  <2> QED
    BY <1>1, <1>2, <1>3, <2>2, <2>3, <2>4 DEF SshTypeOK
<1>5. ServerKeeps'
  BY <1>1 DEF SshInv, SshTypeOK, ServerKeeps, SshLeakOnlyEarly, DialsInTable, ChannelAfterConnect
<1>6. \A s \in own : s \in Sessions /\ s \notin new /\ tab'[s] = tab[s]
  BY <1>1, <1>2 DEF SshInv, SshTypeOK, OwnTabsExist
<1>7. OwnTabsExist'
  BY <1>1, <1>6 DEF SshInv, OwnTabsExist
<1>8. \A s \in (own \cap room \cap table)' : s \in own \cap room \cap table
  BY <1>1, <1>6
<1>9. PageFollows'
  BY <1>1, <1>3, <1>6, <1>8 DEF SshInv, PageFollows, LastWord
<1> QED
  BY <1>4, <1>5, <1>7, <1>9 DEF SshInv, ServerKeeps

LEMMA FaultInv ==
  ASSUME SshInv, SocketReconnects \/ ReloadPage \/ ServerRestarts
  PROVE  SshInv'
<1> USE DEF sshServer, sshPage
<1>1. /\ NewSocket /\ SshTypeOK /\ room' = {}
      /\ inbox' = [s \in Sessions |-> <<>>] /\ faults' \in 0 .. MaxFaults
  BY SshAssumption DEF SshInv, SshTypeOK, SocketReconnects, ReloadPage, ServerRestarts, NewSocket
<1>2. /\ inbox' \in [Sessions -> Seq(Events)]
      /\ \A t \in Sessions : Len(inbox'[t]) <= MaxInbox
  <2>1. <<>> \in Seq(Events) /\ Len(<<>>) = 0
    OBVIOUS
  <2> QED
    BY <1>1, <2>1, SshAssumption
<1>3. (\E S \in SUBSET Sessions : listing \in [S -> BOOLEAN])'
  <2>1. NoListing \in [{} -> BOOLEAN]
    BY DEF NoListing
  <2>2. listing' = listing \/ listing' = NoListing
    BY DEF SocketReconnects, ReloadPage, ServerRestarts
  <2> QED
    BY <1>1, <2>1, <2>2 DEF SshTypeOK
<1>4. SshTypeOK'
  <2>1. CASE SocketReconnects
    BY <1>1, <1>2, <1>3, <2>1 DEF SshTypeOK, SocketReconnects
  <2>2. CASE ReloadPage
    BY <1>1, <1>2, <1>3, <2>2 DEF SshTypeOK, ReloadPage
  <2>3. CASE ServerRestarts
    BY <1>1, <1>2, <1>3, <2>3 DEF SshTypeOK, ServerRestarts
  <2> QED
    BY <2>1, <2>2, <2>3
<1>5. ServerKeeps'
  BY DEF SshInv, SshTypeOK, ServerKeeps, SshLeakOnlyEarly, DialsInTable, ChannelAfterConnect,
         SocketReconnects, ReloadPage, ServerRestarts
<1>6. (OwnTabsExist /\ PageFollows)'
  BY <1>1 DEF SshInv, OwnTabsExist, PageFollows, SocketReconnects, ReloadPage, ServerRestarts
<1> QED
  BY <1>4, <1>5, <1>6 DEF SshInv, ServerKeeps

-----------------------------------------------------------------------------
LEMMA SshStepInv == SshInv /\ [SshNext]_sshVars => SshInv'
<1> SUFFICES ASSUME SshInv, [SshNext]_sshVars PROVE SshInv'
  OBVIOUS
<1>1. CASE UNCHANGED sshVars
  BY <1>1 DEF SshInv, SshTypeOK, SshLeakOnlyEarly, DialsInTable, ChannelAfterConnect, OwnTabsExist,
              PageFollows, LastWord, sshVars, sshServer, sshPage, sshNet
<1>2. ASSUME NEW s \in Sessions, ReaderStops(s) \/ ReaderFails(s) PROVE SshInv'
  BY <1>2, ReaderEndsInv DEF ReaderStops, ReaderFails
<1>3. ASSUME NEW s \in Sessions,
             \/ ConnectSession(s) \/ HostAnswers(s) \/ ShellOpens(s) \/ ConnectFails(s)
             \/ \E how \in {"exited", "closed"} : Hangup(s, how)
             \/ ReaderSeesExit(s) \/ UserTypes(s) \/ Deliver(s) \/ TimerFires(s) \/ CloseTab(s)
      PROVE  SshInv'
  BY <1>3, ConnectInv, HostAnswersInv, ShellOpensInv, ConnectFailsInv, HangupInv,
     ReaderSeesExitInv, UserTypesInv, DeliverInv, TimerFiresInv, CloseTabInv
<1>4. CASE ListSessions \/ RestoreSessions \/ SocketReconnects \/ ReloadPage \/ ServerRestarts
  BY <1>4, ListSessionsInv, RestoreInv, FaultInv
<1> QED
  BY <1>1, <1>2, <1>3, <1>4 DEF SshNext

LEMMA SshInvariant == SshSpec => []SshInv
  BY SshInitInv, SshStepInv, PTL DEF SshSpec

\* Sessions, tabs and queues stay well formed, in every instance.
THEOREM SshTypes == SshSpec => []SshTypeOK
<1>1. SshInv => SshTypeOK
  BY DEF SshInv
<1> QED
  BY <1>1, SshInvariant, PTL

\* close() loses a transport in the one window where there is nothing to close
\* yet, whatever the page, the host and the reader do.
THEOREM LeakOnlyEarly == SshSpec => []SshLeakOnlyEarly
<1>1. SshInv => SshLeakOnlyEarly
  BY DEF SshInv
<1> QED
  BY <1>1, SshInvariant, PTL

\* A tab that the page opened says "connected" about an open shell as soon as it
\* has read its events, although its timer may have fired before.
THEOREM TabTellsTruth == SshSpec => []SshTabTruth
<1>1. SshInv => SshTabTruth
  BY DEF SshInv, PageFollows, LastWord, SshTabTruth
<1> QED
  BY <1>1, SshInvariant, PTL

(***************************************************************************)
(* What the local shells keep for every number of terminals, descriptor     *)
(* numbers, kills and commands: a session that is alive writes to its own   *)
(* pty, and one whose shell still holds its pty is alive.                   *)
(***************************************************************************)
\* A terminal nobody has killed still owns its number, or was robbed of it.
KeepsNumber ==
  \A t \in Terminals : Made(t) /\ kills[t] = 0 => Owns(t) \/ Robbed(t)

\* Only what was made is killed, and it stays dead.
KilledIsDead ==
  \A t \in Terminals : kills[t] > 0 => Made(t) /\ ~alive[t]

PtyTypeOK ==
  /\ number \in [Terminals -> 0 .. MaxNumber]
  /\ alive \in [Terminals -> BOOLEAN] /\ waiting \in [Terminals -> BOOLEAN]
  /\ shell \in [Terminals -> {"none", "running", "ended"}]
  /\ orphan \in [Terminals -> BOOLEAN]
  /\ ownerOf \in [Numbers -> Terminals \cup {Free}]
  /\ kills \in [Terminals -> 0 .. MaxKills]
  /\ crowded \subseteq Terminals

AgentInv ==
  /\ agent \in {"idle", "model", "running", "answered"}
  /\ onTerminal \in Terminals \cup {Free}
  /\ todo \in Seq(Commands) /\ outputs \in Seq(Outputs) /\ audit \in Seq(Rows)
  /\ auditFaults \in 0 .. MaxAuditFaults

PtyInv == PtyTypeOK /\ KeepsNumber /\ KilledIsDead /\ AliveMeansOwnPty
LocalInv == PtyInv /\ AgentInv

-----------------------------------------------------------------------------
(* The least of some numbers.                                               *)
LEMMA MinOfNumbers ==
  ASSUME NEW S, S \subseteq Nat, S # {}
  PROVE  Min(S) \in S
<1> DEFINE Less == {p \in Nat \X Nat : p[1] < p[2]}
<1>1. IsWellFoundedOn(Less, Nat)
  <2>1. OpToRel(<, Nat) = Less
    BY SMT DEF OpToRel
  <2> QED
    BY <2>1, NatLessThanWellFounded
<1>2. \A x, y \in Nat : y < x => <<y, x>> \in Less
  OBVIOUS
<1> HIDE DEF Less
<1>3. PICK x \in S : \A y \in S : ~(<<y, x>> \in Less)
  BY <1>1, WFMin, Zenon
<1>4. ASSUME NEW y \in S PROVE x <= y
  <2>1. x \in Nat /\ y \in Nat /\ ~(<<y, x>> \in Less)
    BY <1>3
  <2>2. ~(y < x)
    BY <1>2, <2>1
  <2> QED
    BY <2>1, <2>2
<1> QED
  BY <1>4 DEF Min

-----------------------------------------------------------------------------
(* The shells.                                                              *)
LEMMA CreateInv ==
  ASSUME PtyInv, NEW t \in Terminals, CreateTerminal(t)
  PROVE  PtyInv'
<1> DEFINE n == Min(FreeNumbers)
<1>1. n \in FreeNumbers
  <2>1. FreeNumbers \subseteq Nat /\ FreeNumbers # {}
    BY TerminalAssumption DEF CreateTerminal, FreeNumbers, Numbers
  <2> QED
    BY <2>1, MinOfNumbers
<1>2. PICK accepted \in BOOLEAN :
        /\ waiting' = [waiting EXCEPT ![t] = accepted]
        /\ alive' = [alive EXCEPT ![t] = accepted]
        /\ crowded' = IF accepted THEN crowded ELSE crowded \cup {t}
  BY DEF CreateTerminal
<1>3. /\ number' = [number EXCEPT ![t] = n]
      /\ ownerOf' = [ownerOf EXCEPT ![n] = t]
      /\ shell' = [shell EXCEPT ![t] = "running"]
      /\ UNCHANGED <<kills, orphan>>
      /\ number[t] = 0
  BY DEF CreateTerminal, Made
<1> HIDE DEF n
<1>4. n \in 1 .. MaxNumber /\ n # 0 /\ ownerOf[n] = Free /\ Free \notin Terminals
  BY <1>1, TerminalAssumption DEF FreeNumbers, Numbers, Free
<1>5. PtyTypeOK'
  BY <1>2, <1>3, <1>4, TerminalAssumption DEF PtyInv, PtyTypeOK, Numbers
<1>6. Made(t)' /\ Owns(t)' /\ kills[t] = 0
  <2>1. number'[t] = n /\ ownerOf'[n] = t
    BY <1>3, <1>4 DEF PtyInv, PtyTypeOK, Numbers
  <2>2. kills[t] = 0
    BY <1>3, TerminalAssumption DEF PtyInv, PtyTypeOK, KilledIsDead, Made
  <2> QED
    BY <1>4, <2>1, <2>2 DEF Owns, Made
<1>7. ASSUME NEW u \in Terminals, u # t
      PROVE  /\ number'[u] = number[u] /\ (Made(u)' <=> Made(u)) /\ (Owns(u)' <=> Owns(u))
             /\ alive'[u] = alive[u] /\ shell'[u] = shell[u] /\ orphan'[u] = orphan[u]
             /\ u \in crowded' <=> u \in crowded
  <2>1. number'[u] = number[u]
    BY <1>3, <1>7 DEF PtyInv, PtyTypeOK
  <2>2. Made(u) => number[u] \in Numbers
    BY TerminalAssumption DEF PtyInv, PtyTypeOK, Made, Numbers
  <2>3. Made(u) => (ownerOf'[number[u]] = u <=> ownerOf[number[u]] = u)
    BY <1>3, <1>4, <1>7, <2>2 DEF PtyInv, PtyTypeOK
  <2>4. (Made(u)' <=> Made(u)) /\ (Owns(u)' <=> Owns(u))
    BY <2>1, <2>3 DEF Owns, Made
  <2> QED
    BY <1>2, <1>3, <1>7, <2>1, <2>4 DEF PtyInv, PtyTypeOK
<1>8. ASSUME NEW u \in Terminals, u # t, Made(u), Robbed(u)
      PROVE  Robbed(u)'
  <2>1. PICK w \in Terminals \ {u} : number[w] = number[u] /\ kills[w] >= 2
    BY <1>8 DEF Robbed
  <2>2. w # t
    BY <1>3, <1>8, <2>1 DEF Made
  <2> QED
    BY <1>3, <1>7, <1>8, <2>1, <2>2 DEF Robbed
<1>9. KeepsNumber' /\ KilledIsDead'
  BY <1>3, <1>6, <1>7, <1>8 DEF PtyInv, KeepsNumber, KilledIsDead
<1>10. AliveMeansOwnPty'
  <2>1. t \in crowded' \/ alive'[t]
    BY <1>2 DEF PtyInv, PtyTypeOK
  <2> QED
    BY <1>6, <1>7, <1>8, <2>1 DEF PtyInv, AliveMeansOwnPty
<1> QED
  BY <1>5, <1>9, <1>10 DEF PtyInv

(* What a step leaves of the numbers, when it makes and kills nothing.      *)
LEMMA NumbersStay ==
  ASSUME UNCHANGED <<number, ownerOf, kills, crowded>>, NEW u
  PROVE  /\ Made(u)' <=> Made(u)
         /\ Owns(u)' <=> Owns(u)
         /\ Robbed(u)' <=> Robbed(u)
  BY DEF Made, Owns, Robbed

LEMMA ShellExitsInv ==
  ASSUME PtyInv, NEW t \in Terminals, ShellExits(t)
  PROVE  PtyInv'
<1>1. PICK left \in BOOLEAN : orphan' = [orphan EXCEPT ![t] = left]
  BY DEF ShellExits
<1>2. /\ shell[t] = "running" /\ shell' = [shell EXCEPT ![t] = "ended"]
      /\ UNCHANGED <<number, alive, waiting, ownerOf, kills, crowded>>
  BY DEF ShellExits
<1>3. PtyTypeOK'
  BY <1>1, <1>2 DEF PtyInv, PtyTypeOK
<1>4. KeepsNumber' /\ KilledIsDead'
  BY <1>2, NumbersStay DEF PtyInv, KeepsNumber, KilledIsDead
<1>5. ASSUME NEW u \in Terminals, shell'[u] = "running" \/ orphan'[u]
      PROVE  shell[u] = "running" \/ orphan[u]
  BY <1>1, <1>2, <1>5 DEF PtyInv, PtyTypeOK
<1>6. AliveMeansOwnPty'
  BY <1>2, <1>5, NumbersStay DEF PtyInv, AliveMeansOwnPty
<1> QED
  BY <1>3, <1>4, <1>6 DEF PtyInv

LEMMA HolderExitsInv ==
  ASSUME PtyInv, NEW t \in Terminals, HolderExits(t)
  PROVE  PtyInv'
<1>1. /\ orphan' = [orphan EXCEPT ![t] = FALSE]
      /\ UNCHANGED <<number, alive, shell, waiting, ownerOf, kills, crowded>>
  BY DEF HolderExits
<1>2. PtyTypeOK'
  BY <1>1 DEF PtyInv, PtyTypeOK
<1>3. KeepsNumber' /\ KilledIsDead'
  BY <1>1, NumbersStay DEF PtyInv, KeepsNumber, KilledIsDead
<1>4. \A u \in Terminals : orphan'[u] => orphan[u]
  BY <1>1 DEF PtyInv, PtyTypeOK
<1>5. AliveMeansOwnPty'
  BY <1>1, <1>4, NumbersStay DEF PtyInv, AliveMeansOwnPty
<1> QED
  BY <1>2, <1>3, <1>5 DEF PtyInv

(* A reader that leaves calls its session dead: it has read the end of its  *)
(* own pty, or the pty behind its number is not its own.                    *)
LEMMA ReaderLeavesInv ==
  ASSUME PtyInv, NEW t \in Terminals, ReaderSeesEnd(t) \/ ReaderWakes(t)
  PROVE  PtyInv'
<1>1. /\ waiting' = [waiting EXCEPT ![t] = FALSE]
      /\ alive' = [alive EXCEPT ![t] = FALSE]
      /\ UNCHANGED <<number, shell, orphan, ownerOf, kills, crowded>>
  BY DEF ReaderSeesEnd, ReaderWakes
<1>2. Owns(t) /\ (shell[t] = "running" \/ orphan[t]) => ~alive[t]
  <2>1. Owns(t) => ownerOf[number[t]] = t /\ t # Free
    BY TerminalAssumption DEF Owns, Free
  <2>2. ReaderSeesEnd(t) /\ Owns(t) => shell[t] = "ended" /\ ~orphan[t]
    BY <2>1 DEF ReaderSeesEnd, OtherSideGone
  <2>3. ReaderWakes(t) /\ Owns(t) => ~alive[t]
    BY <2>1 DEF ReaderWakes
  <2> QED
    BY <2>2, <2>3
<1>3. PtyTypeOK'
  BY <1>1 DEF PtyInv, PtyTypeOK
<1>4. \A u \in Terminals : alive'[u] => alive[u]
  BY <1>1 DEF PtyInv, PtyTypeOK
<1>5. KeepsNumber' /\ KilledIsDead'
  BY <1>1, <1>4, NumbersStay DEF PtyInv, KeepsNumber, KilledIsDead
<1>6. ASSUME NEW u \in Terminals, Owns(u), shell[u] = "running" \/ orphan[u]
      PROVE  alive'[u] \/ u \in crowded
  <2>1. alive[u] \/ u \in crowded
    BY <1>6 DEF PtyInv, AliveMeansOwnPty, Owns
  <2> QED
    BY <1>1, <1>2, <1>6, <2>1 DEF PtyInv, PtyTypeOK
<1>7. AliveMeansOwnPty'
  BY <1>1, <1>4, <1>6, NumbersStay DEF PtyInv, AliveMeansOwnPty
<1> QED
  BY <1>3, <1>5, <1>7 DEF PtyInv

(* A kill frees the number its session remembers.  Whoever owned it then is *)
(* robbed: by this kill, which is not the first one, or by the kills of a   *)
(* third session, which has robbed this one as well.                        *)
LEMMA KillInv ==
  ASSUME PtyInv, NEW t \in Terminals, Kill(t)
  PROVE  PtyInv'
<1>1. /\ alive' = [alive EXCEPT ![t] = FALSE]
      /\ ownerOf' = [ownerOf EXCEPT ![number[t]] = Free]
      /\ kills' = [kills EXCEPT ![t] = kills[t] + 1]
      /\ UNCHANGED <<number, shell, orphan, waiting, crowded>>
      /\ Made(t) /\ kills[t] < MaxKills
  BY DEF Kill
<1>2. number[t] \in Numbers /\ Free \notin Terminals
  BY <1>1, TerminalAssumption DEF PtyInv, PtyTypeOK, Made, Numbers, Free
<1>3. \A u \in Terminals : kills[u] \in Nat
  BY TerminalAssumption DEF PtyInv, PtyTypeOK
<1>4. \A u \in Terminals : kills'[u] = IF u = t THEN kills[t] + 1 ELSE kills[u]
  BY <1>1 DEF PtyInv, PtyTypeOK
<1>5. PtyTypeOK'
  <2>1. kills' \in [Terminals -> 0 .. MaxKills]
    BY <1>1, <1>3, TerminalAssumption DEF PtyInv, PtyTypeOK
  <2> QED
    BY <1>1, <1>2, <2>1 DEF PtyInv, PtyTypeOK
<1>6. ASSUME NEW u \in Terminals
      PROVE  /\ Made(u)' <=> Made(u)
             /\ Owns(u)' => Owns(u)
             /\ Robbed(u) => Robbed(u)'
             /\ alive'[u] => alive[u] /\ u # t
  <2>1. (Made(u)' <=> Made(u)) /\ (alive'[u] => alive[u] /\ u # t)
    BY <1>1 DEF PtyInv, PtyTypeOK, Made
  <2>2. Owns(u)' => Owns(u)
    BY <1>1, <1>2 DEF PtyInv, PtyTypeOK, Owns, Made
  <2>3. Robbed(u) => Robbed(u)'
    BY <1>1, <1>3, <1>4 DEF Robbed
  <2> QED
    BY <2>1, <2>2, <2>3
<1>7. ASSUME NEW u \in Terminals, u # t, Owns(u), alive[u] \/ kills[u] = 0
      PROVE  Owns(u)' \/ Robbed(u)'
  <2>1. CASE number[u] # number[t]
    BY <1>1, <1>2, <1>7, <2>1 DEF PtyInv, PtyTypeOK, Owns, Made
  <2>2. CASE number[u] = number[t] /\ kills[t] > 0
    <3>1. kills'[t] >= 2
      BY <1>3, <1>4, <2>2
    <3> QED
      BY <1>1, <1>7, <2>2, <3>1 DEF Robbed
  <2>3. CASE number[u] = number[t] /\ kills[t] = 0
    <3>1. ~Owns(t)
      BY <1>7, <2>3 DEF Owns
    <3>2. Robbed(t)
      BY <1>1, <2>3, <3>1 DEF PtyInv, KeepsNumber
    <3>3. PICK w \in Terminals \ {t} : number[w] = number[t] /\ kills[w] >= 2
      BY <3>2 DEF Robbed
    <3>4. kills[w] > 0 /\ kills[w] # 0
      BY <1>3, <3>3
    <3>5. w # u
      BY <1>7, <3>4 DEF PtyInv, KilledIsDead
    <3>6. Robbed(u)
      BY <2>3, <3>3, <3>5 DEF Robbed
    <3> QED
      BY <1>6, <3>6
  <2>4. kills[t] > 0 \/ kills[t] = 0
    BY <1>3
  <2> QED
    BY <2>1, <2>2, <2>3, <2>4
<1>8. KeepsNumber'
  <2> SUFFICES ASSUME NEW u \in Terminals, Made(u)', kills'[u] = 0
               PROVE  Owns(u)' \/ Robbed(u)'
    BY DEF KeepsNumber
  <2>1. u # t /\ kills[u] = 0
    BY <1>3, <1>4
  <2>2. Owns(u) \/ Robbed(u)
    BY <1>6, <2>1 DEF PtyInv, KeepsNumber
  <2> QED
    BY <1>6, <1>7, <2>1, <2>2
<1>9. KilledIsDead'
  BY <1>1, <1>4, <1>6 DEF PtyInv, KilledIsDead
<1>10. AliveMeansOwnPty'
  <2> SUFFICES ASSUME NEW u \in Terminals, Made(u)'
               PROVE  /\ alive'[u] => Owns(u)' \/ Robbed(u)'
                      /\ Owns(u)' /\ (shell'[u] = "running" \/ orphan'[u])
                           => alive'[u] \/ u \in crowded'
    BY DEF AliveMeansOwnPty
  <2>1. alive'[u] => Owns(u)' \/ Robbed(u)'
    <3>1. alive'[u] => alive[u] /\ u # t /\ (Owns(u) \/ Robbed(u))
      BY <1>6 DEF PtyInv, AliveMeansOwnPty
    <3> QED
      BY <1>6, <1>7, <3>1
  <2>2. Owns(u)' => u # t
    BY <1>1, <1>2 DEF PtyInv, PtyTypeOK, Owns
  <2>3. ASSUME Owns(u)', shell'[u] = "running" \/ orphan'[u]
        PROVE  alive'[u] \/ u \in crowded'
    <3>1. Owns(u) /\ u # t /\ (alive[u] \/ u \in crowded)
      BY <1>1, <1>6, <2>2, <2>3 DEF PtyInv, AliveMeansOwnPty, Owns
    <3> QED
      BY <1>1, <3>1 DEF PtyInv, PtyTypeOK
  <2> QED
    BY <2>1, <2>3
<1> QED
  BY <1>5, <1>8, <1>9, <1>10 DEF PtyInv

LEMMA PtyUnchanged ==
  PtyInv /\ UNCHANGED ptyVars => PtyInv'
<1> SUFFICES ASSUME PtyInv, UNCHANGED ptyVars PROVE PtyInv'
  OBVIOUS
<1>1. UNCHANGED <<number, alive, shell, orphan, waiting, ownerOf, kills, crowded>>
  BY DEF ptyVars
<1>2. PtyTypeOK'
  BY <1>1 DEF PtyInv, PtyTypeOK
<1>3. KeepsNumber' /\ KilledIsDead' /\ AliveMeansOwnPty'
  BY <1>1, NumbersStay DEF PtyInv, KeepsNumber, KilledIsDead, AliveMeansOwnPty
<1> QED
  BY <1>2, <1>3 DEF PtyInv

-----------------------------------------------------------------------------
(* The agent mode.                                                          *)
LEMMA AgentUnchanged ==
  AgentInv /\ UNCHANGED agentVars => AgentInv'
  BY DEF AgentInv, agentVars

LEMMA ExecuteInv ==
  ASSUME AgentInv, ExecuteSafeCommand
  PROVE  AgentInv'
<1>1. /\ Head(todo) \in Commands /\ Tail(todo) \in Seq(Commands)
      /\ todo' = Tail(todo) /\ UNCHANGED <<agent, onTerminal>>
  <2>1. todo \in Seq(Commands) /\ todo # <<>>
    BY DEF AgentInv, ExecuteSafeCommand
  <2> QED
    BY <2>1, HeadTailProperties DEF ExecuteSafeCommand
<1>2. PICK outcome \in CommandOutcomes(Head(todo)) :
        /\ RecordAudit(Audited(Head(todo), outcome))
        /\ outputs' = Append(outputs, [command |-> Head(todo), text |-> outcome.text])
  BY DEF ExecuteSafeCommand
<1>3. /\ outcome.text \in {"blocked", "timed out", "failed", "output", "(exit)"}
      /\ outcome.exit \in {0, 1, 124, 126, 127} /\ outcome.allowed \in BOOLEAN
  BY <1>1 DEF CommandOutcomes, Commands
<1>4. /\ [command |-> Head(todo), text |-> outcome.text] \in Outputs
      /\ Audited(Head(todo), outcome) \in Rows
  BY <1>1, <1>3 DEF Outputs, Rows, Audited
<1>5. /\ outputs' \in Seq(Outputs)
      /\ Append(audit, Audited(Head(todo), outcome)) \in Seq(Rows)
  BY <1>2, <1>4, AppendProperties DEF AgentInv
<1>6. audit' \in Seq(Rows) /\ auditFaults' \in 0 .. MaxAuditFaults
  <2>1. /\ audit' = Append(audit, Audited(Head(todo), outcome)) \/ audit' = audit
        /\ \/ auditFaults' = auditFaults
           \/ auditFaults' = auditFaults + 1 /\ auditFaults < MaxAuditFaults
    BY <1>2 DEF RecordAudit
  <2>2. audit' \in Seq(Rows)
    BY <1>5, <2>1, Zenon DEF AgentInv
  <2>3. auditFaults \in 0 .. MaxAuditFaults /\ MaxAuditFaults \in Nat
    BY TerminalAssumption DEF AgentInv
  <2>4. auditFaults' \in 0 .. MaxAuditFaults
    BY <2>1, <2>3
  <2> QED
    BY <2>2, <2>4
<1> QED
  BY <1>1, <1>5, <1>6 DEF AgentInv

LEMMA ModelAnswersInv ==
  ASSUME AgentInv, ModelAnswers
  PROVE  AgentInv'
<1>1. PICK n \in 0 .. MaxCommands : todo' \in [1 .. n -> Commands]
  BY DEF ModelAnswers
<1>2. n \in Nat
  BY TerminalAssumption
<1>3. todo' \in Seq(Commands)
  BY <1>1, <1>2
<1> QED
  BY <1>3 DEF AgentInv, ModelAnswers

-----------------------------------------------------------------------------
LEMMA LocalInitInv == TerminalInit => LocalInv
<1> SUFFICES ASSUME TerminalInit PROVE LocalInv
  OBVIOUS
<1>1. PtyTypeOK
  <2>1. /\ number \in [Terminals -> 0 .. MaxNumber]
        /\ kills \in [Terminals -> 0 .. MaxKills]
        /\ ownerOf \in [Numbers -> Terminals \cup {Free}]
    BY TerminalAssumption DEF TerminalInit
  <2>2. /\ alive \in [Terminals -> BOOLEAN] /\ waiting \in [Terminals -> BOOLEAN]
        /\ shell \in [Terminals -> {"none", "running", "ended"}]
        /\ orphan \in [Terminals -> BOOLEAN] /\ crowded \subseteq Terminals
    BY DEF TerminalInit
  <2> QED
    BY <2>1, <2>2 DEF PtyTypeOK
<1>2. KeepsNumber /\ KilledIsDead /\ AliveMeansOwnPty
  BY DEF TerminalInit, KeepsNumber, KilledIsDead, AliveMeansOwnPty, Made
<1>3. AgentInv
  <2>1. <<>> \in Seq(Commands) /\ <<>> \in Seq(Outputs) /\ <<>> \in Seq(Rows)
    OBVIOUS
  <2> QED
    BY <2>1, TerminalAssumption DEF TerminalInit, AgentInv
<1> QED
  BY <1>1, <1>2, <1>3 DEF LocalInv, PtyInv

LEMMA LocalStepInv == LocalInv /\ [TerminalNext]_terminalVars => LocalInv'
<1> SUFFICES ASSUME LocalInv, [TerminalNext]_terminalVars PROVE LocalInv'
  OBVIOUS
<1>1. CASE UNCHANGED terminalVars
  BY <1>1, PtyUnchanged, AgentUnchanged DEF LocalInv, terminalVars
<1>2. ASSUME NEW t \in Terminals, UNCHANGED agentVars,
             \/ CreateTerminal(t) \/ ShellExits(t) \/ HolderExits(t)
             \/ ReaderSeesEnd(t) \/ ReaderWakes(t) \/ Kill(t)
      PROVE  LocalInv'
  <2>1. PtyInv'
    BY <1>2, CreateInv, ShellExitsInv, HolderExitsInv, ReaderLeavesInv, KillInv DEF LocalInv
  <2> QED
    BY <1>2, <2>1, AgentUnchanged DEF LocalInv
<1>3. ASSUME NEW t \in Terminals, AgentAsks(t) PROVE LocalInv'
  <2>1. PtyInv'
    BY <1>3, CreateInv, PtyUnchanged DEF LocalInv, AgentAsks
  <2>2. AgentInv'
    BY <1>3 DEF LocalInv, AgentInv, AgentAsks
  <2> QED
    BY <2>1, <2>2 DEF LocalInv
<1>4. CASE ModelAnswers
  BY <1>4, ModelAnswersInv, PtyUnchanged DEF LocalInv, ModelAnswers
<1>5. CASE ExecuteSafeCommand
  BY <1>5, ExecuteInv, PtyUnchanged DEF LocalInv, ExecuteSafeCommand
<1>6. CASE AgentAnswers
  <2>1. AgentInv'
    BY <1>6 DEF LocalInv, AgentInv, AgentAnswers
  <2> QED
    BY <1>6, <2>1, PtyUnchanged DEF LocalInv, AgentAnswers
<1> QED
  BY <1>1, <1>2, <1>3, <1>4, <1>5, <1>6 DEF TerminalNext

LEMMA LocalInvariant == TerminalSpec => []LocalInv
  BY LocalInitInv, LocalStepInv, PTL DEF TerminalSpec

\* The shells, the numbers they own and the agent mode keep their types.
THEOREM TerminalTypes == TerminalSpec => []TerminalTypeOK
<1>1. LocalInv => TerminalTypeOK
  BY DEF LocalInv, PtyInv, PtyTypeOK, AgentInv, TerminalTypeOK
<1> QED
  BY <1>1, LocalInvariant, PTL

\* A session that is alive has its own pty behind its number, unless the second
\* kill of another closed it; and a session whose shell, or what that left
\* running, still holds its own pty is alive, unless it was made while a reader
\* still waited on its number.
THEOREM OwnPty == TerminalSpec => []AliveMeansOwnPty
<1>1. LocalInv => AliveMeansOwnPty
  BY DEF LocalInv, PtyInv
<1> QED
  BY <1>1, LocalInvariant, PTL

(***************************************************************************)
(* What the target manager keeps for every number of devices, requests and  *)
(* restarts: no row waits for a request that is over, and a recorded run is *)
(* the run that happened.                                                   *)
(***************************************************************************)
TargetRows == [serial : Serials, status : {"connecting", "online", "offline"}]

TargetDataOK ==
  /\ targets \in [Ids -> TargetRows \cup {NoTarget}]
  /\ runs \in [Jobs -> [target : Ids, result : Results] \cup {NoRun}]
  /\ kind \in [Jobs -> {"none", "connect", "refresh", "validate"}]
  /\ jobAt \in [Jobs -> Busy \cup {"idle", "over"}]
  /\ onTarget \in [Jobs -> Ids \cup {0}] /\ onSerial \in [Jobs -> Serials \cup {"none"}]
  /\ asked \in [Jobs -> SUBSET Topics]
  /\ failures \in [Jobs -> BOOLEAN] /\ words \in [Jobs -> {"clean", "bad", "gone"}]
  /\ shown \in [Jobs -> Results \cup {"none"}] /\ deleted \in [Jobs -> BOOLEAN]
  /\ abandoned \subseteq Ids

\* The commands of a plan have all run when it goes on to its result, but when
\* adb was missing; a PASS that was shown is true.
Complete(j) == ran[j] = PlannedCommands(asked[j])
TrueResult(j) ==
  /\ jobAt[j] \in {"idle", "adb", "commands", "result"} => shown[j] = "none"
  /\ jobAt[j] = "closing" => shown[j] # "none"
  /\ jobAt[j] = "result" => Complete(j) \/ words[j] = "gone"
  /\ jobAt[j] \in {"closing", "over"} /\ shown[j] = "PASS" =>
       Complete(j) /\ ~failures[j] /\ words[j] = "clean"

\* The row a request works on is that of its serial, unless it was deleted.
OwnRow(j) ==
  Working(j) =>
    /\ onTarget[j] \in Ids
    /\ deleted[j] \/ (onTarget[j] \in Known /\ targets[onTarget[j]].serial = onSerial[j])

\* Only a request that is over has a run, of a row that has its serial or was
\* deleted under it.
OwnRun(j) ==
  runs[j] # NoRun =>
    /\ jobAt[j] = "over"
    /\ runs[j].target = onTarget[j]
    /\ deleted[j] \/ (onTarget[j] \in Known /\ targets[onTarget[j]].serial = onSerial[j])
    /\ runs[j].result \in {"PASS", "FAIL"} => shown[j] = runs[j].result

TargetInv ==
  /\ TargetDataOK /\ TargetSettles
  /\ \A j \in Jobs : TrueResult(j) /\ OwnRow(j) /\ OwnRun(j)

-----------------------------------------------------------------------------
(* The id of a new row is one that no row has.                              *)
LEMMA LeastOfNumbers ==
  ASSUME NEW S, S \subseteq Nat, S # {}
  PROVE  \E x \in S : \A y \in S : x <= y
<1> DEFINE Less == {p \in Nat \X Nat : p[1] < p[2]}
<1>1. IsWellFoundedOn(Less, Nat)
  <2>1. OpToRel(<, Nat) = Less
    BY SMT DEF OpToRel
  <2> QED
    BY <2>1, NatLessThanWellFounded
<1>2. \A x, y \in Nat : y < x => <<y, x>> \in Less
  OBVIOUS
<1> HIDE DEF Less
<1>3. PICK x \in S : \A y \in S : ~(<<y, x>> \in Less)
  BY <1>1, WFMin, Zenon
<1>4. ASSUME NEW y \in S PROVE x <= y
  <2>1. x \in Nat /\ y \in Nat /\ ~(<<y, x>> \in Less)
    BY <1>3
  <2>2. ~(y < x)
    BY <1>2, <2>1
  <2> QED
    BY <2>1, <2>2
<1> QED
  BY <1>4

LEMMA FreshId == NextId \notin Known
<1> SUFFICES ASSUME Known # {} PROVE Max(Known) + 1 \notin Known
  BY DEF NextId
<1>1. MaxTargets \in Nat /\ Known \subseteq 1 .. MaxTargets
  BY TargetAssumption DEF Known, Ids
<1> DEFINE Below == {MaxTargets - i : i \in Known}
<1>2. Below \subseteq Nat /\ Below # {}
  <2>1. \A i \in Known : MaxTargets - i \in Nat
    BY <1>1
  <2> QED
    BY <2>1
<1>3. PICK b \in Below : \A y \in Below : b <= y
  BY <1>2, LeastOfNumbers
<1>4. PICK i \in Known : b = MaxTargets - i
  BY <1>3
<1>5. \A k \in Known : i >= k
  <2> SUFFICES ASSUME NEW k \in Known PROVE i >= k
    OBVIOUS
  <2>1. MaxTargets - i <= MaxTargets - k
    BY <1>3, <1>4
  <2> QED
    BY <1>1, <2>1
<1>6. Max(Known) \in Known /\ \A k \in Known : Max(Known) >= k
  BY <1>5 DEF Max
<1> HIDE DEF Below
<1>7. PICK m \in Known : m = Max(Known) /\ \A k \in Known : m >= k
  BY <1>6
<1>8. m \in Nat /\ ~(m >= m + 1)
  BY <1>1
<1>9. m + 1 \notin Known
  BY <1>7, <1>8
<1> QED
  BY <1>7, <1>9

-----------------------------------------------------------------------------
LEMMA TargetInitInv == TargetInit => TargetInv
<1> SUFFICES ASSUME TargetInit PROVE TargetInv
  OBVIOUS
<1>1. Known = {} /\ \A j \in Jobs : ~Working(j) /\ runs[j] = NoRun
  BY DEF TargetInit, Known, Working, Busy
<1>2. TargetDataOK
  BY DEF TargetInit, TargetDataOK, NoTarget, NoRun
<1>3. \A j \in Jobs : TrueResult(j)
  BY DEF TargetInit, TrueResult
<1> QED
  BY <1>1, <1>2, <1>3 DEF TargetInv, TargetSettles, OwnRow, OwnRun

\* A request that begins gives its row the serial it has, or makes a new row.
LEMMA BeginsInv ==
  ASSUME TargetInv, NEW j \in Jobs, NEW i \in Ids, NEW serial \in Serials,
         NEW what \in {"connect", "refresh", "validate"}, NEW at \in {"adb", "commands"},
         Begins(j, what, i, serial),
         jobAt' = [jobAt EXCEPT ![j] = at],
         asked' \in [Jobs -> SUBSET Topics], \A k \in Jobs : k # j => asked'[k] = asked[k],
         i \notin Known \/ targets[i].serial = serial
  PROVE  TargetInv'
<1> DEFINE row == [serial |-> serial, status |-> "connecting"]
<1>1. /\ jobAt[j] = "idle"
      /\ targets' = [targets EXCEPT ![i] = row]
      /\ kind' = [kind EXCEPT ![j] = what]
      /\ onTarget' = [onTarget EXCEPT ![j] = i]
      /\ onSerial' = [onSerial EXCEPT ![j] = serial]
      /\ abandoned' = abandoned \ {i}
      /\ UNCHANGED <<runs, ran, failures, words, shown, deleted>>
  BY DEF Begins, jobRun
<1>2. row \in TargetRows /\ row # NoTarget /\ row.serial = serial
  BY DEF TargetRows, NoTarget
<1> HIDE DEF row
<1>3. TargetDataOK'
  <2>1. targets' \in [Ids -> TargetRows \cup {NoTarget}]
    BY <1>1, <1>2 DEF TargetInv, TargetDataOK
  <2>2. /\ jobAt' \in [Jobs -> Busy \cup {"idle", "over"}]
        /\ kind' \in [Jobs -> {"none", "connect", "refresh", "validate"}]
    BY <1>1 DEF TargetInv, TargetDataOK, Busy
  <2>3. /\ onTarget' \in [Jobs -> Ids \cup {0}] /\ onSerial' \in [Jobs -> Serials \cup {"none"}]
        /\ abandoned' \subseteq Ids
    BY <1>1 DEF TargetInv, TargetDataOK
  <2> QED
    BY <1>1, <2>1, <2>2, <2>3 DEF TargetInv, TargetDataOK
<1>4. /\ targets'[i] = row
      /\ \A k \in Ids : k # i => targets'[k] = targets[k]
      /\ Known' = Known \cup {i}
  <2>1. /\ targets'[i] = row
        /\ \A k \in Ids : k # i => targets'[k] = targets[k]
    BY <1>1 DEF TargetInv, TargetDataOK
  <2> QED
    BY <1>2, <2>1 DEF Known
<1>5. /\ Working(j)' /\ onTarget'[j] = i /\ onSerial'[j] = serial /\ jobAt'[j] = at
      /\ \A k \in Jobs : k # j => /\ jobAt'[k] = jobAt[k] /\ onTarget'[k] = onTarget[k]
                                  /\ onSerial'[k] = onSerial[k] /\ Working(k)' = Working(k)
  BY <1>1 DEF TargetInv, TargetDataOK, Working, Busy
<1>6. \A k \in Known : targets'[k].serial = targets[k].serial
  BY <1>2, <1>4 DEF Known
<1>7. TargetSettles'
  <2> SUFFICES ASSUME NEW k \in (Known \ abandoned)', targets'[k].status = "connecting"
               PROVE  JobsOn(k)' # {}
    BY DEF TargetSettles
  <2>1. CASE k = i
    BY <1>5, <2>1 DEF JobsOn
  <2>2. CASE k # i
    <3>1. k \in Known \ abandoned /\ targets[k].status = "connecting"
      BY <1>1, <1>4, <2>2 DEF Known
    <3>2. PICK m \in Jobs : Working(m) /\ onTarget[m] = k
      BY <3>1 DEF TargetInv, TargetSettles, JobsOn
    <3>3. m # j
      BY <1>1, <3>2 DEF Working, Busy
    <3> QED
      BY <1>5, <3>2, <3>3 DEF JobsOn
  <2> QED
    BY <2>1, <2>2
<1>8. ASSUME NEW k \in Jobs PROVE (TrueResult(k) /\ OwnRow(k) /\ OwnRun(k))'
  <2>1. TrueResult(k) /\ OwnRow(k) /\ OwnRun(k)
    BY DEF TargetInv
  <2>2. CASE k = j
    <3>1. runs[j] = NoRun
      BY <1>1, <2>1, <2>2 DEF OwnRun
    <3>2. shown'[j] = "none" /\ jobAt'[j] \in {"adb", "commands"} /\ runs'[j] = NoRun
      BY <1>1, <1>5, <2>1, <2>2, <3>1 DEF TrueResult
    <3>3. TrueResult(j)' /\ OwnRun(j)'
      BY <3>2 DEF TrueResult, OwnRun
    <3>4. OwnRow(j)'
      BY <1>2, <1>4, <1>5 DEF OwnRow
    <3> QED
      BY <2>2, <3>3, <3>4
  <2>3. CASE k # j
    <3>1. asked'[k] = asked[k]
      BY <2>3
    <3>2. TrueResult(k)'
      BY <1>1, <1>5, <2>1, <2>3, <3>1 DEF TrueResult, Complete
    <3>3. OwnRow(k)'
      BY <1>1, <1>4, <1>5, <1>6, <2>1, <2>3 DEF OwnRow
    <3>4. OwnRun(k)'
      BY <1>1, <1>4, <1>5, <1>6, <2>1, <2>3 DEF OwnRun
    <3> QED
      BY <3>2, <3>3, <3>4
  <2> QED
    BY <2>2, <2>3
<1> QED
  BY <1>3, <1>7, <1>8 DEF TargetInv

-----------------------------------------------------------------------------
(* A request ends: its row, if it has one, gets a status that does not wait.*)
LEMMA SettleRows ==
  ASSUME TargetDataOK, NEW j \in Jobs, onTarget[j] \in Ids, NEW status \in {"online", "offline"},
         Settle(j, status)
  PROVE  /\ targets' \in [Ids -> TargetRows \cup {NoTarget}] /\ Known' = Known
         /\ \A k \in Known : targets'[k].serial = targets[k].serial
         /\ \A k \in Known : k # onTarget[j] => targets'[k] = targets[k]
         /\ onTarget[j] \in Known => targets'[onTarget[j]].status # "connecting"
<1> DEFINE i == onTarget[j]
<1>1. CASE i \notin Known
  BY <1>1 DEF Settle, TargetDataOK, Known
<1>2. CASE i \in Known
  <2>1. targets' = [targets EXCEPT ![i].status = status] /\ targets[i] \in TargetRows
    BY <1>2 DEF Settle, TargetDataOK, Known
  <2>2. /\ targets'[i] = [targets[i] EXCEPT !.status = status]
        /\ \A k \in Ids : k # i => targets'[k] = targets[k]
    BY <2>1 DEF TargetDataOK
  <2>3. /\ targets'[i] \in TargetRows /\ targets'[i].serial = targets[i].serial
        /\ targets'[i].status = status
    BY <2>1, <2>2 DEF TargetRows
  <2>4. targets'[i] # NoTarget
    BY <2>3 DEF NoTarget
  <2>5. Known' = Known
    BY <1>2, <2>2, <2>4 DEF Known
  <2>6. targets' \in [Ids -> TargetRows \cup {NoTarget}]
    BY <2>1, <2>3 DEF TargetDataOK
  <2>7. \A k \in Known : k \in Ids
    BY DEF Known
  <2> QED
    BY <2>2, <2>3, <2>5, <2>6, <2>7
<1> QED
  BY <1>1, <1>2

\* The end of a request that keeps the rows of all others; what its run and its
\* result have become is left to the action.
LEMMA EndsInv ==
  ASSUME TargetInv, NEW j \in Jobs, Working(j), Ends(j),
         targets' \in [Ids -> TargetRows \cup {NoTarget}], Known' = Known,
         \A k \in Known : targets'[k].serial = targets[k].serial,
         \A k \in Known : k # onTarget[j] => targets'[k] = targets[k],
         \/ onTarget[j] \in Known => targets'[onTarget[j]].status # "connecting"
         \/ onTarget[j] \in abandoned',
         abandoned' \subseteq Ids, abandoned \subseteq abandoned',
         runs' \in [Jobs -> [target : Ids, result : Results] \cup {NoRun}],
         shown' \in [Jobs -> Results \cup {"none"}],
         \A k \in Jobs : k # j => runs'[k] = runs[k] /\ shown'[k] = shown[k],
         (TrueResult(j) /\ OwnRun(j))'
  PROVE  TargetInv'
<1>1. /\ jobAt' = [jobAt EXCEPT ![j] = "over"]
      /\ UNCHANGED <<kind, onTarget, onSerial, asked, ran, failures, words, deleted>>
  BY DEF Ends, jobData
<1>2. /\ jobAt'[j] = "over" /\ ~Working(j)'
      /\ \A k \in Jobs : k # j => jobAt'[k] = jobAt[k] /\ Working(k)' = Working(k)
  BY <1>1 DEF TargetInv, TargetDataOK, Working, Busy
<1>3. TargetDataOK'
  <2>1. jobAt' \in [Jobs -> Busy \cup {"idle", "over"}]
    BY <1>1 DEF TargetInv, TargetDataOK
  <2> QED
    BY <1>1, <2>1 DEF TargetInv, TargetDataOK
<1>4. TargetSettles'
  <2> SUFFICES ASSUME NEW i \in (Known \ abandoned)', targets'[i].status = "connecting"
               PROVE  JobsOn(i)' # {}
    BY DEF TargetSettles
  <2>1. i # onTarget[j] /\ i \in Known \ abandoned
    OBVIOUS
  <2>2. PICK k \in Jobs : Working(k) /\ onTarget[k] = i
    BY <2>1 DEF TargetInv, TargetSettles, JobsOn
  <2> QED
    BY <1>1, <1>2, <2>1, <2>2 DEF JobsOn
<1>5. ASSUME NEW k \in Jobs PROVE (TrueResult(k) /\ OwnRow(k) /\ OwnRun(k))'
  <2>1. TrueResult(k) /\ OwnRow(k) /\ OwnRun(k)
    BY DEF TargetInv
  <2>2. CASE k = j
    BY <1>2, <2>2 DEF OwnRow
  <2>3. CASE k # j
    <3>1. TrueResult(k)'
      BY <1>1, <1>2, <2>1, <2>3 DEF TrueResult, Complete
    <3>2. OwnRow(k)'
      BY <1>1, <1>2, <2>1, <2>3 DEF OwnRow
    <3>3. OwnRun(k)'
      BY <1>1, <1>2, <2>1, <2>3 DEF OwnRun
    <3> QED
      BY <3>1, <3>2, <3>3
  <2> QED
    BY <2>2, <2>3
<1> QED
  BY <1>3, <1>4, <1>5 DEF TargetInv

LEMMA WorkingRow ==
  ASSUME TargetInv, NEW j \in Jobs, jobAt[j] \in Busy
  PROVE  Working(j) /\ TargetDataOK /\ onTarget[j] \in Ids /\ runs[j] = NoRun
BY DEF TargetInv, OwnRow, OwnRun, Working, Busy

LEMMA CheckAnswersInv ==
  ASSUME TargetInv, NEW j \in Jobs, NEW ok \in BOOLEAN, CheckAnswers(j, ok)
  PROVE  TargetInv'
<1> DEFINE status == IF ok THEN "online" ELSE "offline"
<1>1. /\ jobAt[j] = "adb" /\ Settle(j, status) /\ Ends(j)
      /\ UNCHANGED <<runs, shown, abandoned>> /\ status \in {"online", "offline"}
  BY DEF CheckAnswers
<1> HIDE DEF status
<1>2. Working(j) /\ TargetDataOK /\ onTarget[j] \in Ids /\ runs[j] = NoRun
  BY <1>1, WorkingRow DEF Busy
<1>3. /\ targets' \in [Ids -> TargetRows \cup {NoTarget}] /\ Known' = Known
      /\ \A k \in Known : targets'[k].serial = targets[k].serial
      /\ \A k \in Known : k # onTarget[j] => targets'[k] = targets[k]
      /\ onTarget[j] \in Known => targets'[onTarget[j]].status # "connecting"
  BY <1>1, <1>2, SettleRows
<1>4. shown[j] # "PASS"
  BY <1>1 DEF TargetInv, TrueResult
<1>5. jobAt'[j] = "over"
  BY <1>1, <1>2 DEF Ends, TargetDataOK
<1>6. (TrueResult(j) /\ OwnRun(j))'
  BY <1>1, <1>2, <1>4, <1>5 DEF TrueResult, OwnRun
<1>7. /\ runs' \in [Jobs -> [target : Ids, result : Results] \cup {NoRun}]
      /\ shown' \in [Jobs -> Results \cup {"none"}] /\ abandoned' \subseteq Ids
  BY <1>1, <1>2 DEF TargetDataOK
<1> QED
  BY <1>1, <1>2, <1>3, <1>6, <1>7, EndsInv

LEMMA CheckRaisesInv ==
  ASSUME TargetInv, NEW j \in Jobs, CheckRaises(j)
  PROVE  TargetInv'
<1>1. /\ jobAt[j] = "adb" /\ Ends(j) /\ abandoned' = abandoned \cup {onTarget[j]}
      /\ UNCHANGED <<targets, runs, shown>>
  BY DEF CheckRaises
<1>2. Working(j) /\ TargetDataOK /\ onTarget[j] \in Ids /\ runs[j] = NoRun
  BY <1>1, WorkingRow DEF Busy
<1>3. Known' = Known /\ targets' \in [Ids -> TargetRows \cup {NoTarget}]
  BY <1>1, <1>2 DEF Known, TargetDataOK
<1>4. shown[j] # "PASS"
  BY <1>1 DEF TargetInv, TrueResult
<1>5. jobAt'[j] = "over"
  BY <1>1, <1>2 DEF Ends, TargetDataOK
<1>6. (TrueResult(j) /\ OwnRun(j))'
  BY <1>1, <1>2, <1>4, <1>5 DEF TrueResult, OwnRun
<1>7. /\ runs' \in [Jobs -> [target : Ids, result : Results] \cup {NoRun}]
      /\ shown' \in [Jobs -> Results \cup {"none"}] /\ abandoned' \subseteq Ids
  BY <1>1, <1>2 DEF TargetDataOK
<1> QED
  BY <1>1, <1>2, <1>3, <1>6, <1>7, EndsInv

\* The finally clause of a validation that has shown what it records, or records
\* an error.
LEMMA RecordsInv ==
  ASSUME TargetInv, NEW j \in Jobs, jobAt[j] \in {"commands", "result", "closing"},
         NEW result \in Results, Records(j, result),
         shown' \in [Jobs -> Results \cup {"none"}],
         \A k \in Jobs : k # j => shown'[k] = shown[k],
         result \in {"PASS", "FAIL"} => shown'[j] = result,
         shown'[j] = "PASS" => shown[j] = "PASS" /\ jobAt[j] = "closing"
  PROVE  TargetInv'
<1> DEFINE status == IF result = "PASS" THEN "online" ELSE "offline"
<1>1. /\ Settle(j, status) /\ Ends(j) /\ abandoned' = abandoned
      /\ status \in {"online", "offline"}
      /\ runs' = IF onTarget[j] \in Known
                  THEN [runs EXCEPT ![j] = [target |-> onTarget[j], result |-> result]]
                  ELSE runs
  BY DEF Records
<1> HIDE DEF status
<1>2. Working(j) /\ TargetDataOK /\ onTarget[j] \in Ids /\ runs[j] = NoRun
  BY WorkingRow DEF Busy
<1>3. /\ targets' \in [Ids -> TargetRows \cup {NoTarget}] /\ Known' = Known
      /\ \A k \in Known : targets'[k].serial = targets[k].serial
      /\ \A k \in Known : k # onTarget[j] => targets'[k] = targets[k]
      /\ onTarget[j] \in Known => targets'[onTarget[j]].status # "connecting"
  BY <1>1, <1>2, SettleRows
<1>4. /\ jobAt'[j] = "over"
      /\ UNCHANGED <<onTarget, onSerial, asked, ran, failures, words, deleted>>
  BY <1>1, <1>2 DEF Ends, TargetDataOK, jobData
<1>5. TrueResult(j)'
  BY <1>4 DEF TargetInv, TrueResult, Complete
<1>6. OwnRun(j)'
  <2>1. CASE onTarget[j] \notin Known
    BY <1>1, <1>2, <2>1 DEF OwnRun
  <2>2. CASE onTarget[j] \in Known
    <3>1. runs'[j].target = onTarget[j] /\ runs'[j].result = result
      BY <1>1, <1>2, <2>2 DEF TargetDataOK
    <3>2. deleted[j] \/ targets[onTarget[j]].serial = onSerial[j]
      BY <1>2 DEF TargetInv, OwnRow
    <3> QED
      BY <1>3, <1>4, <2>2, <3>1, <3>2 DEF OwnRun
  <2> QED
    BY <2>1, <2>2
<1>7. /\ runs' \in [Jobs -> [target : Ids, result : Results] \cup {NoRun}]
      /\ \A k \in Jobs : k # j => runs'[k] = runs[k]
      /\ abandoned' \subseteq Ids
  BY <1>1, <1>2 DEF TargetDataOK
<1> QED
  BY <1>1, <1>2, <1>3, <1>5, <1>6, <1>7, EndsInv

\* A step of a validation that only it sees.
LEMMA OwnStep ==
  ASSUME TargetInv, NEW j \in Jobs, jobAt[j] \in Busy, jobAt'[j] \in Busy,
         jobAt' \in [Jobs -> Busy \cup {"idle", "over"}],
         \A k \in Jobs : k # j => jobAt'[k] = jobAt[k],
         UNCHANGED <<targets, runs, jobData, deleted, abandoned>>,
         failures' \in [Jobs -> BOOLEAN], words' \in [Jobs -> {"clean", "bad", "gone"}],
         shown' \in [Jobs -> Results \cup {"none"}],
         \A k \in Jobs : k # j => /\ ran'[k] = ran[k] /\ failures'[k] = failures[k]
                                   /\ words'[k] = words[k] /\ shown'[k] = shown[k],
         TrueResult(j)'
  PROVE  TargetInv'
<1> USE DEF jobData
<1>1. \A k \in Jobs : Working(k)' = Working(k)
  BY DEF TargetInv, TargetDataOK, Working, Busy
<1>2. TargetDataOK'
  BY DEF TargetInv, TargetDataOK
<1>3. Known' = Known
  BY DEF Known
<1>4. TargetSettles'
  BY <1>1, <1>3 DEF TargetInv, TargetSettles, JobsOn
<1>5. ASSUME NEW k \in Jobs PROVE (TrueResult(k) /\ OwnRow(k) /\ OwnRun(k))'
  <2>1. TrueResult(k) /\ OwnRow(k) /\ OwnRun(k)
    BY DEF TargetInv
  <2>2. TrueResult(k)'
    <3>1. CASE k = j
      BY <3>1
    <3>2. CASE k # j
      BY <2>1, <3>2 DEF TrueResult, Complete
    <3> QED
      BY <3>1, <3>2
  <2>3. OwnRow(k)'
    BY <1>1, <1>3, <2>1 DEF OwnRow
  <2>4. OwnRun(k)'
    <3>1. CASE k = j
      BY <2>1, <3>1 DEF OwnRun, Busy
    <3>2. CASE k # j
      BY <1>3, <2>1, <3>2 DEF OwnRun
    <3> QED
      BY <3>1, <3>2
  <2> QED
    BY <2>2, <2>3, <2>4
<1> QED
  BY <1>2, <1>4, <1>5 DEF TargetInv

LEMMA ValidationInv ==
  ASSUME TargetInv, NEW j \in Jobs,
         \/ \E out \in Outcomes : CommandRuns(j, out)
         \/ AdbMissing(j) \/ PlanEnds(j) \/ SendResult(j)
  PROVE  TargetInv'
<1> USE DEF jobData, jobRun, Busy
<1>1. TargetDataOK /\ TrueResult(j)
  BY DEF TargetInv
<1>2. CASE \E out \in Outcomes : CommandRuns(j, out)
  <2>1. PICK out \in Outcomes : CommandRuns(j, out)
    BY <1>2
  <2>2. /\ out.rc \in BOOLEAN /\ out.says \in {"clean", "bad", "gone"}
        /\ words[j] \in {"clean", "bad", "gone"}
    BY <1>1 DEF Outcomes, TargetDataOK
  <2>3. Worst(words[j], out.says) \in {"clean", "bad", "gone"}
    BY <2>2 DEF Worst
  <2>4. /\ failures' \in [Jobs -> BOOLEAN] /\ words' \in [Jobs -> {"clean", "bad", "gone"}]
        /\ \A k \in Jobs : k # j => /\ ran'[k] = ran[k] /\ failures'[k] = failures[k]
                                  /\ words'[k] = words[k]
    BY <1>1, <2>1, <2>3 DEF CommandRuns, TargetDataOK
  <2>5. TrueResult(j)'
    BY <1>1, <2>1 DEF CommandRuns, TrueResult
  <2> QED
    BY <1>1, <2>1, <2>4, <2>5, OwnStep DEF CommandRuns, TargetDataOK
<1>3. CASE AdbMissing(j)
  <2>1. /\ jobAt'[j] = "result" /\ words'[j] = "gone" /\ shown' = shown
        /\ \A k \in Jobs : k # j => jobAt'[k] = jobAt[k]
        /\ failures' \in [Jobs -> BOOLEAN] /\ words' \in [Jobs -> {"clean", "bad", "gone"}]
        /\ jobAt' \in [Jobs -> Busy \cup {"idle", "over"}]
        /\ \A k \in Jobs : k # j => /\ ran'[k] = ran[k] /\ failures'[k] = failures[k]
                                  /\ words'[k] = words[k]
    BY <1>1, <1>3 DEF AdbMissing, TargetDataOK
  <2>2. TrueResult(j)'
    BY <1>1, <1>3, <2>1 DEF AdbMissing, TrueResult
  <2>3. /\ jobAt[j] \in Busy /\ jobAt'[j] \in Busy
        /\ UNCHANGED <<targets, runs, jobData, deleted, abandoned>>
        /\ shown' \in [Jobs -> Results \cup {"none"}]
        /\ \A k \in Jobs : k # j => shown'[k] = shown[k]
    BY <1>1, <1>3, <2>1 DEF AdbMissing, TargetDataOK
  <2> QED
    BY <2>1, <2>2, <2>3, OwnStep
<1>4. CASE PlanEnds(j)
  <2>1. /\ jobAt'[j] = "result"
        /\ \A k \in Jobs : k # j => jobAt'[k] = jobAt[k]
        /\ jobAt' \in [Jobs -> Busy \cup {"idle", "over"}]
    BY <1>1, <1>4 DEF PlanEnds, TargetDataOK
  <2>2. TrueResult(j)'
    BY <1>1, <1>4, <2>1 DEF PlanEnds, TrueResult, Complete
  <2> QED
    BY <1>1, <1>4, <2>1, <2>2, OwnStep DEF PlanEnds, TargetDataOK
<1>5. CASE SendResult(j)
  <2>1. /\ jobAt'[j] = "closing" /\ shown'[j] = Summarize(j)
        /\ \A k \in Jobs : k # j => jobAt'[k] = jobAt[k] /\ shown'[k] = shown[k]
        /\ jobAt' \in [Jobs -> Busy \cup {"idle", "over"}]
    BY <1>1, <1>5 DEF SendResult, TargetDataOK
  <2>2. Summarize(j) \in Results
    BY DEF Summarize, Results
  <2>3. shown' \in [Jobs -> Results \cup {"none"}]
    BY <1>1, <1>5, <2>2 DEF SendResult, TargetDataOK
  <2>4. Summarize(j) = "PASS" => words[j] = "clean" /\ ~failures[j]
    BY <1>1 DEF Summarize, Says, TargetDataOK
  <2>5. TrueResult(j)'
    BY <1>1, <1>5, <2>1, <2>2, <2>4 DEF SendResult, TrueResult, Complete, Results
  <2> QED
    BY <1>1, <1>5, <2>1, <2>3, <2>5, OwnStep DEF SendResult, TargetDataOK
<1> QED
  BY <1>2, <1>3, <1>4, <1>5

LEMMA RecordingInv ==
  ASSUME TargetInv, NEW j \in Jobs, RecordResult(j) \/ ValidationRaises(j) \/ PageLeaves(j)
  PROVE  TargetInv'
<1>1. TargetDataOK /\ TrueResult(j)
  BY DEF TargetInv
<1>2. CASE RecordResult(j)
  <2>1. jobAt[j] = "closing" /\ Records(j, shown[j]) /\ shown' = shown
    BY <1>2 DEF RecordResult
  <2>2. shown[j] \in Results /\ shown' \in [Jobs -> Results \cup {"none"}]
    BY <1>1, <2>1 DEF TrueResult, TargetDataOK
  <2> QED
    BY <2>1, <2>2, RecordsInv
<1>3. CASE ValidationRaises(j)
  <2>1. /\ jobAt[j] \in {"commands", "result"} /\ Records(j, "ERROR") /\ "ERROR" \in Results
        /\ shown' = [shown EXCEPT ![j] = "ERROR"]
    BY <1>3 DEF ValidationRaises, Results
  <2>2. /\ shown' \in [Jobs -> Results \cup {"none"}] /\ shown'[j] = "ERROR"
        /\ \A k \in Jobs : k # j => shown'[k] = shown[k]
    BY <1>1, <2>1 DEF TargetDataOK
  <2> QED
    BY <2>1, <2>2, RecordsInv
<1>4. CASE PageLeaves(j)
  <2>1. /\ jobAt[j] \in {"commands", "result", "closing"} /\ Records(j, "ERROR")
        /\ "ERROR" \in Results /\ shown' = shown
    BY <1>4 DEF PageLeaves, Results
  <2>2. shown[j] = "PASS" => jobAt[j] = "closing"
    BY <1>1, <2>1 DEF TrueResult
  <2> QED
    BY <1>1, <2>1, <2>2, RecordsInv DEF TargetDataOK
<1> QED
  BY <1>2, <1>3, <1>4

\* Its runs go with a target, and the requests that work on it know.
LEMMA DisconnectInv ==
  ASSUME TargetInv, NEW i \in Ids, DisconnectTarget(i)
  PROVE  TargetInv'
<1>1. /\ i \in Known /\ targets' = [targets EXCEPT ![i] = NoTarget]
      /\ runs' = [j \in Jobs |-> IF runs[j].target = i THEN NoRun ELSE runs[j]]
      /\ deleted' = [j \in Jobs |-> deleted[j] \/ j \in JobsOn(i)]
      /\ abandoned' = abandoned \ {i}
      /\ UNCHANGED <<jobAt, kind, onTarget, onSerial, asked, ran, failures, words, shown>>
  BY DEF DisconnectTarget, jobData, jobRun
<1>2. TargetDataOK'
  <2>1. runs' \in [Jobs -> [target : Ids, result : Results] \cup {NoRun}]
    BY <1>1 DEF TargetInv, TargetDataOK
  <2>2. targets' \in [Ids -> TargetRows \cup {NoTarget}]
    BY <1>1 DEF TargetInv, TargetDataOK
  <2>3. deleted' \in [Jobs -> BOOLEAN]
    BY <1>1 DEF TargetInv, TargetDataOK
  <2> QED
    BY <1>1, <2>1, <2>2, <2>3 DEF TargetInv, TargetDataOK
<1>3. /\ Known' = Known \ {i} /\ Known \subseteq Ids
      /\ \A k \in Ids : k # i => targets'[k] = targets[k]
  BY <1>1 DEF TargetInv, TargetDataOK, Known
<1>4. \A j \in Jobs : Working(j)' = Working(j)
  BY <1>1 DEF Working
<1>5. TargetSettles'
  BY <1>1, <1>3, <1>4 DEF TargetInv, TargetSettles, JobsOn
<1>6. ASSUME NEW j \in Jobs PROVE (TrueResult(j) /\ OwnRow(j) /\ OwnRun(j))'
  <2>1. TrueResult(j) /\ OwnRow(j) /\ OwnRun(j)
    BY DEF TargetInv
  <2>2. TrueResult(j)'
    BY <1>1, <2>1 DEF TrueResult, Complete
  <2>3. deleted[j] \/ (Working(j) /\ onTarget[j] = i) => deleted'[j]
    BY <1>1 DEF JobsOn
  <2>4. OwnRow(j)'
    BY <1>1, <1>3, <1>4, <2>1, <2>3 DEF OwnRow
  <2>5. OwnRun(j)'
    <3> SUFFICES ASSUME runs'[j] # NoRun PROVE OwnRun(j)'
      BY DEF OwnRun
    <3>1. runs'[j] = runs[j] /\ runs[j].target # i
      BY <1>1
    <3> QED
      BY <1>1, <1>3, <2>1, <2>3, <3>1 DEF OwnRun
  <2> QED
    BY <2>2, <2>4, <2>5
<1> QED
  BY <1>2, <1>5, <1>6 DEF TargetInv

LEMMA TargetCrashInv ==
  ASSUME TargetInv, TargetCrash
  PROVE  TargetInv'
<1>1. /\ jobAt' = [j \in Jobs |-> IF Working(j) THEN "over" ELSE jobAt[j]]
      /\ abandoned' = abandoned \cup {onTarget[j] : j \in {k \in Jobs : Working(k)}}
      /\ UNCHANGED <<targets, runs, kind, onTarget, onSerial, asked, ran, failures, words, shown,
                     deleted>>
  BY DEF TargetCrash, jobData, jobRun
<1>2. \A j \in Jobs : /\ ~Working(j)'
                      /\ Working(j) => jobAt'[j] = "over"
                      /\ ~Working(j) => jobAt'[j] = jobAt[j]
  BY <1>1 DEF Working, Busy
<1>3. Known' = Known
  BY <1>1 DEF Known
<1>4. TargetDataOK'
  <2>1. jobAt' \in [Jobs -> Busy \cup {"idle", "over"}]
    BY <1>1 DEF TargetInv, TargetDataOK
  <2>2. abandoned' \subseteq Ids
    BY <1>1 DEF TargetInv, TargetDataOK, OwnRow
  <2> QED
    BY <1>1, <2>1, <2>2 DEF TargetInv, TargetDataOK
<1>5. TargetSettles'
  <2> SUFFICES ASSUME NEW i \in (Known \ abandoned)', targets'[i].status = "connecting"
               PROVE  FALSE
    BY DEF TargetSettles
  <2>1. PICK j \in Jobs : Working(j) /\ onTarget[j] = i
    BY <1>1, <1>3 DEF TargetInv, TargetSettles, JobsOn
  <2> QED
    BY <1>1, <2>1
<1>6. ASSUME NEW j \in Jobs PROVE (TrueResult(j) /\ OwnRow(j) /\ OwnRun(j))'
  <2>1. TrueResult(j) /\ OwnRow(j) /\ OwnRun(j)
    BY DEF TargetInv
  <2>2. TrueResult(j)'
    <3>1. CASE Working(j)
      <4>1. jobAt'[j] = "over"
        BY <1>2, <3>1
      <4> QED
        BY <1>1, <2>1, <3>1, <4>1 DEF TrueResult, Complete, Working, Busy
    <3>2. CASE ~Working(j)
      BY <1>1, <1>2, <2>1, <3>2 DEF TrueResult, Complete
    <3> QED
      BY <3>1, <3>2
  <2>3. OwnRow(j)'
    BY <1>2 DEF OwnRow
  <2>4. OwnRun(j)'
    BY <1>1, <1>2, <1>3, <2>1 DEF OwnRun
  <2> QED
    BY <2>2, <2>3, <2>4
<1> QED
  BY <1>4, <1>5, <1>6 DEF TargetInv

-----------------------------------------------------------------------------
LEMMA StartsInv ==
  ASSUME TargetInv, NEW j \in Jobs,
         \/ \E serial \in Serials : ConnectTarget(j, serial)
         \/ \E i \in Ids : RefreshTarget(j, i)
         \/ \E i \in Ids, topics \in Requests : ValidateTarget(j, i, topics)
  PROVE  TargetInv'
<1>1. TargetDataOK
  BY DEF TargetInv
<1>2. ASSUME NEW serial \in Serials, ConnectTarget(j, serial) PROVE TargetInv'
  <2>1. PICK i \in IF RowOf(serial) = {} THEN Ids \cap {NextId} ELSE RowOf(serial) :
          Begins(j, "connect", i, serial)
    BY <1>2 DEF ConnectTarget
  <2>2. i \in Ids /\ (i \notin Known \/ targets[i].serial = serial)
    BY <2>1, FreshId DEF RowOf, Known
  <2>3. jobAt' = [jobAt EXCEPT ![j] = "adb"] /\ asked' = asked
    BY <1>2 DEF ConnectTarget
  <2> QED
    BY <1>1, <2>1, <2>2, <2>3, BeginsInv DEF TargetDataOK
<1>3. ASSUME NEW i \in Ids, i \in Known PROVE targets[i].serial \in Serials
  BY <1>1, <1>3 DEF TargetDataOK, Known, TargetRows
<1>4. ASSUME NEW i \in Ids, RefreshTarget(j, i) PROVE TargetInv'
  <2>1. /\ i \in Known /\ Begins(j, "refresh", i, targets[i].serial)
        /\ jobAt' = [jobAt EXCEPT ![j] = "adb"] /\ asked' = asked
    BY <1>4 DEF RefreshTarget
  <2>2. targets[i].serial \in Serials
    BY <1>3, <2>1
  <2> QED
    BY <1>1, <2>1, <2>2, BeginsInv DEF TargetDataOK
<1>5. ASSUME NEW i \in Ids, NEW topics \in Requests, ValidateTarget(j, i, topics) PROVE TargetInv'
  <2>1. /\ i \in Known /\ Begins(j, "validate", i, targets[i].serial)
        /\ jobAt' = [jobAt EXCEPT ![j] = "commands"] /\ asked' = [asked EXCEPT ![j] = topics]
    BY <1>5 DEF ValidateTarget
  <2>2. targets[i].serial \in Serials /\ topics \in SUBSET Topics
    BY <1>3, <2>1, TargetAssumption
  <2>3. asked' \in [Jobs -> SUBSET Topics] /\ \A k \in Jobs : k # j => asked'[k] = asked[k]
    BY <1>1, <2>1, <2>2 DEF TargetDataOK
  <2> QED
    BY <2>1, <2>2, <2>3, BeginsInv
<1> QED
  BY <1>2, <1>4, <1>5

LEMMA TargetStepInv == TargetInv /\ [TargetNext]_targetVars => TargetInv'
<1> SUFFICES ASSUME TargetInv, [TargetNext]_targetVars PROVE TargetInv'
  OBVIOUS
<1>1. CASE UNCHANGED targetVars
  BY <1>1 DEF TargetInv, TargetDataOK, TargetSettles, JobsOn, Known, Working, TrueResult, Complete, OwnRow,
              OwnRun, targetVars, jobData, jobRun
<1>2. ASSUME NEW j \in Jobs, JobNext(j) PROVE TargetInv'
  BY <1>2, StartsInv, CheckAnswersInv, CheckRaisesInv, ValidationInv, RecordingInv DEF JobNext
<1>3. CASE \E i \in Ids : DisconnectTarget(i)
  BY <1>3, DisconnectInv
<1>4. CASE TargetCrash
  BY <1>4, TargetCrashInv
<1> QED
  BY <1>1, <1>2, <1>3, <1>4 DEF TargetNext

LEMMA TargetInvariant == TargetSpec => []TargetInv
  BY TargetInitInv, TargetStepInv, PTL DEF TargetSpec

(* What only counts is kept by every step: the commands of a plan and the   *)
(* restarts.                                                                *)
TargetCounts == ran \in [Jobs -> Nat] /\ targetCrashes \in 0 .. MaxTargetCrashes

LEMMA TargetCountsStep == TargetCounts /\ [TargetNext]_targetVars => TargetCounts'
<1> SUFFICES ASSUME TargetCounts, [TargetNext]_targetVars PROVE TargetCounts'
  OBVIOUS
<1> USE DEF jobData, jobRun
<1>1. CASE UNCHANGED targetVars
  BY <1>1 DEF targetVars, TargetCounts
<1>2. ASSUME NEW j \in Jobs, JobNext(j) PROVE TargetCounts'
  <2>1. \/ UNCHANGED ran
        \/ ran' = [ran EXCEPT ![j] = @ + 1]
    BY <1>2 DEF JobNext, ConnectTarget, RefreshTarget, ValidateTarget, Begins, CheckAnswers,
                CheckRaises, Ends, CommandRuns, AdbMissing, PlanEnds, SendResult, RecordResult,
                ValidationRaises, PageLeaves, Records
  <2>2. UNCHANGED targetCrashes
    BY <1>2 DEF JobNext, ConnectTarget, RefreshTarget, ValidateTarget, Begins, CheckAnswers,
                CheckRaises, Ends, CommandRuns, AdbMissing, PlanEnds, SendResult, RecordResult,
                ValidationRaises, PageLeaves, Records
  <2> QED
    BY <2>1, <2>2 DEF TargetCounts
<1>3. ASSUME NEW i \in Ids, DisconnectTarget(i) PROVE TargetCounts'
  BY <1>3 DEF DisconnectTarget, TargetCounts
<1>4. CASE TargetCrash
  BY <1>4, TargetAssumption DEF TargetCrash, TargetCounts
<1> QED
  BY <1>1, <1>2, <1>3, <1>4 DEF TargetNext

\* The tables and the requests on them keep their types.
THEOREM TargetTypes == TargetSpec => []TargetTypeOK
<1>1. TargetInit => TargetCounts
  BY TargetAssumption DEF TargetInit, TargetCounts
<1>2. TargetSpec => []TargetCounts
  BY <1>1, TargetCountsStep, PTL DEF TargetSpec
<1>3. TargetInv /\ TargetCounts => TargetTypeOK
  BY DEF TargetInv, TargetDataOK, TargetRows, TargetCounts, TargetTypeOK
<1> QED
  BY <1>2, <1>3, TargetInvariant, PTL

\* A target that no request works on does not say "connecting", however many
\* requests overlapped on it, unless one died.
THEOREM Settles == TargetSpec => []TargetSettles
<1>1. TargetInv => TargetSettles
  BY DEF TargetInv
<1> QED
  BY <1>1, TargetInvariant, PTL

\* A recorded run is of the device it ran on and says what the page was shown;
\* a PASS was earned by every command of the plan.
THEOREM RunIsTrue == TargetSpec => []TargetRunIsTrue
<1>1. TargetInv => TargetRunIsTrue
  <2> SUFFICES ASSUME TargetInv, NEW j \in Jobs, runs[j] # NoRun
               PROVE  /\ deleted[j] \/ ( /\ runs[j].target \in Known
                                         /\ targets[runs[j].target].serial = onSerial[j] )
                      /\ runs[j].result \in {"PASS", "FAIL"} => shown[j] = runs[j].result
                      /\ runs[j].result = "PASS" => Complete(j) /\ ~failures[j] /\ words[j] = "clean"
    BY DEF TargetRunIsTrue, Complete
  <2>1. TrueResult(j) /\ OwnRun(j)
    BY DEF TargetInv
  <2> QED
    BY <2>1 DEF TrueResult, OwnRun
<1> QED
  BY <1>1, TargetInvariant, PTL
=============================================================================
