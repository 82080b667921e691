-------------------------- MODULE AgentChatProofs --------------------------
(***************************************************************************)
(* Proofs about AgentChat, for every number of sessions and turns,          *)
(* deletions, resets and restarts: the two records of a conversation stay   *)
(* the same, and what leaves the memory of a session leaves it fairly.      *)
(***************************************************************************)
EXTENDS AgentChat, TLAPS

StoreOK ==
  /\ stage \in [Turns -> Running \cup {"idle", "done", "dead"}]
  /\ chatOf \in [Turns -> Chats]
  /\ sessionRows \subseteq Chats /\ cutOff \subseteq Chats
  /\ DOMAIN convo = Chats /\ DOMAIN messages = Chats

\* A session with a turn under way has its rows, unless it was deleted under it.
TurnHasRow ==
  \A t \in Turns :
    stage[t] \in Running /\ chatOf[t] \notin cutOff => chatOf[t] \in sessionRows

RowsInv == StoreOK /\ TurnHasRow /\ ChatRowsAgree

-----------------------------------------------------------------------------
LEMMA RowsInitInv == ChatInit => RowsInv
<1> SUFFICES ASSUME ChatInit PROVE RowsInv
  OBVIOUS
<1>1. StoreOK
  BY ChatAssumption DEF ChatInit, StoreOK
<1>2. TurnHasRow /\ ChatRowsAgree
  BY DEF ChatInit, TurnHasRow, ChatRowsAgree, Running
<1> QED
  BY <1>1, <1>2 DEF RowsInv

\* A message that goes to both records of a session, or to one that was deleted
\* under a turn, leaves the records alike.
LEMMA AppendKeeps ==
  ASSUME StoreOK, ChatRowsAgree, NEW s \in Chats, NEW m, NEW rows,
         AppendMessage(s, m, rows), sessionRows' = rows, sessionRows \subseteq rows, cutOff' = cutOff,
         s \in rows \/ s \in cutOff
  PROVE  /\ DOMAIN convo' = Chats /\ DOMAIN messages' = Chats
         /\ ChatRowsAgree'
<1>1. /\ messages'[s] = messages[s] \cup {m}
      /\ \A c \in Chats : c # s => messages'[c] = messages[c] /\ convo'[c] = convo[c]
      /\ s \in rows => convo'[s] = convo[s] \cup {m}
      /\ DOMAIN convo' = Chats /\ DOMAIN messages' = Chats
  BY DEF AppendMessage, StoreOK
<1>2. ASSUME NEW c \in Chats, c \notin cutOff'
      PROVE  (convo[c] = messages[c] /\ (c \notin sessionRows => messages[c] = {}))'
  <2>1. convo[c] = messages[c] /\ (c \notin sessionRows => messages[c] = {})
    BY <1>2 DEF ChatRowsAgree
  <2>2. CASE c = s
    BY <1>1, <1>2, <2>1, <2>2
  <2>3. CASE c # s
    BY <1>1, <2>1, <2>3
  <2> QED
    BY <2>2, <2>3
<1> QED
  BY <1>1, <1>2 DEF ChatRowsAgree

LEMMA BeginTurnInv ==
  ASSUME RowsInv, NEW t \in Turns, NEW s \in Chats, BeginTurn(t, s)
  PROVE  RowsInv'
<1>1. /\ sessionRows' = sessionRows \cup {s} /\ cutOff' = cutOff
      /\ AppendMessage(s, <<"user", t>>, sessionRows')
      /\ stage' = [stage EXCEPT ![t] = "fetching"]
  BY DEF BeginTurn, EnsureSession
<1>2. \/ chatOf' = [chatOf EXCEPT ![t] = s]
      \/ chatOf[t] = s /\ chatOf' = chatOf
  <2>1. \/ Arrives(t, s)
        \/ chatOf[t] = s /\ chatOf' = chatOf
    BY Zenon DEF BeginTurn
  <2>2. Arrives(t, s) => chatOf' = [chatOf EXCEPT ![t] = s]
    BY Zenon DEF Arrives
  <2> QED
    BY <2>1, <2>2
<1>3. DOMAIN convo' = Chats /\ DOMAIN messages' = Chats /\ ChatRowsAgree'
  BY <1>1, AppendKeeps DEF RowsInv
<1>4. /\ chatOf' \in [Turns -> Chats] /\ chatOf'[t] = s
      /\ \A u \in Turns : u # t => chatOf'[u] = chatOf[u] /\ stage'[u] = stage[u]
  BY <1>1, <1>2 DEF RowsInv, StoreOK
<1>5. StoreOK'
  BY <1>1, <1>3, <1>4 DEF RowsInv, StoreOK, Running
<1>6. TurnHasRow'
  BY <1>1, <1>4 DEF RowsInv, TurnHasRow
<1> QED
  BY <1>3, <1>5, <1>6 DEF RowsInv

\* A turn under way writes a message and goes on, or ends.
LEMMA GoesOnInv ==
  ASSUME RowsInv, NEW t \in Turns, NEW at \in {"asking", "done"}, NEW m,
         stage[t] \in Running, stage' = [stage EXCEPT ![t] = at],
         AppendMessage(chatOf[t], m, sessionRows), UNCHANGED <<chatOf, sessionRows, cutOff>>
  PROVE  RowsInv'
<1>1. chatOf[t] \in Chats /\ (chatOf[t] \in sessionRows \/ chatOf[t] \in cutOff)
  BY DEF RowsInv, StoreOK, TurnHasRow
<1>2. DOMAIN convo' = Chats /\ DOMAIN messages' = Chats /\ ChatRowsAgree'
  BY <1>1, AppendKeeps DEF RowsInv
<1>3. StoreOK'
  BY <1>2 DEF RowsInv, StoreOK, Running
<1>4. \A u \in Turns : stage'[u] \in Running => stage[u] \in Running
  BY DEF RowsInv, StoreOK
<1>5. TurnHasRow'
  BY <1>4 DEF RowsInv, TurnHasRow
<1> QED
  BY <1>2, <1>3, <1>5 DEF RowsInv

LEMMA StreamRequestInv ==
  ASSUME RowsInv, NEW t \in Turns, NEW s \in Chats, StreamRequest(t, s)
  PROVE  RowsInv'
<1>1. /\ sessionRows' = sessionRows \cup {s} /\ UNCHANGED <<convo, messages, cutOff>>
      /\ stage' = [stage EXCEPT ![t] = "queued"]
      /\ chatOf' = [chatOf EXCEPT ![t] = s]
  BY DEF StreamRequest, EnsureSession, Arrives
<1>2. /\ chatOf'[t] = s
      /\ \A u \in Turns : u # t => chatOf'[u] = chatOf[u] /\ stage'[u] = stage[u]
  BY <1>1 DEF RowsInv, StoreOK
<1>3. StoreOK'
  BY <1>1 DEF RowsInv, StoreOK, Running
<1>4. TurnHasRow'
  BY <1>1, <1>2 DEF RowsInv, TurnHasRow
<1>5. ChatRowsAgree'
  BY <1>1 DEF RowsInv, ChatRowsAgree
<1> QED
  BY <1>3, <1>4, <1>5 DEF RowsInv

LEMMA DeleteInv ==
  ASSUME RowsInv, NEW s \in Chats, DeleteSession(s)
  PROVE  RowsInv'
<1>1. /\ sessionRows' = sessionRows \ {s}
      /\ messages' = [messages EXCEPT ![s] = {}]
      /\ convo' = [convo EXCEPT ![s] = {}]
      /\ cutOff' = IF \E t \in Turns : chatOf[t] = s /\ stage[t] \in Running
                     THEN cutOff \cup {s} ELSE cutOff
      /\ UNCHANGED <<stage, chatOf>>
  BY DEF DeleteSession, chatTurns
<1>2. StoreOK'
  BY <1>1 DEF RowsInv, StoreOK
<1>3. TurnHasRow'
  BY <1>1 DEF RowsInv, TurnHasRow
<1>4. ChatRowsAgree'
  BY <1>1 DEF RowsInv, StoreOK, ChatRowsAgree
<1> QED
  BY <1>2, <1>3, <1>4 DEF RowsInv

LEMMA RowsStepInv == RowsInv /\ [ChatNext]_chatVars => RowsInv'
<1> SUFFICES ASSUME RowsInv, [ChatNext]_chatVars PROVE RowsInv'
  OBVIOUS
<1>1. CASE UNCHANGED chatVars
  BY <1>1 DEF RowsInv, StoreOK, TurnHasRow, ChatRowsAgree, chatVars, chatTurns, chatStore
<1>2. ASSUME NEW t \in Turns, NEW s \in Chats, StreamRequest(t, s) \/ BeginTurn(t, s)
      PROVE  RowsInv'
  BY <1>2, StreamRequestInv, BeginTurnInv
<1>3. ASSUME NEW t \in Turns, EndTurn(t) PROVE RowsInv'
  <2>1. /\ stage[t] \in Running /\ stage' = [stage EXCEPT ![t] = "done"]
        /\ AppendMessage(chatOf[t], <<"assistant", t>>, sessionRows)
        /\ UNCHANGED <<chatOf, sessionRows, cutOff>>
    BY <1>3 DEF EndTurn, Running
  <2> QED
    BY <2>1, GoesOnInv
<1>4. ASSUME NEW t \in Turns, NEW shared \in BOOLEAN, AskModel(t, shared) PROVE RowsInv'
  <2>1. /\ stage[t] \in Running /\ stage' = [stage EXCEPT ![t] = "asking"]
        /\ AppendMessage(chatOf[t], <<"steps", t>>, sessionRows)
        /\ UNCHANGED <<chatOf, sessionRows, cutOff>>
    BY <1>4 DEF AskModel, Running
  <2> QED
    BY <2>1, GoesOnInv
<1>5. ASSUME NEW s \in Chats, CreateSession(s) PROVE RowsInv'
  BY <1>5 DEF RowsInv, StoreOK, TurnHasRow, ChatRowsAgree, CreateSession, EnsureSession, chatTurns
<1>6. ASSUME NEW s \in Chats, DeleteSession(s) PROVE RowsInv'
  BY <1>6, DeleteInv
<1>7. ASSUME NEW s \in Chats, NewSession(s) PROVE RowsInv'
  BY <1>7 DEF RowsInv, StoreOK, TurnHasRow, ChatRowsAgree, NewSession, chatTurns, chatStore
<1>8. CASE ChatCrash
  BY <1>8 DEF RowsInv, StoreOK, TurnHasRow, ChatRowsAgree, ChatCrash, chatStore, Running
<1> QED
  BY <1>1, <1>2, <1>3, <1>4, <1>5, <1>6, <1>7, <1>8 DEF ChatNext

LEMMA RowsInvariant == ChatSpec => []RowsInv
  BY RowsInitInv, RowsStepInv, PTL DEF ChatSpec

\* The messages of a session and the JSON of its conversation say the same in
\* every instance, unless the session was deleted under a running turn.
THEOREM RowsAgree == ChatSpec => []ChatRowsAgree
<1>1. RowsInv => ChatRowsAgree
  BY DEF RowsInv
<1> QED
  BY <1>1, RowsInvariant, PTL
-----------------------------------------------------------------------------
(***************************************************************************)
(* Answers in a list of messages                                            *)
(***************************************************************************)
Answer(t) == <<"assistant", t>>
Answers(q) == {t \in Turns : \E i \in DOMAIN q : q[i] = Answer(t)}
Once(q) ==
  \A t \in Turns : \A i, j \in DOMAIN q : q[i] = Answer(t) /\ q[j] = Answer(t) => i = j

LEMMA Names ==
  /\ \A s \in Chats : FirstList(s) \in Lists
  /\ \A n \in 1 .. MaxChatActs : ResetList(n) \in Lists
  /\ \A t \in Turns : TurnList(t) \in Lists
  /\ NoList \notin Lists
  /\ \A t \in Turns : TurnList(t) # NoList
  /\ \A t : \A s : TurnList(t) # FirstList(s)
  /\ \A t : \A n : TurnList(t) # ResetList(n)
  /\ \A t, u : TurnList(t) = TurnList(u) => t = u
BY DEF FirstList, ResetList, TurnList, Lists, NoList

LEMMA EntryNames ==
  /\ System \in Entries
  /\ \A t \in Turns : /\ <<"user", t>> \in Entries /\ <<"url", t>> \in Entries
                     /\ <<"steps", t>> \in Entries /\ <<"assistant", t>> \in Entries
  /\ \A t \in Turns : /\ Answer(t) \in Entries /\ Answer(t) # System
                     /\ \A u : Answer(t) # <<"user", u>> /\ Answer(t) # <<"url", u>>
  /\ \A t, u : Answer(t) = Answer(u) => t = u
BY DEF System, Entries, Answer

LEMMA AppendFacts ==
  ASSUME NEW h \in Seq(Entries), NEW e \in Entries
  PROVE  /\ Append(h, e) \in Seq(Entries) /\ Append(h, e) # <<>>
         /\ Len(h) \in Nat /\ Len(Append(h, e)) = Len(h) + 1
         /\ DOMAIN h = 1 .. Len(h) /\ DOMAIN Append(h, e) = 1 .. Len(h) + 1
         /\ \A i \in 1 .. Len(h) : Append(h, e)[i] = h[i]
         /\ Append(h, e)[Len(h) + 1] = e
OBVIOUS

LEMMA AppendOther ==
  ASSUME NEW h \in Seq(Entries), NEW e \in Entries, \A t \in Turns : e # Answer(t)
  PROVE  Answers(Append(h, e)) = Answers(h) /\ (Once(h) => Once(Append(h, e)))
<1> DEFINE r == Append(h, e)
<1>1. /\ Len(h) \in Nat /\ DOMAIN h = 1 .. Len(h) /\ DOMAIN r = 1 .. Len(h) + 1
      /\ \A i \in 1 .. Len(h) : r[i] = h[i]
      /\ r[Len(h) + 1] = e
  BY AppendFacts
<1> HIDE DEF r
<1>2. /\ \A i \in DOMAIN r : i \in DOMAIN h \/ i = Len(h) + 1
      /\ \A i \in DOMAIN h : i \in DOMAIN r
  BY <1>1
<1>3. Answers(r) = Answers(h)
  BY <1>1, <1>2 DEF Answers
<1>4. Once(h) => Once(r)
  BY <1>1, <1>2 DEF Once
<1> QED
  BY <1>3, <1>4 DEF r

LEMMA AppendAnswer ==
  ASSUME NEW h \in Seq(Entries), NEW u \in Turns
  PROVE  /\ Answers(Append(h, Answer(u))) = Answers(h) \cup {u}
         /\ Once(h) /\ u \notin Answers(h) => Once(Append(h, Answer(u)))
<1> DEFINE r == Append(h, Answer(u))
<1>1. /\ Len(h) \in Nat /\ DOMAIN h = 1 .. Len(h) /\ DOMAIN r = 1 .. Len(h) + 1
      /\ \A i \in 1 .. Len(h) : r[i] = h[i]
      /\ r[Len(h) + 1] = Answer(u)
  BY AppendFacts, EntryNames
<1> HIDE DEF r
<1>2. /\ \A i \in DOMAIN r : i \in DOMAIN h \/ i = Len(h) + 1
      /\ \A i \in DOMAIN h : i \in DOMAIN r
      /\ Len(h) + 1 \in DOMAIN r
  BY <1>1
<1>3. \A t \in Turns : Answer(u) = Answer(t) => t = u
  BY EntryNames
<1>4. Answers(r) = Answers(h) \cup {u}
  BY <1>1, <1>2, <1>3 DEF Answers
<1>5. Once(h) /\ u \notin Answers(h) => Once(r)
  BY <1>1, <1>2, <1>3 DEF Once, Answers
<1> QED
  BY <1>4, <1>5 DEF r

(***************************************************************************)
(* What truncation keeps: the first message and the last of the others      *)
(***************************************************************************)
LEMMA TruncateFacts ==
  ASSUME NEW h \in Seq(Entries), h # <<>>
  PROVE  /\ Truncate(h) \in Seq(Entries) /\ Truncate(h) # <<>>
         /\ Len(h) \in Nat /\ Len(h) >= 1
         /\ Len(Truncate(h)) = IF Len(h) <= MaxHistory + 1 THEN Len(h) ELSE MaxHistory + 1
         /\ Truncate(h)[1] = h[1]
         /\ \A i \in 2 .. Len(Truncate(h)) :
              /\ i + (Len(h) - Len(Truncate(h))) \in 2 .. Len(h)
              /\ Truncate(h)[i] = h[i + (Len(h) - Len(Truncate(h)))]
<1>0. Len(h) \in Nat /\ Len(h) >= 1 /\ MaxHistory \in Nat /\ MaxHistory >= 1
  BY ChatAssumption
<1>1. CASE Len(h) <= MaxHistory + 1
  BY <1>0, <1>1 DEF Truncate
<1>2. CASE ~(Len(h) <= MaxHistory + 1)
  <2> DEFINE tail == SubSeq(h, Len(h) - MaxHistory + 1, Len(h))
             r == <<h[1]>> \o tail
  <2>1. Truncate(h) = r
    BY <1>2 DEF Truncate
  <2>2. Len(h) - MaxHistory + 1 \in 1 .. Len(h) /\ h[1] \in Entries
    BY <1>0, <1>2
  <2>3. /\ tail \in Seq(Entries) /\ Len(tail) = MaxHistory
        /\ \A i \in 1 .. MaxHistory : tail[i] = h[i + (Len(h) - MaxHistory)]
    BY <1>0, <1>2, <2>2
  <2> HIDE DEF tail
  <2>4. /\ r \in Seq(Entries) /\ Len(r) = MaxHistory + 1 /\ r[1] = h[1]
        /\ \A i \in 2 .. MaxHistory + 1 : r[i] = tail[i - 1]
    BY <1>0, <2>2, <2>3
  <2> HIDE DEF r
  <2>5. ASSUME NEW i \in 2 .. MaxHistory + 1
        PROVE  /\ i + (Len(h) - (MaxHistory + 1)) \in 2 .. Len(h)
               /\ r[i] = h[i + (Len(h) - (MaxHistory + 1))]
    <3>1. i - 1 \in 1 .. MaxHistory
      BY <1>0
    <3>2. r[i] = h[(i - 1) + (Len(h) - MaxHistory)]
      BY <2>3, <2>4, <3>1
    <3>3. (i - 1) + (Len(h) - MaxHistory) = i + (Len(h) - (MaxHistory + 1))
      BY <1>0
    <3>4. i + (Len(h) - (MaxHistory + 1)) \in 2 .. Len(h)
      BY <1>0, <1>2
    <3> QED
      BY <3>2, <3>3, <3>4
  <2>6. r # <<>>
    BY <1>0, <2>4
  <2> QED
    BY <1>0, <1>2, <2>1, <2>4, <2>5, <2>6
<1> QED
  BY <1>1, <1>2

LEMMA TruncateAnswers ==
  ASSUME NEW h \in Seq(Entries), h # <<>>
  PROVE  Answers(Truncate(h)) \subseteq Answers(h) /\ (Once(h) => Once(Truncate(h)))
<1> DEFINE r == Truncate(h)
           from(i) == IF i = 1 THEN 1 ELSE i + (Len(h) - Len(r))
<1>1. /\ r \in Seq(Entries) /\ Len(h) \in Nat /\ Len(h) >= 1 /\ Len(r) \in Nat
      /\ Len(r) <= Len(h) /\ Len(r) >= 1
      /\ r[1] = h[1]
      /\ \A i \in 2 .. Len(r) : /\ i + (Len(h) - Len(r)) \in 2 .. Len(h)
                               /\ r[i] = h[i + (Len(h) - Len(r))]
      /\ DOMAIN r = 1 .. Len(r) /\ DOMAIN h = 1 .. Len(h)
  BY TruncateFacts, ChatAssumption
<1> HIDE DEF r
<1>2. ASSUME NEW i \in DOMAIN r PROVE from(i) \in DOMAIN h /\ r[i] = h[from(i)]
  BY <1>1
<1>3. \A i, j \in DOMAIN r : from(i) = from(j) => i = j
  BY <1>1
<1> HIDE DEF from
<1>4. Answers(r) \subseteq Answers(h)
  BY <1>2 DEF Answers
<1>5. Once(h) => Once(r)
  BY <1>2, <1>3 DEF Once
<1> QED
  BY <1>4, <1>5 DEF r

LEMMA SeqFacts ==
  ASSUME NEW q \in Seq(Entries)
  PROVE  /\ Len(q) \in Nat /\ DOMAIN q = 1 .. Len(q)
         /\ q = [i \in 1 .. Len(q) |-> q[i]]
         /\ \A i \in 1 .. Len(q) : q[i] \in Entries
OBVIOUS

\* To truncate before a message is added makes no difference after it.
LEMMA TruncateAgain ==
  ASSUME NEW h \in Seq(Entries), h # <<>>, NEW e \in Entries
  PROVE  Truncate(Append(Truncate(h), e)) = Truncate(Append(h, e))
<1> DEFINE r == Truncate(h)
           x == Append(r, e)
           y == Append(h, e)
           rx == Truncate(x)
           ry == Truncate(y)
<1>0. MaxHistory \in Nat /\ MaxHistory >= 1
  BY ChatAssumption
<1>1. /\ r \in Seq(Entries) /\ r # <<>> /\ Len(h) \in Nat /\ Len(h) >= 1
      /\ Len(r) = IF Len(h) <= MaxHistory + 1 THEN Len(h) ELSE MaxHistory + 1
      /\ r[1] = h[1]
      /\ \A i \in 2 .. Len(r) : /\ i + (Len(h) - Len(r)) \in 2 .. Len(h)
                               /\ r[i] = h[i + (Len(h) - Len(r))]
  BY TruncateFacts
<1> HIDE DEF r
<1>2. /\ x \in Seq(Entries) /\ x # <<>> /\ Len(x) = Len(r) + 1 /\ Len(r) \in Nat
      /\ \A i \in 1 .. Len(r) : x[i] = r[i]
      /\ x[Len(r) + 1] = e
  BY <1>1, AppendFacts
<1>3. /\ y \in Seq(Entries) /\ y # <<>> /\ Len(y) = Len(h) + 1
      /\ \A i \in 1 .. Len(h) : y[i] = h[i]
      /\ y[Len(h) + 1] = e
  BY AppendFacts
<1> HIDE DEF x, y
<1>4. /\ rx \in Seq(Entries)
      /\ Len(rx) = IF Len(x) <= MaxHistory + 1 THEN Len(x) ELSE MaxHistory + 1
      /\ rx[1] = x[1]
      /\ \A i \in 2 .. Len(rx) : /\ i + (Len(x) - Len(rx)) \in 2 .. Len(x)
                                /\ rx[i] = x[i + (Len(x) - Len(rx))]
  BY <1>2, TruncateFacts
<1>5. /\ ry \in Seq(Entries)
      /\ Len(ry) = IF Len(y) <= MaxHistory + 1 THEN Len(y) ELSE MaxHistory + 1
      /\ ry[1] = y[1]
      /\ \A i \in 2 .. Len(ry) : /\ i + (Len(y) - Len(ry)) \in 2 .. Len(y)
                                /\ ry[i] = y[i + (Len(y) - Len(ry))]
  BY <1>3, TruncateFacts
<1> HIDE DEF rx, ry
<1>6. /\ Len(rx) = Len(ry) /\ Len(rx) \in Nat
      /\ Len(y) - Len(ry) = (Len(x) - Len(rx)) + (Len(h) - Len(r))
  <2>1. /\ Len(h) \in Nat /\ Len(h) >= 1 /\ Len(x) = Len(r) + 1 /\ Len(y) = Len(h) + 1
        /\ Len(r) = IF Len(h) <= MaxHistory + 1 THEN Len(h) ELSE MaxHistory + 1
    BY <1>1, <1>2, <1>3
  <2>2. /\ Len(rx) = IF Len(x) <= MaxHistory + 1 THEN Len(x) ELSE MaxHistory + 1
        /\ Len(ry) = IF Len(y) <= MaxHistory + 1 THEN Len(y) ELSE MaxHistory + 1
    BY <1>4, <1>5
  <2>3. CASE Len(h) <= MaxHistory
    <3>1. Len(r) = Len(h)
      BY <1>0, <2>1, <2>3
    <3>2. Len(x) <= MaxHistory + 1 /\ Len(y) <= MaxHistory + 1
      BY <1>0, <2>1, <2>3, <3>1
    <3>3. Len(rx) = Len(x) /\ Len(ry) = Len(y)
      BY <2>2, <3>2
    <3> QED
      BY <2>1, <3>1, <3>3
  <2>4. CASE Len(h) > MaxHistory
    <3>1. Len(r) = MaxHistory + 1 \/ (Len(r) = Len(h) /\ Len(h) = MaxHistory + 1)
      BY <1>0, <2>1, <2>4
    <3>2. Len(r) = MaxHistory + 1
      BY <3>1
    <3>3. Len(x) = MaxHistory + 2 /\ ~(Len(x) <= MaxHistory + 1)
      BY <1>0, <2>1, <3>2
    <3>4. ~(Len(y) <= MaxHistory + 1)
      BY <1>0, <2>1, <2>4
    <3>5. Len(rx) = MaxHistory + 1 /\ Len(ry) = MaxHistory + 1
      BY <2>2, <3>3, <3>4
    <3>6. Len(rx) = Len(ry) /\ Len(rx) \in Nat
      BY <1>0, <3>5
    <3>7. Len(y) - Len(ry) = Len(h) - MaxHistory /\ Len(x) - Len(rx) = 1
      BY <1>0, <2>1, <3>3, <3>5
    <3>8. Len(h) - MaxHistory = 1 + (Len(h) - (MaxHistory + 1))
      BY <1>0, <2>1
    <3> QED
      BY <3>2, <3>6, <3>7, <3>8
  <2>5. Len(h) <= MaxHistory \/ Len(h) > MaxHistory
    BY <1>0, <2>1
  <2> QED
    BY <2>3, <2>4, <2>5
<1>7. rx[1] = ry[1]
  BY <1>1, <1>2, <1>3, <1>4, <1>5
<1>8. ASSUME NEW i \in 2 .. Len(rx) PROVE rx[i] = ry[i]
  <2> DEFINE j == i + (Len(x) - Len(rx))
             k == i + (Len(y) - Len(ry))
  <2>1. j \in 2 .. Len(r) + 1 /\ rx[i] = x[j] /\ j \in Nat
    BY <1>2, <1>4
  <2>2. ry[i] = y[k]
    BY <1>5, <1>6
  <2>3. k = j + (Len(h) - Len(r))
    <3>1. Len(y) - Len(ry) = (Len(x) - Len(rx)) + (Len(h) - Len(r))
      BY <1>6
    <3>2. /\ Len(y) \in Nat /\ Len(ry) \in Nat /\ Len(x) \in Nat /\ Len(rx) \in Nat
          /\ Len(h) \in Nat /\ Len(r) \in Nat
      BY <1>1, <1>2, <1>3, <1>6
    <3> QED
      BY <3>1, <3>2
  <2> HIDE DEF j, k
  <2>4. CASE j = Len(r) + 1
    <3>1. k = Len(h) + 1
      BY <1>1, <1>2, <2>3, <2>4
    <3> QED
      BY <1>2, <1>3, <2>1, <2>2, <2>4, <3>1
  <2>5. CASE j # Len(r) + 1
    <3>1. j \in 2 .. Len(r) /\ j \in 1 .. Len(r)
      BY <1>2, <2>1, <2>5
    <3>2. k \in 2 .. Len(h) /\ r[j] = h[k]
      BY <1>1, <2>3, <3>1
    <3>3. k \in 1 .. Len(h)
      BY <1>1, <3>2
    <3> QED
      BY <1>2, <1>3, <2>1, <2>2, <3>1, <3>2, <3>3
  <2> QED
    BY <2>4, <2>5
<1>9. \A i \in 1 .. Len(rx) : rx[i] = ry[i]
  BY <1>6, <1>7, <1>8
<1>10. rx = ry
  <2>1. /\ rx = [i \in 1 .. Len(rx) |-> rx[i]]
        /\ ry = [i \in 1 .. Len(ry) |-> ry[i]]
    BY <1>4, <1>5, SeqFacts
  <2>2. ry = [i \in 1 .. Len(rx) |-> ry[i]]
    BY <1>6, <2>1
  <2>3. [i \in 1 .. Len(rx) |-> rx[i]] = [i \in 1 .. Len(rx) |-> ry[i]]
    BY <1>9
  <2> QED
    BY <2>1, <2>2, <2>3
<1> QED
  BY <1>10 DEF r, x, y, rx, ry
-----------------------------------------------------------------------------
(***************************************************************************)
(* The inductive invariant of the memory.  Only what a turn left behind has *)
(* answers in it, those of turns that are done, each of them once; and a    *)
(* turn that no other turn of its session has overtaken holds the session's *)
(* list or sends a prefix of it, which lacks none of its answers.           *)
(***************************************************************************)
Done == {t \in Turns : stage[t] = "done"}

ListsOK ==
  \A l \in Lists :
    /\ Once(heap[l]) /\ Answers(heap[l]) \subseteq Done
    /\ (\A v \in Turns : l # TurnList(v)) => Answers(heap[l]) = {}

PromptsOK ==
  \A u \in Turns :
    /\ Once(prompt[u]) /\ Answers(prompt[u]) \subseteq Done
    /\ stage[u] = "asking" => prompt[u] # <<>> /\ prompt[u][1] = System

HeldIsList == \A t \in Turns : stage[t] = "fetching" => held[t] \in Lists

HistoryIsDone ==
  \A s \in Chats, v \in Turns : histories[s] = TurnList(v) => v \in Done

PromptIsOf(q, u, h) ==
  \E m \in 1 .. Len(h) :
    /\ q = Truncate(Append(SubSeq(h, 1, m), <<"user", u>>))
    /\ \A t \in Turns : \A i \in m + 1 .. Len(h) : h[i] # Answer(t)

Undisturbed ==
  \A u, v \in Turns : during[u] = {} /\ histories[chatOf[u]] = TurnList(v) =>
    /\ stage[u] = "fetching" => held[u] = TurnList(v)
    /\ stage[u] = "asking" => PromptIsOf(prompt[u], u, heap[TurnList(v)])

ChatInv ==
  ChatTypeOK /\ ListsOK /\ PromptsOK /\ HeldIsList /\ HistoryIsDone /\ Undisturbed

LEMMA SystemFacts ==
  /\ <<System>> \in Seq(Entries) /\ <<System>> # <<>> /\ <<System>>[1] = System
  /\ Answers(<<System>>) = {} /\ Once(<<System>>)
<1>1. System \in Entries /\ \A t \in Turns : Answer(t) # System
  BY EntryNames
<1> HIDE DEF System
<1>2. /\ <<System>> \in Seq(Entries) /\ <<System>> # <<>> /\ <<System>>[1] = System
      /\ DOMAIN <<System>> = {1}
  BY <1>1
<1> QED
  BY <1>1, <1>2 DEF Answers, Once

LEMMA EmptyFacts == Answers(<<>>) = {} /\ Once(<<>>) /\ <<>> \in Seq(Entries) /\ Len(<<>>) = 0
BY DEF Answers, Once

LEMMA ChatInitInv == ChatInit => ChatInv
<1> SUFFICES ASSUME ChatInit PROVE ChatInv
  OBVIOUS
<1>1. ChatTypeOK
  <2>1. /\ heap \in [Lists -> Seq(Entries)]
        /\ \A l \in Lists : heap[l] # <<>> /\ heap[l][1] = System
    BY SystemFacts DEF ChatInit
  <2>2. prompt \in [Turns -> Seq(Entries)] /\ \A t \in Turns : Len(prompt[t]) <= MaxHistory + 1
    BY ChatAssumption, EmptyFacts DEF ChatInit
  <2>3. /\ histories \in [Chats -> Lists \cup {NoList}] /\ held \in [Turns -> Lists \cup {NoList}]
        /\ stage \in [Turns -> Running \cup {"idle", "done", "dead"}]
        /\ during \in [Turns -> SUBSET Turns]
        /\ convo \in [Chats -> SUBSET Entries] /\ messages \in [Chats -> SUBSET Entries]
    BY DEF ChatInit
  <2>4. /\ chatOf \in [Turns -> Chats] /\ sessionRows \subseteq Chats /\ cutOff \subseteq Chats
        /\ chatActs \in 0 .. MaxChatActs
    <3>1. (CHOOSE s \in Chats : TRUE) \in Chats
      BY ChatAssumption
    <3>2. chatOf \in [Turns -> Chats]
      BY <3>1 DEF ChatInit
    <3>3. 0 \in 0 .. MaxChatActs
      BY ChatAssumption
    <3> QED
      BY <3>2, <3>3 DEF ChatInit
  <2> QED
    BY <2>1, <2>2, <2>3, <2>4 DEF ChatTypeOK
<1>2. ListsOK
  BY SystemFacts DEF ChatInit, ListsOK
<1>3. PromptsOK
  BY EmptyFacts DEF ChatInit, PromptsOK
<1>4. HeldIsList /\ HistoryIsDone
  BY Names DEF ChatInit, HeldIsList, HistoryIsDone
<1>5. Undisturbed
  BY DEF ChatInit, Undisturbed
<1> QED
  BY <1>1, <1>2, <1>3, <1>4, <1>5 DEF ChatInv

\* Steps that leave the memory and the turns' progress alone.
LEMMA MemoryStays ==
  ASSUME ChatInv, UNCHANGED <<chatMemory, chatTurns>>
  PROVE  ListsOK' /\ PromptsOK' /\ HeldIsList' /\ HistoryIsDone' /\ Undisturbed'
BY DEF ChatInv, ListsOK, PromptsOK, HeldIsList, HistoryIsDone, Undisturbed, Done,
       chatMemory, chatTurns

LEMMA AppendMessageTypes ==
  ASSUME ChatTypeOK, NEW s \in Chats, NEW m \in Entries, NEW rows, AppendMessage(s, m, rows)
  PROVE  convo' \in [Chats -> SUBSET Entries] /\ messages' \in [Chats -> SUBSET Entries]
BY DEF ChatTypeOK, AppendMessage

LEMMA StreamRequestMemory ==
  ASSUME ChatInv, NEW t \in Turns, NEW s \in Chats, StreamRequest(t, s)
  PROVE  ChatInv'
<1>1. /\ UNCHANGED <<heap, histories, held, prompt, during, convo, messages, cutOff, chatActs>>
      /\ stage[t] = "idle" /\ stage' = [stage EXCEPT ![t] = "queued"]
      /\ chatOf' = [chatOf EXCEPT ![t] = s]
      /\ sessionRows' = sessionRows \cup {s}
  BY DEF StreamRequest, EnsureSession, Arrives, chatMemory
<1>2. ChatTypeOK'
  BY <1>1 DEF ChatInv, ChatTypeOK, Running
<1>3. /\ stage'[t] = "queued"
      /\ \A u \in Turns \ {t} : stage'[u] = stage[u] /\ chatOf'[u] = chatOf[u]
  BY <1>1 DEF ChatInv, ChatTypeOK
<1>4. Done' = Done
  BY <1>1, <1>3 DEF Done
<1>5. ListsOK' /\ PromptsOK' /\ HeldIsList' /\ HistoryIsDone'
  BY <1>1, <1>3, <1>4 DEF ChatInv, ListsOK, PromptsOK, HeldIsList, HistoryIsDone
<1>6. Undisturbed'
  BY <1>1, <1>3 DEF ChatInv, Undisturbed
<1> QED
  BY <1>2, <1>5, <1>6 DEF ChatInv

LEMMA BeginTurnMemory ==
  ASSUME ChatInv, NEW t \in Turns, NEW s \in Chats, BeginTurn(t, s)
  PROVE  ChatInv'
<1>1. /\ SeedHistory(s)
      /\ held' = [held EXCEPT ![t] = histories'[s]]
      /\ sessionRows' = sessionRows \cup {s}
      /\ AppendMessage(s, <<"user", t>>, sessionRows')
      /\ stage' = [stage EXCEPT ![t] = "fetching"]
      /\ UNCHANGED <<prompt, during, cutOff, chatActs>>
      /\ stage[t] \in {"idle", "queued"}
      /\ chatOf' = [chatOf EXCEPT ![t] = s] \/ (chatOf[t] = s /\ chatOf' = chatOf)
  BY DEF BeginTurn, EnsureSession, Arrives
<1>2. /\ chatOf' \in [Turns -> Chats] /\ chatOf'[t] = s
      /\ stage' \in [Turns -> Running \cup {"idle", "done", "dead"}] /\ stage'[t] = "fetching"
      /\ \A u \in Turns \ {t} : stage'[u] = stage[u] /\ chatOf'[u] = chatOf[u] /\ held'[u] = held[u]
      /\ held'[t] = histories'[s]
  BY <1>1 DEF ChatInv, ChatTypeOK, Running
<1>3. Done' = Done
  BY <1>1, <1>2 DEF Done
<1>4. /\ heap' \in [Lists -> Seq(Entries)]
      /\ \A l \in Lists : heap'[l] # <<>> /\ heap'[l][1] = System
      /\ \A l \in Lists : \/ heap'[l] = heap[l]
                          \/ heap'[l] = <<System>> /\ (\A v \in Turns : l # TurnList(v))
      /\ histories' \in [Chats -> Lists \cup {NoList}] /\ histories'[s] \in Lists
      /\ \A c \in Chats, v \in Turns : histories'[c] = TurnList(v) => histories[c] = TurnList(v)
  <2>1. CASE histories[s] # NoList
    <3>1. heap' = heap /\ histories' = histories
      BY <1>1, <2>1 DEF SeedHistory, chatMemory
    <3>2. /\ heap \in [Lists -> Seq(Entries)]
          /\ \A l \in Lists : heap[l] # <<>> /\ heap[l][1] = System
          /\ histories \in [Chats -> Lists \cup {NoList}]
      BY DEF ChatInv, ChatTypeOK
    <3>3. histories[s] \in Lists
      BY <2>1, <3>2
    <3> HIDE DEF System
    <3> QED
      BY <3>1, <3>2, <3>3
  <2>2. CASE histories[s] = NoList
    <3>1. /\ heap' = [heap EXCEPT ![FirstList(s)] = <<System>>]
          /\ histories' = [histories EXCEPT ![s] = FirstList(s)]
      BY <1>1, <2>2 DEF SeedHistory
    <3>2. FirstList(s) \in Lists /\ \A v \in Turns : TurnList(v) # FirstList(s)
      BY Names
    <3>3. heap \in [Lists -> Seq(Entries)] /\ histories \in [Chats -> Lists \cup {NoList}]
      BY DEF ChatInv, ChatTypeOK
    <3>4. \A l \in Lists : heap[l] # <<>> /\ heap[l][1] = System
      BY DEF ChatInv, ChatTypeOK
    <3>5. /\ heap' \in [Lists -> Seq(Entries)] /\ heap'[FirstList(s)] = <<System>>
          /\ \A l \in Lists : l # FirstList(s) => heap'[l] = heap[l]
      BY <3>1, <3>2, <3>3, SystemFacts
    <3>6. /\ histories' \in [Chats -> Lists \cup {NoList}] /\ histories'[s] = FirstList(s)
          /\ \A c \in Chats : c # s => histories'[c] = histories[c]
      BY <3>1, <3>2, <3>3
    <3>7. \A c \in Chats, v \in Turns : histories'[c] = TurnList(v) => histories[c] = TurnList(v)
      BY <3>2, <3>6
    <3>8. \A l \in Lists : heap'[l] # <<>> /\ heap'[l][1] = System
      BY <3>4, <3>5, SystemFacts
    <3>9. \A l \in Lists : \/ heap'[l] = heap[l]
                           \/ heap'[l] = <<System>> /\ (\A v \in Turns : l # TurnList(v))
      BY <3>2, <3>5
    <3> QED
      BY <3>2, <3>5, <3>6, <3>7, <3>8, <3>9
  <2> QED
    BY <2>1, <2>2
<1>5. ChatTypeOK'
  <2>1. held' \in [Turns -> Lists \cup {NoList}]
    BY <1>1, <1>4 DEF ChatInv, ChatTypeOK
  <2>2. convo' \in [Chats -> SUBSET Entries] /\ messages' \in [Chats -> SUBSET Entries]
    BY <1>1, EntryNames, AppendMessageTypes DEF ChatInv
  <2> QED
    BY <1>1, <1>2, <1>4, <2>1, <2>2 DEF ChatInv, ChatTypeOK
<1>6. ListsOK'
  BY <1>3, <1>4, SystemFacts DEF ChatInv, ListsOK
<1>7. PromptsOK'
  BY <1>1, <1>2, <1>3 DEF ChatInv, PromptsOK
<1>8. HeldIsList' /\ HistoryIsDone'
  BY <1>2, <1>3, <1>4 DEF ChatInv, HeldIsList, HistoryIsDone
<1>9. Undisturbed'
  <2> SUFFICES ASSUME NEW u \in Turns, NEW v \in Turns,
                      during'[u] = {}, histories'[chatOf'[u]] = TurnList(v)
               PROVE  /\ stage'[u] = "fetching" => held'[u] = TurnList(v)
                      /\ stage'[u] = "asking" => PromptIsOf(prompt'[u], u, heap'[TurnList(v)])
    BY DEF Undisturbed
  <2>1. CASE u = t
    BY <1>2, <2>1
  <2>2. CASE u # t
    <3>1. /\ stage'[u] = stage[u] /\ chatOf'[u] = chatOf[u] /\ held'[u] = held[u]
          /\ prompt'[u] = prompt[u] /\ during[u] = {}
          /\ histories[chatOf[u]] = TurnList(v)
      BY <1>1, <1>2, <1>4, <2>2
    <3>2. heap'[TurnList(v)] = heap[TurnList(v)]
      BY <1>4, Names
    <3> QED
      BY <3>1, <3>2 DEF ChatInv, Undisturbed
  <2> QED
    BY <2>1, <2>2
<1> QED
  BY <1>5, <1>6, <1>7, <1>8, <1>9 DEF ChatInv

LEMMA SubSeqFacts ==
  ASSUME NEW h \in Seq(Entries), NEW e \in Entries, NEW m \in 1 .. Len(h)
  PROVE  /\ SubSeq(h, 1, m) \in Seq(Entries) /\ Len(SubSeq(h, 1, m)) = m
         /\ \A i \in 1 .. m : SubSeq(h, 1, m)[i] = h[i]
         /\ SubSeq(h, 1, Len(h)) = h
         /\ SubSeq(Append(h, e), 1, m) = SubSeq(h, 1, m)
<1>1. Len(h) \in Nat /\ m \in Nat /\ m <= Len(h) /\ m >= 1
  BY SeqFacts
<1>2. /\ SubSeq(h, 1, m) = [i \in 1 .. m |-> h[i]]
      /\ SubSeq(h, 1, Len(h)) = [i \in 1 .. Len(h) |-> h[i]]
  BY <1>1
<1>3. \A i \in 1 .. m : h[i] \in Entries
  BY <1>1, SeqFacts
<1>4. SubSeq(h, 1, m) \in Seq(Entries) /\ Len(SubSeq(h, 1, m)) = m
  BY <1>1, <1>2, <1>3
<1>5. SubSeq(h, 1, Len(h)) = h
  BY <1>2, SeqFacts
<1>6. SubSeq(Append(h, e), 1, m) = [i \in 1 .. m |-> Append(h, e)[i]]
  BY <1>1, AppendFacts
<1>7. \A i \in 1 .. m : Append(h, e)[i] = h[i]
  BY <1>1, AppendFacts
<1> QED
  BY <1>2, <1>4, <1>5, <1>6, <1>7

\* The URLs of a message are one entry more in a list, or none.
LEMMA KnownFacts ==
  ASSUME NEW h \in Seq(Entries), NEW t \in Turns, NEW shared \in BOOLEAN
  PROVE  \/ h \o (IF shared THEN <<<<"url", t>>>> ELSE <<>>) = h
         \/ h \o (IF shared THEN <<<<"url", t>>>> ELSE <<>>) = Append(h, <<"url", t>>)
<1>1. \A e : h \o <<e>> = Append(h, e)
  OBVIOUS
<1>2. h \o <<>> = h
  OBVIOUS
<1> QED
  BY <1>1, <1>2

LEMMA AskModelMemory ==
  ASSUME ChatInv, NEW t \in Turns, NEW shared \in BOOLEAN, AskModel(t, shared)
  PROVE  ChatInv' /\ (\A l \in Lists : Answers(heap'[l]) = Answers(heap[l]))
<1> DEFINE old == heap[held[t]]
           known == old \o (IF shared THEN <<<<"url", t>>>> ELSE <<>>)
           asked == Truncate(Append(known, <<"user", t>>))
<1>1. /\ stage[t] = "fetching"
      /\ heap' = [heap EXCEPT ![held[t]] = known]
      /\ prompt' = [prompt EXCEPT ![t] = asked]
      /\ AppendMessage(chatOf[t], <<"steps", t>>, sessionRows)
      /\ held' = [held EXCEPT ![t] = NoList]
      /\ stage' = [stage EXCEPT ![t] = "asking"]
      /\ UNCHANGED <<histories, chatOf, during, sessionRows, cutOff, chatActs>>
  BY DEF AskModel
<1>2. /\ held[t] \in Lists /\ old \in Seq(Entries) /\ old # <<>> /\ old[1] = System
      /\ Once(old) /\ Answers(old) \subseteq Done
  BY <1>1 DEF ChatInv, ChatTypeOK, HeldIsList, ListsOK
<1> HIDE DEF old, System
<1>3. known = old \/ known = Append(old, <<"url", t>>)
  BY <1>2, KnownFacts
<1> HIDE DEF known
<1>4. /\ <<"url", t>> \in Entries /\ \A v \in Turns : <<"url", t>> # Answer(v)
      /\ <<"user", t>> \in Entries /\ \A v \in Turns : <<"user", t>> # Answer(v)
  BY EntryNames
<1>5. /\ known \in Seq(Entries) /\ known # <<>> /\ known[1] = System
      /\ Once(known) /\ Answers(known) = Answers(old)
  <2>1. CASE known = old
    BY <1>2, <2>1
  <2>2. CASE known = Append(old, <<"url", t>>)
    <3>1. 1 \in 1 .. Len(old)
      BY <1>2, TruncateFacts
    <3>2. /\ known \in Seq(Entries) /\ known # <<>> /\ known[1] = old[1]
      BY <1>2, <1>4, <2>2, <3>1, AppendFacts
    <3> QED
      BY <1>2, <1>4, <2>2, <3>2, AppendOther
  <2> QED
    BY <1>3, <2>1, <2>2
<1>6. /\ asked \in Seq(Entries) /\ asked # <<>> /\ asked[1] = System
      /\ Len(asked) <= MaxHistory + 1
      /\ Once(asked) /\ Answers(asked) \subseteq Done
  <2> DEFINE y == Append(known, <<"user", t>>)
  <2>1. 1 \in 1 .. Len(known)
    BY <1>5, TruncateFacts
  <2>2. /\ y \in Seq(Entries) /\ y # <<>> /\ y[1] = System
        /\ Answers(y) \subseteq Done /\ Once(y)
    <3>1. y \in Seq(Entries) /\ y # <<>> /\ y[1] = System
      BY <1>4, <1>5, <2>1, AppendFacts
    <3>2. Answers(y) = Answers(known) /\ (Once(known) => Once(y))
      BY <1>2, <1>4, <1>5, AppendOther
    <3> QED
      BY <1>2, <1>5, <3>1, <3>2
  <2> HIDE DEF y
  <2>3. /\ Truncate(y) \in Seq(Entries) /\ Truncate(y) # <<>> /\ Truncate(y)[1] = System
        /\ Len(Truncate(y)) = IF Len(y) <= MaxHistory + 1 THEN Len(y) ELSE MaxHistory + 1
        /\ Len(y) \in Nat
    BY <2>2, TruncateFacts
  <2>4. Len(Truncate(y)) <= MaxHistory + 1
    BY <2>3, ChatAssumption
  <2>5. Once(Truncate(y)) /\ Answers(Truncate(y)) \subseteq Done
    BY <2>2, TruncateAnswers
  <2> QED
    BY <2>3, <2>4, <2>5 DEF y
<1>7. /\ heap \in [Lists -> Seq(Entries)] /\ prompt \in [Turns -> Seq(Entries)]
      /\ held \in [Turns -> Lists \cup {NoList}] /\ chatOf[t] \in Chats
      /\ stage \in [Turns -> Running \cup {"idle", "done", "dead"}]
      /\ \A l \in Lists : heap[l] # <<>> /\ heap[l][1] = System
      /\ \A u \in Turns : Len(prompt[u]) <= MaxHistory + 1
  BY DEF ChatInv, ChatTypeOK
<1>8. /\ heap' \in [Lists -> Seq(Entries)] /\ heap'[held[t]] = known
      /\ \A l \in Lists : l # held[t] => heap'[l] = heap[l]
  BY <1>1, <1>2, <1>5, <1>7
<1>9. /\ prompt' \in [Turns -> Seq(Entries)] /\ prompt'[t] = asked
      /\ stage' \in [Turns -> Running \cup {"idle", "done", "dead"}] /\ stage'[t] = "asking"
      /\ held' \in [Turns -> Lists \cup {NoList}]
      /\ \A u \in Turns \ {t} : /\ prompt'[u] = prompt[u] /\ stage'[u] = stage[u]
                             /\ held'[u] = held[u]
  <2> HIDE DEF asked
  <2> QED
    BY <1>1, <1>6, <1>7 DEF Running
<1> HIDE DEF asked
<1>10. Done' = Done
  BY <1>1, <1>9 DEF Done
<1>11. ChatTypeOK'
  <2>1. convo' \in [Chats -> SUBSET Entries] /\ messages' \in [Chats -> SUBSET Entries]
    BY <1>1, <1>7, EntryNames, AppendMessageTypes DEF ChatInv
  <2>2. \A l \in Lists : heap'[l] # <<>> /\ heap'[l][1] = System
    BY <1>5, <1>7, <1>8
  <2>3. \A u \in Turns : Len(prompt'[u]) <= MaxHistory + 1
    BY <1>6, <1>7, <1>9
  <2> QED
    BY <1>1, <1>8, <1>9, <2>1, <2>2, <2>3 DEF ChatInv, ChatTypeOK
<1>12. \A l \in Lists : Answers(heap'[l]) = Answers(heap[l])
  BY <1>5, <1>8 DEF old
<1>13. ListsOK'
  BY <1>5, <1>8, <1>10, <1>12 DEF ChatInv, ListsOK
<1>14. PromptsOK'
  BY <1>6, <1>9, <1>10 DEF ChatInv, PromptsOK
<1>15. HeldIsList' /\ HistoryIsDone'
  BY <1>1, <1>9, <1>10 DEF ChatInv, HeldIsList, HistoryIsDone
<1>16. Undisturbed'
  <2> SUFFICES ASSUME NEW u \in Turns, NEW v \in Turns,
                      during'[u] = {}, histories'[chatOf'[u]] = TurnList(v)
               PROVE  /\ stage'[u] = "fetching" => held'[u] = TurnList(v)
                      /\ stage'[u] = "asking" => PromptIsOf(prompt'[u], u, heap'[TurnList(v)])
    BY DEF Undisturbed
  <2>0. during[u] = {} /\ histories[chatOf[u]] = TurnList(v) /\ TurnList(v) \in Lists
    BY <1>1, Names
  <2>1. CASE u = t
    <3>1. held[t] = TurnList(v)
      BY <1>1, <2>0, <2>1 DEF ChatInv, Undisturbed
    <3>2. heap'[TurnList(v)] = known
      BY <1>8, <3>1
    <3>3. Len(known) \in Nat /\ Len(known) \in 1 .. Len(known)
      BY <1>5, TruncateFacts
    <3>4. SubSeq(known, 1, Len(known)) = known
      BY <1>4, <1>5, <3>3, SubSeqFacts
    <3>5. \A i \in Len(known) + 1 .. Len(known) : FALSE
      BY <3>3
    <3>6. PromptIsOf(asked, u, known)
      BY <2>1, <3>3, <3>4, <3>5 DEF PromptIsOf, asked
    <3> QED
      BY <1>9, <2>1, <3>2, <3>6
  <2>2. CASE u # t
    <3>1. stage'[u] = "fetching" => held'[u] = TurnList(v)
      BY <1>9, <2>0, <2>2 DEF ChatInv, Undisturbed
    <3>2. ASSUME stage'[u] = "asking"
          PROVE  PromptIsOf(prompt'[u], u, heap'[TurnList(v)])
      <4> DEFINE h == heap[TurnList(v)]
      <4>1. PromptIsOf(prompt[u], u, h) /\ prompt'[u] = prompt[u]
        BY <1>9, <2>0, <2>2, <3>2 DEF ChatInv, Undisturbed
      <4>2. CASE heap'[TurnList(v)] = h
        BY <4>1, <4>2
      <4>3. CASE heap'[TurnList(v)] # h
        <5>1. held[t] = TurnList(v) /\ old = h
          BY <1>8, <2>0, <4>3 DEF old
        <5>2. heap'[TurnList(v)] = Append(h, <<"url", t>>)
          BY <1>3, <1>8, <4>3, <5>1
        <5>3. PICK m \in 1 .. Len(h) :
                /\ prompt[u] = Truncate(Append(SubSeq(h, 1, m), <<"user", u>>))
                /\ \A a \in Turns : \A i \in m + 1 .. Len(h) : h[i] # Answer(a)
          BY <4>1 DEF PromptIsOf
        <5>4. h \in Seq(Entries)
          BY <1>2, <5>1
        <5> HIDE DEF h
        <5> DEFINE g == Append(h, <<"url", t>>)
        <5>5. SubSeq(g, 1, m) = SubSeq(h, 1, m)
          BY <1>4, <5>4, SubSeqFacts
        <5>6. /\ Len(h) \in Nat /\ Len(g) = Len(h) + 1
              /\ \A i \in 1 .. Len(h) : g[i] = h[i]
              /\ g[Len(h) + 1] = <<"url", t>>
          BY <1>4, <5>4, AppendFacts
        <5> HIDE DEF g
        <5>7. m \in 1 .. Len(g)
          BY <5>6
        <5>8. ASSUME NEW a \in Turns, NEW i \in m + 1 .. Len(g) PROVE g[i] # Answer(a)
          <6>1. CASE i = Len(h) + 1
            BY <1>4, <5>6, <6>1
          <6>2. CASE i # Len(h) + 1
            <7>1. i \in m + 1 .. Len(h) /\ i \in 1 .. Len(h)
              BY <5>6, <6>2
            <7> QED
              BY <5>3, <5>6, <7>1
          <6> QED
            BY <6>1, <6>2
        <5>9. prompt[u] = Truncate(Append(SubSeq(g, 1, m), <<"user", u>>))
          BY <5>3, <5>5
        <5>10. PromptIsOf(prompt[u], u, g)
          BY <5>7, <5>8, <5>9 DEF PromptIsOf
        <5> QED
          BY <4>1, <5>2, <5>10 DEF g
      <4> QED
        BY <4>2, <4>3
    <3> QED
      BY <3>1, <3>2
  <2> QED
    BY <2>1, <2>2
<1> QED
  BY <1>11, <1>12, <1>13, <1>14, <1>15, <1>16 DEF ChatInv

\* What a turn leaves when it ends.
LEMMA EndTurnLeaves ==
  ASSUME ChatInv, NEW u \in Turns, stage[u] = "asking"
  PROVE  /\ Truncate(Append(prompt[u], Answer(u))) \in Seq(Entries)
         /\ Truncate(Append(prompt[u], Answer(u))) # <<>>
         /\ Truncate(Append(prompt[u], Answer(u)))[1] = System
         /\ Once(Truncate(Append(prompt[u], Answer(u))))
         /\ Answers(Truncate(Append(prompt[u], Answer(u)))) \subseteq Done \cup {u}
         /\ u \notin Done
<1> DEFINE q == prompt[u]
           x == Append(q, Answer(u))
<1>1. /\ q \in Seq(Entries) /\ q # <<>> /\ q[1] = System
      /\ Once(q) /\ Answers(q) \subseteq Done /\ u \notin Done
  BY DEF ChatInv, ChatTypeOK, PromptsOK, Done
<1> HIDE DEF q, System
<1>2. Answer(u) \in Entries /\ 1 \in 1 .. Len(q)
  BY <1>1, EntryNames, TruncateFacts
<1>3. x \in Seq(Entries) /\ x # <<>> /\ x[1] = System
  BY <1>1, <1>2, AppendFacts
<1>4. Once(x) /\ Answers(x) = Answers(q) \cup {u}
  BY <1>1, AppendAnswer
<1> HIDE DEF x
<1>5. /\ Truncate(x) \in Seq(Entries) /\ Truncate(x) # <<>> /\ Truncate(x)[1] = System
  BY <1>3, TruncateFacts
<1>6. Once(Truncate(x)) /\ Answers(Truncate(x)) \subseteq Answers(x)
  BY <1>3, <1>4, TruncateAnswers
<1> QED
  BY <1>1, <1>4, <1>5, <1>6 DEF x, q

LEMMA EndTurnMemory ==
  ASSUME ChatInv, NEW u \in Turns, EndTurn(u)
  PROVE  ChatInv'
<1> DEFINE s == chatOf[u]
           left == Truncate(Append(prompt[u], Answer(u)))
<1>1. /\ stage[u] = "asking"
      /\ AppendMessage(s, <<"assistant", u>>, sessionRows)
      /\ heap' = [heap EXCEPT ![TurnList(u)] = left]
      /\ histories' = [histories EXCEPT ![s] = TurnList(u)]
      /\ stage' = [stage EXCEPT ![u] = "done"]
      /\ during' = [w \in Turns |->
           IF w = u THEN {}
           ELSE IF chatOf[w] = s /\ stage[w] \in {"fetching", "asking"} THEN during[w] \cup {u}
           ELSE during[w]]
      /\ held' = [held EXCEPT ![u] = NoList]
      /\ prompt' = [prompt EXCEPT ![u] = <<>>]
      /\ UNCHANGED <<chatOf, sessionRows, cutOff, chatActs>>
  BY DEF EndTurn, Answer
<1>2. /\ left \in Seq(Entries) /\ left # <<>> /\ left[1] = System
      /\ Once(left) /\ Answers(left) \subseteq Done \cup {u} /\ u \notin Done
  BY <1>1, EndTurnLeaves
<1> HIDE DEF left, System
<1>3. /\ TurnList(u) \in Lists /\ s \in Chats
      /\ heap \in [Lists -> Seq(Entries)] /\ prompt \in [Turns -> Seq(Entries)]
      /\ held \in [Turns -> Lists \cup {NoList}] /\ histories \in [Chats -> Lists \cup {NoList}]
      /\ stage \in [Turns -> Running \cup {"idle", "done", "dead"}]
      /\ during \in [Turns -> SUBSET Turns]
      /\ \A l \in Lists : heap[l] # <<>> /\ heap[l][1] = System
      /\ \A t \in Turns : Len(prompt[t]) <= MaxHistory + 1
  BY Names DEF ChatInv, ChatTypeOK
<1>4. /\ heap' \in [Lists -> Seq(Entries)] /\ heap'[TurnList(u)] = left
      /\ \A l \in Lists : l # TurnList(u) => heap'[l] = heap[l]
  BY <1>1, <1>2, <1>3
<1>5. /\ histories' \in [Chats -> Lists \cup {NoList}] /\ histories'[s] = TurnList(u)
      /\ \A c \in Chats : c # s => histories'[c] = histories[c]
  BY <1>1, <1>3
<1>6. /\ stage' \in [Turns -> Running \cup {"idle", "done", "dead"}] /\ stage'[u] = "done"
      /\ held' \in [Turns -> Lists \cup {NoList}]
      /\ prompt' \in [Turns -> Seq(Entries)] /\ prompt'[u] = <<>>
      /\ during' \in [Turns -> SUBSET Turns]
      /\ \A w \in Turns \ {u} :
           /\ stage'[w] = stage[w] /\ held'[w] = held[w] /\ prompt'[w] = prompt[w]
           /\ during'[w] = {} =>
                during[w] = {} /\ (stage[w] \in {"fetching", "asking"} => chatOf[w] # s)
  <2>1. stage' \in [Turns -> Running \cup {"idle", "done", "dead"}] /\ stage'[u] = "done"
    BY <1>1, <1>3
  <2>2. held' \in [Turns -> Lists \cup {NoList}]
    BY <1>1, <1>3
  <2>3. prompt' \in [Turns -> Seq(Entries)] /\ prompt'[u] = <<>>
    BY <1>1, <1>3, EmptyFacts
  <2>4. during' \in [Turns -> SUBSET Turns]
    BY <1>1, <1>3
  <2>5. ASSUME NEW w \in Turns \ {u}
        PROVE  /\ stage'[w] = stage[w] /\ held'[w] = held[w] /\ prompt'[w] = prompt[w]
               /\ during'[w] = {} =>
                    during[w] = {} /\ (stage[w] \in {"fetching", "asking"} => chatOf[w] # s)
    BY <1>1, <1>3
  <2> QED
    BY <2>1, <2>2, <2>3, <2>4, <2>5
<1>7. Done' = Done \cup {u}
  BY <1>6 DEF Done
<1>8. ChatTypeOK'
  <2>1. convo' \in [Chats -> SUBSET Entries] /\ messages' \in [Chats -> SUBSET Entries]
    BY <1>1, <1>3, EntryNames, AppendMessageTypes DEF ChatInv
  <2>2. \A l \in Lists : heap'[l] # <<>> /\ heap'[l][1] = System
    BY <1>2, <1>3, <1>4
  <2>3. \A t \in Turns : Len(prompt'[t]) <= MaxHistory + 1
    <3>1. Len(prompt'[u]) <= MaxHistory + 1
      BY <1>6, ChatAssumption, EmptyFacts
    <3>2. \A t \in Turns \ {u} : prompt'[t] = prompt[t]
      BY <1>6
    <3> QED
      BY <1>3, <3>1, <3>2
  <2> QED
    BY <1>1, <1>4, <1>5, <1>6, <2>1, <2>2, <2>3 DEF ChatInv, ChatTypeOK
<1>9. ListsOK'
  BY <1>2, <1>4, <1>7 DEF ChatInv, ListsOK
<1>10. PromptsOK'
  <2> SUFFICES ASSUME NEW w \in Turns
               PROVE  /\ Once(prompt'[w]) /\ Answers(prompt'[w]) \subseteq Done'
                      /\ stage'[w] = "asking" => prompt'[w] # <<>> /\ prompt'[w][1] = System
    BY DEF PromptsOK
  <2>1. CASE w = u
    BY <1>6, <2>1, EmptyFacts
  <2>2. CASE w # u
    <3>1. prompt'[w] = prompt[w] /\ stage'[w] = stage[w]
      BY <1>6, <2>2
    <3> QED
      BY <1>7, <3>1 DEF ChatInv, PromptsOK
  <2> QED
    BY <2>1, <2>2
<1>11. HeldIsList'
  BY <1>6 DEF ChatInv, HeldIsList
<1>12. HistoryIsDone'
  BY <1>3, <1>5, <1>7, Names DEF ChatInv, HistoryIsDone
<1>13. Undisturbed'
  <2> SUFFICES ASSUME NEW w \in Turns, NEW v \in Turns,
                      during'[w] = {}, histories'[chatOf'[w]] = TurnList(v),
                      stage'[w] \in {"fetching", "asking"}
               PROVE  /\ stage'[w] = "fetching" => held'[w] = TurnList(v)
                      /\ stage'[w] = "asking" => PromptIsOf(prompt'[w], w, heap'[TurnList(v)])
    BY DEF Undisturbed
  <2>1. w # u
    BY <1>6
  <2>2. /\ stage'[w] = stage[w] /\ held'[w] = held[w] /\ prompt'[w] = prompt[w]
        /\ during[w] = {} /\ chatOf[w] # s /\ chatOf'[w] = chatOf[w]
    BY <1>1, <1>6, <2>1
  <2>3. chatOf[w] \in Chats /\ histories[chatOf[w]] = TurnList(v)
    BY <1>5, <2>2 DEF ChatInv, ChatTypeOK
  <2>4. v # u
    BY <1>2, <2>3 DEF ChatInv, HistoryIsDone
  <2>5. heap'[TurnList(v)] = heap[TurnList(v)]
    BY <1>4, <2>4, Names
  <2> QED
    BY <2>2, <2>3, <2>5 DEF ChatInv, Undisturbed
<1> QED
  BY <1>8, <1>9, <1>10, <1>11, <1>12, <1>13 DEF ChatInv

LEMMA RowsMemory ==
  ASSUME ChatInv, NEW s \in Chats, CreateSession(s) \/ DeleteSession(s)
  PROVE  ChatInv'
<1>1. UNCHANGED <<chatMemory, chatTurns>>
  BY DEF CreateSession, DeleteSession
<1>2. ListsOK' /\ PromptsOK' /\ HeldIsList' /\ HistoryIsDone' /\ Undisturbed'
  BY <1>1, MemoryStays
<1>3. CASE CreateSession(s)
  <2>1. ChatTypeOK'
    BY <1>1, <1>3 DEF ChatInv, ChatTypeOK, CreateSession, EnsureSession, chatMemory, chatTurns
  <2> QED
    BY <1>2, <2>1 DEF ChatInv
<1>4. CASE DeleteSession(s)
  <2>1. /\ sessionRows' \subseteq Chats /\ cutOff' \subseteq Chats /\ chatActs' \in 0 .. MaxChatActs
        /\ convo' \in [Chats -> SUBSET Entries] /\ messages' \in [Chats -> SUBSET Entries]
    BY <1>4, ChatAssumption DEF ChatInv, ChatTypeOK, DeleteSession
  <2>2. ChatTypeOK'
    BY <1>1, <2>1 DEF ChatInv, ChatTypeOK, chatMemory, chatTurns
  <2> QED
    BY <1>2, <2>2 DEF ChatInv
<1> QED
  BY <1>3, <1>4

LEMMA NewSessionMemory ==
  ASSUME ChatInv, NEW s \in Chats, NewSession(s)
  PROVE  ChatInv'
<1> DEFINE fresh == ResetList(chatActs + 1)
<1>1. /\ chatActs < MaxChatActs /\ chatActs' = chatActs + 1
      /\ heap' = [heap EXCEPT ![fresh] = <<System>>]
      /\ histories' = [histories EXCEPT ![s] = fresh]
      /\ UNCHANGED <<stage, chatOf, held, prompt, during, sessionRows, convo, messages, cutOff>>
  BY DEF NewSession, chatTurns, chatStore
<1>2. /\ heap \in [Lists -> Seq(Entries)] /\ histories \in [Chats -> Lists \cup {NoList}]
      /\ chatActs \in 0 .. MaxChatActs
      /\ \A l \in Lists : heap[l] # <<>> /\ heap[l][1] = System
  BY DEF ChatInv, ChatTypeOK
<1>3. chatActs + 1 \in 1 .. MaxChatActs /\ chatActs' \in 0 .. MaxChatActs
  BY <1>1, <1>2, ChatAssumption
<1>4. fresh \in Lists /\ \A v \in Turns : TurnList(v) # fresh
  BY <1>3, Names
<1> HIDE DEF fresh, System
<1>5. /\ heap' \in [Lists -> Seq(Entries)] /\ heap'[fresh] = <<System>>
      /\ \A l \in Lists : l # fresh => heap'[l] = heap[l]
      /\ histories' \in [Chats -> Lists \cup {NoList}] /\ histories'[s] = fresh
      /\ \A c \in Chats : c # s => histories'[c] = histories[c]
  BY <1>1, <1>2, <1>4, SystemFacts
<1>6. \A c \in Chats, v \in Turns : histories'[c] = TurnList(v) => histories[c] = TurnList(v)
  BY <1>4, <1>5
<1>7. ChatTypeOK'
  <2>1. \A l \in Lists : heap'[l] # <<>> /\ heap'[l][1] = System
    BY <1>2, <1>5, SystemFacts
  <2> QED
    BY <1>1, <1>3, <1>5, <2>1 DEF ChatInv, ChatTypeOK
<1>8. Done' = Done
  BY <1>1 DEF Done
<1>9. ListsOK'
  BY <1>4, <1>5, <1>8, SystemFacts DEF ChatInv, ListsOK
<1>10. PromptsOK' /\ HeldIsList'
  BY <1>1, <1>8 DEF ChatInv, PromptsOK, HeldIsList
<1>11. HistoryIsDone'
  BY <1>6, <1>8 DEF ChatInv, HistoryIsDone
<1>12. Undisturbed'
  <2> SUFFICES ASSUME NEW u \in Turns, NEW v \in Turns,
                      during'[u] = {}, histories'[chatOf'[u]] = TurnList(v)
               PROVE  /\ stage'[u] = "fetching" => held'[u] = TurnList(v)
                      /\ stage'[u] = "asking" => PromptIsOf(prompt'[u], u, heap'[TurnList(v)])
    BY DEF Undisturbed
  <2>1. chatOf[u] \in Chats /\ histories[chatOf[u]] = TurnList(v)
    BY <1>1, <1>6 DEF ChatInv, ChatTypeOK
  <2>2. heap'[TurnList(v)] = heap[TurnList(v)]
    BY <1>4, <1>5, Names
  <2> QED
    BY <1>1, <2>1, <2>2 DEF ChatInv, Undisturbed
<1> QED
  BY <1>7, <1>9, <1>10, <1>11, <1>12 DEF ChatInv

LEMMA CrashMemory ==
  ASSUME ChatInv, ChatCrash
  PROVE  ChatInv'
<1>1. /\ chatActs < MaxChatActs /\ chatActs' = chatActs + 1
      /\ histories' = [s \in Chats |-> NoList]
      /\ heap' = [l \in Lists |-> <<System>>]
      /\ stage' = [t \in Turns |-> IF stage[t] \in Running THEN "dead" ELSE stage[t]]
      /\ held' = [t \in Turns |-> NoList]
      /\ prompt' = [t \in Turns |-> <<>>]
      /\ during' = [t \in Turns |-> {}]
      /\ UNCHANGED <<chatOf, sessionRows, convo, messages, cutOff>>
  BY DEF ChatCrash, chatStore
<1>2. ChatTypeOK'
  <2>1. chatActs' \in 0 .. MaxChatActs
    BY <1>1, ChatAssumption DEF ChatInv, ChatTypeOK
  <2>2. stage' \in [Turns -> Running \cup {"idle", "done", "dead"}]
    BY <1>1 DEF ChatInv, ChatTypeOK
  <2>3. heap' \in [Lists -> Seq(Entries)] /\ \A l \in Lists : heap'[l] # <<>> /\ heap'[l][1] = System
    BY <1>1, SystemFacts
  <2>4. prompt' \in [Turns -> Seq(Entries)] /\ \A t \in Turns : Len(prompt'[t]) <= MaxHistory + 1
    BY <1>1, ChatAssumption, EmptyFacts
  <2>5. /\ histories' \in [Chats -> Lists \cup {NoList}] /\ held' \in [Turns -> Lists \cup {NoList}]
        /\ during' \in [Turns -> SUBSET Turns]
    BY <1>1
  <2> QED
    BY <1>1, <2>1, <2>2, <2>3, <2>4, <2>5 DEF ChatInv, ChatTypeOK
<1>3. ListsOK'
  BY <1>1, SystemFacts DEF ListsOK
<1>4. \A t \in Turns : stage'[t] \notin {"fetching", "asking"}
  BY <1>1 DEF ChatInv, ChatTypeOK, Running
<1>5. PromptsOK' /\ HeldIsList' /\ HistoryIsDone' /\ Undisturbed'
  BY <1>1, <1>4, Names, EmptyFacts DEF PromptsOK, HeldIsList, HistoryIsDone, Undisturbed
<1> QED
  BY <1>2, <1>3, <1>5 DEF ChatInv

LEMMA ChatStepInv == ChatInv /\ [ChatNext]_chatVars => ChatInv'
<1> SUFFICES ASSUME ChatInv, [ChatNext]_chatVars PROVE ChatInv'
  OBVIOUS
<1>1. CASE UNCHANGED chatVars
  <2>1. UNCHANGED <<chatMemory, chatTurns, chatStore, chatActs>>
    BY <1>1 DEF chatVars
  <2>2. ChatTypeOK'
    BY <2>1 DEF ChatInv, ChatTypeOK, chatMemory, chatTurns, chatStore
  <2> QED
    BY <2>1, <2>2, MemoryStays DEF ChatInv
<1>2. CASE ChatNext
  BY <1>2, StreamRequestMemory, BeginTurnMemory, AskModelMemory, EndTurnMemory, RowsMemory,
     NewSessionMemory, CrashMemory DEF ChatNext
<1> QED
  BY <1>1, <1>2

LEMMA ChatInvariant == ChatSpec => []ChatInv
<1>1. ChatInit => ChatInv
  BY ChatInitInv
<1>2. ChatInv /\ [ChatNext]_chatVars => ChatInv'
  BY ChatStepInv
<1> QED
  BY <1>1, <1>2, PTL DEF ChatSpec
-----------------------------------------------------------------------------
(***************************************************************************)
(* What a step takes from the memory of a session                           *)
(***************************************************************************)
LEMMA RememberedIs ==
  ASSUME ChatTypeOK, NEW s \in Chats
  PROVE  Remembered(s) = IF histories[s] = NoList THEN {} ELSE Answers(heap[histories[s]])
<1>1. CASE histories[s] = NoList
  BY <1>1 DEF Remembered
<1>2. CASE histories[s] # NoList
  <2> DEFINE h == heap[histories[s]]
  <2>1. h \in Seq(Entries)
    BY <1>2 DEF ChatTypeOK
  <2>2. DOMAIN h = 1 .. Len(h)
    BY <2>1, SeqFacts
  <2> QED
    BY <1>2, <2>2 DEF Remembered, Answers, Answer
<1> QED
  BY <1>1, <1>2

LEMMA AnswerAtIs ==
  ASSUME ChatInv, NEW s \in Chats, histories[s] \in Lists, NEW t \in Turns,
         NEW i \in 1 .. Len(heap[histories[s]]), heap[histories[s]][i] = Answer(t)
  PROVE  AnswerAt(s, t) = i
<1> DEFINE h == heap[histories[s]]
<1>1. Once(h) /\ DOMAIN h = 1 .. Len(h)
  BY SeqFacts DEF ChatInv, ChatTypeOK, ListsOK
<1>2. AnswerAt(s, t) = CHOOSE j \in 1 .. Len(h) : h[j] = Answer(t)
  BY DEF AnswerAt, Answer
<1> HIDE DEF h
<1>3. i \in 1 .. Len(h) /\ h[i] = Answer(t)
  BY DEF h
<1>4. AnswerAt(s, t) \in 1 .. Len(h) /\ h[AnswerAt(s, t)] = Answer(t)
  BY <1>2, <1>3
<1> QED
  BY <1>1, <1>3, <1>4 DEF Once

\* Nothing is lost where the session keeps its list and the list its answers.
LEMMA NothingLost ==
  ASSUME ChatTypeOK, ChatTypeOK', NEW s \in Chats, histories'[s] = histories[s],
         histories[s] # NoList => Answers(heap[histories[s]]) \subseteq Answers(heap'[histories[s]])
  PROVE  Remembered(s) \subseteq Remembered(s)'
<1>1. Remembered(s) = IF histories[s] = NoList THEN {} ELSE Answers(heap[histories[s]])
  BY RememberedIs
<1>2. Remembered(s)' = IF histories'[s] = NoList THEN {} ELSE Answers(heap'[histories'[s]])
  <2>1. CASE histories'[s] = NoList
    BY <2>1 DEF Remembered
  <2>2. CASE histories'[s] # NoList
    <3> DEFINE h == heap'[histories'[s]]
    <3>1. h \in Seq(Entries)
      BY <2>2 DEF ChatTypeOK
    <3>2. DOMAIN h = 1 .. Len(h)
      BY <3>1, SeqFacts
    <3> QED
      BY <2>2, <3>2 DEF Remembered, Answers, Answer
  <2> QED
    BY <2>1, <2>2
<1> QED
  BY <1>1, <1>2

\* A turn that nobody overtook drops the oldest answers, of a full memory.
LEMMA EndTurnForgets ==
  ASSUME ChatInv, NEW u \in Turns, EndTurn(u), during[u] = {},
         NEW s \in Chats, chatOf[u] = s, NEW t \in Remembered(s) \ Remembered(s)'
  PROVE  /\ Len(heap'[TurnList(u)]) = MaxHistory + 1
         /\ \A v \in Remembered(s) \cap Remembered(s)' : AnswerAt(s, v) > AnswerAt(s, t)
<1> DEFINE h == heap[histories[s]]
<1>1. /\ stage[u] = "asking" /\ TurnList(u) \in Lists /\ TurnList(u) # NoList
      /\ heap' = [heap EXCEPT ![TurnList(u)] = Truncate(Append(prompt[u], Answer(u)))]
      /\ histories' = [histories EXCEPT ![s] = TurnList(u)]
      /\ heap \in [Lists -> Seq(Entries)] /\ histories \in [Chats -> Lists \cup {NoList}]
  BY Names DEF EndTurn, Answer, ChatInv, ChatTypeOK
<1>2. /\ histories'[s] = TurnList(u)
      /\ heap'[TurnList(u)] = Truncate(Append(prompt[u], Answer(u)))
  BY <1>1
<1>3. Remembered(s) = IF histories[s] = NoList THEN {} ELSE Answers(h)
  BY <1>1, RememberedIs DEF ChatInv
<1>4. t \in Turns /\ histories[s] \in Lists /\ Remembered(s) = Answers(h) /\ t \in Answers(h)
  BY <1>1, <1>3 DEF Answers
<1>5. PICK v \in Turns : histories[s] = TurnList(v)
  BY <1>4 DEF ChatInv, ListsOK
<1>6. PromptIsOf(prompt[u], u, h)
  BY <1>1, <1>5 DEF ChatInv, Undisturbed
<1>7. PICK m \in 1 .. Len(h) :
        /\ prompt[u] = Truncate(Append(SubSeq(h, 1, m), <<"user", u>>))
        /\ \A a \in Turns : \A i \in m + 1 .. Len(h) : h[i] # Answer(a)
  BY <1>6 DEF PromptIsOf
<1>8. /\ h \in Seq(Entries) /\ h # <<>> /\ h[1] = System /\ Answers(h) \subseteq Done
      /\ u \notin Done
  BY <1>1, <1>4 DEF ChatInv, ChatTypeOK, ListsOK, Done
<1>9. \A a \in Turns : \A i \in 1 .. Len(h) : h[i] = Answer(a) => AnswerAt(s, a) = i
  BY <1>1, <1>4, AnswerAtIs
<1> HIDE DEF h, System
<1> DEFINE p == SubSeq(h, 1, m)
           y == Append(p, <<"user", u>>)
           x == Append(y, Answer(u))
           left == Truncate(x)
           d == Len(x) - Len(left)
<1>10. /\ <<"user", u>> \in Entries /\ Answer(u) \in Entries
       /\ \A a \in Turns : Answer(a) # <<"user", u>> /\ Answer(a) # System
       /\ \A a \in Turns : Answer(u) = Answer(a) => a = u
  BY EntryNames
<1>11. p \in Seq(Entries) /\ Len(p) = m /\ \A i \in 1 .. m : p[i] = h[i]
  BY <1>8, <1>10, SubSeqFacts
<1>12. m \in Nat /\ m >= 1 /\ m <= Len(h) /\ Len(h) \in Nat
  BY <1>8, SeqFacts
<1> HIDE DEF p
<1>13. /\ y \in Seq(Entries) /\ y # <<>> /\ Len(y) = m + 1
       /\ \A i \in 1 .. m : y[i] = h[i]
       /\ y[m + 1] = <<"user", u>>
  BY <1>10, <1>11, AppendFacts
<1> HIDE DEF y
<1>14. /\ x \in Seq(Entries) /\ x # <<>> /\ Len(x) = m + 2
       /\ \A i \in 1 .. m : x[i] = h[i]
       /\ x[m + 1] = <<"user", u>> /\ x[m + 2] = Answer(u)
  <2>1. /\ x \in Seq(Entries) /\ x # <<>> /\ Len(x) = (m + 1) + 1
        /\ \A i \in 1 .. m + 1 : x[i] = y[i]
        /\ x[(m + 1) + 1] = Answer(u)
    BY <1>10, <1>13, AppendFacts
  <2>2. m + 1 \in 1 .. m + 1 /\ \A i \in 1 .. m : i \in 1 .. m + 1
    BY <1>12
  <2>3. (m + 1) + 1 = m + 2
    BY <1>12
  <2> QED
    BY <1>13, <2>1, <2>2, <2>3
<1>15. heap'[TurnList(u)] = left
  <2>1. Truncate(Append(Truncate(y), Answer(u))) = Truncate(Append(y, Answer(u)))
    BY <1>10, <1>13, TruncateAgain
  <2>2. prompt[u] = Truncate(y)
    BY <1>7 DEF y, p
  <2> QED
    BY <1>2, <2>1, <2>2
<1> HIDE DEF x
<1>16. /\ left \in Seq(Entries) /\ left # <<>>
       /\ Len(left) = IF Len(x) <= MaxHistory + 1 THEN Len(x) ELSE MaxHistory + 1
       /\ left[1] = x[1]
       /\ \A i \in 2 .. Len(left) : i + d \in 2 .. Len(x) /\ left[i] = x[i + d]
  BY <1>14, TruncateFacts
<1> HIDE DEF left
<1>17. /\ Len(left) \in Nat /\ Len(left) <= m + 2 /\ d \in Nat /\ Len(left) = (m + 2) - d
       /\ MaxHistory \in Nat
       /\ Len(left) = MaxHistory + 1 \/ d = 0
  <2>1. MaxHistory \in Nat /\ Len(x) = m + 2
    BY <1>14, ChatAssumption
  <2>2. CASE Len(x) <= MaxHistory + 1
    BY <1>12, <1>16, <2>1, <2>2
  <2>3. CASE ~(Len(x) <= MaxHistory + 1)
    BY <1>12, <1>16, <2>1, <2>3
  <2> QED
    BY <2>2, <2>3
<1>18. Remembered(s)' = Answers(left)
  <2>1. DOMAIN left = 1 .. Len(left)
    BY <1>16, SeqFacts
  <2>2. histories'[s] = TurnList(u) /\ histories'[s] # NoList /\ heap'[histories'[s]] = left
    BY <1>1, <1>2, <1>15
  <2>3. Remembered(s)' = {a \in Turns : \E i \in 1 .. Len(left) : left[i] = <<"assistant", a>>}
    BY <2>2 DEF Remembered
  <2> QED
    BY <2>1, <2>3 DEF Answers, Answer
<1>19. DOMAIN h = 1 .. Len(h) /\ DOMAIN left = 1 .. Len(left)
  BY <1>8, <1>16, SeqFacts
<1> HIDE DEF d
\* The answer that is lost stands before what is kept.
<1>20. PICK i \in 1 .. Len(h) : h[i] = Answer(t)
  BY <1>4, <1>19 DEF Answers
<1>21. i \in 2 .. m
  <2>1. i # 1
    BY <1>4, <1>8, <1>10, <1>20
  <2>2. i \notin m + 1 .. Len(h)
    BY <1>4, <1>7, <1>20
  <2> QED
    BY <1>12, <1>20, <2>1, <2>2
<1>22. i < 2 + d
  <2> SUFFICES ASSUME ~(i < 2 + d) PROVE FALSE
    OBVIOUS
  <2> DEFINE k == i - d
  <2>1. k \in 2 .. Len(left) /\ k + d = i
    BY <1>12, <1>17, <1>21
  <2> HIDE DEF k
  <2>2. left[k] = Answer(t)
    <3>1. left[k] = x[i]
      BY <1>16, <2>1
    <3>2. i \in 1 .. m
      BY <1>21
    <3> QED
      BY <1>14, <1>20, <3>1, <3>2
  <2>3. t \in Answers(left)
    BY <1>4, <1>17, <1>19, <2>1, <2>2 DEF Answers
  <2> QED
    BY <1>18, <2>3
<1>23. Len(left) = MaxHistory + 1
  BY <1>12, <1>17, <1>21, <1>22
<1>24. ASSUME NEW a \in Remembered(s) \cap Remembered(s)'
       PROVE  AnswerAt(s, a) > AnswerAt(s, t)
  <2>1. a \in Answers(h) /\ a \in Answers(left) /\ a \in Turns /\ a # u
    BY <1>4, <1>8, <1>18 DEF Answers
  <2>2. PICK k \in 1 .. Len(left) : left[k] = Answer(a)
    BY <1>19, <2>1 DEF Answers
  <2>3. k \in 2 .. Len(left)
    <3>1. left[1] = System
      BY <1>8, <1>12, <1>14, <1>16
    <3> QED
      BY <1>10, <1>17, <2>1, <2>2, <3>1
  <2>4. k + d \in 2 .. m + 2 /\ x[k + d] = Answer(a)
    BY <1>14, <1>16, <2>2, <2>3
  <2>5. k + d # m + 1 /\ k + d # m + 2
    BY <1>10, <1>14, <2>1, <2>4
  <2>6. k + d \in 1 .. m /\ k + d \in 1 .. Len(h)
    BY <1>12, <2>4, <2>5
  <2>7. AnswerAt(s, a) = k + d
    BY <1>9, <1>14, <2>1, <2>4, <2>6
  <2>8. AnswerAt(s, t) = i
    BY <1>4, <1>9, <1>20
  <2>9. k + d > i
    BY <1>12, <1>17, <1>21, <1>22, <2>3
  <2> QED
    BY <2>7, <2>8, <2>9
<1> QED
  BY <1>15, <1>23, <1>24

LEMMA StepForgetsFairly ==
  ASSUME ChatInv, ChatInv', ChatNext, NEW s \in Chats,
         NEW t \in Remembered(s) \ Remembered(s)'
  PROVE  ForgetsFairly(s, t)
<1>1. /\ ChatTypeOK /\ ChatTypeOK'
      /\ histories \in [Chats -> Lists \cup {NoList}] /\ heap \in [Lists -> Seq(Entries)]
  BY DEF ChatInv, ChatTypeOK
<1>2. ASSUME histories'[s] = histories[s],
             histories[s] # NoList => Answers(heap[histories[s]]) \subseteq Answers(heap'[histories[s]])
      PROVE  FALSE
  BY <1>1, <1>2, NothingLost
<1>3. histories[s] # NoList /\ histories[s] \in Lists /\ t \in Answers(heap[histories[s]])
  BY <1>1, RememberedIs
<1>4. \E v \in Turns : histories[s] = TurnList(v) /\ v \in Done
  BY <1>3 DEF ChatInv, ListsOK, HistoryIsDone
<1>5. ASSUME UNCHANGED chatMemory PROVE FALSE
  BY <1>2, <1>5 DEF chatMemory
<1>6. ASSUME NEW u \in Turns, NEW c \in Chats, StreamRequest(u, c) PROVE FALSE
  BY <1>5, <1>6 DEF StreamRequest
<1>7. ASSUME NEW u \in Turns, NEW c \in Chats, BeginTurn(u, c) PROVE FALSE
  <2>1. SeedHistory(c)
    BY <1>7 DEF BeginTurn
  <2>2. CASE histories[c] # NoList
    BY <1>5, <2>1, <2>2 DEF SeedHistory
  <2>3. CASE histories[c] = NoList
    <3>1. /\ heap' = [heap EXCEPT ![FirstList(c)] = <<System>>]
          /\ histories' = [histories EXCEPT ![c] = FirstList(c)] /\ c # s
      BY <1>3, <2>1, <2>3 DEF SeedHistory
    <3>2. histories'[s] = histories[s]
      BY <1>1, <3>1
    <3>3. histories[s] # FirstList(c)
      BY <1>4, Names
    <3>4. heap'[histories[s]] = heap[histories[s]]
      BY <1>1, <1>3, <3>1, <3>3
    <3> QED
      BY <1>2, <3>2, <3>4
  <2> QED
    BY <2>2, <2>3
<1>8. ASSUME NEW u \in Turns, NEW shared \in BOOLEAN, AskModel(u, shared) PROVE FALSE
  <2>1. Answers(heap'[histories[s]]) = Answers(heap[histories[s]])
    BY <1>3, <1>8, AskModelMemory
  <2>2. histories' = histories
    BY <1>8 DEF AskModel
  <2> QED
    BY <1>2, <2>1, <2>2
<1>9. ASSUME NEW u \in Turns, EndTurn(u) PROVE ForgetsFairly(s, t)
  <2>1. /\ heap' = [heap EXCEPT ![TurnList(u)] = Truncate(Append(prompt[u], <<"assistant", u>>))]
        /\ histories' = [histories EXCEPT ![chatOf[u]] = TurnList(u)]
        /\ u \notin Done
    BY <1>9 DEF EndTurn, Done
  <2>2. CASE chatOf[u] = s
    <3>1. histories'[s] = TurnList(u)
      BY <1>1, <2>1, <2>2
    <3>2. CASE during[u] # {}
      BY <3>1, <3>2 DEF ForgetsFairly
    <3>3. CASE during[u] = {}
      <4>1. /\ Len(heap'[TurnList(u)]) = MaxHistory + 1
            /\ \A v \in Remembered(s) \cap Remembered(s)' : AnswerAt(s, v) > AnswerAt(s, t)
        BY <1>9, <2>2, <3>3, EndTurnForgets
      <4> QED
        BY <3>1, <4>1 DEF ForgetsFairly
    <3> QED
      BY <3>2, <3>3
  <2>3. CASE chatOf[u] # s
    <3>1. histories'[s] = histories[s]
      BY <1>1, <2>1, <2>3
    <3>2. histories[s] # TurnList(u)
      BY <1>4, <2>1, Names
    <3>3. heap'[histories[s]] = heap[histories[s]]
      BY <1>1, <1>3, <2>1, <3>2
    <3> QED
      BY <1>2, <3>1, <3>3
  <2> QED
    BY <2>2, <2>3
<1>10. ASSUME NEW c \in Chats, CreateSession(c) \/ DeleteSession(c) PROVE FALSE
  BY <1>5, <1>10 DEF CreateSession, DeleteSession
<1>11. ASSUME NEW c \in Chats, NewSession(c) PROVE ForgetsFairly(s, t)
  <2>1. /\ heap' = [heap EXCEPT ![ResetList(chatActs + 1)] = <<System>>]
        /\ histories' = [histories EXCEPT ![c] = ResetList(chatActs + 1)]
        /\ chatActs + 1 \in 1 .. MaxChatActs
    BY <1>11, ChatAssumption DEF NewSession, ChatInv, ChatTypeOK
  <2>2. CASE c = s
    <3>1. histories'[s] = ResetList(chatActs + 1)
      BY <1>1, <2>1, <2>2
    <3> QED
      BY <2>1, <3>1 DEF ForgetsFairly
  <2>3. CASE c # s
    <3>1. histories'[s] = histories[s]
      BY <1>1, <2>1, <2>3
    <3>2. histories[s] # ResetList(chatActs + 1)
      BY <1>4, Names
    <3>3. heap'[histories[s]] = heap[histories[s]]
      BY <1>1, <1>3, <2>1, <3>2
    <3> QED
      BY <1>2, <3>1, <3>3
  <2> QED
    BY <2>2, <2>3
<1>12. ASSUME ChatCrash PROVE ForgetsFairly(s, t)
  BY <1>12 DEF ChatCrash, ForgetsFairly
<1> QED
  BY <1>6, <1>7, <1>8, <1>9, <1>10, <1>11, <1>12 DEF ChatNext

-----------------------------------------------------------------------------
\* The memory, the turns and the store have their types: every list begins with
\* the system message, and no prompt is longer than the cap allows.
\* (_seed_history and _truncate_history, agent_service.py)
THEOREM ChatTypes == ChatSpec => []ChatTypeOK
<1>1. ChatInv => ChatTypeOK
  BY DEF ChatInv
<1> QED
  BY <1>1, ChatInvariant, PTL

\* However turns of a session overlap, an answer leaves its memory only in a
\* reset or a restart, when a turn that was overtaken writes back what it had,
\* or as the oldest of a full memory.  (stream_chat, agent_service.py:592)
THEOREM ForgetsOnlyFairly == ChatSpec => ChatForgetsFairly
<1>1. ChatInv /\ ChatInv' /\ [ChatNext]_chatVars =>
        [\A s \in Chats : \A t \in Remembered(s) \ Remembered(s)' : ForgetsFairly(s, t)]_chatVars
  <2> SUFFICES ASSUME ChatInv, ChatInv', [ChatNext]_chatVars, ~(UNCHANGED chatVars)
               PROVE  \A s \in Chats : \A t \in Remembered(s) \ Remembered(s)' : ForgetsFairly(s, t)
    OBVIOUS
  <2>1. ChatNext
    OBVIOUS
  <2> QED
    BY <2>1, StepForgetsFairly
<1> QED
  BY <1>1, ChatInvariant, PTL DEF ChatSpec, ChatForgetsFairly
=============================================================================
