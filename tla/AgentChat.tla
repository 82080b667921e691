----------------------------- MODULE AgentChat -----------------------------
(***************************************************************************)
(* The agent's chat: AgentService.stream_chat with its conversation         *)
(* histories (app/services/agent_service.py), the session store             *)
(* (app/services/session_service.py), and the routes that reach them        *)
(* (app/routes/api.py, app/routes/agent.py).                                *)
(*                                                                         *)
(* A turn is one call of stream_chat.  It gives way to other requests twice:*)
(* while it fetches the URLs of its prompt, and while it waits for the      *)
(* model.  Until the first wait is over it holds the list object it found   *)
(* in session_histories, which others may append to or replace; from then   *)
(* on it works on a copy.  The histories are lists in a heap for that       *)
(* reason.  The model's answer is external: one answer per turn, an error   *)
(* message included.                                                        *)
(***************************************************************************)
EXTENDS Naturals, Sequences

CONSTANTS
  Chats,       \* session ids
  MaxTurns,    \* bound on calls of stream_chat, numbered as they arrive
  MaxHistory,  \* MAX_HISTORY_MESSAGES (20 in the code)
  MaxChatActs  \* bound on resets, deletions and restarts

ASSUME ChatAssumption ==
  Chats # {} /\ MaxTurns \in Nat /\ MaxHistory \in Nat \ {0} /\ MaxChatActs \in Nat

VARIABLES
  heap,        \* the list objects: of a chat's first list, a reset, or a turn
  histories,   \* session_histories: chat -> list object
  stage,       \* how far a turn is
  chatOf,      \* the session of a turn
  held,        \* the list object a turn got from _seed_history
  prompt,      \* what the turn sends to the model
  during,      \* turns of the same session that ended while this one ran
  sessionRows, \* sessions that have a Session and a ConversationSession row
  convo,       \* ConversationSession.messages_json
  messages,    \* the Message rows of a session
  cutOff,      \* sessions deleted while a turn of theirs ran
  chatActs

chatMemory == <<heap, histories>>
chatTurns == <<stage, chatOf, held, prompt, during>>
chatStore == <<sessionRows, convo, messages, cutOff>>
chatVars == <<chatMemory, chatTurns, chatStore, chatActs>>

Turns == 1 .. MaxTurns
NoList == <<>>
FirstList(s) == <<"first", s>>
ResetList(n) == <<"reset", n>>
TurnList(t) == <<"turn", t>>
Lists == ({"first"} \X Chats) \cup ({"reset"} \X (1 .. MaxChatActs)) \cup ({"turn"} \X Turns)
Running == {"queued", "fetching", "asking"}

System == <<"system">>
Entries == {System} \cup ({"user", "url", "steps", "assistant"} \X Turns)

ChatInit ==
  /\ heap = [l \in Lists |-> <<System>>]
  /\ histories = [s \in Chats |-> NoList]
  /\ stage = [t \in Turns |-> "idle"]
  /\ chatOf = [t \in Turns |-> CHOOSE s \in Chats : TRUE]
  /\ held = [t \in Turns |-> NoList]
  /\ prompt = [t \in Turns |-> <<>>]
  /\ during = [t \in Turns |-> {}]
  /\ sessionRows = {}
  /\ convo = [s \in Chats |-> {}] /\ messages = [s \in Chats |-> {}]
  /\ cutOff = {} /\ chatActs = 0

\* Mutant: one message too many is kept.
TruncateLate(h) ==
  IF Len(h) <= MaxHistory + 2 THEN h
  ELSE <<h[1]>> \o SubSeq(h, Len(h) - MaxHistory + 1, Len(h))

(* The first message and the last MaxHistory of the others.                 *)
Truncate(h) ==
  IF Len(h) <= MaxHistory + 1 THEN h
  ELSE <<h[1]>> \o SubSeq(h, Len(h) - MaxHistory + 1, Len(h))

----------------------------------------------------------------------------
(* The store.  A message is added to its table and, when the session still  *)
(* has a conversation row, to that row, in one commit.  (Each message is    *)
(* written once, in the order of the commits: sets are enough.)             *)
EnsureSession(s) == sessionRows' = sessionRows \cup {s}
AppendMessage(s, m, rows) ==
  /\ messages' = [messages EXCEPT ![s] = @ \cup {m}]
  /\ convo' = IF s \in rows THEN [convo EXCEPT ![s] = @ \cup {m}] ELSE convo

CreateSession(s) ==
  /\ s \notin sessionRows /\ messages[s] = {} /\ histories[s] = NoList
  /\ \A t \in Turns : chatOf[t] = s => stage[t] = "idle"
  /\ EnsureSession(s)
  /\ UNCHANGED <<chatMemory, chatTurns, convo, messages, cutOff, chatActs>>

\* Mutant: the Message rows stay.
DeleteConversation(s) ==
  /\ s \in sessionRows
  /\ chatActs < MaxChatActs /\ chatActs' = chatActs + 1
  /\ sessionRows' = sessionRows \ {s}
  /\ convo' = [convo EXCEPT ![s] = {}]
  /\ cutOff' = IF \E t \in Turns : chatOf[t] = s /\ stage[t] \in Running
                 THEN cutOff \cup {s} ELSE cutOff
  /\ UNCHANGED <<chatMemory, chatTurns, messages>>

DeleteSession(s) ==
  /\ s \in sessionRows
  /\ chatActs < MaxChatActs /\ chatActs' = chatActs + 1
  /\ sessionRows' = sessionRows \ {s}
  /\ messages' = [messages EXCEPT ![s] = {}]
  /\ convo' = [convo EXCEPT ![s] = {}]
  /\ cutOff' = IF \E t \in Turns : chatOf[t] = s /\ stage[t] \in Running
                 THEN cutOff \cup {s} ELSE cutOff
  /\ UNCHANGED <<chatMemory, chatTurns>>

----------------------------------------------------------------------------
Arrives(t, s) ==
  /\ stage[t] = "idle" /\ \A u \in 1 .. t - 1 : stage[u] # "idle"
  /\ chatOf' = [chatOf EXCEPT ![t] = s]

(* A streamed turn has its session row before its thread begins.            *)
StreamRequest(t, s) ==
  /\ Arrives(t, s)
  /\ EnsureSession(s)
  /\ stage' = [stage EXCEPT ![t] = "queued"]
  /\ UNCHANGED <<chatMemory, held, prompt, during, convo, messages, cutOff, chatActs>>

\* Mutant: every turn starts a new list.
SeedAfresh(s) ==
  /\ heap' = [heap EXCEPT ![FirstList(s)] = <<System>>]
  /\ histories' = [histories EXCEPT ![s] = FirstList(s)]

(* _seed_history: the list the session has, or a new one for it.            *)
SeedHistory(s) ==
  IF histories[s] # NoList
    THEN UNCHANGED chatMemory
    ELSE /\ heap' = [heap EXCEPT ![FirstList(s)] = <<System>>]
         /\ histories' = [histories EXCEPT ![s] = FirstList(s)]

BeginTurn(t, s) ==
  /\ \/ Arrives(t, s)
     \/ stage[t] = "queued" /\ chatOf[t] = s /\ UNCHANGED chatOf
  /\ SeedHistory(s)
  /\ held' = [held EXCEPT ![t] = histories'[s]]
  /\ EnsureSession(s)
  /\ AppendMessage(s, <<"user", t>>, sessionRows')
  /\ stage' = [stage EXCEPT ![t] = "fetching"]
  /\ UNCHANGED <<prompt, during, cutOff, chatActs>>

(* The URLs of the prompt are fetched.  Those of the message itself (not of *)
(* its attachments) are noted in the list that the turn holds, whoever else *)
(* holds it; the prompt is a copy of it and the user's message.             *)
AskModel(t, shared) ==
  LET known == heap[held[t]] \o (IF shared THEN <<<<"url", t>>>> ELSE <<>>) IN
  /\ stage[t] = "fetching"
  /\ heap' = [heap EXCEPT ![held[t]] = known]
  /\ prompt' = [prompt EXCEPT ![t] = Truncate(Append(known, <<"user", t>>))]
  /\ AppendMessage(chatOf[t], <<"steps", t>>, sessionRows)
  /\ held' = [held EXCEPT ![t] = NoList]
  /\ stage' = [stage EXCEPT ![t] = "asking"]
  /\ UNCHANGED <<histories, chatOf, during, sessionRows, cutOff, chatActs>>

EndTurn(t) ==
  LET s == chatOf[t] IN
  /\ stage[t] = "asking"
  /\ AppendMessage(s, <<"assistant", t>>, sessionRows)
  /\ heap' = [heap EXCEPT ![TurnList(t)] = Truncate(Append(prompt[t], <<"assistant", t>>))]
  /\ histories' = [histories EXCEPT ![s] = TurnList(t)]
  /\ stage' = [stage EXCEPT ![t] = "done"]
  /\ during' = [u \in Turns |->
       IF u = t THEN {}
       ELSE IF chatOf[u] = s /\ stage[u] \in {"fetching", "asking"} THEN during[u] \cup {t}
       ELSE during[u]]
  /\ held' = [held EXCEPT ![t] = NoList]
  /\ prompt' = [prompt EXCEPT ![t] = <<>>]
  /\ UNCHANGED <<chatOf, sessionRows, cutOff, chatActs>>

(* POST /api/agent/new_session.                                             *)
NewSession(s) ==
  /\ chatActs < MaxChatActs /\ chatActs' = chatActs + 1
  /\ heap' = [heap EXCEPT ![ResetList(chatActs + 1)] = <<System>>]
  /\ histories' = [histories EXCEPT ![s] = ResetList(chatActs + 1)]
  /\ UNCHANGED <<chatTurns, chatStore>>

(* A restart of the server: the histories were only in memory.              *)
ChatCrash ==
  /\ chatActs < MaxChatActs /\ chatActs' = chatActs + 1
  /\ histories' = [s \in Chats |-> NoList]
  /\ heap' = [l \in Lists |-> <<System>>]
  /\ stage' = [t \in Turns |-> IF stage[t] \in Running THEN "dead" ELSE stage[t]]
  /\ held' = [t \in Turns |-> NoList]
  /\ prompt' = [t \in Turns |-> <<>>]
  /\ during' = [t \in Turns |-> {}]
  /\ UNCHANGED <<chatOf, chatStore>>

ChatNext ==
  \/ \E t \in Turns :
       \/ \E s \in Chats : StreamRequest(t, s) \/ BeginTurn(t, s)
       \/ EndTurn(t)
       \/ \E shared \in BOOLEAN : AskModel(t, shared)
  \/ \E s \in Chats : CreateSession(s) \/ DeleteSession(s) \/ NewSession(s)
  \/ ChatCrash

ChatSpec == ChatInit /\ [][ChatNext]_chatVars

----------------------------------------------------------------------------
ChatTypeOK ==
  /\ heap \in [Lists -> Seq(Entries)]
  /\ \A l \in Lists : heap[l] # <<>> /\ heap[l][1] = System
  /\ histories \in [Chats -> Lists \cup {NoList}]
  /\ stage \in [Turns -> Running \cup {"idle", "done", "dead"}]
  /\ chatOf \in [Turns -> Chats] /\ held \in [Turns -> Lists \cup {NoList}]
  /\ prompt \in [Turns -> Seq(Entries)] /\ during \in [Turns -> SUBSET Turns]
  /\ \A t \in Turns : Len(prompt[t]) <= MaxHistory + 1
  /\ sessionRows \subseteq Chats /\ cutOff \subseteq Chats
  /\ convo \in [Chats -> SUBSET Entries] /\ messages \in [Chats -> SUBSET Entries]
  /\ chatActs \in 0 .. MaxChatActs

(* The two records of a conversation, the Message rows and the JSON of its  *)
(* ConversationSession, say the same, and a session that is gone has left   *)
(* none, unless it was deleted under a running turn (session_service.py:41  *)
(* goes on writing then).                                                   *)
ChatRowsAgree ==
  \A s \in Chats \ cutOff :
    /\ convo[s] = messages[s]
    /\ s \notin sessionRows => messages[s] = {}

Remembered(s) ==
  IF histories[s] = NoList THEN {}
  ELSE {t \in Turns : \E i \in 1 .. Len(heap[histories[s]]) :
                        heap[histories[s]][i] = <<"assistant", t>>}
AnswerAt(s, t) ==
  CHOOSE i \in 1 .. Len(heap[histories[s]]) : heap[histories[s]][i] = <<"assistant", t>>

(* An answer leaves the memory of a session only when the session is reset, *)
(* when the server restarts, when a turn writes back a history that is      *)
(* older than another turn's end (agent_service.py:592), or when the memory *)
(* is full: then the oldest answers go first.                               *)
ForgetsFairly(s, t) ==
  \/ histories'[s] = NoList \/ \E n \in 1 .. MaxChatActs : histories'[s] = ResetList(n)
  \/ \E u \in Turns :
       /\ histories'[s] = TurnList(u)
       /\ \/ during[u] # {}
          \/ /\ Len(heap'[TurnList(u)]) = MaxHistory + 1
             /\ \A v \in Remembered(s) \cap Remembered(s)' : AnswerAt(s, v) > AnswerAt(s, t)

ChatForgetsFairly ==
  [][\A s \in Chats : \A t \in Remembered(s) \ Remembered(s)' : ForgetsFairly(s, t)]_chatVars
=============================================================================
