------------------------------ MODULE ChatTurns ------------------------------
(***************************************************************************)
(* Chat sessions (api/sessions.py), the memory a session's turns share      *)
(* (agent/memory.py) and the turns themselves: POST /api/v1/chat and        *)
(* /api/v1/chat/stream (api/app.py) with the four ways to answer, the       *)
(* autonomous loop (agent/react.py), its fallback, the executed plan, and   *)
(* the titles.  A turn runs from one await to the next in one action: the   *)
(* handlers share one event loop, so other turns, deletions, renames and    *)
(* listings come in between, at the awaits only.                            *)
(*                                                                         *)
(* Messages are rows with growing ids, and both the store and a memory add  *)
(* them at the end and keep them in that order: each is a set of rows.      *)
(***************************************************************************)
EXTENDS Naturals, Sequences, FiniteSets

CONSTANTS
  Turns,      \* requests with a message
  Streams,    \* the turns that are streamed
  Vague,      \* the turns whose message says too little for a title
  Sessions,   \* session ids in the order uuid4 hands them out
  Window,     \* max_messages of a memory
  LoopCalls,  \* bound: tool calls of one autonomous loop
  PlanSteps   \* the number of steps of a plan

ASSUME ChatAssumption == Window \in Nat /\ LoopCalls \in Nat /\ PlanSteps \in Nat

VARIABLES
  title,      \* sessions: the row's title and its source, Fresh before and Gone after
  stored,     \* messages: the rows
  lastId,     \* the AUTOINCREMENT counter of messages
  artifacts,  \* artifacts
  memory,     \* the Memory of each session: cached by the manager, active, messages
  turn,       \* the local state of each turn; alone (history): no other turn of the
              \* session has been under way since it began
  events      \* the types of the events each stream has sent

chatVars == <<title, stored, lastId, artifacts, memory, turn, events>>

Fresh == [text |-> "none", source |-> "fresh"]
Gone  == [text |-> "none", source |-> "deleted"]
Live(s) == title[s].source \notin {"fresh", "deleted"}
NoMemory == [cached |-> FALSE, active |-> FALSE, messages |-> {}]
NewTurn  == [pc |-> "new", sid |-> "none", mode |-> "none", alone |-> FALSE, refine |-> FALSE,
             snapshot |-> 0, calls |-> 0, said |-> {}, fallback |-> FALSE, ran |-> 0, done |-> 0,
             results |-> {}]
Busy == {"planning", "gold", "chat", "react", "steps", "titling"}

ChatInit ==
  /\ title = [s \in Sessions |-> Fresh]
  /\ stored = {} /\ lastId = 0 /\ artifacts = {}
  /\ memory = [s \in Sessions |-> NoMemory]
  /\ turn = [t \in Turns |-> NewTurn]
  /\ events = [t \in Turns |-> <<>>]

-----------------------------------------------------------------------------
(* The store and the memory                                                *)

\* The last and the first n of some messages.
Newest(n, S) == {m \in S : Cardinality({k \in S : k.id > m.id}) < n}
Oldest(n, S) == {m \in S : Cardinality({k \in S : k.id < m.id}) < n}
MessagesOf(s) == {m \in stored : m.sid = s}

\* The messages with these roles that turn t adds to its session.
Written(t, s, roles) ==
  {[id |-> lastId + k, sid |-> s, turn |-> t, role |-> roles[k]] : k \in 1..Len(roles)}

\* Memory.add_message, once per role: an inactive memory drops the message.
AddTo(mem, t, s, roles) ==
  IF mem.active
  THEN /\ memory' = [memory EXCEPT ![s] = [mem EXCEPT !.messages = Newest(Window, @ \cup Written(t, s, roles))]]
       /\ stored' = stored \cup Written(t, s, roles)
       /\ lastId' = lastId + Len(roles)
  ELSE memory' = [memory EXCEPT ![s] = mem] /\ UNCHANGED <<stored, lastId>>

Add(t, roles) == AddTo(memory[turn[t].sid], t, turn[t].sid, roles)
Added(t, roles) == IF memory[turn[t].sid].active THEN Written(t, turn[t].sid, roles) ELSE {}

\* The memory get_or_create_for_message finds or loads: the newest messages of the store.
Loaded(s) ==
  IF memory[s].cached THEN memory[s]
  ELSE [cached |-> TRUE, active |-> TRUE, messages |-> Newest(Window, MessagesOf(s))]

\* save_artifact: a memory that is not the session's any more is refused.
SaveReports(t, ms) ==
  IF memory[turn[t].sid].cached /\ memory[turn[t].sid].active
  THEN artifacts' = artifacts \cup {[sid |-> turn[t].sid, mid |-> m.id, turn |-> t] : m \in ms}
  ELSE UNCHANGED artifacts

-----------------------------------------------------------------------------
(* Titles: a title that is made automatically is the turn it is made from   *)

FirstOne(S) == CHOOSE m \in S : \A k \in S : m.id <= k.id

\* derive_session_title_from_messages over the first two user messages.
Derived(s, msgs) ==
  LET users   == Oldest(2, {m \in msgs : m.sid = s /\ m.role = "user"})
      telling == {m \in users : m.turn \notin Vague}
  IN  FirstOne(IF telling = {} THEN users ELSE telling).turn

\* list_sessions: every session without messages goes, every other automatic title
\* is derived anew.
Refreshed(rows, msgs) ==
  [s \in Sessions |->
     IF rows[s].source \in {"fresh", "deleted", "manual"} THEN rows[s]
     ELSE IF rows[s].text = Derived(s, msgs) THEN rows[s]
     ELSE [text |-> Derived(s, msgs), source |-> "local"]]

ListSessions == title' = Refreshed(title, stored) /\ title' # title
                /\ UNCHANGED <<stored, lastId, artifacts, memory, turn, events>>

\* update_title with only_if_automatic, and without.
Retitle(s, text) == title' = [title EXCEPT ![s] = IF Live(s) THEN [text |-> text, source |-> "llm"] ELSE @]
RetitleAutomatic(s, text) ==
  title' = [title EXCEPT ![s] = IF Live(s) /\ @.source # "manual" THEN [text |-> text, source |-> "llm"] ELSE @]

Rename(s) ==
  /\ Live(s) /\ title[s].source # "manual"
  /\ title' = [title EXCEPT ![s] = [text |-> "manual", source |-> "manual"]]
  /\ UNCHANGED <<stored, lastId, artifacts, memory, turn, events>>

\* delete: the memory is dropped and made inactive before the rows go.
Invalidated(s) == NoMemory

Delete(s) ==
  /\ Live(s)
  /\ title' = [title EXCEPT ![s] = Gone]
  /\ stored' = {m \in stored : m.sid # s}
  /\ artifacts' = {r \in artifacts : r.sid # s}
  /\ memory' = [memory EXCEPT ![s] = Invalidated(s)]
  /\ UNCHANGED <<lastId, turn, events>>

-----------------------------------------------------------------------------
(* The turns                                                               *)

Is(t, pc) == turn[t].pc = pc
FreshSession == CHOOSE s \in Sessions : title[s] = Fresh
Beside(t, s) == {u \in Turns \ {t} : turn[u].sid = s /\ turn[u].pc \in Busy}

\* The end of a turn after these events, or the wait for a better title before it.
FinishTurn(t, changed, evs) ==
  /\ turn' = [turn EXCEPT ![t] = [changed EXCEPT !.pc = IF changed.refine THEN "titling" ELSE "ended"]]
  /\ events' = [events EXCEPT ![t] = @ \o evs \o (IF changed.refine THEN <<>> ELSE <<"done">>)]

\* The reports of these messages are sent as events.
Reported(ms) == IF ms = {} THEN <<>> ELSE <<"artifact">>

\* A message arrives, for a session the browser names or for a new one (an unknown
\* or a draft id is a new one too).  The whole first segment: the user's message is
\* stored, and a stream looks after the title of its first turn.
Begin(t, s) ==
  /\ Is(t, "new")
  /\ Live(s) \/ ((\E f \in Sessions : title[f] = Fresh) /\ s = FreshSession)
  /\ AddTo(Loaded(s), t, s, <<"user">>)
  /\ LET rows  == IF Live(s) THEN title ELSE [title EXCEPT ![s] = [text |-> t, source |-> "local"]]
         first == t \in Streams /\ MessagesOf(s) = {}
     IN  /\ title' = IF t \in Streams THEN Refreshed(rows, stored') ELSE rows
         /\ turn' = [u \in Turns |->
                       IF u = t THEN [turn[t] EXCEPT !.pc = "planning", !.sid = s, !.alone = (Beside(t, s) = {}),
                                                     !.refine = first /\ rows[s].source # "manual"]
                       ELSE IF u \in Beside(t, s) THEN [turn[u] EXCEPT !.alone = FALSE] ELSE turn[u]]
         /\ events' = [events EXCEPT ![t] = IF first THEN <<"title">> ELSE <<>>]
  /\ UNCHANGED artifacts

\* The planner (in a thread) has decided how to answer; the gold briefing is
\* recognised without it.
Decide(t) ==
  /\ Is(t, "planning")
  /\ \/ \E m \in {"chat", "gold"} :
          /\ turn' = [turn EXCEPT ![t] = [@ EXCEPT !.pc = m, !.mode = m]]
          /\ UNCHANGED <<stored, lastId, memory>>
     \/ /\ turn' = [turn EXCEPT ![t] = [@ EXCEPT !.pc = "react", !.mode = "agent",
                                                 !.snapshot = Cardinality(memory[turn[t].sid].messages)]]
        /\ UNCHANGED <<stored, lastId, memory>>
     \/ /\ turn' = [turn EXCEPT ![t] = [@ EXCEPT !.pc = "steps", !.mode = "plan"]]
        /\ Add(t, <<"system">>)
  /\ UNCHANGED <<title, artifacts, events>>

\* The briefing was made: it is a message, a text and a report of the session.
GoldAnswer(t) ==
  /\ Is(t, "gold")
  /\ Add(t, <<"assistant">>)
  /\ SaveReports(t, Added(t, <<"assistant">>))
  /\ turn' = [turn EXCEPT ![t].pc = "ended"]
  /\ events' = [events EXCEPT ![t] = @ \o <<"text", "artifact", "done">>]
  /\ UNCHANGED title

\* The reply of a conversation is complete.
ChatAnswer(t) ==
  /\ Is(t, "chat")
  /\ Add(t, <<"assistant">>)
  /\ FinishTurn(t, turn[t], <<"text">>)
  /\ UNCHANGED <<title, artifacts>>

\* A tool call of the autonomous loop ended, well or not: the reports of those that
\* ended well are linked to the messages they wrote.
ToolEnd(t) ==
  /\ Is(t, "react") /\ turn[t].calls < LoopCalls
  /\ Add(t, <<"tool">>)
  /\ \E said \in {{}, Added(t, <<"tool">>)} :
       turn' = [turn EXCEPT ![t].calls = @ + 1, ![t].said = @ \cup said]
  /\ UNCHANGED <<title, artifacts, events>>

\* The loop ended with an answer; the reports of its successful calls are saved.
AgentAnswer(t) ==
  /\ Is(t, "react")
  /\ Add(t, <<"assistant">>)
  /\ SaveReports(t, turn[t].said)
  /\ FinishTurn(t, turn[t], <<"text">> \o Reported(turn[t].said))
  /\ UNCHANGED title

\* The loop failed: the memory is cut back to what it was before the loop, and the
\* goal is executed as a plan of one step.
CutBack(t) == [memory[turn[t].sid] EXCEPT !.messages = Oldest(turn[t].snapshot, @)]
AgentFail(t) ==
  /\ Is(t, "react")
  /\ AddTo(CutBack(t), t, turn[t].sid, <<"system">>)
  /\ turn' = [turn EXCEPT ![t] = [@ EXCEPT !.pc = "steps", !.fallback = TRUE]]
  /\ UNCHANGED <<title, artifacts, events>>

StepsOf(t) == IF turn[t].fallback THEN 1 ELSE PlanSteps

\* One step of a plan ran (see PlanGraph for their order): a note, and what came of it.
StepEnd(t) ==
  /\ Is(t, "steps") /\ turn[t].ran < StepsOf(t)
  /\ \/ /\ Add(t, <<"system", "tool">>)
        /\ turn' = [turn EXCEPT ![t].ran = @ + 1, ![t].done = @ + 1]
     \/ /\ Add(t, <<"system", "system">>)
        /\ turn' = [turn EXCEPT ![t].ran = @ + 1]
  /\ UNCHANGED <<title, artifacts, events>>

\* _structured_tool_results: the last tool messages of the memory, as many as there
\* are successful steps.
ToolMessages(t) == {m \in memory'[turn[t].sid].messages : m.role = "tool"}
PairedFirst(t) == Oldest(turn[t].done, ToolMessages(t))
Paired(t) == Newest(turn[t].done, ToolMessages(t))

\* The plan is over: its results are paired, the fallback's summary is stored as the
\* answer, and the reports are saved.
StepsAnswer(t) ==
  /\ Is(t, "steps") /\ turn[t].ran = StepsOf(t)
  /\ Add(t, IF turn[t].fallback THEN <<"system", "assistant">> ELSE <<"system">>)
  /\ SaveReports(t, Paired(t))
  /\ FinishTurn(t, [turn[t] EXCEPT !.results = Paired(t)], <<"result">> \o Reported(Paired(t)))
  /\ UNCHANGED title

\* Anything else that goes wrong ends the turn with an error; a stream says so and ends.
FailSilently(t) ==
  /\ turn[t].pc \in {"gold", "chat", "steps"}
  /\ turn' = [turn EXCEPT ![t].pc = "ended"]
  /\ events' = [events EXCEPT ![t] = @ \o <<"error">>]
  /\ UNCHANGED <<title, stored, lastId, artifacts, memory>>
Fail(t) ==
  /\ turn[t].pc \in {"gold", "chat", "steps"}
  /\ turn' = [turn EXCEPT ![t].pc = "ended"]
  /\ events' = [events EXCEPT ![t] = @ \o <<"error", "done">>]
  /\ UNCHANGED <<title, stored, lastId, artifacts, memory>>

\* The wait for the model's title ends: with a title, or without one after 0.25 s.
RefineTitle(t) ==
  /\ Is(t, "titling")
  /\ turn' = [turn EXCEPT ![t].pc = "ended"]
  /\ \/ /\ RetitleAutomatic(turn[t].sid, "llm")
        /\ events' = [events EXCEPT ![t] = @ \o (IF title' # title THEN <<"title", "done">> ELSE <<"done">>)]
     \/ title' = title /\ events' = [events EXCEPT ![t] = @ \o <<"done">>]
  /\ UNCHANGED <<stored, lastId, artifacts, memory>>

\* The browser of a stream goes away: the task is cancelled where it waits.
Disconnect(t) ==
  /\ t \in Streams /\ turn[t].pc \in Busy
  /\ turn' = [turn EXCEPT ![t].pc = "gone"]
  /\ UNCHANGED <<title, stored, lastId, artifacts, memory, events>>

\* The process dies and starts again: the rows stay, and every session has messages.
RestartProcess ==
  /\ memory # [s \in Sessions |-> NoMemory]
  /\ memory' = [s \in Sessions |-> NoMemory]
  /\ turn' = [t \in Turns |-> IF turn[t].pc \in Busy THEN [turn[t] EXCEPT !.pc = "gone"] ELSE turn[t]]
  /\ UNCHANGED <<title, stored, lastId, artifacts, events>>

TurnStep(t) ==
  \/ Decide(t) \/ GoldAnswer(t) \/ ChatAnswer(t) \/ ToolEnd(t) \/ AgentAnswer(t) \/ AgentFail(t)
  \/ StepEnd(t) \/ StepsAnswer(t) \/ Fail(t) \/ RefineTitle(t)

ChatNext ==
  \/ \E t \in Turns : TurnStep(t) \/ Disconnect(t) \/ \E s \in Sessions : Begin(t, s)
  \/ \E s \in Sessions : Rename(s) \/ Delete(s)
  \/ ListSessions \/ RestartProcess

ChatSpec == ChatInit /\ [][ChatNext]_chatVars /\ \A t \in Turns : WF_chatVars(TurnStep(t))

-----------------------------------------------------------------------------
(* Properties                                                              *)

\* A memory never holds more than its window, the ids of messages are unique and have
\* all been handed out, and a stream sends nothing after its done.
ChatTypeOK ==
  /\ \A s \in Sessions : IsFiniteSet(memory[s].messages) /\ Cardinality(memory[s].messages) <= Window
  /\ \A m, k \in stored : m.id = k.id => m = k
  /\ \A m \in stored : m.id \in 1..lastId
  /\ \A t \in Turns : \A i \in 1..Len(events[t]) : events[t][i] = "done" => i = Len(events[t])

\* What a turn still says after its session was deleted is stored nowhere: there is
\* never a message or a report of a session without a row.
NothingOfDeleted ==
  /\ \A m \in stored : Live(m.sid)
  /\ \A r \in artifacts : Live(r.sid)

\* As long as no loop of the session failed, the next turn is answered from the newest
\* messages of the session and no others, also after a restart.
ContextRecent ==
  \A s \in Sessions :
    memory[s].cached /\ (\A t \in Turns : turn[t].sid = s => ~turn[t].fallback)
      => memory[s].messages = Newest(Window, MessagesOf(s))

\* A turn that ended without an error left its answer in the session, unless the
\* session was deleted.
AnswerStored ==
  \A t \in Turns :
    turn[t].pc = "ended" /\ Live(turn[t].sid) /\ (\A i \in 1..Len(events[t]) : events[t][i] # "error")
                         /\ (turn[t].mode # "plan" \/ turn[t].fallback)
      => \E m \in stored : m.turn = t /\ m.role = "assistant"

\* The results of a plan are the messages its own steps wrote (api/app.py, the
\* docstring of _structured_tool_results: there is no other writer, which two turns of
\* one session at once do not keep to), and so is every report saved from them.
PairsOwnResults ==
  /\ \A t \in Turns : turn[t].alone => \A m \in turn[t].results : m.turn = t
  /\ \A r \in artifacts :
       turn[r.turn].alone => \E m \in stored : m.id = r.mid /\ m.turn = r.turn /\ m.sid = r.sid

\* A turn that ended without an error left its answer in the session, the results of
\* a plan are those of its steps, a turn is answered from the newest messages of its
\* session, and what a deleted session still says is stored nowhere.
ChatSafe == ChatTypeOK /\ NothingOfDeleted /\ ContextRecent /\ AnswerStored /\ PairsOwnResults

\* A title a person gave is changed by that person only, whatever listing or
\* refinement is under way when it is given.
ManualStays ==
  \A s \in Sessions : title[s].source = "manual" => title'[s] \in {title[s], Gone}

ManualTitleStays == [][ManualStays]_chatVars

=============================================================================
