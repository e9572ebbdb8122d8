----------------------------- MODULE AgentChat -----------------------------
(***************************************************************************)
(* The chats of one AI session (apps/sysai): the registry of Agent objects *)
(* in views/chat.py, the agent loop of agent/core.py that runs in its own  *)
(* thread, the server-sent-event generator or synchronous view that        *)
(* consumes it, and the requests that confirm a tool, fill in a form or    *)
(* stop the session.                                                       *)
(*                                                                         *)
(* One tool stands for all that need the user's confirmation ("risky"),    *)
(* one for those that do not ("safe"); "form" is request_user_input.  What *)
(* a tool or the model does is left open: any answer, any error.           *)
(***************************************************************************)
EXTENDS Naturals, FiniteSets

CONSTANTS
    Chats,       \* chat requests of the session
    MaxTurns,    \* max_tool_iterations
    MaxCalls,    \* bound: tool calls in one answer of the model
    MaxApiRetries,  \* max_api_retries, 2 in the code
    Modes,       \* how a request may be served: "stream", "sync"
    CanIdle      \* do more than 50 sessions exist, so that idle agents are removed?

ASSUME ChatAssumption ==
    /\ MaxTurns \in Nat \ {0}
    /\ MaxCalls \in Nat \ {0}
    /\ MaxApiRetries \in Nat
    /\ Modes \subseteq {"stream", "sync"}
    /\ CanIdle \in BOOLEAN

MaxEmptyRetries == 1    \* max_empty_response_retries

VARIABLES
    reg,      \* _agents[session]: {} or {a}; an agent is named after the chat that made it
    flag,     \* flag[a]: _stop_flag of agent a, "run" or "stop"
    rem,      \* rem[a]: _remembered_approvals for the risky tool: ask, allow, deny
    mine,     \* mine[c]: the agent object chat c works with
    mode,     \* mode[c]: how chat c is served
    view,     \* view[c]: the view that consumes the events: idle, opened, reading, closed
    ended,    \* ended[c]: the last event the agent loop has emitted: none, stop, error
    pc,       \* pc[c]: where the agent loop of chat c stands
    turn,     \* turn[c]: iteration_count
    tries,    \* tries[c]: api_retry_count
    empty,    \* empty[c]: empty_response_retries
    left,     \* left[c]: tool calls of the last answer that have no result yet
    tool,     \* tool[c]: the tool call in hand: none, safe, risky, form
    reply,    \* reply[c]: entry of the request in hand in _confirm_results / _form_results
    event,    \* event[c]: its threading.Event: absent, unset, set
    said,     \* history: is the last risky call of c approved? never any, open, yes
    late,     \* late[c]: history: confirmed tools begun in c while its agent was stopped
    alone     \* history: chats during which no other chat of the session was open

agents  == <<reg, flag, rem>>
loop    == <<pc, turn, tries, empty, left, tool>>
request == <<reply, event, said>>
views   == <<mine, mode, view, alone>>
vars    == <<agents, loop, request, views, ended, late>>

Init ==
    /\ reg = {} /\ alone = {}
    /\ flag  = [c \in Chats |-> "run"]
    /\ rem   = [c \in Chats |-> "ask"]
    /\ mine  = [c \in Chats |-> c]
    /\ mode  = [c \in Chats |-> "none"]
    /\ view  = [c \in Chats |-> "idle"]
    /\ ended = [c \in Chats |-> "none"]
    /\ pc    = [c \in Chats |-> "off"]
    /\ turn  = [c \in Chats |-> 0]
    /\ tries = [c \in Chats |-> 0]
    /\ empty = [c \in Chats |-> 0]
    /\ left  = [c \in Chats |-> 0]
    /\ tool  = [c \in Chats |-> "none"]
    /\ reply = [c \in Chats |-> "none"]
    /\ event = [c \in Chats |-> "absent"]
    /\ said  = [c \in Chats |-> "never"]
    /\ late  = [c \in Chats |-> 0]

Stopped(c) == flag[mine[c]] = "stop"

----------------------------------------------------------------------------
(* The agent loop, Agent.chat.                                             *)

\* The loop of c is over and its local variables are gone.
Gone(c) ==
    /\ pc'    = [pc EXCEPT ![c] = "done"]
    /\ turn'  = [turn EXCEPT ![c] = 0]
    /\ tries' = [tries EXCEPT ![c] = 0]
    /\ empty' = [empty EXCEPT ![c] = 0]
    /\ left'  = [left EXCEPT ![c] = 0]
    /\ tool'  = [tool EXCEPT ![c] = "none"]

\* The loop of c ends with event e.
End(c, e) ==
    /\ ended' = [ended EXCEPT ![c] = e]
    /\ Gone(c)

\* Mutant: the limit allows one turn more.
NextTurn_OneMore(c) ==
    /\ turn[c] <= MaxTurns
    /\ ~Stopped(c)
    /\ turn'  = [turn EXCEPT ![c] = @ + 1]
    /\ pc'    = [pc EXCEPT ![c] = "model"]
    /\ UNCHANGED <<tries, empty, left, tool, flag, ended>>

\* The head of the while loop.
NextTurn(c) ==
    /\ turn[c] < MaxTurns
    /\ ~Stopped(c)
    /\ turn'  = [turn EXCEPT ![c] = @ + 1]
    /\ pc'    = [pc EXCEPT ![c] = "model"]
    /\ UNCHANGED <<tries, empty, left, tool, flag, ended>>

StoppedTurn(c) ==
    /\ turn[c] < MaxTurns
    /\ Stopped(c)
    /\ End(c, "stop")
    /\ UNCHANGED flag

\* The limit is reached: the loop stops its own agent.
LastTurn(c) ==
    /\ turn[c] >= MaxTurns
    /\ flag' = [flag EXCEPT ![mine[c]] = "stop"]
    /\ End(c, "stop")

TurnHead(c) ==
    /\ pc[c] = "turn"
    /\ NextTurn(c) \/ StoppedTurn(c) \/ LastTurn(c)
    /\ UNCHANGED <<reg, rem, request, views, late>>

\* A recoverable error, or an overflow of the context: the call is repeated.
ApiRetry(c) ==
    /\ tries[c] < MaxApiRetries
    /\ tries' = [tries EXCEPT ![c] = @ + 1]
    /\ UNCHANGED <<flag, pc, turn, ended, empty, left, tool>>

\* An error that is not, or one too many.
ApiFails(c) == End(c, "error") /\ UNCHANGED flag

\* A chunk arrives after the stop.
StopInStream(c) == Stopped(c) /\ End(c, "stop") /\ UNCHANGED flag

\* An answer without tool calls (also: cut off by the length limit, or nothing
\* at all after the third overflow).  The loop is left by a break, so that in
\* its last turn the agent is stopped as at the limit; the generator of a
\* synchronous chat gets no further than its stop event.
FinalAnswer(c) ==
    /\ flag' = IF turn[c] >= MaxTurns /\ mode[c] = "stream"
               THEN [flag EXCEPT ![mine[c]] = "stop"] ELSE flag
    /\ End(c, "stop")

\* Only reasoning: the model is asked once more for an answer.
EmptyAnswer(c) ==
    /\ empty[c] < MaxEmptyRetries
    /\ empty' = [empty EXCEPT ![c] = @ + 1]
    /\ tries' = [tries EXCEPT ![c] = 0]
    /\ pc'    = [pc EXCEPT ![c] = "turn"]
    /\ UNCHANGED <<flag, ended, turn, left, tool>>

\* An answer with tool calls; api_retry_count starts anew in the next turn.
ToolAnswer(c) ==
    /\ \E n \in 1..MaxCalls : left' = [left EXCEPT ![c] = n]
    /\ tries' = [tries EXCEPT ![c] = 0]
    /\ pc'    = [pc EXCEPT ![c] = "call"]
    /\ UNCHANGED <<flag, ended, turn, empty, tool>>

Model(c) ==
    /\ pc[c] = "model"
    /\ \/ ApiRetry(c) \/ ApiFails(c) \/ StopInStream(c)
       \/ FinalAnswer(c) \/ EmptyAnswer(c) \/ ToolAnswer(c)
    /\ UNCHANGED <<reg, rem, request, views, late>>

----------------------------------------------------------------------------
(* The tool calls of one answer.                                           *)

\* The call in hand has its tool message; the loop goes on to the next one.
Answered(c) ==
    /\ left' = [left EXCEPT ![c] = @ - 1]
    /\ tool' = [tool EXCEPT ![c] = "none"]
    /\ pc'   = [pc EXCEPT ![c] = "call"]

\* No name, arguments that do not parse, or blocked by the guardrail.
Reject(c) == Answered(c) /\ UNCHANGED <<request, late>>

\* _execute_tool is called for tool t.
Execute(c, t) ==
    /\ tool' = [tool EXCEPT ![c] = t]
    /\ pc'   = [pc EXCEPT ![c] = "run"]
    /\ UNCHANGED left

CallSafe(c) == Execute(c, "safe") /\ UNCHANGED <<request, late>>

\* tool_confirm or form_request is emitted.
Ask(c, t) ==
    /\ tool'  = [tool EXCEPT ![c] = t]
    /\ said'  = IF t = "risky" THEN [said EXCEPT ![c] = "open"] ELSE said
    /\ pc'    = [pc EXCEPT ![c] = "asked"]
    /\ UNCHANGED <<left, reply, event, late>>

\* The remembered choice of this agent decides, or the user is asked.
CallRisky(c) ==
    \/ /\ rem[mine[c]] = "allow"
       /\ Execute(c, "risky")
       /\ said' = [said EXCEPT ![c] = "yes"]
       /\ UNCHANGED <<reply, event, late>>
    \/ rem[mine[c]] = "deny" /\ Reject(c)
    \/ rem[mine[c]] = "ask" /\ Ask(c, "risky")

Call(c) ==
    /\ pc[c] = "call" /\ left[c] > 0
    /\ Reject(c) \/ CallSafe(c) \/ CallRisky(c) \/ Ask(c, "form")
    /\ UNCHANGED <<agents, turn, tries, empty, views, ended>>

\* After the last call of the answer.
BatchDone(c) ==
    /\ pc[c] = "call" /\ left[c] = 0
    /\ IF Stopped(c)
       THEN End(c, "stop")
       ELSE /\ pc' = [pc EXCEPT ![c] = "turn"]
            /\ UNCHANGED <<ended, turn, tries, empty, left, tool>>
    /\ UNCHANGED <<agents, request, views, late>>

\* _execute_tool returns, or what follows it raises.
Run(c) ==
    /\ pc[c] = "run"
    /\ \/ Answered(c) /\ UNCHANGED <<ended, turn, tries, empty>>
       \/ End(c, "error")
    /\ UNCHANGED <<agents, request, views, late>>

----------------------------------------------------------------------------
(* _wait_for_confirm and _wait_for_form.                                   *)

\* The request is over; a reply left in the table is never read, the next
\* request has another id.
Refuse(c) ==
    /\ Answered(c)
    /\ event' = [event EXCEPT ![c] = "absent"]
    /\ reply' = [reply EXCEPT ![c] = "none"]
    /\ UNCHANGED <<said, late>>

\* The synchronous view answers between the yield and the wait.
AutoAnswer(c) ==
    /\ mode[c] = "sync" /\ reply[c] = "none"
    /\ reply' = [reply EXCEPT ![c] = "yes"]
    /\ said'  = IF tool[c] = "risky" THEN [said EXCEPT ![c] = "yes"] ELSE said
    /\ UNCHANGED <<pc, left, tool, event, late>>

\* Mutant: the first wait comes before the first look at the flag.
Register_NoFlag(c) ==
    /\ mode[c] = "stream" \/ reply[c] # "none"
    /\ event' = [event EXCEPT ![c] = "unset"]
    /\ pc' = [pc EXCEPT ![c] = "waiting"]
    /\ UNCHANGED <<left, tool, reply, said, late>>

\* The event is created and the flag looked at for the first time.
Register(c) ==
    /\ mode[c] = "stream" \/ reply[c] # "none"
    /\ \/ Stopped(c) /\ Refuse(c)
       \/ /\ ~Stopped(c)
          /\ event' = [event EXCEPT ![c] = "unset"]
          /\ pc' = [pc EXCEPT ![c] = "waiting"]
          /\ UNCHANGED <<left, tool, reply, said, late>>

Asked(c) ==
    /\ pc[c] = "asked"
    /\ AutoAnswer(c) \/ Register(c)
    /\ UNCHANGED <<agents, turn, tries, empty, views, ended>>

\* Mutant: a missing reply counts as an approval.
Granted_Default(c) == event[c] = "set" /\ reply[c] # "no"

Granted(c) == event[c] = "set" /\ reply[c] = "yes"

\* The event is set: the stored reply decides, none counts as a refusal.
Wake(c) ==
    /\ Granted(c)
    /\ event' = [event EXCEPT ![c] = "absent"]
    /\ reply' = [reply EXCEPT ![c] = "none"]
    /\ UNCHANGED said
    /\ IF tool[c] = "risky" THEN Execute(c, "risky") ELSE Answered(c)
    /\ late' = IF tool[c] = "risky" /\ Stopped(c) THEN [late EXCEPT ![c] = @ + 1] ELSE late

WakeRefused(c) == event[c] = "set" /\ ~Granted(c) /\ Refuse(c)

\* The flag is seen at the next half second.
SeesStop(c) == Stopped(c) /\ Refuse(c)

\* Mutant: a confirmation waits for ever.
TimedOut_FormOnly(c) == event[c] = "unset" /\ tool[c] = "form" /\ Refuse(c)

\* 660 seconds, 1800 for a form, without an event.
TimedOut(c) == event[c] = "unset" /\ Refuse(c)

Wait(c) ==
    /\ pc[c] = "waiting"
    /\ Wake(c) \/ WakeRefused(c) \/ SeesStop(c) \/ TimedOut(c)
    /\ UNCHANGED <<agents, turn, tries, empty, views, ended>>

AgentStep(c) ==
    TurnHead(c) \/ Model(c) \/ Call(c) \/ BatchDone(c) \/ Run(c) \/ Asked(c) \/ Wait(c)

----------------------------------------------------------------------------
(* The requests that reach an agent through the registry.                  *)

\* The events of every request that waits on agent a are set.
SetEvents(a) ==
    event' = [c \in Chats |-> IF mine[c] = a /\ event[c] = "unset" THEN "set" ELSE event[c]]

\* Agent.stop.
StopAgent(a) == flag' = [flag EXCEPT ![a] = "stop"] /\ SetEvents(a)

\* _stop_agent: whatever agent the session has now.
StopRegistered ==
    IF reg = {} THEN UNCHANGED <<flag, event>> ELSE \E a \in reg : StopAgent(a)

UserStop ==
    /\ reg # {}
    /\ StopRegistered
    /\ UNCHANGED <<reg, rem, loop, reply, said, views, ended, late>>

\* Mutant: idle agents are dropped but not stopped.
IdleCleanup_NoStop ==
    /\ CanIdle /\ reg # {}
    /\ reg' = {}
    /\ UNCHANGED <<flag, event, rem, loop, reply, said, views, ended, late>>

\* _cleanup_idle_agents: an hour after the agent was last fetched.
IdleCleanup ==
    /\ CanIdle /\ reg # {}
    /\ StopRegistered
    /\ reg' = {}
    /\ UNCHANGED <<rem, loop, reply, said, views, ended, late>>

\* Is the last confirmation of c still undecided?
Pending(c) == tool[c] = "risky" /\ pc[c] \in {"asked", "waiting"}

\* confirm_tool; a late answer is stored and remembered all the same.
Confirm(c) ==
    /\ mode[c] = "stream" /\ said[c] # "never" /\ mine[c] \in reg
    /\ \E yes, remember \in BOOLEAN :
        /\ rem' = IF remember THEN [rem EXCEPT ![mine[c]] = IF yes THEN "allow" ELSE "deny"]
                              ELSE rem
        /\ said'  = IF yes /\ Pending(c) THEN [said EXCEPT ![c] = "yes"] ELSE said
        /\ reply' = IF Pending(c) THEN [reply EXCEPT ![c] = IF yes THEN "yes" ELSE "no"]
                                  ELSE reply
    /\ event' = IF Pending(c) /\ event[c] = "unset" THEN [event EXCEPT ![c] = "set"] ELSE event
    /\ UNCHANGED <<reg, flag, loop, views, ended, late>>

\* submit_form.
SubmitForm(c) ==
    /\ mode[c] = "stream" /\ mine[c] \in reg
    /\ tool[c] = "form" /\ pc[c] \in {"asked", "waiting"}
    /\ reply' = [reply EXCEPT ![c] = "yes"]
    /\ event' = IF event[c] = "unset" THEN [event EXCEPT ![c] = "set"] ELSE event
    /\ UNCHANGED <<agents, loop, said, views, ended, late>>

----------------------------------------------------------------------------
(* The views.                                                              *)

\* _get_or_create_agent: an agent found is used again and no longer stopped.
Open(c) ==
    /\ view[c] = "idle"
    /\ view' = [view EXCEPT ![c] = "opened"]
    /\ \E k \in Modes : mode' = [mode EXCEPT ![c] = k]
    /\ IF reg = {}
       THEN /\ reg' = {c}
            /\ UNCHANGED <<mine, flag>>
       ELSE \E a \in reg :
            /\ mine' = [mine EXCEPT ![c] = a]
            /\ flag' = [flag EXCEPT ![a] = "run"]
            /\ UNCHANGED reg
    /\ alone' = IF \E d \in Chats : view[d] \in {"opened", "reading"}
                THEN {d \in alone : view[d] = "closed"} ELSE alone \cup {c}
    /\ UNCHANGED <<rem, loop, request, ended, late>>

\* Reading the history raises before the try: the agent stays registered.
OpenFails(c) ==
    /\ view[c] = "opened"
    /\ view' = [view EXCEPT ![c] = "closed"]
    /\ UNCHANGED <<agents, loop, request, mine, mode, alone, ended, late>>

\* The thread is started, or the synchronous loop begins.
Start(c) ==
    /\ view[c] = "opened"
    /\ view' = [view EXCEPT ![c] = "reading"]
    /\ pc'   = [pc EXCEPT ![c] = "turn"]
    /\ UNCHANGED <<agents, turn, tries, empty, left, tool, request, mine, mode, alone, ended, late>>

\* The finally clause, with or without _stop_agent; _cleanup_agent pops the
\* session's agent, whichever chat it belongs to.
Close(c, stopIt) ==
    /\ view' = [view EXCEPT ![c] = "closed"]
    /\ reg'  = {}
    /\ IF stopIt THEN StopRegistered ELSE UNCHANGED <<flag, event>>

\* The view reads the last event of the loop.
Finish(c) ==
    /\ view[c] = "reading" /\ ended[c] # "none"
    /\ Close(c, mode[c] = "sync" \/ ended[c] = "error")
    /\ UNCHANGED <<rem, loop, reply, said, mine, mode, alone, ended, late>>

\* The client disconnects, or saving a message raises: the thread of a stream
\* goes on, a synchronous loop is abandoned with its view.
Abandon(c) ==
    /\ view[c] = "reading"
    /\ mode[c] = "stream" \/ pc[c] # "waiting"
    /\ Close(c, TRUE)
    /\ IF mode[c] = "sync" THEN Gone(c) ELSE UNCHANGED loop
    /\ UNCHANGED <<rem, reply, said, mine, mode, alone, ended, late>>

Next ==
    \/ UserStop \/ IdleCleanup
    \/ \E c \in Chats :
        \/ Open(c) \/ OpenFails(c) \/ Start(c) \/ Finish(c) \/ Abandon(c)
        \/ Confirm(c) \/ SubmitForm(c)
        \/ AgentStep(c)

Spec == Init /\ [][Next]_vars

\* A chat waits for the model provider or for a tool.  Neither need ever come
\* back: a provider may stream without end, and the read of a stdio MCP tool
\* has no time limit.
Outside(c) == pc[c] \in {"model", "run"}

AgentStepInside(c) == ~Outside(c) /\ AgentStep(c)

\* Both the thread and the view run; users, clients, the provider and the tools
\* may do nothing.
FairSpec ==
    /\ Spec
    /\ \A c \in Chats : WF_vars(AgentStepInside(c)) /\ WF_vars(Start(c) \/ Finish(c))

----------------------------------------------------------------------------
(* Properties.                                                             *)

\* Every variable has its type; the counters stay within the limits the loop
\* keeps (max_tool_iterations, the two retries, one empty answer).
TypeOK ==
    /\ reg \subseteq Chats
    /\ \A a, b \in reg : a = b
    /\ alone \subseteq Chats
    /\ flag  \in [Chats -> {"run", "stop"}]
    /\ rem   \in [Chats -> {"ask", "allow", "deny"}]
    /\ mine  \in [Chats -> Chats]
    /\ mode  \in [Chats -> Modes \cup {"none"}]
    /\ view  \in [Chats -> {"idle", "opened", "reading", "closed"}]
    /\ ended \in [Chats -> {"none", "stop", "error"}]
    /\ pc    \in [Chats -> {"off", "turn", "model", "call", "asked", "waiting", "run", "done"}]
    /\ turn  \in [Chats -> 0..MaxTurns]
    /\ tries \in [Chats -> 0..MaxApiRetries]
    /\ empty \in [Chats -> 0..MaxEmptyRetries]
    /\ left  \in [Chats -> 0..MaxCalls]
    /\ tool  \in [Chats -> {"none", "safe", "risky", "form"}]
    /\ reply \in [Chats -> {"none", "yes", "no"}]
    /\ event \in [Chats -> {"absent", "unset", "set"}]
    /\ said  \in [Chats -> {"never", "open", "yes"}]
    /\ late  \in [Chats -> Nat]

\* A tool that needs confirmation runs only after the user (or, in a
\* synchronous chat, its view) has approved this very request, or the tool with
\* "remember" on this agent: no timeout, stop, disconnection, refusal or second
\* chat lets it run (_confirm_results.pop(confirm_id, False)).
NoUnapprovedTool ==
    \A c \in Chats : pc[c] = "run" /\ tool[c] = "risky" => said[c] = "yes"

\* Once an agent is stopped a chat begins at most one more tool that the user
\* confirms, the one whose request was open when the stop came, however many
\* calls of the answer are left and however fast the user confirms them:
\* _wait_for_confirm looks at the flag before it waits.  (A second chat of the
\* session, which takes the agent over and resets its flag, lifts this.)
StopHolds == \A c \in alone : late[c] <= 1

\* While a chat waits for the user and its stream is read, the answer reaches
\* it: its agent is the registered one, or stopped and about to refuse.  (A
\* second chat of the session lifts this too: its end pops the agent.)
Answerable ==
    \A c \in alone :
        pc[c] = "waiting" /\ view[c] = "reading" => mine[c] \in reg \/ Stopped(c)

\* Every chat whose model calls and tool calls come back ends, its view and its
\* thread, whatever the user and the other chats do: the loop is bounded, every
\* wait times out, and a thread whose client has gone still finishes.
ChatEnds ==
    \A c \in Chats :
        []<>~Outside(c) =>
            (view[c] = "reading" ~> view[c] = "closed" /\ pc[c] = "done")

\* VIOLATED BY THE CODE.  What the synchronous view answers in the user's stead
\* ("automatically submitted in synchronous mode") is accepted, unless the
\* agent is stopped.  confirm_tool and submit_form run before the wait has
\* registered its event, so no event is ever set and the request times out.
AutoAnswerCounts ==
    [][\A c \in Chats :
        mode[c] = "sync" /\ pc[c] = "waiting" /\ reply[c] = "yes" /\ ~Stopped(c)
            => ~Refuse(c)]_vars
=============================================================================
