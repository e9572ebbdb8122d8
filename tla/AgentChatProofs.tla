-------------------------- MODULE AgentChatProofs --------------------------
(***************************************************************************)
(* Proofs about AgentChat, for any number of chats, any limits and either  *)
(* way of serving them: the type invariant, NoUnapprovedTool, StopHolds    *)
(* and Answerable.                                                         *)
(***************************************************************************)
EXTENDS AgentChat, TLAPS

(***************************************************************************)
(* TypeOK is not inductive by itself: a call that is answered must be one  *)
(* of those left.  A reply can only be an approval of the call in hand     *)
(* because none is left over when the next request is made.                *)
(***************************************************************************)
CallsLeft == \A c \in Chats : pc[c] \in {"asked", "waiting", "run"} => left[c] > 0

NoOldReply == \A c \in Chats :
    pc[c] \in {"off", "turn", "model", "call", "run"} => reply[c] = "none"

RepliesAreApprovals == \A c \in Chats :
    reply[c] = "yes" /\ tool[c] = "risky" => said[c] = "yes"

NotStarted == \A c \in Chats : view[c] \in {"idle", "opened"} => pc[c] = "off"

TypeInv == TypeOK /\ CallsLeft

----------------------------------------------------------------------------
(* The steps of the agent loop.                                            *)

LEMMA GoneType ==
    ASSUME TypeInv, NEW c \in Chats, Gone(c)
    PROVE  /\ pc'    \in [Chats -> {"off", "turn", "model", "call", "asked", "waiting", "run", "done"}]
           /\ turn'  \in [Chats -> 0..MaxTurns]
           /\ tries' \in [Chats -> 0..MaxApiRetries]
           /\ empty' \in [Chats -> 0..MaxEmptyRetries]
           /\ left'  \in [Chats -> 0..MaxCalls]
           /\ tool'  \in [Chats -> {"none", "safe", "risky", "form"}]
           /\ CallsLeft'
BY ChatAssumption DEF TypeInv, TypeOK, CallsLeft, Gone, MaxEmptyRetries

LEMMA AnsweredType ==
    ASSUME TypeInv, NEW c \in Chats, left[c] > 0, Answered(c)
    PROVE  /\ pc'    \in [Chats -> {"off", "turn", "model", "call", "asked", "waiting", "run", "done"}]
           /\ left'  \in [Chats -> 0..MaxCalls]
           /\ tool'  \in [Chats -> {"none", "safe", "risky", "form"}]
           /\ CallsLeft'
<1>1. left[c] \in 0..MaxCalls /\ left[c] - 1 \in 0..MaxCalls
  BY ChatAssumption DEF TypeInv, TypeOK
<1>2. QED
  BY <1>1 DEF TypeInv, TypeOK, CallsLeft, Answered

LEMMA ExecuteType ==
    ASSUME TypeInv, NEW c \in Chats, left[c] > 0,
           NEW t \in {"safe", "risky"}, Execute(c, t)
    PROVE  /\ pc'    \in [Chats -> {"off", "turn", "model", "call", "asked", "waiting", "run", "done"}]
           /\ left'  \in [Chats -> 0..MaxCalls]
           /\ tool'  \in [Chats -> {"none", "safe", "risky", "form"}]
           /\ CallsLeft'
BY DEF TypeInv, TypeOK, CallsLeft, Execute

LEMMA TurnHeadType == ASSUME TypeInv, NEW c \in Chats, TurnHead(c) PROVE TypeInv'
<1> USE ChatAssumption
<1>1. CASE NextTurn(c)
  BY <1>1 DEF TypeInv, TypeOK, CallsLeft, TurnHead, NextTurn, request, views
<1>2. CASE StoppedTurn(c)
  BY <1>2, GoneType DEF TypeInv, TypeOK, TurnHead, StoppedTurn, End, request, views
<1>3. CASE LastTurn(c)
  BY <1>3, GoneType DEF TypeInv, TypeOK, TurnHead, LastTurn, End, request, views
<1>4. QED
  BY <1>1, <1>2, <1>3 DEF TurnHead

LEMMA ModelType == ASSUME TypeInv, NEW c \in Chats, Model(c) PROVE TypeInv'
<1> USE ChatAssumption
<1>1. CASE ApiRetry(c)
  BY <1>1 DEF TypeInv, TypeOK, CallsLeft, Model, ApiRetry, request, views
<1>2. CASE ApiFails(c) \/ StopInStream(c) \/ FinalAnswer(c)
  <2>1. CASE ApiFails(c)
    BY <2>1, GoneType DEF TypeInv, TypeOK, Model, ApiFails, End, request, views
  <2>2. CASE StopInStream(c)
    BY <2>2, GoneType DEF TypeInv, TypeOK, Model, StopInStream, End, request, views
  <2>3. CASE FinalAnswer(c)
    BY <2>3, GoneType DEF TypeInv, TypeOK, Model, FinalAnswer, End, request, views
  <2>4. QED
    BY <1>2, <2>1, <2>2, <2>3
<1>3. CASE EmptyAnswer(c)
  BY <1>3 DEF TypeInv, TypeOK, CallsLeft, Model, EmptyAnswer, MaxEmptyRetries, request, views
<1>4. CASE ToolAnswer(c)
  <2>1. PICK n \in 1..MaxCalls : left' = [left EXCEPT ![c] = n]
    BY <1>4 DEF ToolAnswer
  <2>2. QED
    BY <1>4, <2>1 DEF TypeInv, TypeOK, CallsLeft, Model, ToolAnswer, request, views
<1>5. QED
  BY <1>1, <1>2, <1>3, <1>4 DEF Model

LEMMA CallType == ASSUME TypeInv, NEW c \in Chats, Call(c) PROVE TypeInv'
<1>1. CASE Reject(c)
  BY <1>1, AnsweredType DEF TypeInv, TypeOK, Call, Reject, agents, request, views
<1>2. CASE CallSafe(c)
  BY <1>2, ExecuteType DEF TypeInv, TypeOK, Call, CallSafe, agents, request, views
<1>3. ASSUME NEW t \in {"risky", "form"}, Ask(c, t) PROVE TypeInv'
  BY <1>3 DEF TypeInv, TypeOK, CallsLeft, Call, Ask, agents, views
<1>4. CASE Execute(c, "risky") /\ said' = [said EXCEPT ![c] = "yes"] /\ UNCHANGED <<reply, event, late>>
  BY <1>4, ExecuteType DEF TypeInv, TypeOK, Call, agents, views
<1>5. QED
  BY <1>1, <1>2, <1>3, <1>4 DEF Call, CallRisky

LEMMA BatchDoneType == ASSUME TypeInv, NEW c \in Chats, BatchDone(c) PROVE TypeInv'
<1>1. CASE Stopped(c)
  BY <1>1, GoneType DEF TypeInv, TypeOK, BatchDone, End, agents, request, views
<1>2. CASE ~Stopped(c)
  BY <1>2 DEF TypeInv, TypeOK, CallsLeft, BatchDone, agents, request, views
<1>3. QED
  BY <1>1, <1>2

LEMMA RunType == ASSUME TypeInv, NEW c \in Chats, Run(c) PROVE TypeInv'
<1>1. CASE Answered(c) /\ UNCHANGED <<ended, turn, tries, empty>>
  BY <1>1, AnsweredType DEF TypeInv, TypeOK, CallsLeft, Run, agents, request, views
<1>2. CASE End(c, "error")
  BY <1>2, GoneType DEF TypeInv, TypeOK, Run, End, agents, request, views
<1>3. QED
  BY <1>1, <1>2 DEF Run

LEMMA AskedType == ASSUME TypeInv, NEW c \in Chats, Asked(c) PROVE TypeInv'
<1>1. CASE AutoAnswer(c)
  BY <1>1 DEF TypeInv, TypeOK, CallsLeft, Asked, AutoAnswer, agents, views
<1>2. CASE Refuse(c)
  BY <1>2, AnsweredType DEF TypeInv, TypeOK, CallsLeft, Asked, Refuse, agents, views
<1>3. CASE Register(c) /\ ~Stopped(c)
  BY <1>3 DEF TypeInv, TypeOK, CallsLeft, Asked, Register, agents, views
<1>4. QED
  BY <1>1, <1>2, <1>3 DEF Asked, Register

LEMMA WaitType == ASSUME TypeInv, NEW c \in Chats, Wait(c) PROVE TypeInv'
<1>1. left[c] > 0
  BY DEF TypeInv, CallsLeft, Wait
<1>2. CASE Refuse(c)
  BY <1>1, <1>2, AnsweredType DEF TypeInv, TypeOK, Wait, Refuse, agents, views
<1>3. CASE Wake(c)
  <2>1. late' \in [Chats -> Nat]
    BY <1>3 DEF TypeInv, TypeOK, Wake
  <2>2. CASE tool[c] = "risky"
    BY <1>1, <1>3, <2>1, <2>2, ExecuteType DEF TypeInv, TypeOK, Wait, Wake, agents, views
  <2>3. CASE tool[c] # "risky"
    BY <1>1, <1>3, <2>1, <2>3, AnsweredType DEF TypeInv, TypeOK, Wait, Wake, agents, views
  <2>4. QED
    BY <2>2, <2>3
<1>4. QED
  BY <1>2, <1>3 DEF Wait, WakeRefused, SeesStop, TimedOut

----------------------------------------------------------------------------
(* The requests and the views.                                             *)

LEMMA StopRegisteredType ==
    ASSUME TypeInv, StopRegistered \/ UNCHANGED <<flag, event>>
    PROVE  /\ flag'  \in [Chats -> {"run", "stop"}]
           /\ event' \in [Chats -> {"absent", "unset", "set"}]
<1>1. CASE UNCHANGED <<flag, event>>
  BY <1>1 DEF TypeInv, TypeOK
<1>2. ASSUME NEW a \in reg, StopAgent(a)
      PROVE  /\ flag'  \in [Chats -> {"run", "stop"}]
             /\ event' \in [Chats -> {"absent", "unset", "set"}]
  BY <1>2 DEF TypeInv, TypeOK, StopAgent, SetEvents
<1>3. QED
  BY <1>1, <1>2 DEF StopRegistered

LEMMA RequestType ==
    ASSUME TypeInv, UserStop \/ IdleCleanup \/ \E c \in Chats : Confirm(c) \/ SubmitForm(c)
    PROVE  TypeInv'
<1>1. CASE UserStop
  BY <1>1, StopRegisteredType DEF TypeInv, TypeOK, CallsLeft, UserStop, loop, views
<1>2. CASE IdleCleanup
  BY <1>2, StopRegisteredType DEF TypeInv, TypeOK, CallsLeft, IdleCleanup, loop, views
<1>3. ASSUME NEW c \in Chats, Confirm(c) PROVE TypeInv'
  <2>1. PICK yes \in BOOLEAN, remember \in BOOLEAN :
        /\ rem' = IF remember THEN [rem EXCEPT ![mine[c]] = IF yes THEN "allow" ELSE "deny"]
                              ELSE rem
        /\ said'  = IF yes /\ Pending(c) THEN [said EXCEPT ![c] = "yes"] ELSE said
        /\ reply' = IF Pending(c) THEN [reply EXCEPT ![c] = IF yes THEN "yes" ELSE "no"]
                                  ELSE reply
    BY <1>3 DEF Confirm
  <2>2. rem' \in [Chats -> {"ask", "allow", "deny"}]
    BY <2>1 DEF TypeInv, TypeOK
  <2>3. said' \in [Chats -> {"never", "open", "yes"}] /\ reply' \in [Chats -> {"none", "yes", "no"}]
    BY <2>1 DEF TypeInv, TypeOK
  <2>4. QED
    BY <1>3, <2>2, <2>3 DEF TypeInv, TypeOK, CallsLeft, Confirm, loop, views
<1>4. ASSUME NEW c \in Chats, SubmitForm(c) PROVE TypeInv'
  BY <1>4 DEF TypeInv, TypeOK, CallsLeft, SubmitForm, agents, loop, views
<1>5. QED
  BY <1>1, <1>2, <1>3, <1>4

LEMMA OpenType == ASSUME TypeInv, NEW c \in Chats, Open(c) PROVE TypeInv'
<1>1. /\ mode' \in [Chats -> Modes \cup {"none"}]
      /\ alone' \subseteq Chats
  BY DEF TypeInv, TypeOK, Open
<1>2. /\ reg' \subseteq Chats
      /\ \A a, b \in reg' : a = b
      /\ mine' \in [Chats -> Chats]
      /\ flag' \in [Chats -> {"run", "stop"}]
  <2>1. CASE reg = {}
    BY <2>1 DEF TypeInv, TypeOK, Open
  <2>2. CASE reg # {}
    <3>1. PICK a \in reg : /\ mine' = [mine EXCEPT ![c] = a]
                           /\ flag' = [flag EXCEPT ![a] = "run"]
                           /\ reg' = reg
      BY <2>2 DEF Open
    <3>2. QED
      BY <3>1 DEF TypeInv, TypeOK
  <2>3. QED
    BY <2>1, <2>2
<1>3. QED
  BY <1>1, <1>2 DEF TypeInv, TypeOK, CallsLeft, Open, loop, request

LEMMA ViewType ==
    ASSUME TypeInv, NEW c \in Chats, OpenFails(c) \/ Start(c) \/ Finish(c) \/ Abandon(c)
    PROVE  TypeInv'
<1>1. CASE OpenFails(c)
  BY <1>1 DEF TypeInv, TypeOK, CallsLeft, OpenFails, agents, loop, request
<1>2. CASE Start(c)
  BY <1>2 DEF TypeInv, TypeOK, CallsLeft, Start, agents, request
<1>3. CASE Finish(c)
  BY <1>3, StopRegisteredType DEF TypeInv, TypeOK, CallsLeft, Finish, Close, loop
<1>4. CASE Abandon(c)
  <2>1. StopRegistered /\ view' = [view EXCEPT ![c] = "closed"] /\ reg' = {}
    BY <1>4 DEF Abandon, Close
  <2>2. CASE Gone(c)
    BY <1>4, <2>1, <2>2, StopRegisteredType, GoneType DEF TypeInv, TypeOK, Abandon
  <2>3. CASE UNCHANGED loop
    BY <1>4, <2>1, <2>3, StopRegisteredType DEF TypeInv, TypeOK, CallsLeft, Abandon, loop
  <2>4. QED
    BY <1>4, <2>2, <2>3 DEF Abandon
<1>5. QED
  BY <1>1, <1>2, <1>3, <1>4

LEMMA TypeStep == TypeInv /\ [Next]_vars => TypeInv'
<1> SUFFICES ASSUME TypeInv, [Next]_vars PROVE TypeInv'
  OBVIOUS
<1>1. CASE UserStop \/ IdleCleanup
  BY <1>1, RequestType
<1>2. ASSUME NEW c \in Chats, Confirm(c) \/ SubmitForm(c) PROVE TypeInv'
  BY <1>2, RequestType
<1>3. ASSUME NEW c \in Chats, Open(c) \/ OpenFails(c) \/ Start(c) \/ Finish(c) \/ Abandon(c)
      PROVE  TypeInv'
  BY <1>3, OpenType, ViewType
<1>4. ASSUME NEW c \in Chats, AgentStep(c) PROVE TypeInv'
  BY <1>4, TurnHeadType, ModelType, CallType, BatchDoneType, RunType, AskedType, WaitType
     DEF AgentStep
<1>5. CASE UNCHANGED vars
  BY <1>5 DEF TypeInv, TypeOK, CallsLeft, vars, agents, loop, request, views
<1>6. QED
  BY <1>1, <1>2, <1>3, <1>4, <1>5 DEF Next

LEMMA TypeInvariant == Spec => []TypeInv
<1>1. Init => TypeInv
  BY ChatAssumption DEF Init, TypeInv, TypeOK, CallsLeft, MaxEmptyRetries
<1>2. QED
  BY <1>1, TypeStep, PTL DEF Spec

\* Every variable keeps its type and the loop its limits, for any number of
\* chats of the session.
THEOREM TypeCorrect == Spec => []TypeOK
<1>1. TypeInv => TypeOK
  BY DEF TypeInv
<1>2. QED
  BY <1>1, TypeInvariant, PTL

----------------------------------------------------------------------------
(* NoUnapprovedTool.                                                       *)

Approvals == NoOldReply /\ RepliesAreApprovals /\ NoUnapprovedTool

\* A step of a loop leaves the views and the other loops alone.
LEMMA AgentStepEffect ==
    ASSUME TypeInv, NEW c \in Chats, AgentStep(c)
    PROVE  pc[c] # "off" /\ UNCHANGED view /\ \A d \in Chats \ {c} : pc'[d] = pc[d]
<1>1. CASE TurnHead(c)
  BY <1>1 DEF TurnHead, NextTurn, StoppedTurn, LastTurn, End, Gone, TypeInv, TypeOK, views
<1>2. CASE Model(c)
  BY <1>2 DEF Model, ApiRetry, ApiFails, StopInStream, FinalAnswer, EmptyAnswer, ToolAnswer,
              End, Gone, TypeInv, TypeOK, views
<1>3. CASE Call(c)
  BY <1>3 DEF Call, Reject, CallSafe, CallRisky, Ask, Execute, Answered, TypeInv, TypeOK, views
<1>4. CASE BatchDone(c) \/ Run(c)
  BY <1>4 DEF BatchDone, Run, Answered, End, Gone, TypeInv, TypeOK, views
<1>5. CASE Asked(c)
  BY <1>5 DEF Asked, AutoAnswer, Register, Refuse, Answered, TypeInv, TypeOK, views
<1>6. CASE Wait(c)
  BY <1>6 DEF Wait, Wake, WakeRefused, SeesStop, TimedOut, Refuse, Execute, Answered,
              TypeInv, TypeOK, views
<1>7. QED
  BY <1>1, <1>2, <1>3, <1>4, <1>5, <1>6 DEF AgentStep

LEMMA NotStartedStep == TypeInv /\ NotStarted /\ [Next]_vars => NotStarted'
<1> SUFFICES ASSUME TypeInv, NotStarted, [Next]_vars PROVE NotStarted'
  OBVIOUS
<1>1. CASE UNCHANGED <<view, pc>>
  BY <1>1 DEF NotStarted
<1>2. CASE UserStop \/ IdleCleanup
  BY <1>1, <1>2 DEF UserStop, IdleCleanup, loop, views
<1>3. ASSUME NEW c \in Chats, AgentStep(c) PROVE NotStarted'
  BY <1>3, AgentStepEffect DEF NotStarted
<1>4. ASSUME NEW c \in Chats, Confirm(c) \/ SubmitForm(c) PROVE NotStarted'
  BY <1>1, <1>4 DEF Confirm, SubmitForm, loop, views
<1>5. ASSUME NEW c \in Chats, Open(c) \/ OpenFails(c) PROVE NotStarted'
  BY <1>5 DEF Open, OpenFails, loop, NotStarted, TypeInv, TypeOK
<1>6. ASSUME NEW c \in Chats, Start(c) \/ Finish(c) \/ Abandon(c) PROVE NotStarted'
  BY <1>6 DEF Start, Finish, Abandon, Close, Gone, loop, NotStarted, TypeInv, TypeOK
<1>7. QED
  BY <1>1, <1>2, <1>3, <1>4, <1>5, <1>6 DEF Next, vars, loop, views

LEMMA LoopApprovals ==
    ASSUME TypeInv, Approvals, NEW c \in Chats,
           TurnHead(c) \/ Model(c) \/ BatchDone(c) \/ Run(c)
    PROVE  Approvals'
<1>1. /\ UNCHANGED request
      /\ \A d \in Chats \ {c} : pc'[d] = pc[d] /\ tool'[d] = tool[d]
      /\ pc'[c] \in {"turn", "model", "call", "done"}
      /\ pc[c] \in {"turn", "model", "call", "run"}
      /\ tool'[c] = tool[c] \/ tool'[c] = "none"
  <2>1. CASE TurnHead(c)
    BY <2>1 DEF TurnHead, NextTurn, StoppedTurn, LastTurn, End, Gone, TypeInv, TypeOK
  <2>2. CASE Model(c)
    BY <2>2 DEF Model, ApiRetry, ApiFails, StopInStream, FinalAnswer, EmptyAnswer, ToolAnswer,
                End, Gone, TypeInv, TypeOK
  <2>3. CASE BatchDone(c)
    BY <2>3 DEF BatchDone, End, Gone, TypeInv, TypeOK
  <2>4. CASE Run(c)
    BY <2>4 DEF Run, Answered, End, Gone, TypeInv, TypeOK
  <2>5. QED
    BY <2>1, <2>2, <2>3, <2>4
<1>2. QED
  BY <1>1 DEF Approvals, NoOldReply, RepliesAreApprovals, NoUnapprovedTool, request

LEMMA CallApprovals ==
    ASSUME TypeInv, Approvals, NEW c \in Chats, Call(c)
    PROVE  Approvals'
<1>1. reply[c] = "none" /\ UNCHANGED <<reply>>
  BY DEF Approvals, NoOldReply, Call, Reject, CallSafe, CallRisky, Ask, request
<1>2. CASE Reject(c)
  BY <1>1, <1>2 DEF Reject, Answered, request, TypeInv, TypeOK,
                    Approvals, NoOldReply, RepliesAreApprovals, NoUnapprovedTool
<1>3. CASE CallSafe(c)
  BY <1>1, <1>3 DEF CallSafe, Execute, request, TypeInv, TypeOK,
                    Approvals, NoOldReply, RepliesAreApprovals, NoUnapprovedTool
<1>4. ASSUME NEW t \in {"risky", "form"}, Ask(c, t) PROVE Approvals'
  BY <1>1, <1>4 DEF Ask, TypeInv, TypeOK,
                    Approvals, NoOldReply, RepliesAreApprovals, NoUnapprovedTool
<1>5. CASE Execute(c, "risky") /\ said' = [said EXCEPT ![c] = "yes"]
  BY <1>1, <1>5 DEF Execute, TypeInv, TypeOK,
                    Approvals, NoOldReply, RepliesAreApprovals, NoUnapprovedTool
<1>6. QED
  BY <1>2, <1>3, <1>4, <1>5 DEF Call, CallRisky

LEMMA WaitApprovals ==
    ASSUME TypeInv, Approvals, NEW c \in Chats, Asked(c) \/ Wait(c)
    PROVE  Approvals'
<1>1. CASE Refuse(c)
  BY <1>1 DEF Refuse, Answered, TypeInv, TypeOK,
              Approvals, NoOldReply, RepliesAreApprovals, NoUnapprovedTool
<1>2. CASE AutoAnswer(c) /\ pc[c] = "asked"
  BY <1>2 DEF AutoAnswer, TypeInv, TypeOK,
              Approvals, NoOldReply, RepliesAreApprovals, NoUnapprovedTool
<1>3. CASE Register(c) /\ ~Stopped(c)
  BY <1>3 DEF Register, TypeInv, TypeOK,
              Approvals, NoOldReply, RepliesAreApprovals, NoUnapprovedTool
<1>4. CASE Wake(c) /\ tool[c] = "risky"
  BY <1>4 DEF Wake, Granted, Execute, TypeInv, TypeOK,
              Approvals, NoOldReply, RepliesAreApprovals, NoUnapprovedTool
<1>5. CASE Wake(c) /\ tool[c] # "risky"
  BY <1>5 DEF Wake, Granted, Answered, TypeInv, TypeOK,
              Approvals, NoOldReply, RepliesAreApprovals, NoUnapprovedTool
<1>6. QED
  BY <1>1, <1>2, <1>3, <1>4, <1>5 DEF Asked, Register, Wait, WakeRefused, SeesStop, TimedOut

LEMMA ConfirmApprovals ==
    ASSUME TypeInv, Approvals, NEW c \in Chats, Confirm(c)
    PROVE  Approvals'
<1>1. PICK yes \in BOOLEAN, remember \in BOOLEAN :
      /\ said'  = IF yes /\ Pending(c) THEN [said EXCEPT ![c] = "yes"] ELSE said
      /\ reply' = IF Pending(c) THEN [reply EXCEPT ![c] = IF yes THEN "yes" ELSE "no"]
                                ELSE reply
  BY DEF Confirm
<1>2. UNCHANGED <<pc, tool>>
  BY DEF Confirm, loop
<1>3. CASE ~Pending(c)
  BY <1>1, <1>2, <1>3 DEF Approvals, NoOldReply, RepliesAreApprovals, NoUnapprovedTool
<1>4. CASE Pending(c) /\ yes
  BY <1>1, <1>2, <1>4
     DEF Pending, TypeInv, TypeOK, Approvals, NoOldReply, RepliesAreApprovals, NoUnapprovedTool
<1>5. CASE Pending(c) /\ ~yes
  BY <1>1, <1>2, <1>5
     DEF Pending, TypeInv, TypeOK, Approvals, NoOldReply, RepliesAreApprovals, NoUnapprovedTool
<1>6. QED
  BY <1>3, <1>4, <1>5

LEMMA ApprovalStep == TypeInv /\ NotStarted /\ Approvals /\ [Next]_vars => Approvals'
<1> SUFFICES ASSUME TypeInv, NotStarted, Approvals, [Next]_vars PROVE Approvals'
  OBVIOUS
<1>1. ASSUME UNCHANGED <<pc, tool, reply, said>> PROVE Approvals'
  BY <1>1 DEF Approvals, NoOldReply, RepliesAreApprovals, NoUnapprovedTool
<1>2. CASE UserStop \/ IdleCleanup
  BY <1>1, <1>2 DEF UserStop, IdleCleanup, loop
<1>3. ASSUME NEW c \in Chats, Open(c) \/ OpenFails(c) \/ Finish(c) PROVE Approvals'
  BY <1>1, <1>3 DEF Open, OpenFails, Finish, loop, request
<1>4. ASSUME NEW c \in Chats, Start(c) PROVE Approvals'
  <2>1. pc[c] = "off"
    BY <1>4 DEF NotStarted, Start
  <2>2. reply[c] = "none"
    BY <2>1 DEF Approvals, NoOldReply
  <2>3. QED
    BY <1>4, <2>2 DEF Start, request, TypeInv, TypeOK,
                 Approvals, NoOldReply, RepliesAreApprovals, NoUnapprovedTool
<1>5. ASSUME NEW c \in Chats, Abandon(c) PROVE Approvals'
  <2>1. CASE Gone(c)
    BY <1>5, <2>1 DEF Abandon, Gone, TypeInv, TypeOK,
                      Approvals, NoOldReply, RepliesAreApprovals, NoUnapprovedTool
  <2>2. CASE UNCHANGED loop
    BY <1>1, <1>5, <2>2 DEF Abandon, loop
  <2>3. QED
    BY <1>5, <2>1, <2>2 DEF Abandon
<1>6. ASSUME NEW c \in Chats, SubmitForm(c) PROVE Approvals'
  BY <1>6 DEF SubmitForm, loop, TypeInv, TypeOK,
              Approvals, NoOldReply, RepliesAreApprovals, NoUnapprovedTool
<1>7. ASSUME NEW c \in Chats, Confirm(c) PROVE Approvals'
  BY <1>7, ConfirmApprovals
<1>8. ASSUME NEW c \in Chats, AgentStep(c) PROVE Approvals'
  BY <1>8, LoopApprovals, CallApprovals, WaitApprovals DEF AgentStep
<1>9. CASE UNCHANGED vars
  BY <1>1, <1>9 DEF vars, loop, request
<1>10. QED
  BY <1>2, <1>3, <1>4, <1>5, <1>6, <1>7, <1>8, <1>9 DEF Next

\* No tool that needs a confirmation runs without one: under any interleaving of
\* any number of chats, confirmations, timeouts, stops and disconnections.
THEOREM ToolsAreApproved == Spec => []NoUnapprovedTool
<1>1. Init => Approvals /\ NotStarted
  BY DEF Init, NotStarted, Approvals, NoOldReply, RepliesAreApprovals, NoUnapprovedTool
<1>2. Approvals => NoUnapprovedTool
  BY DEF Approvals
<1>3. QED
  BY <1>1, <1>2, TypeInvariant, NotStartedStep, ApprovalStep, PTL DEF Spec
----------------------------------------------------------------------------
(* StopHolds and Answerable.  Both are about a chat that had the session   *)
(* to itself: from its Open to its end no other view is open (Sole), so    *)
(* that nobody takes its agent over and starts it again.  A thread that    *)
(* goes on after its view has closed works with an agent that no later     *)
(* chat can find (Away, Fresh).                                            *)

IsOpen(c) == view[c] \in {"opened", "reading"}

Fresh == \A c \in Chats : view[c] = "idle" =>
    c \notin reg /\ c \notin alone /\ mine[c] = c /\ \A d \in Chats \ {c} : mine[d] # c

Unborn == \A c \in Chats : pc[c] = "off" => late[c] = 0

Away == \A c \in Chats : view[c] = "closed" /\ pc[c] # "off" => mine[c] \notin reg

Sole == \A c \in alone : IsOpen(c) =>
    (mine[c] \in reg \/ Stopped(c)) /\ \A d \in Chats \ {c} : ~IsOpen(d)

OneLate == \A c \in alone :
    late[c] = 0 \/ (late[c] = 1 /\ Stopped(c) /\ pc[c] # "waiting")

StopInv == NotStarted /\ Fresh /\ Unborn /\ Away /\ Sole /\ OneLate

\* An agent is stopped, never started, and a registered one is stopped for sure.
LEMMA StopRegisteredEffect ==
    ASSUME TypeInv, StopRegistered
    PROVE  \A a \in Chats : /\ flag[a] = "stop" => flag'[a] = "stop"
                            /\ a \in reg => flag'[a] = "stop"
<1>1. CASE reg = {}
  BY <1>1 DEF StopRegistered
<1>2. ASSUME NEW a \in reg, StopAgent(a)
      PROVE  \A b \in Chats : /\ flag[b] = "stop" => flag'[b] = "stop"
                              /\ b \in reg => flag'[b] = "stop"
  BY <1>2 DEF TypeInv, TypeOK, StopAgent
<1>3. QED
  BY <1>1, <1>2 DEF StopRegistered

\* What a step of a loop does to what is counted.
LEMMA AgentStepLate ==
    ASSUME TypeInv, NEW c \in Chats, AgentStep(c)
    PROVE  /\ UNCHANGED <<reg, mine, alone>>
           /\ \A a \in Chats : flag[a] = "stop" => flag'[a] = "stop"
           /\ \A d \in Chats \ {c} : late'[d] = late[d]
           /\ pc'[c] # "off"
           /\ \/ late'[c] = late[c]
              \/ pc[c] = "waiting" /\ Stopped(c) /\ late'[c] = late[c] + 1 /\ pc'[c] = "run"
           /\ pc'[c] = "waiting" => ~Stopped(c)
<1>1. CASE TurnHead(c)
  BY <1>1 DEF TurnHead, NextTurn, StoppedTurn, LastTurn, End, Gone, TypeInv, TypeOK, views
<1>2. CASE Model(c)
  BY <1>2 DEF Model, ApiRetry, ApiFails, StopInStream, FinalAnswer, EmptyAnswer, ToolAnswer,
              End, Gone, TypeInv, TypeOK, views, agents
<1>3. CASE Call(c)
  BY <1>3 DEF Call, Reject, CallSafe, CallRisky, Ask, Execute, Answered, TypeInv, TypeOK, views,
              agents
<1>4. CASE BatchDone(c) \/ Run(c)
  BY <1>4 DEF BatchDone, Run, Answered, End, Gone, TypeInv, TypeOK, views, agents
<1>5. CASE Asked(c)
  BY <1>5 DEF Asked, AutoAnswer, Register, Refuse, Answered, TypeInv, TypeOK, views, agents
<1>6. CASE Wait(c) /\ Refuse(c)
  BY <1>6 DEF Wait, Refuse, Answered, TypeInv, TypeOK, views, agents
<1>7. CASE Wait(c) /\ Wake(c)
  BY <1>7 DEF Wait, Wake, Execute, Answered, TypeInv, TypeOK, views, agents
<1>8. QED
  BY <1>1, <1>2, <1>3, <1>4, <1>5, <1>6, <1>7 DEF AgentStep, Wait, WakeRefused, SeesStop, TimedOut

LEMMA AgentStepStop ==
    ASSUME TypeInv, StopInv, NotStarted', NEW c \in Chats, AgentStep(c)
    PROVE  StopInv'
<1>1. /\ pc[c] # "off" /\ UNCHANGED view
      /\ \A d \in Chats \ {c} : pc'[d] = pc[d]
  BY AgentStepEffect
<1>2. /\ UNCHANGED <<reg, mine, alone>>
      /\ \A a \in Chats : flag[a] = "stop" => flag'[a] = "stop"
      /\ \A d \in Chats \ {c} : late'[d] = late[d]
      /\ pc'[c] # "off"
      /\ \/ late'[c] = late[c]
         \/ pc[c] = "waiting" /\ Stopped(c) /\ late'[c] = late[c] + 1 /\ pc'[c] = "run"
      /\ pc'[c] = "waiting" => ~Stopped(c)
  BY AgentStepLate
<1>3. \A d \in Chats : mine[d] \in Chats /\ (Stopped(d) => Stopped(d)')
  BY <1>2 DEF Stopped, TypeInv, TypeOK
<1>4. Fresh' /\ Away' /\ Unborn'
  BY <1>1, <1>2 DEF StopInv, Fresh, Away, Unborn
<1>5. Sole'
  BY <1>1, <1>2, <1>3 DEF StopInv, Sole, IsOpen, TypeInv, TypeOK
<1>6. OneLate'
  <2>1. SUFFICES ASSUME NEW d \in alone
                 PROVE  late'[d] = 0 \/ (late'[d] = 1 /\ Stopped(d)' /\ pc'[d] # "waiting")
    BY <1>2 DEF OneLate
  <2>2. late[d] = 0 \/ (late[d] = 1 /\ Stopped(d) /\ pc[d] # "waiting")
    BY DEF StopInv, OneLate
  <2>3. d \in Chats
    BY DEF TypeInv, TypeOK
  <2>4. CASE d # c
    BY <1>1, <1>2, <1>3, <2>2, <2>3, <2>4
  <2>5. CASE d = c
    BY <1>1, <1>2, <1>3, <2>2, <2>3, <2>5
  <2>6. QED
    BY <2>4, <2>5
<1>7. QED
  BY <1>4, <1>5, <1>6 DEF StopInv

\* A step that leaves the loops and the views alone, and starts no agent.
LEMMA QuietStop ==
    ASSUME TypeInv, StopInv, UNCHANGED <<pc, mine, view, alone, late>>,
           reg' \subseteq reg,
           \A a \in Chats : flag[a] = "stop" => flag'[a] = "stop",
           \A a \in reg \ reg' : flag'[a] = "stop"
    PROVE  StopInv'
<1>1. \A d \in Chats : mine[d] \in Chats /\ (Stopped(d) => Stopped(d)')
  BY DEF Stopped, TypeInv, TypeOK
<1>2. NotStarted' /\ Fresh' /\ Unborn' /\ Away'
  BY DEF StopInv, NotStarted, Fresh, Unborn, Away
<1>3. Sole'
  <2>1. SUFFICES ASSUME NEW c \in alone, IsOpen(c)
                 PROVE  (mine[c] \in reg' \/ Stopped(c)') /\ \A d \in Chats \ {c} : ~IsOpen(d)
    BY DEF Sole, IsOpen
  <2>2. (mine[c] \in reg \/ Stopped(c)) /\ \A d \in Chats \ {c} : ~IsOpen(d)
    BY <2>1 DEF StopInv, Sole
  <2>3. c \in Chats
    BY DEF TypeInv, TypeOK
  <2>4. QED
    BY <1>1, <2>2, <2>3 DEF Stopped
<1>4. OneLate'
  BY <1>1 DEF StopInv, OneLate, TypeInv, TypeOK
<1>5. QED
  BY <1>2, <1>3, <1>4 DEF StopInv

\* The view of c closes and the session's agent is popped.
LEMMA CloseStop ==
    ASSUME TypeInv, StopInv, NEW c \in Chats, view[c] = "reading",
           view' = [view EXCEPT ![c] = "closed"], reg' = {},
           UNCHANGED <<mine, alone, late>>,
           \A a \in Chats : flag[a] = "stop" => flag'[a] = "stop",
           pc'[c] = pc[c] \/ pc'[c] = "done", \A d \in Chats \ {c} : pc'[d] = pc[d]
    PROVE  StopInv'
<1>1. \A d \in Chats : mine[d] \in Chats /\ (Stopped(d) => Stopped(d)')
  BY DEF Stopped, TypeInv, TypeOK
<1>2. view'[c] = "closed" /\ \A d \in Chats \ {c} : view'[d] = view[d]
  BY DEF TypeInv, TypeOK
<1>3. NotStarted' /\ Fresh' /\ Unborn' /\ Away'
  BY <1>2 DEF StopInv, NotStarted, Fresh, Unborn, Away
<1>4. Sole'
  BY <1>2 DEF StopInv, Sole, IsOpen, TypeInv, TypeOK
<1>5. OneLate'
  BY <1>1 DEF StopInv, OneLate, TypeInv, TypeOK
<1>6. QED
  BY <1>3, <1>4, <1>5 DEF StopInv

LEMMA OpenStop ==
    ASSUME TypeInv, StopInv, NEW c \in Chats, Open(c)
    PROVE  StopInv'
<1>1. /\ view[c] = "idle" /\ view'[c] = "opened"
      /\ \A d \in Chats \ {c} : view'[d] = view[d]
      /\ UNCHANGED <<pc, late>>
  BY DEF Open, loop, TypeInv, TypeOK
<1>2. PICK a \in Chats :
        /\ a \in reg' /\ (a = c \/ a \in reg)
        /\ reg' \subseteq {a}
        /\ mine'[c] = a
        /\ \A d \in Chats \ {c} : mine'[d] = mine[d]
        /\ \A b \in Chats \ {a} : flag'[b] = flag[b]
  <2>1. CASE reg = {}
    <3>1. mine[c] = c
      BY <1>1 DEF StopInv, Fresh
    <3>2. QED
      BY <2>1, <3>1 DEF Open
  <2>2. CASE reg # {}
    <3>1. PICK a \in reg : /\ mine' = [mine EXCEPT ![c] = a]
                           /\ flag' = [flag EXCEPT ![a] = "run"]
                           /\ reg' = reg
      BY <2>2 DEF Open
    <3>2. a \in Chats /\ reg \subseteq {a}
      BY DEF TypeInv, TypeOK
    <3>3. QED
      BY <3>1, <3>2 DEF TypeInv, TypeOK
  <2>3. QED
    BY <2>1, <2>2
<1>3. c \notin reg /\ c \notin alone /\ mine[c] = c /\ pc[c] = "off" /\ late[c] = 0
  BY <1>1 DEF StopInv, Fresh, NotStarted, Unborn
<1>4. \A d \in alone' : d = c \/ (d \in alone /\ view[d] = "closed")
  <2>1. CASE \E d \in Chats : IsOpen(d)
    BY <2>1 DEF Open, IsOpen
  <2>2. CASE \A d \in Chats : ~IsOpen(d)
    <3>1. alone' = alone \cup {c}
      BY <2>2 DEF Open, IsOpen
    <3>2. \A d \in alone : d \in Chats /\ view[d] \in {"idle", "opened", "reading", "closed"}
      BY DEF TypeInv, TypeOK
    <3>3. \A d \in alone : view[d] # "idle"
      BY <3>2 DEF StopInv, Fresh
    <3>4. QED
      BY <2>2, <3>1, <3>2, <3>3 DEF IsOpen
  <2>3. QED
    BY <2>1, <2>2
<1>5. c \in alone' => \A d \in Chats : ~IsOpen(d)
  BY <1>3 DEF Open, IsOpen
<1>6. NotStarted' /\ Unborn'
  BY <1>1, <1>3 DEF StopInv, NotStarted, Unborn
<1>7. Fresh'
  BY <1>1, <1>2, <1>3, <1>4 DEF StopInv, Fresh
<1>8. Away'
  BY <1>1, <1>2, <1>3 DEF StopInv, Away, Fresh
<1>9. Sole'
  <2>1. \A d \in alone' : IsOpen(d)' => d = c
    BY <1>1, <1>4 DEF IsOpen, TypeInv, TypeOK
  <2>2. c \in alone' => \A d \in Chats \ {c} : ~IsOpen(d)'
    BY <1>1, <1>5 DEF IsOpen
  <2>3. mine'[c] \in reg'
    BY <1>2
  <2>4. QED
    BY <2>1, <2>2, <2>3 DEF Sole
<1>10. OneLate'
  <2>1. SUFFICES ASSUME NEW d \in alone'
                 PROVE  late[d] = 0 \/ (late[d] = 1 /\ Stopped(d)' /\ pc[d] # "waiting")
    BY <1>1 DEF OneLate
  <2>2. CASE d = c
    BY <1>3, <2>2
  <2>3. CASE d # c /\ late[d] # 0
    <3>1. d \in alone /\ view[d] = "closed" /\ d \in Chats /\ mine[d] \in Chats
      BY <1>4, <2>3 DEF TypeInv, TypeOK
    <3>2. late[d] = 1 /\ Stopped(d) /\ pc[d] # "waiting"
      BY <2>3, <3>1 DEF StopInv, OneLate
    <3>3. mine[d] \notin reg /\ mine[d] # c
      BY <1>1, <2>3, <3>1 DEF StopInv, Unborn, Away, Fresh
    <3>4. mine'[d] = mine[d] /\ flag'[mine[d]] = flag[mine[d]]
      BY <1>2, <2>3, <3>1, <3>3
    <3>5. QED
      BY <3>2, <3>4 DEF Stopped
  <2>4. QED
    BY <2>2, <2>3
<1>11. QED
  BY <1>6, <1>7, <1>8, <1>9, <1>10 DEF StopInv

LEMMA StopStep == TypeInv /\ StopInv /\ [Next]_vars => StopInv'
<1> SUFFICES ASSUME TypeInv, StopInv, [Next]_vars PROVE StopInv'
  OBVIOUS
<1>1. NotStarted'
  BY NotStartedStep DEF StopInv
<1>2. CASE UserStop \/ IdleCleanup
  <2>1. StopRegistered /\ UNCHANGED <<pc, mine, view, alone, late>> /\ reg' \subseteq reg
    BY <1>2 DEF UserStop, IdleCleanup, loop, views
  <2>2. reg \subseteq Chats
    BY DEF TypeInv, TypeOK
  <2>3. QED
    BY <2>1, <2>2, StopRegisteredEffect, QuietStop
<1>3. ASSUME NEW c \in Chats, Confirm(c) \/ SubmitForm(c) PROVE StopInv'
  <2>1. UNCHANGED <<reg, flag, pc, mine, view, alone, late>>
    BY <1>3 DEF Confirm, SubmitForm, agents, loop, views
  <2>2. QED
    BY <2>1, QuietStop
<1>4. ASSUME NEW c \in Chats, Open(c) PROVE StopInv'
  BY <1>4, OpenStop
<1>5. ASSUME NEW c \in Chats, OpenFails(c) \/ Start(c) PROVE StopInv'
  <2>1. /\ view[c] = "opened" /\ pc[c] = "off"
        /\ view'[c] \in {"closed", "reading"} /\ \A d \in Chats \ {c} : view'[d] = view[d]
        /\ view'[c] = "closed" => pc'[c] = "off"
        /\ pc'[c] # "waiting" /\ \A d \in Chats \ {c} : pc'[d] = pc[d]
        /\ UNCHANGED <<reg, flag, mine, alone, late>>
    BY <1>5 DEF OpenFails, Start, agents, loop, StopInv, NotStarted, TypeInv, TypeOK
  <2>2. late[c] = 0
    BY <2>1 DEF StopInv, Unborn
  <2>3. Fresh' /\ Unborn' /\ Away'
    BY <2>1, <2>2 DEF StopInv, Fresh, Unborn, Away
  <2>4. Sole'
    BY <2>1 DEF StopInv, Sole, IsOpen, Stopped, TypeInv, TypeOK
  <2>5. OneLate'
    BY <2>1, <2>2 DEF StopInv, OneLate, Stopped, TypeInv, TypeOK
  <2>6. QED
    BY <1>1, <2>3, <2>4, <2>5 DEF StopInv
<1>6. ASSUME NEW c \in Chats, Finish(c) \/ Abandon(c) PROVE StopInv'
  <2>1. /\ view[c] = "reading" /\ view' = [view EXCEPT ![c] = "closed"] /\ reg' = {}
        /\ StopRegistered \/ UNCHANGED flag
        /\ UNCHANGED <<mine, alone, late>>
    BY <1>6 DEF Finish, Abandon, Close
  <2>2. Gone(c) \/ UNCHANGED loop
    BY <1>6 DEF Finish, Abandon
  <2>3. /\ pc'[c] = pc[c] \/ pc'[c] = "done"
        /\ \A d \in Chats \ {c} : pc'[d] = pc[d]
    BY <2>2 DEF Gone, loop, TypeInv, TypeOK
  <2>4. \A a \in Chats : flag[a] = "stop" => flag'[a] = "stop"
    BY <2>1, StopRegisteredEffect
  <2>5. QED
    BY <2>1, <2>2, <2>3, <2>4, CloseStop
<1>7. ASSUME NEW c \in Chats, AgentStep(c) PROVE StopInv'
  BY <1>1, <1>7, AgentStepStop
<1>8. CASE UNCHANGED vars
  <2>1. UNCHANGED <<reg, flag, pc, mine, view, alone, late>>
    BY <1>8 DEF vars, agents, loop, views
  <2>2. QED
    BY <2>1, QuietStop
<1>9. QED
  BY <1>2, <1>3, <1>4, <1>5, <1>6, <1>7, <1>8 DEF Next

LEMMA StopInvariant == Spec => []StopInv
<1>1. Init => StopInv
  BY DEF Init, StopInv, NotStarted, Fresh, Unborn, Away, Sole, OneLate
<1>2. QED
  BY <1>1, TypeInvariant, StopStep, PTL DEF Spec

\* However many calls are left and however fast the user confirms them: after
\* the stop at most one more confirmed tool begins, in any number of chats.
THEOREM StopsAreKept == Spec => []StopHolds
<1>1. TypeInv /\ StopInv => StopHolds
  BY DEF StopInv, OneLate, StopHolds
<1>2. QED
  BY <1>1, TypeInvariant, StopInvariant, PTL

\* A chat that waits for the user can be answered, or is about to refuse.
THEOREM WaitingChatsAreAnswerable == Spec => []Answerable
<1>1. TypeInv /\ StopInv => Answerable
  BY DEF StopInv, Sole, IsOpen, Answerable
<1>2. QED
  BY <1>1, TypeInvariant, StopInvariant, PTL
=============================================================================
