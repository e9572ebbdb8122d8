----------------------------- MODULE MCLiveness -----------------------------
(***************************************************************************)
(* What must end, for TLC: the file transfers of a batch, the chats of an  *)
(* agent, the calls of tools through the event-stream transport of the MCP *)
(* client and the collection of WAF log files, each under the fairness of  *)
(* its own threads.  They share no state; a behaviour is one of one part,  *)
(* the others stay as they begin.                                          *)
(***************************************************************************)
EXTENDS FileTransfer, McpSse, WafLogs, TLC

CONSTANTS t1, r1, r2, c1, c2, k1, k2, w1

OneTask     == {t1}
TwoRequests == {r1, r2}
BatchOps    == {"batch", "cancel", "destroy"}
TwoChats    == {c1, c2}
TwoCallers  == {k1, k2}
OneWorker   == {w1}
AnyMode     == {"stream", "sync"}

VARIABLES
    part,   \* the part whose behaviour this is
    reg, flag, rem, mine, mode, view, chatEnded, chatPc, turn, tries, empty, left, tool,
    reply, event, said, chatLate, alone

Chat == INSTANCE AgentChat WITH
    Chats <- TwoChats, MaxTurns <- 1, MaxCalls <- 1, MaxApiRetries <- 1,
    Modes <- AnyMode, CanIdle <- FALSE, pc <- chatPc, ended <- chatEnded, late <- chatLate

chatVars == <<reg, flag, rem, mine, mode, view, chatEnded, chatPc, turn, tries, empty, left,
              tool, reply, event, said, chatLate, alone>>

Parts == {"transfer", "chat", "sse", "waf"}

LiveInit ==
    /\ part \in Parts
    /\ Init
    /\ Chat!Init
    /\ SseInit
    /\ WafInit

InTransfer(A) == part = "transfer" /\ A /\ UNCHANGED <<part, chatVars, sseVars, wafVars>>
InChat(A)     == part = "chat" /\ A /\ UNCHANGED <<part, vars, sseVars, wafVars>>
InSse(A)      == part = "sse" /\ A /\ UNCHANGED <<part, vars, chatVars, wafVars>>
InWaf(A)      == part = "waf" /\ A /\ UNCHANGED <<part, vars, chatVars, sseVars>>

LiveNext == InTransfer(Next) \/ InChat(Chat!Next) \/ InSse(SseNext) \/ InWaf(WafNext)

liveVars == <<part, vars, chatVars, sseVars, wafVars>>

(* The fairness of FileTransfer, AgentChat, McpSse and WafLogs.            *)
LiveFairness ==
    /\ \A r \in Requests : WF_liveVars(InTransfer(Continue(r)))
    /\ \A t \in Tasks : WF_liveVars(InTransfer(Submit(t))) /\ WF_liveVars(InTransfer(ExceptCopy(t)))
    /\ \A c \in TwoChats :
          /\ WF_liveVars(InChat(Chat!AgentStepInside(c)))
          /\ WF_liveVars(InChat(Chat!Start(c) \/ Chat!Finish(c)))
    /\ \A c \in SseCallers : WF_liveVars(InSse(SseCaller(c)))
    /\ WF_liveVars(InWaf(Job))

LiveSpec == LiveInit /\ [][LiveNext]_liveVars /\ LiveFairness
-----------------------------------------------------------------------------
(* Every chat whose model calls and tool calls come back ends, its view    *)
(* and its thread, whatever the user and the other chats do (ChatEnds of   *)
(* AgentChat).                                                             *)
ChatsEnd == Chat!ChatEnds
=============================================================================
