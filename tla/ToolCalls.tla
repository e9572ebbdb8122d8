----------------------------- MODULE ToolCalls -----------------------------
(***************************************************************************)
(* What a transport of the MCP client promises to the threads that call    *)
(* tools through it: every call gets an identifier of its own, and ends at *)
(* most once, with what the server answered to that very call or with      *)
(* nothing.  StdioTransport and SseTransport of sysai/mcp/client.py are    *)
(* specified in McpStdio and McpSse and shown to implement this.           *)
(***************************************************************************)
EXTENDS Naturals

CONSTANTS
    Callers,     \* threads of chats that call tools
    MaxCalls     \* bound: calls made in a behaviour

Calls == 1..MaxCalls

VARIABLES
    open,    \* open[c]: the call that thread c waits for, 0 if none
    served,  \* the calls the server has carried out
    status,  \* status[i]: "unasked", "open" or "ended"
    answer   \* answer[i]: the call whose answer call i returned, 0 if nothing

callVars == <<open, served, status, answer>>

CallInit ==
    /\ open = [c \in Callers |-> 0]
    /\ served = {}
    /\ status = [i \in Calls |-> "unasked"]
    /\ answer = [i \in Calls |-> 0]

Ask(c, i) ==
    /\ open[c] = 0 /\ status[i] = "unasked"
    /\ open'   = [open EXCEPT ![c] = i]
    /\ status' = [status EXCEPT ![i] = "open"]
    /\ UNCHANGED <<served, answer>>

(* The server may still carry out a call that its thread has given up.     *)
Serve(i) ==
    /\ status[i] # "unasked" /\ i \notin served
    /\ served' = served \cup {i}
    /\ UNCHANGED <<open, status, answer>>

Close(c) ==
    /\ open[c] # 0
    /\ open'   = [open EXCEPT ![c] = 0]
    /\ status' = [status EXCEPT ![open[c]] = "ended"]
    /\ UNCHANGED served

Answer(c) ==
    /\ open[c] \in served
    /\ answer' = [answer EXCEPT ![open[c]] = open[c]]
    /\ Close(c)

GiveUp(c) ==
    /\ Close(c)
    /\ UNCHANGED answer

CallNext ==
    \/ \E c \in Callers, i \in Calls : Ask(c, i)
    \/ \E i \in Calls : Serve(i)
    \/ \E c \in Callers : Answer(c) \/ GiveUp(c)

CallSpec == CallInit /\ [][CallNext]_callVars
=============================================================================
