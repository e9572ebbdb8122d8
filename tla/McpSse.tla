------------------------------- MODULE McpSse -------------------------------
(***************************************************************************)
(* SseTransport of sysai/mcp/client.py: requests go out as HTTP posts, the *)
(* answers come back on one event stream that a listener thread reads.  It *)
(* puts each answer into _pending under the identifier of its request and  *)
(* wakes the threads that wait; each looks for its own answer and sleeps   *)
(* for at most a second at a time, until its time is up.                   *)
(***************************************************************************)
EXTENDS Naturals

CONSTANTS
    SseCallers,   \* threads of chats that call tools of this server
    MaxSseCalls   \* bound: requests sent

ASSUME SseAssumption == MaxSseCalls \in Nat

SseRequests == 1..MaxSseCalls

VARIABLES
    lastId,     \* _request_id
    stage,      \* stage[c]: where send_request of thread c stands
    myId,       \* myId[c]: the request_id of thread c
    endpoint,   \* whether _message_endpoint is set
    listening,  \* whether the listener thread still reads the stream
    performed,  \* the requests the server has carried out
    stream,     \* answers on their way to the listener, in no order
    answered,   \* the requests the server has answered
    pending,    \* the keys of _pending
    ended,      \* ended[i]: "unasked", "open" or "ended"
    got         \* got[i]: the request whose answer request i returned, 0 if nothing

sseVars == <<lastId, stage, myId, endpoint, listening, performed, stream, answered,
             pending, ended, got>>
remote == <<performed, stream, answered>>

SseInit ==
    /\ lastId = 0
    /\ stage = [c \in SseCallers |-> "idle"]
    /\ myId  = [c \in SseCallers |-> 0]
    /\ endpoint = TRUE /\ listening = TRUE
    /\ performed = {} /\ stream = {} /\ answered = {} /\ pending = {}
    /\ ended = [i \in SseRequests |-> "unasked"]
    /\ got   = [i \in SseRequests |-> 0]

(* send_request returns the answer to request i, or nothing if i is 0.     *)
SseReturn(c, i) ==
    /\ stage' = [stage EXCEPT ![c] = "idle"]
    /\ ended' = [ended EXCEPT ![myId[c]] = "ended"]
    /\ got'   = [got EXCEPT ![myId[c]] = i]

SseTakeId(c) ==
    /\ stage[c] = "idle" /\ endpoint /\ lastId < MaxSseCalls
    /\ lastId' = lastId + 1
    /\ myId'  = [myId EXCEPT ![c] = lastId + 1]
    /\ ended' = [ended EXCEPT ![lastId + 1] = "open"]
    /\ stage' = [stage EXCEPT ![c] = "post"]
    /\ UNCHANGED <<endpoint, listening, remote, pending, got>>

(* The server gets the request, perhaps after its thread has given it up.  *)
SseServerGets(i) ==
    /\ ended[i] # "unasked" /\ i \notin performed
    /\ performed' = performed \cup {i}
    /\ UNCHANGED <<lastId, stage, myId, endpoint, listening, stream, answered, pending, ended, got>>

(* The post: the server says that it has the request, or the post fails,   *)
(* whether the server has got it or not, and the call returns.             *)
Posted(c) ==
    /\ stage[c] = "post" /\ myId[c] \in performed
    /\ stage' = [stage EXCEPT ![c] = "wait"]
    /\ UNCHANGED <<lastId, myId, endpoint, listening, remote, pending, ended, got>>

PostFails(c) ==
    /\ stage[c] = "post"
    /\ SseReturn(c, 0)
    /\ UNCHANGED <<lastId, myId, endpoint, listening, remote, pending>>

(* Takes any answer that is there.                                         *)
TakeAnswer_Any(c) ==
    /\ stage[c] = "wait"
    /\ \E i \in pending : pending' = pending \ {i} /\ SseReturn(c, i)
    /\ UNCHANGED <<lastId, myId, endpoint, listening, remote>>

(* The answer was found under _pending_lock and taken out.                 *)
TakeAnswer(c) ==
    /\ stage[c] = "wait" /\ myId[c] \in pending
    /\ pending' = pending \ {myId[c]}
    /\ SseReturn(c, myId[c])
    /\ UNCHANGED <<lastId, myId, endpoint, listening, remote>>

(* Waits for as long as the listener lives.                                *)
TimeIsUp_OnlyDead(c) ==
    /\ stage[c] = "wait" /\ ~listening
    /\ SseReturn(c, 0)
    /\ UNCHANGED <<lastId, myId, endpoint, listening, remote, pending>>

(* The time is looked at between two waits: an answer that arrives with    *)
(* the last of them stays in _pending for good.                            *)
TimeIsUp(c) ==
    /\ stage[c] = "wait"
    /\ SseReturn(c, 0)
    /\ UNCHANGED <<lastId, myId, endpoint, listening, remote, pending>>

SseServerAnswers(i) ==
    /\ i \in performed \ answered
    /\ answered' = answered \cup {i}
    /\ stream' = IF listening THEN stream \cup {i} ELSE stream
    /\ UNCHANGED <<lastId, stage, myId, endpoint, listening, performed, pending, ended, got>>

(* _handle_sse_event: every answer is kept, also one nobody waits for.     *)
ListenerStores(i) ==
    /\ listening /\ i \in stream
    /\ stream'  = stream \ {i}
    /\ pending' = pending \cup {i}
    /\ UNCHANGED <<lastId, stage, myId, endpoint, listening, performed, answered, ended, got>>

(* The stream ends: after an exception the endpoint is forgotten, after a  *)
(* regular end it is kept, and requests are sent that nobody will answer.  *)
ListenerEnds ==
    /\ listening /\ listening' = FALSE
    /\ endpoint' \in BOOLEAN /\ (endpoint' => endpoint)
    /\ stream' = {}
    /\ UNCHANGED <<lastId, stage, myId, performed, answered, pending, ended, got>>

(* stop() of a reload, or of the removal of the server.                    *)
SseStop ==
    /\ endpoint /\ endpoint' = FALSE
    /\ UNCHANGED <<lastId, stage, myId, listening, remote, pending, ended, got>>

SseCaller(c) == Posted(c) \/ PostFails(c) \/ TakeAnswer(c) \/ TimeIsUp(c)

SseNext ==
    \/ \E c \in SseCallers : SseTakeId(c) \/ SseCaller(c)
    \/ \E i \in SseRequests : SseServerGets(i) \/ SseServerAnswers(i) \/ ListenerStores(i)
    \/ ListenerEnds \/ SseStop

SseSpec == SseInit /\ [][SseNext]_sseVars

(* The thread of a request goes on: a post has a time limit, and so has    *)
(* each wait.  Nothing is asked of the server or of the listener.          *)
SseFairSpec == SseSpec /\ \A c \in SseCallers : WF_sseVars(SseCaller(c))
-----------------------------------------------------------------------------
(* Every variable has its type, the counter stands at the last request,    *)
(* and what is on its way or waits was answered by the server.             *)
SseTypeOK ==
    /\ lastId \in 0..MaxSseCalls
    /\ stage \in [SseCallers -> {"idle", "post", "wait"}]
    /\ myId \in [SseCallers -> 0..MaxSseCalls]
    /\ endpoint \in BOOLEAN /\ listening \in BOOLEAN
    /\ performed \subseteq SseRequests /\ stream \subseteq SseRequests
    /\ answered \subseteq SseRequests /\ pending \subseteq SseRequests
    /\ ended \in [SseRequests -> {"unasked", "open", "ended"}]
    /\ got \in [SseRequests -> 0..MaxSseCalls]
    /\ \A i \in SseRequests : ended[i] = "unasked" <=> i > lastId
    /\ stream \cup pending \subseteq answered /\ answered \subseteq performed

SseOpen == [c \in SseCallers |-> IF stage[c] = "idle" THEN 0 ELSE myId[c]]

SsePromise == INSTANCE ToolCalls WITH Callers <- SseCallers, MaxCalls <- MaxSseCalls,
                                      open <- SseOpen, served <- performed,
                                      status <- ended, answer <- got

(* Whatever order the answers come in, however late, and whenever the      *)
(* listener ends or the transport is stopped, a call returns the server's  *)
(* answer to that call or nothing, and only once.                          *)
SseKeepsPromise == SsePromise!CallSpec

(* Every call ends, also when the server is silent or the listener died.   *)
SseCallEnds == \A c \in SseCallers : stage[c] # "idle" ~> stage[c] = "idle"
=============================================================================
