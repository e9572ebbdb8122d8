------------------------------ MODULE McpStdio ------------------------------
(***************************************************************************)
(* StdioTransport of sysai/mcp/client.py: the threads of all chats talk to *)
(* one server process through its stdin and stdout.  A lock guards only    *)
(* the request counter.  A message is written in two writes, header and    *)
(* content, and read header line by header line, byte by byte, and then    *)
(* the content, on unbuffered pipes: the messages of two threads mix, a    *)
(* read of the content may come back short, and whoever reads the reply of *)
(* another thread drops it.  No part of a message is a message.  A read    *)
(* does not end before data arrive or the process does.                    *)
(***************************************************************************)
EXTENDS Naturals, Sequences

CONSTANTS
    StdioCallers,   \* threads of chats that call tools of this server
    MaxStdioCalls   \* bound: requests sent

ASSUME StdioAssumption == MaxStdioCalls \in Nat

Requests == 1..MaxStdioCalls
Part     == {"header", "content"} \X Requests

VARIABLES
    requestId,    \* _request_id
    phase,        \* phase[c]: where send_request of thread c stands
    id,           \* id[c]: the request_id of thread c
    stdin,        \* what was written to the server and not read by it
    stdout,       \* what the server has written and nobody read
    shredded,     \* whether the first part on stdout has lost its first bytes
    deaf,         \* whether the server has lost track of the messages
    alive,        \* whether the server process runs
    carriedOut,   \* the requests the server has carried out
    replied,      \* those it has replied to
    fate,         \* fate[i]: "unasked", "open" or "ended"
    taken         \* taken[i]: the request whose reply request i returned, 0 if nothing

stdioVars == <<requestId, phase, id, stdin, stdout, shredded, deaf, alive,
               carriedOut, replied, fate, taken>>
server == <<deaf, alive, carriedOut, replied>>

StdioInit ==
    /\ requestId = 0
    /\ phase  = [c \in StdioCallers |-> "idle"]
    /\ id     = [c \in StdioCallers |-> 0]
    /\ stdin = <<>> /\ stdout = <<>>
    /\ shredded = FALSE /\ deaf = FALSE /\ alive = TRUE
    /\ carriedOut = {} /\ replied = {}
    /\ fate  = [i \in Requests |-> "unasked"]
    /\ taken = [i \in Requests |-> 0]

Phase(c, s) == phase' = [phase EXCEPT ![c] = s]

(* send_request returns the reply to request i, or nothing if i is 0.      *)
Return(c, i) ==
    /\ Phase(c, "idle")
    /\ fate'  = [fate EXCEPT ![id[c]] = "ended"]
    /\ taken' = [taken EXCEPT ![id[c]] = i]

(* Takes the number without moving the counter.                            *)
TakeId_NoCount(c) ==
    /\ phase[c] = "idle" /\ alive /\ requestId < MaxStdioCalls
    /\ UNCHANGED requestId
    /\ id' = [id EXCEPT ![c] = requestId + 1]
    /\ fate' = [fate EXCEPT ![requestId + 1] = "open"]
    /\ Phase(c, "header")
    /\ UNCHANGED <<stdin, stdout, shredded, server, taken>>

TakeId(c) ==
    /\ phase[c] = "idle" /\ alive /\ requestId < MaxStdioCalls
    /\ requestId' = requestId + 1
    /\ id' = [id EXCEPT ![c] = requestId + 1]
    /\ fate' = [fate EXCEPT ![requestId + 1] = "open"]
    /\ Phase(c, "header")
    /\ UNCHANGED <<stdin, stdout, shredded, server, taken>>

(* _write_message: two writes, on a broken pipe an exception.              *)
WriteHeader(c) ==
    /\ phase[c] = "header" /\ alive
    /\ stdin' = Append(stdin, <<"header", id[c]>>)
    /\ Phase(c, "content")
    /\ UNCHANGED <<requestId, id, stdout, shredded, server, fate, taken>>

WriteContent(c) ==
    /\ phase[c] = "content" /\ alive
    /\ stdin' = Append(stdin, <<"content", id[c]>>)
    /\ Phase(c, "read")
    /\ UNCHANGED <<requestId, id, stdout, shredded, server, fate, taken>>

WriteFails(c) ==
    /\ phase[c] \in {"header", "content"} /\ ~alive
    /\ Return(c, 0)
    /\ UNCHANGED <<requestId, id, stdin, stdout, shredded, server>>

(* The header of a message.                                                *)
ReadHeader(c) ==
    /\ phase[c] = "read" /\ ~shredded /\ stdout # <<>> /\ Head(stdout)[1] = "header"
    /\ stdout' = Tail(stdout)
    /\ Phase(c, "body")
    /\ UNCHANGED <<requestId, id, stdin, shredded, server, fate, taken>>

(* The content: the thread reads as many bytes as its header said.  It is  *)
(* the content of that message, or, if another thread has read that, of a  *)
(* message of the same length.                                             *)
ReadOwn(c) ==
    /\ phase[c] = "body" /\ ~shredded /\ stdout # <<>>
    /\ Head(stdout) = <<"content", id[c]>>
    /\ stdout' = Tail(stdout)
    /\ Return(c, Head(stdout)[2])
    /\ UNCHANGED <<requestId, id, stdin, shredded, server>>

(* Takes whatever reply it reads for its own.                              *)
ReadOther_Unchecked(c) ==
    /\ phase[c] = "body" /\ ~shredded /\ stdout # <<>>
    /\ Head(stdout)[1] = "content" /\ Head(stdout)[2] # id[c]
    /\ stdout' = Tail(stdout)
    /\ Return(c, Head(stdout)[2])
    /\ UNCHANGED <<requestId, id, stdin, shredded, server>>

(* A reply to somebody else is dropped; the time is looked at, and the     *)
(* next message read, only here.                                           *)
ReadOther(c) ==
    /\ phase[c] = "body" /\ ~shredded /\ stdout # <<>>
    /\ Head(stdout)[1] = "content" /\ Head(stdout)[2] # id[c]
    /\ stdout' = Tail(stdout)
    /\ \/ Phase(c, "read") /\ UNCHANGED <<fate, taken>>
       \/ Return(c, 0)
    /\ UNCHANGED <<requestId, id, stdin, shredded, server>>

(* A read that goes astray: other threads read bytes of the same part, the *)
(* content comes back short, a content or what is left of a part is taken  *)
(* for a header line, or the length is that of another message.  No length *)
(* or no JSON is found and the call returns; the pipe is left at the end   *)
(* of some part, or within it.                                             *)
ReadAstray(c) ==
    /\ phase[c] \in {"read", "body"}
    /\ \E n \in 1..Len(stdout), torn \in BOOLEAN :
          /\ stdout'   = SubSeq(stdout, IF torn THEN n ELSE n + 1, Len(stdout))
          /\ shredded' = torn
    /\ Return(c, 0)
    /\ UNCHANGED <<requestId, id, stdin, server>>

ReadEnd(c) ==
    /\ phase[c] \in {"read", "body"} /\ ~alive /\ stdout = <<>>
    /\ Return(c, 0)
    /\ UNCHANGED <<requestId, id, stdin, stdout, shredded, server>>

(* The server: carries out a request it can make out (long contents mix    *)
(* within a part too), replies in any order or never, and may exit, also   *)
(* because the client stops it.                                            *)
ServerReads ==
    /\ alive /\ ~deaf /\ Len(stdin) > 1
    /\ stdin' = Tail(Tail(stdin))
    /\ \/ /\ stdin[1][1] = "header" /\ stdin[2] = <<"content", stdin[1][2]>>
          /\ carriedOut' = carriedOut \cup {stdin[1][2]} /\ UNCHANGED deaf
       \/ deaf' = TRUE /\ UNCHANGED carriedOut
    /\ UNCHANGED <<requestId, phase, id, stdout, shredded, alive, replied, fate, taken>>

ServerReplies(i) ==
    /\ alive /\ i \in carriedOut \ replied
    /\ replied' = replied \cup {i}
    /\ stdout'  = stdout \o << <<"header", i>>, <<"content", i>> >>
    /\ UNCHANGED <<requestId, phase, id, stdin, shredded, deaf, alive,
                   carriedOut, fate, taken>>

ServerExits ==
    /\ alive /\ alive' = FALSE
    /\ UNCHANGED <<requestId, phase, id, stdin, stdout, shredded, deaf, carriedOut,
                   replied, fate, taken>>

Caller(c) ==
    \/ WriteHeader(c) \/ WriteContent(c) \/ WriteFails(c)
    \/ ReadHeader(c) \/ ReadOwn(c) \/ ReadOther(c) \/ ReadAstray(c) \/ ReadEnd(c)

StdioNext ==
    \/ \E c \in StdioCallers : TakeId(c) \/ Caller(c)
    \/ ServerReads \/ (\E i \in Requests : ServerReplies(i)) \/ ServerExits

StdioSpec == StdioInit /\ [][StdioNext]_stdioVars
-----------------------------------------------------------------------------
(* Every variable has its type, and the counter stands at the last request.*)
StdioTypeOK ==
    /\ requestId \in 0..MaxStdioCalls
    /\ phase \in [StdioCallers -> {"idle", "header", "content", "read", "body"}]
    /\ id \in [StdioCallers -> 0..MaxStdioCalls]
    /\ stdin \in Seq(Part) /\ stdout \in Seq(Part)
    /\ shredded \in BOOLEAN /\ deaf \in BOOLEAN /\ alive \in BOOLEAN
    /\ carriedOut \subseteq Requests /\ replied \subseteq Requests
    /\ fate \in [Requests -> {"unasked", "open", "ended"}]
    /\ taken \in [Requests -> 0..MaxStdioCalls]
    /\ \A i \in Requests : fate[i] = "unasked" <=> i > requestId

Open == [c \in StdioCallers |-> IF phase[c] = "idle" THEN 0 ELSE id[c]]

Promise == INSTANCE ToolCalls WITH Callers <- StdioCallers, MaxCalls <- MaxStdioCalls,
                                   open <- Open, served <- carriedOut,
                                   status <- fate, answer <- taken

(* However the writes and reads of the threads mix, and whenever the       *)
(* server exits, a call returns the server's answer to that call or        *)
(* nothing, and only once: the transport implements ToolCalls.             *)
StdioKeepsPromise == Promise!CallSpec
=============================================================================
