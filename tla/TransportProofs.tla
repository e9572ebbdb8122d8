--------------------------- MODULE TransportProofs ---------------------------
(***************************************************************************)
(* Proofs that the two transports of the MCP client implement ToolCalls,   *)
(* for any number of callers and of calls.                                 *)
(***************************************************************************)
EXTENDS McpSse, McpStdio, TLAPS

-----------------------------------------------------------------------------
(* The event-stream transport.  An active thread has a request of its own  *)
(* that is open; nothing is returned for a request before it has ended.    *)
SseOwn ==
    /\ \A c \in SseCallers :
         stage[c] # "idle" => myId[c] \in SseRequests /\ ended[myId[c]] = "open"
    /\ \A c, d \in SseCallers :
         c # d /\ stage[c] # "idle" /\ stage[d] # "idle" => myId[c] # myId[d]
    /\ \A i \in SseRequests : ended[i] # "ended" => got[i] = 0

SseInv == SseTypeOK /\ SseOwn

LEMMA InitSseInv == SseInit => SseInv
  BY SseAssumption DEF SseInit, SseInv, SseTypeOK, SseOwn, SseRequests

LEMMA SseInvStep == SseInv /\ [SseNext]_sseVars => SseInv'
<1> SUFFICES ASSUME SseInv, [SseNext]_sseVars PROVE SseInv'
  OBVIOUS
<1> USE SseAssumption DEF SseInv, SseTypeOK, SseOwn, SseRequests, remote
<1>1. CASE UNCHANGED sseVars
  BY <1>1 DEF sseVars
<1>2. ASSUME NEW c \in SseCallers, SseTakeId(c) PROVE SseInv'
  <2>1. lastId + 1 \in 1..MaxSseCalls /\ ended[lastId + 1] = "unasked"
    BY <1>2 DEF SseTakeId
  <2>2. SseTypeOK'
    BY <1>2, <2>1 DEF SseTakeId
  <2>3. \A d \in SseCallers : stage[d] # "idle" => myId[d] # lastId + 1
    BY <2>1
  <2>4. \A d \in SseCallers :
          /\ stage'[d] = IF d = c THEN "post" ELSE stage[d]
          /\ myId'[d] = IF d = c THEN lastId + 1 ELSE myId[d]
    BY <1>2 DEF SseTakeId
  <2>5. \A i \in 1..MaxSseCalls :
          ended'[i] = (IF i = lastId + 1 THEN "open" ELSE ended[i]) /\ got'[i] = got[i]
    BY <1>2, <2>1 DEF SseTakeId
  <2>6. \A d \in SseCallers :
          stage'[d] # "idle" => myId'[d] \in 1..MaxSseCalls /\ ended'[myId'[d]] = "open"
    BY <2>1, <2>3, <2>4, <2>5
  <2>7. \A d, e \in SseCallers :
          d # e /\ stage'[d] # "idle" /\ stage'[e] # "idle" => myId'[d] # myId'[e]
    BY <2>3, <2>4
  <2>8. \A i \in 1..MaxSseCalls : ended'[i] # "ended" => got'[i] = 0
    BY <2>1, <2>5
  <2>9. SseOwn'
    BY <2>6, <2>7, <2>8, <1>2 DEF SseTakeId
  <2> QED BY <2>2, <2>9
<1>3. ASSUME NEW c \in SseCallers, Posted(c) PROVE SseInv'
  BY <1>3 DEF Posted
<1>4. ASSUME NEW c \in SseCallers, PostFails(c) \/ TimeIsUp(c) \/ TakeAnswer(c)
      PROVE  SseInv'
  <2>0. SseReturn(c, 0) \/ SseReturn(c, myId[c])
    BY <1>4 DEF PostFails, TimeIsUp, TakeAnswer
  <2>a. 0 \in 0..MaxSseCalls /\ myId[c] \in 0..MaxSseCalls
    OBVIOUS
  <2>1. PICK i \in 0..MaxSseCalls : SseReturn(c, i)
    BY <2>0, <2>a
  <2>2. /\ stage[c] # "idle" /\ pending' \subseteq pending
        /\ UNCHANGED <<lastId, myId, endpoint, listening, performed, stream, answered>>
    BY <1>4 DEF PostFails, TimeIsUp, TakeAnswer
  <2>3. myId[c] \in 1..MaxSseCalls /\ ended[myId[c]] = "open"
    BY <2>2
  <2>4. SseTypeOK'
    BY <2>1, <2>2, <2>3 DEF SseReturn
  <2>5. \A d \in SseCallers : stage'[d] = IF d = c THEN "idle" ELSE stage[d]
    BY <2>1 DEF SseReturn
  <2>6. \A j \in 1..MaxSseCalls : /\ ended'[j] = IF j = myId[c] THEN "ended" ELSE ended[j]
                                 /\ got'[j] = IF j = myId[c] THEN i ELSE got[j]
    BY <2>1 DEF SseReturn
  <2>7. SseOwn'
    BY <2>2, <2>3, <2>5, <2>6
  <2> QED BY <2>4, <2>7
<1>6. ASSUME NEW i \in SseRequests, SseServerGets(i) PROVE SseInv'
  BY <1>6 DEF SseServerGets
<1>9. ASSUME NEW i \in SseRequests, SseServerAnswers(i) PROVE SseInv'
  BY <1>9 DEF SseServerAnswers
<1>7. ASSUME NEW i \in SseRequests, ListenerStores(i) PROVE SseInv'
  BY <1>7 DEF ListenerStores
<1>8. CASE ListenerEnds \/ SseStop
  BY <1>8 DEF ListenerEnds, SseStop
<1> QED BY <1>1, <1>2, <1>3, <1>4, <1>6, <1>7, <1>8, <1>9 DEF SseNext, SseCaller

LEMMA SseInitPromise == SseInit => SsePromise!CallInit
  BY DEF SseInit, SsePromise!CallInit, SsePromise!Calls, SseOpen, SseRequests

LEMMA SseStepPromise ==
  SseInv /\ [SseNext]_sseVars => [SsePromise!CallNext]_(SsePromise!callVars)
<1> SUFFICES ASSUME SseInv, [SseNext]_sseVars
             PROVE  SsePromise!CallNext \/ UNCHANGED SsePromise!callVars
  BY DEF SsePromise!callVars
<1> USE SseAssumption DEF SseInv, SseTypeOK, SseOwn, SseRequests, remote, SseReturn
<1>1. CASE UNCHANGED sseVars
  BY <1>1 DEF sseVars, SseOpen, SsePromise!callVars
<1>2. ASSUME NEW c \in SseCallers, SseTakeId(c)
      PROVE  SsePromise!Ask(c, lastId + 1) /\ lastId + 1 \in 1..MaxSseCalls
  <2>1. lastId + 1 \in 1..MaxSseCalls /\ ended[lastId + 1] = "unasked"
    BY <1>2 DEF SseTakeId
  <2>2. SseOpen' = [SseOpen EXCEPT ![c] = lastId + 1]
    BY <1>2 DEF SseTakeId, SseOpen
  <2>a. SseOpen[c] = 0
    BY <1>2 DEF SseTakeId, SseOpen
  <2>3. SsePromise!Ask(c, lastId + 1)
    BY <1>2, <2>1, <2>2, <2>a DEF SseTakeId, SsePromise!Ask
  <2> QED BY <2>1, <2>3
<1>3. ASSUME NEW c \in SseCallers, Posted(c) PROVE UNCHANGED SsePromise!callVars
  <2>1. SseOpen' = SseOpen
    BY <1>3 DEF Posted, SseOpen
  <2> QED BY <1>3, <2>1 DEF Posted, SsePromise!callVars
<1>4. ASSUME NEW c \in SseCallers, PostFails(c) \/ TimeIsUp(c) \/ TakeAnswer(c)
      PROVE  SsePromise!GiveUp(c) \/ SsePromise!Answer(c)
  <2>1. SseOpen[c] = myId[c] /\ myId[c] \in 1..MaxSseCalls /\ got[myId[c]] = 0
    BY <1>4 DEF PostFails, TimeIsUp, TakeAnswer, SseOpen
  <2>2. SseOpen' = [SseOpen EXCEPT ![c] = 0]
    BY <1>4 DEF PostFails, TimeIsUp, TakeAnswer, SseOpen
  <2>3. CASE PostFails(c) \/ TimeIsUp(c)
    <3>1. [got EXCEPT ![myId[c]] = 0] = got
      BY <2>1
    <3>2. got' = got /\ performed' = performed /\ ended' = [ended EXCEPT ![myId[c]] = "ended"]
      BY <2>3, <3>1 DEF PostFails, TimeIsUp
    <3>3. SsePromise!Close(c)
      BY <2>1, <2>2, <3>2 DEF SsePromise!Close
    <3> QED BY <3>2, <3>3 DEF SsePromise!GiveUp
  <2>4. CASE TakeAnswer(c)
    <3>1. /\ got' = [got EXCEPT ![myId[c]] = myId[c]] /\ performed' = performed
          /\ ended' = [ended EXCEPT ![myId[c]] = "ended"] /\ myId[c] \in performed
      BY <2>4 DEF TakeAnswer
    <3>2. SsePromise!Close(c)
      BY <2>1, <2>2, <3>1 DEF SsePromise!Close
    <3> QED BY <2>1, <3>1, <3>2 DEF SsePromise!Answer
  <2> QED BY <1>4, <2>3, <2>4
<1>5. ASSUME NEW i \in SseRequests, SseServerGets(i)
      PROVE  SsePromise!Serve(i) /\ i \in 1..MaxSseCalls
  BY <1>5 DEF SseServerGets, SsePromise!Serve, SseOpen
<1>6. ASSUME NEW i \in SseRequests, SseServerAnswers(i) \/ ListenerStores(i)
      PROVE  UNCHANGED SsePromise!callVars
  BY <1>6 DEF SseServerAnswers, ListenerStores, SseOpen, SsePromise!callVars
<1>7. CASE ListenerEnds \/ SseStop
  BY <1>7 DEF ListenerEnds, SseStop, SseOpen, SsePromise!callVars
<1>8. SsePromise!Calls = 1..MaxSseCalls
  BY DEF SsePromise!Calls
<1>9. CASE \E c \in SseCallers : SseTakeId(c)
  BY <1>2, <1>8, <1>9 DEF SsePromise!CallNext
<1>10. CASE \E c \in SseCallers : SseCaller(c)
  <2>1. PICK c \in SseCallers : SseCaller(c)
    BY <1>10
  <2>2. UNCHANGED SsePromise!callVars \/ SsePromise!GiveUp(c) \/ SsePromise!Answer(c)
    BY <1>3, <1>4, <2>1 DEF SseCaller
  <2> QED BY <2>2 DEF SsePromise!CallNext
<1>11. CASE \E i \in SseRequests : SseServerGets(i)
  BY <1>5, <1>8, <1>11 DEF SsePromise!CallNext
<1> QED BY <1>1, <1>6, <1>7, <1>9, <1>10, <1>11 DEF SseNext

LEMMA SseInvariant == SseSpec => []SseInv
  BY InitSseInv, SseInvStep, PTL DEF SseSpec

(* Every reachable state of the event-stream transport is well typed.      *)
THEOREM SseTypeCorrect == SseSpec => []SseTypeOK
<1>1. SseInv => SseTypeOK
  BY DEF SseInv
<1> QED BY <1>1, SseInvariant, PTL

(* SseTransport returns to each call the answer to that call or nothing,   *)
(* and only once, whatever the order and the delay of the answers.         *)
THEOREM SseImplementsToolCalls == SseSpec => SseKeepsPromise
<1>1. SseSpec => SsePromise!CallInit /\ [][SsePromise!CallNext]_(SsePromise!callVars)
  BY SseInitPromise, SseStepPromise, SseInvariant, PTL DEF SseSpec
<1> QED BY <1>1 DEF SseKeepsPromise, SsePromise!CallSpec
-----------------------------------------------------------------------------
(* The pipe transport.  An active thread has an open request of its own;   *)
(* the pipes carry parts of messages about requests that were made, and,   *)
(* on their way back, about requests that the server has carried out.      *)
Of(S) == {"header", "content"} \X S
Asked == {i \in Requests : fate[i] # "unasked"}

StdioOwn ==
    /\ \A c \in StdioCallers : phase[c] # "idle" => id[c] \in Requests /\ fate[id[c]] = "open"
    /\ \A c, d \in StdioCallers :
         c # d /\ phase[c] # "idle" /\ phase[d] # "idle" => id[c] # id[d]
    /\ \A i \in Requests : fate[i] # "ended" => taken[i] = 0

Pipes ==
    /\ stdin \in Seq(Of(Asked))
    /\ stdout \in Seq(Of(carriedOut))
    /\ replied \subseteq carriedOut
    /\ carriedOut \subseteq Asked

StdioInv == StdioTypeOK /\ StdioOwn /\ Pipes

(* A queue of parts about some requests is one of parts about more.        *)
LEMMA OfMonotonic ==
  ASSUME NEW S, NEW T, S \subseteq T, NEW s \in Seq(Of(S)) PROVE s \in Seq(Of(T))
<1>1. Of(S) \subseteq Of(T)
  BY DEF Of
<1> QED BY <1>1

(* Taking parts from the front and adding them at the end.                 *)
LEMMA QueueSteps ==
  ASSUME NEW S, NEW s \in Seq(Of(S))
  PROVE  /\ s # <<>> => /\ Tail(s) \in Seq(Of(S)) /\ Head(s)[2] \in S
                        /\ Head(s) = <<Head(s)[1], Head(s)[2]>>
         /\ Len(s) > 1 => /\ s # <<>> /\ Tail(s) # <<>> /\ Tail(Tail(s)) \in Seq(Of(S))
                          /\ s[1][2] \in S
         /\ \A i \in S : /\ Append(s, <<"header", i>>) \in Seq(Of(S))
                         /\ Append(s, <<"content", i>>) \in Seq(Of(S))
                         /\ s \o << <<"header", i>>, <<"content", i>> >> \in Seq(Of(S))
<1>1. \A e \in Of(S) : e[2] \in S /\ e = <<e[1], e[2]>>
  BY DEF Of
<1>2. ASSUME s # <<>> PROVE Tail(s) \in Seq(Of(S)) /\ Head(s) \in Of(S)
  BY <1>2
<1>3. ASSUME Len(s) > 1
      PROVE  s # <<>> /\ Tail(s) # <<>> /\ Tail(Tail(s)) \in Seq(Of(S)) /\ s[1] \in Of(S)
  <2>1. s # <<>> /\ s[1] \in Of(S)
    BY <1>3
  <2>2. Tail(s) \in Seq(Of(S)) /\ Len(Tail(s)) = Len(s) - 1
    BY <2>1
  <2>3. Tail(s) # <<>>
    <3>1. Len(<<>>) = 0
      OBVIOUS
    <3>2. Len(s) \in Nat
      OBVIOUS
    <3> DEFINE n == Len(s)
    <3>3. n \in Nat /\ n > 1
      BY <1>3, <3>2
    <3> HIDE DEF n
    <3>4. n - 1 # 0
      BY <3>3
    <3> QED BY <2>2, <3>1, <3>4 DEF n
  <2> QED BY <2>1, <2>2, <2>3
<1>4. ASSUME NEW i \in S
      PROVE  /\ Append(s, <<"header", i>>) \in Seq(Of(S))
             /\ Append(s, <<"content", i>>) \in Seq(Of(S))
             /\ s \o << <<"header", i>>, <<"content", i>> >> \in Seq(Of(S))
  <2>1. <<"header", i>> \in Of(S) /\ <<"content", i>> \in Of(S)
    BY DEF Of
  <2> DEFINE h == <<"header", i>>  k == <<"content", i>>
  <2>2. h \in Of(S) /\ k \in Of(S)
    BY <2>1
  <2> HIDE DEF h, k
  <2>3. <<h, k>> \in Seq(Of(S))
    BY <2>2
  <2>4. Append(s, h) \in Seq(Of(S)) /\ Append(s, k) \in Seq(Of(S)) /\ s \o <<h, k>> \in Seq(Of(S))
    BY <2>2, <2>3
  <2> QED BY <2>4 DEF h, k
<1> QED BY <1>1, <1>2, <1>3, <1>4

(* What a thread leaves behind when it reads astray.                       *)
LEMMA RestOfQueue ==
  ASSUME NEW S, NEW s \in Seq(S), NEW k \in 1..(Len(s) + 1)
  PROVE  SubSeq(s, k, Len(s)) \in Seq(S)
<1>1. Len(s) \in Nat /\ \A i \in k..Len(s) : s[i] \in S
  OBVIOUS
<1> QED BY <1>1

LEMMA InitStdioInv == StdioInit => StdioInv
<1> SUFFICES ASSUME StdioInit PROVE StdioInv
  OBVIOUS
<1>1. stdin \in Seq(Part) /\ stdout \in Seq(Part)
  BY DEF StdioInit
<1>2. StdioTypeOK
  <2>1. /\ requestId \in 0..MaxStdioCalls
        /\ id \in [StdioCallers -> 0..MaxStdioCalls]
        /\ taken \in [Requests -> 0..MaxStdioCalls]
    BY StdioAssumption DEF StdioInit
  <2>2. /\ phase \in [StdioCallers -> {"idle", "header", "content", "read", "body"}]
        /\ fate \in [Requests -> {"unasked", "open", "ended"}]
        /\ shredded \in BOOLEAN /\ deaf \in BOOLEAN /\ alive \in BOOLEAN
        /\ carriedOut \subseteq Requests /\ replied \subseteq Requests
    BY DEF StdioInit
  <2>3. \A i \in Requests : fate[i] = "unasked" <=> i > requestId
    BY DEF StdioInit, Requests
  <2> QED BY <1>1, <2>1, <2>2, <2>3 DEF StdioTypeOK
<1>3. StdioOwn
  BY DEF StdioInit, StdioOwn
<1>4. Pipes
  BY DEF StdioInit, Pipes, Requests
<1> QED BY <1>2, <1>3, <1>4 DEF StdioInv

(* A thread takes the next number.                                         *)
LEMMA TakeIdInv == ASSUME StdioInv, NEW c \in StdioCallers, TakeId(c) PROVE StdioInv'
<1> USE StdioAssumption DEF StdioInv, Requests
<1>1. requestId + 1 \in Requests /\ fate[requestId + 1] = "unasked"
  BY DEF TakeId, StdioTypeOK
<1>2. StdioTypeOK'
  BY <1>1 DEF TakeId, StdioTypeOK, server, Phase
<1>3. \A d \in StdioCallers : phase[d] # "idle" => id[d] # requestId + 1
  BY <1>1 DEF StdioOwn
<1>4. \A d \in StdioCallers : /\ phase'[d] = IF d = c THEN "header" ELSE phase[d]
                              /\ id'[d] = IF d = c THEN requestId + 1 ELSE id[d]
  BY DEF TakeId, StdioTypeOK, Phase
<1>5. \A i \in Requests : /\ fate'[i] = IF i = requestId + 1 THEN "open" ELSE fate[i]
                          /\ taken'[i] = taken[i]
  BY <1>1 DEF TakeId, StdioTypeOK
<1>6. \A d \in StdioCallers :
        phase'[d] # "idle" => id'[d] \in Requests /\ fate'[id'[d]] = "open"
  BY <1>1, <1>3, <1>4, <1>5 DEF StdioOwn
<1>7. \A d, e \in StdioCallers :
        d # e /\ phase'[d] # "idle" /\ phase'[e] # "idle" => id'[d] # id'[e]
  BY <1>3, <1>4 DEF StdioOwn
<1>8. \A i \in Requests : fate'[i] # "ended" => taken'[i] = 0
  BY <1>1, <1>5 DEF StdioOwn
<1>9. StdioOwn'
  BY <1>6, <1>7, <1>8 DEF StdioOwn
<1>10. Asked \subseteq Asked'
  BY <1>5 DEF Asked
<1>11. stdin' = stdin /\ stdout' = stdout /\ carriedOut' = carriedOut /\ replied' = replied
  BY DEF TakeId, server
<1>12. Pipes'
  BY <1>10, <1>11, OfMonotonic DEF Pipes
<1> QED BY <1>2, <1>9, <1>12

(* A call returns with nothing or with the reply that was on stdout.       *)
LEMMA ReturnInv ==
  ASSUME StdioInv, NEW c \in StdioCallers, phase[c] # "idle",
         NEW i \in 0..MaxStdioCalls, Return(c, i),
         stdout' \in Seq(Part), stdout' \in Seq(Of(carriedOut)), shredded' \in BOOLEAN,
         UNCHANGED <<requestId, id, stdin, server>>
  PROVE  StdioInv'
<1> USE StdioAssumption DEF StdioInv, Requests
<1>1. id[c] \in Requests /\ fate[id[c]] = "open"
  BY DEF StdioOwn
<1>2. StdioTypeOK'
  BY <1>1 DEF Return, StdioTypeOK, server, Phase
<1>4. \A d \in StdioCallers : phase'[d] = IF d = c THEN "idle" ELSE phase[d]
  BY DEF Return, StdioTypeOK, Phase
<1>5. \A j \in Requests : /\ fate'[j] = IF j = id[c] THEN "ended" ELSE fate[j]
                          /\ taken'[j] = IF j = id[c] THEN i ELSE taken[j]
  BY <1>1 DEF Return, StdioTypeOK
<1>6. StdioOwn'
  BY <1>1, <1>4, <1>5 DEF StdioOwn
<1>7. Asked' = Asked
  BY <1>1, <1>5 DEF Asked
<1>8. Pipes'
  BY <1>7 DEF Pipes, server
<1> QED BY <1>2, <1>6, <1>8

(* A thread moves on inside its call.                                      *)
LEMMA PhaseInv ==
  ASSUME StdioInv, NEW c \in StdioCallers, phase[c] # "idle",
         NEW s \in {"content", "read", "body"}, Phase(c, s),
         stdin' \in Seq(Part), stdin' \in Seq(Of(Asked)),
         stdout' \in Seq(Part), stdout' \in Seq(Of(carriedOut)),
         UNCHANGED <<requestId, id, shredded, server, fate, taken>>
  PROVE  StdioInv'
<1> USE DEF StdioInv, Requests
<1>1. StdioTypeOK'
  BY DEF StdioTypeOK, server, Phase
<1>2. \A d \in StdioCallers : phase'[d] = IF d = c THEN s ELSE phase[d]
  BY DEF StdioTypeOK, Phase
<1>3. StdioOwn'
  BY <1>2 DEF StdioOwn
<1>4. Pipes'
  BY DEF Pipes, Asked, server
<1> QED BY <1>1, <1>3, <1>4

LEMMA StdioInvStep == StdioInv /\ [StdioNext]_stdioVars => StdioInv'
<1> SUFFICES ASSUME StdioInv, [StdioNext]_stdioVars PROVE StdioInv'
  OBVIOUS
<1> USE StdioAssumption
<1>0. /\ stdin \in Seq(Part) /\ stdin \in Seq(Of(Asked))
      /\ stdout \in Seq(Part) /\ stdout \in Seq(Of(carriedOut))
      /\ Part = Of(Requests) /\ 0 \in 0..MaxStdioCalls
      /\ shredded \in BOOLEAN
  BY DEF StdioInv, StdioTypeOK, Pipes, Part, Of
<1>1. CASE UNCHANGED stdioVars
  BY <1>1 DEF stdioVars, StdioInv, StdioTypeOK, StdioOwn, Pipes, Asked
<1>2. ASSUME NEW c \in StdioCallers, TakeId(c) PROVE StdioInv'
  BY <1>2, TakeIdInv
<1>3. ASSUME NEW c \in StdioCallers, phase[c] # "idle"
      PROVE  id[c] \in Asked /\ id[c] \in Requests /\ id[c] \in 0..MaxStdioCalls
  BY <1>3 DEF StdioInv, StdioOwn, Asked, Requests
<1>4. ASSUME NEW c \in StdioCallers, WriteHeader(c) PROVE StdioInv'
  <2>1. phase[c] # "idle" /\ Phase(c, "content")
    BY <1>4 DEF WriteHeader
  <2>2. stdin' = Append(stdin, <<"header", id[c]>>)
    BY <1>4 DEF WriteHeader
  <2>3. stdin' \in Seq(Of(Asked))
    BY <1>0, <1>3, <2>1, <2>2, QueueSteps
  <2>4. stdin' \in Seq(Of(Requests))
    BY <1>0, <1>3, <2>1, <2>2, QueueSteps
  <2>5. /\ UNCHANGED <<requestId, id, shredded, server, fate, taken>>
        /\ stdout' = stdout
    BY <1>4 DEF WriteHeader
  <2> QED BY <1>0, <2>1, <2>3, <2>4, <2>5, PhaseInv
<1>5. ASSUME NEW c \in StdioCallers, WriteContent(c) PROVE StdioInv'
  <2>1. phase[c] # "idle" /\ Phase(c, "read")
    BY <1>5 DEF WriteContent
  <2>2. stdin' = Append(stdin, <<"content", id[c]>>)
    BY <1>5 DEF WriteContent
  <2>3. stdin' \in Seq(Of(Asked))
    BY <1>0, <1>3, <2>1, <2>2, QueueSteps
  <2>4. stdin' \in Seq(Of(Requests))
    BY <1>0, <1>3, <2>1, <2>2, QueueSteps
  <2>5. /\ UNCHANGED <<requestId, id, shredded, server, fate, taken>>
        /\ stdout' = stdout
    BY <1>5 DEF WriteContent
  <2> QED BY <1>0, <2>1, <2>3, <2>4, <2>5, PhaseInv
<1>6. ASSUME stdout # <<>>
      PROVE  /\ Tail(stdout) \in Seq(Of(Requests)) /\ Tail(stdout) \in Seq(Of(carriedOut))
             /\ Head(stdout)[2] \in Requests /\ Head(stdout)[2] \in 0..MaxStdioCalls
  <2>1. Head(stdout)[2] \in Requests /\ Tail(stdout) \in Seq(Of(Requests))
    BY <1>0, <1>6, QueueSteps
  <2>2. Tail(stdout) \in Seq(Of(carriedOut))
    BY <1>0, <1>6, QueueSteps
  <2> QED BY <2>1, <2>2 DEF Requests
<1>7. ASSUME NEW c \in StdioCallers, ReadHeader(c) PROVE StdioInv'
  <2>1. phase[c] # "idle" /\ Phase(c, "body") /\ stdout # <<>> /\ stdout' = Tail(stdout)
    BY <1>7 DEF ReadHeader
  <2>4. UNCHANGED <<requestId, id, stdin, shredded, server, fate, taken>>
    BY <1>7 DEF ReadHeader
  <2>5. stdin' = stdin
    BY <2>4
  <2> QED BY <1>0, <1>6, <2>1, <2>4, <2>5, PhaseInv
<1>8. ASSUME NEW c \in StdioCallers, WriteFails(c) \/ ReadEnd(c) PROVE StdioInv'
  <2>1. /\ phase[c] # "idle" /\ Return(c, 0) /\ stdout' = stdout /\ shredded' = shredded
        /\ UNCHANGED <<requestId, id, stdin, server>>
    BY <1>8 DEF WriteFails, ReadEnd
  <2> QED BY <1>0, <2>1, ReturnInv
<1>9. ASSUME NEW c \in StdioCallers, ReadAstray(c) PROVE StdioInv'
  <2>1. \E k \in 1..(Len(stdout) + 1) : stdout' = SubSeq(stdout, k, Len(stdout))
    <3>1. PICK n \in 1..Len(stdout) : stdout' \in {SubSeq(stdout, n, Len(stdout)),
                                                  SubSeq(stdout, n + 1, Len(stdout))}
      BY <1>9 DEF ReadAstray
    <3>2. Len(stdout) \in Nat
      BY <1>0
    <3>3. n \in 1..(Len(stdout) + 1) /\ n + 1 \in 1..(Len(stdout) + 1)
      BY <3>2
    <3> QED BY <3>1, <3>3
  <2>2. /\ phase[c] # "idle" /\ Return(c, 0) /\ shredded' \in BOOLEAN
        /\ UNCHANGED <<requestId, id, stdin, server>>
    BY <1>9 DEF ReadAstray
  <2>3. stdout' \in Seq(Of(Requests))
    BY <1>0, <2>1, RestOfQueue
  <2>4. stdout' \in Seq(Of(carriedOut))
    BY <1>0, <2>1, RestOfQueue
  <2> QED BY <1>0, <2>2, <2>3, <2>4, ReturnInv
<1>10. ASSUME NEW c \in StdioCallers, ReadOwn(c) PROVE StdioInv'
  <2>1. /\ phase[c] # "idle" /\ Return(c, Head(stdout)[2]) /\ stdout # <<>>
        /\ stdout' = Tail(stdout) /\ shredded' = shredded
        /\ UNCHANGED <<requestId, id, stdin, server>>
    BY <1>10 DEF ReadOwn
  <2> QED BY <1>0, <1>6, <2>1, ReturnInv
<1>11. ASSUME NEW c \in StdioCallers, ReadOther(c) PROVE StdioInv'
  <2>1. /\ phase[c] # "idle" /\ stdout # <<>> /\ stdout' = Tail(stdout)
        /\ UNCHANGED <<requestId, id, stdin, shredded, server>>
        /\ stdin' = stdin /\ shredded' = shredded
        /\ (Phase(c, "read") /\ UNCHANGED <<fate, taken>>) \/ Return(c, 0)
    BY <1>11 DEF ReadOther
  <2>2. CASE Phase(c, "read") /\ UNCHANGED <<fate, taken>>
    <3>1. UNCHANGED <<requestId, id, shredded, server, fate, taken>>
      BY <2>1, <2>2
    <3> QED BY <1>0, <1>6, <2>1, <2>2, <3>1, PhaseInv
  <2>3. CASE Return(c, 0)
    <3>1. UNCHANGED <<requestId, id, stdin, server>>
      BY <2>1
    <3> QED BY <1>0, <1>6, <2>1, <2>3, <3>1, ReturnInv
  <2> QED BY <2>1, <2>2, <2>3
<1>12. CASE ServerReads
  <2>1. /\ Len(stdin) > 1 /\ stdin' = Tail(Tail(stdin)) /\ stdout' = stdout
        /\ UNCHANGED <<requestId, phase, id, shredded, alive, replied, fate, taken>>
        /\ deaf' \in {TRUE, deaf} /\ carriedOut' \in {carriedOut, carriedOut \cup {stdin[1][2]}}
    BY <1>12 DEF ServerReads
  <2>2. Tail(Tail(stdin)) \in Seq(Of(Asked)) /\ stdin[1][2] \in Asked
    BY <1>0, <2>1, QueueSteps
  <2>3. Tail(Tail(stdin)) \in Seq(Of(Requests)) /\ stdin[1][2] \in Requests
    BY <1>0, <2>1, QueueSteps
  <2>4. carriedOut \subseteq carriedOut' /\ carriedOut' \subseteq carriedOut \cup {stdin[1][2]}
    BY <2>1
  <2>5. StdioTypeOK'
    <3>1. stdin' \in Seq(Part) /\ stdout' \in Seq(Part)
      BY <1>0, <2>1, <2>3
    <3> QED BY <2>1, <2>3, <2>4, <3>1 DEF StdioInv, StdioTypeOK
  <2>6. StdioOwn'
    BY <2>1 DEF StdioInv, StdioOwn
  <2>7. Pipes'
    <3>1. Asked' = Asked
      BY <2>1 DEF Asked
    <3>2. stdout' \in Seq(Of(carriedOut'))
      BY <1>0, <2>1, <2>4, OfMonotonic
    <3>3. replied' \subseteq carriedOut' /\ carriedOut' \subseteq Asked
      BY <2>1, <2>2, <2>4 DEF StdioInv, Pipes
    <3> QED BY <2>1, <2>2, <3>1, <3>2, <3>3 DEF Pipes
  <2> QED BY <2>5, <2>6, <2>7 DEF StdioInv
<1>13. ASSUME NEW i \in Requests, ServerReplies(i) PROVE StdioInv'
  <2>1. /\ i \in carriedOut /\ replied' = replied \cup {i}
        /\ stdout' = stdout \o << <<"header", i>>, <<"content", i>> >>
        /\ UNCHANGED <<requestId, phase, id, stdin, shredded, deaf, alive,
                       carriedOut, fate, taken>>
    BY <1>13 DEF ServerReplies
  <2>2. stdout' \in Seq(Of(Requests))
    BY <1>0, <2>1, QueueSteps
  <2>3. stdout' \in Seq(Of(carriedOut))
    BY <1>0, <2>1, QueueSteps
  <2>4. StdioTypeOK'
    <3>1. stdout' \in Seq(Part)
      BY <1>0, <2>2
    <3> QED BY <2>1, <3>1 DEF StdioInv, StdioTypeOK
  <2>5. StdioOwn'
    BY <2>1 DEF StdioInv, StdioOwn
  <2>6. Pipes'
    <3>1. Asked' = Asked
      BY <2>1 DEF Asked
    <3> QED BY <2>1, <2>3, <3>1 DEF StdioInv, Pipes
  <2> QED BY <2>4, <2>5, <2>6 DEF StdioInv
<1>14. CASE ServerExits
  BY <1>14 DEF ServerExits, StdioInv, StdioTypeOK, StdioOwn, Pipes, Asked
<1>15. ASSUME NEW c \in StdioCallers, Caller(c) PROVE StdioInv'
  BY <1>4, <1>5, <1>7, <1>8, <1>9, <1>10, <1>11, <1>15 DEF Caller
<1> QED BY <1>1, <1>2, <1>12, <1>13, <1>14, <1>15 DEF StdioNext

LEMMA StdioInvariant == StdioSpec => []StdioInv
  BY InitStdioInv, StdioInvStep, PTL DEF StdioSpec

LEMMA StdioInitPromise == StdioInit => Promise!CallInit
  BY DEF StdioInit, Promise!CallInit, Promise!Calls, Open, Requests

LEMMA StdioStepPromise ==
  StdioInv /\ [StdioNext]_stdioVars => [Promise!CallNext]_(Promise!callVars)
<1> SUFFICES ASSUME StdioInv, [StdioNext]_stdioVars
             PROVE  Promise!CallNext \/ UNCHANGED Promise!callVars
  BY DEF Promise!callVars
<1> USE StdioAssumption DEF StdioInv, StdioTypeOK, StdioOwn, Requests, server, Phase
<1>1. CASE UNCHANGED stdioVars
  BY <1>1 DEF stdioVars, Open, Promise!callVars
<1>2. ASSUME NEW c \in StdioCallers, TakeId(c)
      PROVE  Promise!Ask(c, requestId + 1) /\ requestId + 1 \in 1..MaxStdioCalls
  <2>1. requestId + 1 \in 1..MaxStdioCalls /\ fate[requestId + 1] = "unasked"
    BY <1>2 DEF TakeId
  <2>2. Open' = [Open EXCEPT ![c] = requestId + 1]
    BY <1>2 DEF TakeId, Open
  <2>3. Open[c] = 0
    BY <1>2 DEF TakeId, Open
  <2> QED BY <1>2, <2>1, <2>2, <2>3 DEF TakeId, Promise!Ask
<1>3. ASSUME NEW c \in StdioCallers, NEW s \in {"content", "read", "body"},
             phase[c] # "idle", Phase(c, s), UNCHANGED <<id, carriedOut, fate, taken>>
      PROVE  UNCHANGED Promise!callVars
  <2>1. Open' = Open
    BY <1>3 DEF Open
  <2> QED BY <1>3, <2>1 DEF Promise!callVars
<1>4. ASSUME NEW c \in StdioCallers, phase[c] # "idle"
      PROVE  Open[c] = id[c] /\ id[c] \in 1..MaxStdioCalls /\ taken[id[c]] = 0
  BY <1>4 DEF Open
<1>5. ASSUME NEW c \in StdioCallers, phase[c] # "idle", UNCHANGED <<id, carriedOut>>,
             NEW i, Return(c, i)
      PROVE  Promise!Close(c) /\ taken' = [taken EXCEPT ![id[c]] = i]
  <2>1. Open' = [Open EXCEPT ![c] = 0]
    BY <1>5 DEF Return, Open
  <2>2. fate' = [fate EXCEPT ![id[c]] = "ended"] /\ taken' = [taken EXCEPT ![id[c]] = i]
    BY <1>5 DEF Return
  <2>3. Open[c] = id[c] /\ Open[c] # 0
    BY <1>4, <1>5
  <2>4. fate' = [fate EXCEPT ![Open[c]] = "ended"]
    BY <2>2, <2>3
  <2>5. Promise!Close(c)
    BY <1>5, <2>1, <2>3, <2>4 DEF Promise!Close
  <2> QED BY <2>2, <2>5
<1>6. ASSUME NEW c \in StdioCallers, phase[c] # "idle", UNCHANGED <<id, carriedOut>>,
             Return(c, 0)
      PROVE  Promise!GiveUp(c)
  <2>1. [taken EXCEPT ![id[c]] = 0] = taken
    BY <1>4, <1>6
  <2> QED BY <1>5, <1>6, <2>1 DEF Promise!GiveUp
<1>7. ASSUME NEW c \in StdioCallers, ReadOwn(c) PROVE Promise!Answer(c)
  <2>1. /\ phase[c] # "idle" /\ UNCHANGED <<id, carriedOut>> /\ stdout # <<>>
        /\ Head(stdout) = <<"content", id[c]>> /\ Return(c, Head(stdout)[2])
    BY <1>7 DEF ReadOwn
  <2>2. Head(stdout)[2] = id[c]
    BY <2>1
  <2>3. id[c] \in carriedOut
    BY <2>1, <2>2, QueueSteps DEF Pipes
  <2>4. Promise!Close(c) /\ taken' = [taken EXCEPT ![id[c]] = id[c]]
    BY <1>5, <2>1, <2>2
  <2> QED BY <1>4, <2>1, <2>3, <2>4 DEF Promise!Answer
<1>8. ASSUME NEW c \in StdioCallers, Caller(c)
      PROVE  UNCHANGED Promise!callVars \/ Promise!GiveUp(c) \/ Promise!Answer(c)
  <2>1. CASE WriteHeader(c) \/ WriteContent(c) \/ ReadHeader(c)
    BY <1>3, <2>1 DEF WriteHeader, WriteContent, ReadHeader
  <2>2. CASE WriteFails(c) \/ ReadAstray(c) \/ ReadEnd(c)
    <3>1. phase[c] # "idle" /\ UNCHANGED <<id, carriedOut>> /\ Return(c, 0)
      BY <2>2 DEF WriteFails, ReadAstray, ReadEnd
    <3> QED BY <1>6, <3>1
  <2>3. CASE ReadOther(c)
    <3>1. /\ phase[c] # "idle" /\ UNCHANGED <<id, carriedOut>>
          /\ (Phase(c, "read") /\ UNCHANGED <<fate, taken>>) \/ Return(c, 0)
      BY <2>3 DEF ReadOther
    <3> QED BY <1>3, <1>6, <3>1
  <2> QED BY <1>7, <1>8, <2>1, <2>2, <2>3 DEF Caller
<1>9. ASSUME ServerReads
      PROVE  UNCHANGED Promise!callVars \/ \E i \in 1..MaxStdioCalls : Promise!Serve(i)
  <2>1. Open' = Open /\ UNCHANGED <<fate, taken>>
    BY <1>9 DEF ServerReads, Open
  <2>2. CASE carriedOut' = carriedOut
    BY <2>1, <2>2 DEF Promise!callVars
  <2>3. CASE carriedOut' # carriedOut
    <3>1. carriedOut' = carriedOut \cup {stdin[1][2]} /\ Len(stdin) > 1
      BY <1>9, <2>3 DEF ServerReads
    <3>2. stdin[1][2] \in Asked
      BY <3>1, QueueSteps DEF Pipes
    <3>3. stdin[1][2] \in 1..MaxStdioCalls /\ fate[stdin[1][2]] # "unasked"
      BY <3>2 DEF Asked
    <3>4. Promise!Serve(stdin[1][2])
      BY <2>1, <2>3, <3>1, <3>3 DEF Promise!Serve
    <3> QED BY <3>3, <3>4
  <2> QED BY <2>2, <2>3
<1>10. CASE (\E i \in Requests : ServerReplies(i)) \/ ServerExits
  <2>1. CASE \E i \in Requests : ServerReplies(i)
    BY <2>1 DEF ServerReplies, Open, Promise!callVars
  <2>2. CASE ServerExits
    BY <2>2 DEF ServerExits, Open, Promise!callVars
  <2> QED BY <1>10, <2>1, <2>2
<1>11. Promise!Calls = 1..MaxStdioCalls
  BY DEF Promise!Calls
<1>12. CASE \E c \in StdioCallers : TakeId(c)
  BY <1>2, <1>11, <1>12 DEF Promise!CallNext
<1>13. CASE \E c \in StdioCallers : Caller(c)
  BY <1>8, <1>13 DEF Promise!CallNext
<1>14. CASE ServerReads
  BY <1>9, <1>11, <1>14 DEF Promise!CallNext
<1> QED BY <1>1, <1>10, <1>12, <1>13, <1>14 DEF StdioNext

(* Every reachable state of the pipe transport is well typed.              *)
THEOREM StdioTypeCorrect == StdioSpec => []StdioTypeOK
<1>1. StdioInv => StdioTypeOK
  BY DEF StdioInv
<1> QED BY <1>1, StdioInvariant, PTL

(* StdioTransport returns to each call the reply to that call or nothing,  *)
(* and only once, however the reads and writes of its threads mix.         *)
THEOREM StdioImplementsToolCalls == StdioSpec => StdioKeepsPromise
<1>1. StdioSpec => Promise!CallInit /\ [][Promise!CallNext]_(Promise!callVars)
  BY StdioInitPromise, StdioStepPromise, StdioInvariant, PTL DEF StdioSpec
<1> QED BY <1>1 DEF StdioKeepsPromise, Promise!CallSpec
=============================================================================
