--------------------------- MODULE ToolGuardrail ---------------------------
(***************************************************************************)
(* ToolCallGuardrailController (sysai/agent/tool_guardrails.py): the       *)
(* counters that stop the model from repeating a tool call that fails or   *)
(* brings nothing new, and the two places of Agent.chat that ask it.       *)
(*                                                                         *)
(* The warnings it also gives are text for the model and are left out.     *)
(***************************************************************************)
EXTENDS Integers, FiniteSets

CONSTANTS
    Threads,       \* agent loops that share the controller: chats of one agent
    Tools,
    Args,          \* arguments of a call, session_id apart
    Results,       \* what a call may return
    Mcp,           \* tools whose name starts with mcp_
    Idempotent,    \* idempotent_tools less mutating_tools
    Redirected,    \* calls of execute_command that a dedicated tool should replace
    Forbidden,     \* those of them that are refused
    ExactBlock,    \* exact_failure_block_after, 4 in the code
    SameHalt,      \* same_tool_failure_halt_after, 6 in the code
    NoProgBlock,   \* no_progress_block_after, 4 in the code
    MaxCount       \* bound of every counter, above the thresholds

Calls == Tools \X Args

ASSUME GuardrailAssumption ==
    /\ IsFiniteSet(Threads)
    /\ Mcp \subseteq Tools /\ Idempotent \subseteq Tools
    /\ Redirected \subseteq Calls /\ Forbidden \subseteq Redirected
    /\ ExactBlock \in Nat \ {0} /\ SameHalt \in Nat \ {0} /\ NoProgBlock \in Nat \ {0}
    /\ MaxCount \in Nat /\ "none" \notin Results

\* A ToolCallSignature: the arguments are hashed as they are, and
\* _execute_tool adds session_id to those of every tool that is not external.
Signatures == Tools \X Args \X {"plain", "session"}

SigBefore(call) == <<call[1], call[2], "plain">>
SigAfter(call)  == <<call[1], call[2], IF call[1] \in Mcp THEN "plain" ELSE "session">>

VARIABLES
    exact,    \* exact[s]: _exact_failure_counts
    same,     \* same[t]: _same_tool_failure_counts
    last,     \* last[s]: result in _no_progress, "none" if there is no entry
    times,    \* times[s]: its repeat count
    running   \* running[x]: {call} while thread x executes a call, else {}

vars == <<exact, same, last, times, running>>

Init ==
    /\ exact   = [s \in Signatures |-> 0]
    /\ same    = [t \in Tools |-> 0]
    /\ last    = [s \in Signatures |-> "none"]
    /\ times   = [s \in Signatures |-> 0]
    /\ running = [x \in Threads |-> {}]

----------------------------------------------------------------------------
\* Mutant: the total of a tool's failures is compared one too late.
Allows_OneMore(call) ==
    IF call \in Redirected THEN call \notin Forbidden
    ELSE /\ exact[SigBefore(call)] < ExactBlock
         /\ call[1] \in Idempotent => times[SigBefore(call)] < NoProgBlock
         /\ same[call[1]] <= SameHalt

\* Mutant: the failures of the very call are not looked up.
Allows_NoExact(call) ==
    IF call \in Redirected THEN call \notin Forbidden
    ELSE /\ call[1] \in Idempotent => times[SigBefore(call)] < NoProgBlock
         /\ same[call[1]] < SameHalt

\* Does before_call let the call pass?  A redirection is decided first, and
\* one that only warns skips the counters.
Allows(call) ==
    IF call \in Redirected THEN call \notin Forbidden
    ELSE /\ exact[SigBefore(call)] < ExactBlock
         /\ call[1] \in Idempotent => times[SigBefore(call)] < NoProgBlock
         /\ same[call[1]] < SameHalt

Before(x, call) ==
    /\ running[x] = {}
    /\ Allows(call)
    /\ running' = [running EXCEPT ![x] = {call}]
    /\ UNCHANGED <<exact, same, last, times>>

\* The user refuses the call, or an exception ends the chat: no after_call.
Dropped(x) ==
    /\ running[x] # {}
    /\ running' = [running EXCEPT ![x] = {}]
    /\ UNCHANGED <<exact, same, last, times>>

\* Mutant: the entry of _no_progress survives a failure.
Failed_KeepProgress(x, call) ==
    /\ running[x] = {call}
    /\ exact[SigAfter(call)] < MaxCount /\ same[call[1]] < MaxCount
    /\ running' = [running EXCEPT ![x] = {}]
    /\ exact' = [exact EXCEPT ![SigAfter(call)] = @ + 1]
    /\ same'  = [same EXCEPT ![call[1]] = @ + 1]
    /\ UNCHANGED <<last, times>>

\* after_call of a call that failed.
Failed(x, call) ==
    /\ running[x] = {call}
    /\ exact[SigAfter(call)] < MaxCount /\ same[call[1]] < MaxCount
    /\ running' = [running EXCEPT ![x] = {}]
    /\ exact' = [exact EXCEPT ![SigAfter(call)] = @ + 1]
    /\ same'  = [same EXCEPT ![call[1]] = @ + 1]
    /\ last'  = [last EXCEPT ![SigAfter(call)] = "none"]
    /\ times' = [times EXCEPT ![SigAfter(call)] = 0]

\* Mutant: a success does not take the failures of its tool away.
Succeeded_KeepSame(x, call, r) ==
    LET s == SigAfter(call)
        again == last[s] = r
    IN  /\ running[x] = {call}
        /\ times[s] < MaxCount
        /\ running' = [running EXCEPT ![x] = {}]
        /\ exact' = [exact EXCEPT ![s] = 0]
        /\ IF call[1] \in Idempotent
           THEN /\ last'  = [last EXCEPT ![s] = r]
                /\ times' = [times EXCEPT ![s] = IF again THEN @ + 1 ELSE 1]
           ELSE /\ last'  = [last EXCEPT ![s] = "none"]
                /\ times' = [times EXCEPT ![s] = 0]
        /\ UNCHANGED same

\* after_call of a call that returned r.
Succeeded(x, call, r) ==
    LET s == SigAfter(call)
        again == last[s] = r
    IN  /\ running[x] = {call}
        /\ times[s] < MaxCount
        /\ running' = [running EXCEPT ![x] = {}]
        /\ exact' = [exact EXCEPT ![s] = 0]
        /\ same'  = [same EXCEPT ![call[1]] = 0]
        /\ IF call[1] \in Idempotent
           THEN /\ last'  = [last EXCEPT ![s] = r]
                /\ times' = [times EXCEPT ![s] = IF again THEN @ + 1 ELSE 1]
           ELSE /\ last'  = [last EXCEPT ![s] = "none"]
                /\ times' = [times EXCEPT ![s] = 0]

Next ==
    \E x \in Threads :
        \/ Dropped(x)
        \/ \E call \in Calls :
            \/ Before(x, call) \/ Failed(x, call)
            \/ \E r \in Results : Succeeded(x, call, r)

Spec == Init /\ [][Next]_vars

----------------------------------------------------------------------------
(* Properties.                                                             *)

\* Every variable has its type, an entry of _no_progress has a count, and a
\* call that failed has no such entry.
TypeOK ==
    /\ exact \in [Signatures -> Nat]
    /\ same  \in [Tools -> Nat]
    /\ last  \in [Signatures -> Results \cup {"none"}]
    /\ times \in [Signatures -> Nat]
    /\ running \in [Threads -> SUBSET Calls]
    /\ \A s \in Signatures : last[s] = "none" <=> times[s] = 0
    /\ \A s \in Signatures : exact[s] > 0 => times[s] = 0

\* A tool fails at most SameHalt times in a row, and once more for every other
\* thread that had passed the check already, unless its calls are redirected.
SameToolHalts ==
    \A t \in Tools :
        (\A a \in Args : <<t, a>> \notin Redirected)
            => same[t] <= SameHalt - 1 + Cardinality(Threads)

\* ... and the same call of an external tool at most ExactBlock times.
McpRepeatsBlocked ==
    \A call \in Calls \ Redirected :
        call[1] \in Mcp => exact[SigAfter(call)] <= ExactBlock - 1 + Cardinality(Threads)

\* The failures of a tool's calls that no success has taken away, numbered.
OpenFailures(t) == {n \in Args \X (1..MaxCount) : n[2] <= exact[SigAfter(<<t, n[1]>>)]}

\* The failures held against a tool are all failures of calls that have not
\* succeeded since: a success of one call takes at least its failures away
\* (after_call pops the count of the call and that of the tool together).
FailuresAreOpen == \A t \in Tools : same[t] <= Cardinality(OpenFailures(t))

\* VIOLATED BY THE CODE.  The same call of any tool fails at most ExactBlock
\* times in a row ("failed with the same arguments: do not call it again").
\* before_call hashes the arguments without session_id, after_call with it.
RepeatsBlocked ==
    \A call \in Calls \ Redirected :
        exact[SigAfter(call)] <= ExactBlock - 1 + Cardinality(Threads)
=============================================================================
