------------------------ MODULE ToolGuardrailProofs ------------------------
(***************************************************************************)
(* Proofs about ToolGuardrail for any tools, thresholds and any number of  *)
(* chats that share the controller.                                        *)
(*                                                                         *)
(* A limit is checked when a call begins and counted when it has failed,   *)
(* so the invariant counts the calls in between: the failures so far and   *)
(* the threads that still execute such a call are together less than the   *)
(* limit plus the number of threads.                                       *)
(***************************************************************************)
EXTENDS ToolGuardrail, FiniteSetTheorems, TLAPS

\* The threads that execute a call of the set S.
Executing(S) == {x \in Threads : running[x] \cap S # {}}

ToolCalls(t) == {call \in Calls : call[1] = t}

Counted(t) == \A a \in Args : <<t, a>> \notin Redirected

SameBound ==
    \A t \in Tools : Counted(t) =>
        same[t] + Cardinality(Executing(ToolCalls(t))) <= SameHalt - 1 + Cardinality(Threads)

ExactBound ==
    \A call \in Calls \ Redirected : call[1] \in Mcp =>
        exact[SigAfter(call)] + Cardinality(Executing({call})) <= ExactBlock - 1 + Cardinality(Threads)

LEMMA Signed == \A call \in Calls : SigBefore(call) \in Signatures /\ SigAfter(call) \in Signatures
BY DEF Calls, Signatures, SigBefore, SigAfter

----------------------------------------------------------------------------
(* Types.                                                                  *)

LEMMA FailedType ==
    ASSUME TypeOK, NEW x \in Threads, NEW call \in Calls, Failed(x, call)
    PROVE  TypeOK'
<1>1. SigAfter(call) \in Signatures /\ call[1] \in Tools
  BY Signed DEF Calls
<1>2. QED
  BY <1>1 DEF TypeOK, Failed

LEMMA SucceededType ==
    ASSUME TypeOK, NEW x \in Threads, NEW call \in Calls, NEW r \in Results,
           "none" \notin Results, Succeeded(x, call, r)
    PROVE  TypeOK'
<1> DEFINE s == SigAfter(call)
<1>1. s \in Signatures /\ call[1] \in Tools
  BY Signed DEF Calls
<1>2. /\ running' = [running EXCEPT ![x] = {}]
      /\ exact' = [exact EXCEPT ![s] = 0]
      /\ same' = [same EXCEPT ![call[1]] = 0]
  BY DEF Succeeded
<1>3. CASE call[1] \in Idempotent
  <2>1. PICK n \in Nat \ {0} : /\ last' = [last EXCEPT ![s] = r]
                               /\ times' = [times EXCEPT ![s] = n]
    BY <1>1, <1>3 DEF Succeeded, TypeOK
  <2>2. QED
    BY <1>1, <1>2, <2>1 DEF TypeOK
<1>4. CASE call[1] \notin Idempotent
  <2>1. last' = [last EXCEPT ![s] = "none"] /\ times' = [times EXCEPT ![s] = 0]
    BY <1>4 DEF Succeeded
  <2>2. QED
    BY <1>1, <1>2, <2>1 DEF TypeOK
<1>5. QED
  BY <1>3, <1>4

LEMMA TypeStep == TypeOK /\ [Next]_vars => TypeOK'
<1> SUFFICES ASSUME TypeOK, [Next]_vars PROVE TypeOK'
  OBVIOUS
<1>1. ASSUME NEW x \in Threads, Dropped(x) PROVE TypeOK'
  BY <1>1 DEF Dropped, TypeOK
<1>2. ASSUME NEW x \in Threads, NEW call \in Calls, Before(x, call) PROVE TypeOK'
  BY <1>2 DEF Before, TypeOK
<1>3. ASSUME NEW x \in Threads, NEW call \in Calls, Failed(x, call) PROVE TypeOK'
  BY <1>3, FailedType
<1>4. ASSUME NEW x \in Threads, NEW call \in Calls, NEW r \in Results, Succeeded(x, call, r)
      PROVE  TypeOK'
  BY <1>4, SucceededType, GuardrailAssumption
<1>5. CASE UNCHANGED vars
  BY <1>5 DEF vars, TypeOK
<1>6. QED
  BY <1>1, <1>2, <1>3, <1>4, <1>5 DEF Next

\* Every variable keeps its type and the tables stay consistent: an entry of
\* _no_progress has a count, a call that failed has none.
THEOREM TypeCorrect == Spec => []TypeOK
<1>1. Init => TypeOK
  BY DEF Init, TypeOK
<1>2. QED
  BY <1>1, TypeStep, PTL DEF Spec

----------------------------------------------------------------------------
(* The threads in between.                                                 *)

LEMMA ExecutingFinite ==
    ASSUME NEW S
    PROVE  /\ IsFiniteSet(Executing(S))
           /\ Cardinality(Executing(S)) \in Nat
           /\ Cardinality(Threads) \in Nat
           /\ Cardinality(Executing(S)) <= Cardinality(Threads)
BY GuardrailAssumption, FS_Subset, FS_CardinalityType DEF Executing

\* When a thread leaves its call, it leaves the set of those that execute it.
LEMMA Leaves ==
    ASSUME TypeOK, NEW S, NEW x \in Threads, running' = [running EXCEPT ![x] = {}]
    PROVE  /\ Cardinality(Executing(S)') <= Cardinality(Executing(S))
           /\ Cardinality(Executing(S)') \in Nat
           /\ running[x] \cap S # {} => Cardinality(Executing(S)') = Cardinality(Executing(S)) - 1
<1>1. Executing(S)' = Executing(S) \ {x}
  BY DEF Executing, TypeOK
<1>2. IsFiniteSet(Executing(S)) /\ Cardinality(Executing(S)) \in Nat
  BY ExecutingFinite
<1>3. CASE x \in Executing(S)
  <2>1. Cardinality(Executing(S) \ {x}) = Cardinality(Executing(S)) - 1
    BY <1>2, <1>3, FS_RemoveElement
  <2>2. Cardinality(Executing(S) \ {x}) \in Nat
    BY <1>2, FS_RemoveElement, FS_CardinalityType
  <2>3. QED
    BY <1>1, <1>2, <2>1, <2>2
<1>4. CASE x \notin Executing(S)
  <2>1. Executing(S)' = Executing(S)
    BY <1>1, <1>4
  <2>2. running[x] \cap S = {}
    BY <1>4 DEF Executing
  <2>3. QED
    BY <1>2, <2>1, <2>2
<1>5. QED
  BY <1>3, <1>4

\* A call that is not in S leaves the threads that execute S alone.
LEMMA Enters ==
    ASSUME TypeOK, NEW S, NEW x \in Threads, NEW call \in Calls, Before(x, call), call \notin S
    PROVE  Executing(S)' = Executing(S)
BY DEF Executing, Before, TypeOK

LEMMA EnteredFinite ==
    ASSUME NEW S
    PROVE  /\ Cardinality(Executing(S)') \in Nat
           /\ Cardinality(Executing(S)') <= Cardinality(Threads)
<1>1. Executing(S)' \subseteq Threads
  BY DEF Executing
<1>2. QED
  BY <1>1, GuardrailAssumption, FS_Subset, FS_CardinalityType

----------------------------------------------------------------------------
(* SameToolHalts.                                                          *)

LEMMA SameStep == TypeOK /\ SameBound /\ [Next]_vars => SameBound'
<1> SUFFICES ASSUME TypeOK, SameBound, [Next]_vars, NEW t \in Tools, Counted(t)
             PROVE  same'[t] + Cardinality(Executing(ToolCalls(t))')
                        <= SameHalt - 1 + Cardinality(Threads)
  BY DEF SameBound, Counted, ToolCalls, Executing
<1> DEFINE S == ToolCalls(t)
<1>1. /\ same[t] \in Nat /\ same[t] + Cardinality(Executing(S)) <= SameHalt - 1 + Cardinality(Threads)
      /\ Cardinality(Executing(S)) \in Nat /\ Cardinality(Threads) \in Nat
      /\ SameHalt \in Nat \ {0}
  BY ExecutingFinite, GuardrailAssumption DEF SameBound, TypeOK
<1>2. ASSUME NEW x \in Threads, running' = [running EXCEPT ![x] = {}], same'[t] \in Nat, same'[t] <= same[t]
      PROVE  same'[t] + Cardinality(Executing(S)') <= SameHalt - 1 + Cardinality(Threads)
  <2>1. /\ Cardinality(Executing(S)') <= Cardinality(Executing(S))
        /\ Cardinality(Executing(S)') \in Nat
    BY <1>2, Leaves
  <2>2. QED
    BY <1>1, <1>2, <2>1
<1>3. ASSUME NEW x \in Threads, Dropped(x)
      PROVE  same'[t] + Cardinality(Executing(S)') <= SameHalt - 1 + Cardinality(Threads)
  <2>1. same'[t] \in Nat /\ same'[t] <= same[t] /\ running' = [running EXCEPT ![x] = {}]
    BY <1>1, <1>3 DEF Dropped
  <2>2. QED
    BY <1>2, <2>1
<1>4. ASSUME NEW x \in Threads, NEW call \in Calls, Before(x, call)
      PROVE  same'[t] + Cardinality(Executing(S)') <= SameHalt - 1 + Cardinality(Threads)
  <2>1. CASE call \in S
    <3>1. same[t] < SameHalt
      <4>1. call[1] = t /\ \E a \in Args : call = <<t, a>>
        BY <2>1 DEF ToolCalls, Calls
      <4>2. call \notin Redirected
        BY <4>1 DEF Counted
      <4>3. QED
        BY <1>4, <4>1, <4>2 DEF Before, Allows
    <3>2. same'[t] = same[t]
      BY <1>4 DEF Before
    <3>3. QED
      BY <1>1, <3>1, <3>2, EnteredFinite
  <2>2. CASE call \notin S
    BY <1>1, <1>4, <2>2, Enters DEF Before
  <2>3. QED
    BY <2>1, <2>2
<1>5. ASSUME NEW x \in Threads, NEW call \in Calls, Failed(x, call)
      PROVE  same'[t] + Cardinality(Executing(S)') <= SameHalt - 1 + Cardinality(Threads)
  <2>1. CASE call[1] = t
    <3>1. running[x] \cap S # {}
      BY <1>5, <2>1 DEF Failed, ToolCalls
    <3>2. Cardinality(Executing(S)') = Cardinality(Executing(S)) - 1
      BY <1>5, <3>1, Leaves DEF Failed
    <3>3. same'[t] = same[t] + 1
      BY <1>5, <2>1 DEF Failed, TypeOK
    <3>4. QED
      BY <1>1, <3>2, <3>3
  <2>2. CASE call[1] # t
    <3>1. same'[t] = same[t]
      BY <1>5, <2>2 DEF Failed, TypeOK
    <3>2. same'[t] \in Nat /\ same'[t] <= same[t] /\ running' = [running EXCEPT ![x] = {}]
      BY <1>1, <1>5, <3>1 DEF Failed
    <3>3. QED
      BY <1>2, <3>2
  <2>3. QED
    BY <2>1, <2>2
<1>6. ASSUME NEW x \in Threads, NEW call \in Calls, NEW r \in Results, Succeeded(x, call, r)
      PROVE  same'[t] + Cardinality(Executing(S)') <= SameHalt - 1 + Cardinality(Threads)
  <2>1. same'[t] \in Nat /\ same'[t] <= same[t] /\ running' = [running EXCEPT ![x] = {}]
    BY <1>1, <1>6 DEF Succeeded, TypeOK
  <2>2. QED
    BY <1>2, <2>1
<1>7. CASE UNCHANGED vars
  BY <1>1, <1>7 DEF vars, Executing
<1>8. QED
  BY <1>3, <1>4, <1>5, <1>6, <1>7 DEF Next

\* A tool fails at most SameHalt - 1 times in a row plus once per chat: the
\* limit of the configuration can be overrun only by calls already under way.
THEOREM ToolsAreHalted == Spec => []SameToolHalts
<1>1. Init => SameBound
  <2> SUFFICES ASSUME Init, NEW t \in Tools
               PROVE  same[t] + Cardinality(Executing(ToolCalls(t)))
                          <= SameHalt - 1 + Cardinality(Threads)
    BY DEF SameBound
  <2>1. same[t] = 0
    BY DEF Init
  <2>2. QED
    BY <2>1, ExecutingFinite, GuardrailAssumption
<1>2. TypeOK /\ SameBound => SameToolHalts
  <2> SUFFICES ASSUME TypeOK, SameBound, NEW t \in Tools, Counted(t)
               PROVE  same[t] <= SameHalt - 1 + Cardinality(Threads)
    BY DEF SameToolHalts, Counted
  <2>1. QED
    BY ExecutingFinite, GuardrailAssumption DEF SameBound, TypeOK
<1>3. QED
  BY <1>1, <1>2, TypeCorrect, SameStep, PTL DEF Spec

----------------------------------------------------------------------------
(* McpRepeatsBlocked.                                                      *)

\* The signature of an external tool is the same before and after the call.
LEMMA McpSignature ==
    ASSUME NEW call \in Calls, call[1] \in Mcp, NEW other \in Calls
    PROVE  /\ SigBefore(call) = SigAfter(call)
           /\ SigAfter(other) = SigAfter(call) => other = call
BY DEF Calls, SigBefore, SigAfter

LEMMA ExactStep == TypeOK /\ ExactBound /\ [Next]_vars => ExactBound'
<1> SUFFICES ASSUME TypeOK, ExactBound, [Next]_vars,
                    NEW c \in Calls \ Redirected, c[1] \in Mcp
             PROVE  exact'[SigAfter(c)] + Cardinality(Executing({c})')
                        <= ExactBlock - 1 + Cardinality(Threads)
  BY DEF ExactBound, Executing
<1> DEFINE s == SigAfter(c)
           S == {c}
<1>1. /\ exact[s] \in Nat /\ exact[s] + Cardinality(Executing(S)) <= ExactBlock - 1 + Cardinality(Threads)
      /\ Cardinality(Executing(S)) \in Nat /\ Cardinality(Threads) \in Nat
      /\ ExactBlock \in Nat \ {0}
  BY ExecutingFinite, GuardrailAssumption, Signed DEF ExactBound, TypeOK
<1>2. ASSUME NEW x \in Threads, running' = [running EXCEPT ![x] = {}],
             exact'[s] \in Nat, exact'[s] <= exact[s]
      PROVE  exact'[s] + Cardinality(Executing(S)') <= ExactBlock - 1 + Cardinality(Threads)
  <2>1. /\ Cardinality(Executing(S)') <= Cardinality(Executing(S))
        /\ Cardinality(Executing(S)') \in Nat
    BY <1>2, Leaves
  <2>2. QED
    BY <1>1, <1>2, <2>1
<1>3. ASSUME NEW x \in Threads, Dropped(x)
      PROVE  exact'[s] + Cardinality(Executing(S)') <= ExactBlock - 1 + Cardinality(Threads)
  <2>1. exact'[s] \in Nat /\ exact'[s] <= exact[s] /\ running' = [running EXCEPT ![x] = {}]
    BY <1>1, <1>3 DEF Dropped
  <2>2. QED
    BY <1>2, <2>1
<1>4. ASSUME NEW x \in Threads, NEW call \in Calls, Before(x, call)
      PROVE  exact'[s] + Cardinality(Executing(S)') <= ExactBlock - 1 + Cardinality(Threads)
  <2>1. CASE call = c
    <3>1. exact[s] < ExactBlock /\ exact' = exact
      BY <1>4, <2>1, McpSignature DEF Before, Allows
    <3>2. QED
      BY <1>1, <3>1, EnteredFinite
  <2>2. CASE call # c
    <3>1. Executing(S)' = Executing(S) /\ exact' = exact
      BY <1>4, <2>2, Enters DEF Before
    <3>2. QED
      BY <1>1, <3>1
  <2>3. QED
    BY <2>1, <2>2
<1>5. ASSUME NEW x \in Threads, NEW call \in Calls, Failed(x, call)
      PROVE  exact'[s] + Cardinality(Executing(S)') <= ExactBlock - 1 + Cardinality(Threads)
  <2>0. running' = [running EXCEPT ![x] = {}] /\ s \in Signatures
    BY <1>5, Signed DEF Failed
  <2>1. CASE call = c
    <3>1. running[x] \cap S # {}
      BY <1>5, <2>1 DEF Failed
    <3>2. Cardinality(Executing(S)') = Cardinality(Executing(S)) - 1
      BY <2>0, <3>1, Leaves
    <3>3. exact'[s] = exact[s] + 1
      BY <1>5, <2>0, <2>1 DEF Failed, TypeOK
    <3>4. QED
      BY <1>1, <3>2, <3>3
  <2>2. CASE call # c
    <3>1. SigAfter(call) # s
      BY <2>2, McpSignature
    <3>2. exact'[s] = exact[s]
      BY <1>5, <2>0, <3>1 DEF Failed, TypeOK
    <3>3. exact'[s] \in Nat /\ exact'[s] <= exact[s]
      BY <1>1, <3>2
    <3>4. QED
      BY <1>2, <2>0, <3>3
  <2>3. QED
    BY <2>1, <2>2
<1>6. ASSUME NEW x \in Threads, NEW call \in Calls, NEW r \in Results, Succeeded(x, call, r)
      PROVE  exact'[s] + Cardinality(Executing(S)') <= ExactBlock - 1 + Cardinality(Threads)
  <2>1. exact'[s] \in Nat /\ exact'[s] <= exact[s] /\ running' = [running EXCEPT ![x] = {}]
    BY <1>1, <1>6, Signed DEF Succeeded, TypeOK
  <2>2. QED
    BY <1>2, <2>1
<1>7. CASE UNCHANGED vars
  BY <1>1, <1>7 DEF vars, Executing
<1>8. QED
  BY <1>3, <1>4, <1>5, <1>6, <1>7 DEF Next

\* The same call of an external tool fails at most ExactBlock - 1 times in a row
\* plus once per chat.  (For the other tools RepeatsBlocked is refuted by TLC.)
THEOREM ExternalRepeatsAreBlocked == Spec => []McpRepeatsBlocked
<1>1. Init => ExactBound
  <2> SUFFICES ASSUME Init, NEW c \in Calls
               PROVE  exact[SigAfter(c)] + Cardinality(Executing({c}))
                          <= ExactBlock - 1 + Cardinality(Threads)
    BY DEF ExactBound
  <2>1. exact[SigAfter(c)] = 0
    BY Signed DEF Init
  <2>2. QED
    BY <2>1, ExecutingFinite, GuardrailAssumption
<1>2. TypeOK /\ ExactBound => McpRepeatsBlocked
  <2> SUFFICES ASSUME TypeOK, ExactBound, NEW c \in Calls \ Redirected, c[1] \in Mcp
               PROVE  exact[SigAfter(c)] <= ExactBlock - 1 + Cardinality(Threads)
    BY DEF McpRepeatsBlocked
  <2>1. exact[SigAfter(c)] \in Nat
    BY Signed DEF TypeOK
  <2>2. exact[SigAfter(c)] + Cardinality(Executing({c})) <= ExactBlock - 1 + Cardinality(Threads)
    BY DEF ExactBound
  <2>3. QED
    BY <2>1, <2>2, ExecutingFinite, GuardrailAssumption
<1>3. QED
  BY <1>1, <1>2, TypeCorrect, ExactStep, PTL DEF Spec
----------------------------------------------------------------------------
(* FailuresAreOpen: every failure counted against a tool has a number of   *)
(* its own among the open failures of its calls.                           *)

FailuresInv ==
    /\ \A s \in Signatures : exact[s] <= MaxCount
    /\ \A t \in Tools : IsFiniteSet(OpenFailures(t))
    /\ FailuresAreOpen

\* A counter that grows opens one failure, and no other.
LEMMA OneMoreOpen ==
    ASSUME TypeOK, FailuresInv, NEW x \in Threads, NEW call \in Calls, Failed(x, call)
    PROVE  FailuresInv'
<1> DEFINE s == SigAfter(call)
           new == <<call[2], exact[s] + 1>>
<1>0. /\ s \in Signatures /\ call[1] \in Tools /\ call[2] \in Args /\ call = <<call[1], call[2]>>
      /\ exact[s] \in Nat /\ exact[s] + 1 \in 1..MaxCount
  BY Signed, GuardrailAssumption DEF Calls, Failed, TypeOK
<1>1. /\ exact' = [exact EXCEPT ![s] = exact[s] + 1] /\ exact'[s] = exact[s] + 1
      /\ same' = [same EXCEPT ![call[1]] = same[call[1]] + 1]
  BY <1>0 DEF Failed, TypeOK
<1>2. \A z \in Signatures : exact'[z] <= MaxCount
  BY <1>0, <1>1, GuardrailAssumption DEF FailuresInv, TypeOK
<1>3. ASSUME NEW t \in Tools
      PROVE  IsFiniteSet(OpenFailures(t)') /\ same'[t] <= Cardinality(OpenFailures(t)')
  <2>0. IsFiniteSet(OpenFailures(t)) /\ same[t] <= Cardinality(OpenFailures(t)) /\ same[t] \in Nat
    BY DEF FailuresInv, FailuresAreOpen, TypeOK
  <2>1. \A a \in Args : SigAfter(<<t, a>>) \in Signatures
    BY Signed DEF Calls
  <2>2. CASE t = call[1]
    <3>1. SigAfter(<<t, call[2]>>) = s
      BY <1>0, <2>2
    <3>2. \A a \in Args : a # call[2] => exact'[SigAfter(<<t, a>>)] = exact[SigAfter(<<t, a>>)]
      <4>1. \A a \in Args : a # call[2] => SigAfter(<<t, a>>) # s
        BY <2>2 DEF SigAfter
      <4>2. QED
        BY <1>1, <2>1, <4>1 DEF TypeOK
    <3>3. OpenFailures(t)' = OpenFailures(t) \cup {new}
      <4>1. \A i \in 1..MaxCount : i <= exact[s] + 1 <=> i <= exact[s] \/ i = exact[s] + 1
        BY <1>0
      <4>2. \A n \in Args \X (1..MaxCount) : n \in OpenFailures(t)' <=> n \in OpenFailures(t) \/ n = new
        <5> SUFFICES ASSUME NEW a \in Args, NEW i \in 1..MaxCount
                     PROVE  <<a, i>> \in OpenFailures(t)' <=> <<a, i>> \in OpenFailures(t) \/ <<a, i>> = new
          OBVIOUS
        <5>1. CASE a = call[2]
          BY <1>0, <1>1, <3>1, <4>1, <5>1 DEF OpenFailures
        <5>2. CASE a # call[2]
          BY <3>2, <5>2 DEF OpenFailures
        <5>3. QED
          BY <5>1, <5>2
      <4>3. new \in Args \X (1..MaxCount)
        BY <1>0
      <4>4. OpenFailures(t) \subseteq Args \X (1..MaxCount) /\ OpenFailures(t)' \subseteq Args \X (1..MaxCount)
        BY DEF OpenFailures
      <4>5. QED
        BY <4>2, <4>3, <4>4
    <3>4. new \notin OpenFailures(t)
      <4>1. ~(exact[s] + 1 <= exact[s])
        BY <1>0
      <4>2. QED
        BY <3>1, <4>1 DEF OpenFailures
    <3>5. /\ IsFiniteSet(OpenFailures(t)')
          /\ Cardinality(OpenFailures(t)') = Cardinality(OpenFailures(t)) + 1
      BY <2>0, <3>3, <3>4, FS_AddElement
    <3>6. same'[t] = same[t] + 1 /\ Cardinality(OpenFailures(t)) \in Nat
      BY <1>1, <2>0, <2>2, FS_CardinalityType DEF TypeOK
    <3>7. QED
      BY <2>0, <3>5, <3>6
  <2>3. CASE t # call[1]
    <3>1. \A a \in Args : SigAfter(<<t, a>>) # s
      BY <2>3 DEF SigAfter
    <3>2. \A a \in Args : exact'[SigAfter(<<t, a>>)] = exact[SigAfter(<<t, a>>)]
      BY <1>1, <2>1, <3>1 DEF TypeOK
    <3>3. OpenFailures(t)' = OpenFailures(t) /\ same'[t] = same[t]
      BY <1>1, <2>3, <3>2 DEF OpenFailures, TypeOK
    <3>4. QED
      BY <2>0, <3>3
  <2>4. QED
    BY <2>2, <2>3
<1>4. QED
  BY <1>2, <1>3 DEF FailuresInv, FailuresAreOpen

\* A success closes the failures of its call and forgets those of the tool.
LEMMA SuccessCloses ==
    ASSUME TypeOK, FailuresInv, NEW x \in Threads, NEW call \in Calls, NEW r \in Results,
           Succeeded(x, call, r)
    PROVE  FailuresInv'
<1> DEFINE s == SigAfter(call)
<1>0. s \in Signatures /\ call[1] \in Tools
  BY Signed DEF Calls
<1>1. exact' = [exact EXCEPT ![s] = 0] /\ same' = [same EXCEPT ![call[1]] = 0]
  BY DEF Succeeded
<1>2. \A z \in Signatures : exact'[z] \in Nat /\ exact'[z] <= exact[z] /\ exact'[z] <= MaxCount
  BY <1>0, <1>1, GuardrailAssumption DEF FailuresInv, TypeOK
<1>3. ASSUME NEW t \in Tools
      PROVE  IsFiniteSet(OpenFailures(t)') /\ same'[t] <= Cardinality(OpenFailures(t)')
  <2>0. IsFiniteSet(OpenFailures(t)) /\ same[t] <= Cardinality(OpenFailures(t))
    BY DEF FailuresInv, FailuresAreOpen
  <2>1. \A a \in Args : SigAfter(<<t, a>>) \in Signatures
    BY Signed DEF Calls
  <2>2. OpenFailures(t)' \subseteq OpenFailures(t)
    <3>1. \A a \in Args, i \in 1..MaxCount :
            i <= exact'[SigAfter(<<t, a>>)] => i <= exact[SigAfter(<<t, a>>)]
      BY <1>2, <2>1 DEF TypeOK
    <3>2. QED
      BY <3>1 DEF OpenFailures
  <2>3. IsFiniteSet(OpenFailures(t)') /\ Cardinality(OpenFailures(t)') \in Nat
    BY <2>0, <2>2, FS_Subset, FS_CardinalityType
  <2>4. CASE t = call[1]
    BY <1>0, <1>1, <2>3, <2>4 DEF TypeOK
  <2>5. CASE t # call[1]
    <3>1. \A a \in Args : SigAfter(<<t, a>>) # s
      BY <2>5 DEF SigAfter
    <3>2. \A a \in Args : exact'[SigAfter(<<t, a>>)] = exact[SigAfter(<<t, a>>)]
      BY <1>1, <2>1, <3>1 DEF TypeOK
    <3>3. OpenFailures(t)' = OpenFailures(t) /\ same'[t] = same[t]
      BY <1>1, <2>5, <3>2 DEF OpenFailures, TypeOK
    <3>4. QED
      BY <2>0, <3>3
  <2>6. QED
    BY <2>4, <2>5
<1>4. QED
  BY <1>2, <1>3 DEF FailuresInv, FailuresAreOpen

\* However the failures and successes of several chats mix, a tool is held to
\* account only for failures that no success has taken away since.
THEOREM HeldFailuresAreOpen == Spec => []FailuresAreOpen
<1>1. ASSUME Init PROVE FailuresInv
  <2>1. \A t \in Tools : OpenFailures(t) = {}
    <3>1. \A t \in Tools, a \in Args : exact[SigAfter(<<t, a>>)] = 0
      BY <1>1, Signed DEF Init, Calls
    <3>2. QED
      BY <3>1 DEF OpenFailures
  <2>2. IsFiniteSet({}) /\ Cardinality({}) = 0
    BY FS_EmptySet
  <2>3. \A s \in Signatures : exact[s] <= MaxCount
    BY <1>1, GuardrailAssumption DEF Init
  <2>4. \A t \in Tools : same[t] <= Cardinality(OpenFailures(t)) /\ IsFiniteSet(OpenFailures(t))
    BY <1>1, <2>1, <2>2 DEF Init
  <2>5. QED
    BY <2>3, <2>4 DEF FailuresInv, FailuresAreOpen
<1>2. TypeOK /\ FailuresInv /\ [Next]_vars => FailuresInv'
  <2> SUFFICES ASSUME TypeOK, FailuresInv, [Next]_vars PROVE FailuresInv'
    OBVIOUS
  <2>1. ASSUME UNCHANGED <<exact, same>> PROVE FailuresInv'
    BY <2>1 DEF FailuresInv, FailuresAreOpen, OpenFailures
  <2>2. CASE UNCHANGED vars
    BY <2>1, <2>2 DEF vars
  <2>3. ASSUME NEW x \in Threads, Dropped(x) \/ \E call \in Calls : Before(x, call)
        PROVE  FailuresInv'
    BY <2>1, <2>3 DEF Dropped, Before
  <2>4. QED
    BY <2>2, <2>3, OneMoreOpen, SuccessCloses DEF Next
<1>3. FailuresInv => FailuresAreOpen
  BY DEF FailuresInv
<1>4. QED
  BY <1>1, <1>2, <1>3, TypeCorrect, PTL DEF Spec
=============================================================================
