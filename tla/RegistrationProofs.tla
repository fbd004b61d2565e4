------------------------ MODULE RegistrationProofs ------------------------
(***************************************************************************)
(* Theorems about Registration, for any number of identities drawn.  The   *)
(* inductive invariant says what identity.json, the document in memory,    *)
(* the one being written and the service know of each other at each        *)
(* position of the process.                                                *)
(***************************************************************************)
EXTENDS Registration, TLAPS

\* What the service and the network know of the directory's agents.
ServiceKnows ==
    /\ \A a \in Agents : keyOf[a] # 0 => file.agent = a
    /\ \A a \in late : file.agent = a
    /\ file.key # 0 => file.agent \in Agents /\ keyOf[file.agent] = file.key

\* A process that is not writing has the durable document in memory.
InMemory ==
    /\ ~up => pc = "idle" /\ memory = NoDocument /\ ~halted
    /\ up /\ pc # "write" => memory = file /\ file.agent \in Agents
    /\ pc = "sent" => memory.key = 0

\* What is written is a first identity, or the key_id the service has for the
\* identity that is already durable.
Written ==
    pc = "write" =>
        /\ memory.key = 0
        /\ draft.agent \in Agents
        /\ \/ /\ draft.key = 0
              /\ file = NoDocument /\ constructing /\ ~halted
           \/ /\ draft.key # 0 /\ keyOf[draft.agent] = draft.key
              /\ memory = file /\ draft.agent = file.agent

\* There is a reason not to try again.
Resolvable == ~authorised \/ memory.agent \in revoked \/ memory.agent \notin acceptable

Answered ==
    /\ answer # NoAnswer => pc = "sent"
    /\ answer \in KeyIds => keyOf[memory.agent] = answer
    /\ answer = Rejected => Resolvable

Halts == halted => Resolvable

IInv == TypeOK /\ ServiceKnows /\ InMemory /\ Written /\ Answered /\ Halts

\* What agents, key ids, answers and documents are is visible throughout.
USE AgentsAssumption DEF Agents, KeyIds, NoAnswer, Rejected, NoDocument, Document

\* The document of a directory without one is typed.
LEMMA NoDocumentTyped == NoDocument \in Document
OBVIOUS

\* A new directory satisfies the invariant.
LEMMA InitIInv == Init => IInv
<1>1. Init => TypeOK
  <2> SUFFICES ASSUME Init PROVE TypeOK
    OBVIOUS
  <2>1. file \in Document /\ memory \in Document /\ draft \in Document
    BY DEF Init
  <2>2. keyOf \in [Agents -> KeyIds \cup {0}]
    BY DEF Init
  <2>3. drawn \in 0..MaxAgents /\ acceptable \subseteq 1..drawn
    BY DEF Init
  <2> QED
    BY <2>1, <2>2, <2>3 DEF Init, TypeOK
<1>2. Init => ServiceKnows /\ InMemory
  BY DEF Init, ServiceKnows, InMemory
<1>3. Init => Written /\ Answered /\ Halts
  BY DEF Init, Written, Answered, Halts
<1> QED
  BY <1>1, <1>2, <1>3 DEF IInv

\* Starts: the process takes the durable document or draws its first one.
LEMMA StartStep ==
  ASSUME IInv, Start
  PROVE  IInv'
<1>1. CASE StartFromFile
  <2>1. TypeOK'
    BY <1>1 DEF IInv, TypeOK, StartFromFile, BeginStart, drawnVars, serviceVars
  <2>2. (ServiceKnows /\ InMemory)'
    BY <1>1 DEF IInv, TypeOK, ServiceKnows, InMemory, StartFromFile, BeginStart, serviceVars
  <2>3. (Written /\ Answered /\ Halts)'
    BY <1>1 DEF IInv, InMemory, Answered, Written, Halts, StartFromFile, BeginStart
  <2> QED
    BY <2>1, <2>2, <2>3 DEF IInv
<1>2. CASE Bootstrap
  <2>1. TypeOK'
    BY <1>2 DEF IInv, TypeOK, Bootstrap, BeginStart, Draw, serviceVars
  <2>2. (ServiceKnows /\ InMemory)'
    BY <1>2 DEF IInv, ServiceKnows, InMemory, Bootstrap, BeginStart, serviceVars
  <2>3. (Written /\ Answered /\ Halts)'
    BY <1>2 DEF IInv, TypeOK, InMemory, Answered, Written, Halts, Bootstrap, BeginStart, Draw
  <2> QED
    BY <2>1, <2>2, <2>3 DEF IInv
<1> QED
  BY <1>1, <1>2 DEF Start

\* The process ends: what it was writing reached the disk or did not, and its
\* request is in the network.
LEMMA CrashStep ==
  ASSUME IInv, Crash
  PROVE  IInv'
<1>1. file' \in {file, draft} /\ (pc # "write" => file' = file)
  BY DEF Crash
<1>2. late' \subseteq late \cup {memory.agent} /\ (pc # "sent" => late' = late)
  BY DEF Crash, Leave, GivenUp
<1>3. TypeOK'
  BY <1>1, <1>2 DEF IInv, TypeOK, InMemory, Crash, Leave, drawnVars, serviceVars
<1>4. ServiceKnows'
  BY <1>1, <1>2 DEF IInv, TypeOK, ServiceKnows, InMemory, Written, Crash, serviceVars
<1>5. (InMemory /\ Written /\ Answered /\ Halts)'
  BY DEF InMemory, Written, Answered, Halts, Crash, Leave
<1> QED
  BY <1>3, <1>4, <1>5 DEF IInv

\* A write ends.
LEMMA WriteStep ==
  ASSUME IInv, WriteSucceeds \/ WriteFails
  PROVE  IInv'
<1>1. CASE WriteSucceeds
  <2>1. TypeOK'
    BY <1>1 DEF IInv, TypeOK, InMemory, WriteSucceeds, drawnVars, serviceVars
  <2>2. (ServiceKnows /\ InMemory)'
    BY <1>1 DEF IInv, TypeOK, ServiceKnows, InMemory, Written, WriteSucceeds, drawnVars,
                serviceVars
  <2>3. (Written /\ Answered /\ Halts)'
    BY <1>1 DEF IInv, TypeOK, ServiceKnows, InMemory, Written, Answered, Halts, Resolvable,
                WriteSucceeds, drawnVars, serviceVars
  <2> QED
    BY <2>1, <2>2, <2>3 DEF IInv
<1>2. CASE WriteFails /\ constructing
  <2>1. TypeOK'
    <3>1. memory' \in Document /\ draft' \in Document /\ late' = late
      BY <1>2, NoDocumentTyped DEF WriteFails, Leave
    <3>2. answer' \in KeyIds \cup {NoAnswer, Rejected}
      BY <1>2 DEF WriteFails, Leave
    <3> QED
      BY <1>2, <3>1, <3>2 DEF IInv, TypeOK, WriteFails, Leave, drawnVars, serviceVars
  <2>2. ServiceKnows'
    BY <1>2 DEF IInv, ServiceKnows, WriteFails, Leave, serviceVars
  <2>3. (InMemory /\ Written /\ Answered /\ Halts)'
    BY <1>2 DEF InMemory, Written, Answered, Halts, WriteFails, Leave
  <2> QED
    BY <2>1, <2>2, <2>3 DEF IInv
<1>3. CASE WriteFails /\ ~constructing
  <2>1. TypeOK'
    BY <1>3, NoDocumentTyped DEF IInv, TypeOK, WriteFails, drawnVars, serviceVars
  <2>2. (ServiceKnows /\ InMemory)'
    BY <1>3 DEF IInv, TypeOK, ServiceKnows, InMemory, Written, WriteFails, serviceVars
  <2>3. (Written /\ Answered /\ Halts)'
    BY <1>3 DEF IInv, Written, Answered, Halts, Resolvable, WriteFails, drawnVars, serviceVars
  <2> QED
    BY <2>1, <2>2, <2>3 DEF IInv
<1> QED
  BY <1>1, <1>2, <1>3

\* ensure_registered up to the request, and time.
LEMMA EnsureStep ==
  ASSUME IInv, Call \/ EnsureReturns \/ Attempt \/ Elapse
  PROVE  IInv'
<1>1. CASE Call
  <2>1. TypeOK'
    BY <1>1 DEF IInv, TypeOK, InMemory, Call, MayAttempt, CanSign, drawnVars, serviceVars
  <2>2. (ServiceKnows /\ InMemory)'
    BY <1>1 DEF IInv, TypeOK, ServiceKnows, InMemory, Written, Call, MayAttempt, CanSign,
                drawnVars, serviceVars
  <2>3. (Written /\ Answered /\ Halts)'
    BY <1>1 DEF IInv, TypeOK, ServiceKnows, InMemory, Written, Answered, Halts, Resolvable,
                Call, MayAttempt, CanSign, drawnVars, serviceVars
  <2> QED
    BY <2>1, <2>2, <2>3 DEF IInv
<1>2. CASE EnsureReturns
  <2>1. TypeOK'
    BY <1>2 DEF IInv, TypeOK, InMemory, EnsureReturns, MayAttempt, CanSign, drawnVars,
                serviceVars
  <2>2. (ServiceKnows /\ InMemory)'
    BY <1>2 DEF IInv, TypeOK, ServiceKnows, InMemory, Written, EnsureReturns, MayAttempt,
                CanSign, drawnVars, serviceVars
  <2>3. (Written /\ Answered /\ Halts)'
    BY <1>2 DEF IInv, TypeOK, ServiceKnows, InMemory, Written, Answered, Halts, Resolvable,
                EnsureReturns, MayAttempt, CanSign, drawnVars, serviceVars
  <2> QED
    BY <2>1, <2>2, <2>3 DEF IInv
<1>3. CASE Attempt
  <2>1. TypeOK'
    BY <1>3 DEF IInv, TypeOK, InMemory, Attempt, MayAttempt, CanSign, drawnVars, serviceVars
  <2>2. (ServiceKnows /\ InMemory)'
    BY <1>3 DEF IInv, TypeOK, ServiceKnows, InMemory, Written, Attempt, MayAttempt,
                CanSign, drawnVars, serviceVars
  <2>3. (Written /\ Answered /\ Halts)'
    BY <1>3 DEF IInv, TypeOK, ServiceKnows, InMemory, Written, Answered, Halts, Resolvable,
                Attempt, MayAttempt, CanSign, drawnVars, serviceVars
  <2> QED
    BY <2>1, <2>2, <2>3 DEF IInv
<1>4. CASE Elapse
  <2>1. TypeOK'
    <3> HIDE DEF Agents, KeyIds, Document
    <3> QED
      BY <1>4 DEF IInv, TypeOK, Elapse, drawnVars, serviceVars
  <2>2. (ServiceKnows /\ InMemory)'
    BY <1>4 DEF IInv, TypeOK, ServiceKnows, InMemory, Written, Elapse, MayAttempt, CanSign,
                drawnVars, serviceVars
  <2>3. (Written /\ Answered /\ Halts)'
    BY <1>4 DEF IInv, TypeOK, ServiceKnows, InMemory, Written, Answered, Halts, Resolvable,
                Elapse, MayAttempt, CanSign, drawnVars, serviceVars
  <2> QED
    BY <2>1, <2>2, <2>3 DEF IInv
<1> QED
  BY <1>1, <1>2, <1>3, <1>4

\* The end of an attempt.
LEMMA AttemptStep ==
  ASSUME IInv, AttemptFails \/ Refused \/ Activate
  PROVE  IInv'
<1>1. CASE AttemptFails
  <2>1. TypeOK'
    BY <1>1 DEF IInv, TypeOK, InMemory, AttemptFails, GivenUp, drawnVars, serviceVars
  <2>2. (ServiceKnows /\ InMemory)'
    BY <1>1 DEF IInv, TypeOK, ServiceKnows, InMemory, Written, AttemptFails, GivenUp,
                drawnVars, serviceVars
  <2>3. (Written /\ Answered /\ Halts)'
    BY <1>1 DEF IInv, TypeOK, ServiceKnows, InMemory, Written, Answered, Halts, Resolvable,
                AttemptFails, GivenUp, drawnVars, serviceVars
  <2> QED
    BY <2>1, <2>2, <2>3 DEF IInv
<1>2. CASE Refused
  <2>1. TypeOK'
    BY <1>2 DEF IInv, TypeOK, InMemory, Refused, GivenUp, drawnVars, serviceVars
  <2>2. (ServiceKnows /\ InMemory)'
    BY <1>2 DEF IInv, TypeOK, ServiceKnows, InMemory, Written, Refused, GivenUp, drawnVars,
                serviceVars
  <2>3. (Written /\ Answered /\ Halts)'
    BY <1>2 DEF IInv, TypeOK, ServiceKnows, InMemory, Written, Answered, Halts, Resolvable,
                Refused, GivenUp, drawnVars, serviceVars
  <2> QED
    BY <2>1, <2>2, <2>3 DEF IInv
<1>3. CASE Activate
  <2>1. TypeOK'
    BY <1>3 DEF IInv, TypeOK, InMemory, Activate, GivenUp, drawnVars, serviceVars
  <2>2. (ServiceKnows /\ InMemory)'
    BY <1>3 DEF IInv, TypeOK, ServiceKnows, InMemory, Written, Activate, GivenUp,
                drawnVars, serviceVars
  <2>3. (Written /\ Answered /\ Halts)'
    BY <1>3 DEF IInv, TypeOK, ServiceKnows, InMemory, Written, Answered, Halts, Resolvable,
                Activate, GivenUp, drawnVars, serviceVars
  <2> QED
    BY <2>1, <2>2, <2>3 DEF IInv
<1> QED
  BY <1>1, <1>2, <1>3

\* The service registers an agent: the only keys that appear or are answered are
\* those of the agent asked about.
LEMMA RegisterKeeps ==
  ASSUME TypeOK, NEW agent \in Agents, Register(agent)
  PROVE  /\ keyOf' \in [Agents -> KeyIds \cup {0}]
         /\ keyOf'[agent] \in KeyIds
         /\ \A a \in Agents : a # agent \/ keyOf[a] # 0 => keyOf'[a] = keyOf[a]
BY DEF TypeOK, Register

\* The service and its operators act; the process does not move.
LEMMA ServiceStep ==
  ASSUME IInv, \/ Serve \/ Reject
               \/ \E agent \in Agents : ServeLate(agent) \/ Revoke(agent)
  PROVE  IInv'
<1>1. CASE Serve
  <2>1. memory = file /\ file.agent \in Agents /\ up /\ file.key = 0
    BY <1>1 DEF IInv, TypeOK, InMemory, Serve
  <2>2. /\ keyOf' \in [Agents -> KeyIds \cup {0}]
        /\ answer' = keyOf'[memory.agent] /\ answer' \in KeyIds
        /\ \A a \in Agents : a # file.agent \/ keyOf[a] # 0 => keyOf'[a] = keyOf[a]
    BY <1>1, <2>1, RegisterKeeps DEF IInv, Serve
  <2>3. TypeOK'
    BY <1>1, <2>2 DEF IInv, TypeOK, Serve, drawnVars, processVars
  <2>4. (ServiceKnows /\ InMemory)'
    BY <1>1, <2>1, <2>2 DEF IInv, ServiceKnows, InMemory, Serve, processVars
  <2>5. (Written /\ Answered /\ Halts)'
    BY <1>1, <2>1, <2>2 DEF IInv, Written, Answered, Halts, Resolvable, Serve, drawnVars,
                            processVars
  <2> QED
    BY <2>3, <2>4, <2>5 DEF IInv
<1>2. CASE Reject
  <2>1. TypeOK'
    BY <1>2 DEF IInv, TypeOK, Reject, drawnVars, processVars, serviceVars
  <2>2. (ServiceKnows /\ InMemory)'
    BY <1>2 DEF IInv, ServiceKnows, InMemory, Reject, drawnVars, processVars, serviceVars
  <2>3. (Written /\ Answered /\ Halts)'
    BY <1>2 DEF IInv, Written, Answered, Halts, Resolvable, Accepts, Reject, drawnVars,
                processVars, serviceVars
  <2> QED
    BY <2>1, <2>2, <2>3 DEF IInv
<1>3. ASSUME NEW agent \in Agents, ServeLate(agent)
      PROVE  IInv'
  <2>1. agent = file.agent
    BY <1>3 DEF IInv, ServiceKnows, ServeLate
  <2>2. /\ keyOf' \in [Agents -> KeyIds \cup {0}]
        /\ \A a \in Agents : a # file.agent \/ keyOf[a] # 0 => keyOf'[a] = keyOf[a]
    BY <1>3, <2>1, RegisterKeeps DEF IInv, ServeLate
  <2>3. TypeOK'
    BY <1>3, <2>2 DEF IInv, TypeOK, ServeLate, drawnVars, processVars
  <2>4. (ServiceKnows /\ InMemory)'
    BY <1>3, <2>1, <2>2 DEF IInv, TypeOK, ServiceKnows, InMemory, ServeLate, processVars
  <2>5. (Written /\ Answered /\ Halts)'
    BY <1>3, <2>1, <2>2 DEF IInv, TypeOK, InMemory, Written, Answered, Halts, Resolvable,
                            ServeLate, drawnVars, processVars
  <2> QED
    BY <2>3, <2>4, <2>5 DEF IInv
<1>4. ASSUME NEW agent \in Agents, Revoke(agent)
      PROVE  IInv'
  <2>1. TypeOK'
    BY <1>4 DEF IInv, TypeOK, Revoke, drawnVars, processVars
  <2>2. (ServiceKnows /\ InMemory)'
    BY <1>4 DEF IInv, ServiceKnows, InMemory, Revoke, processVars
  <2>3. (Written /\ Answered /\ Halts)'
    BY <1>4 DEF IInv, Written, Answered, Halts, Resolvable, Revoke, drawnVars, processVars
  <2> QED
    BY <2>1, <2>2, <2>3 DEF IInv
<1> QED
  BY <1>1, <1>2, <1>3, <1>4

\* Nothing happens.
LEMMA StutterStep ==
  ASSUME IInv, UNCHANGED vars
  PROVE  IInv'
<1>1. TypeOK'
  BY DEF IInv, TypeOK, vars, drawnVars, processVars, serviceVars
<1>2. (ServiceKnows /\ InMemory)'
  BY DEF IInv, ServiceKnows, InMemory, vars, drawnVars, processVars, serviceVars
<1>3. (Written /\ Answered /\ Halts)'
  BY DEF IInv, Written, Answered, Halts, Resolvable, vars, drawnVars, processVars, serviceVars
<1> QED
  BY <1>1, <1>2, <1>3 DEF IInv

\* The file, the memory, the write under way and the service agree at every
\* position of the process.
THEOREM Invariant == Spec => []IInv
<1>1. IInv /\ [Next]_vars => IInv'
  <2> SUFFICES ASSUME IInv, [Next]_vars PROVE IInv'
    OBVIOUS
  <2>1. CASE Start
    BY <2>1, StartStep
  <2>2. CASE Crash
    BY <2>2, CrashStep
  <2>3. CASE WriteSucceeds \/ WriteFails
    BY <2>3, WriteStep
  <2>4. CASE Call \/ EnsureReturns \/ Attempt \/ Elapse
    BY <2>4, EnsureStep
  <2>5. CASE AttemptFails \/ Refused \/ Activate
    BY <2>5, AttemptStep
  <2>6. CASE Serve \/ Reject \/ \E agent \in Agents : ServeLate(agent) \/ Revoke(agent)
    BY <2>6, ServiceStep
  <2>7. CASE UNCHANGED vars
    BY <2>7, StutterStep
  <2> QED
    BY <2>1, <2>2, <2>3, <2>4, <2>5, <2>6, <2>7 DEF Next
<1> QED
  BY <1>1, InitIInv, PTL DEF Spec

\* Type correctness.
THEOREM TypesHold == Spec => []TypeOK
<1>1. IInv => TypeOK
  BY DEF IInv
<1> QED
  BY <1>1, Invariant, PTL

\* The service never knows another agent of the directory than the durable one,
\* whatever is lost, late, repeated or cut off by a crash.
THEOREM OneAgent == Spec => []OneAgentPerDirectory
<1>1. IInv => OneAgentPerDirectory
  BY DEF IInv, ServiceKnows, OneAgentPerDirectory
<1> QED
  BY <1>1, Invariant, PTL

\* A client that can sign does so under the durable key_id the service has.
THEOREM SigningHolds == Spec => []SignsAsRegistered
<1>1. IInv => SignsAsRegistered
  <2> SUFFICES ASSUME IInv, memory.key # 0
               PROVE  file = memory /\ keyOf[memory.agent] = memory.key
    BY DEF SignsAsRegistered, CanSign
  <2>1. up /\ pc # "write"
    BY DEF IInv, InMemory, Written
  <2> QED
    BY <2>1 DEF IInv, InMemory, ServiceKnows
<1> QED
  BY <1>1, Invariant, PTL

\* Attempts stop only when there is something for an operator to resolve.
THEOREM HaltsForCause == Spec => []HaltedForCause
<1>1. IInv => HaltedForCause
  BY DEF IInv, Halts, Resolvable, HaltedForCause
<1> QED
  BY <1>1, Invariant, PTL

\* A durable identity is never replaced, a registered one never lost.
THEOREM IdentityKept == Spec => IdentityIsForever
<1> DEFINE Kept == /\ file'.agent = file.agent
                   /\ file.key # 0 => file' = file
<1>1. IInv /\ [Next]_vars => (file # NoDocument => Kept)
  <2> SUFFICES ASSUME IInv, [Next]_vars, file # NoDocument
               PROVE  Kept
    OBVIOUS
  <2>1. CASE pc = "write" /\ file' = draft
    BY <2>1 DEF IInv, TypeOK, InMemory, Written
  <2>2. CASE file' = file
    BY <2>2
  <2>3. file' = file \/ (pc = "write" /\ file' = draft)
    <3>1. CASE WriteSucceeds \/ Crash
      BY <3>1 DEF WriteSucceeds, Crash
    <3>2. CASE UNCHANGED file
      BY <3>2
    <3> QED
      BY <3>1, <3>2 DEF Next, Start, StartFromFile, Bootstrap, WriteFails, Call, EnsureReturns,
            Attempt, Elapse, AttemptFails, Refused, Activate, Serve, Reject, ServeLate, Revoke,
            vars
  <2> QED
    BY <2>1, <2>2, <2>3
<1>2. IInv /\ [Next]_vars => [file # NoDocument => Kept]_vars
  BY <1>1
<1> QED
  BY <1>2, Invariant, PTL DEF Spec, IdentityIsForever
============================================================================
