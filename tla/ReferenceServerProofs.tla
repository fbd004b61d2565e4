----------------------- MODULE ReferenceServerProofs -----------------------
(***************************************************************************)
(* Theorems about ReferenceServer, for every set of candidates, agents and *)
(* keys and every bound.  The inductive invariant relates the two tables   *)
(* to each other, to the chain rule, to the registered keys and to what    *)
(* was or is about to be answered.                                         *)
(***************************************************************************)
EXTENDS ReferenceServer, FiniteSetTheorems, SequenceTheorems, TLAPS

\* An accepted candidate and nothing else is in the table events.
Typed ==
    /\ registered \in [Agents -> Keys \cup {NoKey}]
    /\ revoked \subseteq Agents \X {"agent", "key"}
    /\ \A stored \in events : \E envelope \in Envelopes :
           /\ envelope.wellFormed
           /\ stored = [event |-> envelope.event, signature |-> envelope.signature]
    /\ now \in 0..MaxTime
    /\ results \in Seq(Result) /\ Len(results) <= MaxBatch

\* events and receipts have the same event ids, each once; a receipt's number
\* is its place in the order of issue.
TablesMatch ==
    /\ \A x, y \in events : x.event.id = y.event.id => x = y
    /\ \A r, s \in receipts : r[1] = s[1] => r = s
    /\ \A stored \in events : \E r \in receipts : r[1] = stored.event.id
    /\ \A r \in receipts : \E stored \in events : r[1] = stored.event.id

Numbered ==
    /\ IsFiniteSet(receipts)
    /\ \A r \in receipts : r[3] \in 1..Cardinality(receipts)

\* A receipt that was answered, or will be when the batch ends, is stored.
AnswersStored ==
    /\ \A i \in DOMAIN results : results[i].receipt # NoReceiptIssued =>
           results[i].receipt \in receipts /\ results[i].receipt[1] = results[i].id
    /\ \A answer \in told : answer[2] \in receipts /\ answer[2][1] = answer[1]

\* Below a stored event every place of its runtime is taken, down to the first.
Dense(E) ==
    \A e \in E : \A n \in 1..e.sequence :
        \E b \in E : b.runtime = e.runtime /\ b.sequence = n

\* A stored event's agent is registered, and with that key it was signed.
SignedAsRegistered ==
    \A stored \in events :
        /\ registered[stored.event.agent] # NoKey
        /\ stored.signature = <<registered[stored.event.agent], stored.event.hash>>

IInv ==
    /\ Typed /\ TablesMatch /\ Numbered /\ AnswersStored
    /\ Dense(StoredEvents(events)) /\ SignedAsRegistered

-----------------------------------------------------------------------------
(* The verdict on a candidate. *)

\* The checks between replay and chain never accept by themselves.
LEMMA PolicyIsNoVerdict ==
    ASSUME NEW envelope \in Envelopes
    PROVE  Policy(envelope) # "accepted" /\ Policy(envelope) # "duplicate"
  BY DEF Policy

\* A candidate is accepted only if all checks let it pass.
LEMMA AcceptedPasses ==
    ASSUME NEW envelope \in Envelopes, Verdict(envelope) = "accepted"
    PROVE  /\ envelope.wellFormed
           /\ ~ IsReplay(events, envelope)
           /\ Policy(envelope) = "pass"
           /\ ~ MissesPrevious(events, envelope.event)
           /\ ~ BreaksChain(events, envelope.event)
  <1>1. envelope.wellFormed /\ IngestVerdict(events, envelope, Policy(envelope)) = "accepted"
    BY DEF Verdict
  <1>2. ~ IsReplay(events, envelope) /\ Policy(envelope) = "pass"
        /\ ChainVerdict(events, envelope.event) = "accepted"
    BY <1>1, PolicyIsNoVerdict DEF IngestVerdict
  <1> QED
    BY <1>1, <1>2 DEF ChainVerdict

\* "duplicate" is said of a stored event only.
LEMMA DuplicateIsStored ==
    ASSUME NEW envelope \in Envelopes, Verdict(envelope) = "duplicate"
    PROVE  \E stored \in events : stored.event.id = envelope.event.id
  <1>1. CASE IsReplay(events, envelope)
    BY <1>1 DEF IsReplay
  <1>2. CASE ~ IsReplay(events, envelope)
    <2>1. ChainVerdict(events, envelope.event) # "duplicate"
      BY DEF ChainVerdict
    <2> QED
      BY <1>2, <2>1, PolicyIsNoVerdict DEF Verdict, IngestVerdict
  <1> QED
    BY <1>1, <1>2

\* The verdict is one of those a result may have.
LEMMA VerdictType ==
    ASSUME NEW envelope \in Envelopes
    PROVE  Verdict(envelope) \in
              {"accepted", "duplicate", "conflict", "missing_previous", "invalid_chain",
               "invalid_schema", "organisation_mismatch", "unknown_agent",
               "agent_revoked", "revoked_key", "invalid_signature", "invalid_timestamp",
               "invalid_hash"}
  <1>1. Policy(envelope) \in {"pass", "unknown_agent", "agent_revoked", "revoked_key",
                              "invalid_signature", "invalid_timestamp", "invalid_hash"}
    BY DEF Policy
  <1>2. ChainVerdict(events, envelope.event) \in
           {"accepted", "conflict", "missing_previous", "invalid_chain"}
    BY DEF ChainVerdict
  <1> QED
    BY <1>1, <1>2 DEF Verdict, IngestVerdict

\* _stored_receipt finds the one receipt of a stored event.
LEMMA ReceiptFound ==
    ASSUME TablesMatch, NEW receipt \in receipts
    PROVE  StoredReceipt(receipts, receipt[1]) = receipt
  <1>1. ReceiptsFor(receipts, receipt[1]) = {receipt}
    BY DEF TablesMatch, ReceiptsFor
  <1> QED
    BY <1>1 DEF StoredReceipt

\* A duplicate is answered with a stored receipt for that id.
LEMMA DuplicateReceipt ==
    ASSUME TablesMatch, NEW stored \in events
    PROVE  LET receipt == StoredReceipt(receipts, stored.event.id)
           IN  receipt \in receipts /\ receipt[1] = stored.event.id
  <1>1. PICK receipt \in receipts : receipt[1] = stored.event.id
    BY DEF TablesMatch
  <1> QED
    BY <1>1, ReceiptFound

\* The next place of a dense runtime is above all others.
LEMMA NextIsTop ==
    ASSUME NEW E, Dense(E), \A e \in E : e.sequence \in Nat \ {0},
           NEW event, event.sequence \in Nat \ {0},
           \A e \in E : e.runtime = event.runtime => e.sequence # event.sequence
    PROVE  \A e \in E : e.runtime = event.runtime => e.sequence < event.sequence
  <1> SUFFICES ASSUME NEW e \in E, e.runtime = event.runtime, e.sequence >= event.sequence
               PROVE  FALSE
    BY SMT
  <1>1. event.sequence \in 1..e.sequence
    OBVIOUS
  <1> QED
    BY <1>1 DEF Dense

\* ... and a runtime stays dense when it is taken.
LEMMA DenseGrows ==
    ASSUME NEW E, Dense(E), \A e \in E : e.sequence \in Nat \ {0},
           NEW event, event.sequence \in Nat \ {0},
           \/ event.sequence = 1
           \/ \E b \in E : b.runtime = event.runtime /\ b.sequence = event.sequence - 1
    PROVE  Dense(E \cup {event})
  <1> SUFFICES ASSUME NEW e \in E \cup {event}, NEW n \in 1..e.sequence
               PROVE  \E b \in E \cup {event} : b.runtime = e.runtime /\ b.sequence = n
    BY DEF Dense
  <1>1. CASE e \in E
    BY <1>1 DEF Dense
  <1>2. CASE e = event /\ n = event.sequence
    BY <1>2
  <1>3. CASE e = event /\ n # event.sequence
    <2>1. PICK b \in E : b.runtime = event.runtime /\ b.sequence = event.sequence - 1
      BY <1>3
    <2>2. n \in 1..b.sequence
      BY <1>3, <2>1
    <2> QED
      BY <1>3, <2>1, <2>2 DEF Dense
  <1> QED
    BY <1>1, <1>2, <1>3
-----------------------------------------------------------------------------
(* One lemma per action. *)

\* Registration gives a key to an agent that had none, and no event.
LEMMA RegisterKeeps ==
    ASSUME IInv, NEW agent \in Agents, NEW key \in Keys, Register(agent, key)
    PROVE  IInv'
  <1>1. /\ registered \in [Agents -> Keys \cup {NoKey}] /\ registered[agent] = NoKey
        /\ registered' = [registered EXCEPT ![agent] = key]
        /\ UNCHANGED <<revoked, events, receipts, now, results, told>>
    BY DEF IInv, Typed, Register
  <1>2. Result' = Result
    BY <1>1 DEF Result
  <1>3. Typed'
    BY <1>1, <1>2 DEF IInv, Typed
  <1>4. TablesMatch' /\ Numbered' /\ AnswersStored' /\ Dense(StoredEvents(events))'
    BY <1>1 DEF IInv, TablesMatch, Numbered, AnswersStored, Dense, StoredEvents
  <1>5. SignedAsRegistered'
    <2>1. \A stored \in events : stored.event.agent \in Agents
      BY SchemaAssumption DEF IInv, Typed
    <2> QED
      BY <1>1, <2>1 DEF IInv, SignedAsRegistered
  <1> QED
    BY <1>3, <1>4, <1>5 DEF IInv

\* The operator and the clock touch neither table.
LEMMA OthersKeep ==
    ASSUME IInv, \/ Tick
                 \/ \E agent \in Agents, what \in {"agent", "key"} : Revoke(agent, what)
                 \/ UNCHANGED vars
    PROVE  IInv'
  <1>1. /\ UNCHANGED <<registered, events, receipts, results, told>>
        /\ revoked' \subseteq Agents \X {"agent", "key"} /\ now' \in 0..MaxTime
    <2>1. CASE Tick
      BY <2>1, BoundsAssumption DEF Tick, IInv, Typed
    <2>2. ASSUME NEW agent \in Agents, NEW what \in {"agent", "key"}, Revoke(agent, what)
          PROVE  /\ UNCHANGED <<registered, events, receipts, results, told, now>>
                 /\ revoked' \subseteq Agents \X {"agent", "key"}
      BY <2>2 DEF Revoke, IInv, Typed
    <2>3. CASE UNCHANGED vars
      BY <2>3 DEF vars, IInv, Typed
    <2> QED
      BY <2>1, <2>2, <2>3 DEF IInv, Typed
  <1>2. Result' = Result
    BY <1>1 DEF Result
  <1>3. Typed'
    BY <1>1, <1>2 DEF IInv, Typed
  <1>4. /\ TablesMatch' /\ Numbered' /\ AnswersStored' /\ Dense(StoredEvents(events))'
        /\ SignedAsRegistered'
    BY <1>1 DEF IInv, TablesMatch, Numbered, AnswersStored, Dense, StoredEvents,
                SignedAsRegistered
  <1> QED
    BY <1>3, <1>4 DEF IInv

\* The batch ends: its answers leave or are lost.
LEMMA BatchEnds == ASSUME IInv, Respond \/ Crash PROVE IInv'
  <1>1. /\ UNCHANGED <<registered, revoked, events, receipts, now>> /\ results' = << >>
    BY DEF Respond, Crash
  <1>2. Typed'
    <2>1. << >> \in Seq(Result') /\ Len(<< >>) = 0
      BY EmptySeq
    <2> QED
      BY <1>1, <2>1, BoundsAssumption DEF IInv, Typed
  <1>3. TablesMatch' /\ Numbered' /\ Dense(StoredEvents(events))' /\ SignedAsRegistered'
    BY <1>1 DEF IInv, TablesMatch, Numbered, Dense, StoredEvents, SignedAsRegistered
  <1>4. ASSUME NEW answer \in told' PROVE answer[2] \in receipts /\ answer[2][1] = answer[1]
    BY <1>4 DEF IInv, AnswersStored, Respond, Crash
  <1>5. AnswersStored'
    BY <1>1, <1>4 DEF AnswersStored
  <1> QED
    BY <1>2, <1>3, <1>5 DEF IInv

\* An accepted candidate's event and receipt are both new.
LEMMA BothInserted ==
    ASSUME IInv, NEW envelope \in Envelopes, Verdict(envelope) = "accepted",
           IngestNext(envelope)
    PROVE  /\ events' = events \cup {[event |-> envelope.event,
                                      signature |-> envelope.signature]}
           /\ receipts' = receipts \cup {IssuedReceipt(receipts, envelope.event)}
           /\ \A stored \in events : stored.event.id # envelope.event.id
           /\ \A r \in receipts : r[1] # envelope.event.id
  <1>1. \A stored \in events : stored.event.id # envelope.event.id
    BY AcceptedPasses DEF IsReplay
  <1>2. \A r \in receipts : r[1] # envelope.event.id
    BY <1>1 DEF IInv, TablesMatch
  <1> QED
    BY <1>1, <1>2 DEF IngestNext, EventsAfter, ReceiptsAfter

\* The receipts' numbers go on where they were.
LEMMA NumbersGrow ==
    ASSUME Numbered, NEW event
    PROVE  LET R == receipts \cup {IssuedReceipt(receipts, event)}
           IN  IsFiniteSet(R) /\ \A r \in R : r[3] \in 1..Cardinality(R)
  <1> DEFINE new == IssuedReceipt(receipts, event)
             n == Cardinality(receipts)
  <1>1. n \in Nat /\ IsFiniteSet(receipts) /\ \A r \in receipts : r[3] \in 1..n
    BY FS_CardinalityType DEF Numbered
  <1>2. new[3] = n + 1
    BY DEF IssuedReceipt
  <1>3. new \notin receipts
    BY <1>1, <1>2
  <1>4. IsFiniteSet(receipts \cup {new}) /\ Cardinality(receipts \cup {new}) = n + 1
    BY <1>1, <1>3, FS_AddElement
  <1> HIDE DEF new, n
  <1>5. \A r \in receipts \cup {new} : r[3] \in 1..(n + 1)
    BY <1>1, <1>2
  <1> QED
    BY <1>4, <1>5 DEF new

\* The tables after a candidate that was accepted.
LEMMA AcceptKeepsTables ==
    ASSUME IInv, NEW envelope \in Envelopes, Verdict(envelope) = "accepted",
           IngestNext(envelope)
    PROVE  (TablesMatch /\ Numbered /\ Dense(StoredEvents(events)) /\ SignedAsRegistered)'
  <1> DEFINE new == [event |-> envelope.event, signature |-> envelope.signature]
             receipt == IssuedReceipt(receipts, envelope.event)
  <1>1. /\ events' = events \cup {new} /\ receipts' = receipts \cup {receipt}
        /\ \A stored \in events : stored.event.id # envelope.event.id
        /\ \A r \in receipts : r[1] # envelope.event.id
    BY BothInserted
  <1>2. receipt[1] = envelope.event.id /\ new.event = envelope.event
    BY DEF IssuedReceipt
  <1>3. TablesMatch'
    <2> HIDE DEF new, receipt
    <2> QED
      BY <1>1, <1>2 DEF IInv, TablesMatch
  <1>4. Numbered'
    BY <1>1, NumbersGrow DEF IInv, Numbered
  <1>5. Dense(StoredEvents(events))'
    <2> DEFINE E == StoredEvents(events)
               event == envelope.event
    <2>1. StoredEvents(events') = E \cup {event}
      BY <1>1, <1>2 DEF StoredEvents
    <2>2. event.sequence \in Nat \ {0} /\ \A e \in E : e.sequence \in Nat \ {0}
      BY SchemaAssumption, AcceptedPasses DEF IInv, Typed, StoredEvents
    <2>3. event.sequence = 1 \/ \E b \in E : b.runtime = event.runtime
                                              /\ b.sequence = event.sequence - 1
      BY <2>2, AcceptedPasses DEF MissesPrevious, Predecessors
    <2>4. Dense(E)
      BY DEF IInv
    <2> HIDE DEF E, event
    <2>5. Dense(E \cup {event})
      BY <2>2, <2>3, <2>4, DenseGrows
    <2> QED
      BY <2>1, <2>5
  <1>6. SignedAsRegistered'
    <2>1. registered' = registered
      BY DEF IngestNext
    <2>2. /\ registered[envelope.event.agent] # NoKey
          /\ envelope.signature = <<registered[envelope.event.agent], envelope.event.hash>>
      BY AcceptedPasses DEF Policy
    <2> QED
      BY <1>1, <2>1, <2>2 DEF IInv, SignedAsRegistered
  <1> QED
    BY <1>3, <1>4, <1>5, <1>6

\* Any other verdict leaves both tables as they were.
LEMMA RefusalKeepsTables ==
    ASSUME IInv, NEW envelope \in Envelopes, Verdict(envelope) # "accepted",
           IngestNext(envelope)
    PROVE  /\ UNCHANGED <<events, receipts>>
           /\ (TablesMatch /\ Numbered /\ Dense(StoredEvents(events)) /\ SignedAsRegistered)'
  <1>1. UNCHANGED <<events, receipts, registered>>
    BY DEF IngestNext, EventsAfter, ReceiptsAfter
  <1> QED
    BY <1>1 DEF IInv, TablesMatch, Numbered, Dense, StoredEvents, SignedAsRegistered

\* The result of a candidate is typed, and its receipt is stored for its id.
LEMMA ResultStored ==
    ASSUME IInv, NEW envelope \in Envelopes, IngestNext(envelope)
    PROVE  LET receipt == AnsweredReceipt(receipts, envelope, Verdict(envelope))
           IN  \/ receipt = NoReceiptIssued
               \/ receipt \in receipts' /\ receipt[1] = envelope.event.id
  <1>1. CASE Verdict(envelope) = "accepted"
    BY <1>1, BothInserted DEF AnsweredReceipt, IssuedReceipt
  <1>2. CASE Verdict(envelope) = "duplicate"
    <2>1. PICK stored \in events : stored.event.id = envelope.event.id
      BY <1>2, DuplicateIsStored
    <2>2. receipts' = receipts
      BY <1>2, RefusalKeepsTables
    <2>3. /\ StoredReceipt(receipts, stored.event.id) \in receipts
          /\ StoredReceipt(receipts, stored.event.id)[1] = stored.event.id
      BY DuplicateReceipt DEF IInv
    <2> QED
      BY <1>2, <2>1, <2>2, <2>3 DEF AnsweredReceipt
  <1>3. CASE Verdict(envelope) \notin {"accepted", "duplicate"}
    <2> DEFINE verdict == Verdict(envelope)
    <2>1. verdict # "accepted" /\ verdict # "duplicate"
      BY <1>3
    <2> HIDE DEF verdict
    <2>2. AnsweredReceipt(receipts, envelope, verdict) = NoReceiptIssued
      BY <2>1, Zenon DEF AnsweredReceipt
    <2> QED
      BY <2>2 DEF verdict
  <1> QED
    BY <1>1, <1>2, <1>3

\* The tables only grow.
LEMMA TablesGrow ==
    ASSUME IInv, NEW envelope \in Envelopes, IngestNext(envelope)
    PROVE  receipts \subseteq receipts'
  BY DEF IngestNext, ReceiptsAfter

\* A candidate is judged, stored or refused, and its result appended.
LEMMA IngestKeeps ==
    ASSUME IInv, NEW envelope \in Envelopes, IngestNext(envelope)
    PROVE  IInv'
  <1> DEFINE verdict == Verdict(envelope)
             receipt == AnsweredReceipt(receipts, envelope, verdict)
             result == [id |-> envelope.event.id, status |-> verdict, receipt |-> receipt]
  <1>1. (TablesMatch /\ Numbered /\ Dense(StoredEvents(events)) /\ SignedAsRegistered)'
    BY AcceptKeepsTables, RefusalKeepsTables
  <1>2. /\ results' = Append(results, result) /\ Len(results) < MaxBatch
        /\ UNCHANGED <<registered, revoked, now, told>>
    BY DEF IngestNext
  <1>3. \/ receipt = NoReceiptIssued
        \/ receipt \in receipts' /\ receipt[1] = envelope.event.id
    BY ResultStored
  <1>4. result \in Result'
    BY <1>3, VerdictType DEF Result
  <1>5. results \in Seq(Result') /\ Len(results) \in Nat
    <2>1. Result \subseteq Result'
      BY TablesGrow DEF Result
    <2>2. results \in Seq(Result)
      BY DEF IInv, Typed
    <2> HIDE DEF Result
    <2> QED
      BY <2>1, <2>2, SeqMonotonic, LenProperties
  <1> HIDE DEF result
  <1>6. /\ results' \in Seq(Result') /\ Len(results') = Len(results) + 1
        /\ DOMAIN results' = 1..(Len(results) + 1) /\ DOMAIN results = 1..Len(results)
        /\ \A i \in 1..Len(results) : results'[i] = results[i]
        /\ results'[Len(results) + 1] = result
    <2> DEFINE S == Result'
    <2>1. results \in Seq(S) /\ result \in S
      BY <1>4, <1>5
    <2> HIDE DEF S
    <2> QED
      BY <1>2, <2>1 DEF S
  <1>7. Typed'
    <2>1. Len(results') <= MaxBatch
      BY <1>2, <1>5, <1>6, BoundsAssumption
    <2>2. \A stored \in events' : \E e \in Envelopes :
             e.wellFormed /\ stored = [event |-> e.event, signature |-> e.signature]
      BY BothInserted, AcceptedPasses, RefusalKeepsTables DEF IInv, Typed
    <2> QED
      BY <1>2, <1>6, <2>1, <2>2 DEF IInv, Typed
  <1>8. AnswersStored'
    <2>1. ASSUME NEW i \in DOMAIN results', results'[i].receipt # NoReceiptIssued
          PROVE  results'[i].receipt \in receipts' /\ results'[i].receipt[1] = results'[i].id
      <3>1. CASE i = Len(results) + 1
        BY <1>3, <1>6, <2>1, <3>1 DEF result
      <3>2. CASE i # Len(results) + 1
        <4>1. i \in DOMAIN results /\ results'[i] = results[i]
          BY <1>5, <1>6, <2>1, <3>2
        <4> QED
          BY <2>1, <4>1, TablesGrow DEF IInv, AnswersStored
      <3> QED
        BY <3>1, <3>2
    <2>2. \A answer \in told' : answer[2] \in receipts' /\ answer[2][1] = answer[1]
      BY <1>2, TablesGrow DEF IInv, AnswersStored
    <2> QED
      BY <2>1, <2>2 DEF AnswersStored
  <1> QED
    BY <1>1, <1>7, <1>8 DEF IInv

\* Nothing is stored before the first candidate.
LEMMA Initially == Init => IInv
  <1> SUFFICES ASSUME Init PROVE IInv
    OBVIOUS
  <1> USE DEF Init
  <1>1. Typed
    <2>1. << >> \in Seq(Result) /\ Len(<< >>) = 0
      BY EmptySeq
    <2> QED
      BY <2>1, BoundsAssumption DEF Typed
  <1>2. Numbered
    BY FS_EmptySet DEF Numbered
  <1>3. TablesMatch /\ AnswersStored /\ Dense(StoredEvents(events)) /\ SignedAsRegistered
    BY DEF TablesMatch, AnswersStored, Dense, StoredEvents, SignedAsRegistered
  <1> QED
    BY <1>1, <1>2, <1>3 DEF IInv

\* Every step, or none, keeps the invariant.
LEMMA StepKeeps == IInv /\ [Next]_vars => IInv'
  BY RegisterKeeps, OthersKeep, BatchEnds, IngestKeeps DEF Next

-----------------------------------------------------------------------------
\* server.py, _ingest and _duplicate: the two tables, the answers, the chains and
\* the registered keys stay related as IInv says, whatever clients send and
\* wherever the process dies.
THEOREM Invariant == Spec => []IInv
  BY Initially, StepKeeps, PTL DEF Spec

\* The variables stay in their types, the numbers of receipts included.
THEOREM TypesHold == Spec => []TypeOK
  <1>1. IInv => TypeOK
    BY DEF IInv, Typed, Numbered, TypeOK
  <1> QED
    BY <1>1, Invariant, PTL

\* _duplicate and _stored_receipt: every answer ever given about an event carries
\* the stored receipt, and an identical candidate gets it again, whatever has
\* become of its agent.
THEOREM ReplayAnswered == Spec => []ReplayGetsOriginal
  <1>1. IInv => ReplayGetsOriginal
    <2> SUFFICES ASSUME IInv, NEW answer \in told
                 PROVE  /\ answer[2] \in receipts
                        /\ \A envelope \in Envelopes :
                              /\ envelope.wellFormed /\ envelope.event.org = Organisation
                              /\ IsIdentical(events, envelope) /\ envelope.event.id = answer[1]
                              => /\ Verdict(envelope) = "duplicate"
                                 /\ AnsweredReceipt(receipts, envelope, "duplicate") = answer[2]
      BY DEF ReplayGetsOriginal
    <2>1. answer[2] \in receipts /\ answer[2][1] = answer[1]
      BY DEF IInv, AnswersStored
    <2>2. StoredReceipt(receipts, answer[1]) = answer[2]
      BY <2>1, ReceiptFound DEF IInv
    <2>3. ASSUME NEW envelope \in Envelopes,
                 envelope.wellFormed, envelope.event.org = Organisation,
                 IsIdentical(events, envelope), envelope.event.id = answer[1]
          PROVE  /\ Verdict(envelope) = "duplicate"
                 /\ AnsweredReceipt(receipts, envelope, "duplicate") = answer[2]
      <3>1. IsReplay(events, envelope)
        BY <2>3 DEF IsIdentical, IsReplay
      <3>2. Verdict(envelope) = "duplicate"
        BY <2>3, <3>1 DEF Verdict, IngestVerdict
      <3>3. AnsweredReceipt(receipts, envelope, "duplicate") = answer[2]
        BY <2>2, <2>3 DEF AnsweredReceipt
      <3> QED
        BY <3>2, <3>3
    <2> QED
      BY <2>1, <2>3
  <1> QED
    BY <1>1, Invariant, PTL

\* _ingest: only what its agent's registered key signed is ever stored.
THEOREM StoredSigned == Spec => []StoredIsAuthentic
  <1>1. IInv => StoredIsAuthentic
    BY DEF IInv, SignedAsRegistered, StoredIsAuthentic
  <1> QED
    BY <1>1, Invariant, PTL

\* _check_chain and the UNIQUE constraints: whatever is sent, a step adds at most
\* the next event of one runtime, which is a step of AuditLog.
LEMMA LogStep == IInv /\ [Next]_vars => [Log!Next]_(Log!vars)
  <1> SUFFICES ASSUME IInv, [Next]_vars PROVE [Log!Next]_(Log!vars)
    OBVIOUS
  <1>1. CASE events' = events
    BY <1>1 DEF Log!vars
  <1>2. ASSUME NEW envelope \in Envelopes, IngestNext(envelope) PROVE [Log!Next]_(Log!vars)
    <2>1. CASE Verdict(envelope) # "accepted"
      BY <1>1, <1>2, <2>1, RefusalKeepsTables
    <2>2. CASE Verdict(envelope) = "accepted"
      <3> DEFINE E == StoredEvents(events)
                 event == envelope.event
      <3>1. StoredEvents(events') = E \cup {event}
        <4> DEFINE new == [event |-> event, signature |-> envelope.signature]
        <4>1. events' = events \cup {new} /\ new.event = event
          BY <1>2, <2>2, BothInserted
        <4> HIDE DEF new
        <4> QED
          BY <4>1 DEF StoredEvents
      <3>2. \A e \in E : e.id # event.id
        BY <1>2, <2>2, BothInserted DEF StoredEvents
      <3>3. event.sequence \in Nat \ {0} /\ \A e \in E : e.sequence \in Nat \ {0}
        BY <2>2, SchemaAssumption, AcceptedPasses DEF IInv, Typed, StoredEvents
      <3>4. \A e \in E : e.runtime = event.runtime => e.sequence # event.sequence
        BY <2>2, <3>2, AcceptedPasses DEF BreaksChain
      <3>5. \A e \in E : e.runtime = event.runtime => e.sequence < event.sequence
        BY <3>3, <3>4, NextIsTop DEF IInv
      <3>6. \/ event.sequence = 1 /\ event.prev = << >>
            \/ \E b \in E : /\ b.runtime = event.runtime
                            /\ b.sequence = event.sequence - 1 /\ b.hash = event.prev
        <4>1. CASE event.sequence = 1
          BY <2>2, <4>1, SchemaAssumption, AcceptedPasses
        <4>2. CASE event.sequence # 1
          <5>1. event.sequence > 1
            BY <3>3, <4>2
          <5>2. PICK b \in Predecessors(events, event) : b.hash = event.prev
            BY <2>2, <5>1, AcceptedPasses DEF MissesPrevious, BreaksChain
          <5> QED
            BY <5>2 DEF Predecessors
        <4> QED
          BY <4>1, <4>2
      <3>7. Log!Extends(event)
        BY <3>2, <3>5, <3>6 DEF Log!Extends, Log!SameRuntime
      <3>8. event \in StoredEvents(events') \ StoredEvents(events)
        BY <3>1, <3>2
      <3>9. Log!Grow
        BY <3>1, <3>7, <3>8 DEF Log!Grow
      <3> QED
        BY <3>9 DEF Log!Next
    <2> QED
      BY <2>1, <2>2
  <1> QED
    BY <1>1, <1>2 DEF Next, Register, Revoke, Tick, Respond, Crash, vars

\* The service implements the abstract audit log: what it stores of a runtime is
\* a chain that grows at its end only.
THEOREM Refinement == Spec => ImplementsAuditLog
  <1>1. Init => Log!Init
    BY DEF Init, Log!Init, StoredEvents
  <1> QED
    BY <1>1, LogStep, Invariant, PTL DEF Spec, ImplementsAuditLog, Log!Spec
=============================================================================
