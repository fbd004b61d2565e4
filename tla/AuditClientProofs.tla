------------------------- MODULE AuditClientProofs -------------------------
(***************************************************************************)
(* Theorems about AuditClient, for every set of threads and every bound.   *)
(* The inductive invariant IInv says the types, the control state of the   *)
(* threads and of the lock, the chain of the stored events, and how the    *)
(* heads in memory and the pending events relate to that chain.  FInv adds *)
(* which client may still write, and how the fates of the stored events,   *)
(* the rows in the hands of the uploader and the signing block relate.     *)
(***************************************************************************)
EXTENDS AuditClient, AuditQueueProofs

\* A call goes to a client that was opened and whose process is still running.
CallsLive ==
    \A t \in Threads : stage[t] # "idle" =>
        /\ use[t] \in Runtimes /\ action[t] \in Calls
        /\ phase[use[t]] \notin {"new", "dead"}

\* A thread inside append_event holds the runtime lock of a client that may sign.
LockHeld ==
    \A t \in Threads : pc[t] # "out" =>
        /\ stage[t] \in {"start", "terminal"}
        /\ lock[use[t]] = t
        /\ ~blocked[use[t]]

\* An open write transaction is the only one.
OneWriter ==
    \A t \in Threads : pc[t] = "commit" /\ conn[use[t]] = "open" => writer = t

NewAbove == \A r \in Runtimes : phase[r] = "new" <=> r > clients

\* The uploader runs while its client owns the directory and has not stopped it,
\* and blocks signing only while it holds the runtime lock.
UploaderOwned ==
    /\ upload # "off" => owner # 0 /\ phase[owner] \in {"open", "closing"}
    /\ upload = "block" => lock[owner] = "uploader"

Control == CallsLive /\ LockHeld /\ OneWriter /\ NewAbove /\ UploaderOwned

\* The chain of a set of events, and the row of an event being one row.
Chained(E) ==
    /\ \A e \in E : e.sequence >= 1
    /\ \A e \in E : IF e.sequence = 1 THEN e.prev = NoHash
                    ELSE \E b \in E : /\ b.runtime = e.runtime
                                      /\ b.sequence = e.sequence - 1
                                      /\ b.hash = e.prev
    /\ \A e, f \in E : \/ e.id = f.id
                       \/ e.runtime = f.runtime /\ e.sequence = f.sequence
                       => e = f

OneRowPerEvent(q) == \A x, y \in q : x.event = y.event => x = y

\* The event is the newest of its runtime.
IsTop(E, e) == e \in E /\ \A f \in E : f.runtime = e.runtime => f.sequence <= e.sequence

\* The pair (sequence, hash) describes the newest event of the runtime.
IsHead(E, r, h) ==
    \/ h = EmptyHead /\ \A e \in E : e.runtime # r
    \/ \E e \in E : e.runtime = r /\ IsTop(E, e) /\ h = [sequence |-> e.sequence, hash |-> e.hash]

\* A head in memory that may sign, and no append of its runtime past COMMIT, is
\* the durable head.
SettledHeads ==
    \A r \in Runtimes :
        phase[r] # "dead" /\ ~blocked[r] /\ ~InFlight(r) => IsHead(Events(queue), r, head[r])

\* Inside append_event with an event built.
Holding(t) == pc[t] \in {"insert", "commit", "reconcile", "advance"}

\* The event is the next one of its runtime, whose head the thread knows.
IsNext(e, r, h, E) ==
    e.sequence = h.sequence + 1 /\ e.prev = h.hash /\ IsHead(E, r, h)

\* What is known of the event a thread is about to store or has just stored.
PendingKnown(t) ==
    /\ Holding(t) => pending[t].runtime = use[t]
    /\ pc[t] \in {"insert", "commit"} =>
           IsNext(pending[t], use[t], head[use[t]], Events(queue))
    /\ pc[t] = "commit" /\ conn[use[t]] = "open" => Admits(queue, pending[t])
    /\ pc[t] = "advance" => IsTop(Events(queue), pending[t])
    /\ pc[t] = "reconcile" =>
           \/ IsTop(Events(queue), pending[t])
           \/ /\ pending[t] \notin Events(queue)
              /\ IsHead(Events(queue), use[t], head[use[t]])

Heads == SettledHeads /\ \A t \in Threads : PendingKnown(t)

StartStored(E, a, r) ==
    \E s \in E : s.kind = "started" /\ s.action = a /\ s.runtime = r

\* A thread whose call will store a terminal event has its start stored, and the
\* event in its hands is the one its stage asks for.
StartKnown(t) ==
    /\ stage[t] = "terminal" \/ (stage[t] = "business" /\ started[t])
           => StartStored(Events(queue), action[t], use[t])
    /\ stage[t] = "business" /\ mode = "raise" => started[t]
    /\ Holding(t) =>
           /\ pending[t].action = action[t]
           /\ pending[t].kind = IF stage[t] = "start" THEN "started" ELSE "terminal"

TerminalsStarted(E) ==
    \A e \in E : e.kind = "terminal" =>
        \E s \in E : /\ s.kind = "started" /\ s.action = e.action
                     /\ s.runtime = e.runtime /\ s.sequence < e.sequence

Starts == TerminalsStarted(Events(queue)) /\ \A t \in Threads : StartKnown(t)

IInv ==
    TypeOK /\ Control /\ Chained(Events(queue)) /\ OneRowPerEvent(queue) /\ Heads /\ Starts
-----------------------------------------------------------------------------
(* The transactions of the uploader change no event and split no row. *)

\* Acknowledge changes the state and the receipt of rows, nothing else.
LEMMA AcknowledgeKeeps ==
    ASSUME NEW q \in SUBSET Row, NEW id \in Hashes
    PROVE  /\ Acknowledge(q, id, <<id>>) \subseteq Row
           /\ Events(Acknowledge(q, id, <<id>>)) = Events(q)
           /\ OneRowPerEvent(q) => OneRowPerEvent(Acknowledge(q, id, <<id>>))
<1> DEFINE F(row) == IF row.event.id = id /\ row.state \in Unresolved
                       THEN [row EXCEPT !.state = "uploaded", !.receipt = <<id>>] ELSE row
<1>1. \A row \in q : F(row) \in Row /\ F(row).event = row.event
  BY DEF Row, RowStates, Unresolved
<1>2. Acknowledge(q, id, <<id>>) = {F(row) : row \in q}
  BY DEF Acknowledge
<1>3. Acknowledge(q, id, <<id>>) \subseteq Row
  BY <1>1, <1>2
<1>4. Events(Acknowledge(q, id, <<id>>)) = Events(q)
  <2> HIDE DEF F
  <2> QED  BY <1>1, <1>2 DEF Events
<1>5. OneRowPerEvent(q) => OneRowPerEvent(Acknowledge(q, id, <<id>>))
  <2> HIDE DEF F
  <2> QED  BY <1>1, <1>2 DEF OneRowPerEvent
<1> QED
  BY <1>3, <1>4, <1>5

\* MarkRetryable changes the state and the restart mark of rows, nothing else.
LEMMA MarkRetryableKeeps ==
    ASSUME NEW q \in SUBSET Row, NEW ids, NEW restart \in BOOLEAN
    PROVE  /\ MarkRetryable(q, ids, restart) \subseteq Row
           /\ Events(MarkRetryable(q, ids, restart)) = Events(q)
           /\ OneRowPerEvent(q) => OneRowPerEvent(MarkRetryable(q, ids, restart))
<1> DEFINE F(row) == IF row.event.id \in ids /\ row.state \in Unresolved
                       THEN [row EXCEPT !.state = "failed_retryable", !.restart = @ \/ restart]
                       ELSE row
<1>1. \A row \in q : F(row) \in Row /\ F(row).event = row.event
  BY DEF Row, RowStates, Unresolved
<1>2. MarkRetryable(q, ids, restart) = {F(row) : row \in q}
  BY DEF MarkRetryable
<1>3. MarkRetryable(q, ids, restart) \subseteq Row
  BY <1>1, <1>2
<1>4. Events(MarkRetryable(q, ids, restart)) = Events(q)
  <2> HIDE DEF F
  <2> QED  BY <1>1, <1>2 DEF Events
<1>5. OneRowPerEvent(q) => OneRowPerEvent(MarkRetryable(q, ids, restart))
  <2> HIDE DEF F
  <2> QED  BY <1>1, <1>2 DEF OneRowPerEvent
<1> QED
  BY <1>3, <1>4, <1>5

\* MarkPermanent changes the state and the restart mark of rows, nothing else.
LEMMA MarkPermanentKeeps ==
    ASSUME NEW q \in SUBSET Row, NEW e \in Event
    PROVE  /\ MarkPermanent(q, e) \subseteq Row
           /\ Events(MarkPermanent(q, e)) = Events(q)
           /\ OneRowPerEvent(q) => OneRowPerEvent(MarkPermanent(q, e))
<1> DEFINE F(row) == IF \/ row.event.id = e.id
                        \/ /\ row.event.runtime = e.runtime
                           /\ row.event.sequence > e.sequence
                           /\ row.state \in Unresolved
                       THEN [row EXCEPT !.state = "failed_permanent", !.restart = TRUE]
                       ELSE row
<1>1. \A row \in q : F(row) \in Row /\ F(row).event = row.event
  BY DEF Row, RowStates, Unresolved
<1>2. MarkPermanent(q, e) = {F(row) : row \in q}
  BY DEF MarkPermanent
<1>3. MarkPermanent(q, e) \subseteq Row
  BY <1>1, <1>2
<1>4. Events(MarkPermanent(q, e)) = Events(q)
  <2> HIDE DEF F
  <2> QED  BY <1>1, <1>2 DEF Events
<1>5. OneRowPerEvent(q) => OneRowPerEvent(MarkPermanent(q, e))
  <2> HIDE DEF F
  <2> QED  BY <1>1, <1>2 DEF OneRowPerEvent
<1> QED
  BY <1>3, <1>4, <1>5

\* Insert adds one pending row for the event.
LEMMA InsertAdds ==
    ASSUME NEW q \in SUBSET Row, NEW e \in Event
    PROVE  /\ Insert(q, e) \subseteq Row
           /\ Events(Insert(q, e)) = Events(q) \cup {e}
           /\ OneRowPerEvent(q) /\ Admits(q, e) => OneRowPerEvent(Insert(q, e))
<1> DEFINE new == [event |-> e, state |-> "pending", restart |-> FALSE, receipt |-> NoReceipt]
<1>1. new \in Row /\ new.event = e
  BY DEF Row, RowStates, Unresolved
<1>2. Insert(q, e) = q \cup {new}
  BY DEF Insert
<1>3. Admits(q, e) => \A row \in q : row.event # e
  BY DEF Admits
<1> QED
  BY <1>1, <1>2, <1>3 DEF Events, OneRowPerEvent

\* Whether an event can be inserted depends on the stored events alone.
LEMMA AdmitsEvents ==
    ASSUME NEW q, NEW e
    PROVE  Admits(q, e) <=> \A f \in Events(q) :
                                /\ f.id # e.id
                                /\ f.runtime = e.runtime => f.sequence # e.sequence
  BY DEF Admits, Events

\* The newest row of a runtime is what QueueHead returns.
LEMMA HeadOfTop ==
    ASSUME NEW q \in SUBSET Row, NEW e, Chained(Events(q)), IsTop(Events(q), e)
    PROVE  QueueHead(q, e.runtime) = [sequence |-> e.sequence, hash |-> e.hash]
<1> DEFINE R == RowsOf(q, e.runtime)
           Newest(row) == \A other \in R : other.event.sequence <= row.event.sequence
           top == CHOOSE row \in R : Newest(row)
<1>1. PICK row \in R : row.event = e
  BY DEF IsTop, Events, RowsOf
<1>2. Newest(row)
  BY <1>1 DEF IsTop, Events, RowsOf
<1>3. top \in R /\ Newest(top)
  BY <1>1, <1>2
<1>4. top.event.sequence = row.event.sequence
  <2>1. top.event.sequence \in Nat /\ row.event.sequence \in Nat
    BY <1>1, <1>3 DEF RowsOf, Row, Event
  <2> QED
    BY <2>1, <1>1, <1>2, <1>3
<1>5. top.event = e
  BY <1>1, <1>3, <1>4 DEF Chained, Events, RowsOf
<1> QED
  BY <1>1, <1>5 DEF QueueHead

\* A runtime without events has the empty head.
LEMMA HeadOfNone ==
    ASSUME NEW q, NEW r, \A e \in Events(q) : e.runtime # r
    PROVE  QueueHead(q, r) = EmptyHead
  BY DEF QueueHead, RowsOf, Events
-----------------------------------------------------------------------------
(* Types and control: the event a thread builds is well typed because its  *)
(* client exists, so the two parts are inductive together.                 *)

\* The event that append_event builds.
LEMMA NextEventType ==
    ASSUME TypeOK, Control, NEW t \in Threads, stage[t] \in {"start", "terminal"}
    PROVE  NextEvent(t) \in Event
<1>1. use[t] \in Runtimes /\ action[t] \in Calls
  BY DEF Control, CallsLive
<1>2. head[use[t]].sequence + 1 \in Nat /\ head[use[t]].hash \in Hashes
  BY <1>1 DEF TypeOK, ClientTypes
<1> QED
  BY <1>1, <1>2 DEF NextEvent, Event, Ids, Hashes, Kinds

\* The end of a wrapper call, and of append_event, keep the threads well typed.
LEMMA ReturnTypes ==
    ASSUME ThreadTypes, NEW t \in Threads, calls' \in 0..MaxCalls, UNCHANGED <<pc, pending>>,
           NEW result \in {"none", "original", "audit_failure", "digest_error"},
           Return(t, result)
    PROVE  ThreadTypes'
  BY DEF ThreadTypes, Return

\* What begin and _terminal do with the result of an append is typed.
LEMMA ConcludeTypes ==
    ASSUME ThreadTypes, NEW t \in Threads, NEW committed, committed \in BOOLEAN,
           Conclude(t, committed)
    PROVE  ThreadTypes'
<1>1. NoEvent \in Event
  BY DEF NoEvent, Event, Hashes, Kinds
<1>2. CASE stage[t] = "start" /\ (committed \/ mode = "continue")
  BY <1>1, <1>2 DEF ThreadTypes, Conclude
<1>3. CASE ~(stage[t] = "start" /\ (committed \/ mode = "continue"))
  BY <1>1, <1>3 DEF ThreadTypes, Conclude, Return
<1> QED
  BY <1>2, <1>3

\* Initially everything is typed.
LEMMA TypesInit == Init => TypeOK
  BY BoundsAssumption
     DEF Init, TypeOK, DiskTypes, ClientTypes, ThreadTypes, UploadTypes, Runtimes, Kinds,
         NoEvent, Event, Hashes, EmptyHead

\* Every step keeps the types.
LEMMA TypesStep == IInv /\ [Next]_vars => TypeOK'
<1> SUFFICES ASSUME TypeOK, Control, Chained(Events(queue)), Heads, [Next]_vars
             PROVE  TypeOK'
  BY DEF IInv
<1>1. CASE Open
  <2>1. clients + 1 \in Runtimes /\ clients + 1 \in 0..MaxRuntimes
    BY <1>1, BoundsAssumption DEF Open, TypeOK, ClientTypes, Runtimes
  <2> QED
    BY <1>1, <2>1 DEF Open, TypeOK, DiskTypes, ClientTypes, ThreadTypes,
     UploadTypes, diskVars, clientVars, lifeVars, threadVars, callVars, uploadVars
<1>2. CASE BeginClose
  BY <1>2 DEF BeginClose, TypeOK, DiskTypes, ClientTypes, ThreadTypes, UploadTypes,
     diskVars, clientVars, lifeVars, threadVars, callVars, uploadVars
<1>3. CASE StopUploader
  BY <1>3 DEF StopUploader, TypeOK, DiskTypes, ClientTypes, ThreadTypes, UploadTypes,
     diskVars, clientVars, lifeVars, threadVars, callVars, uploadVars
<1>4. CASE CloseQueue
  BY <1>4 DEF CloseQueue, TypeOK, DiskTypes, ClientTypes, ThreadTypes, UploadTypes,
     diskVars, clientVars, lifeVars, threadVars, callVars, uploadVars
<1>5. CASE ReleaseDirectory
  BY <1>5 DEF ReleaseDirectory, TypeOK, DiskTypes, ClientTypes, ThreadTypes, UploadTypes,
     diskVars, clientVars, lifeVars, threadVars, callVars, uploadVars
<1>6. CASE Crash
  BY <1>6 DEF Crash, NoEvent, Event, Hashes, Kinds, TypeOK, DiskTypes, ClientTypes,
     ThreadTypes, UploadTypes, diskVars, clientVars, lifeVars, threadVars, callVars,
     uploadVars
<1>7. ASSUME NEW t \in Threads, Invoke(t) PROVE TypeOK'
  <2>1. DiskTypes'
    BY <1>7 DEF Invoke, TypeOK, DiskTypes, diskVars
  <2>2. ClientTypes'
    BY <1>7 DEF Invoke, TypeOK, ClientTypes, clientVars, lifeVars, Unlock
  <2>3. ThreadTypes'
    <3>1. calls + 1 \in Calls /\ calls + 1 \in 0..MaxCalls
      BY <1>7, BoundsAssumption DEF Invoke, TypeOK, ThreadTypes, Calls
    <3>2. clients \in Runtimes
      BY <1>7 DEF Invoke, TypeOK, ClientTypes, Runtimes
    <3> QED
      BY <1>7, <3>1, <3>2 DEF Invoke, TypeOK, ThreadTypes
  <2>4. UploadTypes'
    BY <1>7 DEF Invoke, TypeOK, UploadTypes, uploadVars
  <2> QED
    BY <2>1, <2>2, <2>3, <2>4 DEF TypeOK
<1>8. ASSUME NEW t \in Threads, DigestRaises(t) PROVE TypeOK'
  <2>1. DiskTypes'
    BY <1>8 DEF DigestRaises, TypeOK, DiskTypes, diskVars
  <2>2. ClientTypes'
    BY <1>8 DEF DigestRaises, TypeOK, ClientTypes, clientVars, lifeVars, Unlock
  <2>3. ThreadTypes'
    BY <1>8, BoundsAssumption, ReturnTypes DEF DigestRaises, TypeOK, ThreadTypes
  <2>4. UploadTypes'
    BY <1>8 DEF DigestRaises, TypeOK, UploadTypes, uploadVars
  <2> QED
    BY <2>1, <2>2, <2>3, <2>4 DEF TypeOK
<1>9. ASSUME NEW t \in Threads, FinishBusiness(t) PROVE TypeOK'
  <2>1. DiskTypes'
    BY <1>9 DEF FinishBusiness, TypeOK, DiskTypes, diskVars
  <2>2. ClientTypes'
    BY <1>9 DEF FinishBusiness, TypeOK, ClientTypes, clientVars, lifeVars, Unlock
  <2>3. ThreadTypes'
    BY <1>9, ReturnTypes DEF FinishBusiness, TypeOK, ThreadTypes
  <2>4. UploadTypes'
    BY <1>9 DEF FinishBusiness, TypeOK, UploadTypes, uploadVars
  <2> QED
    BY <2>1, <2>2, <2>3, <2>4 DEF TypeOK
<1>10. ASSUME NEW t \in Threads, Refuse(t) PROVE TypeOK'
  <2>1. DiskTypes'
    BY <1>10 DEF Refuse, TypeOK, DiskTypes, diskVars
  <2>2. ClientTypes'
    BY <1>10 DEF Refuse, TypeOK, ClientTypes, clientVars, lifeVars, Unlock
  <2>3. ThreadTypes'
    BY <1>10, ConcludeTypes DEF Refuse, TypeOK
  <2>4. UploadTypes'
    BY <1>10 DEF Refuse, TypeOK, UploadTypes, uploadVars
  <2> QED
    BY <2>1, <2>2, <2>3, <2>4 DEF TypeOK
<1>11. ASSUME NEW t \in Threads, Build(t) PROVE TypeOK'
  <2>1. DiskTypes'
    BY <1>11 DEF Build, TypeOK, DiskTypes, diskVars
  <2>2. ClientTypes'
    BY <1>11 DEF Build, TypeOK, ClientTypes, clientVars, lifeVars, CanLock, Wants
  <2>3. ThreadTypes'
    BY <1>11, NextEventType DEF Build, TypeOK, ThreadTypes, CanLock, Wants, callVars
  <2>4. UploadTypes'
    BY <1>11 DEF Build, TypeOK, UploadTypes, uploadVars
  <2> QED
    BY <2>1, <2>2, <2>3, <2>4 DEF TypeOK
<1>12. ASSUME NEW t \in Threads, SendRegistration(t) PROVE TypeOK'
  <2>1. DiskTypes'
    BY <1>12 DEF SendRegistration, TypeOK, DiskTypes, diskVars
  <2>2. ClientTypes'
    BY <1>12 DEF SendRegistration, TypeOK, ClientTypes, clientVars, lifeVars, CanLock, Wants
  <2>3. ThreadTypes'
    BY <1>12 DEF SendRegistration, TypeOK, ThreadTypes, callVars
  <2>4. UploadTypes'
    BY <1>12 DEF SendRegistration, TypeOK, UploadTypes, uploadVars
  <2> QED
    BY <2>1, <2>2, <2>3, <2>4 DEF TypeOK
<1>13. ASSUME NEW t \in Threads, RegistrationSucceeds(t) PROVE TypeOK'
  <2>1. DiskTypes'
    BY <1>13 DEF RegistrationSucceeds, TypeOK, DiskTypes, diskVars
  <2>2. ClientTypes'
    BY <1>13 DEF RegistrationSucceeds, TypeOK, ClientTypes, clientVars, lifeVars, Unlock
  <2>3. ThreadTypes'
    BY <1>13, NextEventType DEF RegistrationSucceeds, TypeOK, ThreadTypes, Control,
           LockHeld, callVars
  <2>4. UploadTypes'
    BY <1>13 DEF RegistrationSucceeds, TypeOK, UploadTypes, uploadVars
  <2> QED
    BY <2>1, <2>2, <2>3, <2>4 DEF TypeOK
<1>14. ASSUME NEW t \in Threads, RegistrationFails(t) PROVE TypeOK'
  <2>1. DiskTypes'
    BY <1>14 DEF RegistrationFails, TypeOK, DiskTypes, diskVars
  <2>2. ClientTypes'
    BY <1>14 DEF RegistrationFails, TypeOK, ClientTypes, clientVars, lifeVars, Unlock
  <2>3. ThreadTypes'
    BY <1>14, ConcludeTypes DEF RegistrationFails, TypeOK
  <2>4. UploadTypes'
    BY <1>14 DEF RegistrationFails, TypeOK, UploadTypes, uploadVars
  <2> QED
    BY <2>1, <2>2, <2>3, <2>4 DEF TypeOK
<1>15. ASSUME NEW t \in Threads, InsertRow(t) PROVE TypeOK'
  <2>1. DiskTypes'
    BY <1>15 DEF InsertRow, TypeOK, DiskTypes, diskVars
  <2>2. ClientTypes'
    BY <1>15 DEF InsertRow, TypeOK, ClientTypes, clientVars, lifeVars, Unlock
  <2>3. ThreadTypes'
    BY <1>15 DEF InsertRow, TypeOK, ThreadTypes, callVars
  <2>4. UploadTypes'
    BY <1>15 DEF InsertRow, TypeOK, UploadTypes, uploadVars
  <2> QED
    BY <2>1, <2>2, <2>3, <2>4 DEF TypeOK
<1>16. ASSUME NEW t \in Threads, InsertFails(t) PROVE TypeOK'
  <2>1. DiskTypes'
    BY <1>16 DEF InsertFails, TypeOK, DiskTypes, diskVars
  <2>2. ClientTypes'
    BY <1>16 DEF InsertFails, TypeOK, ClientTypes, clientVars, lifeVars, Unlock
  <2>3. ThreadTypes'
    BY <1>16, ConcludeTypes DEF InsertFails, TypeOK
  <2>4. UploadTypes'
    BY <1>16 DEF InsertFails, TypeOK, UploadTypes, uploadVars
  <2> QED
    BY <2>1, <2>2, <2>3, <2>4 DEF TypeOK
<1>17. ASSUME NEW t \in Threads, Commit(t) PROVE TypeOK'
  <2>1. DiskTypes'
    BY <1>17, InsertAdds DEF Commit, TypeOK, DiskTypes, ThreadTypes
  <2>2. ClientTypes'
    BY <1>17 DEF Commit, TypeOK, ClientTypes, clientVars, lifeVars, Unlock
  <2>3. ThreadTypes'
    BY <1>17 DEF Commit, TypeOK, ThreadTypes, callVars
  <2>4. UploadTypes'
    BY <1>17 DEF Commit, TypeOK, UploadTypes, uploadVars
  <2> QED
    BY <2>1, <2>2, <2>3, <2>4 DEF TypeOK
<1>18. ASSUME NEW t \in Threads, CommitRaises(t) PROVE TypeOK'
  <2>1. DiskTypes'
    BY <1>18, InsertAdds DEF CommitRaises, TypeOK, DiskTypes, ThreadTypes
  <2>2. ClientTypes'
    BY <1>18 DEF CommitRaises, TypeOK, ClientTypes, clientVars, lifeVars, Unlock
  <2>3. ThreadTypes'
    BY <1>18 DEF CommitRaises, TypeOK, ThreadTypes, callVars
  <2>4. UploadTypes'
    BY <1>18 DEF CommitRaises, TypeOK, UploadTypes, uploadVars
  <2> QED
    BY <2>1, <2>2, <2>3, <2>4 DEF TypeOK
<1>19. ASSUME NEW t \in Threads, ReconcileBlocks(t) PROVE TypeOK'
  <2>1. DiskTypes'
    BY <1>19 DEF ReconcileBlocks, TypeOK, DiskTypes, diskVars
  <2>2. ClientTypes'
    BY <1>19 DEF ReconcileBlocks, TypeOK, ClientTypes, clientVars, lifeVars, Unlock
  <2>3. ThreadTypes'
    BY <1>19, ConcludeTypes DEF ReconcileBlocks, TypeOK
  <2>4. UploadTypes'
    BY <1>19 DEF ReconcileBlocks, TypeOK, UploadTypes, uploadVars
  <2> QED
    BY <2>1, <2>2, <2>3, <2>4 DEF TypeOK
<1>20. ASSUME NEW t \in Threads, ReconcileAbsent(t) PROVE TypeOK'
  <2>1. DiskTypes'
    BY <1>20 DEF ReconcileAbsent, TypeOK, DiskTypes, diskVars
  <2>2. ClientTypes'
    BY <1>20 DEF ReconcileAbsent, TypeOK, ClientTypes, clientVars, lifeVars, Unlock
  <2>3. ThreadTypes'
    BY <1>20, ConcludeTypes DEF ReconcileAbsent, TypeOK
  <2>4. UploadTypes'
    BY <1>20 DEF ReconcileAbsent, TypeOK, UploadTypes, uploadVars
  <2> QED
    BY <2>1, <2>2, <2>3, <2>4 DEF TypeOK
<1>21. ASSUME NEW t \in Threads, ReconcilePresent(t) PROVE TypeOK'
  <2>1. DiskTypes'
    BY <1>21 DEF ReconcilePresent, TypeOK, DiskTypes, diskVars
  <2>2. ClientTypes'
    <3>1. IsTop(Events(queue), pending[t]) /\ pending[t].runtime = use[t]
      BY <1>21 DEF ReconcilePresent, Heads, PendingKnown, Holding
    <3>2. pending[t] \in Event
      BY DEF TypeOK, ThreadTypes
    <3>3. QueueHead(queue, use[t]) = [sequence |-> pending[t].sequence, hash |-> pending[t].hash]
      BY <3>1, HeadOfTop DEF TypeOK, DiskTypes
    <3>4. QueueHead(queue, use[t]) \in [sequence : Nat, hash : Hashes]
      BY <3>2, <3>3 DEF Event
    <3> QED
      BY <1>21, <3>4 DEF ReconcilePresent, TypeOK, ClientTypes, clientVars, lifeVars, Unlock
  <2>3. ThreadTypes'
    BY <1>21, ConcludeTypes DEF ReconcilePresent, TypeOK
  <2>4. UploadTypes'
    BY <1>21 DEF ReconcilePresent, TypeOK, UploadTypes, uploadVars
  <2> QED
    BY <2>1, <2>2, <2>3, <2>4 DEF TypeOK
<1>22. ASSUME NEW t \in Threads, Advance(t) PROVE TypeOK'
  <2>1. DiskTypes'
    BY <1>22 DEF Advance, TypeOK, DiskTypes, diskVars
  <2>2. ClientTypes'
    <3>1. [sequence |-> pending[t].sequence, hash |-> pending[t].hash]
                \in [sequence : Nat, hash : Hashes]
      BY DEF TypeOK, ThreadTypes, Event
    <3> QED
      BY <1>22, <3>1 DEF Advance, TypeOK, ClientTypes, clientVars, lifeVars, Unlock
  <2>3. ThreadTypes'
    BY <1>22, ConcludeTypes DEF Advance, TypeOK
  <2>4. UploadTypes'
    BY <1>22 DEF Advance, TypeOK, UploadTypes, uploadVars
  <2> QED
    BY <2>1, <2>2, <2>3, <2>4 DEF TypeOK
<1>23. CASE Select
  BY <1>23 DEF Select, SelectUploadBatch, TypeOK, DiskTypes, ClientTypes, ThreadTypes,
     UploadTypes, diskVars, clientVars, lifeVars, threadVars, callVars, uploadVars
<1>24. CASE RetryBatch
  <2>1. queue' \subseteq Row
    BY <1>24, MarkRetryableKeeps DEF RetryBatch, TypeOK, DiskTypes
  <2> QED
    BY <1>24, <2>1 DEF RetryBatch, TypeOK, DiskTypes, ClientTypes, ThreadTypes, UploadTypes,
       clientVars, lifeVars, threadVars, callVars
<1>25. CASE Answer
  BY <1>25 DEF Answer, TypeOK, DiskTypes, ClientTypes, ThreadTypes, UploadTypes, diskVars,
     clientVars, lifeVars, threadVars, callVars, uploadVars
<1>26. CASE AbandonBatch \/ AwaitLock \/ StrandFails
  BY <1>26 DEF AbandonBatch, AwaitLock, StrandFails, TypeOK, DiskTypes, ClientTypes, ThreadTypes,
     UploadTypes, diskVars, clientVars, lifeVars, threadVars, callVars, uploadVars
<1>27. ASSUME NEW row \in batch, ApplyAccepted(row) PROVE TypeOK'
  <2>1. queue' \subseteq Row
    <3>1. row.event.id \in Hashes
      BY <1>27 DEF TypeOK, UploadTypes, Row, Event
    <3> QED
      BY <1>27, <3>1, AcknowledgeKeeps DEF ApplyAccepted, TypeOK, DiskTypes
  <2> QED
    BY <1>27, <2>1 DEF ApplyAccepted, NextResult, Settle, TypeOK, DiskTypes, ClientTypes,
           ThreadTypes, UploadTypes,
       clientVars, lifeVars, threadVars, callVars
<1>28. ASSUME NEW row \in batch, ApplyRetry(row) PROVE TypeOK'
  <2>1. queue' \subseteq Row
    <3>1. PICK missing \in BOOLEAN :
              queue' = MarkRetryable(queue, {row.event.id},
                           /\ missing
                           /\ row.event.sequence # 1
                           /\ ~HasRow(queue, row.event.runtime, row.event.sequence - 1))
      BY <1>28 DEF ApplyRetry
    <3> QED
      BY <3>1, MarkRetryableKeeps DEF TypeOK, DiskTypes
  <2> QED
    BY <1>28, <2>1 DEF ApplyRetry, NextResult, Settle, TypeOK, DiskTypes, ClientTypes,
           ThreadTypes, UploadTypes,
       clientVars, lifeVars, threadVars, callVars
<1>29. ASSUME NEW row \in batch, Strand(row) PROVE TypeOK'
  <2>1. queue' \subseteq Row
    <3>1. row.event \in Event
      BY <1>29 DEF TypeOK, UploadTypes, Row
    <3> QED
      BY <1>29, <3>1, MarkPermanentKeeps DEF Strand, TypeOK, DiskTypes
  <2> QED
    BY <1>29, <2>1 DEF Strand, TypeOK, DiskTypes, ClientTypes, ThreadTypes, UploadTypes,
       clientVars, lifeVars, threadVars, callVars
<1>30. ASSUME NEW row \in batch, BlockSigning(row) PROVE TypeOK'
  BY <1>30 DEF BlockSigning, Settle, TypeOK, DiskTypes, ClientTypes,
     ThreadTypes, UploadTypes, diskVars, clientVars, lifeVars, threadVars, callVars,
     uploadVars
<1>31. CASE UNCHANGED vars
  BY <1>31 DEF vars, TypeOK, DiskTypes, ClientTypes, ThreadTypes, UploadTypes,
     diskVars, clientVars, lifeVars, threadVars, callVars, uploadVars
<1>32. ASSUME NEW row \in batch, StrandRaises(row) PROVE TypeOK'
  <2>1. queue' \subseteq Row
    <3>1. row.event \in Event
      BY <1>32 DEF TypeOK, UploadTypes, Row
    <3> QED
      BY <1>32, <3>1, MarkPermanentKeeps DEF StrandRaises, TypeOK, DiskTypes
  <2> QED
    BY <1>32, <2>1 DEF StrandRaises, TypeOK, DiskTypes, ClientTypes, ThreadTypes,
       UploadTypes, clientVars, lifeVars, threadVars, callVars
<1> QED
  BY <1>1, <1>2, <1>3, <1>4, <1>5, <1>6, <1>7, <1>8, <1>9, <1>10, <1>11, <1>12, <1>13,
     <1>14, <1>15, <1>16, <1>17, <1>18, <1>19, <1>20, <1>21, <1>22, <1>23, <1>24, <1>25,
     <1>26, <1>27, <1>28, <1>29, <1>30, <1>31, <1>32 DEF Next, Shutdown, Append, Upload, Apply

-----------------------------------------------------------------------------
(* Control. *)

\* Initially no thread is in a call and no client exists.
LEMMA ControlInit == Init => Control
  BY BoundsAssumption
     DEF Init, Control, CallsLive, LockHeld, OneWriter, NewAbove, UploaderOwned, Runtimes

\* Every step keeps the control state.
LEMMA ControlStep == TypeOK /\ Control /\ [Next]_vars => Control'
<1> SUFFICES ASSUME TypeOK, Control, [Next]_vars PROVE Control'
  OBVIOUS
<1> USE ThreadsAssumption
<1>1. CASE Open
  <2>1. clients + 1 \in Runtimes /\ clients' = clients + 1 /\ owner' = clients + 1
    BY <1>1, BoundsAssumption DEF Open, TypeOK, ClientTypes, Runtimes
  <2>2. NewAbove'
    BY <1>1, <2>1 DEF Open, Control, NewAbove, TypeOK, ClientTypes, Runtimes
  <2>3. phase[clients + 1] = "new" /\ owner # clients + 1 /\ clients + 1 # 0
    BY <1>1, <2>1 DEF Open, Control, NewAbove, TypeOK, ClientTypes, Runtimes
  <2> QED
    BY <1>1, <2>1, <2>2, <2>3 DEF Open, Control, CallsLive, LockHeld, OneWriter,
       UploaderOwned, TypeOK, ClientTypes, ThreadTypes, UploadTypes, diskVars, clientVars,
       lifeVars, threadVars, callVars, uploadVars
<1>2. CASE BeginClose
  BY <1>2 DEF BeginClose, Control, CallsLive, LockHeld, OneWriter, NewAbove, UploaderOwned,
     TypeOK, ClientTypes, ThreadTypes, UploadTypes, diskVars, clientVars, lifeVars,
     threadVars, callVars, uploadVars
<1>3. CASE StopUploader
  BY <1>3 DEF StopUploader, Control, CallsLive, LockHeld, OneWriter, NewAbove,
     UploaderOwned, TypeOK, ClientTypes, ThreadTypes, UploadTypes, diskVars, clientVars,
     lifeVars, threadVars, callVars, uploadVars
<1>4. CASE CloseQueue
  BY <1>4 DEF CloseQueue, Control, CallsLive, LockHeld, OneWriter, NewAbove, UploaderOwned,
     TypeOK, ClientTypes, ThreadTypes, UploadTypes, diskVars, clientVars, lifeVars,
     threadVars, callVars, uploadVars
<1>5. CASE ReleaseDirectory
  BY <1>5 DEF ReleaseDirectory, Control, CallsLive, LockHeld, OneWriter, NewAbove,
     UploaderOwned, TypeOK, ClientTypes, ThreadTypes, UploadTypes, diskVars, clientVars,
     lifeVars, threadVars, callVars, uploadVars
<1>6. CASE Crash
  BY <1>6 DEF Crash, Control, CallsLive, LockHeld, OneWriter, NewAbove, UploaderOwned,
     TypeOK, ClientTypes, ThreadTypes, UploadTypes, diskVars, clientVars, lifeVars,
     threadVars, callVars, uploadVars
<1>7. ASSUME NEW t \in Threads, Invoke(t) PROVE Control'
  <2>1. calls + 1 \in Calls /\ clients \in Runtimes /\ phase[clients] # "new"
    BY <1>7, BoundsAssumption
       DEF Invoke, Runtimes, Calls, TypeOK, ClientTypes, ThreadTypes, Control, NewAbove
  <2> QED
    BY <1>7, <2>1 DEF Invoke, Control, CallsLive, LockHeld, OneWriter, NewAbove,
       UploaderOwned, TypeOK, ClientTypes, ThreadTypes, UploadTypes, diskVars, clientVars,
       lifeVars, threadVars, callVars, uploadVars
<1>8. ASSUME NEW t \in Threads, DigestRaises(t) PROVE Control'
  BY <1>8 DEF DigestRaises, Return, Control, CallsLive, LockHeld, OneWriter, NewAbove,
     UploaderOwned, TypeOK, ClientTypes, ThreadTypes, UploadTypes, diskVars, clientVars,
     lifeVars, threadVars, callVars, uploadVars
<1>9. ASSUME NEW t \in Threads, FinishBusiness(t) PROVE Control'
  <2>1. pc[t] = "out"
    BY <1>9 DEF FinishBusiness, Control, LockHeld, TypeOK, ThreadTypes
  <2>2. UNCHANGED <<clients, owner, phase, blocked, conn, lock, writer, pc, upload>>
    BY <1>9 DEF FinishBusiness, clientVars, lifeVars, uploadVars
  <2>3. \/ /\ stage' = [stage EXCEPT ![t] = "terminal"]
           /\ UNCHANGED <<use, action>>
        \/ Return(t, "original")
    BY <1>9 DEF FinishBusiness
  <2>4. CallsLive'
    BY <1>9, <2>2, <2>3
       DEF FinishBusiness, Return, Control, CallsLive, TypeOK, ThreadTypes
  <2>5. LockHeld' /\ OneWriter'
    BY <2>1, <2>2, <2>3 DEF Return, Control, LockHeld, OneWriter, TypeOK, ThreadTypes
  <2>6. NewAbove' /\ UploaderOwned'
    BY <2>2 DEF Control, NewAbove, UploaderOwned
  <2> QED
    BY <2>4, <2>5, <2>6 DEF Control
<1>10. ASSUME NEW t \in Threads, Refuse(t) PROVE Control'
  <2>1. /\ UNCHANGED <<owner, clients, phase, blocked, conn, lock, writer, upload>>
        /\ pc[t] = "out" /\ pc' = [pc EXCEPT ![t] = "out"] /\ stage[t] # "idle"
        /\ \/ /\ stage' = [stage EXCEPT ![t] = "business"]
              /\ UNCHANGED <<use, action>>
           \/ /\ stage' = [stage EXCEPT ![t] = "idle"]
              /\ use' = [use EXCEPT ![t] = 0]
              /\ action' = [action EXCEPT ![t] = 0]
    BY <1>10 DEF Refuse, Conclude, Return, CanLock, Wants, clientVars, lifeVars, uploadVars
  <2>2. CallsLive'
    BY <2>1 DEF Control, CallsLive, TypeOK, ThreadTypes
  <2>3. LockHeld' /\ OneWriter'
    BY <2>1 DEF Control, LockHeld, OneWriter, TypeOK, ThreadTypes
  <2>4. NewAbove' /\ UploaderOwned'
    BY <2>1 DEF Control, NewAbove, UploaderOwned
  <2> QED
    BY <2>2, <2>3, <2>4 DEF Control
<1>11. ASSUME NEW t \in Threads, Build(t) PROVE Control'
  BY <1>11 DEF Build, CanLock, Wants, Signable, Control, CallsLive, LockHeld, OneWriter,
     NewAbove, UploaderOwned, TypeOK, ClientTypes, ThreadTypes, UploadTypes, diskVars,
     clientVars, lifeVars, threadVars, callVars, uploadVars
<1>12. ASSUME NEW t \in Threads, SendRegistration(t) PROVE Control'
  BY <1>12 DEF SendRegistration, CanLock, Wants, Signable, Control, CallsLive, LockHeld,
     OneWriter, NewAbove, UploaderOwned, TypeOK, ClientTypes, ThreadTypes, UploadTypes,
     diskVars, clientVars, lifeVars, threadVars, callVars, uploadVars
<1>13. ASSUME NEW t \in Threads, RegistrationSucceeds(t) PROVE Control'
  BY <1>13 DEF RegistrationSucceeds, Control, CallsLive, LockHeld, OneWriter, NewAbove,
     UploaderOwned, TypeOK, ClientTypes, ThreadTypes, UploadTypes, diskVars, clientVars,
     lifeVars, threadVars, callVars, uploadVars
<1>14. ASSUME NEW t \in Threads, RegistrationFails(t) PROVE Control'
  BY <1>14 DEF RegistrationFails, Conclude, Return, Unlock, Control, CallsLive, LockHeld,
     OneWriter, NewAbove, UploaderOwned, TypeOK, ClientTypes, ThreadTypes, UploadTypes,
     diskVars, clientVars, lifeVars, threadVars, callVars, uploadVars
<1>15. ASSUME NEW t \in Threads, InsertRow(t) PROVE Control'
  BY <1>15 DEF InsertRow, Control, CallsLive, LockHeld, OneWriter, NewAbove, UploaderOwned,
     TypeOK, ClientTypes, ThreadTypes, UploadTypes, diskVars, clientVars, lifeVars,
     threadVars, callVars, uploadVars
<1>16. ASSUME NEW t \in Threads, InsertFails(t) PROVE Control'
  BY <1>16 DEF InsertFails, Conclude, Return, Unlock, Control, CallsLive, LockHeld,
     OneWriter, NewAbove, UploaderOwned, TypeOK, ClientTypes, ThreadTypes, UploadTypes,
     diskVars, clientVars, lifeVars, threadVars, callVars, uploadVars
<1>17. ASSUME NEW t \in Threads, Commit(t) PROVE Control'
  BY <1>17 DEF Commit, Control, CallsLive, LockHeld, OneWriter, NewAbove, UploaderOwned,
     TypeOK, ClientTypes, ThreadTypes, UploadTypes, diskVars, clientVars, lifeVars,
     threadVars, callVars, uploadVars
<1>18. ASSUME NEW t \in Threads, CommitRaises(t) PROVE Control'
  BY <1>18 DEF CommitRaises, Control, CallsLive, LockHeld, OneWriter, NewAbove,
     UploaderOwned, TypeOK, ClientTypes, ThreadTypes, UploadTypes, diskVars, clientVars,
     lifeVars, threadVars, callVars, uploadVars
<1>19. ASSUME NEW t \in Threads, ReconcileBlocks(t) PROVE Control'
  BY <1>19 DEF ReconcileBlocks, Conclude, Return, Unlock, Control, CallsLive, LockHeld,
     OneWriter, NewAbove, UploaderOwned, TypeOK, ClientTypes, ThreadTypes, UploadTypes,
     diskVars, clientVars, lifeVars, threadVars, callVars, uploadVars
<1>20. ASSUME NEW t \in Threads, ReconcileAbsent(t) PROVE Control'
  BY <1>20 DEF ReconcileAbsent, Conclude, Return, Unlock, Control, CallsLive, LockHeld,
     OneWriter, NewAbove, UploaderOwned, TypeOK, ClientTypes, ThreadTypes, UploadTypes,
     diskVars, clientVars, lifeVars, threadVars, callVars, uploadVars
<1>21. ASSUME NEW t \in Threads, ReconcilePresent(t) PROVE Control'
  BY <1>21 DEF ReconcilePresent, Conclude, Return, Unlock, Control, CallsLive, LockHeld,
     OneWriter, NewAbove, UploaderOwned, TypeOK, ClientTypes, ThreadTypes, UploadTypes,
     diskVars, clientVars, lifeVars, threadVars, callVars, uploadVars
<1>22. ASSUME NEW t \in Threads, Advance(t) PROVE Control'
  BY <1>22 DEF Advance, Conclude, Return, Unlock, Control, CallsLive, LockHeld, OneWriter,
     NewAbove, UploaderOwned, TypeOK, ClientTypes, ThreadTypes, UploadTypes, diskVars,
     clientVars, lifeVars, threadVars, callVars, uploadVars
<1>23. CASE Select
  BY <1>23 DEF Select, Control, CallsLive, LockHeld, OneWriter, NewAbove, UploaderOwned,
     TypeOK, ClientTypes, ThreadTypes, UploadTypes, diskVars, clientVars, lifeVars,
     threadVars, callVars, uploadVars
<1>24. CASE RetryBatch
  BY <1>24 DEF RetryBatch, Control, CallsLive, LockHeld, OneWriter, NewAbove, UploaderOwned,
     TypeOK, ClientTypes, ThreadTypes, UploadTypes, diskVars, clientVars, lifeVars,
     threadVars, callVars, uploadVars
<1>25. CASE Answer
  BY <1>25 DEF Answer, Control, CallsLive, LockHeld, OneWriter, NewAbove, UploaderOwned,
     TypeOK, ClientTypes, ThreadTypes, UploadTypes, diskVars, clientVars, lifeVars,
     threadVars, callVars, uploadVars
<1>26. CASE AbandonBatch \/ AwaitLock \/ StrandFails
  BY <1>26 DEF AbandonBatch, AwaitLock, StrandFails, Control, CallsLive, LockHeld, OneWriter,
     NewAbove, UploaderOwned, TypeOK, ClientTypes, ThreadTypes, UploadTypes, diskVars, clientVars,
     lifeVars, threadVars, callVars, uploadVars
<1>27. ASSUME NEW row \in batch, ApplyAccepted(row) PROVE Control'
  BY <1>27 DEF ApplyAccepted, NextResult, Settle, Control, CallsLive, LockHeld, OneWriter,
     NewAbove, UploaderOwned, TypeOK, ClientTypes, ThreadTypes, UploadTypes, diskVars,
     clientVars, lifeVars, threadVars, callVars, uploadVars
<1>28. ASSUME NEW row \in batch, ApplyRetry(row) PROVE Control'
  BY <1>28 DEF ApplyRetry, NextResult, Settle, Control, CallsLive, LockHeld, OneWriter,
     NewAbove, UploaderOwned, TypeOK, ClientTypes, ThreadTypes, UploadTypes, diskVars,
     clientVars, lifeVars, threadVars, callVars, uploadVars
<1>29. ASSUME NEW row \in batch, Strand(row) PROVE Control'
  BY <1>29 DEF Strand, Settle, Control, CallsLive, LockHeld, OneWriter,
     NewAbove, UploaderOwned, TypeOK, ClientTypes, ThreadTypes, UploadTypes, diskVars,
     clientVars, lifeVars, threadVars, callVars, uploadVars
<1>30. ASSUME NEW row \in batch, BlockSigning(row) PROVE Control'
  BY <1>30 DEF BlockSigning, Settle, Control, CallsLive, LockHeld, OneWriter,
     NewAbove, UploaderOwned, TypeOK, ClientTypes, ThreadTypes, UploadTypes, diskVars,
     clientVars, lifeVars, threadVars, callVars, uploadVars
<1>31. CASE UNCHANGED vars
  BY <1>31 DEF vars, Control, CallsLive, LockHeld, OneWriter, NewAbove, UploaderOwned,
     TypeOK, ClientTypes, ThreadTypes, UploadTypes, diskVars, clientVars, lifeVars,
     threadVars, callVars, uploadVars
<1>32. ASSUME NEW row \in batch, StrandRaises(row) PROVE Control'
  BY <1>32 DEF StrandRaises, Control, CallsLive, LockHeld, OneWriter, NewAbove,
     UploaderOwned, TypeOK, ClientTypes, ThreadTypes, UploadTypes, clientVars, lifeVars,
     threadVars, callVars
<1> QED
  BY <1>1, <1>2, <1>3, <1>4, <1>5, <1>6, <1>7, <1>8, <1>9, <1>10, <1>11, <1>12, <1>13,
     <1>14, <1>15, <1>16, <1>17, <1>18, <1>19, <1>20, <1>21, <1>22, <1>23, <1>24, <1>25,
     <1>26, <1>27, <1>28, <1>29, <1>30, <1>31, <1>32 DEF Next, Shutdown, Append, Upload, Apply

-----------------------------------------------------------------------------
(* The chain. *)

\* The next event of a runtime extends the chain and is its new end.
LEMMA ChainGrows ==
    ASSUME NEW E \in SUBSET Event, NEW e \in Event, NEW h \in [sequence : Nat, hash : Hashes],
           Chained(E), IsNext(e, e.runtime, h, E), \A f \in E : f.id # e.id
    PROVE  Chained(E \cup {e}) /\ IsTop(E \cup {e}, e)
<1>1. \A f \in E \cup {e} : f.sequence \in Nat
  BY DEF Event
<1>2. h.sequence \in Nat
  OBVIOUS
<1>3. CASE h = EmptyHead /\ \A f \in E : f.runtime # e.runtime
  <2>1. e.sequence = 1 /\ e.prev = NoHash
    BY <1>3 DEF IsNext, EmptyHead
  <2>2. IsTop(E \cup {e}, e)
    BY <1>3, <1>1 DEF IsTop
  <2>3. Chained(E \cup {e})
    BY <1>3, <2>1 DEF Chained
  <2> QED
    BY <2>2, <2>3
<1>4. ASSUME NEW f \in E, f.runtime = e.runtime, IsTop(E, f),
             h = [sequence |-> f.sequence, hash |-> f.hash]
      PROVE  Chained(E \cup {e}) /\ IsTop(E \cup {e}, e)
  <2>1. e.sequence = f.sequence + 1 /\ e.prev = f.hash /\ f.sequence >= 1
    BY <1>4 DEF IsNext, Chained
  <2>2. IsTop(E \cup {e}, e)
    BY <1>1, <1>4, <2>1 DEF IsTop
  <2>3. \A g \in E : g.runtime = e.runtime => g.sequence # e.sequence
    BY <1>1, <1>4, <2>1 DEF IsTop
  <2>4. \A a, b \in E \cup {e} : \/ a.id = b.id
                                 \/ a.runtime = b.runtime /\ a.sequence = b.sequence
                                 => a = b
    BY <2>3 DEF Chained
  <2>5. \A a \in E \cup {e} : a.sequence >= 1
    BY <1>1, <2>1 DEF Chained
  <2>6. e.sequence # 1 /\ e.sequence - 1 = f.sequence
    BY <1>1, <2>1
  <2>7. \A a \in E \cup {e} :
            IF a.sequence = 1 THEN a.prev = NoHash
            ELSE \E b \in E \cup {e} : /\ b.runtime = a.runtime
                                       /\ b.sequence = a.sequence - 1
                                       /\ b.hash = a.prev
    BY <1>4, <2>1, <2>6 DEF Chained
  <2> QED
    BY <2>2, <2>4, <2>5, <2>7 DEF Chained
<1> QED
  BY <1>3, <1>4 DEF IsNext, IsHead

\* An event of another runtime changes neither a head nor the end of a chain.
LEMMA OtherRuntime ==
    ASSUME NEW E, NEW e, NEW r, e.runtime # r
    PROVE  /\ \A h : IsHead(E, r, h) => IsHead(E \cup {e}, r, h)
           /\ \A f : f.runtime = r /\ IsTop(E, f) => IsTop(E \cup {e}, f)
           /\ \A f : f.runtime = r /\ f \notin E => f \notin E \cup {e}
<1>1. \A f : f.runtime = r /\ IsTop(E, f) => IsTop(E \cup {e}, f)
  BY DEF IsTop
<1> QED
  BY <1>1 DEF IsHead

\* A step keeps the stored events and their rows, or stores the event of a thread
\* whose transaction is open.
LEMMA QueueStep ==
    ASSUME TypeOK, Control, [Next]_vars
    PROVE  \/ /\ Events(queue') = Events(queue)
              /\ OneRowPerEvent(queue) => OneRowPerEvent(queue')
           \/ \E t \in Threads : /\ pc[t] = "commit" /\ conn[use[t]] = "open"
                                 /\ Commit(t) \/ CommitRaises(t)
                                 /\ queue' = Insert(queue, pending[t])
<1> DEFINE Quiet == /\ Events(queue') = Events(queue)
                    /\ OneRowPerEvent(queue) => OneRowPerEvent(queue')
           Stores == \E t \in Threads : /\ pc[t] = "commit" /\ conn[use[t]] = "open"
                                        /\ Commit(t) \/ CommitRaises(t)
                                        /\ queue' = Insert(queue, pending[t])
<1> SUFFICES Quiet \/ Stores
  OBVIOUS
<1> HIDE DEF Quiet
<1>1. queue' = queue => Quiet
  BY DEF Quiet
<1>2. CASE Open \/ BeginClose \/ Crash \/ Shutdown
  BY <1>1, <1>2
     DEF Open, BeginClose, Crash, Shutdown, StopUploader, CloseQueue, ReleaseDirectory, diskVars
<1>3. ASSUME NEW t \in Threads, Invoke(t) \/ DigestRaises(t) \/ FinishBusiness(t)
      PROVE  Quiet
  BY <1>1, <1>3 DEF Invoke, DigestRaises, FinishBusiness, diskVars
<1>4. ASSUME NEW t \in Threads, Append(t) PROVE Quiet \/ Stores
  <2>1. CASE Commit(t) \/ CommitRaises(t)
    BY <1>1, <2>1 DEF Commit, CommitRaises
  <2>2. CASE ~(Commit(t) \/ CommitRaises(t))
    BY <1>1, <1>4, <2>2
       DEF Append, Refuse, Build, SendRegistration, RegistrationSucceeds, RegistrationFails,
           InsertRow, InsertFails, ReconcileBlocks, ReconcileAbsent, ReconcilePresent,
           Advance, diskVars
  <2> QED
    BY <2>1, <2>2
<1>5. CASE \/ Select \/ Answer \/ AbandonBatch \/ AwaitLock \/ StrandFails
           \/ \E row \in batch : BlockSigning(row)
  BY <1>1, <1>5 DEF Select, Answer, AbandonBatch, AwaitLock, StrandFails, BlockSigning,
     diskVars
<1>6. CASE RetryBatch
  BY <1>6, MarkRetryableKeeps DEF RetryBatch, Quiet, TypeOK, DiskTypes
<1>7. ASSUME NEW row \in batch, ApplyAccepted(row) \/ ApplyRetry(row) \/ Strand(row)
                                        \/ StrandRaises(row)
      PROVE  Quiet
  <2>1. row.event \in Event /\ row.event.id \in Hashes
    BY DEF TypeOK, UploadTypes, Row, Event
  <2>2. CASE ApplyAccepted(row)
    BY <2>1, <2>2, AcknowledgeKeeps DEF ApplyAccepted, Quiet, TypeOK, DiskTypes
  <2>3. CASE ApplyRetry(row)
    <3>1. PICK missing \in BOOLEAN :
              queue' = MarkRetryable(queue, {row.event.id},
                           /\ missing
                           /\ row.event.sequence # 1
                           /\ ~HasRow(queue, row.event.runtime, row.event.sequence - 1))
      BY <2>3 DEF ApplyRetry
    <3> QED
      BY <3>1, MarkRetryableKeeps DEF Quiet, TypeOK, DiskTypes
  <2>4. CASE Strand(row) \/ StrandRaises(row)
    BY <2>1, <2>4, MarkPermanentKeeps DEF Strand, StrandRaises, Quiet, TypeOK, DiskTypes
  <2> QED
    BY <1>7, <2>2, <2>3, <2>4
<1>8. CASE UNCHANGED vars
  BY <1>1, <1>8 DEF vars, diskVars
<1> QED
  BY <1>2, <1>3, <1>4, <1>5, <1>6, <1>7, <1>8 DEF Next, Upload, Apply

\* What the thread that stores its event knows of it.
LEMMA StoredNext ==
    ASSUME IInv, NEW t \in Threads, pc[t] = "commit", conn[use[t]] = "open"
    PROVE  LET E == Events(queue)
           IN  /\ E \in SUBSET Event
               /\ pending[t] \in Event
               /\ use[t] \in Runtimes
               /\ pending[t].runtime = use[t]
               /\ Chained(E \cup {pending[t]})
               /\ IsTop(E \cup {pending[t]}, pending[t])
               /\ Events(Insert(queue, pending[t])) = E \cup {pending[t]}
               /\ OneRowPerEvent(Insert(queue, pending[t]))
<1> DEFINE E == Events(queue)
           e == pending[t]
<1>1. e \in Event /\ queue \in SUBSET Row
  BY DEF IInv, TypeOK, DiskTypes, ThreadTypes
<1>2. E \in SUBSET Event
  BY <1>1 DEF Events, Row
<1>3. use[t] \in Runtimes
  BY DEF IInv, Control, CallsLive, LockHeld
<1>4. head[use[t]] \in [sequence : Nat, hash : Hashes]
  BY <1>3 DEF IInv, TypeOK, ClientTypes
<1>5. /\ e.runtime = use[t]
      /\ IsNext(e, e.runtime, head[use[t]], E)
      /\ Admits(queue, e)
  BY DEF IInv, Heads, PendingKnown, Holding
<1>6. \A f \in E : f.id # e.id
  BY <1>5, AdmitsEvents
<1>7. Chained(E)
  BY DEF IInv
<1>8. Chained(E \cup {e}) /\ IsTop(E \cup {e}, e)
  <2> HIDE DEF E, e
  <2> QED
    BY <1>1, <1>2, <1>4, <1>5, <1>6, <1>7, ChainGrows
<1>9. Events(Insert(queue, e)) = E \cup {e} /\ OneRowPerEvent(Insert(queue, e))
  BY <1>1, <1>5, InsertAdds DEF IInv
<1> QED
  BY <1>1, <1>2, <1>3, <1>5, <1>8, <1>9

\* Every step keeps the chain, and one row per event.
LEMMA ChainStep ==
    IInv /\ [Next]_vars => Chained(Events(queue))' /\ OneRowPerEvent(queue)'
<1> SUFFICES ASSUME IInv, [Next]_vars
             PROVE  Chained(Events(queue')) /\ OneRowPerEvent(queue')
  OBVIOUS
<1>1. CASE Events(queue') = Events(queue) /\ (OneRowPerEvent(queue) => OneRowPerEvent(queue'))
  BY <1>1 DEF IInv
<1>2. ASSUME NEW t \in Threads, pc[t] = "commit", conn[use[t]] = "open",
             queue' = Insert(queue, pending[t])
      PROVE  Chained(Events(queue')) /\ OneRowPerEvent(queue')
  BY <1>2, StoredNext
<1> QED
  BY <1>1, <1>2, QueueStep DEF IInv

-----------------------------------------------------------------------------
(* The heads in memory and the events being stored. *)

\* Two threads inside append_event are in the append of two runtimes.
LEMMA Apart ==
    ASSUME Control, NEW t \in Threads, NEW u \in Threads, t # u, pc[t] # "out", pc[u] # "out"
    PROVE  use[t] # use[u]
  BY DEF Control, LockHeld

\* A step of one thread that stores nothing, seen from the others.
OnlyThread(t) ==
    /\ Events(queue') = Events(queue)
    /\ phase' = phase
    /\ \A r \in Runtimes : blocked[r] => blocked'[r]
    /\ \A u \in Threads \ {t} :
           /\ pc'[u] = pc[u] /\ use'[u] = use[u] /\ pending'[u] = pending[u]
           /\ pc[u] # "out" =>
                  /\ head'[use[u]] = head[use[u]]
                  /\ conn'[use[u]] = "open" => conn[use[u]] = "open"

\* A step that touches neither heads nor threads.
LEMMA HeadsFrame ==
    ASSUME IInv, Events(queue') = Events(queue), UNCHANGED <<head, pc, pending, use>>,
           \A r \in Runtimes : phase'[r] # "dead" /\ ~blocked'[r] =>
                                   phase[r] # "dead" /\ ~blocked[r],
           \A t \in Threads : pc[t] = "commit" /\ conn'[use[t]] = "open" =>
                                   conn[use[t]] = "open"
    PROVE  Heads'
<1>1. SettledHeads'
  BY DEF IInv, Heads, SettledHeads, InFlight
<1>2. ASSUME NEW t \in Threads PROVE PendingKnown(t)'
  BY AdmitsEvents DEF IInv, Heads, PendingKnown, Holding, IsNext
<1> QED
  BY <1>1, <1>2 DEF Heads

\* What the other threads know survives.
LEMMA OthersKnow ==
    ASSUME IInv, NEW t \in Threads, OnlyThread(t), NEW u \in Threads \ {t}
    PROVE  PendingKnown(u)'
<1>1. PendingKnown(u)
  BY DEF IInv, Heads
<1>2. CASE pc[u] = "out"
  BY <1>2 DEF OnlyThread, PendingKnown, Holding
<1>3. CASE pc[u] # "out"
  BY <1>1, <1>3, AdmitsEvents DEF OnlyThread, PendingKnown, Holding, IsNext
<1> QED
  BY <1>2, <1>3

\* A thread's step before COMMIT returns.
LEMMA HeadsBefore ==
    ASSUME IInv, NEW t \in Threads, OnlyThread(t), pc[t] \notin {"reconcile", "advance"},
           head' = head, PendingKnown(t)'
    PROVE  Heads'
<1>1. SettledHeads'
  <2>1. \A r \in Runtimes : InFlight(r) => InFlight(r)'
    BY DEF InFlight, OnlyThread
  <2> QED
    BY <2>1 DEF IInv, Heads, SettledHeads, OnlyThread
<1> QED
  BY <1>1, OthersKnow DEF Heads

\* A thread leaves append_event with its head settled, or signing blocked.
LEMMA HeadsAfter ==
    ASSUME IInv, NEW t \in Threads, OnlyThread(t), pc[t] \in {"reconcile", "advance"},
           pc'[t] = "out", \A r \in Runtimes \ {use[t]} : head'[r] = head[r],
           \/ blocked'[use[t]]
           \/ IsHead(Events(queue), use[t], head'[use[t]])
    PROVE  Heads'
<1>1. SettledHeads'
  <2>1. \A r \in Runtimes \ {use[t]} : InFlight(r) => InFlight(r)'
    BY DEF InFlight, OnlyThread
  <2> QED
    BY <2>1 DEF IInv, Heads, SettledHeads, OnlyThread
<1>2. PendingKnown(t)'
  BY DEF PendingKnown, Holding
<1> QED
  BY <1>1, <1>2, OthersKnow DEF Heads

\* A COMMIT that stores the event, whether or not it also raises.
LEMMA HeadsStore ==
    ASSUME IInv, NEW t \in Threads, pc[t] = "commit", conn[use[t]] = "open",
           queue' = Insert(queue, pending[t]), UNCHANGED <<head, blocked, phase, use, pending>>,
           NEW where \in {"advance", "reconcile"}, pc' = [pc EXCEPT ![t] = where],
           \A u \in Threads \ {t} : pc[u] # "out" => conn'[use[u]] = conn[use[u]]
    PROVE  Heads'
<1> DEFINE E == Events(queue)
           F == E \cup {pending[t]}
<1>1. pc \in [Threads -> {"out", "register", "insert", "commit", "reconcile", "advance"}]
  BY DEF IInv, TypeOK, ThreadTypes
<1>2. /\ Events(queue') = F
      /\ pending[t].runtime = use[t]
      /\ IsTop(F, pending[t])
  BY StoredNext
<1>3. SettledHeads'
  <2>1. ASSUME NEW r \in Runtimes, phase'[r] # "dead", ~blocked'[r], ~InFlight(r)'
        PROVE  IsHead(F, r, head'[r])
    <3>1. r # use[t] /\ ~InFlight(r)
      BY <1>1, <2>1 DEF InFlight
    <3>2. IsHead(E, r, head[r])
      BY <2>1, <3>1 DEF IInv, Heads, SettledHeads
    <3> QED
      BY <1>2, <3>1, <3>2, OtherRuntime
  <2> QED
    BY <1>2, <2>1 DEF SettledHeads
<1>4. ASSUME NEW u \in Threads, u # t PROVE PendingKnown(u)'
  <2>1. CASE pc[u] = "out"
    BY <1>1, <1>4, <2>1 DEF PendingKnown, Holding
  <2>2. CASE pc[u] # "out"
    <3>1. use[u] # use[t] /\ pc'[u] = pc[u]
      BY <1>1, <1>4, <2>2, Apart DEF IInv
    <3>2. ~(pc[u] = "commit" /\ conn[use[u]] = "open")
      BY <1>4 DEF IInv, Control, OneWriter
    <3>3. PendingKnown(u)
      BY DEF IInv, Heads
    <3>4. pending[t].runtime # use[u]
      BY <1>2, <3>1
    <3>5. /\ \A h : IsHead(E, use[u], h) => IsHead(F, use[u], h)
          /\ \A f : f.runtime = use[u] /\ IsTop(E, f) => IsTop(F, f)
          /\ \A f : f.runtime = use[u] /\ f \notin E => f \notin F
      BY <3>4, OtherRuntime
    <3>6. conn'[use[u]] = conn[use[u]]
      BY <1>4, <2>2
    <3> HIDE DEF E, F
    <3>7. PendingKnown(u) <=>
              /\ Holding(u) => pending[u].runtime = use[u]
              /\ pc[u] \in {"insert", "commit"} => IsNext(pending[u], use[u], head[use[u]], E)
              /\ pc[u] = "commit" /\ conn[use[u]] = "open" => Admits(queue, pending[u])
              /\ pc[u] = "advance" => IsTop(E, pending[u])
              /\ pc[u] = "reconcile" => \/ IsTop(E, pending[u])
                                        \/ pending[u] \notin E /\ IsHead(E, use[u], head[use[u]])
      BY DEF PendingKnown, E
    <3> QED
      BY <1>2, <3>1, <3>2, <3>3, <3>5, <3>6, <3>7 DEF PendingKnown, Holding, IsNext
  <2> QED
    BY <2>1, <2>2
<1>5. PendingKnown(t)'
  BY <1>1, <1>2 DEF PendingKnown, Holding
<1> QED
  BY <1>3, <1>4, <1>5 DEF Heads

\* Every step keeps the heads and what the threads know.
LEMMA HeadsStep == IInv /\ [Next]_vars => Heads'
<1> SUFFICES ASSUME IInv, [Next]_vars PROVE Heads'
  OBVIOUS
<1>0. TypeOK /\ Control /\ Heads
  BY DEF IInv
<1> USE <1>0, ThreadsAssumption
<1>1. CASE Open
  <2>1. clients' = clients + 1 /\ clients + 1 \in Runtimes
    BY <1>1, BoundsAssumption DEF Open, TypeOK, ClientTypes, Runtimes
  <2>2. phase[clients + 1] = "new"
    BY <2>1 DEF Control, NewAbove, TypeOK, ClientTypes, Runtimes
  <2>3. \A t \in Threads : pc[t] # "out" => use[t] # clients + 1
    BY <2>2 DEF Control, CallsLive, LockHeld
  <2>4. \A t \in Threads : pc[t] = "commit" /\ conn'[use[t]] = "open" => conn[use[t]] = "open"
    BY <1>1, <2>1, <2>3 DEF Open, Control, CallsLive, LockHeld, TypeOK, ClientTypes
  <2>5. \A r \in Runtimes : phase'[r] # "dead" /\ ~blocked'[r] =>
                                phase[r] # "dead" /\ ~blocked[r]
    BY <1>1, <2>1, <2>2 DEF Open, TypeOK, ClientTypes
  <2> QED
    BY <1>1, <2>4, <2>5, HeadsFrame DEF Open, threadVars, callVars
<1>2. CASE BeginClose
  BY <1>2, HeadsFrame DEF BeginClose, Control, CallsLive, LockHeld, TypeOK, DiskTypes,
     ClientTypes, diskVars, clientVars, lifeVars, threadVars, callVars, uploadVars
<1>3. CASE StopUploader
  BY <1>3, HeadsFrame DEF StopUploader, Control, CallsLive, LockHeld, TypeOK, DiskTypes,
     ClientTypes, diskVars, clientVars, lifeVars, threadVars, callVars, uploadVars
<1>4. CASE CloseQueue
  BY <1>4, HeadsFrame DEF CloseQueue, Control, CallsLive, LockHeld, TypeOK, DiskTypes,
     ClientTypes, diskVars, clientVars, lifeVars, threadVars, callVars, uploadVars
<1>5. CASE ReleaseDirectory
  BY <1>5, HeadsFrame DEF ReleaseDirectory, Control, CallsLive, LockHeld, TypeOK, DiskTypes,
     ClientTypes, diskVars, clientVars, lifeVars, threadVars, callVars, uploadVars
<1>6. CASE Crash
  <2>1. \A t \in Threads : pc'[t] = "out"
    BY <1>6 DEF Crash
  <2>2. \A t \in Threads : PendingKnown(t)'
    BY <2>1 DEF PendingKnown, Holding
  <2>3. \A r \in Runtimes : phase[r] = "new" => ~InFlight(r)
    BY DEF Control, CallsLive, LockHeld, InFlight
  <2>4. SettledHeads'
    BY <1>6, <2>3 DEF Crash, Heads, SettledHeads, InFlight, diskVars
  <2> QED
    BY <2>2, <2>4 DEF Heads
<1>7. ASSUME NEW t \in Threads, Invoke(t) PROVE Heads'
  <2>1. OnlyThread(t) /\ head' = head /\ pc[t] \notin {"reconcile", "advance"}
    BY <1>7 DEF Invoke, OnlyThread, Control, CallsLive, LockHeld, TypeOK, ClientTypes,
       ThreadTypes, diskVars, clientVars, lifeVars, threadVars, callVars, uploadVars
  <2>2. PendingKnown(t)'
    BY <1>7 DEF Invoke, PendingKnown, Holding, Control, LockHeld, TypeOK, ThreadTypes,
       threadVars
  <2> QED
    BY <2>1, <2>2, HeadsBefore
<1>8. ASSUME NEW t \in Threads, DigestRaises(t) PROVE Heads'
  <2>1. OnlyThread(t) /\ head' = head /\ pc[t] \notin {"reconcile", "advance"}
    BY <1>8 DEF DigestRaises, OnlyThread, Return, Control, CallsLive, LockHeld, TypeOK,
       ClientTypes, ThreadTypes, diskVars, clientVars, lifeVars, threadVars, callVars,
       uploadVars
  <2>2. PendingKnown(t)'
    BY <1>8 DEF DigestRaises, Return, PendingKnown, Holding, Control, LockHeld, TypeOK,
       ThreadTypes, threadVars
  <2> QED
    BY <2>1, <2>2, HeadsBefore
<1>9. ASSUME NEW t \in Threads, FinishBusiness(t) PROVE Heads'
  <2>1. OnlyThread(t) /\ head' = head /\ pc[t] \notin {"reconcile", "advance"}
    BY <1>9 DEF FinishBusiness, OnlyThread, Return, Control, CallsLive, LockHeld, TypeOK,
       ClientTypes, ThreadTypes, diskVars, clientVars, lifeVars, threadVars, callVars,
       uploadVars
  <2>2. PendingKnown(t)'
    BY <1>9 DEF FinishBusiness, Return, PendingKnown, Holding, Control, LockHeld, TypeOK,
       ThreadTypes, threadVars
  <2> QED
    BY <2>1, <2>2, HeadsBefore
<1>10. ASSUME NEW t \in Threads, Refuse(t) PROVE Heads'
  <2>1. OnlyThread(t) /\ head' = head /\ pc[t] \notin {"reconcile", "advance"}
    BY <1>10 DEF Refuse, OnlyThread, Conclude, Return, CanLock, Wants, Control, CallsLive,
       LockHeld, TypeOK, ClientTypes, ThreadTypes, diskVars, clientVars, lifeVars,
       threadVars, callVars, uploadVars
  <2>2. PendingKnown(t)'
    BY <1>10 DEF Refuse, Conclude, Return, CanLock, Wants, PendingKnown, Holding, Control,
       LockHeld, TypeOK, ThreadTypes, threadVars
  <2> QED
    BY <2>1, <2>2, HeadsBefore
<1>11. ASSUME NEW t \in Threads, Build(t) PROVE Heads'
  <2>1. OnlyThread(t) /\ head' = head /\ pc[t] \notin {"reconcile", "advance"}
    BY <1>11 DEF Build, OnlyThread, CanLock, Wants, Control, CallsLive, LockHeld, TypeOK,
       ClientTypes, ThreadTypes, diskVars, clientVars, lifeVars, threadVars, callVars,
       uploadVars
  <2>2. PendingKnown(t)'
    <3>1. use[t] \in Runtimes /\ phase[use[t]] # "dead" /\ ~blocked[use[t]]
      BY <1>11 DEF Build, CanLock, Wants, Signable, Control, CallsLive, LockHeld
    <3>2. ~InFlight(use[t])
      BY <1>11 DEF Build, CanLock, Wants, InFlight, Control, LockHeld
    <3>3. IsHead(Events(queue), use[t], head[use[t]])
      BY <3>1, <3>2 DEF Heads, SettledHeads
    <3>4. pending'[t] = NextEvent(t) /\ pc'[t] = "insert" /\ use' = use
      BY <1>11 DEF Build, callVars, TypeOK, ThreadTypes
    <3>5. IsNext(pending'[t], use[t], head[use[t]], Events(queue))
      BY <3>3, <3>4 DEF IsNext, NextEvent
    <3> QED
      BY <2>1, <3>4, <3>5 DEF PendingKnown, Holding, OnlyThread, NextEvent
  <2> QED
    BY <2>1, <2>2, HeadsBefore
<1>12. ASSUME NEW t \in Threads, SendRegistration(t) PROVE Heads'
  <2>1. OnlyThread(t) /\ head' = head /\ pc[t] \notin {"reconcile", "advance"}
    BY <1>12 DEF SendRegistration, OnlyThread, CanLock, Wants, Control, CallsLive, LockHeld,
       TypeOK, ClientTypes, ThreadTypes, diskVars, clientVars, lifeVars, threadVars,
       callVars, uploadVars
  <2>2. PendingKnown(t)'
    BY <1>12 DEF SendRegistration, CanLock, Wants, PendingKnown, Holding, Control, LockHeld,
       TypeOK, ThreadTypes, threadVars
  <2> QED
    BY <2>1, <2>2, HeadsBefore
<1>13. ASSUME NEW t \in Threads, RegistrationSucceeds(t) PROVE Heads'
  <2>1. OnlyThread(t) /\ head' = head /\ pc[t] \notin {"reconcile", "advance"}
    BY <1>13 DEF RegistrationSucceeds, OnlyThread, Control, CallsLive, LockHeld, TypeOK,
       ClientTypes, ThreadTypes, diskVars, clientVars, lifeVars, threadVars, callVars,
       uploadVars
  <2>2. PendingKnown(t)'
    <3>1. use[t] \in Runtimes /\ phase[use[t]] # "dead" /\ ~blocked[use[t]]
      BY <1>13 DEF RegistrationSucceeds, CanLock, Wants, Signable, Control, CallsLive, LockHeld
    <3>2. ~InFlight(use[t])
      BY <1>13 DEF RegistrationSucceeds, CanLock, Wants, InFlight, Control, LockHeld
    <3>3. IsHead(Events(queue), use[t], head[use[t]])
      BY <3>1, <3>2 DEF Heads, SettledHeads
    <3>4. pending'[t] = NextEvent(t) /\ pc'[t] = "insert" /\ use' = use
      BY <1>13 DEF RegistrationSucceeds, callVars, TypeOK, ThreadTypes
    <3>5. IsNext(pending'[t], use[t], head[use[t]], Events(queue))
      BY <3>3, <3>4 DEF IsNext, NextEvent
    <3> QED
      BY <2>1, <3>4, <3>5 DEF PendingKnown, Holding, OnlyThread, NextEvent
  <2> QED
    BY <2>1, <2>2, HeadsBefore
<1>14. ASSUME NEW t \in Threads, RegistrationFails(t) PROVE Heads'
  <2>1. OnlyThread(t) /\ head' = head /\ pc[t] \notin {"reconcile", "advance"}
    BY <1>14 DEF RegistrationFails, OnlyThread, Conclude, Return, Unlock, Control,
       CallsLive, LockHeld, TypeOK, ClientTypes, ThreadTypes, diskVars, clientVars,
       lifeVars, threadVars, callVars, uploadVars
  <2>2. PendingKnown(t)'
    BY <1>14 DEF RegistrationFails, Conclude, Return, Unlock, PendingKnown, Holding,
       Control, LockHeld, TypeOK, ThreadTypes, threadVars
  <2> QED
    BY <2>1, <2>2, HeadsBefore
<1>15. ASSUME NEW t \in Threads, InsertRow(t) PROVE Heads'
  <2>1. OnlyThread(t) /\ head' = head /\ pc[t] \notin {"reconcile", "advance"}
    BY <1>15 DEF InsertRow, OnlyThread, Control, CallsLive, LockHeld, TypeOK, ClientTypes,
       ThreadTypes, diskVars, clientVars, lifeVars, threadVars, callVars, uploadVars
  <2>2. PendingKnown(t)'
    BY <1>15 DEF InsertRow, PendingKnown, Holding, IsNext, Heads, TypeOK, ThreadTypes,
       diskVars, callVars
  <2> QED
    BY <2>1, <2>2, HeadsBefore
<1>16. ASSUME NEW t \in Threads, InsertFails(t) PROVE Heads'
  <2>1. OnlyThread(t) /\ head' = head /\ pc[t] \notin {"reconcile", "advance"}
    BY <1>16 DEF InsertFails, OnlyThread, Conclude, Return, Unlock, Control, CallsLive,
       LockHeld, TypeOK, ClientTypes, ThreadTypes, diskVars, clientVars, lifeVars,
       threadVars, callVars, uploadVars
  <2>2. PendingKnown(t)'
    BY <1>16 DEF InsertFails, Conclude, Return, Unlock, PendingKnown, Holding, Control,
       LockHeld, TypeOK, ThreadTypes, threadVars
  <2> QED
    BY <2>1, <2>2, HeadsBefore
<1>17. ASSUME NEW t \in Threads, Commit(t) PROVE Heads'
  <2>1. /\ pc[t] = "commit" /\ conn[use[t]] = "open"
        /\ queue' = Insert(queue, pending[t])
        /\ UNCHANGED <<head, blocked, phase, use, pending, conn>>
        /\ pc' = [pc EXCEPT ![t] = "advance"]
    BY <1>17 DEF Commit, lifeVars, callVars
  <2> QED
    BY <2>1, HeadsStore
<1>18. ASSUME NEW t \in Threads, CommitRaises(t) PROVE Heads'
  <2>1. /\ pc[t] = "commit"
        /\ UNCHANGED <<head, blocked, phase, use, pending>>
        /\ pc' = [pc EXCEPT ![t] = "reconcile"]
        /\ conn' = [conn EXCEPT ![use[t]] = "closed"]
    BY <1>18 DEF CommitRaises, lifeVars, callVars
  <2>2. \A u \in Threads \ {t} : pc[u] # "out" =>
            use[u] \in Runtimes /\ conn'[use[u]] = conn[use[u]]
    BY <2>1, Apart DEF Control, CallsLive, LockHeld, TypeOK, ClientTypes
  <2>3. CASE queue' = queue
    <3>1. OnlyThread(t)
      BY <2>1, <2>2, <2>3 DEF OnlyThread, TypeOK, ThreadTypes
    <3>2. PendingKnown(t)'
      <4>1. pending[t] \notin Events(queue)
        <5>1. IsHead(Events(queue), use[t], head[use[t]])
          BY <2>1 DEF Heads, PendingKnown, IsNext
        <5>2. pending[t].sequence = head[use[t]].sequence + 1 /\ pending[t].runtime = use[t]
          BY <2>1 DEF Heads, PendingKnown, IsNext, Holding
        <5>3. \A e \in Events(queue) : e.sequence \in Nat
          BY DEF TypeOK, DiskTypes, Events, Row, Event
        <5>4. ASSUME NEW f \in Events(queue), f.runtime = use[t], IsTop(Events(queue), f),
                     head[use[t]] = [sequence |-> f.sequence, hash |-> f.hash]
              PROVE  pending[t] \notin Events(queue)
          <6>1. pending[t].sequence = f.sequence + 1 /\ pending[t].runtime = f.runtime
            BY <5>2, <5>4
          <6> QED
            BY <5>3, <5>4, <6>1 DEF IsTop
        <5> QED
          BY <5>1, <5>2, <5>4 DEF IsHead
      <4>2. IsHead(Events(queue), use[t], head[use[t]]) /\ pending[t].runtime = use[t]
        BY <2>1 DEF Heads, PendingKnown, IsNext, Holding
      <4> QED
        BY <2>1, <2>3, <4>1, <4>2 DEF PendingKnown, Holding, TypeOK, ThreadTypes
    <3> QED
      BY <2>1, <3>1, <3>2, HeadsBefore
  <2>4. CASE conn[use[t]] = "open" /\ queue' = Insert(queue, pending[t])
    BY <2>1, <2>2, <2>4, HeadsStore
  <2> QED
    BY <1>18, <2>3, <2>4 DEF CommitRaises
<1>19. ASSUME NEW t \in Threads, ReconcileBlocks(t) PROVE Heads'
  <2>1. use[t] \in Runtimes /\ \A u \in Threads \ {t} : pc[u] # "out" => use[u] # use[t]
    BY <1>19, Apart DEF ReconcileBlocks, Control, CallsLive, LockHeld
  <2>2. OnlyThread(t) /\ pc'[t] = "out"
    BY <1>19, <2>1 DEF ReconcileBlocks, OnlyThread, Conclude, Return, Control, CallsLive,
       LockHeld, TypeOK, ClientTypes, ThreadTypes, diskVars, lifeVars
  <2>3. \/ blocked'[use[t]]
        \/ IsHead(Events(queue), use[t], head'[use[t]])
    BY <1>19, <2>1 DEF ReconcileBlocks, TypeOK, ClientTypes
  <2> QED
    BY <1>19, <2>1, <2>2, <2>3, HeadsAfter DEF ReconcileBlocks, TypeOK, ClientTypes
<1>20. ASSUME NEW t \in Threads, ReconcileAbsent(t) PROVE Heads'
  <2>1. use[t] \in Runtimes /\ \A u \in Threads \ {t} : pc[u] # "out" => use[u] # use[t]
    BY <1>20, Apart DEF ReconcileAbsent, Control, CallsLive, LockHeld
  <2>2. OnlyThread(t) /\ pc'[t] = "out"
    BY <1>20, <2>1 DEF ReconcileAbsent, OnlyThread, Conclude, Return, Control, CallsLive,
       LockHeld, TypeOK, ClientTypes, ThreadTypes, diskVars, lifeVars
  <2>3. \/ blocked'[use[t]]
        \/ IsHead(Events(queue), use[t], head'[use[t]])
    BY <1>20 DEF ReconcileAbsent, Heads, PendingKnown, IsTop
  <2> QED
    BY <1>20, <2>1, <2>2, <2>3, HeadsAfter DEF ReconcileAbsent, TypeOK, ClientTypes
<1>21. ASSUME NEW t \in Threads, ReconcilePresent(t) PROVE Heads'
  <2>1. use[t] \in Runtimes /\ \A u \in Threads \ {t} : pc[u] # "out" => use[u] # use[t]
    BY <1>21, Apart DEF ReconcilePresent, Control, CallsLive, LockHeld
  <2>2. OnlyThread(t) /\ pc'[t] = "out"
    BY <1>21, <2>1 DEF ReconcilePresent, OnlyThread, Conclude, Return, Control, CallsLive,
       LockHeld, TypeOK, ClientTypes, ThreadTypes, diskVars, lifeVars
  <2>3. \/ blocked'[use[t]]
        \/ IsHead(Events(queue), use[t], head'[use[t]])
    <3>1. IsTop(Events(queue), pending[t]) /\ pending[t].runtime = use[t]
      BY <1>21 DEF ReconcilePresent, Heads, PendingKnown, Holding
    <3>2. head'[use[t]] = [sequence |-> pending[t].sequence, hash |-> pending[t].hash]
      BY <1>21, <2>1, <3>1, HeadOfTop DEF ReconcilePresent, IInv, TypeOK, DiskTypes, ClientTypes
    <3> QED
      BY <3>1, <3>2 DEF IsHead, IsTop
  <2> QED
    BY <1>21, <2>1, <2>2, <2>3, HeadsAfter DEF ReconcilePresent, TypeOK, ClientTypes
<1>22. ASSUME NEW t \in Threads, Advance(t) PROVE Heads'
  <2>1. use[t] \in Runtimes /\ \A u \in Threads \ {t} : pc[u] # "out" => use[u] # use[t]
    BY <1>22, Apart DEF Advance, Control, CallsLive, LockHeld
  <2>2. OnlyThread(t) /\ pc'[t] = "out"
    BY <1>22, <2>1 DEF Advance, OnlyThread, Conclude, Return, Control, CallsLive, LockHeld,
       TypeOK, ClientTypes, ThreadTypes, diskVars, lifeVars
  <2>3. \/ blocked'[use[t]]
        \/ IsHead(Events(queue), use[t], head'[use[t]])
    <3>1. IsTop(Events(queue), pending[t]) /\ pending[t].runtime = use[t]
      BY <1>22 DEF Advance, Heads, PendingKnown, Holding
    <3>2. head'[use[t]] = [sequence |-> pending[t].sequence, hash |-> pending[t].hash]
      BY <1>22, <2>1 DEF Advance, TypeOK, ClientTypes
    <3> QED
      BY <3>1, <3>2 DEF IsHead, IsTop
  <2> QED
    BY <1>22, <2>1, <2>2, <2>3, HeadsAfter DEF Advance, TypeOK, ClientTypes
<1>23. CASE Select
  BY <1>23, HeadsFrame DEF Select, TypeOK, DiskTypes, ClientTypes, diskVars, clientVars,
     lifeVars, threadVars, callVars, uploadVars
<1>24. CASE Answer
  BY <1>24, HeadsFrame DEF Answer, TypeOK, DiskTypes, ClientTypes, diskVars, clientVars,
     lifeVars, threadVars, callVars, uploadVars
<1>25. CASE AbandonBatch \/ AwaitLock \/ StrandFails
  BY <1>25, HeadsFrame DEF AbandonBatch, AwaitLock, StrandFails, TypeOK, DiskTypes, ClientTypes,
     diskVars, clientVars, lifeVars, threadVars, callVars, uploadVars
<1>26. CASE RetryBatch
  <2>1. Events(queue') = Events(queue)
    BY <1>26, MarkRetryableKeeps DEF RetryBatch, TypeOK, DiskTypes
  <2> QED
    BY <1>26, <2>1, HeadsFrame DEF RetryBatch, clientVars, lifeVars, threadVars, callVars
<1>27. ASSUME NEW row \in batch, ApplyAccepted(row) PROVE Heads'
  <2>1. Events(queue') = Events(queue)
    <3>1. row.event.id \in Hashes
      BY DEF TypeOK, UploadTypes, Row, Event
    <3> QED
      BY <1>27, <3>1, AcknowledgeKeeps DEF ApplyAccepted, TypeOK, DiskTypes
  <2> QED
    BY <1>27, <2>1, HeadsFrame DEF ApplyAccepted, clientVars, lifeVars, threadVars, callVars
<1>28. ASSUME NEW row \in batch, ApplyRetry(row) PROVE Heads'
  <2>1. Events(queue') = Events(queue)
    <3>1. PICK missing \in BOOLEAN :
              queue' = MarkRetryable(queue, {row.event.id},
                           /\ missing
                           /\ row.event.sequence # 1
                           /\ ~HasRow(queue, row.event.runtime, row.event.sequence - 1))
      BY <1>28 DEF ApplyRetry
    <3> QED
      BY <3>1, MarkRetryableKeeps DEF TypeOK, DiskTypes
  <2> QED
    BY <1>28, <2>1, HeadsFrame DEF ApplyRetry, clientVars, lifeVars, threadVars, callVars
<1>29. ASSUME NEW row \in batch, Strand(row) PROVE Heads'
  <2>1. Events(queue') = Events(queue)
    <3>1. row.event \in Event
      BY DEF TypeOK, UploadTypes, Row
    <3> QED
      BY <1>29, <3>1, MarkPermanentKeeps DEF Strand, TypeOK, DiskTypes
  <2> QED
    BY <1>29, <2>1, HeadsFrame DEF Strand, clientVars, lifeVars, threadVars, callVars
<1>30. ASSUME NEW row \in batch, BlockSigning(row) PROVE Heads'
  BY <1>30, HeadsFrame DEF BlockSigning, TypeOK, DiskTypes, ClientTypes, diskVars,
     clientVars, lifeVars, threadVars, callVars, uploadVars
<1>31. CASE UNCHANGED vars
  BY <1>31, HeadsFrame DEF vars, TypeOK, DiskTypes, ClientTypes, diskVars, clientVars,
     lifeVars, threadVars, callVars, uploadVars
<1>32. ASSUME NEW row \in batch, StrandRaises(row) PROVE Heads'
  <2>1. Events(queue') = Events(queue)
    <3>1. row.event \in Event
      BY DEF TypeOK, UploadTypes, Row
    <3> QED
      BY <1>32, <3>1, MarkPermanentKeeps DEF StrandRaises, TypeOK, DiskTypes
  <2> QED
    BY <1>32, <2>1, HeadsFrame DEF StrandRaises, clientVars, lifeVars, threadVars, callVars
<1> QED
  BY <1>1, <1>2, <1>3, <1>4, <1>5, <1>6, <1>7, <1>8, <1>9, <1>10, <1>11, <1>12, <1>13,
     <1>14, <1>15, <1>16, <1>17, <1>18, <1>19, <1>20, <1>21, <1>22, <1>23, <1>24, <1>25,
     <1>26, <1>27, <1>28, <1>29, <1>30, <1>31, <1>32 DEF Next, Shutdown, Append, Upload, Apply

-----------------------------------------------------------------------------
(* Starts and terminals. *)

\* Nothing that is stored is ever lost.
LEMMA EventsGrow ==
    ASSUME IInv, [Next]_vars
    PROVE  Events(queue) \subseteq Events(queue')
  BY QueueStep, StoredNext DEF IInv

\* A terminal event is stored behind its start.
LEMMA TerminalsStep ==
    ASSUME IInv, [Next]_vars
    PROVE  TerminalsStarted(Events(queue'))
<1>1. CASE Events(queue') = Events(queue)
  BY <1>1 DEF IInv, Starts
<1>2. ASSUME NEW t \in Threads, pc[t] = "commit", conn[use[t]] = "open",
             queue' = Insert(queue, pending[t])
      PROVE  TerminalsStarted(Events(queue'))
  <2> DEFINE E == Events(queue)
             e == pending[t]
             F == E \cup {e}
  <2>1. /\ Events(queue') = F
        /\ E \in SUBSET Event /\ e \in Event
        /\ e.runtime = use[t]
        /\ Chained(F)
        /\ IsTop(F, e)
    BY <1>2, StoredNext
  <2>2. TerminalsStarted(E)
    BY DEF IInv, Starts
  <2>3. ASSUME e.kind = "terminal"
        PROVE  \E s \in F : /\ s.kind = "started" /\ s.action = e.action
                            /\ s.runtime = e.runtime /\ s.sequence < e.sequence
    <3>1. stage[t] = "terminal" /\ e.action = action[t]
      BY <1>2, <2>3 DEF IInv, Starts, StartKnown, Holding, Control, LockHeld
    <3>2. PICK s \in E : s.kind = "started" /\ s.action = action[t] /\ s.runtime = use[t]
      <4>1. StartStored(E, action[t], use[t])
        BY <3>1 DEF IInv, Starts, StartKnown
      <4> QED
        BY <4>1 DEF StartStored
    <3>3. s.sequence \in Nat /\ e.sequence \in Nat
      BY <2>1 DEF Event
    <3>4. s.sequence <= e.sequence
      BY <2>1, <3>2 DEF IsTop
    <3>5. s.sequence # e.sequence
      BY <2>1, <2>3, <3>2 DEF Chained
    <3> QED
      BY <2>1, <3>1, <3>2, <3>3, <3>4, <3>5
  <2> HIDE DEF E, e
  <2>4. TerminalsStarted(F)
    BY <2>2, <2>3 DEF TerminalsStarted
  <2> QED
    BY <2>1, <2>4
<1> QED
  BY <1>1, <1>2, QueueStep DEF IInv

\* What a thread knows of its start survives the steps of the others.
LEMMA StartFrame ==
    ASSUME NEW t \in Threads, StartKnown(t), Events(queue) \subseteq Events(queue'),
           mode' = mode, stage'[t] = stage[t], action'[t] = action[t], use'[t] = use[t],
           started'[t] = started[t], pc'[t] = pc[t], pending'[t] = pending[t]
    PROVE  StartKnown(t)'
  BY DEF StartKnown, StartStored, Holding

\* A thread outside a call knows nothing.
LEMMA StartIdle ==
    ASSUME NEW t \in Threads, stage'[t] = "idle", pc'[t] = "out"
    PROVE  StartKnown(t)'
  BY DEF StartKnown, Holding

\* The end of append_event: the business function goes on with started set only if
\* the start is stored.
LEMMA StartConclude ==
    ASSUME IInv, NEW t \in Threads, NEW committed, committed \in BOOLEAN,
           Conclude(t, committed), stage[t] \in {"start", "terminal"},
           Events(queue') = Events(queue), mode' = mode,
           committed /\ stage[t] = "start" => StartStored(Events(queue), action[t], use[t])
    PROVE  \A u \in Threads : StartKnown(u)'
<1>1. TypeOK /\ mode \in {"continue", "raise"}
  BY ModesAssumption DEF IInv, TypeOK, ClientTypes
<1>2. CASE stage[t] = "start" /\ (committed \/ mode = "continue")
  <2>1. /\ pc' = [pc EXCEPT ![t] = "out"] /\ pending' = [pending EXCEPT ![t] = NoEvent]
        /\ stage' = [stage EXCEPT ![t] = "business"]
        /\ started' = [started EXCEPT ![t] = committed]
        /\ use' = use /\ action' = action
    BY <1>2 DEF Conclude
  <2>2. StartKnown(t)'
    BY <1>1, <1>2, <2>1 DEF StartKnown, StartStored, Holding, TypeOK, ThreadTypes
  <2>3. ASSUME NEW u \in Threads, u # t PROVE StartKnown(u)'
    BY <1>1, <2>1, <2>3, StartFrame DEF IInv, Starts, TypeOK, ThreadTypes
  <2> QED
    BY <2>2, <2>3
<1>3. CASE ~(stage[t] = "start" /\ (committed \/ mode = "continue"))
  <2>1. /\ pc' = [pc EXCEPT ![t] = "out"] /\ pending' = [pending EXCEPT ![t] = NoEvent]
        /\ stage' = [stage EXCEPT ![t] = "idle"]
        /\ started' = [started EXCEPT ![t] = FALSE]
        /\ use' = [use EXCEPT ![t] = 0] /\ action' = [action EXCEPT ![t] = 0]
    BY <1>3 DEF Conclude, Return
  <2>2. StartKnown(t)'
    BY <1>1, <2>1, StartIdle DEF TypeOK, ThreadTypes
  <2>3. ASSUME NEW u \in Threads, u # t PROVE StartKnown(u)'
    BY <1>1, <2>1, <2>3, StartFrame DEF IInv, Starts, TypeOK, ThreadTypes
  <2> QED
    BY <2>2, <2>3
<1> QED
  BY <1>2, <1>3

\* Every step keeps what the threads know of their starts.
LEMMA StartsStep == IInv /\ [Next]_vars => Starts'
<1> SUFFICES ASSUME IInv, [Next]_vars PROVE \A u \in Threads : StartKnown(u)'
  BY TerminalsStep DEF Starts
<1>0. TypeOK /\ Control /\ Heads /\ Starts
  BY DEF IInv
<1> USE <1>0
<1>1. CASE UNCHANGED <<mode, stage, action, use, started, pc, pending>>
  BY <1>1, EventsGrow, StartFrame DEF Starts
<1>2. CASE Open \/ BeginClose \/ Shutdown \/ Upload \/ UNCHANGED vars
  BY <1>2, <1>1 DEF Open, BeginClose, Shutdown, StopUploader, CloseQueue, ReleaseDirectory,
     Upload, Select, RetryBatch, Answer, AbandonBatch, Apply, ApplyAccepted, ApplyRetry,
     AwaitLock, StrandFails, Strand, StrandRaises, BlockSigning, vars, diskVars, clientVars,
     lifeVars, threadVars, callVars
<1>3. CASE Crash
  BY <1>3, StartIdle DEF Crash
<1>4. ASSUME NEW t \in Threads, Invoke(t) PROVE \A u \in Threads : StartKnown(u)'
  <2>1. StartKnown(t)'
    BY <1>4 DEF Invoke, StartKnown, Holding, Control, LockHeld, TypeOK, ThreadTypes
  <2>2. ASSUME NEW u \in Threads, u # t PROVE StartKnown(u)'
    <3>1. /\ stage'[u] = stage[u] /\ action'[u] = action[u] /\ use'[u] = use[u]
          /\ started'[u] = started[u] /\ pc'[u] = pc[u] /\ pending'[u] = pending[u]
      BY <1>4, <2>2 DEF Invoke, Return, TypeOK, ThreadTypes, threadVars, callVars
    <3>2. mode' = mode
      BY <1>4 DEF Invoke, clientVars, lifeVars
    <3> QED
      BY <3>1, <3>2, EventsGrow, StartFrame DEF Starts
  <2> QED
    BY <2>1, <2>2
<1>5. ASSUME NEW t \in Threads, DigestRaises(t) PROVE \A u \in Threads : StartKnown(u)'
  <2>1. StartKnown(t)'
    BY <1>5, StartIdle DEF DigestRaises, Return, Control, LockHeld, TypeOK, ThreadTypes
  <2>2. ASSUME NEW u \in Threads, u # t PROVE StartKnown(u)'
    <3>1. /\ stage'[u] = stage[u] /\ action'[u] = action[u] /\ use'[u] = use[u]
          /\ started'[u] = started[u] /\ pc'[u] = pc[u] /\ pending'[u] = pending[u]
      BY <1>5, <2>2 DEF DigestRaises, Return, TypeOK, ThreadTypes, threadVars, callVars
    <3>2. mode' = mode
      BY <1>5 DEF DigestRaises, clientVars, lifeVars
    <3> QED
      BY <3>1, <3>2, EventsGrow, StartFrame DEF Starts
  <2> QED
    BY <2>1, <2>2
<1>6. ASSUME NEW t \in Threads, FinishBusiness(t) PROVE \A u \in Threads : StartKnown(u)'
  <2>1. StartKnown(t)'
    <3>1. pc'[t] = "out"
      BY <1>6 DEF FinishBusiness, Control, LockHeld
    <3>2. CASE started[t]
      <4>1. StartStored(Events(queue), action[t], use[t])
        BY <1>6, <3>2 DEF FinishBusiness, Starts, StartKnown
      <4>2. UNCHANGED <<queue, use, action>> /\ stage'[t] = "terminal"
        BY <1>6, <3>2 DEF FinishBusiness, diskVars, TypeOK, ThreadTypes
      <4> QED
        BY <3>1, <4>1, <4>2 DEF StartKnown, StartStored, Holding
    <3>3. CASE ~started[t]
      <4>1. stage'[t] = "idle"
        BY <1>6, <3>3 DEF FinishBusiness, Return, TypeOK, ThreadTypes
      <4> QED
        BY <3>1, <4>1, StartIdle
    <3> QED
      BY <3>2, <3>3
  <2>2. ASSUME NEW u \in Threads, u # t PROVE StartKnown(u)'
    <3>1. /\ stage'[u] = stage[u] /\ action'[u] = action[u] /\ use'[u] = use[u]
          /\ started'[u] = started[u] /\ pc'[u] = pc[u] /\ pending'[u] = pending[u]
      BY <1>6, <2>2 DEF FinishBusiness, Return, TypeOK, ThreadTypes, threadVars, callVars
    <3>2. mode' = mode
      BY <1>6 DEF FinishBusiness, clientVars, lifeVars
    <3> QED
      BY <3>1, <3>2, EventsGrow, StartFrame DEF Starts
  <2> QED
    BY <2>1, <2>2
<1>7. ASSUME NEW t \in Threads, Refuse(t) PROVE \A u \in Threads : StartKnown(u)'
  BY <1>7, StartConclude DEF Refuse, CanLock, Wants, Control, LockHeld, diskVars,
     clientVars, lifeVars
<1>8. ASSUME NEW t \in Threads, Build(t) PROVE \A u \in Threads : StartKnown(u)'
  <2>1. StartKnown(t)'
    <3>1. StartKnown(t) /\ stage[t] \in {"start", "terminal"}
      BY <1>8 DEF Build, CanLock, Wants, Control, LockHeld, Starts
    <3>2. pending'[t] = NextEvent(t) /\ UNCHANGED <<queue, mode, stage, action, use, started>>
      BY <1>8 DEF Build, TypeOK, ThreadTypes, diskVars, clientVars, lifeVars, threadVars, callVars
    <3> QED
      BY <3>1, <3>2 DEF StartKnown, StartStored, NextEvent
  <2>2. ASSUME NEW u \in Threads, u # t PROVE StartKnown(u)'
    <3>1. /\ stage'[u] = stage[u] /\ action'[u] = action[u] /\ use'[u] = use[u]
          /\ started'[u] = started[u] /\ pc'[u] = pc[u] /\ pending'[u] = pending[u]
      BY <1>8, <2>2 DEF Build, Return, TypeOK, ThreadTypes, threadVars, callVars
    <3>2. mode' = mode
      BY <1>8 DEF Build, clientVars, lifeVars
    <3> QED
      BY <3>1, <3>2, EventsGrow, StartFrame DEF Starts
  <2> QED
    BY <2>1, <2>2
<1>9. ASSUME NEW t \in Threads, RegistrationSucceeds(t) PROVE \A u \in Threads : StartKnown(u)'
  <2>1. StartKnown(t)'
    <3>1. StartKnown(t) /\ stage[t] \in {"start", "terminal"}
      BY <1>9 DEF RegistrationSucceeds, CanLock, Wants, Control, LockHeld, Starts
    <3>2. pending'[t] = NextEvent(t) /\ UNCHANGED <<queue, mode, stage, action, use, started>>
      BY <1>9 DEF RegistrationSucceeds, TypeOK, ThreadTypes, diskVars, clientVars,
             lifeVars, threadVars, callVars
    <3> QED
      BY <3>1, <3>2 DEF StartKnown, StartStored, NextEvent
  <2>2. ASSUME NEW u \in Threads, u # t PROVE StartKnown(u)'
    <3>1. /\ stage'[u] = stage[u] /\ action'[u] = action[u] /\ use'[u] = use[u]
          /\ started'[u] = started[u] /\ pc'[u] = pc[u] /\ pending'[u] = pending[u]
      BY <1>9, <2>2 DEF RegistrationSucceeds, Return, TypeOK, ThreadTypes, threadVars,
         callVars
    <3>2. mode' = mode
      BY <1>9 DEF RegistrationSucceeds, clientVars, lifeVars
    <3> QED
      BY <3>1, <3>2, EventsGrow, StartFrame DEF Starts
  <2> QED
    BY <2>1, <2>2
<1>10. ASSUME NEW t \in Threads, SendRegistration(t) PROVE \A u \in Threads : StartKnown(u)'
  <2>1. StartKnown(t)'
    <3>1. StartKnown(t) /\ UNCHANGED <<queue, mode, stage, action, use, started>>
      BY <1>10 DEF SendRegistration, Starts, lifeVars, diskVars, callVars
    <3>2. pc'[t] = "register"
      BY <1>10 DEF SendRegistration, TypeOK, ThreadTypes
    <3> QED
      BY <3>1, <3>2 DEF StartKnown, StartStored, Holding
  <2>2. ASSUME NEW u \in Threads, u # t PROVE StartKnown(u)'
    <3>1. /\ stage'[u] = stage[u] /\ action'[u] = action[u] /\ use'[u] = use[u]
          /\ started'[u] = started[u] /\ pc'[u] = pc[u] /\ pending'[u] = pending[u]
      BY <1>10, <2>2 DEF SendRegistration, Return, TypeOK, ThreadTypes, threadVars, callVars
    <3>2. mode' = mode
      BY <1>10 DEF SendRegistration, clientVars, lifeVars
    <3> QED
      BY <3>1, <3>2, EventsGrow, StartFrame DEF Starts
  <2> QED
    BY <2>1, <2>2
<1>11. ASSUME NEW t \in Threads, RegistrationFails(t) PROVE \A u \in Threads : StartKnown(u)'
  BY <1>11, StartConclude DEF RegistrationFails, CanLock, Wants, Control, LockHeld, diskVars,
     clientVars, lifeVars
<1>12. ASSUME NEW t \in Threads, InsertRow(t) PROVE \A u \in Threads : StartKnown(u)'
  <2>1. StartKnown(t)'
    <3>1. StartKnown(t) /\ Holding(t)
      BY <1>12 DEF InsertRow, Starts, Holding
    <3>2. UNCHANGED <<mode, stage, action, use, started, pending>>
      BY <1>12 DEF InsertRow, clientVars, lifeVars, callVars
    <3> QED
      BY <3>1, <3>2, EventsGrow DEF StartKnown, StartStored
  <2>2. ASSUME NEW u \in Threads, u # t PROVE StartKnown(u)'
    <3>1. /\ stage'[u] = stage[u] /\ action'[u] = action[u] /\ use'[u] = use[u]
          /\ started'[u] = started[u] /\ pc'[u] = pc[u] /\ pending'[u] = pending[u]
      BY <1>12, <2>2 DEF InsertRow, Return, TypeOK, ThreadTypes, threadVars, callVars
    <3>2. mode' = mode
      BY <1>12 DEF InsertRow, clientVars, lifeVars
    <3> QED
      BY <3>1, <3>2, EventsGrow, StartFrame DEF Starts
  <2> QED
    BY <2>1, <2>2
<1>13. ASSUME NEW t \in Threads, Commit(t) PROVE \A u \in Threads : StartKnown(u)'
  <2>1. StartKnown(t)'
    <3>1. StartKnown(t) /\ Holding(t)
      BY <1>13 DEF Commit, Starts, Holding
    <3>2. UNCHANGED <<mode, stage, action, use, started, pending>>
      BY <1>13 DEF Commit, clientVars, lifeVars, callVars
    <3> QED
      BY <3>1, <3>2, EventsGrow DEF StartKnown, StartStored
  <2>2. ASSUME NEW u \in Threads, u # t PROVE StartKnown(u)'
    <3>1. /\ stage'[u] = stage[u] /\ action'[u] = action[u] /\ use'[u] = use[u]
          /\ started'[u] = started[u] /\ pc'[u] = pc[u] /\ pending'[u] = pending[u]
      BY <1>13, <2>2 DEF Commit, Return, TypeOK, ThreadTypes, threadVars, callVars
    <3>2. mode' = mode
      BY <1>13 DEF Commit, clientVars, lifeVars
    <3> QED
      BY <3>1, <3>2, EventsGrow, StartFrame DEF Starts
  <2> QED
    BY <2>1, <2>2
<1>14. ASSUME NEW t \in Threads, CommitRaises(t) PROVE \A u \in Threads : StartKnown(u)'
  <2>1. StartKnown(t)'
    <3>1. StartKnown(t) /\ Holding(t)
      BY <1>14 DEF CommitRaises, Starts, Holding
    <3>2. UNCHANGED <<mode, stage, action, use, started, pending>>
      BY <1>14 DEF CommitRaises, clientVars, lifeVars, callVars
    <3> QED
      BY <3>1, <3>2, EventsGrow DEF StartKnown, StartStored
  <2>2. ASSUME NEW u \in Threads, u # t PROVE StartKnown(u)'
    <3>1. /\ stage'[u] = stage[u] /\ action'[u] = action[u] /\ use'[u] = use[u]
          /\ started'[u] = started[u] /\ pc'[u] = pc[u] /\ pending'[u] = pending[u]
      BY <1>14, <2>2 DEF CommitRaises, Return, TypeOK, ThreadTypes, threadVars, callVars
    <3>2. mode' = mode
      BY <1>14 DEF CommitRaises, clientVars, lifeVars
    <3> QED
      BY <3>1, <3>2, EventsGrow, StartFrame DEF Starts
  <2> QED
    BY <2>1, <2>2
<1>15. ASSUME NEW t \in Threads, InsertFails(t) PROVE \A u \in Threads : StartKnown(u)'
  BY <1>15, StartConclude DEF InsertFails, CanLock, Wants, Control, LockHeld, diskVars,
     clientVars, lifeVars
<1>16. ASSUME NEW t \in Threads, ReconcileBlocks(t) PROVE \A u \in Threads : StartKnown(u)'
  BY <1>16, StartConclude DEF ReconcileBlocks, CanLock, Wants, Control, LockHeld, diskVars,
     clientVars, lifeVars
<1>17. ASSUME NEW t \in Threads, ReconcileAbsent(t) PROVE \A u \in Threads : StartKnown(u)'
  BY <1>17, StartConclude DEF ReconcileAbsent, CanLock, Wants, Control, LockHeld, diskVars,
     clientVars, lifeVars
<1>18. ASSUME NEW t \in Threads, ReconcilePresent(t) PROVE \A u \in Threads : StartKnown(u)'
  <2>1. pending[t] \in Events(queue) /\ Holding(t) /\ pending[t].runtime = use[t]
    BY <1>18 DEF ReconcilePresent, Heads, PendingKnown, Holding, IsTop
  <2>2. stage[t] = "start" => StartStored(Events(queue), action[t], use[t])
    BY <2>1 DEF Starts, StartKnown, StartStored
  <2> QED
    BY <1>18, <2>2, StartConclude DEF ReconcilePresent, Control, LockHeld, diskVars, lifeVars
<1>19. ASSUME NEW t \in Threads, Advance(t) PROVE \A u \in Threads : StartKnown(u)'
  <2>1. pending[t] \in Events(queue) /\ Holding(t) /\ pending[t].runtime = use[t]
    BY <1>19 DEF Advance, Heads, PendingKnown, Holding, IsTop
  <2>2. stage[t] = "start" => StartStored(Events(queue), action[t], use[t])
    BY <2>1 DEF Starts, StartKnown, StartStored
  <2> QED
    BY <1>19, <2>2, StartConclude DEF Advance, Control, LockHeld, diskVars, lifeVars
<1> QED
  BY <1>2, <1>3, <1>4, <1>5, <1>6, <1>7, <1>8, <1>9, <1>10, <1>11, <1>12, <1>13, <1>14,
     <1>15, <1>16, <1>17, <1>18, <1>19 DEF Next, Append
-----------------------------------------------------------------------------
(* The invariant is inductive, and what it says of the stored chain. *)

\* A client that was not opened yet satisfies the invariant.
LEMMA InvariantInit == Init => IInv
<1> SUFFICES ASSUME Init PROVE IInv
  OBVIOUS
<1>1. queue = {} /\ Events(queue) = {}
  BY DEF Init, Events
<1>2. Chained(Events(queue)) /\ OneRowPerEvent(queue)
  BY <1>1 DEF Chained, OneRowPerEvent
<1>3. Heads
  BY <1>1 DEF Init, Heads, SettledHeads, PendingKnown, Holding, IsHead
<1>4. Starts
  BY <1>1 DEF Init, Starts, TerminalsStarted, StartKnown, Holding
<1> QED
  BY <1>2, <1>3, <1>4, TypesInit, ControlInit DEF IInv

\* Every step preserves every part of the invariant.
LEMMA InvariantStep == IInv /\ [Next]_vars => IInv'
  BY TypesStep, ControlStep, ChainStep, HeadsStep, StartsStep DEF IInv

\* The inductive invariant holds in every reachable state.
THEOREM Invariant == Spec => []IInv
  BY InvariantInit, InvariantStep, PTL DEF Spec

\* Every variable keeps its type: a queue row is well formed, a thread holds a
\* real event, the head of every runtime is a sequence number and a hash.
THEOREM TypesHold == Spec => []TypeOK
<1>1. IInv => TypeOK
  BY DEF IInv
<1> QED
  BY <1>1, Invariant, PTL

\* The stored events of every runtime form one hash chain, for any number of
\* threads, clients and calls, through crashes, closes and ambiguous commits.
THEOREM ChainHolds == Spec => []HashChain
<1>1. IInv => HashChain
  <2> SUFFICES ASSUME IInv PROVE HashChain
    OBVIOUS
  <2>1. ASSUME NEW row \in queue
        PROVE  IF row.event.sequence = 1 THEN row.event.prev = NoHash
               ELSE \E below \in queue : /\ below.event.runtime = row.event.runtime
                                         /\ below.event.sequence = row.event.sequence - 1
                                         /\ below.event.hash = row.event.prev
    BY DEF IInv, Chained, Events
  <2>2. ASSUME NEW row \in queue, NEW other \in queue,
               \/ other.event.id = row.event.id
               \/ /\ other.event.runtime = row.event.runtime
                  /\ other.event.sequence = row.event.sequence
        PROVE  other = row
    <3>1. other.event = row.event
      BY <2>2 DEF IInv, Chained, Events
    <3> QED
      BY <3>1 DEF IInv, OneRowPerEvent
  <2> QED
    BY <2>1, <2>2 DEF HashChain
<1> QED
  BY <1>1, Invariant, PTL

\* A client that may sign and is in no append holds the durable head.
THEOREM HeadHolds == Spec => []HeadIsDurable
<1>1. IInv => HeadIsDurable
  <2> SUFFICES ASSUME IInv, NEW r \in Runtimes, Signable(r), ~InFlight(r)
               PROVE  head[r] = QueueHead(queue, r)
    BY DEF HeadIsDurable
  <2>1. IsHead(Events(queue), r, head[r])
    BY DEF IInv, Heads, SettledHeads, Signable
  <2>2. Chained(Events(queue)) /\ queue \in SUBSET Row
    BY DEF IInv, TypeOK, DiskTypes
  <2>3. ASSUME NEW e \in Events(queue), e.runtime = r, IsTop(Events(queue), e),
               head[r] = [sequence |-> e.sequence, hash |-> e.hash]
        PROVE  head[r] = QueueHead(queue, r)
    BY <2>2, <2>3, HeadOfTop
  <2> QED
    BY <2>1, <2>3, HeadOfNone DEF IsHead
<1> QED
  BY <1>1, Invariant, PTL

\* No terminal event is stored without the start of its action below it.
THEOREM TerminalsHold == Spec => []TerminalAfterStart
<1>1. IInv => TerminalAfterStart
  BY DEF IInv, Starts, TerminalsStarted, TerminalAfterStart, Events
<1> QED
  BY <1>1, Invariant, PTL

\* With failure_mode="raise" no business function runs without a stored start.
THEOREM RaiseModeHolds == Spec => []RaiseModeAudited
<1>1. IInv => RaiseModeAudited
  BY DEF IInv, Starts, StartKnown, StartStored, RaiseModeAudited, Events
<1> QED
  BY <1>1, Invariant, PTL
-----------------------------------------------------------------------------
(* Who may write: a call that outlives its client stores nothing. *)

\* The life of a client before it gives the directory back.
Alive == {"open", "closing", "stopped", "disconnected"}

\* Before the COMMIT of its event.
Entering(t) == pc[t] \in {"register", "insert", "commit"}

\* Only the owner's client is alive, and an append before its COMMIT belongs to a
\* client that has not disconnected, or has lost its connection.
Owning ==
    /\ \A r \in Runtimes : phase[r] \in Alive => r = owner
    /\ \A t \in Threads : Entering(t) =>
           \/ phase[use[t]] \in Alive \ {"disconnected"}
           \/ conn[use[t]] = "closed"

\* Every step keeps the clients apart.
LEMMA OwningStep == TypeOK /\ Control /\ Owning /\ [Next]_vars => Owning'
<1> SUFFICES ASSUME TypeOK, Control, Owning, [Next]_vars PROVE Owning'
  OBVIOUS
<1>0. /\ \A t \in Threads : pc[t] # "out" =>
             use[t] \in Runtimes /\ phase[use[t]] \notin {"new", "dead"}
      /\ \A r \in Runtimes : phase[r] \in Alive => r = owner
      /\ \A t \in Threads : Entering(t) =>
           \/ phase[use[t]] \in Alive \ {"disconnected"}
           \/ conn[use[t]] = "closed"
      /\ owner \in Runtimes \cup {0}
      /\ phase \in [Runtimes -> {"new", "open", "closing", "stopped", "disconnected",
                               "released", "dead"}]
      /\ conn \in [Runtimes -> {"open", "closed"}]
      /\ pc \in [Threads -> {"out", "register", "insert", "commit", "reconcile", "advance"}]
  BY DEF Control, CallsLive, LockHeld, Owning, TypeOK, ClientTypes, ThreadTypes
<1>1. CASE Open
  <2> DEFINE n == clients + 1
  <2>1. n \in Runtimes /\ phase[n] = "new" /\ n # 0 /\ 0 \notin Runtimes
    BY <1>1, BoundsAssumption DEF Open, TypeOK, ClientTypes, Runtimes, Control, NewAbove
  <2>2. /\ owner = 0 /\ owner' = n /\ phase' = [phase EXCEPT ![n] = "open"]
        /\ conn' = [conn EXCEPT ![n] = "open"] /\ UNCHANGED <<pc, use>>
    BY <1>1 DEF Open, threadVars, callVars
  <2> HIDE DEF n
  <2>3. \A r \in Runtimes : phase'[r] \in Alive => r = owner'
    BY <1>0, <2>1, <2>2
  <2>4. \A t \in Threads : Entering(t)' => use[t] # n /\ use[t] \in Runtimes /\ Entering(t)
    BY <1>0, <2>1, <2>2 DEF Entering
  <2>5. \A t \in Threads : Entering(t)' =>
            phase'[use'[t]] = phase[use[t]] /\ conn'[use'[t]] = conn[use[t]] /\ Entering(t)
    BY <1>0, <2>2, <2>4
  <2>6. \A t \in Threads : Entering(t)' =>
           \/ phase'[use'[t]] \in Alive \ {"disconnected"}
           \/ conn'[use'[t]] = "closed"
    BY <1>0, <2>5
  <2> QED
    BY <2>3, <2>6 DEF Owning
<1>2. CASE BeginClose \/ StopUploader
  <2>1. /\ owner \in Runtimes /\ UNCHANGED <<owner, conn, pc, use>>
        /\ phase[owner] \in {"open", "closing"}
        /\ \E p \in {"closing", "stopped"} : phase' = [phase EXCEPT ![owner] = p]
    BY <1>0, <1>2 DEF BeginClose, StopUploader, threadVars, callVars
  <2> QED
    BY <1>0, <2>1 DEF Owning, Alive, Entering
<1>3. CASE CloseQueue
  <2>1. /\ owner \in Runtimes /\ UNCHANGED <<owner, pc, use>>
        /\ phase' = [phase EXCEPT ![owner] = "disconnected"]
        /\ conn' = [conn EXCEPT ![owner] = "closed"] /\ phase[owner] = "stopped"
    BY <1>0, <1>3 DEF CloseQueue, threadVars, callVars
  <2> QED
    BY <1>0, <2>1 DEF Owning, Alive, Entering
<1>4. CASE ReleaseDirectory
  <2>1. /\ owner \in Runtimes /\ UNCHANGED <<conn, pc, use>>
        /\ phase' = [phase EXCEPT ![owner] = "released"] /\ phase[owner] = "disconnected"
    BY <1>0, <1>4 DEF ReleaseDirectory, threadVars, callVars
  <2> QED
    BY <1>0, <2>1 DEF Owning, Alive, Entering
<1>5. CASE Crash
  BY <1>5 DEF Crash, Owning, Alive, Entering
<1>6. CASE Upload \/ UNCHANGED vars
  <2>1. UNCHANGED <<owner, phase, conn, pc, use>>
    BY <1>6 DEF Upload, Select, RetryBatch, Answer, AbandonBatch, Apply, ApplyAccepted, ApplyRetry,
     AwaitLock, StrandFails, Strand, StrandRaises, BlockSigning, vars, diskVars, clientVars,
     lifeVars, threadVars, callVars
  <2> QED
    BY <1>0, <2>1 DEF Owning, Entering
<1>7. ASSUME NEW t \in Threads, Invoke(t) \/ DigestRaises(t) \/ FinishBusiness(t) PROVE Owning'
  <2>1. UNCHANGED <<owner, phase, conn, pc>> /\ stage[t] \in {"idle", "business"}
    BY <1>7 DEF Invoke, DigestRaises, FinishBusiness, clientVars, lifeVars
  <2>2. ~ Entering(t) /\ \A u \in Threads \ {t} : use'[u] = use[u]
    BY <1>7, <2>1 DEF Invoke, DigestRaises, FinishBusiness, Return, Entering, Control, LockHeld,
       TypeOK, ThreadTypes
  <2> QED
    BY <1>0, <2>1, <2>2 DEF Owning, Entering
<1>8. ASSUME NEW t \in Threads, Append(t) PROVE Owning'
  <2>1. UNCHANGED <<owner, phase>>
    BY <1>8 DEF Append, Refuse, Build, SendRegistration, RegistrationSucceeds,
       RegistrationFails, InsertRow, InsertFails, Commit, CommitRaises, ReconcileBlocks,
       ReconcileAbsent, ReconcilePresent, Advance, clientVars, lifeVars
  <2>2. \A u \in Threads \ {t} : pc'[u] = pc[u] /\ use'[u] = use[u]
    BY <1>8 DEF Append, Refuse, Build, SendRegistration, RegistrationSucceeds,
       RegistrationFails, InsertRow, InsertFails, Commit, CommitRaises, ReconcileBlocks,
       ReconcileAbsent, ReconcilePresent, Advance, callVars, Conclude, Return, TypeOK, ThreadTypes
  <2>3. \A r \in Runtimes : \/ conn'[r] \in {conn[r], "closed"}
                            \/ r = use[t] /\ pc[t] = "reconcile"
    BY <1>8, <1>0 DEF Append, Refuse, Build, SendRegistration, RegistrationSucceeds,
       RegistrationFails, InsertRow, InsertFails, Commit, CommitRaises, ReconcileBlocks,
       ReconcileAbsent, ReconcilePresent, Advance, clientVars, lifeVars
  <2>4. Entering(t)' => /\ use'[t] = use[t] /\ conn' = conn
                        /\ Entering(t) \/ phase[use[t]] = "open"
    BY <1>8 DEF Append, Refuse, Build, SendRegistration, RegistrationSucceeds,
       RegistrationFails, InsertRow, InsertFails, Commit, CommitRaises, ReconcileBlocks,
       ReconcileAbsent, ReconcilePresent, Advance, clientVars, lifeVars, callVars, Conclude, Return, Entering,
       CanLock, Wants, Signable, TypeOK, ThreadTypes
  <2>5. ASSUME NEW u \in Threads, Entering(u)'
        PROVE  \/ phase'[use'[u]] \in Alive \ {"disconnected"}
               \/ conn'[use'[u]] = "closed"
    <3>1. CASE u = t
      BY <1>0, <2>1, <2>4, <2>5, <3>1 DEF Alive
    <3>2. CASE u # t
      <4>1. Entering(u) /\ use'[u] = use[u] /\ use[u] \in Runtimes
        BY <1>0, <2>2, <2>5, <3>2 DEF Entering
      <4>2. pc[t] = "reconcile" => use[u] # use[t]
        BY <3>2, <4>1, Apart DEF Entering
      <4> QED
        BY <1>0, <2>1, <2>3, <4>1, <4>2
    <3> QED
      BY <3>1, <3>2
  <2> QED
    BY <1>0, <2>1, <2>5 DEF Owning
<1> QED
  BY <1>1, <1>2, <1>3, <1>4, <1>5, <1>6, <1>7, <1>8 DEF Next, Shutdown

\* A call that outlives close() writes nothing: what is stored stays stored, and a
\* new event belongs to the runtime of the client that owns the directory.
THEOREM OwnerAppends == Spec => AppendOnlyByOwner
<1> DEFINE A == /\ Events(queue) \subseteq Events(queue')
                /\ \A event \in Events(queue') \ Events(queue) :
                       owner # 0 /\ event.runtime = owner
<1>1. Init => Owning
  BY DEF Init, Owning, Alive, Entering
<1>2. IInv => TypeOK /\ Control
  BY DEF IInv
<1>3. IInv /\ Owning /\ [Next]_vars => [A]_vars
  <2> SUFFICES ASSUME IInv, Owning, [Next]_vars PROVE A
    OBVIOUS
  <2>1. CASE Events(queue') = Events(queue)
    BY <2>1
  <2>2. ASSUME NEW t \in Threads, pc[t] = "commit", conn[use[t]] = "open",
               queue' = Insert(queue, pending[t])
        PROVE  A
    <3>1. /\ Events(queue') = Events(queue) \cup {pending[t]}
          /\ pending[t].runtime = use[t] /\ use[t] \in Runtimes
      BY <2>2, StoredNext
    <3>2. use[t] = owner /\ 0 \notin Runtimes
      BY <2>2, <3>1 DEF Owning, Entering, Runtimes
    <3> QED
      BY <3>1, <3>2
  <2> QED
    BY <1>2, <2>1, <2>2, QueueStep
<1>4. [A]_vars <=> [/\ Events(queue) \subseteq Events(queue')
                    /\ \A event \in Events(queue') \ Events(queue) :
                           owner # 0 /\ event.runtime = owner]_vars
  OBVIOUS
<1> HIDE DEF A
<1>5. Spec => [][A]_vars
  BY <1>1, <1>2, <1>3, OwningStep, Invariant, PTL DEF Spec
<1> QED
  BY <1>4, <1>5, PTL DEF AppendOnlyByOwner
-----------------------------------------------------------------------------
(* The fates of the stored events, and the rows in the hands of the uploader. *)

Receipts == {NoReceipt} \cup {<<id>> : id \in Hashes}

\* States follow the order of the chain, and no unresolved row is given up.
Fates(q) == Ordered(q) /\ NoRestart(q)

\* The rows of an answer that the queue holds as failed for good.
Stranded == {row \in batch : row.event \in FailedEvents(queue)}

\* The rows in the hands of the uploader are still the lowest unresolved rows of
\* runtimes that can progress, but for the one it has just failed.
Selected ==
    /\ upload \in {"sent", "apply", "strand"} => batch \subseteq SelectUploadBatch(queue)
    /\ upload = "block" => \E s \in Stranded : batch \ {s} \subseteq SelectUploadBatch(queue)

\* A failure of the owner's runtime has blocked its signing, or the uploader is
\* about to, and then no append has passed the gate.
Guarded ==
    /\ \A e \in FailedEvents(queue) : e.runtime = owner =>
           blocked[owner] \/ (upload = "block" /\ \E s \in Stranded : s.event.runtime = owner)
    /\ \A t \in Threads : Entering(t) /\ use[t] = owner =>
           \A e \in FailedEvents(queue) : e.runtime # owner

\* Every stored event belongs to a client that was opened.
Opened == \A e \in Events(queue) : e.runtime \in 1..clients

FInv == IInv /\ Owning /\ Opened /\ Fates(queue) /\ Selected /\ Guarded

\* The table satisfies the constraints of its schema.
LEMMA QueueFacts ==
    ASSUME IInv
    PROVE  /\ queue \in SUBSET RowSet(Event, Receipts)
           /\ Unique(queue) /\ Numbered(Events(queue))
           /\ NoReceipt \in Receipts
<1>1. queue \in SUBSET Row /\ OneRowPerEvent(queue) /\ Chained(Events(queue))
  BY DEF IInv, TypeOK, DiskTypes
<1>2. queue \in SUBSET RowSet(Event, Receipts)
  BY <1>1 DEF Row, RowSet, Receipts
<1>3. Unique(queue)
  BY <1>1 DEF Unique, OneRowPerEvent, Chained, Events
<1>4. Numbered(Events(queue))
  BY <1>1 DEF Numbered, Events, Row, Event
<1> QED
  BY <1>2, <1>3, <1>4 DEF Receipts

\* Marking for a retry.
LEMMA RetryTable ==
    ASSUME IInv, Fates(queue), NEW ids, queue' = MarkRetryable(queue, ids, FALSE)
    PROVE  /\ Events(queue') = Events(queue)
           /\ UploadedEvents(queue') = UploadedEvents(queue)
           /\ FailedEvents(queue') = FailedEvents(queue)
           /\ Fates(queue')
           /\ \A row \in SelectUploadBatch(queue) :
                  row.event.id \notin ids => row \in SelectUploadBatch(queue')
<1> HIDE DEF Event, Receipts
<1>1. /\ \A x \in queue : \E y \in queue' : Retried(x, y, ids)
      /\ \A y \in queue' : \E x \in queue : Retried(x, y, ids)
  BY MarkRetryableRows, QueueFacts
<1> QED
  BY <1>1, RetriedKeeps, RetriedSelection DEF Fates

\* Acknowledging a row in flight.
LEMMA AcceptTable ==
    ASSUME IInv, Fates(queue), batch \subseteq SelectUploadBatch(queue), NEW row \in batch,
           queue' = Acknowledge(queue, row.event.id, <<row.event.id>>)
    PROVE  /\ Events(queue') = Events(queue)
           /\ UploadedEvents(queue') = UploadedEvents(queue) \cup {row.event}
           /\ FailedEvents(queue') = FailedEvents(queue)
           /\ Fates(queue')
           /\ batch \ {row} \subseteq SelectUploadBatch(queue')
<1>0. /\ row \in queue /\ row \in SelectUploadBatch(queue) /\ row.state \in Unresolved
      /\ <<row.event.id>> \in Receipts
      /\ Numbered(Events(queue)) /\ Unique(queue) /\ Ordered(queue) /\ NoRestart(queue)
      /\ queue \in SUBSET RowSet(Event, Receipts)
  <2>1. row \in queue /\ row.state \in Unresolved
    BY DEF SelectUploadBatch
  <2>2. row.event.id \in Hashes
    BY <2>1, QueueFacts DEF RowSet, Event
  <2> QED
    BY <2>1, <2>2, QueueFacts DEF Fates, Receipts
<1> HIDE DEF Event, Receipts
<1>1. /\ \A x \in queue : \E y \in queue' : Accepted(x, y, row)
      /\ \A y \in queue' : \E x \in queue : Accepted(x, y, row)
  BY <1>0, AcknowledgeRows
<1>2. batch \ {row} \subseteq SelectUploadBatch(queue')
  <2> SUFFICES ASSUME NEW other \in batch, other # row
               PROVE  other \in SelectUploadBatch(queue')
    OBVIOUS
  <2>1. other.event.runtime # row.event.runtime
    BY <1>0, OnePerRuntime
  <2>2. RowsOf(queue', other.event.runtime) = RowsOf(queue, other.event.runtime)
    BY <2>1, <1>0, <1>1, AcceptedStay
  <2> QED
    BY <2>2, SelectionIsLocal
<1>3. /\ Events(queue') = Events(queue)
      /\ UploadedEvents(queue') = UploadedEvents(queue) \cup {row.event}
      /\ FailedEvents(queue') = FailedEvents(queue)
      /\ Ordered(queue') /\ NoRestart(queue')
  BY <1>0, <1>1, AcceptedKeeps
<1> QED
  BY <1>2, <1>3 DEF Fates

\* Failing a row in flight for good.
LEMMA StrandTable ==
    ASSUME IInv, Fates(queue), batch \subseteq SelectUploadBatch(queue), NEW row \in batch,
           queue' = MarkPermanent(queue, row.event)
    PROVE  /\ Events(queue') = Events(queue)
           /\ UploadedEvents(queue') = UploadedEvents(queue)
           /\ FailedEvents(queue') = FailedEvents(queue) \cup From(queue, row)
           /\ Fates(queue')
           /\ batch \ {row} \subseteq SelectUploadBatch(queue')
<1>0. /\ row \in queue /\ row \in SelectUploadBatch(queue) /\ row.state \in Unresolved
      /\ Numbered(Events(queue)) /\ Unique(queue) /\ Ordered(queue) /\ NoRestart(queue)
      /\ queue \in SUBSET RowSet(Event, Receipts)
  BY QueueFacts DEF Fates, SelectUploadBatch
<1> HIDE DEF Event, Receipts
<1>1. /\ \A x \in queue : \E y \in queue' : Condemned(x, y, row)
      /\ \A y \in queue' : \E x \in queue : Condemned(x, y, row)
  BY <1>0, MarkPermanentRows
<1>2. batch \ {row} \subseteq SelectUploadBatch(queue')
  <2> SUFFICES ASSUME NEW other \in batch, other # row
               PROVE  other \in SelectUploadBatch(queue')
    OBVIOUS
  <2>1. other.event.runtime # row.event.runtime
    BY <1>0, OnePerRuntime
  <2>2. RowsOf(queue', other.event.runtime) = RowsOf(queue, other.event.runtime)
    BY <2>1, <1>0, <1>1, CondemnedStay
  <2> QED
    BY <2>2, SelectionIsLocal
<1>3. /\ Events(queue') = Events(queue)
      /\ UploadedEvents(queue') = UploadedEvents(queue)
      /\ FailedEvents(queue') = FailedEvents(queue) \cup From(queue, row)
      /\ Ordered(queue') /\ NoRestart(queue')
  BY <1>0, <1>1, CondemnedKeeps
<1> QED
  BY <1>2, <1>3 DEF Fates

\* Storing the event of a runtime without failures.
LEMMA StoreTable ==
    ASSUME IInv, Fates(queue), NEW t \in Threads, pc[t] = "commit", conn[use[t]] = "open",
           \A e \in FailedEvents(queue) : e.runtime # use[t],
           queue' = Insert(queue, pending[t])
    PROVE  /\ Events(queue') = Events(queue) \cup {pending[t]}
           /\ UploadedEvents(queue') = UploadedEvents(queue)
           /\ FailedEvents(queue') = FailedEvents(queue)
           /\ Fates(queue')
           /\ SelectUploadBatch(queue) \subseteq SelectUploadBatch(queue')
<1> DEFINE e == pending[t]
<1>0. /\ e \in Event /\ e.runtime = use[t] /\ Admits(queue, e)
      /\ IsTop(Events(queue) \cup {e}, e)
      /\ \A x \in queue : /\ x.event.id # e.id
                          /\ x.event.runtime = e.runtime => x.event.sequence # e.sequence
                          /\ x.state \in RowStates /\ x.event.sequence \in Nat
      /\ e.sequence \in Nat
      /\ Events(queue) \subseteq Event
  <2>1. Admits(queue, e)
    BY DEF IInv, Heads, PendingKnown
  <2>2. \A x \in queue : x.state \in RowStates /\ x.event \in Event /\ x.event.sequence \in Nat
    BY QueueFacts DEF RowSet, Event
  <2>3. e \in Event /\ e.runtime = use[t] /\ IsTop(Events(queue) \cup {e}, e)
    BY StoredNext
  <2>4. e.sequence \in Nat
    BY <2>3 DEF Event
  <2> HIDE DEF e
  <2> QED
    BY <2>1, <2>2, <2>3, <2>4 DEF Admits, Events
<1> HIDE DEF e
<1>1. PICK new \in RowSet(Event, Receipts) :
          /\ Insert(queue, e) = queue \cup {new}
          /\ new.event = e /\ new.state = "pending" /\ ~ new.restart
  <2> HIDE DEF Event, Receipts
  <2> QED
    BY <1>0, QueueFacts, InsertRows
<1>2. \A x \in RowsOf(queue, new.event.runtime) :
          x.event.sequence < new.event.sequence /\ x.state # "failed_permanent"
  <2> SUFFICES ASSUME NEW x \in queue, x.event.runtime = e.runtime
               PROVE  x.event.sequence < e.sequence /\ x.state # "failed_permanent"
    BY <1>1 DEF RowsOf
  <2>1. x.event.sequence <= e.sequence
    BY <1>0 DEF IsTop, Events
  <2>2. x.event \notin FailedEvents(queue)
    BY <1>0
  <2> QED
    BY <1>0, <2>1, <2>2 DEF FailedEvents
<1>3. Numbered(Events(queue \cup {new}))
  BY <1>0, <1>1 DEF Numbered, Events
<1>4. Unique(queue) /\ Ordered(queue) /\ NoRestart(queue)
  BY QueueFacts DEF Fates
<1> DEFINE q2 == queue \cup {new}
<1>5. /\ Events(q2) = Events(queue) \cup {new.event}
      /\ UploadedEvents(q2) = UploadedEvents(queue)
      /\ FailedEvents(q2) = FailedEvents(queue)
      /\ Ordered(q2) /\ NoRestart(q2)
      /\ SelectUploadBatch(queue) \subseteq SelectUploadBatch(q2)
  BY <1>0, <1>1, <1>2, <1>3, <1>4, InsertKeeps
<1>6. queue' = q2
  BY <1>1 DEF e
<1> HIDE DEF q2
<1> QED
  BY <1>1, <1>5, <1>6 DEF Fates, e
-----------------------------------------------------------------------------
(* What every step does to the fates. *)

\* The local predecessor of a row in flight is never gone, so an answer that asks
\* for it leads to a plain retry.
LEMMA RetryKeepsRestart ==
    ASSUME IInv, NEW row \in queue, NEW missing \in BOOLEAN
    PROVE  ( /\ missing
             /\ row.event.sequence # 1
             /\ ~HasRow(queue, row.event.runtime, row.event.sequence - 1) ) = FALSE
<1>1. row.event.sequence # 1 =>
          \E b \in Events(queue) : /\ b.runtime = row.event.runtime
                                   /\ b.sequence = row.event.sequence - 1
  BY DEF IInv, Chained, Events
<1>2. row.event.sequence # 1 => HasRow(queue, row.event.runtime, row.event.sequence - 1)
  BY <1>1 DEF HasRow, RowsOf, Events
<1> QED
  BY <1>2

\* ... so an answer applied to a row that is still selected gives nothing up.
LEMMA RetryIsPlain ==
    ASSUME FInv, NEW row \in batch, ApplyRetry(row)
    PROVE  queue' = MarkRetryable(queue, {row.event.id}, FALSE)
<1>1. PICK missing \in BOOLEAN :
          queue' = MarkRetryable(queue, {row.event.id},
                       /\ missing
                       /\ row.event.sequence # 1
                       /\ ~HasRow(queue, row.event.runtime, row.event.sequence - 1))
  BY DEF ApplyRetry
<1>2. row \in queue
  BY DEF ApplyRetry, NextResult, FInv, Selected, SelectUploadBatch
<1>3. ( /\ missing
        /\ row.event.sequence # 1
        /\ ~HasRow(queue, row.event.runtime, row.event.sequence - 1) ) = FALSE
  BY <1>2, RetryKeepsRestart DEF FInv
<1> QED
  BY <1>1, <1>3, Zenon

\* In append_event only COMMIT changes the table.
LEMMA AppendStores ==
    ASSUME NEW t \in Threads, Append(t), queue' # queue
    PROVE  /\ pc[t] = "commit" /\ conn[use[t]] = "open"
           /\ Commit(t) \/ CommitRaises(t)
           /\ queue' = Insert(queue, pending[t])
  BY DEF Append, Refuse, Build, SendRegistration, RegistrationSucceeds, RegistrationFails,
     InsertRow, InsertFails, Commit, CommitRaises, ReconcileBlocks, ReconcileAbsent,
     ReconcilePresent, Advance, diskVars

\* What a step may do to the table.
LEMMA Changes ==
    ASSUME FInv, ~AmbiguousMarks, [Next]_vars
    PROVE  \/ queue' = queue
           \/ RetryBatch /\ \E ids : queue' = MarkRetryable(queue, ids, FALSE)
           \/ \E row \in batch :
                  /\ ApplyRetry(row)
                  /\ queue' = MarkRetryable(queue, {row.event.id}, FALSE)
           \/ \E row \in batch : ApplyAccepted(row)
           \/ \E row \in batch : Strand(row)
           \/ \E t \in Threads : /\ pc[t] = "commit" /\ conn[use[t]] = "open"
                                 /\ Commit(t) \/ CommitRaises(t)
                                 /\ queue' = Insert(queue, pending[t])
<1>1. CASE \/ Open \/ BeginClose \/ Crash \/ Shutdown \/ UNCHANGED vars
           \/ Select \/ Answer \/ AbandonBatch \/ AwaitLock \/ StrandFails
           \/ \E row \in batch : BlockSigning(row)
           \/ \E t \in Threads : Invoke(t) \/ DigestRaises(t) \/ FinishBusiness(t)
  BY <1>1 DEF Open, BeginClose, Crash, Shutdown, StopUploader, CloseQueue, ReleaseDirectory,
     diskVars, vars, Select, Answer, AbandonBatch, AwaitLock, StrandFails, BlockSigning, Invoke,
     DigestRaises, FinishBusiness
<1>2. CASE RetryBatch
  BY <1>2 DEF RetryBatch
<1>3. \A row \in batch : ~ StrandRaises(row)
  BY DEF StrandRaises
<1> QED
  BY <1>1, <1>2, <1>3, RetryIsPlain, AppendStores DEF Next, Upload, Apply

\* Nothing failed belongs to a runtime that is about to store.
LEMMA StoresClean ==
    ASSUME Owning, Guarded, NEW t \in Threads, pc[t] = "commit", conn[use[t]] = "open",
           use[t] \in Runtimes
    PROVE  use[t] = owner /\ \A e \in FailedEvents(queue) : e.runtime # use[t]
  BY DEF Owning, Guarded, Entering

\* Every step keeps the fates, and only the marking of a permanent verdict adds to
\* the failures.
LEMMA FatesStep ==
    ASSUME FInv, ~AmbiguousMarks, [Next]_vars
    PROVE  /\ Fates(queue')
           /\ \/ FailedEvents(queue') = FailedEvents(queue)
              \/ \E row \in batch :
                     /\ Strand(row)
                     /\ FailedEvents(queue') = FailedEvents(queue) \cup From(queue, row)
<1>0. IInv /\ Owning /\ Fates(queue) /\ Selected /\ Guarded
  BY DEF FInv
<1>1. CASE queue' = queue
  BY <1>0, <1>1 DEF Fates
<1>2. CASE \E ids : queue' = MarkRetryable(queue, ids, FALSE)
  BY <1>0, <1>2, RetryTable
<1>3. ASSUME NEW row \in batch, ApplyAccepted(row)
      PROVE  Fates(queue') /\ FailedEvents(queue') = FailedEvents(queue)
  BY <1>0, <1>3, AcceptTable DEF ApplyAccepted, NextResult, Selected
<1>4. ASSUME NEW row \in batch, Strand(row)
      PROVE  /\ Fates(queue')
             /\ FailedEvents(queue') = FailedEvents(queue) \cup From(queue, row)
  BY <1>0, <1>4, StrandTable DEF Strand, Selected
<1>5. ASSUME NEW t \in Threads, pc[t] = "commit", conn[use[t]] = "open",
             queue' = Insert(queue, pending[t])
      PROVE  Fates(queue') /\ FailedEvents(queue') = FailedEvents(queue)
  <2>1. use[t] \in Runtimes
    BY <1>0, <1>5, StoredNext
  <2> QED
    BY <1>0, <1>5, <2>1, StoresClean, StoreTable
<1> QED
  BY <1>1, <1>2, <1>3, <1>4, <1>5, Changes

\* Every stored event still belongs to a client that was opened.
LEMMA OpenedStep ==
    ASSUME FInv, [Next]_vars
    PROVE  Opened'
<1>0. TypeOK /\ Control /\ IInv /\ Opened
  BY DEF FInv, IInv
<1>1. clients' \in {clients, clients + 1} /\ clients \in Nat
  <2>1. clients \in Nat
    BY <1>0 DEF TypeOK, ClientTypes
  <2>2. CASE Open
    BY <2>1, <2>2 DEF Open
  <2>3. CASE BeginClose \/ Crash \/ Shutdown \/ Upload \/ UNCHANGED vars
    BY <2>1, <2>3 DEF BeginClose, Crash, Shutdown, StopUploader, CloseQueue, ReleaseDirectory,
       Upload, Select, RetryBatch, Answer, AbandonBatch, Apply, ApplyAccepted, ApplyRetry,
       AwaitLock, StrandFails, Strand, StrandRaises, BlockSigning, vars, clientVars, lifeVars
  <2>4. ASSUME NEW t \in Threads, Invoke(t) \/ DigestRaises(t) \/ FinishBusiness(t) \/ Append(t)
        PROVE  clients' = clients
    BY <2>4 DEF Invoke, DigestRaises, FinishBusiness, Append, Refuse, Build, SendRegistration,
       RegistrationSucceeds, RegistrationFails, InsertRow, InsertFails, Commit, CommitRaises,
       ReconcileBlocks, ReconcileAbsent, ReconcilePresent, Advance, clientVars, lifeVars
  <2> QED
    BY <2>1, <2>2, <2>3, <2>4 DEF Next
<1>2. CASE Events(queue') = Events(queue)
  BY <1>0, <1>1, <1>2 DEF Opened
<1>3. ASSUME NEW t \in Threads, pc[t] = "commit", conn[use[t]] = "open",
             queue' = Insert(queue, pending[t])
      PROVE  Opened'
  <2>1. /\ Events(queue') = Events(queue) \cup {pending[t]}
        /\ pending[t].runtime = use[t] /\ use[t] \in Runtimes
    BY <1>0, <1>3, StoredNext
  <2>2. phase[use[t]] # "new"
    BY <1>0, <1>3 DEF Control, LockHeld, CallsLive
  <2>3. use[t] \in 1..clients
    BY <1>0, <1>1, <2>1, <2>2, BoundsAssumption DEF Control, NewAbove, Runtimes
  <2> QED
    BY <1>0, <1>1, <2>1, <2>3 DEF Opened
<1> QED
  BY <1>0, <1>2, <1>3, QueueStep

\* A failed row is not selected.
LEMMA SelectedNotFailed ==
    ASSUME IInv, NEW row \in SelectUploadBatch(queue)
    PROVE  row.event \notin FailedEvents(queue)
<1>1. row \in queue /\ row.state \in Unresolved
  BY DEF SelectUploadBatch
<1>2. \A x \in queue : x.event = row.event => x = row
  BY <1>1, QueueFacts DEF Unique
<1> QED
  BY <1>1, <1>2 DEF FailedEvents, Unresolved

\* The rows in the hands of the uploader stay selected.
LEMMA SelectedStep ==
    ASSUME FInv, ~AmbiguousMarks, [Next]_vars
    PROVE  Selected'
<1>0. IInv /\ Owning /\ Fates(queue) /\ Selected /\ Guarded
  BY DEF FInv
<1>1. CASE Open \/ BeginClose \/ Crash \/ Shutdown
  <2>1. CASE UNCHANGED <<queue, upload, batch>>
    BY <1>0, <2>1 DEF Selected, Stranded
  <2>2. CASE upload' \in {"idle", "off"}
    BY <2>2 DEF Selected
  <2> QED
    BY <1>1, <2>1, <2>2 DEF Open, BeginClose, Crash, Shutdown, StopUploader, CloseQueue,
       ReleaseDirectory, diskVars, uploadVars
<1>2. CASE Select
  BY <1>2 DEF Select, Selected, diskVars
<1>3. CASE RetryBatch \/ AbandonBatch \/ StrandFails
  BY <1>3 DEF RetryBatch, AbandonBatch, StrandFails, Selected
<1>4. CASE Answer \/ AwaitLock
  BY <1>0, <1>4 DEF Answer, AwaitLock, Selected, diskVars
<1>5. ASSUME NEW row \in batch, ApplyAccepted(row) PROVE Selected'
  <2>1. batch \ {row} \subseteq SelectUploadBatch(queue')
    BY <1>0, <1>5, AcceptTable DEF ApplyAccepted, NextResult, Selected
  <2>2. batch' = batch \ {row} /\ upload' # "block"
    BY <1>5 DEF ApplyAccepted, Settle
  <2> QED
    BY <2>1, <2>2 DEF Selected
<1>6. ASSUME NEW row \in batch, ApplyRetry(row) PROVE Selected'
  <2>0. queue' = MarkRetryable(queue, {row.event.id}, FALSE)
    BY <1>6, RetryIsPlain
  <2>1. batch \subseteq SelectUploadBatch(queue)
    BY <1>0, <1>6 DEF ApplyRetry, NextResult, Selected
  <2>2. \A other \in batch \ {row} : other.event.id # row.event.id
    BY <1>0, <2>1, QueueFacts DEF Unique, SelectUploadBatch
  <2>3. batch \ {row} \subseteq SelectUploadBatch(queue')
    BY <1>0, <2>0, <2>1, <2>2, RetryTable
  <2>4. batch' = batch \ {row} /\ upload' # "block"
    BY <1>6 DEF ApplyRetry, Settle
  <2> QED
    BY <2>3, <2>4 DEF Selected
<1>7. ASSUME NEW row \in batch, Strand(row) PROVE Selected'
  <2>1. /\ batch \ {row} \subseteq SelectUploadBatch(queue')
        /\ FailedEvents(queue') = FailedEvents(queue) \cup From(queue, row)
        /\ row \in queue
    BY <1>0, <1>7, StrandTable DEF Strand, Selected, SelectUploadBatch
  <2>2. batch' = batch /\ upload' = "block"
    BY <1>7 DEF Strand
  <2>3. row.event \in FailedEvents(queue')
    BY <2>1 DEF From
  <2> QED
    BY <2>1, <2>2, <2>3 DEF Selected, Stranded
<1>8. ASSUME NEW row \in batch, BlockSigning(row) PROVE Selected'
  <2>1. /\ upload = "block" /\ queue' = queue /\ batch' = batch \ {row} /\ upload' # "block"
        /\ row.event \in FailedEvents(queue)
    BY <1>8 DEF BlockSigning, Settle, diskVars, FailedEvents
  <2>2. PICK s \in Stranded : batch \ {s} \subseteq SelectUploadBatch(queue)
    BY <1>0, <2>1 DEF Selected
  <2>3. s = row
    BY <1>0, <2>1, <2>2, SelectedNotFailed
  <2> QED
    BY <2>1, <2>2, <2>3 DEF Selected
<1>9. ASSUME NEW t \in Threads, pc[t] = "commit", conn[use[t]] = "open",
             Commit(t) \/ CommitRaises(t), queue' = Insert(queue, pending[t])
      PROVE  Selected'
  <2>1. use[t] \in Runtimes
    BY <1>0, <1>9, StoredNext
  <2>2. /\ FailedEvents(queue') = FailedEvents(queue)
        /\ SelectUploadBatch(queue) \subseteq SelectUploadBatch(queue')
    BY <1>0, <1>9, <2>1, StoresClean, StoreTable
  <2>3. UNCHANGED <<upload, batch>>
    BY <1>9 DEF Commit, CommitRaises, uploadVars
  <2> QED
    BY <1>0, <2>2, <2>3 DEF Selected, Stranded
<1>10. CASE UNCHANGED <<queue, upload, batch>>
  BY <1>0, <1>10 DEF Selected, Stranded
<1>11. ASSUME NEW t \in Threads, Invoke(t) \/ DigestRaises(t) \/ FinishBusiness(t) \/ Append(t)
       PROVE  UNCHANGED <<upload, batch>> /\ (queue' # queue => Append(t))
    BY <1>11 DEF Invoke, DigestRaises, FinishBusiness, Append, Refuse, Build, SendRegistration,
       RegistrationSucceeds, RegistrationFails, InsertRow, InsertFails, Commit, CommitRaises,
       ReconcileBlocks, ReconcileAbsent, ReconcilePresent, Advance, uploadVars, diskVars
<1>12. CASE UNCHANGED vars
  BY <1>10, <1>12 DEF vars, diskVars, uploadVars
<1>13. \A row \in batch : ~ StrandRaises(row)
  BY DEF StrandRaises
<1> QED
  BY <1>1, <1>2, <1>3, <1>4, <1>5, <1>6, <1>7, <1>8, <1>9, <1>10, <1>11, <1>12, <1>13,
     AppendStores DEF Next, Upload, Apply

\* The signing of the owner is blocked, or about to be, before anything can be
\* stored behind a failure.
LEMMA GuardedStep ==
    ASSUME FInv, ~AmbiguousMarks, [Next]_vars
    PROVE  Guarded'
<1>0. /\ IInv /\ TypeOK /\ Control /\ Owning /\ Opened /\ Selected /\ Guarded
      /\ \A e \in FailedEvents(queue) : e.runtime \in 1..clients
      /\ \A t \in Threads : Entering(t) => lock[use[t]] = t /\ use[t] \in Runtimes
      /\ "nobody" \notin Threads /\ "uploader" \notin Threads
  BY ThreadsAssumption DEF FInv, IInv, Opened, FailedEvents, Events, Control, LockHeld, CallsLive,
     Entering
<1>1. CASE owner' # owner
  <2>1. /\ FailedEvents(queue') = FailedEvents(queue)
        /\ owner' = 0 \/ owner' = clients + 1
    BY <1>1 DEF Next, Open, BeginClose, Crash, Shutdown, StopUploader, CloseQueue,
       ReleaseDirectory, diskVars, Invoke, DigestRaises, FinishBusiness, Append, Refuse, Build,
       SendRegistration, RegistrationSucceeds, RegistrationFails, InsertRow, InsertFails, Commit,
       CommitRaises, ReconcileBlocks, ReconcileAbsent, ReconcilePresent, Advance, clientVars,
       lifeVars, Upload, Select, RetryBatch, Answer, AbandonBatch, Apply, ApplyAccepted,
       ApplyRetry, AwaitLock, StrandFails, Strand, StrandRaises, BlockSigning, vars
  <2>2. \A e \in FailedEvents(queue') : e.runtime # owner'
    <3>1. clients \in Nat
      BY <1>0 DEF TypeOK, ClientTypes
    <3> QED
      BY <1>0, <2>1, <3>1
  <2> QED
    BY <2>2 DEF Guarded
<1>2. CASE /\ FailedEvents(queue') = FailedEvents(queue)
           /\ UNCHANGED <<owner, phase, lock, upload, batch, blocked, pc, use>>
  BY <1>0, <1>2 DEF Guarded, Stranded, Entering
<1>3. CASE BeginClose \/ StopUploader \/ CloseQueue
  <2>1. /\ FailedEvents(queue') = FailedEvents(queue)
        /\ UNCHANGED <<owner, blocked, pc, use, batch>>
        /\ upload' = upload \/ upload # "block"
    BY <1>3 DEF BeginClose, StopUploader, CloseQueue, diskVars, threadVars, callVars, uploadVars
  <2> QED
    BY <1>0, <2>1 DEF Guarded, Stranded, Entering
<1>4. CASE Select \/ RetryBatch \/ Answer \/ AbandonBatch \/ AwaitLock \/ StrandFails
  <2>1. UNCHANGED <<owner, blocked, pc, use>> /\ upload # "block"
    BY <1>4 DEF Select, RetryBatch, Answer, AbandonBatch, AwaitLock, StrandFails, clientVars,
       lifeVars, threadVars, callVars
  <2>2. FailedEvents(queue') = FailedEvents(queue)
    <3>1. \A row \in batch : ~ Strand(row)
      BY <1>4 DEF Strand, Select, RetryBatch, Answer, AbandonBatch, AwaitLock, StrandFails
    <3> QED
      BY <3>1, FatesStep
  <2> QED
    BY <1>0, <2>1, <2>2 DEF Guarded, Entering
<1>5. ASSUME NEW row \in batch, ApplyAccepted(row) \/ ApplyRetry(row) PROVE Guarded'
  <2>1. UNCHANGED <<owner, blocked, pc, use>> /\ upload # "block"
    BY <1>5 DEF ApplyAccepted, ApplyRetry, NextResult, clientVars, lifeVars, threadVars, callVars
  <2>2. FailedEvents(queue') = FailedEvents(queue)
    <3>1. CASE ApplyAccepted(row)
      BY <3>1, AcceptTable DEF FInv, ApplyAccepted, NextResult, Selected
    <3>2. CASE ApplyRetry(row)
      BY <3>2, RetryIsPlain, RetryTable DEF FInv
    <3> QED
      BY <1>5, <3>1, <3>2
  <2> QED
    BY <1>0, <2>1, <2>2 DEF Guarded, Entering
<1>6. ASSUME NEW row \in batch, Strand(row) PROVE Guarded'
  <2>1. /\ FailedEvents(queue') = FailedEvents(queue) \cup From(queue, row)
        /\ row \in queue
    BY <1>6, StrandTable DEF FInv, Strand, Selected, SelectUploadBatch
  <2>2. /\ upload = "strand" /\ upload' = "block" /\ lock[owner] = "nobody"
        /\ UNCHANGED <<owner, blocked, pc, use, batch>>
    BY <1>6 DEF Strand, lifeVars, threadVars, callVars
  <2>3. \A t \in Threads : Entering(t) => use[t] # owner
    BY <1>0, <2>2
  <2>4. row.event \in From(queue, row) /\ \A e \in From(queue, row) : e.runtime = row.event.runtime
    BY <2>1 DEF From, Under
  <2>5. ASSUME NEW e \in FailedEvents(queue'), e.runtime = owner
        PROVE  blocked[owner] \/ row.event.runtime = owner
    <3>1. CASE e \in FailedEvents(queue)
      BY <1>0, <2>2, <2>5, <3>1 DEF Guarded
    <3>2. CASE e \in From(queue, row)
      BY <2>4, <2>5, <3>2
    <3> QED
      BY <2>1, <2>5, <3>1, <3>2
  <2>6. row.event \in FailedEvents(queue')
    BY <2>1, <2>4
  <2> QED
    BY <2>2, <2>3, <2>5, <2>6 DEF Guarded, Stranded, Entering
<1>7. ASSUME NEW row \in batch, BlockSigning(row) PROVE Guarded'
  <2>1. /\ upload = "block" /\ queue' = queue /\ UNCHANGED <<owner, pc, use>>
        /\ row.event \in FailedEvents(queue)
        /\ blocked' = IF row.event.runtime = owner THEN [blocked EXCEPT ![owner] = TRUE]
                       ELSE blocked
    BY <1>7 DEF BlockSigning, diskVars, FailedEvents, lifeVars, threadVars, callVars
  <2>2. PICK s \in Stranded : batch \ {s} \subseteq SelectUploadBatch(queue)
    BY <1>0, <2>1 DEF Selected
  <2>3. Stranded = {row}
    BY <1>0, <1>7, <2>1, <2>2, SelectedNotFailed DEF Stranded
  <2>4. owner \in Runtimes
    BY <1>0, <2>1 DEF Control, UploaderOwned, TypeOK, ClientTypes
  <2>5. \A e \in FailedEvents(queue) : e.runtime = owner => blocked'[owner]
    BY <1>0, <2>1, <2>3, <2>4 DEF Guarded, TypeOK, ClientTypes
  <2> QED
    BY <1>0, <2>1, <2>5 DEF Guarded, Entering
<1>8. ASSUME NEW t \in Threads, Invoke(t) \/ DigestRaises(t) \/ FinishBusiness(t) PROVE Guarded'
  <2>1. /\ UNCHANGED <<owner, blocked, pc, upload, batch, queue>>
        /\ stage[t] \in {"idle", "business"}
    BY <1>8 DEF Invoke, DigestRaises, FinishBusiness, clientVars, lifeVars, uploadVars, diskVars
  <2>2. ~ Entering(t) /\ \A u \in Threads \ {t} : use'[u] = use[u]
    BY <1>0, <1>8, <2>1 DEF Invoke, DigestRaises, FinishBusiness, Return, Entering, Control,
       LockHeld, TypeOK, ThreadTypes
  <2> QED
    BY <1>0, <2>1, <2>2 DEF Guarded, Stranded, Entering
<1>9. ASSUME NEW t \in Threads, Append(t) PROVE Guarded'
  <2>1. /\ UNCHANGED <<owner, upload, batch>>
        /\ \A r \in Runtimes : blocked[r] => blocked'[r]
    BY <1>9, <1>0 DEF Append, Refuse, Build, SendRegistration, RegistrationSucceeds,
       RegistrationFails, InsertRow, InsertFails, Commit, CommitRaises, ReconcileBlocks,
       ReconcileAbsent, ReconcilePresent, Advance, clientVars, lifeVars, uploadVars, TypeOK, ClientTypes
  <2>2. FailedEvents(queue') = FailedEvents(queue)
    <3>1. \A row \in batch : ~ Strand(row)
      BY <2>1 DEF Strand
    <3> QED
      BY <3>1, FatesStep
  <2>3. \A u \in Threads \ {t} : pc'[u] = pc[u] /\ use'[u] = use[u]
    BY <1>9, <1>0 DEF Append, Refuse, Build, SendRegistration, RegistrationSucceeds,
       RegistrationFails, InsertRow, InsertFails, Commit, CommitRaises, ReconcileBlocks,
       ReconcileAbsent, ReconcilePresent, Advance, callVars, Conclude, Return, TypeOK, ThreadTypes
  <2>4. Entering(t)' => /\ use'[t] = use[t]
                        /\ \/ Entering(t)
                           \/ ~ blocked[use[t]] /\ lock[use[t]] = "nobody"
    BY <1>9, <1>0 DEF Append, Refuse, Build, SendRegistration, RegistrationSucceeds,
       RegistrationFails, InsertRow, InsertFails, Commit, CommitRaises, ReconcileBlocks,
       ReconcileAbsent, ReconcilePresent, Advance, callVars, Conclude, Return, Entering,
       CanLock, Wants, Signable, TypeOK, ThreadTypes
  <2>5. ~ blocked[owner] /\ lock[owner] = "nobody" =>
            \A e \in FailedEvents(queue) : e.runtime # owner
    BY <1>0 DEF Guarded, Control, UploaderOwned
  <2>6. \A e \in FailedEvents(queue) : e.runtime = owner =>
            blocked'[owner] \/ (upload = "block" /\ \E s \in Stranded : s.event.runtime = owner)
    <3>1. \A e \in FailedEvents(queue) : e.runtime \in Runtimes
      BY <1>0, BoundsAssumption DEF TypeOK, ClientTypes, Runtimes
    <3> QED
      BY <1>0, <2>1, <3>1 DEF Guarded
  <2>7. ASSUME NEW u \in Threads, Entering(u)', use'[u] = owner
        PROVE  \A e \in FailedEvents(queue) : e.runtime # owner
    <3>1. CASE u = t
      BY <1>0, <2>4, <2>5, <2>7, <3>1 DEF Guarded
    <3>2. CASE u # t
      BY <1>0, <2>3, <2>7, <3>2 DEF Guarded, Entering
    <3> QED
      BY <3>1, <3>2
  <2>8. Stranded' = Stranded
    BY <2>1, <2>2 DEF Stranded
  <2> QED
    BY <2>1, <2>2, <2>6, <2>7, <2>8 DEF Guarded
<1>10. CASE UNCHANGED vars
  BY <1>2, <1>10 DEF vars, diskVars, clientVars, lifeVars, uploadVars, threadVars, callVars
<1>11. CASE Open \/ ReleaseDirectory \/ Crash
  <2>1. owner' # owner
    <3>1. clients \in Nat /\ clients + 1 # 0
      BY <1>0 DEF TypeOK, ClientTypes
    <3> QED
      BY <1>11, <3>1 DEF Open, ReleaseDirectory, Crash
  <2> QED
    BY <2>1, <1>1
<1>12. \A row \in batch : ~ StrandRaises(row)
  BY DEF StrandRaises
<1> QED
  BY <1>3, <1>4, <1>5, <1>6, <1>7, <1>8, <1>9, <1>10, <1>11, <1>12
     DEF Next, Shutdown, Upload, Apply

\* The invariant holds of a fresh directory, and every step keeps it.
LEMMA FateInvariant == ASSUME ~AmbiguousMarks PROVE Spec => []FInv
<1>1. Init => FInv
  <2> SUFFICES ASSUME Init PROVE FInv
    OBVIOUS
  <2>1. queue = {} /\ batch = {} /\ upload = "off" /\ Events(queue) = {} /\ FailedEvents(queue) = {}
    BY DEF Init, Events, FailedEvents
  <2>2. Owning
    BY DEF Init, Owning, Alive, Entering
  <2> QED
    BY <2>1, <2>2, InvariantInit DEF FInv, Fates, Ordered, NoRestart, Opened, Selected, Guarded
<1>2. FInv /\ [Next]_vars => FInv'
  <2> SUFFICES ASSUME FInv, [Next]_vars PROVE FInv'
    OBVIOUS
  <2>1. IInv' /\ Owning'
    BY InvariantStep, OwningStep DEF FInv, IInv
  <2>2. Fates(queue)' /\ Opened' /\ Selected' /\ Guarded'
    BY FatesStep, OpenedStep, SelectedStep, GuardedStep
  <2> QED
    BY <2>1, <2>2 DEF FInv
<1> QED
  BY <1>1, <1>2, PTL DEF Spec

\* A permanent failure leaves nothing behind it that would wait for ever.
THEOREM NothingBehind == ASSUME ~AmbiguousMarks PROVE Spec => []NothingBehindFailure
<1>1. FInv => NothingBehindFailure
  <2> SUFFICES ASSUME FInv, NEW row \in queue, NEW failed \in queue,
                      failed.state = "failed_permanent",
                      row.event.runtime = failed.event.runtime, row.state \in Unresolved
               PROVE  FALSE
    BY DEF NothingBehindFailure
  <2>1. ~ Stuck(queue, row.event.runtime)
    BY QueueFacts, UnresolvedCanProgress DEF FInv, Fates
  <2> QED
    BY <2>1 DEF Stuck, RowsOf
<1> QED
  BY <1>1, FateInvariant, PTL

-----------------------------------------------------------------------------
(* The refinement of AuditLog. *)

\* COMMIT of a new event is growth of the log.
LEMMA StoreGrows ==
    ASSUME FInv, NEW t \in Threads, pc[t] = "commit", conn[use[t]] = "open",
           queue' = Insert(queue, pending[t])
    PROVE  Log!Grow
<1> DEFINE e == pending[t]
<1>0. IInv /\ Owning /\ Fates(queue) /\ Guarded
  BY DEF FInv
<1>1. /\ e.runtime = use[t] /\ use[t] \in Runtimes /\ Chained(Events(queue) \cup {e})
      /\ IsTop(Events(queue) \cup {e}, e) /\ e \in Event
      /\ \A f \in Events(queue) : f.sequence \in Nat
  BY <1>0, StoredNext, QueueFacts DEF Numbered
<1>2. \A f \in FailedEvents(queue) : f.runtime # e.runtime
  BY <1>0, <1>1, StoresClean
<1>3. /\ Events(queue') = Events(queue) \cup {e}
      /\ UploadedEvents(queue') = UploadedEvents(queue)
      /\ FailedEvents(queue') = FailedEvents(queue)
  BY <1>0, <1>1, <1>2, StoreTable
<1>4. \A f \in Events(queue) : /\ f.id # e.id
                               /\ f.runtime = e.runtime => f.sequence # e.sequence
  BY <1>0, AdmitsEvents DEF IInv, Heads, PendingKnown
<1>5. e \in Events(queue') \ Events(queue)
  BY <1>3, <1>4
<1>6. \A f \in Events(queue) : f.runtime = e.runtime => f.sequence < e.sequence
  <2>1. e.sequence \in Nat
    BY <1>1 DEF Event
  <2> QED
    BY <1>1, <1>4, <2>1 DEF IsTop
<1>7. \/ e.sequence = 1 /\ e.prev = NoHash
      \/ \E b \in Events(queue) : /\ b.runtime = e.runtime
                                  /\ b.sequence = e.sequence - 1 /\ b.hash = e.prev
  <2>1. e.sequence \in Nat
    BY <1>1 DEF Event
  <2> QED
    BY <1>1, <2>1 DEF Chained
<1>8. Log!Extends(e)
  BY <1>4, <1>6, <1>7 DEF Log!Extends, Log!SameRuntime
<1>9. Log!SameRuntime(e) \cap FailedEvents(queue) = {}
  BY <1>2 DEF Log!SameRuntime
<1> QED
  BY <1>3, <1>5, <1>8, <1>9 DEF Log!Grow, UploadedEvents, FailedEvents

\* A row in flight is neither uploaded nor failed, and all below it is uploaded.
LEMMA InFlightIsNext ==
    ASSUME FInv, NEW row \in SelectUploadBatch(queue)
    PROVE  /\ row.event \in Events(queue) \ (UploadedEvents(queue) \cup FailedEvents(queue))
           /\ Log!Below(row.event) \subseteq UploadedEvents(queue)
<1>0. /\ row \in queue /\ row.state \in Unresolved
      /\ row.event \in Events(queue) /\ Numbered(Events(queue))
      /\ Unique(queue) /\ Ordered(queue)
  BY QueueFacts DEF FInv, Fates, SelectUploadBatch, Events
<1>1. \A x \in queue : x.event = row.event => x = row
  BY <1>0 DEF Unique
<1>2. row.event \notin UploadedEvents(queue) /\ row.event \notin FailedEvents(queue)
  BY <1>0, <1>1 DEF UploadedEvents, FailedEvents, Unresolved
<1>3. \A x \in queue : Under(x, row) => x.state = "uploaded"
  BY <1>0, BelowSelected
<1>4. Log!Below(row.event) \subseteq UploadedEvents(queue)
  BY <1>3 DEF Log!Below, Log!SameRuntime, Events, UploadedEvents, Under
<1> QED
  BY <1>0, <1>2, <1>4

\* A usable receipt is an acknowledgement.
LEMMA AcceptAcknowledges ==
    ASSUME FInv, NEW row \in batch, ApplyAccepted(row)
    PROVE  Log!Acknowledge(row.event)
<1>1. /\ Events(queue') = Events(queue)
      /\ UploadedEvents(queue') = UploadedEvents(queue) \cup {row.event}
      /\ FailedEvents(queue') = FailedEvents(queue)
      /\ row \in SelectUploadBatch(queue)
  BY AcceptTable DEF FInv, ApplyAccepted, NextResult, Selected
<1> QED
  BY <1>1, InFlightIsNext DEF Log!Acknowledge, UploadedEvents, FailedEvents

\* A permanent verdict condemns the event with everything above it.
LEMMA StrandCondemns ==
    ASSUME FInv, NEW row \in batch, Strand(row)
    PROVE  Log!Condemn(row.event)
<1>1. /\ Events(queue') = Events(queue)
      /\ UploadedEvents(queue') = UploadedEvents(queue)
      /\ FailedEvents(queue') = FailedEvents(queue) \cup From(queue, row)
      /\ row \in SelectUploadBatch(queue) /\ row \in queue
  BY StrandTable DEF FInv, Strand, Selected, SelectUploadBatch
<1>2. From(queue, row) = Log!SameRuntime(row.event) \ Log!Below(row.event)
  <2>1. Unique(queue) /\ Numbered(Events(queue))
    BY QueueFacts DEF FInv
  <2>2. \A x \in queue : x.event.sequence \in Nat /\ row.event.sequence \in Nat
    BY <1>1, <2>1 DEF Numbered, Events
  <2>3. \A x \in queue :
            x = row \/ Under(row, x) <=>
                /\ x.event.runtime = row.event.runtime
                /\ ~ (x.event.sequence < row.event.sequence)
    BY <1>1, <2>1, <2>2 DEF Under, Unique
  <2>4. Log!SameRuntime(row.event) \ Log!Below(row.event) =
            {e \in Events(queue) : /\ e.runtime = row.event.runtime
                                   /\ ~ (e.sequence < row.event.sequence)}
    BY DEF Log!SameRuntime, Log!Below
  <2> QED
    BY <2>3, <2>4 DEF From, Events
<1> QED
  BY <1>1, <1>2, InFlightIsNext DEF Log!Condemn, UploadedEvents, FailedEvents

\* Every step is one of these, or changes nothing the abstract log shows.
LEMMA LogStep ==
    ASSUME ~AmbiguousMarks
    PROVE  FInv /\ [Next]_vars => [Log!Next]_(Log!vars)
<1> SUFFICES ASSUME FInv, [Next]_vars PROVE [Log!Next]_(Log!vars)
  OBVIOUS
<1>1. CASE queue' = queue
  BY <1>1 DEF Log!vars
<1>2. CASE \E ids : queue' = MarkRetryable(queue, ids, FALSE)
  <2>1. /\ Events(queue') = Events(queue)
        /\ UploadedEvents(queue') = UploadedEvents(queue)
        /\ FailedEvents(queue') = FailedEvents(queue)
    BY <1>2, RetryTable DEF FInv
  <2> QED
    BY <2>1 DEF Log!vars, UploadedEvents, FailedEvents
<1>3. ASSUME NEW row \in batch, ApplyAccepted(row) \/ Strand(row) PROVE Log!Next
  <2>1. row.event \in Events(queue)
    BY <1>3 DEF FInv, Selected, ApplyAccepted, Strand, NextResult, SelectUploadBatch, Events
  <2> QED
    BY <1>3, <2>1, AcceptAcknowledges, StrandCondemns DEF Log!Next
<1>4. ASSUME NEW t \in Threads, pc[t] = "commit", conn[use[t]] = "open",
             queue' = Insert(queue, pending[t])
      PROVE  Log!Next
  BY <1>4, StoreGrows DEF Log!Next
<1> QED
  BY <1>1, <1>2, <1>3, <1>4, Changes

\* Threads, transactions, crashes and restarts together do to the log what AuditLog
\* allows, and nothing else.
THEOREM Refinement == ASSUME ~AmbiguousMarks PROVE Spec => ImplementsAuditLog
<1>1. Init => Log!Init
  <2> SUFFICES ASSUME Init PROVE Log!Init
    OBVIOUS
  <2>1. queue = {}
    BY DEF Init
  <2>2. {r \in queue : r.state = "uploaded"} = {} /\ {r \in queue : r.state = "failed_permanent"} = {}
    BY <2>1
  <2> QED
    BY <2>1, <2>2 DEF Log!Init, Events
<1> QED
  BY <1>1, LogStep, FateInvariant, PTL DEF Spec, ImplementsAuditLog, Log!Spec
=============================================================================
