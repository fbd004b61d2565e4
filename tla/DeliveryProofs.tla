--------------------------- MODULE DeliveryProofs ---------------------------
(***************************************************************************)
(* Theorems about Delivery, for every number of runtimes and of events,    *)
(* every request limit and every choice of scenarios.  The inductive       *)
(* invariant says what every event looks like, in which order the rows of  *)
(* a runtime have their states, that a request is part of what would be    *)
(* selected now, and how the service's tables, the envelopes still in the  *)
(* network and the answers under way lag behind the queue.                 *)
(***************************************************************************)
EXTENDS Delivery, AuditQueueProofs, FiniteSetTheorems, WellFoundedInduction

\* The event with a given id; there is no other.
EventOf(id) ==
    [id |-> id, hash |-> id, runtime |-> id[1], sequence |-> id[2],
     prev |-> IF id[2] = 1 THEN NoHash ELSE <<id[1], id[2] - 1>>]

AllEvents == {EventOf(id) : id \in Ids}

Receipts == {NoReceipt} \cup (Ids \X Ids \X Nat)

Typed ==
    /\ faults \in Scenarios
    /\ runtimes \in 0..MaxRuntimes
    /\ running \in BOOLEAN /\ blocked \in BOOLEAN
    /\ upload \in {"off", "idle", "sent", "answered", "halted"}
    /\ upload \in {"sent", "answered"} <=> request # {}
    /\ ~ running => upload = "off"
    /\ DOMAIN answer \subseteq Ids
    /\ \A id \in DOMAIN answer : answer[id].receipt \in Receipts
    /\ refused \subseteq Ids

\* Nothing was stored by a runtime that has not started.
Started ==
    /\ \A e \in Events(queue) : e.runtime <= runtimes
    /\ running => runtimes > 0

\* The chain of a runtime has no gap, and a newest event.
Dense(E) ==
    \A e \in E : \A n \in 1..e.sequence :
        \E b \in E : b.runtime = e.runtime /\ b.sequence = n

Topped(E) ==
    \A r \in Runtimes :
        \/ \A e \in E : e.runtime # r
        \/ \E e \in E : e.runtime = r /\ \A f \in E : f.runtime = r => f.sequence <= e.sequence

Shape == Started /\ Dense(Events(queue)) /\ Topped(Events(queue))

\* The rows: what UNIQUE and the transactions together leave possible, and that
\* only the uploaded ones have a receipt.
Receipted(q) == \A row \in q : row.state = "uploaded" <=> row.receipt # NoReceipt

Table(q) ==
    /\ q \subseteq RowSet(AllEvents, Receipts)
    /\ Unique(q) /\ Ordered(q) /\ NoRestart(q) /\ Receipted(q)

\* No event is signed behind a failed one.
Blocking ==
    \A e \in FailedEvents(queue) : e.runtime = runtimes => blocked

\* What is in flight would be selected now, and has its answer once answered.
InFlight ==
    /\ request \subseteq SelectUploadBatch(queue)
    /\ upload = "answered" => IdsOf(request) \subseteq DOMAIN answer

\* The service and the network know durable events only ...
Known ==
    /\ \A stored \in events :
           /\ stored = [event |-> stored.event, signature |-> stored.event.hash]
           /\ stored.event \in Events(queue)
    /\ \A envelope \in late :
           envelope.event \in Events(queue) /\ envelope = Envelope(envelope.event)

\* ... and below them everything is uploaded.
BelowUploaded(E) ==
    \A e \in E, row \in queue :
        row.event.runtime = e.runtime /\ row.event.sequence < e.sequence
        => row.state = "uploaded"

LateEvents == {envelope.event : envelope \in late}

ServedBelow == BelowUploaded(StoredEvents(events)) /\ BelowUploaded(LateEvents)

\* Each stored event has one receipt, and each receipt its event.
TablesMatch ==
    /\ receipts \subseteq Ids \X Ids \X Nat /\ IsFiniteSet(receipts)
    /\ \A r, s \in receipts : r[1] = s[1] => r = s
    /\ \A stored \in events : \E r \in receipts : r[1] = stored.event.id
    /\ \A r \in receipts : \E stored \in events : r[1] = stored.event.id

\* A service that forgets nothing still has every receipt it ever answered.
ReceiptsKept ==
    "forget" \notin faults =>
        /\ \A id \in DOMAIN answer :
               answer[id].receipt # NoReceipt => answer[id].receipt \in receipts
        /\ \A row \in queue : row.state = "uploaded" =>
               row.receipt \in receipts /\ row.receipt[1] = row.event.id

\* What is failed has a refusal of its own or below it, and an answer that would
\* fail its row is such a refusal.
Honest ==
    /\ \A e \in FailedEvents(queue) :
           \E id \in refused : id[1] = e.runtime /\ id[2] <= e.sequence
    /\ \A id \in DOMAIN answer :
           \/ answer[id].status \in {"accepted", "duplicate", "missing_previous"}
           \/ id \in refused

IInv ==
    /\ Typed /\ Table(queue) /\ Shape /\ Blocking /\ InFlight
    /\ Known /\ ServedBelow /\ TablesMatch /\ ReceiptsKept /\ Honest
-----------------------------------------------------------------------------
(* Events and rows. *)

\* What an event looks like.
LEMMA EventFacts ==
    ASSUME NEW e \in AllEvents
    PROVE  /\ e.id \in Ids /\ e.id = <<e.runtime, e.sequence>> /\ e.hash = e.id
           /\ e.runtime \in Runtimes /\ e.sequence \in 1..MaxEvents /\ e.sequence \in Nat
           /\ e.sequence = 1 => e.prev = NoHash
           /\ e.sequence # 1 => e.prev = <<e.runtime, e.sequence - 1>>
           /\ e = EventOf(e.id)
<1>1. PICK id \in Ids : e = EventOf(id)
  BY DEF AllEvents
<1>2. id[1] \in Runtimes /\ id[2] \in 1..MaxEvents /\ id = <<id[1], id[2]>>
  BY DEF Ids
<1>3. id[2] \in Nat
  BY <1>2, DeliveryAssumption
<1> QED
  BY <1>1, <1>2, <1>3 DEF EventOf

\* An event is its id, its hash, and its place.
LEMMA EventsApart ==
    ASSUME NEW e \in AllEvents, NEW f \in AllEvents,
           \/ e.id = f.id \/ e.hash = f.hash
           \/ e.runtime = f.runtime /\ e.sequence = f.sequence
    PROVE  e = f
  BY EventFacts

\* What a row of the table looks like.
LEMMA RowFacts ==
    ASSUME Table(queue)
    PROVE  /\ \A row \in queue : /\ row.event \in AllEvents /\ row.event \in Events(queue)
                                 /\ row.state \in RowStates /\ row.receipt \in Receipts
           /\ Events(queue) \subseteq AllEvents
           /\ Numbered(Events(queue))
<1>1. \A row \in queue : /\ row.event \in AllEvents /\ row.event \in Events(queue)
                         /\ row.state \in RowStates /\ row.receipt \in Receipts
  BY DEF Table, RowSet, Events
<1>2. Events(queue) \subseteq AllEvents
  BY <1>1 DEF Events
<1>3. Numbered(Events(queue))
  BY <1>2, EventFacts DEF Numbered
<1> QED
  BY <1>1, <1>2, <1>3

\* A stored event and an event in the network are durable ones.
LEMMA KnownFacts ==
    ASSUME Known
    PROVE  StoredEvents(events) \subseteq Events(queue) /\ LateEvents \subseteq Events(queue)
  BY DEF Known, StoredEvents, LateEvents

\* An envelope shows its event.
LEMMA EnvelopeFacts ==
    ASSUME NEW e
    PROVE  /\ Envelope(e).event = e /\ Envelope(e).claimed = e.hash
           /\ Envelope(e).signature = e.hash
  BY DEF Envelope

\* The rows in flight.
LEMMA RequestFacts ==
    ASSUME Table(queue), InFlight, NEW row \in request
    PROVE  /\ row \in queue /\ row \in SelectUploadBatch(queue) /\ row.state \in Unresolved
           /\ row.event \in AllEvents /\ row.event \in Events(queue)
  BY RowFacts DEF InFlight, SelectUploadBatch

\* The event that Append signs extends the chain of the live runtime.
LEMMA NextEventFacts ==
    ASSUME Typed, Table(queue), Shape, Append
    PROVE  /\ NextEvent \in AllEvents /\ NextEvent.runtime = runtimes
           /\ runtimes \in Runtimes
           /\ \A e \in Events(queue) : /\ e.id # NextEvent.id
                                       /\ e.runtime = runtimes => e.sequence < NextEvent.sequence
           /\ \/ NextEvent.sequence = 1
              \/ \E e \in Events(queue) :
                     /\ e.runtime = runtimes /\ e.sequence = NextEvent.sequence - 1
                     /\ e.hash = NextEvent.prev
<1> DEFINE H == QueueHead(queue, runtimes)
           E == Events(queue)
<1>1. runtimes \in Runtimes
  BY DeliveryAssumption DEF Append, Typed, Shape, Started, Runtimes
<1>2. H.sequence < MaxEvents
  BY DEF Append
<1>3. \/ H = EmptyHead /\ \A e \in E : e.runtime # runtimes
      \/ \E e \in E : /\ e.runtime = runtimes /\ H = [sequence |-> e.sequence, hash |-> e.hash]
                      /\ \A f \in E : f.runtime = runtimes => f.sequence <= e.sequence
  <2>1. CASE \A e \in E : e.runtime # runtimes
    <3>1. RowsOf(queue, runtimes) = {}
      BY <2>1 DEF RowsOf, Events
    <3> QED
      BY <2>1, <3>1 DEF QueueHead
  <2>2. CASE \E e \in E : /\ e.runtime = runtimes
                          /\ \A f \in E : f.runtime = runtimes => f.sequence <= e.sequence
    <3> DEFINE R == RowsOf(queue, runtimes)
               Newest(row) == \A other \in R : other.event.sequence <= row.event.sequence
               top == CHOOSE row \in R : Newest(row)
    <3>1. PICK e \in E : /\ e.runtime = runtimes
                         /\ \A f \in E : f.runtime = runtimes => f.sequence <= e.sequence
      BY <2>2
    <3>2. PICK row \in R : row.event = e
      BY <3>1 DEF Events, RowsOf
    <3>3. Newest(row)
      BY <3>1, <3>2 DEF Events, RowsOf
    <3>4. top \in R /\ Newest(top)
      BY <3>2, <3>3
    <3>5. H = [sequence |-> top.event.sequence, hash |-> top.event.hash]
      BY <3>2 DEF QueueHead
    <3> HIDE DEF top
    <3>6. top.event \in E /\ top.event.runtime = runtimes
      BY <3>4 DEF Events, RowsOf
    <3>7. top.event.sequence <= e.sequence /\ e.sequence <= top.event.sequence
      BY <3>1, <3>2, <3>4, <3>6
    <3>8. top.event \in AllEvents /\ e \in AllEvents
      BY <3>6, RowFacts
    <3>9. top.event.sequence = e.sequence
      BY <3>7, <3>8, EventFacts
    <3>10. top.event = e
      BY <3>1, <3>6, <3>8, <3>9, EventsApart
    <3> QED
      BY <3>1, <3>5, <3>10
  <2> QED
    BY <1>1, <2>1, <2>2 DEF Shape, Topped
<1> HIDE DEF H, E
<1>4. NextEvent = [id |-> <<runtimes, H.sequence + 1>>, hash |-> <<runtimes, H.sequence + 1>>,
                   runtime |-> runtimes, sequence |-> H.sequence + 1, prev |-> H.hash]
  BY DEF NextEvent, H
<1>5. \A e \in E : e \in AllEvents
  BY RowFacts DEF E
<1>6. CASE H = EmptyHead /\ \A e \in E : e.runtime # runtimes
  <2>1. H.sequence + 1 = 1 /\ H.hash = NoHash
    BY <1>6 DEF EmptyHead
  <2>2. <<runtimes, 1>> \in Ids
    BY <1>1, DeliveryAssumption DEF Ids
  <2>3. NextEvent = EventOf(<<runtimes, 1>>)
    BY <1>4, <2>1 DEF EventOf
  <2>4. NextEvent \in AllEvents
    BY <2>2, <2>3 DEF AllEvents
  <2>5. \A e \in E : e.id # NextEvent.id
    BY <1>4, <1>5, <1>6, <2>4, EventsApart
  <2> QED
    BY <1>1, <1>4, <1>6, <2>1, <2>4, <2>5 DEF E
<1>7. CASE \E e \in E : /\ e.runtime = runtimes /\ H = [sequence |-> e.sequence, hash |-> e.hash]
                        /\ \A f \in E : f.runtime = runtimes => f.sequence <= e.sequence
  <2>1. PICK e \in E : /\ e.runtime = runtimes /\ H = [sequence |-> e.sequence, hash |-> e.hash]
                       /\ \A f \in E : f.runtime = runtimes => f.sequence <= e.sequence
    BY <1>7
  <2>2. e \in AllEvents
    BY <1>5
  <2>3. /\ e.sequence \in 1..MaxEvents /\ e.sequence \in Nat
        /\ e.hash = <<runtimes, e.sequence>> /\ H.sequence = e.sequence /\ H.hash = e.hash
    BY <2>1, <2>2, EventFacts
  <2>4. <<runtimes, e.sequence + 1>> \in Ids
    BY <1>1, <1>2, <2>3, DeliveryAssumption DEF Ids
  <2>5. NextEvent = EventOf(<<runtimes, e.sequence + 1>>)
    <3>1. e.sequence + 1 # 1 /\ (e.sequence + 1) - 1 = e.sequence
      BY <2>3
    <3>2. EventOf(<<runtimes, e.sequence + 1>>) =
             [id |-> <<runtimes, e.sequence + 1>>, hash |-> <<runtimes, e.sequence + 1>>,
              runtime |-> runtimes, sequence |-> e.sequence + 1,
              prev |-> <<runtimes, e.sequence>>]
      BY <3>1 DEF EventOf
    <3> QED
      BY <1>4, <2>3, <3>2
  <2>6. NextEvent \in AllEvents
    BY <2>4, <2>5 DEF AllEvents
  <2>7. NextEvent.sequence = e.sequence + 1 /\ NextEvent.runtime = runtimes
        /\ NextEvent.prev = e.hash
    BY <1>4, <2>3
  <2>8. \A f \in E : f.runtime = runtimes => f.sequence < NextEvent.sequence
    BY <1>5, <2>1, <2>3, <2>7, EventFacts
  <2>9. \A f \in E : f.id # NextEvent.id
    BY <1>5, <2>6, <2>7, <2>8, EventFacts, EventsApart
  <2>10. e.sequence = NextEvent.sequence - 1
    BY <2>3, <2>7
  <2> QED
    BY <1>1, <2>1, <2>6, <2>7, <2>8, <2>9, <2>10 DEF E
<1> QED
  BY <1>3, <1>6, <1>7
-----------------------------------------------------------------------------
(* What the steps do to the table. *)

\* Append puts one pending row on top of the live runtime.
LEMMA AppendTable ==
    ASSUME Typed, Table(queue), Shape, Blocking, Append
    PROVE  /\ Table(queue')
           /\ Events(queue') = Events(queue) \cup {NextEvent}
           /\ UploadedEvents(queue') = UploadedEvents(queue)
           /\ FailedEvents(queue') = FailedEvents(queue)
           /\ SelectUploadBatch(queue) \subseteq SelectUploadBatch(queue')
           /\ queue \subseteq queue'
           /\ \A y \in queue' : y.state = "uploaded" => y \in queue
           /\ \A y \in queue' : y \in queue \/ y.event = NextEvent
<1>1. PICK new \in RowSet(AllEvents, Receipts) :
          /\ Insert(queue, NextEvent) = queue \cup {new}
          /\ new.event = NextEvent /\ new.state = "pending" /\ ~ new.restart
          /\ new.receipt = NoReceipt
  <2>1. NextEvent \in AllEvents /\ NoReceipt \in Receipts
    BY NextEventFacts DEF Receipts
  <2> HIDE DEF AllEvents, Receipts
  <2> QED
    BY <2>1, InsertRows DEF Table
<1>2. queue' = queue \cup {new}
  BY <1>1 DEF Append
<1>3. /\ \A x \in queue : x.event.id # new.event.id /\ x.state \in RowStates
      /\ \A x \in RowsOf(queue, new.event.runtime) :
             x.event.sequence < new.event.sequence /\ x.state # "failed_permanent"
  <2>1. \A x \in queue : x.event \in Events(queue) /\ x.state \in RowStates
    BY RowFacts
  <2>2. ~ blocked
    BY DEF Append
  <2>3. \A x \in queue : x.event.runtime = runtimes => x.state # "failed_permanent"
    BY <2>2 DEF Blocking, FailedEvents
  <2> QED
    BY <1>1, <2>1, <2>3, NextEventFacts DEF RowsOf
<1>4. Numbered(Events(queue \cup {new}))
  <2>1. \A e \in Events(queue \cup {new}) : e \in AllEvents
    BY <1>1, NextEventFacts, RowFacts DEF Events
  <2> QED
    BY <2>1, EventFacts DEF Numbered
<1>5. /\ Unique(queue) /\ Ordered(queue) /\ NoRestart(queue)
      /\ queue \subseteq RowSet(AllEvents, Receipts) /\ Receipted(queue)
  BY DEF Table
<1> DEFINE q2 == queue \cup {new}
<1>6. /\ Events(q2) = Events(queue) \cup {new.event}
      /\ UploadedEvents(q2) = UploadedEvents(queue)
      /\ FailedEvents(q2) = FailedEvents(queue)
      /\ Unique(q2) /\ Ordered(q2) /\ NoRestart(q2)
      /\ SelectUploadBatch(queue) \subseteq SelectUploadBatch(q2)
  BY <1>1, <1>3, <1>4, <1>5, InsertKeeps
<1>7. Receipted(q2)
  BY <1>1, <1>5 DEF Receipted
<1>8. q2 \subseteq RowSet(AllEvents, Receipts)
  BY <1>5
<1> QED
  BY <1>1, <1>2, <1>6, <1>7, <1>8 DEF Table

\* Marking for a retry.
LEMMA RetryTable ==
    ASSUME Table(queue), NEW ids, queue' = MarkRetryable(queue, ids, FALSE)
    PROVE  /\ Table(queue')
           /\ Events(queue') = Events(queue)
           /\ UploadedEvents(queue') = UploadedEvents(queue)
           /\ FailedEvents(queue') = FailedEvents(queue)
           /\ \A row \in SelectUploadBatch(queue) :
                  row.event.id \notin ids => row \in SelectUploadBatch(queue')
           /\ \A x \in queue : x.state = "uploaded" => x \in queue'
           /\ \A y \in queue' : y.state = "uploaded" => y \in queue
           /\ \A y \in queue' : \E x \in queue : x.event = y.event
<1> HIDE DEF AllEvents, Receipts
<1>1. /\ queue' \subseteq RowSet(AllEvents, Receipts)
      /\ \A x \in queue : \E y \in queue' : Retried(x, y, ids)
      /\ \A y \in queue' : \E x \in queue : Retried(x, y, ids)
      /\ Unique(queue')
  BY MarkRetryableRows DEF Table
<1>2. /\ Events(queue') = Events(queue)
      /\ UploadedEvents(queue') = UploadedEvents(queue)
      /\ FailedEvents(queue') = FailedEvents(queue)
      /\ Ordered(queue') /\ NoRestart(queue')
  BY <1>1, RetriedKeeps DEF Table
<1>3. \A row \in SelectUploadBatch(queue) :
          row.event.id \notin ids => row \in SelectUploadBatch(queue')
  BY <1>1, RetriedSelection DEF Table
<1>4. \A x \in queue : x.state = "uploaded" => x \in queue'
  BY <1>1 DEF Retried, Unresolved
<1>5. \A y \in queue' : y.state = "uploaded" => y \in queue
  <2> SUFFICES ASSUME NEW y \in queue', y.state = "uploaded" PROVE y \in queue
    OBVIOUS
  <2>1. PICK x \in queue : Retried(x, y, ids)
    BY <1>1
  <2> QED
    BY <2>1 DEF Retried, Unresolved
<1>6. Receipted(queue')
  <2> SUFFICES ASSUME NEW y \in queue' PROVE y.state = "uploaded" <=> y.receipt # NoReceipt
    BY DEF Receipted
  <2>1. PICK x \in queue : Retried(x, y, ids)
    BY <1>1
  <2>2. x.state = "uploaded" <=> x.receipt # NoReceipt
    BY DEF Table, Receipted
  <2>3. y.receipt = x.receipt /\ (y.state = "uploaded" <=> x.state = "uploaded")
    BY <2>1 DEF Retried, Unresolved
  <2> QED
    BY <2>2, <2>3
<1>7. \A y \in queue' : \E x \in queue : x.event = y.event
  BY <1>1 DEF Retried
<1> QED
  BY <1>1, <1>2, <1>3, <1>4, <1>5, <1>6, <1>7 DEF Table

\* Acknowledging a row in flight.
LEMMA AcceptTable ==
    ASSUME Table(queue), InFlight, NEW row \in request, NEW receipt \in Receipts,
           receipt # NoReceipt, queue' = Acknowledge(queue, row.event.id, receipt)
    PROVE  /\ Table(queue')
           /\ Events(queue') = Events(queue)
           /\ UploadedEvents(queue') = UploadedEvents(queue) \cup {row.event}
           /\ FailedEvents(queue') = FailedEvents(queue)
           /\ request \ {row} \subseteq SelectUploadBatch(queue')
           /\ \A x \in queue : x.state = "uploaded" => x \in queue'
           /\ \A y \in queue' : y.state = "uploaded" =>
                  y \in queue \/ (y.event = row.event /\ y.receipt = receipt)
           /\ \A y \in queue' : \E x \in queue : x.event = y.event
<1> HIDE DEF AllEvents, Receipts
<1>0. /\ row \in queue /\ row \in SelectUploadBatch(queue) /\ row.state \in Unresolved
      /\ Numbered(Events(queue))
      /\ Unique(queue) /\ Ordered(queue) /\ NoRestart(queue) /\ Receipted(queue)
      /\ queue \subseteq RowSet(AllEvents, Receipts)
  BY RequestFacts, RowFacts DEF Table
<1>1. /\ queue' \subseteq RowSet(AllEvents, Receipts)
      /\ \A x \in queue : \E y \in queue' : Accepted(x, y, row)
      /\ \A y \in queue' : \E x \in queue : Accepted(x, y, row)
      /\ \A y \in queue' : y.event = row.event => y.receipt = receipt
      /\ Unique(queue')
  BY <1>0, AcknowledgeRows
<1>2. /\ Events(queue') = Events(queue)
      /\ UploadedEvents(queue') = UploadedEvents(queue) \cup {row.event}
      /\ FailedEvents(queue') = FailedEvents(queue)
      /\ Ordered(queue') /\ NoRestart(queue')
  BY <1>0, <1>1, AcceptedKeeps
<1>3. request \ {row} \subseteq SelectUploadBatch(queue')
  <2> SUFFICES ASSUME NEW other \in request, other # row
               PROVE  other \in SelectUploadBatch(queue')
    OBVIOUS
  <2>1. other \in SelectUploadBatch(queue)
    BY RequestFacts
  <2>2. other.event.runtime # row.event.runtime
    BY <2>1, <1>0, OnePerRuntime
  <2>3. RowsOf(queue', other.event.runtime) = RowsOf(queue, other.event.runtime)
    BY <2>2, <1>0, <1>1, AcceptedStay
  <2> QED
    BY <2>1, <2>3, SelectionIsLocal
<1>4. \A x \in queue : x.state = "uploaded" => x \in queue'
  BY <1>0, <1>1 DEF Accepted, Unresolved
<1>5. \A y \in queue' : y.state = "uploaded" =>
          y \in queue \/ (y.event = row.event /\ y.receipt = receipt)
  BY <1>1 DEF Accepted
<1>6. Receipted(queue')
  BY <1>0, <1>1 DEF Receipted, Accepted
<1>7. \A y \in queue' : \E x \in queue : x.event = y.event
  BY <1>1 DEF Accepted
<1> QED
  BY <1>1, <1>2, <1>3, <1>4, <1>5, <1>6, <1>7 DEF Table

\* Failing a row in flight for good.
LEMMA RefuseTable ==
    ASSUME Table(queue), InFlight, NEW row \in request, queue' = MarkPermanent(queue, row.event)
    PROVE  /\ Table(queue')
           /\ Events(queue') = Events(queue)
           /\ UploadedEvents(queue') = UploadedEvents(queue)
           /\ FailedEvents(queue') = FailedEvents(queue) \cup From(queue, row)
           /\ request \ {row} \subseteq SelectUploadBatch(queue')
           /\ \A x \in queue : x.state = "uploaded" => x \in queue'
           /\ \A y \in queue' : y.state = "uploaded" => y \in queue
           /\ \A y \in queue' : \E x \in queue : x.event = y.event
<1> HIDE DEF AllEvents, Receipts
<1>0. /\ row \in queue /\ row \in SelectUploadBatch(queue) /\ row.state \in Unresolved
      /\ Numbered(Events(queue))
      /\ Unique(queue) /\ Ordered(queue) /\ NoRestart(queue) /\ Receipted(queue)
      /\ queue \subseteq RowSet(AllEvents, Receipts)
  BY RequestFacts, RowFacts DEF Table
<1>1. /\ queue' \subseteq RowSet(AllEvents, Receipts)
      /\ \A x \in queue : \E y \in queue' : Condemned(x, y, row)
      /\ \A y \in queue' : \E x \in queue : Condemned(x, y, row)
      /\ Unique(queue')
  BY <1>0, MarkPermanentRows
<1>2. /\ Events(queue') = Events(queue)
      /\ UploadedEvents(queue') = UploadedEvents(queue)
      /\ FailedEvents(queue') = FailedEvents(queue) \cup From(queue, row)
      /\ Ordered(queue') /\ NoRestart(queue')
  BY <1>0, <1>1, CondemnedKeeps
<1>3. request \ {row} \subseteq SelectUploadBatch(queue')
  <2> SUFFICES ASSUME NEW other \in request, other # row
               PROVE  other \in SelectUploadBatch(queue')
    OBVIOUS
  <2>1. other \in SelectUploadBatch(queue)
    BY RequestFacts
  <2>2. other.event.runtime # row.event.runtime
    BY <2>1, <1>0, OnePerRuntime
  <2>3. RowsOf(queue', other.event.runtime) = RowsOf(queue, other.event.runtime)
    BY <2>2, <1>0, <1>1, CondemnedStay
  <2> QED
    BY <2>1, <2>3, SelectionIsLocal
<1>8. \A x \in queue : Condemns(x, row) => x.state \in Unresolved
  BY <1>0 DEF Condemns
<1>4. \A x \in queue : x.state = "uploaded" => x \in queue'
  BY <1>8, <1>1 DEF Condemned, Unresolved
<1>5. \A y \in queue' : y.state = "uploaded" => y \in queue
  BY <1>1 DEF Condemned
<1>6. Receipted(queue')
  BY <1>8, <1>0, <1>1 DEF Receipted, Condemned, Unresolved
<1>7. \A y \in queue' : \E x \in queue : x.event = y.event
  BY <1>1 DEF Condemned
<1> QED
  BY <1>1, <1>2, <1>3, <1>4, <1>5, <1>6, <1>7 DEF Table

\* Only a start and a stop touch the process, a start and a refusal the block.
LEMMA LifeStep ==
    ASSUME [Next]_vars
    PROVE  /\ UNCHANGED faults
           /\ UNCHANGED <<runtimes, running>> \/ Start \/ Stop
           /\ UNCHANGED blocked \/ Start \/ \E row \in request : ApplyRefusal(row)
<1>1. CASE Start \/ Stop
  BY <1>1 DEF Start, Stop
<1>2. CASE Append \/ AttemptFails \/ AttemptHalts
  BY <1>2 DEF Append, AttemptFails, AttemptHalts, lifeVars
<1>3. CASE SendBatch \/ TooLarge \/ Reply \/ Reject \/ GarbledReply \/ Forget \/ StorageFails
  BY <1>3 DEF SendBatch, TooLarge, Reply, Reject, GarbledReply, Forget, StorageFails, localVars,
              lifeVars
<1>4. CASE Serve \/ (\E envelope \in late : IngestLate(envelope)) \/ UNCHANGED vars
  BY <1>4 DEF Serve, Ingest, IngestLate, vars, localVars, lifeVars
<1>5. ASSUME NEW row \in request,
             ApplyReceipt(row) \/ ApplyUnusable(row) \/ ApplyMissing(row)
      PROVE  UNCHANGED <<faults, runtimes, running, blocked>>
  BY <1>5 DEF ApplyReceipt, ApplyUnusable, ApplyMissing, Settle, lifeVars
<1>6. ASSUME NEW row \in request, ApplyRefusal(row)
      PROVE  UNCHANGED <<faults, runtimes, running>>
  BY <1>6 DEF ApplyRefusal, Settle, lifeVars
<1> QED
  BY <1>1, <1>2, <1>3, <1>4, <1>5, <1>6 DEF Next, Apply

\* Marking for a restart never happens: the predecessor of an event is there.
LEMMA MissingIsRepairable ==
    ASSUME Table(queue), Shape, InFlight, NEW row \in request, ApplyMissing(row)
    PROVE  queue' = MarkRetryable(queue, {row.event.id}, FALSE)
<1> DEFINE repairable == \/ row.event.sequence = 1
                         \/ HasRow(queue, row.event.runtime, row.event.sequence - 1)
<1>1. repairable
  <2>1. row.event \in Events(queue) /\ row.event \in AllEvents
    BY RequestFacts
  <2>2. row.event.sequence \in Nat /\ row.event.sequence >= 1
    BY <2>1, EventFacts
  <2>3. CASE row.event.sequence # 1
    <3>1. row.event.sequence - 1 \in 1..row.event.sequence
      BY <2>2, <2>3
    <3>2. PICK b \in Events(queue) : /\ b.runtime = row.event.runtime
                                     /\ b.sequence = row.event.sequence - 1
      BY <2>1, <3>1 DEF Shape, Dense
    <3> QED
      BY <3>2 DEF HasRow, RowsOf, Events
  <2> QED
    BY <2>3
<1>2. queue' = MarkRetryable(queue, {row.event.id}, ~ repairable)
  BY DEF ApplyMissing
<1>3. ~ repairable = FALSE
  BY <1>1
<1>4. queue' = MarkRetryable(queue, {row.event.id}, FALSE)
  BY <1>2, <1>3, Zenon
<1> QED
  BY <1>4

\* The five ways of a step to treat the table.
LEMMA QueueStep ==
    ASSUME Table(queue), Shape, InFlight, [Next]_vars
    PROVE  \/ queue' = queue
           \/ Append
           \/ \E ids : queue' = MarkRetryable(queue, ids, FALSE)
           \/ \E row \in request : ApplyReceipt(row)
           \/ \E row \in request : ApplyRefusal(row)
<1>1. CASE Append
  BY <1>1
<1>2. CASE AttemptFails \/ AttemptHalts
  BY <1>2 DEF AttemptFails, AttemptHalts
<1>3. ASSUME NEW row \in request, ApplyReceipt(row) \/ ApplyRefusal(row)
      PROVE  (\E r \in request : ApplyReceipt(r)) \/ (\E r \in request : ApplyRefusal(r))
  BY <1>3
<1>4. ASSUME NEW row \in request, ApplyUnusable(row)
      PROVE  \E ids : queue' = MarkRetryable(queue, ids, FALSE)
  BY <1>4 DEF ApplyUnusable
<1>5. ASSUME NEW row \in request, ApplyMissing(row)
      PROVE  \E ids : queue' = MarkRetryable(queue, ids, FALSE)
  BY <1>5, MissingIsRepairable
<1>6. CASE \/ Start \/ Stop \/ SendBatch \/ TooLarge \/ Reply \/ Reject \/ GarbledReply
           \/ Forget \/ StorageFails \/ Serve \/ (\E envelope \in late : IngestLate(envelope))
           \/ UNCHANGED vars
  BY <1>6 DEF Start, Stop, SendBatch, TooLarge, Reply, Reject, GarbledReply, Forget,
              StorageFails, Serve, Ingest, IngestLate, vars, localVars
<1> QED
  BY <1>1, <1>2, <1>3, <1>4, <1>5, <1>6 DEF Next, Apply

\* What every step keeps of the table.
LEMMA TableStep ==
    ASSUME Typed, Table(queue), Shape, Blocking, InFlight, [Next]_vars
    PROVE  /\ Table(queue')
           /\ \/ Events(queue') = Events(queue)
              \/ Append /\ Events(queue') = Events(queue) \cup {NextEvent}
           /\ \A x \in queue : x.state = "uploaded" => x \in queue'
           /\ \A y \in queue' : y.state = "uploaded" =>
                  \/ y \in queue
                  \/ \E row \in request : /\ ApplyReceipt(row) /\ y.event = row.event
                                          /\ y.receipt = answer[row.event.id].receipt
           /\ \/ FailedEvents(queue') = FailedEvents(queue)
              \/ \E row \in request :
                     /\ ApplyRefusal(row)
                     /\ FailedEvents(queue') = FailedEvents(queue) \cup From(queue, row)
           /\ \A y \in queue' : \/ Append /\ y.event = NextEvent
                                \/ \E x \in queue : x.event = y.event
<1>1. CASE queue' = queue
  BY <1>1
<1>2. CASE Append
  BY <1>2, AppendTable
<1>3. ASSUME NEW ids, queue' = MarkRetryable(queue, ids, FALSE)
      PROVE  /\ Table(queue')
             /\ Events(queue') = Events(queue)
             /\ \A x \in queue : x.state = "uploaded" => x \in queue'
             /\ \A y \in queue' : y.state = "uploaded" => y \in queue
             /\ FailedEvents(queue') = FailedEvents(queue)
             /\ \A y \in queue' : \E x \in queue : x.event = y.event
  BY <1>3, RetryTable
<1>4. ASSUME NEW row \in request, ApplyReceipt(row)
      PROVE  /\ Table(queue')
             /\ Events(queue') = Events(queue)
             /\ \A x \in queue : x.state = "uploaded" => x \in queue'
             /\ \A y \in queue' : y.state = "uploaded" =>
                    \/ y \in queue
                    \/ y.event = row.event /\ y.receipt = answer[row.event.id].receipt
             /\ FailedEvents(queue') = FailedEvents(queue)
             /\ \A y \in queue' : \E x \in queue : x.event = y.event
  <2> DEFINE receipt == answer[row.event.id].receipt
  <2>1. upload = "answered" /\ Binds(receipt, row.event)
        /\ queue' = Acknowledge(queue, row.event.id, receipt)
    BY <1>4 DEF ApplyReceipt
  <2>2. receipt # NoReceipt
    BY <2>1 DEF Binds
  <2>3. receipt \in Receipts
    BY <2>1 DEF InFlight, IdsOf, Typed
  <2> HIDE DEF receipt
  <2>4. /\ Table(queue')
        /\ Events(queue') = Events(queue)
        /\ \A x \in queue : x.state = "uploaded" => x \in queue'
        /\ \A y \in queue' : y.state = "uploaded" =>
               y \in queue \/ (y.event = row.event /\ y.receipt = receipt)
        /\ FailedEvents(queue') = FailedEvents(queue)
        /\ \A y \in queue' : \E x \in queue : x.event = y.event
    BY <2>1, <2>2, <2>3, AcceptTable
  <2> QED
    BY <2>4 DEF receipt
<1>5. ASSUME NEW row \in request, ApplyRefusal(row)
      PROVE  /\ Table(queue')
             /\ Events(queue') = Events(queue)
             /\ \A x \in queue : x.state = "uploaded" => x \in queue'
             /\ \A y \in queue' : y.state = "uploaded" => y \in queue
             /\ FailedEvents(queue') = FailedEvents(queue) \cup From(queue, row)
             /\ \A y \in queue' : \E x \in queue : x.event = y.event
  <2>1. queue' = MarkPermanent(queue, row.event)
    BY <1>5 DEF ApplyRefusal
  <2> QED
    BY <2>1, RefuseTable
<1>6. CASE \E ids : queue' = MarkRetryable(queue, ids, FALSE)
  BY <1>6, <1>3
<1>7. CASE \E row \in request : ApplyReceipt(row)
  <2>1. PICK row \in request : ApplyReceipt(row)
    BY <1>7
  <2> QED
    BY <2>1, <1>4
<1>8. CASE \E row \in request : ApplyRefusal(row)
  <2>1. PICK row \in request : ApplyRefusal(row)
    BY <1>8
  <2> QED
    BY <2>1, <1>5
<1> QED
  BY QueueStep, <1>1, <1>2, <1>6, <1>7, <1>8

\* The log stays without gaps, and has a newest event per runtime.
LEMMA ShapeStep ==
    ASSUME Typed, Table(queue), Shape, Blocking, InFlight, [Next]_vars
    PROVE  Shape'
<1> DEFINE E == Events(queue)
<1>1. runtimes \in Nat /\ (\/ UNCHANGED <<runtimes, running>>
                           \/ runtimes' = runtimes + 1
                           \/ runtimes' = runtimes /\ running' = FALSE)
  <2>1. runtimes \in Nat
    BY DeliveryAssumption DEF Typed
  <2>2. CASE Start \/ Stop
    BY <2>1, <2>2 DEF Start, Stop
  <2> QED
    BY <2>1, <2>2, LifeStep
<1>2. E \subseteq AllEvents
  BY RowFacts
<1>3. CASE Events(queue') = E
  <2>1. \A e \in E : e.runtime \in Nat
    BY <1>2, EventFacts, DeliveryAssumption DEF Runtimes
  <2>2. (\A e \in E : e.runtime <= runtimes) /\ (running => runtimes > 0)
    BY DEF Shape, Started
  <2> HIDE DEF E
  <2>3. (\A e \in E : e.runtime <= runtimes') /\ (running' => runtimes' > 0)
    BY <1>1, <2>1, <2>2
  <2>4. Started'
    BY <1>3, <2>3 DEF Started
  <2> QED
    BY <1>3, <2>4 DEF Shape, Dense, Topped, E
<1>4. CASE Append /\ Events(queue') = E \cup {NextEvent}
  <2>1. UNCHANGED <<runtimes, running>>
    BY <1>4 DEF Append, lifeVars
  <2>2. /\ NextEvent \in AllEvents /\ NextEvent.runtime = runtimes
        /\ \A e \in E : e.runtime = runtimes => e.sequence < NextEvent.sequence
        /\ \/ NextEvent.sequence = 1
           \/ \E e \in E : e.runtime = runtimes /\ e.sequence = NextEvent.sequence - 1
    BY <1>4, NextEventFacts
  <2> DEFINE n == NextEvent
  <2>3. n.sequence \in Nat /\ \A e \in E : e.sequence \in Nat
    BY <1>2, <2>2, EventFacts
  <2> HIDE DEF n, E
  <2>4. Started'
    <3>1. \A e \in E \cup {n} : e.runtime <= runtimes
      BY <2>2, <1>1 DEF Shape, Started, E, n
    <3> QED
      BY <3>1, <2>1, <1>4 DEF Shape, Started, n, E
  <2>5. Dense(E \cup {n})
    <3> SUFFICES ASSUME NEW e \in E \cup {n}, NEW k \in 1..e.sequence
                 PROVE  \E b \in E \cup {n} : b.runtime = e.runtime /\ b.sequence = k
      BY DEF Dense
    <3>0. Dense(E)
      BY DEF Shape, E
    <3>1. CASE e \in E
      BY <3>0, <3>1 DEF Dense
    <3>2. CASE e = n /\ k = n.sequence
      BY <3>2
    <3>3. CASE e = n /\ k # n.sequence
      <4>1. k \in 1..(n.sequence - 1) /\ n.sequence # 1
        BY <2>3, <3>3
      <4>2. PICK top \in E : top.runtime = runtimes /\ top.sequence = n.sequence - 1
        BY <2>2, <4>1 DEF n
      <4>3. \E b \in E : b.runtime = top.runtime /\ b.sequence = k
        BY <3>0, <4>1, <4>2 DEF Dense
      <4> QED
        BY <4>2, <4>3, <3>3, <2>2 DEF n
    <3> QED
      BY <3>1, <3>2, <3>3
  <2>6. Topped(E \cup {n})
    <3> SUFFICES ASSUME NEW r \in Runtimes
                 PROVE  \/ \A e \in E \cup {n} : e.runtime # r
                        \/ \E e \in E \cup {n} : /\ e.runtime = r
                                                 /\ \A f \in E \cup {n} :
                                                        f.runtime = r => f.sequence <= e.sequence
      BY DEF Topped
    <3>1. CASE r = runtimes
      BY <2>2, <2>3, <3>1 DEF n
    <3>2. CASE r # runtimes
      BY <2>2, <3>2 DEF Shape, Topped, E, n
    <3> QED
      BY <3>1, <3>2
  <2> QED
    BY <1>4, <2>4, <2>5, <2>6 DEF Shape, E, n
<1> QED
  BY TableStep, <1>3, <1>4

\* Signing stays blocked behind a failed row.
LEMMA BlockingStep ==
    ASSUME Typed, Table(queue), Shape, Blocking, InFlight, [Next]_vars
    PROVE  Blocking'
<1>1. CASE Start
  <2>1. queue' = queue /\ runtimes' = runtimes + 1
    BY <1>1 DEF Start
  <2>2. \A e \in FailedEvents(queue) : e \in Events(queue)
    BY DEF FailedEvents, Events
  <2>3. \A e \in FailedEvents(queue) : e.runtime <= runtimes /\ e.runtime \in Nat
    BY <2>2, RowFacts, EventFacts, DeliveryAssumption DEF Shape, Started, Runtimes
  <2>4. runtimes \in Nat
    BY DeliveryAssumption DEF Typed
  <2> HIDE DEF Blocking
  <2>5. \A e \in FailedEvents(queue) : e.runtime # runtimes'
    BY <2>1, <2>3, <2>4
  <2> QED
    BY <2>1, <2>5 DEF Blocking
<1>2. CASE \E row \in request : ApplyRefusal(row)
  <2>1. PICK row \in request : ApplyRefusal(row)
    BY <1>2
  <2>2. /\ queue' = MarkPermanent(queue, row.event)
        /\ blocked' = (blocked \/ row.event.runtime = runtimes) /\ UNCHANGED runtimes
    BY <2>1 DEF ApplyRefusal, Settle, lifeVars
  <2>3. FailedEvents(queue') = FailedEvents(queue) \cup From(queue, row)
    BY <2>2, RefuseTable
  <2>4. \A e \in From(queue, row) : e.runtime = row.event.runtime
    BY DEF From, Under
  <2>5. \A e \in FailedEvents(queue') : e.runtime = runtimes => blocked'
    <3> SUFFICES ASSUME NEW e \in FailedEvents(queue'), e.runtime = runtimes
                 PROVE  blocked'
      OBVIOUS
    <3>1. CASE e \in FailedEvents(queue)
      <4>1. blocked
        BY <3>1 DEF Blocking
      <4> QED
        BY <2>2, <4>1
    <3>2. CASE e \in From(queue, row)
      <4>1. row.event.runtime = runtimes
        BY <2>4, <3>2
      <4> QED
        BY <2>2, <4>1
    <3> QED
      BY <2>3, <3>1, <3>2
  <2> QED
    BY <2>2, <2>5 DEF Blocking
<1>3. CASE UNCHANGED blocked /\ ~ Start /\ ~ \E row \in request : ApplyRefusal(row)
  <2>1. FailedEvents(queue') = FailedEvents(queue)
    BY <1>3, TableStep
  <2>2. UNCHANGED runtimes
    BY <1>3, LifeStep DEF Stop
  <2> QED
    BY <1>3, <2>1, <2>2 DEF Blocking
<1> QED
  BY <1>1, <1>2, <1>3, LifeStep

\* A result is settled: what is left in flight is as before.
LEMMA SettleStep ==
    ASSUME Typed, Table(queue), InFlight, NEW row \in request, upload = "answered",
           Settle(row), request \ {row} \subseteq SelectUploadBatch(queue')
    PROVE  /\ InFlight'
           /\ upload' \in {"idle", "answered"} /\ (upload' = "answered" <=> request' # {})
           /\ DOMAIN answer' \subseteq DOMAIN answer
           /\ \A id \in DOMAIN answer' : answer'[id] = answer[id]
           /\ late' = late
<1>1. request' = request \ {row}
  BY DEF Settle
<1>2. upload' = IF request' = {} THEN "idle" ELSE "answered"
  BY DEF Settle
<1>3. answer' = [id \in DOMAIN answer \ {row.event.id} |-> answer[id]]
  BY DEF Settle
<1>4. \A other \in request' : other.event.id # row.event.id
  BY <1>1, RequestFacts DEF Table, Unique
<1>5. IdsOf(request') \subseteq DOMAIN answer'
  BY <1>1, <1>3, <1>4 DEF InFlight, IdsOf
<1>6. InFlight'
  BY <1>1, <1>5 DEF InFlight
<1> QED
  BY <1>2, <1>3, <1>6 DEF Settle

\* The row of a settled result is the only one whose selection changes.
LEMMA ApplyKeepsSelection ==
    ASSUME Typed, Table(queue), Shape, InFlight, NEW row \in request,
           \/ ApplyReceipt(row) \/ ApplyUnusable(row) \/ ApplyMissing(row) \/ ApplyRefusal(row)
    PROVE  request \ {row} \subseteq SelectUploadBatch(queue')
<1>1. CASE ApplyReceipt(row)
  <2> DEFINE receipt == answer[row.event.id].receipt
  <2>1. upload = "answered" /\ Binds(receipt, row.event)
        /\ queue' = Acknowledge(queue, row.event.id, receipt)
    BY <1>1 DEF ApplyReceipt
  <2>2. receipt # NoReceipt
    BY <2>1 DEF Binds
  <2>3. receipt \in Receipts
    BY <2>1 DEF InFlight, IdsOf, Typed
  <2> HIDE DEF receipt
  <2> QED
    BY <2>1, <2>2, <2>3, AcceptTable
<1>2. CASE ApplyUnusable(row) \/ ApplyMissing(row)
  <2>1. queue' = MarkRetryable(queue, {row.event.id}, FALSE)
    <3>1. CASE ApplyUnusable(row)
      BY <3>1 DEF ApplyUnusable
    <3>2. CASE ApplyMissing(row)
      BY <3>2, MissingIsRepairable
    <3> QED
      BY <1>2, <3>1, <3>2
  <2>2. \A other \in request : /\ other \in SelectUploadBatch(queue)
                               /\ other # row => other.event.id # row.event.id
    BY RequestFacts DEF Table, Unique
  <2>3. \A other \in SelectUploadBatch(queue) :
            other.event.id \notin {row.event.id} => other \in SelectUploadBatch(queue')
    BY <2>1, RetryTable
  <2> QED
    BY <2>2, <2>3
<1>3. CASE ApplyRefusal(row)
  BY <1>3, RefuseTable DEF ApplyRefusal
<1> QED
  BY <1>1, <1>2, <1>3
-----------------------------------------------------------------------------
(* The verdict of the service on a durable event. *)

\* A stored id is the event itself, and its replay is recognised; whether an
\* event is accepted, replayed or refused depends on what is stored.
LEMMA VerdictFacts ==
    ASSUME Table(queue), Known, NEW e \in AllEvents, NEW policy \in Policies
    PROVE  LET verdict == IngestVerdict(events, Envelope(e), policy)
           IN  /\ verdict = "accepted" => \A stored \in events : stored.event.id # e.id
               /\ verdict = "duplicate" => \E stored \in events : stored.event.id = e.id
               /\ verdict = "missing_previous" => MissesPrevious(events, e)
               /\ \/ verdict \in {"accepted", "duplicate", "missing_previous"}
                  \/ verdict = policy /\ policy # "pass" /\ e \notin StoredEvents(events)
<1> DEFINE v == IngestVerdict(events, Envelope(e), policy)
           chain == ChainVerdict(events, e)
<1>0. policy # "accepted" /\ policy # "duplicate" /\ policy # "missing_previous"
  BY DEF Policies
<1>1. \A stored \in events : stored.event \in AllEvents
  BY RowFacts DEF Known
<1>2. CASE \E stored \in events : stored.event.id = e.id
  <2>1. PICK stored \in events : stored.event.id = e.id
    BY <1>2
  <2>2. stored.event = e
    BY <1>1, <2>1, EventsApart
  <2>3. stored = [event |-> e, signature |-> e.hash]
    BY <2>2 DEF Known
  <2>4. IsReplay(events, Envelope(e)) /\ IsIdentical(events, Envelope(e))
    BY <2>1, <2>3, EnvelopeFacts DEF IsReplay, IsIdentical
  <2>5. v = "duplicate"
    BY <2>4 DEF IngestVerdict
  <2> QED
    BY <1>2, <2>5
<1>3. CASE ~ \E stored \in events : stored.event.id = e.id
  <2>1. ~ IsReplay(events, Envelope(e))
    BY <1>3, EnvelopeFacts DEF IsReplay
  <2>2. v = IF policy # "pass" THEN policy ELSE chain
    BY <2>1, EnvelopeFacts DEF IngestVerdict
  <2>3. ~ BreaksChain(events, e)
    <3>1. ASSUME NEW below \in Predecessors(events, e), e.sequence > 1
          PROVE  below.hash = e.prev
      <4>1. below \in AllEvents /\ below.runtime = e.runtime /\ below.sequence = e.sequence - 1
        BY <1>1 DEF Predecessors, StoredEvents
      <4> QED
        BY <4>1, <3>1, EventFacts
    <3>2. ASSUME NEW other \in StoredEvents(events), other.runtime = e.runtime,
                 other.sequence = e.sequence
          PROVE  other.id = e.id
      <4>1. other \in AllEvents
        BY <1>1 DEF StoredEvents
      <4> QED
        BY <4>1, <3>2, EventsApart
    <3> QED
      BY <3>1, <3>2 DEF BreaksChain
  <2>4. ~ \E other \in StoredEvents(events) : other.hash = e.hash
    <3> SUFFICES ASSUME NEW other \in StoredEvents(events), other.hash = e.hash
                 PROVE  FALSE
      OBVIOUS
    <3>1. PICK stored \in events : stored.event = other
      BY DEF StoredEvents
    <3>2. other = e
      BY <3>1, <1>1, EventsApart
    <3> QED
      BY <3>1, <3>2, <1>3
  <2>5. /\ chain \in {"accepted", "missing_previous"}
        /\ chain = "missing_previous" => MissesPrevious(events, e)
    BY <2>3, <2>4 DEF ChainVerdict
  <2>6. e \notin StoredEvents(events)
    BY <1>3 DEF StoredEvents
  <2> HIDE DEF chain
  <2> QED
    BY <1>0, <1>3, <2>2, <2>5, <2>6
<1> QED
  BY <1>2, <1>3

\* The receipt that travels with the verdict is none or one in the table.
LEMMA AnsweredFacts ==
    ASSUME Table(queue), Known, TablesMatch, NEW e \in AllEvents, NEW policy \in Policies
    PROVE  LET verdict == IngestVerdict(events, Envelope(e), policy)
               receipt == AnsweredReceipt(receipts, Envelope(e), verdict)
           IN  /\ receipt \in Receipts
               /\ \/ receipt = NoReceipt
                  \/ receipt \in ReceiptsAfter(receipts, Envelope(e), verdict)
<1> DEFINE v == IngestVerdict(events, Envelope(e), policy)
           r == AnsweredReceipt(receipts, Envelope(e), v)
           issued == IssuedReceipt(receipts, e)
<1>1. issued \in Ids \X Ids \X Nat
  <2>1. Cardinality(receipts) \in Nat
    BY FS_CardinalityType DEF TablesMatch
  <2>2. e.id \in Ids /\ e.hash \in Ids
    BY EventFacts
  <2> HIDE DEF Ids
  <2> QED
    BY <2>1, <2>2 DEF IssuedReceipt
<1>2. v = "duplicate" => StoredReceipt(receipts, e.id) \in receipts
  <2>1. v = "duplicate" => \E x \in receipts : x[1] = e.id
    BY VerdictFacts DEF TablesMatch
  <2> HIDE DEF v
  <2> QED
    BY <2>1 DEF StoredReceipt, ReceiptsFor
<1>3. receipts \subseteq Ids \X Ids \X Nat
  BY DEF TablesMatch
<1> HIDE DEF v, issued
<1>4. CASE v = "accepted"
  <2>1. r = issued
    BY <1>4, EnvelopeFacts DEF AnsweredReceipt, issued
  <2>2. issued \in ReceiptsAfter(receipts, Envelope(e), v)
    BY <1>4, EnvelopeFacts DEF ReceiptsAfter, issued
  <2> HIDE DEF r
  <2> QED
    BY <2>1, <2>2, <1>1 DEF Receipts, r, v
<1>5. CASE v = "duplicate"
  <2>1. r = StoredReceipt(receipts, e.id)
    BY <1>5, EnvelopeFacts DEF AnsweredReceipt
  <2>2. receipts \subseteq ReceiptsAfter(receipts, Envelope(e), v)
    BY <1>5 DEF ReceiptsAfter
  <2> HIDE DEF r
  <2> QED
    BY <2>1, <2>2, <1>2, <1>3, <1>5 DEF Receipts, r, v
<1>6. CASE v # "accepted" /\ v # "duplicate"
  <2>1. r = NoReceipt
    BY <1>6, Zenon DEF AnsweredReceipt, NoReceiptIssued, NoReceipt
  <2> HIDE DEF r
  <2> QED
    BY <2>1 DEF Receipts, r, v
<1> QED
  BY <1>4, <1>5, <1>6
-----------------------------------------------------------------------------
(* Types, and what is in flight. *)

\* A request is no larger than the number of runtimes.
LEMMA RequestFinite ==
    ASSUME Table(queue), InFlight
    PROVE  IsFiniteSet(request)
<1> DEFINE F == [row \in request |-> row.event.runtime]
<1>1. \A x, y \in request : x.event.runtime = y.event.runtime => x = y
  BY RowFacts, RequestFacts, OnePerRuntime DEF Table
<1>2. \A x \in request : x.event.runtime \in Runtimes
  BY RequestFacts, EventFacts
<1>3. IsFiniteSet(Runtimes)
  BY FS_Interval, DeliveryAssumption DEF Runtimes
<1>4. F \in Injection(request, Runtimes)
  BY <1>1, <1>2 DEF Injection, IsInjective
<1> HIDE DEF F
<1> QED
  BY <1>3, <1>4, FS_Injection

\* Half of a request of several rows is not empty.
LEMMA HalfIsLeft ==
    ASSUME Table(queue), InFlight, TooLarge
    PROVE  request' \subseteq request /\ request' # {}
<1>1. request' \subseteq request /\ Cardinality(request') = Cardinality(request) \div 2
  BY DEF TooLarge
<1>2. Cardinality(request) \in Nat /\ Cardinality(request) > 1
  <2>1. Cardinality(request) \in Nat
    BY RequestFinite, FS_CardinalityType
  <2>2. Cardinality(request) > RequestLimit /\ RequestLimit \in Nat \ {0}
    BY DeliveryAssumption DEF TooLarge
  <2> QED
    BY <2>1, <2>2
<1>3. Cardinality(request) \div 2 # 0
  BY <1>2
<1>4. Cardinality({}) = 0
  BY FS_EmptySet
<1> QED
  BY <1>1, <1>3, <1>4

\* What no step of an attempt changes stays typed.
LEMMA LifeTyped ==
    ASSUME Typed, [Next]_vars
    PROVE  /\ faults' \in Scenarios /\ runtimes' \in 0..MaxRuntimes
           /\ running' \in BOOLEAN /\ blocked' \in BOOLEAN
<1>1. faults' \in Scenarios
  BY LifeStep DEF Typed
<1>2. runtimes' \in 0..MaxRuntimes
  <2>1. CASE Start
    BY <2>1, DeliveryAssumption DEF Typed, Start
  <2>2. CASE ~ Start
    BY <2>2, LifeStep DEF Typed, Stop, GiveUp
  <2> QED
    BY <2>1, <2>2
<1>3. running' \in BOOLEAN
  BY LifeStep DEF Typed, Start, Stop
<1>4. blocked' \in BOOLEAN
  BY LifeStep DEF Typed, Start, ApplyRefusal
<1> QED
  BY <1>1, <1>2, <1>3, <1>4

\* The uploader, its request and its answer.
AttemptTyped ==
    /\ upload \in {"off", "idle", "sent", "answered", "halted"}
    /\ upload \in {"sent", "answered"} <=> request # {}
    /\ ~ running => upload = "off"
    /\ DOMAIN answer \subseteq Ids
    /\ \A id \in DOMAIN answer : answer[id].receipt \in Receipts

\* What an answer that is not the service's may say.
LEMMA GarbageFacts ==
    ASSUME NEW result \in Garbage
    PROVE  /\ result.status \in {"accepted", "missing_previous", "conflict"}
           /\ result.receipt \in receipts \cup {NoReceipt}
  BY DEF Garbage

\* Every step keeps the uploader, its request and its answer together.
LEMMA AttemptStep ==
    ASSUME IInv, [Next]_vars
    PROVE  AttemptTyped' /\ InFlight'
<1> HIDE DEF AllEvents, Receipts, Ids
<1>0. /\ AttemptTyped /\ Typed /\ Table(queue) /\ Shape /\ InFlight /\ Known /\ TablesMatch
      /\ Blocking
  BY DEF IInv, Typed, AttemptTyped
<1>1. CASE Start
  <2>1. upload' = "idle" /\ running' /\ UNCHANGED <<queue, request, answer>>
    BY <1>1 DEF Start
  <2>2. request = {}
    BY <1>0, <1>1 DEF AttemptTyped, Start
  <2> QED
    BY <1>0, <2>1, <2>2 DEF AttemptTyped, InFlight
<1>2. CASE Stop \/ AttemptFails \/ AttemptHalts \/ StorageFails
  <2>1. request' = {} /\ answer' = << >> /\ upload' \in {"off", "idle", "halted"}
    BY <1>2 DEF Stop, AttemptFails, AttemptHalts, StorageFails, GiveUp
  <2>2. ~ running' => upload' = "off"
    BY <1>0, <1>2 DEF Stop, AttemptFails, AttemptHalts, StorageFails, AttemptTyped, lifeVars,
                      localVars
  <2>3. DOMAIN answer' = {}
    BY <2>1
  <2> QED
    BY <2>1, <2>2, <2>3 DEF AttemptTyped, InFlight
<1>3. CASE Append
  <2>1. SelectUploadBatch(queue) \subseteq SelectUploadBatch(queue')
    BY <1>0, <1>3, AppendTable
  <2>2. UNCHANGED <<running, upload, request, answer>>
    BY <1>3 DEF Append, lifeVars
  <2> QED
    BY <1>0, <2>1, <2>2 DEF AttemptTyped, InFlight
<1>4. CASE SendBatch
  <2>1. /\ UNCHANGED <<running, queue, answer>> /\ upload' = "sent" /\ upload = "idle"
        /\ request' = SelectUploadBatch(queue) /\ request' # {}
    BY <1>4 DEF SendBatch, localVars, lifeVars
  <2> QED
    BY <1>0, <2>1 DEF AttemptTyped, InFlight
<1>5. CASE TooLarge
  <2>1. UNCHANGED <<running, queue, upload, answer>> /\ upload = "sent"
    BY <1>5 DEF TooLarge, localVars, lifeVars
  <2>2. request' \subseteq request /\ request' # {}
    BY <1>0, <1>5, HalfIsLeft
  <2> QED
    BY <1>0, <2>1, <2>2 DEF AttemptTyped, InFlight
<1>6. ASSUME NEW row \in request, Ingest(row) PROVE AttemptTyped' /\ InFlight'
  <2>1. UNCHANGED <<running, queue, upload, request>> /\ upload = "sent"
    BY <1>6 DEF Ingest, localVars, lifeVars
  <2>2. row.event \in AllEvents /\ row.event.id \in Ids
    BY <1>0, RequestFacts, EventFacts
  <2>3. PICK policy \in Policies :
           LET envelope == Envelope(row.event)
               verdict == IngestVerdict(events, envelope, policy)
           IN  answer' = [id \in DOMAIN answer \cup {row.event.id} |->
                   IF id = row.event.id
                     THEN [status  |-> verdict,
                           receipt |-> AnsweredReceipt(receipts, envelope, verdict)]
                     ELSE answer[id]]
    BY <1>6 DEF Ingest
  <2> DEFINE verdict == IngestVerdict(events, Envelope(row.event), policy)
             receipt == AnsweredReceipt(receipts, Envelope(row.event), verdict)
  <2>4. receipt \in Receipts
    BY <1>0, <2>2, AnsweredFacts
  <2>5. answer' = [id \in DOMAIN answer \cup {row.event.id} |->
                   IF id = row.event.id
                     THEN [status  |-> verdict, receipt |-> receipt]
                     ELSE answer[id]]
    BY <2>3
  <2> HIDE DEF verdict, receipt
  <2>6. DOMAIN answer' \subseteq Ids /\ \A id \in DOMAIN answer' : answer'[id].receipt \in Receipts
    BY <1>0, <2>2, <2>4, <2>5 DEF AttemptTyped
  <2> QED
    BY <1>0, <2>1, <2>6 DEF AttemptTyped, InFlight
<1>7. CASE Reply
  <2>1. UNCHANGED <<running, queue, request, answer>> /\ upload = "sent" /\ upload' = "answered"
        /\ IdsOf(request) = DOMAIN answer
    BY <1>7 DEF Reply, localVars, lifeVars
  <2> QED
    BY <1>0, <2>1 DEF AttemptTyped, InFlight
<1>8. CASE GarbledReply
  <2>1. UNCHANGED <<running, queue, request>> /\ upload = "sent" /\ upload' = "answered"
        /\ answer' \in [IdsOf(request) -> Garbage]
    BY <1>8 DEF GarbledReply, localVars, lifeVars
  <2>2. receipts \cup {NoReceipt} \subseteq Receipts
    BY <1>0 DEF TablesMatch, Receipts
  <2>3. IdsOf(request) \subseteq Ids
    BY <1>0, RequestFacts, EventFacts DEF IdsOf
  <2>4. DOMAIN answer' = IdsOf(request) /\ \A id \in IdsOf(request) : answer'[id].receipt \in Receipts
    BY <2>1, <2>2, GarbageFacts
  <2> QED
    BY <1>0, <2>1, <2>3, <2>4 DEF AttemptTyped, InFlight
<1>9. CASE Forget \/ (\E envelope \in late : IngestLate(envelope)) \/ UNCHANGED vars
  <2>1. UNCHANGED <<running, queue, upload, request, answer>>
    BY <1>9 DEF Forget, IngestLate, vars, localVars, lifeVars
  <2> QED
    BY <1>0, <2>1 DEF AttemptTyped, InFlight
<1>10. ASSUME NEW row \in request,
              ApplyReceipt(row) \/ ApplyUnusable(row) \/ ApplyMissing(row) \/ ApplyRefusal(row)
       PROVE  AttemptTyped' /\ InFlight'
  <2>1. upload = "answered" /\ Settle(row) /\ UNCHANGED running
    BY <1>10 DEF ApplyReceipt, ApplyUnusable, ApplyMissing, ApplyRefusal, Settle, lifeVars
  <2>2. request \ {row} \subseteq SelectUploadBatch(queue')
    BY <1>0, <1>10, ApplyKeepsSelection
  <2>3. /\ InFlight'
        /\ upload' \in {"idle", "answered"} /\ (upload' = "answered" <=> request' # {})
        /\ DOMAIN answer' \subseteq DOMAIN answer
        /\ \A id \in DOMAIN answer' : answer'[id] = answer[id]
    BY <1>0, <2>1, <2>2, SettleStep
  <2> QED
    BY <1>0, <2>1, <2>3 DEF AttemptTyped
<1>11. CASE Reject
  <2>1. UNCHANGED <<running, queue, request>> /\ upload = "sent" /\ upload' = "answered"
    BY <1>11 DEF Reject, localVars, lifeVars
  <2>2. DOMAIN answer' = IdsOf(request) /\ \A id \in IdsOf(request) : answer'[id].receipt = NoReceipt
    BY <1>11 DEF Reject
  <2>3. IdsOf(request) \subseteq Ids
    BY <1>0, RequestFacts, EventFacts DEF IdsOf
  <2>4. NoReceipt \in Receipts
    BY DEF Receipts
  <2> QED
    BY <1>0, <2>1, <2>2, <2>3, <2>4 DEF AttemptTyped, InFlight
<1> QED
  BY <1>1, <1>2, <1>3, <1>4, <1>5, <1>6, <1>7, <1>8, <1>9, <1>10, <1>11 DEF Next, Apply, Serve

\* The history of refusals only grows, by rows in flight.
LEMMA RefusedStep ==
    ASSUME IInv, [Next]_vars
    PROVE  refused \subseteq refused' /\ refused' \subseteq Ids
<1> HIDE DEF Ids
<1>0. refused \subseteq Ids /\ Table(queue) /\ InFlight
  BY DEF IInv, Typed
<1>1. \A row \in request : row.event.id \in Ids
  BY <1>0, RequestFacts, EventFacts
<1>2. IdsOf(request) \subseteq Ids
  BY <1>1 DEF IdsOf
<1>3. CASE refused' = refused
  BY <1>0, <1>3
<1>4. CASE \E row \in request : Ingest(row)
  BY <1>0, <1>1, <1>4 DEF Ingest
<1>5. CASE Reject
  BY <1>0, <1>2, <1>5 DEF Reject
<1>6. CASE GarbledReply
  BY <1>0, <1>2, <1>6 DEF GarbledReply
<1>7. CASE Start \/ Stop \/ Append \/ SendBatch \/ AttemptFails \/ AttemptHalts \/ TooLarge
  BY <1>3, <1>7 DEF Start, Stop, Append, SendBatch, AttemptFails, AttemptHalts, TooLarge
<1>8. CASE \/ Reply \/ Forget \/ StorageFails \/ (\E envelope \in late : IngestLate(envelope))
           \/ UNCHANGED vars
  BY <1>3, <1>8 DEF Reply, Forget, StorageFails, IngestLate, vars
<1>9. CASE Apply
  BY <1>3, <1>9 DEF Apply, ApplyReceipt, ApplyUnusable, ApplyMissing, ApplyRefusal, Settle
<1> QED
  BY <1>4, <1>5, <1>6, <1>7, <1>8, <1>9 DEF Next, Serve
-----------------------------------------------------------------------------
(* The service, the network and the answers. *)

\* The service works on an event that is in flight or late, on nothing else.
LEMMA ServiceStep ==
    ASSUME IInv, [Next]_vars
    PROVE  \/ UNCHANGED serviceVars
           \/ Forget
           \/ \E e \in Events(queue), policy \in Policies :
                  /\ e \in LateEvents \/ \E row \in request : row.event = e
                  /\ UNCHANGED <<queue, late>>
                  /\ Store(Envelope(e), IngestVerdict(events, Envelope(e), policy))
<1>1. CASE Start \/ Stop \/ Append
  BY <1>1 DEF Start, Stop, Append
<1>2. CASE \/ SendBatch \/ AttemptFails \/ AttemptHalts \/ TooLarge \/ Reply \/ Reject
           \/ GarbledReply \/ StorageFails
  BY <1>2 DEF SendBatch, AttemptFails, AttemptHalts, TooLarge, Reply, Reject, GarbledReply,
              StorageFails
<1>3. CASE Forget \/ UNCHANGED vars
  BY <1>3 DEF vars
<1>4. ASSUME NEW row \in request, Ingest(row)
      PROVE  \E e \in Events(queue), policy \in Policies :
                  /\ e \in LateEvents \/ \E r \in request : r.event = e
                  /\ UNCHANGED <<queue, late>>
                  /\ Store(Envelope(e), IngestVerdict(events, Envelope(e), policy))
  <2>1. row.event \in Events(queue)
    BY RequestFacts DEF IInv
  <2> QED
    BY <1>4, <2>1 DEF Ingest, localVars
<1>5. ASSUME NEW envelope \in late, IngestLate(envelope)
      PROVE  \E e \in Events(queue), policy \in Policies :
                  /\ e \in LateEvents \/ \E r \in request : r.event = e
                  /\ UNCHANGED <<queue, late>>
                  /\ Store(Envelope(e), IngestVerdict(events, Envelope(e), policy))
  <2>1. /\ envelope.event \in Events(queue) /\ envelope = Envelope(envelope.event)
        /\ envelope.event \in LateEvents
    BY DEF IInv, Known, LateEvents
  <2>2. \E policy \in Policies :
            Store(Envelope(envelope.event),
                  IngestVerdict(events, Envelope(envelope.event), policy))
    BY <1>5, <2>1 DEF IngestLate
  <2>3. UNCHANGED <<queue, late>>
    BY <1>5 DEF IngestLate, localVars
  <2> QED
    BY <2>1, <2>2, <2>3
<1>6. ASSUME NEW row \in request,
             ApplyReceipt(row) \/ ApplyUnusable(row) \/ ApplyMissing(row) \/ ApplyRefusal(row)
      PROVE  UNCHANGED serviceVars
  BY <1>6 DEF ApplyReceipt, ApplyUnusable, ApplyMissing, ApplyRefusal, Settle
<1> QED
  BY <1>1, <1>2, <1>3, <1>4, <1>5, <1>6 DEF Next, Apply, Serve

\* What the network gets is what was in flight.
LEMMA LateStep ==
    ASSUME [Next]_vars
    PROVE  late' = late \/ late' = late \cup Envelopes(request)
<1>1. CASE Start \/ Append \/ Forget \/ UNCHANGED vars
  BY <1>1 DEF Start, Append, Forget, vars
<1>2. CASE SendBatch \/ TooLarge \/ Reply \/ Reject \/ GarbledReply
  BY <1>2 DEF SendBatch, TooLarge, Reply, Reject, GarbledReply
<1>3. CASE Stop \/ AttemptFails \/ AttemptHalts \/ StorageFails
  BY <1>3 DEF Stop, AttemptFails, AttemptHalts, StorageFails, GiveUp
<1>4. CASE Serve \/ (\E envelope \in late : IngestLate(envelope))
  BY <1>4 DEF Serve, Ingest, IngestLate
<1>5. ASSUME NEW row \in request,
             ApplyReceipt(row) \/ ApplyUnusable(row) \/ ApplyMissing(row) \/ ApplyRefusal(row)
      PROVE  late' = late
  BY <1>5 DEF ApplyReceipt, ApplyUnusable, ApplyMissing, ApplyRefusal, Settle
<1> QED
  BY <1>1, <1>2, <1>3, <1>4, <1>5 DEF Next, Apply

\* No transaction of the service but an acceptance adds to its tables.
LEMMA StoreFacts ==
    ASSUME NEW e, NEW verdict, Store(Envelope(e), verdict)
    PROVE  \/ UNCHANGED serviceVars
           \/ /\ verdict = "accepted"
              /\ events' = events \cup {[event |-> e, signature |-> e.hash]}
              /\ receipts' = receipts \cup {IssuedReceipt(receipts, e)}
  BY EnvelopeFacts DEF Store, EventsAfter, ReceiptsAfter, serviceVars

\* What was known before or is known from now on was durable before the step,
\* with everything below it uploaded.
LEMMA KnownBefore ==
    ASSUME IInv, [Next]_vars
    PROVE  /\ \A stored \in events' :
                  /\ stored = [event |-> stored.event, signature |-> stored.event.hash]
                  /\ stored.event \in Events(queue) /\ BelowUploaded({stored.event})
           /\ \A envelope \in late' :
                  /\ envelope = Envelope(envelope.event)
                  /\ envelope.event \in Events(queue) /\ BelowUploaded({envelope.event})
<1>1. /\ Table(queue) /\ InFlight /\ Known /\ ServedBelow
  BY DEF IInv
<1>2. \A stored \in events :
          /\ stored = [event |-> stored.event, signature |-> stored.event.hash]
          /\ stored.event \in Events(queue) /\ BelowUploaded({stored.event})
  BY <1>1 DEF Known, ServedBelow, BelowUploaded, StoredEvents
<1>3. \A envelope \in late :
          /\ envelope = Envelope(envelope.event)
          /\ envelope.event \in Events(queue) /\ BelowUploaded({envelope.event})
  BY <1>1 DEF Known, ServedBelow, BelowUploaded, LateEvents
<1>4. \A row \in request : row.event \in Events(queue) /\ BelowUploaded({row.event})
  <2> SUFFICES ASSUME NEW row \in request
               PROVE  row.event \in Events(queue) /\ BelowUploaded({row.event})
    OBVIOUS
  <2>1. row \in SelectUploadBatch(queue) /\ row.event \in Events(queue)
    BY <1>1, RequestFacts
  <2>2. Numbered(Events(queue)) /\ Ordered(queue)
    BY <1>1, RowFacts DEF Table
  <2>3. \A x \in queue : Under(x, row) => x.state = "uploaded"
    BY <2>1, <2>2, BelowSelected
  <2> QED
    BY <2>1, <2>3 DEF BelowUploaded, Under
<1>5. \A stored \in events' :
          /\ stored = [event |-> stored.event, signature |-> stored.event.hash]
          /\ stored.event \in Events(queue) /\ BelowUploaded({stored.event})
  <2>1. CASE UNCHANGED serviceVars
    BY <1>2, <2>1 DEF serviceVars
  <2>2. CASE Forget
    <3>1. events' \subseteq events
      BY <2>2 DEF Forget
    <3> QED
      BY <1>2, <3>1
  <2>3. ASSUME NEW e \in Events(queue), NEW policy \in Policies,
               e \in LateEvents \/ \E row \in request : row.event = e,
               Store(Envelope(e), IngestVerdict(events, Envelope(e), policy)),
               NEW stored \in events'
        PROVE  /\ stored = [event |-> stored.event, signature |-> stored.event.hash]
               /\ stored.event \in Events(queue) /\ BelowUploaded({stored.event})
    <3>1. stored \in events \/ stored = [event |-> e, signature |-> e.hash]
      BY <2>3, StoreFacts DEF serviceVars
    <3>2. BelowUploaded({e})
      BY <2>3, <1>3, <1>4 DEF LateEvents
    <3>3. CASE stored \in events
      BY <1>2, <3>3
    <3>4. CASE stored = [event |-> e, signature |-> e.hash]
      <4>1. stored.event = e
        BY <3>4
      <4> QED
        BY <3>2, <3>4, <4>1
    <3> QED
      BY <3>1, <3>3, <3>4
  <2> QED
    BY <2>1, <2>2, <2>3, ServiceStep
<1>6. \A envelope \in late' :
          /\ envelope = Envelope(envelope.event)
          /\ envelope.event \in Events(queue) /\ BelowUploaded({envelope.event})
  <2> SUFFICES ASSUME NEW envelope \in late'
               PROVE  /\ envelope = Envelope(envelope.event)
                      /\ envelope.event \in Events(queue) /\ BelowUploaded({envelope.event})
    OBVIOUS
  <2>1. CASE envelope \in late
    BY <1>3, <2>1
  <2>2. CASE \E row \in request : envelope = Envelope(row.event)
    <3>1. PICK row \in request : envelope = Envelope(row.event)
      BY <2>2
    <3>2. envelope.event = row.event
      BY <3>1, EnvelopeFacts
    <3> QED
      BY <1>4, <3>1, <3>2
  <2> QED
    BY <2>1, <2>2, LateStep DEF Envelopes
<1> QED
  BY <1>5, <1>6

\* A step leaves everything below a durable event uploaded.
LEMMA BelowStays ==
    ASSUME IInv, [Next]_vars, NEW e \in Events(queue), BelowUploaded({e})
    PROVE  \A y \in queue' :
               y.event.runtime = e.runtime /\ y.event.sequence < e.sequence
               => y.state = "uploaded"
<1> SUFFICES ASSUME NEW y \in queue', y.event.runtime = e.runtime,
                    y.event.sequence < e.sequence
             PROVE  y.state = "uploaded"
  OBVIOUS
<1>1. Typed /\ Table(queue) /\ Shape /\ Blocking /\ InFlight
  BY DEF IInv
<1>2. CASE Append /\ y.event = NextEvent
  <2>1. e.sequence < y.event.sequence
    BY <1>1, <1>2, NextEventFacts
  <2>2. e.sequence \in Nat /\ y.event.sequence \in Nat
    BY <1>1, <1>2, NextEventFacts, RowFacts, EventFacts
  <2> QED
    BY <2>1, <2>2
<1>3. CASE \E x \in queue : x.event = y.event
  <2>1. PICK x \in queue : x.event = y.event
    BY <1>3
  <2>2. x.state = "uploaded"
    BY <2>1 DEF BelowUploaded
  <2>3. x \in queue' /\ Unique(queue')
    BY <1>1, <2>2, TableStep DEF Table
  <2>4. x = y
    BY <2>1, <2>3 DEF Unique
  <2> QED
    BY <2>2, <2>4
<1> QED
  BY <1>1, <1>2, <1>3, TableStep

\* The service and the network know durable events only, and everything below
\* them is uploaded.
LEMMA KnownStep ==
    ASSUME IInv, [Next]_vars
    PROVE  Known' /\ ServedBelow'
<1>1. Events(queue) \subseteq Events(queue')
  BY TableStep DEF IInv
<1>2. Known'
  BY <1>1, KnownBefore DEF Known
<1>3. ASSUME NEW stored \in events', NEW y \in queue',
             y.event.runtime = stored.event.runtime, y.event.sequence < stored.event.sequence
      PROVE  y.state = "uploaded"
  BY <1>3, KnownBefore, BelowStays
<1>4. ASSUME NEW envelope \in late', NEW y \in queue',
             y.event.runtime = envelope.event.runtime, y.event.sequence < envelope.event.sequence
      PROVE  y.state = "uploaded"
  BY <1>4, KnownBefore, BelowStays
<1>5. BelowUploaded(StoredEvents(events))'
  BY <1>3 DEF BelowUploaded, StoredEvents
<1>6. BelowUploaded(LateEvents)'
  BY <1>4 DEF BelowUploaded, LateEvents
<1> QED
  BY <1>2, <1>5, <1>6 DEF ServedBelow

\* The two tables stay in step.
LEMMA TablesStep ==
    ASSUME IInv, [Next]_vars
    PROVE  TablesMatch'
<1> HIDE DEF AllEvents, Ids
<1>1. /\ Table(queue) /\ Known /\ TablesMatch
  BY DEF IInv
<1>2. CASE UNCHANGED serviceVars
  BY <1>1, <1>2 DEF TablesMatch, serviceVars
<1>3. CASE Forget
  <2>1. PICK kept \in SUBSET events :
            /\ events' = kept
            /\ receipts' = {r \in receipts : \E stored \in kept : stored.event.id = r[1]}
    BY <1>3 DEF Forget
  <2>2. IsFiniteSet(receipts')
    BY <1>1, <2>1, FS_Subset DEF TablesMatch
  <2> QED
    BY <1>1, <2>1, <2>2 DEF TablesMatch
<1>4. ASSUME NEW e \in Events(queue), NEW policy \in Policies,
             Store(Envelope(e), IngestVerdict(events, Envelope(e), policy))
      PROVE  TablesMatch'
  <2> DEFINE verdict == IngestVerdict(events, Envelope(e), policy)
             receipt == IssuedReceipt(receipts, e)
             stored == [event |-> e, signature |-> e.hash]
  <2>0. e \in AllEvents
    BY <1>1, RowFacts
  <2>1. CASE UNCHANGED serviceVars
    BY <1>2, <2>1
  <2>2. CASE /\ verdict = "accepted"
             /\ events' = events \cup {stored} /\ receipts' = receipts \cup {receipt}
    <3>1. \A other \in events : other.event.id # e.id
      BY <1>1, <2>0, <2>2, VerdictFacts
    <3>2. receipt \in Ids \X Ids \X Nat /\ receipt[1] = e.id
      <4>1. Cardinality(receipts) \in Nat
        BY <1>1, FS_CardinalityType DEF TablesMatch
      <4>2. e.id \in Ids /\ e.hash \in Ids
        BY <2>0, EventFacts
      <4> QED
        BY <4>1, <4>2 DEF IssuedReceipt
    <3>3. stored.event = e
      OBVIOUS
    <3> HIDE DEF verdict, receipt, stored
    <3>4. IsFiniteSet(receipts')
      BY <1>1, <2>2, FS_AddElement DEF TablesMatch
    <3>5. receipts' \subseteq Ids \X Ids \X Nat
      BY <1>1, <2>2, <3>2 DEF TablesMatch
    <3>6. \A r \in receipts : r[1] # e.id
      BY <1>1, <3>1 DEF TablesMatch
    <3>7. \A r, s \in receipts' : r[1] = s[1] => r = s
      BY <1>1, <2>2, <3>2, <3>6 DEF TablesMatch
    <3>8. \A x \in events' : \E r \in receipts' : r[1] = x.event.id
      BY <1>1, <2>2, <3>2, <3>3 DEF TablesMatch
    <3>9. \A r \in receipts' : \E x \in events' : r[1] = x.event.id
      BY <1>1, <2>2, <3>2, <3>3 DEF TablesMatch
    <3> QED
      BY <3>4, <3>5, <3>7, <3>8, <3>9 DEF TablesMatch
  <2> QED
    BY <1>4, <2>1, <2>2, StoreFacts
<1> QED
  BY <1>2, <1>3, <1>4, ServiceStep

\* Where an answer comes from: it was there, the service has just given it, or
\* something has answered in its place or refused the request as a whole.
LEMMA AnswerStep ==
    ASSUME IInv, [Next]_vars, NEW id \in DOMAIN answer'
    PROVE  \/ id \in DOMAIN answer /\ answer'[id] = answer[id]
           \/ \E row \in request, policy \in Policies :
                  LET verdict == IngestVerdict(events, Envelope(row.event), policy)
                  IN  /\ answer'[id].status = verdict
                      /\ answer'[id].receipt =
                             AnsweredReceipt(receipts, Envelope(row.event), verdict)
                      /\ receipts' = ReceiptsAfter(receipts, Envelope(row.event), verdict)
                      /\ verdict = policy /\ row.event \notin StoredEvents(events)
                         => id \in refused'
           \/ /\ answer'[id].status \in {"accepted", "missing_previous"} \/ id \in refused'
              /\ answer'[id].receipt \in receipts \cup {NoReceipt}
              /\ receipts' = receipts
<1>1. CASE \/ Start \/ Append \/ SendBatch \/ TooLarge \/ Reply \/ Forget
           \/ (\E envelope \in late : IngestLate(envelope)) \/ UNCHANGED vars
  BY <1>1 DEF Start, Append, SendBatch, TooLarge, Reply, Forget, IngestLate, vars
<1>2. CASE Stop \/ AttemptFails \/ AttemptHalts \/ StorageFails
  <2>1. answer' = << >>
    BY <1>2 DEF Stop, AttemptFails, AttemptHalts, StorageFails, GiveUp
  <2> QED
    BY <2>1
<1>3. ASSUME NEW row \in request, Ingest(row)
      PROVE  \/ id \in DOMAIN answer /\ answer'[id] = answer[id]
             \/ \E policy \in Policies :
                  LET verdict == IngestVerdict(events, Envelope(row.event), policy)
                  IN  /\ answer'[id].status = verdict
                      /\ answer'[id].receipt =
                             AnsweredReceipt(receipts, Envelope(row.event), verdict)
                      /\ receipts' = ReceiptsAfter(receipts, Envelope(row.event), verdict)
                      /\ verdict = policy /\ row.event \notin StoredEvents(events)
                         => id \in refused'
  <2>1. PICK policy \in Policies :
           LET envelope == Envelope(row.event)
               verdict == IngestVerdict(events, envelope, policy)
           IN  /\ receipts' = ReceiptsAfter(receipts, envelope, verdict)
               /\ answer' = [i \in DOMAIN answer \cup {row.event.id} |->
                   IF i = row.event.id
                     THEN [status  |-> verdict,
                           receipt |-> AnsweredReceipt(receipts, envelope, verdict)]
                     ELSE answer[i]]
               /\ refused' = IF verdict = policy /\ row.event \notin StoredEvents(events)
                               THEN refused \cup {row.event.id} ELSE refused
    BY <1>3 DEF Ingest, Store
  <2> DEFINE verdict == IngestVerdict(events, Envelope(row.event), policy)
             receipt == AnsweredReceipt(receipts, Envelope(row.event), verdict)
  <2>2. /\ receipts' = ReceiptsAfter(receipts, Envelope(row.event), verdict)
        /\ answer' = [i \in DOMAIN answer \cup {row.event.id} |->
                         IF i = row.event.id THEN [status |-> verdict, receipt |-> receipt]
                         ELSE answer[i]]
        /\ verdict = policy /\ row.event \notin StoredEvents(events)
           => row.event.id \in refused'
    BY <2>1
  <2>3. \/ id \in DOMAIN answer /\ answer'[id] = answer[id]
        \/ id = row.event.id /\ answer'[id].status = verdict /\ answer'[id].receipt = receipt
    <3> HIDE DEF verdict, receipt
    <3> QED
      BY <2>2
  <2> QED
    BY <2>2, <2>3
<1>4. CASE GarbledReply
  <2>1. /\ answer' \in [IdsOf(request) -> Garbage] /\ receipts' = receipts
        /\ refused' = refused \cup {i \in IdsOf(request) : answer'[i].status = "conflict"}
    BY <1>4 DEF GarbledReply, serviceVars
  <2>2. id \in IdsOf(request) /\ answer'[id] \in Garbage
    BY <2>1
  <2>3. /\ answer'[id].status \in {"accepted", "missing_previous", "conflict"}
        /\ answer'[id].receipt \in receipts \cup {NoReceipt}
    BY <2>2, GarbageFacts
  <2> QED
    BY <2>1, <2>2, <2>3
<1>5. ASSUME NEW row \in request,
             ApplyReceipt(row) \/ ApplyUnusable(row) \/ ApplyMissing(row) \/ ApplyRefusal(row)
      PROVE  id \in DOMAIN answer /\ answer'[id] = answer[id]
  <2>1. answer' = [i \in DOMAIN answer \ {row.event.id} |-> answer[i]]
    BY <1>5 DEF ApplyReceipt, ApplyUnusable, ApplyMissing, ApplyRefusal, Settle
  <2> QED
    BY <2>1
<1>6. CASE Reject
  <2>1. /\ DOMAIN answer' = IdsOf(request) /\ answer'[id].receipt = NoReceipt
        /\ receipts' = receipts /\ refused' = refused \cup IdsOf(request)
    BY <1>6 DEF Reject, serviceVars
  <2> QED
    BY <2>1
<1> QED
  BY <1>1, <1>2, <1>3, <1>4, <1>5, <1>6 DEF Next, Apply, Serve

\* A service that forgets nothing keeps its receipts, and answers with them.
LEMMA ReceiptsStep ==
    ASSUME IInv, [Next]_vars
    PROVE  ReceiptsKept'
<1> SUFFICES ASSUME "forget" \notin faults
             PROVE  /\ \A id \in DOMAIN answer' :
                           answer'[id].receipt # NoReceipt => answer'[id].receipt \in receipts'
                    /\ \A row \in queue' : row.state = "uploaded" =>
                           row.receipt \in receipts' /\ row.receipt[1] = row.event.id
  BY LifeStep DEF ReceiptsKept
<1>0. /\ Typed /\ Table(queue) /\ Shape /\ Blocking /\ InFlight /\ Known /\ TablesMatch
      /\ ReceiptsKept
  BY DEF IInv
<1>1. receipts \subseteq receipts'
  <2>1. ~ Forget
    BY DEF Forget
  <2>2. ASSUME NEW e, NEW verdict, Store(Envelope(e), verdict)
        PROVE  receipts \subseteq receipts'
    BY <2>2, StoreFacts DEF serviceVars
  <2> QED
    BY <2>1, <2>2, ServiceStep DEF serviceVars
<1>2. ASSUME NEW id \in DOMAIN answer', answer'[id].receipt # NoReceipt
      PROVE  answer'[id].receipt \in receipts'
  <2>1. CASE id \in DOMAIN answer /\ answer'[id] = answer[id]
    BY <1>0, <1>1, <1>2, <2>1 DEF ReceiptsKept
  <2>2. ASSUME NEW row \in request, NEW policy \in Policies,
               LET verdict == IngestVerdict(events, Envelope(row.event), policy)
               IN  /\ answer'[id].receipt =
                             AnsweredReceipt(receipts, Envelope(row.event), verdict)
                   /\ receipts' = ReceiptsAfter(receipts, Envelope(row.event), verdict)
        PROVE  answer'[id].receipt \in receipts'
    <3>1. row.event \in AllEvents
      BY <1>0, RequestFacts
    <3> QED
      BY <1>0, <1>2, <2>2, <3>1, AnsweredFacts
  <2>3. CASE answer'[id].receipt \in receipts \cup {NoReceipt} /\ receipts' = receipts
    BY <1>2, <2>3
  <2> QED
    BY <2>1, <2>2, <2>3, AnswerStep
<1>3. ASSUME NEW y \in queue', y.state = "uploaded"
      PROVE  y.receipt \in receipts' /\ y.receipt[1] = y.event.id
  <2>1. CASE y \in queue
    BY <1>0, <1>1, <1>3, <2>1 DEF ReceiptsKept
  <2>2. ASSUME NEW row \in request, ApplyReceipt(row), y.event = row.event,
               y.receipt = answer[row.event.id].receipt
        PROVE  y.receipt \in receipts' /\ y.receipt[1] = y.event.id
    <3>1. /\ upload = "answered"
          /\ y.receipt # NoReceipt /\ y.receipt[1] = row.event.id
      BY <2>2 DEF ApplyReceipt, Binds
    <3>2. row.event.id \in DOMAIN answer
      BY <1>0, <3>1 DEF InFlight, IdsOf
    <3>3. y.receipt \in receipts
      BY <1>0, <2>2, <3>1, <3>2 DEF ReceiptsKept
    <3> QED
      BY <1>1, <2>2, <3>1, <3>3
  <2> QED
    BY <1>0, <1>3, <2>1, <2>2, TableStep
<1> QED
  BY <1>2, <1>3

\* A row is failed for a refusal that is remembered, and those above it with it.
LEMMA HonestStep ==
    ASSUME IInv, [Next]_vars
    PROVE  Honest'
<1>0. /\ Typed /\ Table(queue) /\ Shape /\ Blocking /\ InFlight /\ Known /\ Honest
      /\ refused \subseteq refused'
  BY RefusedStep DEF IInv
<1>1. ASSUME NEW e \in FailedEvents(queue')
      PROVE  \E id \in refused' : id[1] = e.runtime /\ id[2] <= e.sequence
  <2>1. CASE e \in FailedEvents(queue)
    BY <1>0, <2>1 DEF Honest
  <2>2. ASSUME NEW row \in request, ApplyRefusal(row), e \in From(queue, row)
        PROVE  \E id \in refused' : id[1] = e.runtime /\ id[2] <= e.sequence
    <3>1. /\ upload = "answered" /\ ~ Succeeded(row)
          /\ answer[row.event.id].status # "missing_previous"
      BY <2>2 DEF ApplyRefusal
    <3>2. row.event.id \in DOMAIN answer
      BY <1>0, <3>1 DEF InFlight, IdsOf
    <3>3. row.event.id \in refused'
      BY <1>0, <3>1, <3>2 DEF Honest, Succeeded
    <3>4. /\ row.event \in AllEvents /\ e \in AllEvents /\ e.runtime = row.event.runtime
          /\ e = row.event \/ row.event.sequence < e.sequence
      BY <1>0, <2>2, RequestFacts, RowFacts DEF From, Under
    <3>5. /\ row.event.id[1] = row.event.runtime /\ row.event.id[2] = row.event.sequence
          /\ row.event.sequence \in Nat /\ e.sequence \in Nat
      BY <3>4, EventFacts
    <3>6. row.event.sequence <= e.sequence
      BY <3>4, <3>5
    <3> QED
      BY <3>3, <3>4, <3>5, <3>6
  <2> QED
    BY <1>0, <2>1, <2>2, TableStep
<1>2. ASSUME NEW id \in DOMAIN answer'
      PROVE  \/ answer'[id].status \in {"accepted", "duplicate", "missing_previous"}
             \/ id \in refused'
  <2>1. CASE id \in DOMAIN answer /\ answer'[id] = answer[id]
    BY <1>0, <2>1 DEF Honest
  <2>2. ASSUME NEW row \in request, NEW policy \in Policies,
               LET verdict == IngestVerdict(events, Envelope(row.event), policy)
               IN  /\ answer'[id].status = verdict
                   /\ verdict = policy /\ row.event \notin StoredEvents(events)
                      => id \in refused'
        PROVE  \/ answer'[id].status \in {"accepted", "duplicate", "missing_previous"}
               \/ id \in refused'
    <3>1. row.event \in AllEvents
      BY <1>0, RequestFacts
    <3> QED
      BY <1>0, <2>2, <3>1, VerdictFacts
  <2>3. CASE answer'[id].status \in {"accepted", "missing_previous"} \/ id \in refused'
    BY <2>3
  <2> QED
    BY <2>1, <2>2, <2>3, AnswerStep
<1> QED
  BY <1>1, <1>2 DEF Honest
-----------------------------------------------------------------------------
(* The invariant, and what follows from it. *)

\* The empty directory and the empty service satisfy it.
LEMMA InvariantInit == Init => IInv
<1> SUFFICES ASSUME Init PROVE IInv
  OBVIOUS
<1>0. /\ queue = {} /\ request = {} /\ answer = << >> /\ late = {} /\ events = {}
      /\ receipts = {} /\ runtimes = 0 /\ running = FALSE /\ blocked = FALSE
      /\ upload = "off" /\ faults \in Scenarios /\ refused = {}
  BY DEF Init
<1>1. /\ Events(queue) = {} /\ FailedEvents(queue) = {} /\ IdsOf(request) = {}
      /\ LateEvents = {} /\ StoredEvents(events) = {} /\ IsFiniteSet({}) /\ DOMAIN answer = {}
  <2>1. {r \in queue : r.state = "failed_permanent"} = {}
    BY <1>0
  <2> QED
    BY <1>0, <2>1, FS_EmptySet DEF Events, FailedEvents, LateEvents, StoredEvents, IdsOf
<1>2. Typed
  <2>1. runtimes \in 0..MaxRuntimes
    BY <1>0, DeliveryAssumption
  <2>2. running \in BOOLEAN /\ blocked \in BOOLEAN /\ (~ running => upload = "off")
    BY <1>0
  <2>3. /\ upload \in {"off", "idle", "sent", "answered", "halted"}
        /\ upload \in {"sent", "answered"} <=> request # {}
    BY <1>0
  <2>4. DOMAIN answer \subseteq Ids /\ \A id \in DOMAIN answer : answer[id].receipt \in Receipts
    BY <1>1
  <2> QED
    BY <1>0, <2>1, <2>2, <2>3, <2>4, Zenon DEF Typed
<1>3. Table(queue) /\ Shape
  BY <1>0, <1>1 DEF Table, Unique, Ordered, NoRestart, Receipted, Shape, Started, Dense, Topped
<1>4. Blocking /\ InFlight /\ Known /\ ServedBelow
  BY <1>0, <1>1 DEF Blocking, InFlight, Known, ServedBelow, BelowUploaded
<1>5. TablesMatch /\ ReceiptsKept /\ Honest
  BY <1>0, <1>1 DEF TablesMatch, ReceiptsKept, Honest
<1> QED
  BY <1>2, <1>3, <1>4, <1>5 DEF IInv

\* Every step preserves it.
LEMMA InvariantStep == IInv /\ [Next]_vars => IInv'
<1> SUFFICES ASSUME IInv, [Next]_vars PROVE IInv'
  OBVIOUS
<1>1. Typed /\ Table(queue) /\ Shape /\ Blocking /\ InFlight
  BY DEF IInv
<1>2. Table(queue') /\ Shape' /\ Blocking'
  BY <1>1, TableStep, ShapeStep, BlockingStep
<1>3. Typed' /\ InFlight'
  BY <1>1, LifeTyped, AttemptStep, RefusedStep DEF Typed, AttemptTyped
<1>4. Known' /\ ServedBelow' /\ TablesMatch' /\ ReceiptsKept' /\ Honest'
  BY KnownStep, TablesStep, ReceiptsStep, HonestStep
<1> QED
  BY <1>2, <1>3, <1>4 DEF IInv

\* The inductive invariant of the delivery: uploader.py, queue.py and _ingest
\* together, with what the network still holds.
THEOREM Invariant == Spec => []IInv
  BY InvariantInit, InvariantStep, PTL DEF Spec

\* Types, and a request of at most one row per runtime (select_upload_batch).
THEOREM TypesHold == Spec => []TypeOK
<1>1. IInv => TypeOK
  <2> SUFFICES ASSUME IInv PROVE TypeOK
    OBVIOUS
  <2>1. \A row \in queue : /\ row.event.id = <<row.event.runtime, row.event.sequence>>
                           /\ row.event.id \in Ids /\ row.state \in RowStates
                           /\ row.state = "uploaded" <=> row.receipt # NoReceipt
    BY RowFacts, EventFacts DEF IInv, Table, Receipted
  <2>2. \A row, other \in request : row.event.runtime = other.event.runtime => row = other
    BY RowFacts, RequestFacts, OnePerRuntime DEF IInv, Table
  <2>3. late \subseteq {Envelope(event) : event \in Events(queue)}
    BY DEF IInv, Known
  <2> QED
    BY <2>1, <2>2, <2>3 DEF IInv, Typed, TypeOK
<1> QED
  BY <1>1, Invariant, PTL

\* A service that forgets nothing holds what is uploaded.
LEMMA UploadedIsStored ==
    ASSUME IInv, "forget" \notin faults, NEW row \in queue, row.state = "uploaded"
    PROVE  row.receipt \in receipts /\ row.event \in StoredEvents(events)
<1>1. row.receipt \in receipts /\ row.receipt[1] = row.event.id
  BY DEF IInv, ReceiptsKept
<1>2. PICK stored \in events : stored.event.id = row.event.id
  BY <1>1 DEF IInv, TablesMatch
<1>3. stored.event \in AllEvents /\ row.event \in AllEvents
  BY RowFacts DEF IInv, Known
<1>4. stored.event = row.event
  BY <1>2, <1>3, EventsApart
<1> QED
  BY <1>1, <1>4 DEF StoredEvents

\* _apply_result and _receipt_binds: an uploaded row has the service's one and
\* original receipt for the very event, and the service holds that event.
THEOREM UploadedServed == Spec => []UploadedIsServed
<1>1. IInv => UploadedIsServed
  <2> SUFFICES ASSUME IInv, "forget" \notin faults, NEW row \in queue, row.state = "uploaded"
               PROVE  /\ row.event \in StoredEvents(events)
                      /\ ReceiptsFor(receipts, row.event.id) = {row.receipt}
    BY DEF UploadedIsServed
  <2>1. row.receipt \in receipts /\ row.receipt[1] = row.event.id
    BY DEF IInv, ReceiptsKept
  <2>2. ReceiptsFor(receipts, row.event.id) = {row.receipt}
    BY <2>1 DEF IInv, TablesMatch, ReceiptsFor
  <2> QED
    BY <2>2, UploadedIsStored
<1> QED
  BY <1>1, Invariant, PTL

\* select_upload_batch: what the service stores of a runtime is at most one event
\* ahead of what is acknowledged, whatever the network still holds.
THEOREM OneAhead == Spec => []ServiceAtMostOneAhead
<1>1. IInv => ServiceAtMostOneAhead
  BY DEF IInv, ServedBelow, BelowUploaded, StoredEvents, ServiceAtMostOneAhead
<1> QED
  BY <1>1, Invariant, PTL

\* A set of numbers has a least one.
LEMMA LeastNumber ==
    ASSUME NEW T, T \subseteq Nat, T # {}
    PROVE  \E n \in T : \A m \in T : n <= m
<1> DEFINE R == OpToRel(<, Nat)
<1>1. IsWellFoundedOn(R, Nat)
  BY NatLessThanWellFounded
<1>2. \A x, y \in Nat : <<x, y>> \in R <=> x < y
  BY DEF OpToRel
<1> HIDE DEF R
<1>3. \E n \in T : \A m \in T : ~ (<<m, n>> \in R)
  BY <1>1, WFMin
<1>4. PICK n \in T : \A m \in T : ~ (<<m, n>> \in R)
  BY <1>3
<1>5. ASSUME NEW m \in T PROVE n <= m
  <2>1. m \in Nat /\ n \in Nat
    OBVIOUS
  <2>2. ~ (m < n)
    BY <1>2, <1>4, <2>1, Zenon
  <2> QED
    BY <2>1, <2>2
<1> QED
  BY <1>5

\* A runtime with an unresolved row has a selected one.
LEMMA LowestSelected ==
    ASSUME Table(queue), NEW row \in queue, row.state \in Unresolved
    PROVE  \E next \in SelectUploadBatch(queue) : next.event.runtime = row.event.runtime
<1> DEFINE waiting == {x \in RowsOf(queue, row.event.runtime) : x.state \in Unresolved}
           T == {x.event.sequence : x \in waiting}
<1>0. /\ Numbered(Events(queue)) /\ Unique(queue) /\ Ordered(queue) /\ NoRestart(queue)
  BY RowFacts DEF Table
<1>1. T \subseteq Nat /\ T # {}
  BY <1>0 DEF Numbered, Events, RowsOf
<1> HIDE DEF T
<1>2. PICK n \in T : \A m \in T : n <= m
  BY <1>1, LeastNumber
<1>3. PICK next \in waiting : next.event.sequence = n
  BY DEF T
<1>4. \A x \in waiting : next.event.sequence <= x.event.sequence
  BY <1>2, <1>3 DEF T
<1>5. next \in queue /\ next.state \in Unresolved /\ next.event.runtime = row.event.runtime
  BY DEF RowsOf
<1>6. ~ Stuck(queue, next.event.runtime)
  BY <1>0, <1>5, UnresolvedCanProgress
<1>7. next \in SelectUploadBatch(queue)
  BY <1>4, <1>5, <1>6 DEF SelectUploadBatch
<1> QED
  BY <1>5, <1>7

\* Below a selected row the service that forgets nothing has the predecessor.
LEMMA SelectedIsNext ==
    ASSUME IInv, "forget" \notin faults, NEW next \in SelectUploadBatch(queue)
    PROVE  ~ MissesPrevious(events, next.event)
<1> DEFINE e == next.event
<1>0. /\ Numbered(Events(queue)) /\ Ordered(queue) /\ next \in queue
      /\ e \in AllEvents /\ e \in Events(queue)
  BY RowFacts DEF IInv, Table, SelectUploadBatch
<1>1. e.sequence \in Nat
  BY <1>0, EventFacts
<1>2. CASE e.sequence > 1
  <2>1. e.sequence - 1 \in 1..e.sequence /\ e.sequence - 1 < e.sequence
    BY <1>1, <1>2
  <2>2. PICK b \in Events(queue) : b.runtime = e.runtime /\ b.sequence = e.sequence - 1
    BY <1>0, <2>1 DEF IInv, Shape, Dense
  <2>3. PICK x \in queue : x.event = b
    BY DEF Events
  <2>4. Under(x, next)
    BY <2>1, <2>2, <2>3 DEF Under
  <2>5. x.state = "uploaded"
    BY <1>0, <2>4, BelowSelected
  <2>6. b \in StoredEvents(events)
    BY <2>3, <2>5, UploadedIsStored
  <2> QED
    BY <2>2, <2>6 DEF MissesPrevious, Predecessors
<1> QED
  BY <1>2 DEF MissesPrevious

\* select_upload_batch, mark_permanent and _ingest: of a runtime with something
\* unresolved one event would be sent now, and would be taken.
THEOREM NothingStuck == Spec => []NothingWaitsForever
<1>1. IInv => NothingWaitsForever
  <2> SUFFICES ASSUME IInv, "forget" \notin faults, NEW row \in queue, row.state \in Unresolved
               PROVE  \E next \in SelectUploadBatch(queue) :
                          /\ next.event.runtime = row.event.runtime
                          /\ IngestVerdict(events, Envelope(next.event), "pass") \in
                                 {"accepted", "duplicate"}
    BY DEF NothingWaitsForever
  <2>0. Table(queue) /\ Known
    BY DEF IInv
  <2>1. PICK next \in SelectUploadBatch(queue) : next.event.runtime = row.event.runtime
    BY <2>0, LowestSelected
  <2>2. next.event \in AllEvents /\ "pass" \in Policies
    BY <2>0, RowFacts DEF SelectUploadBatch, Policies
  <2> DEFINE verdict == IngestVerdict(events, Envelope(next.event), "pass")
  <2>3. /\ verdict \in {"accepted", "duplicate", "missing_previous"}
        /\ verdict = "missing_previous" => MissesPrevious(events, next.event)
    BY <2>0, <2>2, VerdictFacts
  <2> QED
    BY <2>1, <2>3, SelectedIsNext
<1> QED
  BY <1>1, Invariant, PTL

\* _apply_result, _handle_missing_previous and _ingest: no event is given up but
\* for a refusal of its own or of one below it.
THEOREM CauseHolds == Spec => []GivenUpForCause
<1>1. IInv => GivenUpForCause
  BY DEF IInv, Honest, FailedEvents, GivenUpForCause
<1> QED
  BY <1>1, Invariant, PTL
-----------------------------------------------------------------------------
(* The refinement of AuditLog. *)

\* An append is a growth of the abstract log.
LEMMA AppendGrows == ASSUME IInv, Append PROVE Log!Grow
<1> DEFINE n == NextEvent
<1>0. Typed /\ Table(queue) /\ Shape /\ Blocking
  BY DEF IInv
<1>1. /\ Events(queue') = Events(queue) \cup {n}
      /\ UploadedEvents(queue') = UploadedEvents(queue)
      /\ FailedEvents(queue') = FailedEvents(queue)
  BY <1>0, AppendTable
<1>2. /\ n \in AllEvents /\ n.runtime = runtimes
      /\ \A e \in Events(queue) : /\ e.id # n.id
                                  /\ e.runtime = runtimes => e.sequence < n.sequence
      /\ \/ n.sequence = 1
         \/ \E e \in Events(queue) :
                e.runtime = runtimes /\ e.sequence = n.sequence - 1 /\ e.hash = n.prev
  BY <1>0, NextEventFacts
<1>3. n.sequence = 1 => n.prev = NoHash
  BY <1>2, EventFacts
<1>4. n \in Events(queue') \ Events(queue)
  BY <1>1, <1>2
<1>5. \A e \in FailedEvents(queue) : e.runtime # n.runtime
  <2>1. ~ blocked
    BY DEF Append
  <2> QED
    BY <1>0, <1>2, <2>1 DEF Blocking
<1> HIDE DEF n
<1>6. Log!Extends(n)
  BY <1>2, <1>3 DEF Log!Extends, Log!SameRuntime
<1>7. Log!SameRuntime(n) \cap FailedEvents(queue) = {}
  BY <1>5 DEF Log!SameRuntime
<1> QED
  BY <1>1, <1>4, <1>6, <1>7 DEF Log!Grow, UploadedEvents, FailedEvents

\* A row in flight is neither uploaded nor failed, and all below it is uploaded.
LEMMA InFlightIsNext ==
    ASSUME IInv, NEW row \in request
    PROVE  /\ row.event \in Events(queue) \ (UploadedEvents(queue) \cup FailedEvents(queue))
           /\ Log!Below(row.event) \subseteq UploadedEvents(queue)
<1>0. /\ row \in queue /\ row \in SelectUploadBatch(queue) /\ row.state \in Unresolved
      /\ row.event \in Events(queue) /\ Numbered(Events(queue))
      /\ Unique(queue) /\ Ordered(queue)
  BY RequestFacts, RowFacts DEF IInv, Table
<1>1. \A x \in queue : x.event = row.event => x = row
  BY <1>0 DEF Unique
<1>2. row.event \notin UploadedEvents(queue) /\ row.event \notin FailedEvents(queue)
  BY <1>0, <1>1 DEF UploadedEvents, FailedEvents, Unresolved
<1>3. \A x \in queue : Under(x, row) => x.state = "uploaded"
  BY <1>0, BelowSelected
<1>4. Log!Below(row.event) \subseteq UploadedEvents(queue)
  BY <1>3 DEF Log!Below, Log!SameRuntime, Events, UploadedEvents, Under
<1> QED
  BY <1>0, <1>2, <1>4

\* A usable receipt is an acknowledgement.
LEMMA ReceiptAcknowledges ==
    ASSUME IInv, NEW row \in request, ApplyReceipt(row)
    PROVE  Log!Acknowledge(row.event)
<1> DEFINE receipt == answer[row.event.id].receipt
<1>0. Typed /\ Table(queue) /\ InFlight
  BY DEF IInv
<1>1. /\ upload = "answered" /\ Binds(receipt, row.event)
      /\ queue' = Acknowledge(queue, row.event.id, receipt)
  BY DEF ApplyReceipt
<1>2. receipt # NoReceipt
  BY <1>1 DEF Binds
<1>3. receipt \in Receipts
  BY <1>0, <1>1 DEF InFlight, IdsOf, Typed
<1> HIDE DEF receipt
<1>4. /\ Events(queue') = Events(queue)
      /\ UploadedEvents(queue') = UploadedEvents(queue) \cup {row.event}
      /\ FailedEvents(queue') = FailedEvents(queue)
  BY <1>0, <1>1, <1>2, <1>3, AcceptTable
<1> QED
  BY <1>4, InFlightIsNext DEF Log!Acknowledge, UploadedEvents, FailedEvents

\* A refusal condemns the event with everything above it.
LEMMA RefusalCondemns ==
    ASSUME IInv, NEW row \in request, ApplyRefusal(row)
    PROVE  Log!Condemn(row.event)
<1>0. Table(queue) /\ InFlight
  BY DEF IInv
<1>1. queue' = MarkPermanent(queue, row.event)
  BY DEF ApplyRefusal
<1>2. /\ Events(queue') = Events(queue)
      /\ UploadedEvents(queue') = UploadedEvents(queue)
      /\ FailedEvents(queue') = FailedEvents(queue) \cup From(queue, row)
  BY <1>0, <1>1, RefuseTable
<1>3. From(queue, row) = Log!SameRuntime(row.event) \ Log!Below(row.event)
  <2>1. row \in queue /\ Unique(queue) /\ Numbered(Events(queue)) /\ row.event \in Events(queue)
    BY <1>0, RequestFacts, RowFacts DEF Table
  <2>2. \A x \in queue : x.event.sequence \in Nat /\ row.event.sequence \in Nat
    BY <2>1 DEF Numbered, Events
  <2>3. \A x \in queue :
            x = row \/ Under(row, x) <=>
                /\ x.event.runtime = row.event.runtime
                /\ ~ (x.event.sequence < row.event.sequence)
    BY <2>1, <2>2 DEF Under, Unique
  <2>4. Log!SameRuntime(row.event) \ Log!Below(row.event) =
            {e \in Events(queue) : /\ e.runtime = row.event.runtime
                                   /\ ~ (e.sequence < row.event.sequence)}
    BY DEF Log!SameRuntime, Log!Below
  <2> QED
    BY <2>3, <2>4 DEF From, Events
<1> QED
  BY <1>2, <1>3, InFlightIsNext DEF Log!Condemn, UploadedEvents, FailedEvents

\* Every step is one of these, or changes nothing the abstract log shows.
LEMMA LogStep == IInv /\ [Next]_vars => [Log!Next]_(Log!vars)
<1> SUFFICES ASSUME IInv, [Next]_vars PROVE [Log!Next]_(Log!vars)
  OBVIOUS
<1>0. Table(queue) /\ Shape /\ InFlight
  BY DEF IInv
<1>1. CASE queue' = queue
  BY <1>1 DEF Log!vars
<1>2. CASE Append
  BY <1>2, AppendGrows DEF Log!Next
<1>3. CASE \E ids : queue' = MarkRetryable(queue, ids, FALSE)
  <2>1. /\ Events(queue') = Events(queue)
        /\ UploadedEvents(queue') = UploadedEvents(queue)
        /\ FailedEvents(queue') = FailedEvents(queue)
    BY <1>0, <1>3, RetryTable
  <2> QED
    BY <2>1 DEF Log!vars, UploadedEvents, FailedEvents
<1>4. ASSUME NEW row \in request, ApplyReceipt(row) PROVE Log!Next
  <2>1. Log!Acknowledge(row.event) /\ row.event \in Events(queue)
    BY <1>4, ReceiptAcknowledges, InFlightIsNext
  <2> QED
    BY <2>1 DEF Log!Next
<1>5. ASSUME NEW row \in request, ApplyRefusal(row) PROVE Log!Next
  <2>1. Log!Condemn(row.event) /\ row.event \in Events(queue)
    BY <1>5, RefusalCondemns, InFlightIsNext
  <2> QED
    BY <2>1 DEF Log!Next
<1> QED
  BY <1>0, <1>1, <1>2, <1>3, <1>4, <1>5, QueueStep

\* Retries, losses, restarts and garbled answers do to the log what AuditLog
\* allows, and nothing else.
THEOREM Refinement == Spec => ImplementsAuditLog
<1>1. Init => Log!Init
  <2> SUFFICES ASSUME Init PROVE Log!Init
    OBVIOUS
  <2>1. queue = {}
    BY DEF Init
  <2>2. {r \in queue : r.state = "uploaded"} = {} /\ {r \in queue : r.state = "failed_permanent"} = {}
    BY <2>1
  <2> QED
    BY <2>1, <2>2 DEF Log!Init, Events
<1> QED
  BY <1>1, LogStep, Invariant, PTL DEF Spec, ImplementsAuditLog, Log!Spec
=============================================================================
