-------------------------- MODULE AuditQueueProofs --------------------------
(***************************************************************************)
(* What the transactions of AuditQueue do to a table, row by row, and what *)
(* they preserve: the UNIQUE constraints, the order of states along a      *)
(* runtime, and the rows that the uploader has selected.  Shared by the    *)
(* proofs about AuditClient and Delivery.                                  *)
(***************************************************************************)
EXTENDS AuditQueue, TLAPS

\* The rows of a table of events from E with receipts from R.
RowSet(E, R) == [event : E, state : RowStates, restart : BOOLEAN, receipt : R]

\* UNIQUE(event_id) and UNIQUE(runtime_id, sequence).
Unique(q) ==
    \A x, y \in q :
        \/ x.event.id = y.event.id
        \/ x.event.runtime = y.event.runtime /\ x.event.sequence = y.event.sequence
        => x = y

\* x lies below y in the chain of one runtime.
Under(x, y) ==
    x.event.runtime = y.event.runtime /\ x.event.sequence < y.event.sequence

\* Along a runtime: first the uploaded rows, then rows of one fate only, waiting
\* or failed.
Ordered(q) ==
    \A x, y \in q : Under(x, y) =>
        \/ x.state = "uploaded"
        \/ x.state = "failed_permanent" /\ y.state = "failed_permanent"
        \/ x.state \in Unresolved /\ y.state \in Unresolved

\* No unresolved row waits for a new runtime.
NoRestart(q) == \A row \in q : row.state \in Unresolved => ~ row.restart

UploadedEvents(q) == {row.event : row \in {r \in q : r.state = "uploaded"}}
FailedEvents(q) == {row.event : row \in {r \in q : r.state = "failed_permanent"}}

\* Sequences are numbers.
Numbered(E) == \A e \in E : e.sequence \in Nat

\* The row y is what becomes of the row x when the ids are marked for a retry,
\* when the row is acknowledged, and when it is marked as failed for good.
Retried(x, y, ids) ==
    /\ y.event = x.event /\ y.receipt = x.receipt
    /\ y = x \/ (x.event.id \in ids /\ x.state \in Unresolved /\ y.state \in Unresolved)
    /\ x.state \in Unresolved /\ ~ x.restart => ~ y.restart

Accepted(x, y, row) ==
    IF x = row THEN y.event = x.event /\ y.state = "uploaded" ELSE y = x

Condemns(x, row) ==
    x = row \/ (Under(row, x) /\ x.state \in Unresolved)

Condemned(x, y, row) ==
    IF Condemns(x, row)
    THEN y.event = x.event /\ y.state = "failed_permanent" /\ y.receipt = x.receipt
    ELSE y = x

\* The events from a row upwards.
From(q, row) == {x.event : x \in {z \in q : z = row \/ Under(row, z)}}
-----------------------------------------------------------------------------
(* Row by row. *)

\* MarkRetryable without a restart mark leaves unresolved rows unresolved, and
\* all others as they are.
LEMMA MarkRetryableRows ==
    ASSUME NEW E, NEW R, NEW q \in SUBSET RowSet(E, R), NEW ids
    PROVE  LET q2 == MarkRetryable(q, ids, FALSE)
           IN  /\ q2 \subseteq RowSet(E, R)
               /\ \A x \in q : \E y \in q2 : Retried(x, y, ids)
               /\ \A y \in q2 : \E x \in q : Retried(x, y, ids)
               /\ Unique(q) => Unique(q2)
<1> DEFINE F(row) == IF row.event.id \in ids /\ row.state \in Unresolved
                       THEN [row EXCEPT !.state = "failed_retryable", !.restart = @ \/ FALSE]
                       ELSE row
<1>1. \A x \in q : F(x) \in RowSet(E, R) /\ Retried(x, F(x), ids)
  BY DEF RowSet, RowStates, Unresolved, Retried
<1>2. MarkRetryable(q, ids, FALSE) = {F(row) : row \in q}
  BY DEF MarkRetryable
<1>3. \A x \in q : F(x).event = x.event
  BY <1>1 DEF Retried
<1> DEFINE q2 == MarkRetryable(q, ids, FALSE)
<1>6. q2 = {F(row) : row \in q}
  BY <1>2
<1> HIDE DEF F, q2
<1>4. Unique(q) => Unique(q2)
  <2> SUFFICES ASSUME Unique(q), NEW x \in q, NEW y \in q,
                      \/ F(x).event.id = F(y).event.id
                      \/ /\ F(x).event.runtime = F(y).event.runtime
                         /\ F(x).event.sequence = F(y).event.sequence
               PROVE  F(x) = F(y)
    BY <1>6 DEF Unique
  <2>1. x = y
    BY <1>3 DEF Unique
  <2> QED
    BY <2>1
<1>5. q2 = MarkRetryable(q, ids, FALSE)
  BY DEF q2
<1> QED
  BY <1>1, <1>6, <1>4, <1>5

\* Acknowledge changes the one row of the id.
LEMMA AcknowledgeRows ==
    ASSUME NEW E, NEW R, NEW q \in SUBSET RowSet(E, R), Unique(q),
           NEW row \in q, row.state \in Unresolved, NEW receipt \in R
    PROVE  LET q2 == Acknowledge(q, row.event.id, receipt)
           IN  /\ q2 \subseteq RowSet(E, R)
               /\ \A x \in q : \E y \in q2 : Accepted(x, y, row)
               /\ \A y \in q2 : \E x \in q : Accepted(x, y, row)
               /\ \A y \in q2 : y.event = row.event => y.receipt = receipt
               /\ Unique(q2)
<1> DEFINE F(x) == IF x.event.id = row.event.id /\ x.state \in Unresolved
                     THEN [x EXCEPT !.state = "uploaded", !.receipt = receipt] ELSE x
<1>1. \A x \in q : x.event.id = row.event.id <=> x = row
  BY DEF Unique
<1>2. \A x \in q : /\ F(x) \in RowSet(E, R) /\ Accepted(x, F(x), row)
                   /\ F(x).event = row.event => F(x).receipt = receipt
  BY <1>1 DEF RowSet, RowStates, Unresolved, Accepted
<1>3. Acknowledge(q, row.event.id, receipt) = {F(x) : x \in q}
  BY DEF Acknowledge
<1>4. \A x \in q : F(x).event = x.event
  BY <1>2 DEF Accepted
<1> HIDE DEF F
<1>5. Unique(Acknowledge(q, row.event.id, receipt))
  BY <1>3, <1>4 DEF Unique
<1> QED
  BY <1>2, <1>3, <1>5

\* MarkPermanent of an unresolved row changes it and the unresolved rows above.
LEMMA MarkPermanentRows ==
    ASSUME NEW E, NEW R, NEW q \in SUBSET RowSet(E, R), Unique(q), NEW row \in q
    PROVE  LET q2 == MarkPermanent(q, row.event)
           IN  /\ q2 \subseteq RowSet(E, R)
               /\ \A x \in q : \E y \in q2 : Condemned(x, y, row)
               /\ \A y \in q2 : \E x \in q : Condemned(x, y, row)
               /\ Unique(q2)
<1> DEFINE Hit(x) == \/ x.event.id = row.event.id
                     \/ /\ x.event.runtime = row.event.runtime
                        /\ x.event.sequence > row.event.sequence
                        /\ x.state \in Unresolved
           F(x) == IF Hit(x) THEN [x EXCEPT !.state = "failed_permanent", !.restart = TRUE] ELSE x
<1>1. \A x \in q : x.event.id = row.event.id <=> x = row
  BY DEF Unique
<1>2. \A x \in q : Hit(x) <=> Condemns(x, row)
  BY <1>1 DEF Condemns, Under
<1>3. \A x \in q : /\ [x EXCEPT !.state = "failed_permanent", !.restart = TRUE] \in RowSet(E, R)
                   /\ [x EXCEPT !.state = "failed_permanent", !.restart = TRUE].event = x.event
                   /\ [x EXCEPT !.state = "failed_permanent", !.restart = TRUE].receipt = x.receipt
                   /\ [x EXCEPT !.state = "failed_permanent", !.restart = TRUE].state
                          = "failed_permanent"
  BY DEF RowSet, RowStates
<1>4. MarkPermanent(q, row.event) = {F(x) : x \in q}
  BY DEF MarkPermanent
<1> HIDE DEF Hit
<1>5. \A x \in q : F(x) \in RowSet(E, R) /\ Condemned(x, F(x), row)
  BY <1>2, <1>3 DEF Condemned
<1>6. \A x \in q : F(x).event = x.event
  BY <1>3
<1> HIDE DEF F
<1>7. Unique(MarkPermanent(q, row.event))
  BY <1>4, <1>6 DEF Unique
<1> QED
  BY <1>4, <1>5, <1>7

\* Insert adds one pending row.
LEMMA InsertRows ==
    ASSUME NEW E, NEW R, NoReceipt \in R, NEW q \in SUBSET RowSet(E, R), NEW e \in E
    PROVE  \E new \in RowSet(E, R) :
               /\ Insert(q, e) = q \cup {new}
               /\ new.event = e /\ new.state = "pending" /\ ~ new.restart
               /\ new.receipt = NoReceipt
<1> DEFINE new == [event |-> e, state |-> "pending", restart |-> FALSE, receipt |-> NoReceipt]
<1>1. new \in RowSet(E, R)
  BY DEF RowSet, RowStates, Unresolved
<1> QED
  BY <1>1 DEF Insert
-----------------------------------------------------------------------------
(* What is selected. *)

\* Below a selected row everything is uploaded.
LEMMA BelowSelected ==
    ASSUME NEW q, Numbered(Events(q)), Ordered(q),
           NEW row \in SelectUploadBatch(q), NEW x \in q, Under(x, row)
    PROVE  x.state = "uploaded"
<1>1. row \in q /\ row.state \in Unresolved /\ row.event \in Events(q) /\ x.event \in Events(q)
  BY DEF SelectUploadBatch, Events
<1>2. x.state \in Unresolved => row.event.sequence <= x.event.sequence
  BY DEF SelectUploadBatch, RowsOf, Under
<1>3. ~ (x.state \in Unresolved)
  BY <1>1, <1>2 DEF Under, Numbered
<1> QED
  BY <1>1, <1>3 DEF Ordered, Unresolved

\* A request has one row per runtime.
LEMMA OnePerRuntime ==
    ASSUME NEW q, Numbered(Events(q)), Unique(q), NEW x \in SelectUploadBatch(q),
           NEW y \in SelectUploadBatch(q), x.event.runtime = y.event.runtime
    PROVE  x = y
<1>1. x \in q /\ y \in q /\ x.event \in Events(q) /\ y.event \in Events(q)
  BY DEF SelectUploadBatch, Events
<1>2. x.event.sequence <= y.event.sequence /\ y.event.sequence <= x.event.sequence
  BY DEF SelectUploadBatch, RowsOf
<1>3. x.event.sequence = y.event.sequence
  BY <1>1, <1>2 DEF Numbered
<1> QED
  BY <1>1, <1>3 DEF Unique

\* The selection of a runtime depends on the rows of that runtime only.
LEMMA SelectionIsLocal ==
    ASSUME NEW q, NEW q2, NEW row \in SelectUploadBatch(q),
           RowsOf(q2, row.event.runtime) = RowsOf(q, row.event.runtime)
    PROVE  row \in SelectUploadBatch(q2)
<1>1. row \in q2
  BY DEF SelectUploadBatch, RowsOf
<1> QED
  BY <1>1 DEF SelectUploadBatch, Stuck

\* In an ordered table without restart marks whatever is unresolved belongs to
\* a runtime that can progress.
LEMMA UnresolvedCanProgress ==
    ASSUME NEW q, Numbered(Events(q)), Unique(q), Ordered(q), NoRestart(q),
           NEW row \in q, row.state \in Unresolved
    PROVE  ~ Stuck(q, row.event.runtime)
<1> SUFFICES ASSUME NEW x \in q, x.event.runtime = row.event.runtime,
                    x.state = "failed_permanent"
             PROVE  FALSE
  BY DEF Stuck, RowsOf, NoRestart
<1>1. x.event.sequence \in Nat /\ row.event.sequence \in Nat
  BY DEF Numbered, Events
<1>2. x # row
  BY DEF Unresolved
<1>3. Under(x, row) \/ Under(row, x)
  BY <1>1, <1>2 DEF Under, Unique
<1> QED
  BY <1>3 DEF Ordered, Unresolved
-----------------------------------------------------------------------------
(* What the transactions of the uploader preserve. *)

\* Retrying keeps events, fates and order.
LEMMA RetriedKeeps ==
    ASSUME NEW q, NEW q2, NEW ids,
           \A x \in q : \E y \in q2 : Retried(x, y, ids),
           \A y \in q2 : \E x \in q : Retried(x, y, ids)
    PROVE  /\ Events(q2) = Events(q)
           /\ UploadedEvents(q2) = UploadedEvents(q)
           /\ FailedEvents(q2) = FailedEvents(q)
           /\ Ordered(q) => Ordered(q2)
           /\ NoRestart(q) => NoRestart(q2)
<1>1. Events(q2) = Events(q)
  BY DEF Events, Retried
<1>2. \A x \in q, y \in q2 : Retried(x, y, ids) =>
          /\ x.state = "uploaded" <=> y.state = "uploaded"
          /\ x.state = "failed_permanent" <=> y.state = "failed_permanent"
          /\ x.state \in Unresolved <=> y.state \in Unresolved
  BY DEF Retried, Unresolved
<1>3. UploadedEvents(q2) = UploadedEvents(q) /\ FailedEvents(q2) = FailedEvents(q)
  BY <1>2 DEF UploadedEvents, FailedEvents, Retried
<1>4. Ordered(q) => Ordered(q2)
  BY <1>2 DEF Ordered, Under, Retried
<1>5. NoRestart(q) => NoRestart(q2)
  BY DEF NoRestart, Retried
<1> QED
  BY <1>1, <1>3, <1>4, <1>5

\* ... and the selected rows that are not retried.
LEMMA RetriedSelection ==
    ASSUME NEW q, NEW q2, NEW ids, NoRestart(q),
           \A x \in q : \E y \in q2 : Retried(x, y, ids),
           \A y \in q2 : \E x \in q : Retried(x, y, ids),
           NEW row \in SelectUploadBatch(q), row.event.id \notin ids
    PROVE  row \in SelectUploadBatch(q2)
<1>1. row \in q /\ row.state \in Unresolved
  BY DEF SelectUploadBatch
<1>2. row \in q2
  BY <1>1 DEF Retried
<1>3. ASSUME NEW y \in q2, y.event.runtime = row.event.runtime
      PROVE  /\ y.state # "failed_permanent"
             /\ y.state \in Unresolved => ~ y.restart /\ row.event.sequence <= y.event.sequence
  <2>1. PICK x \in q : Retried(x, y, ids)
    OBVIOUS
  <2>2. x.event = y.event /\ x.state # "failed_permanent"
    BY <2>1, <1>3 DEF Retried, SelectUploadBatch, Stuck, RowsOf
  <2>3. y.state # "failed_permanent" /\ (y.state \in Unresolved => x.state \in Unresolved)
    BY <2>1, <2>2 DEF Retried, Unresolved
  <2>4. x.state \in Unresolved => row.event.sequence <= x.event.sequence
    BY <2>2, <1>3 DEF SelectUploadBatch, RowsOf
  <2>5. x.state \in Unresolved => ~ y.restart
    BY <2>1 DEF NoRestart, Retried
  <2> QED
    BY <2>2, <2>3, <2>4, <2>5
<1> QED
  BY <1>1, <1>2, <1>3 DEF SelectUploadBatch, Stuck, RowsOf

\* Acknowledging a selected row makes it uploaded and keeps the order.
LEMMA AcceptedKeeps ==
    ASSUME NEW q, NEW q2, NEW row \in q, Numbered(Events(q)), Ordered(q),
           row \in SelectUploadBatch(q),
           \A x \in q : \E y \in q2 : Accepted(x, y, row),
           \A y \in q2 : \E x \in q : Accepted(x, y, row)
    PROVE  /\ Events(q2) = Events(q)
           /\ UploadedEvents(q2) = UploadedEvents(q) \cup {row.event}
           /\ FailedEvents(q2) = FailedEvents(q)
           /\ Ordered(q2)
           /\ NoRestart(q) => NoRestart(q2)
<1>1. Events(q2) = Events(q)
  BY DEF Events, Accepted
<1>2. row.state \in Unresolved
  BY DEF SelectUploadBatch
<1>3. UploadedEvents(q2) = UploadedEvents(q) \cup {row.event}
  BY <1>2 DEF UploadedEvents, Accepted, Unresolved
<1>4. FailedEvents(q2) = FailedEvents(q)
  BY <1>2 DEF FailedEvents, Accepted, Unresolved
<1>5. Ordered(q2)
  <2> SUFFICES ASSUME NEW x2 \in q2, NEW y2 \in q2, Under(x2, y2), x2.state # "uploaded"
               PROVE  \/ x2.state = "failed_permanent" /\ y2.state = "failed_permanent"
                      \/ x2.state \in Unresolved /\ y2.state \in Unresolved
    BY DEF Ordered
  <2>1. PICK x \in q : Accepted(x, x2, row)
    OBVIOUS
  <2>2. PICK y \in q : Accepted(y, y2, row)
    OBVIOUS
  <2>3. x2 = x
    BY <2>1 DEF Accepted
  <2>4. CASE y = row
    <3>1. Under(x, row)
      BY <2>2, <2>3, <2>4 DEF Accepted, Under
    <3> QED
      BY <3>1, <2>3, BelowSelected
  <2>5. CASE y # row
    BY <2>2, <2>3, <2>5 DEF Accepted, Ordered
  <2> QED
    BY <2>4, <2>5
<1>6. NoRestart(q) => NoRestart(q2)
  BY DEF NoRestart, Accepted, Unresolved
<1> QED
  BY <1>1, <1>3, <1>4, <1>5, <1>6

\* Failing a selected row fails exactly the rows from it upwards.
LEMMA CondemnedKeeps ==
    ASSUME NEW q, NEW q2, NEW row \in q, Numbered(Events(q)), Unique(q), Ordered(q),
           row \in SelectUploadBatch(q),
           \A x \in q : \E y \in q2 : Condemned(x, y, row),
           \A y \in q2 : \E x \in q : Condemned(x, y, row)
    PROVE  /\ Events(q2) = Events(q)
           /\ UploadedEvents(q2) = UploadedEvents(q)
           /\ FailedEvents(q2) = FailedEvents(q) \cup From(q, row)
           /\ Ordered(q2)
           /\ NoRestart(q) => NoRestart(q2)
<1>1. Events(q2) = Events(q)
  BY DEF Events, Condemned
<1>2. row.state \in Unresolved
  BY DEF SelectUploadBatch
<1>3. \A x \in q : Condemns(x, row) => x.state \in Unresolved
  BY <1>2 DEF Condemns
<1>4. \A x \in q : Condemns(x, row) <=> x = row \/ Under(row, x)
  BY <1>2 DEF Condemns, Ordered, Unresolved
<1>5. UploadedEvents(q2) = UploadedEvents(q)
  BY <1>3 DEF UploadedEvents, Condemned, Unresolved
<1>6. FailedEvents(q2) = FailedEvents(q) \cup From(q, row)
  BY <1>4 DEF FailedEvents, Condemned, From
<1>7. Ordered(q2)
  <2> SUFFICES ASSUME NEW x2 \in q2, NEW y2 \in q2, Under(x2, y2)
               PROVE  \/ x2.state = "uploaded"
                      \/ x2.state = "failed_permanent" /\ y2.state = "failed_permanent"
                      \/ x2.state \in Unresolved /\ y2.state \in Unresolved
    BY DEF Ordered
  <2>1. PICK x \in q : Condemned(x, x2, row)
    OBVIOUS
  <2>2. PICK y \in q : Condemned(y, y2, row)
    OBVIOUS
  <2>3. Under(x, y)
    BY <2>1, <2>2 DEF Condemned, Under
  <2>4. /\ x.event.sequence \in Nat /\ y.event.sequence \in Nat
        /\ row.event.sequence \in Nat
    BY DEF Numbered, Events
  <2>5. CASE Condemns(x, row)
    <3>1. Condemns(y, row)
      BY <2>3, <2>4, <2>5, <1>4 DEF Under
    <3> QED
      BY <2>1, <2>2, <2>5, <3>1 DEF Condemned
  <2>6. CASE ~ Condemns(x, row) /\ Condemns(y, row)
    <3>1. x # row /\ ~ Under(row, x) /\ (y = row \/ Under(row, y))
      BY <2>6, <1>4
    <3>2. Under(x, row)
      BY <3>1, <2>3, <2>4 DEF Under, Unique
    <3>3. x.state = "uploaded"
      BY <3>2, BelowSelected
    <3> QED
      BY <3>3, <2>1, <2>6 DEF Condemned
  <2>7. CASE ~ Condemns(x, row) /\ ~ Condemns(y, row)
    BY <2>1, <2>2, <2>3, <2>7 DEF Condemned, Ordered
  <2> QED
    BY <2>5, <2>6, <2>7
<1>8. NoRestart(q) => NoRestart(q2)
  BY DEF NoRestart, Condemned, Unresolved
<1> QED
  BY <1>1, <1>5, <1>6, <1>7, <1>8

\* An acknowledgement leaves the rows of every other runtime alone ...
LEMMA AcceptedStay ==
    ASSUME NEW q, NEW q2, NEW row \in q, NEW r, r # row.event.runtime,
           \A x \in q : \E y \in q2 : Accepted(x, y, row),
           \A y \in q2 : \E x \in q : Accepted(x, y, row)
    PROVE  RowsOf(q2, r) = RowsOf(q, r)
  BY DEF Accepted, RowsOf

\* ... as does the marking of a permanent failure.
LEMMA CondemnedStay ==
    ASSUME NEW q, NEW q2, NEW row \in q, NEW r, r # row.event.runtime,
           \A x \in q : \E y \in q2 : Condemned(x, y, row),
           \A y \in q2 : \E x \in q : Condemned(x, y, row)
    PROVE  RowsOf(q2, r) = RowsOf(q, r)
  BY DEF Condemned, Condemns, Under, RowsOf

\* A new row on top of a runtime that has no failed row.
LEMMA InsertKeeps ==
    ASSUME NEW q, NEW new, Unique(q), Ordered(q),
           \A x \in q : x.event.id # new.event.id,
           \A x \in RowsOf(q, new.event.runtime) :
               x.event.sequence < new.event.sequence /\ x.state # "failed_permanent",
           new.state = "pending", ~ new.restart, Numbered(Events(q \cup {new})),
           \A x \in q : x.state \in RowStates
    PROVE  LET q2 == q \cup {new}
           IN  /\ Events(q2) = Events(q) \cup {new.event}
               /\ UploadedEvents(q2) = UploadedEvents(q)
               /\ FailedEvents(q2) = FailedEvents(q)
               /\ Unique(q2) /\ Ordered(q2)
               /\ NoRestart(q) => NoRestart(q2)
               /\ SelectUploadBatch(q) \subseteq SelectUploadBatch(q2)
<1> DEFINE q2 == q \cup {new}
<1>1. Events(q2) = Events(q) \cup {new.event}
  BY DEF Events
<1>2. UploadedEvents(q2) = UploadedEvents(q) /\ FailedEvents(q2) = FailedEvents(q)
  BY DEF UploadedEvents, FailedEvents
<1>3. \A x \in q : /\ x.event.runtime = new.event.runtime =>
                         x.event.sequence < new.event.sequence /\ x.state # "failed_permanent"
                   /\ x.event.sequence \in Nat
  BY <1>1 DEF RowsOf, Numbered, Events
<1>4. new.event.sequence \in Nat
  BY <1>1 DEF Numbered
<1>5. Unique(q2)
  BY <1>3, <1>4 DEF Unique
<1>6. Ordered(q2)
  <2>1. \A x \in q : ~ Under(new, x)
    BY <1>3, <1>4 DEF Under
  <2>2. \A x \in q : Under(x, new) => x.state = "uploaded" \/ x.state \in Unresolved
    BY <1>3 DEF Under, RowStates
  <2>3. ~ Under(new, new) /\ new.state \in Unresolved
    BY <1>4 DEF Under, Unresolved
  <2> QED
    BY <2>1, <2>2, <2>3 DEF Ordered
<1>7. NoRestart(q) => NoRestart(q2)
  BY DEF NoRestart
<1>8. SelectUploadBatch(q) \subseteq SelectUploadBatch(q2)
  <2> SUFFICES ASSUME NEW row \in SelectUploadBatch(q)
               PROVE  row \in SelectUploadBatch(q2)
    OBVIOUS
  <2>1. row \in q
    BY DEF SelectUploadBatch
  <2>2. ~ Stuck(q2, row.event.runtime)
    BY DEF SelectUploadBatch, Stuck, RowsOf
  <2>3. new.event.runtime = row.event.runtime => row.event.sequence <= new.event.sequence
    BY <2>1, <1>3, <1>4
  <2> QED
    BY <2>1, <2>2, <2>3 DEF SelectUploadBatch, RowsOf
<1> QED
  BY <1>1, <1>2, <1>5, <1>6, <1>7, <1>8
=============================================================================
