---------------------------- MODULE AuditQueue ----------------------------
(***************************************************************************)
(* The durable audit queue (sdk/sealstack/queue.py): one SQLite table that *)
(* holds the signed events of every runtime that ever used the state       *)
(* directory, and the transactions that read and change it.  A queue is a  *)
(* set of rows, a transaction an operator from the table to the next one;  *)
(* whether the transaction commits, and who runs it when, is the business  *)
(* of the modules that use these operators.                                *)
(*                                                                         *)
(* An event is a record with at least the fields id, hash, runtime,        *)
(* sequence and prev.  Bytes, signature and timestamps are fixed by the    *)
(* event, so the event stands for them; attempt_count and last_error are   *)
(* diagnostics that nothing reads back, and are left out.                  *)
(***************************************************************************)
EXTENDS Integers

Unresolved == {"pending", "failed_retryable"}

RowStates == Unresolved \cup {"uploaded", "failed_permanent"}

\* server_receipt is NULL until the row is acknowledged.
NoReceipt == << >>

\* The previous_event_hash of the first event of a runtime, and its head.
NoHash == << >>

EmptyHead == [sequence |-> 0, hash |-> NoHash]

RowsOf(queue, runtime) == {row \in queue : row.event.runtime = runtime}

Events(queue) == {row.event : row \in queue}

\* UNIQUE(event_id) and UNIQUE(runtime_id, sequence).
Admits(queue, event) ==
    \A row \in queue :
        /\ row.event.id # event.id
        /\ row.event.runtime = event.runtime => row.event.sequence # event.sequence

Insert(queue, event) ==
    queue \cup {[event    |-> event,     state   |-> "pending",
                 restart  |-> FALSE,     receipt |-> NoReceipt]}

\* The row of the highest sequence of a runtime, as the pair the client keeps.
QueueHead(queue, runtime) ==
    IF RowsOf(queue, runtime) = {} THEN EmptyHead
    ELSE LET top == CHOOSE row \in RowsOf(queue, runtime) :
                      \A other \in RowsOf(queue, runtime) :
                          other.event.sequence <= row.event.sequence
         IN  [sequence |-> top.event.sequence, hash |-> top.event.hash]

HasRow(queue, runtime, sequence) ==
    \E row \in RowsOf(queue, runtime) : row.event.sequence = sequence

-----------------------------------------------------------------------------
(* Upload selection. *)

\* Runtimes whose chain cannot progress until a new runtime is created.
Stuck(queue, runtime) ==
    \E row \in RowsOf(queue, runtime) :
        \/ row.state = "failed_permanent"
        \/ row.restart /\ row.state \in Unresolved

\* Mutant of SelectUploadBatch: every unresolved row of an eligible runtime.
SelectAllUnresolved(queue) ==
    {row \in queue : row.state \in Unresolved /\ ~Stuck(queue, row.event.runtime)}

\* The lowest unresolved row of every runtime that is not stuck.
SelectUploadBatch(queue) ==
    {row \in queue :
        /\ row.state \in Unresolved
        /\ ~Stuck(queue, row.event.runtime)
        /\ \A other \in RowsOf(queue, row.event.runtime) :
               other.state \in Unresolved => row.event.sequence <= other.event.sequence}

-----------------------------------------------------------------------------
(* State transitions.  Each is one SQLite transaction. *)

\* Mutant of Acknowledge: stores the service's word for it.
AcknowledgeStatus(queue, id, receipt) ==
    {IF row.event.id = id /\ row.state \in Unresolved
       THEN [row EXCEPT !.state = "accepted", !.receipt = receipt]
       ELSE row : row \in queue}

Acknowledge(queue, id, receipt) ==
    {IF row.event.id = id /\ row.state \in Unresolved
       THEN [row EXCEPT !.state = "uploaded", !.receipt = receipt]
       ELSE row : row \in queue}

MarkRetryable(queue, ids, restart) ==
    {IF row.event.id \in ids /\ row.state \in Unresolved
       THEN [row EXCEPT !.state = "failed_retryable", !.restart = @ \/ restart]
       ELSE row : row \in queue}

\* Mutants of MarkPermanent: the descendants are forgotten, or the whole runtime
\* is condemned.
MarkPermanentAlone(queue, event) ==
    {IF row.event.id = event.id
       THEN [row EXCEPT !.state = "failed_permanent", !.restart = TRUE]
       ELSE row : row \in queue}

\* The failed row itself is matched by event_id alone, whatever its state.
MarkPermanent(queue, event) ==
    {IF \/ row.event.id = event.id
        \/ /\ row.event.runtime = event.runtime
           /\ row.event.sequence > event.sequence
           /\ row.state \in Unresolved
       THEN [row EXCEPT !.state = "failed_permanent", !.restart = TRUE]
       ELSE row : row \in queue}
============================================================================
