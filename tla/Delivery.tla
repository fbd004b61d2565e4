------------------------------ MODULE Delivery ------------------------------
(***************************************************************************)
(* The way of an event from the durable queue to the service and back: the *)
(* uploader (sdk/sealstack/uploader.py) with its requests, the reference   *)
(* service behind them, restarts of the process and a network that loses,  *)
(* delays and repeats.  Appending is one step here; AuditClient has its    *)
(* details.  A request is a set of rows, one per runtime: the order in a   *)
(* request is that of random uuids, so no order is assumed.                *)
(***************************************************************************)
EXTENDS AuditQueue, Ingestion

CONSTANTS
    MaxRuntimes,    \* bound: processes ever started on the directory
    MaxEvents,      \* bound: events of a runtime
    RequestLimit,   \* rows the service takes in a request before it says 413; that
                    \* it says so of a single row is Reject
    Scenarios       \* choices of what the environment does besides losing messages

ASSUME DeliveryAssumption ==
    /\ MaxRuntimes \in Nat \ {0}
    /\ MaxEvents \in Nat \ {0}
    /\ RequestLimit \in Nat \ {0}
    /\ Scenarios \subseteq SUBSET {"halt", "refuse", "reject", "garble", "storage", "forget"}

Runtimes == 1..MaxRuntimes

VARIABLES
    faults,     \* the scenario of this behaviour
    queue,      \* the table of audit_queue.db
    runtimes,   \* processes started so far; the newest is the live one
    running,    \* whether it runs
    blocked,    \* whether its signing is blocked
    upload,     \* the uploader: off, idle, sent, answered, halted
    request,    \* rows of the attempt in flight that are not settled yet
    answer,     \* results of the service for that attempt, by event id
    late,       \* envelopes of given-up attempts, still somewhere in the network
    events,     \* the service's table events
    receipts,   \* the service's table receipts
    refused     \* history: events refused for what they are, not for their place

lifeVars == <<faults, runtimes, running>>
localVars == <<lifeVars, queue, blocked>>
serviceVars == <<events, receipts>>
vars == <<localVars, upload, request, answer, late, serviceVars, refused>>

Ids == Runtimes \X (1..MaxEvents)

NextEvent ==
    LET top == QueueHead(queue, runtimes)
        id == <<runtimes, top.sequence + 1>>
    IN  [id |-> id, hash |-> id, runtime |-> runtimes, sequence |-> top.sequence + 1,
         prev |-> top.hash]

Envelope(event) == [event |-> event, claimed |-> event.hash, signature |-> event.hash]

Envelopes(rows) == {Envelope(row.event) : row \in rows}

IdsOf(rows) == {row.event.id : row \in rows}

TypeOK ==
    /\ \A row \in queue :
           /\ row.event.id = <<row.event.runtime, row.event.sequence>>
           /\ row.event.id \in Ids
           /\ row.state \in RowStates
           /\ row.state = "uploaded" <=> row.receipt # NoReceipt
    /\ faults \in Scenarios
    /\ runtimes \in 0..MaxRuntimes
    /\ running \in BOOLEAN /\ blocked \in BOOLEAN
    /\ upload \in {"off", "idle", "sent", "answered", "halted"}
    /\ upload \in {"sent", "answered"} <=> request # {}
    /\ \A row, other \in request : row.event.runtime = other.event.runtime => row = other
    /\ DOMAIN answer \subseteq Ids
    /\ late \subseteq {Envelope(event) : event \in Events(queue)}
    /\ refused \subseteq Ids

Init ==
    /\ faults \in Scenarios
    /\ queue = {}
    /\ runtimes = 0
    /\ running = FALSE
    /\ blocked = FALSE
    /\ upload = "off"
    /\ request = {}
    /\ answer = << >>
    /\ late = {}
    /\ events = {}
    /\ receipts = {}
    /\ refused = {}
-----------------------------------------------------------------------------
(* The process. *)

Start ==
    /\ ~running
    /\ runtimes < MaxRuntimes
    /\ runtimes' = runtimes + 1
    /\ running' = TRUE
    /\ blocked' = FALSE
    /\ upload' = "idle"
    /\ UNCHANGED <<faults, queue, request, answer, late, serviceVars, refused>>

\* The attempt in flight is forgotten by the process, not by the network.
GiveUp ==
    /\ late' = late \cup Envelopes(request)
    /\ request' = {}
    /\ answer' = << >>

Stop ==
    /\ running
    /\ running' = FALSE
    /\ upload' = "off"
    /\ GiveUp
    /\ UNCHANGED <<faults, queue, runtimes, blocked, serviceVars, refused>>

Append ==
    /\ running /\ ~blocked
    /\ QueueHead(queue, runtimes).sequence < MaxEvents
    /\ queue' = Insert(queue, NextEvent)
    /\ UNCHANGED <<lifeVars, blocked, upload, request, answer, late, serviceVars, refused>>
-----------------------------------------------------------------------------
(* An attempt: upload_once and _attempt. *)

SendBatch ==
    /\ upload = "idle"
    /\ SelectUploadBatch(queue) # {}
    /\ request' = SelectUploadBatch(queue)
    /\ upload' = "sent"
    /\ UNCHANGED <<localVars, answer, late, serviceVars, refused>>

\* No usable response: transport failure, 408, 429, 5xx, a malformed or an
\* uncorrelated body.  The service may have worked on the request all the same.
AttemptFails ==
    /\ upload = "sent"
    /\ queue' = MarkRetryable(queue, IdsOf(request), FALSE)
    /\ upload' = "idle"
    /\ GiveUp
    /\ UNCHANGED <<lifeVars, blocked, serviceVars, refused>>

\* Any other status, 401 and 403 among them: also stop until a restart.
AttemptHalts ==
    /\ "halt" \in faults
    /\ upload = "sent"
    /\ queue' = MarkRetryable(queue, IdsOf(request), FALSE)
    /\ upload' = "halted"
    /\ GiveUp
    /\ UNCHANGED <<lifeVars, blocked, serviceVars, refused>>

\* Mutant of TooLarge: the same rows are sent again.
TooLargeAgain ==
    /\ upload = "sent"
    /\ Cardinality(request) > RequestLimit
    /\ UNCHANGED vars

\* 413: try again at once with half of the rows.
TooLarge ==
    /\ upload = "sent"
    /\ Cardinality(request) > RequestLimit
    /\ request' \in {half \in SUBSET request :
                        Cardinality(half) = Cardinality(request) \div 2}
    /\ UNCHANGED <<localVars, upload, answer, late, serviceVars, refused>>
-----------------------------------------------------------------------------
(* The service. *)

\* What its checks between replay and chain may say of an honest event: they
\* pass, unless the key was revoked or the clocks are apart.
Policies == IF "refuse" \in faults THEN {"pass", "agent_revoked"} ELSE {"pass"}

Store(envelope, verdict) ==
    /\ events' = EventsAfter(events, envelope, verdict)
    /\ receipts' = ReceiptsAfter(receipts, envelope, verdict)

\* One candidate of the attempt in flight, in a transaction of its own.
Ingest(row) ==
    /\ upload = "sent"
    /\ Cardinality(request) <= RequestLimit
    /\ row \in request /\ row.event.id \notin DOMAIN answer
    /\ \E policy \in Policies :
           LET envelope == Envelope(row.event)
               verdict == IngestVerdict(events, envelope, policy)
           IN  /\ Store(envelope, verdict)
               /\ answer' = [id \in DOMAIN answer \cup {row.event.id} |->
                      IF id = row.event.id
                        THEN [status  |-> verdict,
                              receipt |-> AnsweredReceipt(receipts, envelope, verdict)]
                        ELSE answer[id]]
               /\ refused' = IF verdict = policy /\ row.event \notin StoredEvents(events)
                               THEN refused \cup {row.event.id} ELSE refused
    /\ UNCHANGED <<localVars, upload, request, late>>

\* A candidate of a request the client has given up, as often as the network
\* likes; nobody reads the result.
IngestLate(envelope) ==
    /\ envelope \in late
    /\ \E policy \in Policies : Store(envelope, IngestVerdict(events, envelope, policy))
    /\ UNCHANGED <<localVars, upload, request, answer, late, refused>>

\* The complete response arrives.
Reply ==
    /\ upload = "sent"
    /\ IdsOf(request) = DOMAIN answer
    /\ upload' = "answered"
    /\ UNCHANGED <<localVars, request, answer, late, serviceVars, refused>>

\* The whole request is refused: 413 for a single row, or a 400 that says
\* invalid_schema of it.  _classify condemns the rows one after the other, as
\* if each had that result, although the events may have got through.
Reject ==
    /\ "reject" \in faults
    /\ upload = "sent"
    /\ \E status \in {"http_413", "invalid_schema"} :
           /\ status = "http_413" => Cardinality(request) = 1
           /\ answer' = [id \in IdsOf(request) |-> [status |-> status, receipt |-> NoReceipt]]
    /\ upload' = "answered"
    /\ refused' = refused \cup IdsOf(request)
    /\ late' = late \cup Envelopes(request)
    /\ UNCHANGED <<localVars, request, serviceVars>>

\* What a correlated 200 may say that is not the service's: success, with any
\* receipt in its table or none, or a known failure.
Garbage ==
    [status : {"accepted"}, receipt : receipts \cup {NoReceipt}] \cup
    [status : {"missing_previous", "conflict"}, receipt : {NoReceipt}]

GarbledReply ==
    /\ "garble" \in faults
    /\ upload = "sent"
    /\ answer' \in [IdsOf(request) -> Garbage]
    /\ upload' = "answered"
    /\ refused' = refused \cup {id \in IdsOf(request) : answer'[id].status = "conflict"}
    /\ late' = late \cup Envelopes(request)
    /\ UNCHANGED <<localVars, request, serviceVars>>

\* The service is restored from a backup that lacks a runtime's newest events.
Forget ==
    /\ "forget" \in faults
    /\ \E kept \in SUBSET events :
           /\ kept # events
           /\ \A stored \in kept, below \in events :
                  /\ below.event.runtime = stored.event.runtime
                  /\ below.event.sequence < stored.event.sequence
                  => below \in kept
           /\ events' = kept
           /\ receipts' = {receipt \in receipts :
                              \E stored \in kept : stored.event.id = receipt[1]}
    /\ UNCHANGED <<localVars, upload, request, answer, late, refused>>
-----------------------------------------------------------------------------
(* Applying the results, row by row: _apply_results and _apply_result. *)

\* Mutant of Binds: any receipt will do.
BindsAnything(receipt, event) == receipt # NoReceipt

\* _receipt_binds.
Binds(receipt, event) ==
    receipt # NoReceipt /\ receipt[1] = event.id /\ receipt[2] = event.hash

Succeeded(row) == answer[row.event.id].status \in {"accepted", "duplicate"}

\* Mutant of Settle: the uploader does not notice the last result.
SettleForever(row) ==
    /\ request' = request \ {row}
    /\ upload' = "answered"
    /\ answer' = [id \in DOMAIN answer \ {row.event.id} |-> answer[id]]
    /\ UNCHANGED <<lifeVars, late, serviceVars, refused>>

Settle(row) ==
    /\ request' = request \ {row}
    /\ upload' = IF request' = {} THEN "idle" ELSE "answered"
    /\ answer' = [id \in DOMAIN answer \ {row.event.id} |-> answer[id]]
    /\ UNCHANGED <<lifeVars, late, serviceVars, refused>>

ApplyReceipt(row) ==
    /\ upload = "answered" /\ row \in request
    /\ Succeeded(row) /\ Binds(answer[row.event.id].receipt, row.event)
    /\ queue' = Acknowledge(queue, row.event.id, answer[row.event.id].receipt)
    /\ Settle(row)
    /\ UNCHANGED blocked

ApplyUnusable(row) ==
    /\ upload = "answered" /\ row \in request
    /\ Succeeded(row) /\ ~Binds(answer[row.event.id].receipt, row.event)
    /\ queue' = MarkRetryable(queue, {row.event.id}, FALSE)
    /\ Settle(row)
    /\ UNCHANGED blocked

\* _handle_missing_previous.
ApplyMissing(row) ==
    /\ upload = "answered" /\ row \in request
    /\ answer[row.event.id].status = "missing_previous"
    /\ LET repairable == \/ row.event.sequence = 1
                         \/ HasRow(queue, row.event.runtime, row.event.sequence - 1)
       IN  queue' = MarkRetryable(queue, {row.event.id}, ~repairable)
    /\ Settle(row)
    /\ UNCHANGED blocked

\* Mutant of ApplyRefusal: signing goes on in the failed runtime.
ApplyRefusalUnblocked(row) ==
    /\ upload = "answered" /\ row \in request
    /\ ~Succeeded(row) /\ answer[row.event.id].status # "missing_previous"
    /\ queue' = MarkPermanent(queue, row.event)
    /\ Settle(row)
    /\ UNCHANGED blocked

\* _strand: every other status.
ApplyRefusal(row) ==
    /\ upload = "answered" /\ row \in request
    /\ ~Succeeded(row) /\ answer[row.event.id].status # "missing_previous"
    /\ queue' = MarkPermanent(queue, row.event)
    /\ blocked' = (blocked \/ row.event.runtime = runtimes)
    /\ Settle(row)

\* A local transaction fails: the results not applied yet are lost.
StorageFails ==
    /\ "storage" \in faults
    /\ upload = "answered"
    /\ upload' = "idle"
    /\ GiveUp
    /\ UNCHANGED <<localVars, serviceVars, refused>>
-----------------------------------------------------------------------------
Apply == \E row \in request :
             ApplyReceipt(row) \/ ApplyUnusable(row) \/ ApplyMissing(row) \/ ApplyRefusal(row)

Serve == \E row \in request : Ingest(row)

Next ==
    \/ Start \/ Stop \/ Append
    \/ SendBatch \/ AttemptFails \/ AttemptHalts \/ TooLarge
    \/ Serve \/ Reply \/ Reject \/ GarbledReply \/ Forget
    \/ \E envelope \in late : IngestLate(envelope)
    \/ Apply \/ StorageFails

Spec == Init /\ [][Next]_vars

\* The uploader thread runs.  Strong fairness is asked of the environment only:
\* a request sent again and again is worked on and answered in time at last, by
\* a 413 too, and a local transaction tried again and again succeeds at last.
Fairness ==
    /\ WF_vars(SendBatch)
    /\ SF_vars(TooLarge) /\ SF_vars(Serve) /\ SF_vars(Reply) /\ SF_vars(Apply)

FairSpec == Spec /\ Fairness
-----------------------------------------------------------------------------
(* Properties. *)

\* A row is uploaded only with the service's one and original receipt for the
\* very event, and a service that forgets nothing holds that event: through
\* losses, duplicates, crashes on either side and answers that are not its own.
UploadedIsServed ==
    "forget" \notin faults => \A row \in queue : row.state = "uploaded" =>
        /\ row.event \in StoredEvents(events)
        /\ ReceiptsFor(receipts, row.event.id) = {row.receipt}

\* An event reaches the service only when everything below it has been
\* acknowledged: of a runtime the service knows at most one event more than
\* the acknowledgements, however many requests are still in the network.
ServiceAtMostOneAhead ==
    \A stored \in events, row \in queue :
        /\ row.event.runtime = stored.event.runtime
        /\ row.event.sequence < stored.event.sequence
        => row.state = "uploaded"

\* An event is given up only for a refusal of its own, or of one below it in its
\* runtime: no retry, late arrival, restart, half-applied answer or loss of the
\* service's newest events does that, and of an event that is stored already the
\* service says duplicate, whatever it would say now (_ingest, _apply_result).
GivenUpForCause ==
    \A row \in queue : row.state = "failed_permanent" =>
        \E id \in refused : id[1] = row.event.runtime /\ id[2] <= row.event.sequence

\* Whatever is unresolved belongs to a runtime that can progress: its lowest
\* unresolved event would be selected now, and a service that forgets nothing and
\* finds no fault with its key would take it now.
NothingWaitsForever ==
    "forget" \notin faults => \A row \in queue : row.state \in Unresolved =>
        \E next \in SelectUploadBatch(queue) :
            /\ next.event.runtime = row.event.runtime
            /\ IngestVerdict(events, Envelope(next.event), "pass") \in
                   {"accepted", "duplicate"}

\* uploader.py:220, of an event whose predecessor the service misses: "Retry the
\* earlier local predecessor first, or stop this runtime".
MissingIsRepaired ==
    [][\A row \in request : ApplyMissing(row) =>
           \/ Stuck(queue', row.event.runtime)
           \/ \E earlier \in SelectUploadBatch(queue') :
                  /\ earlier.event.runtime = row.event.runtime
                  /\ earlier.event.sequence < row.event.sequence]_vars

Log == INSTANCE AuditLog WITH
           log       <- Events(queue),
           acked     <- {row.event : row \in {r \in queue : r.state = "uploaded"}},
           condemned <- {row.event : row \in {r \in queue : r.state = "failed_permanent"}}

\* Retries, crashes and restarts do to the log what the abstract log allows.
ImplementsAuditLog == Log!Spec

Committed(id) == \E row \in queue : row.event.id = id
Uploaded(id) == \E row \in queue : row.event.id = id /\ row.state = "uploaded"

\* If some process keeps running, every durable event is acknowledged in the
\* end, those of earlier runtimes included.
EverythingDelivered ==
    <>[]running => \A id \in Ids : Committed(id) ~> Uploaded(id)
============================================================================
