---------------------------- MODULE AuditClient ----------------------------
(***************************************************************************)
(* One application process and its state directory: the append protocol    *)
(* and the shutdown of AuditClient (sdk/sealstack/client.py), the          *)
(* invocations that drive it (decorator.py), the ambiguous-commit          *)
(* reconciliation of the queue (queue.py) and the local half of the        *)
(* uploader (uploader.py), whose verdicts come from a service that may     *)
(* answer anything.                                                        *)
(*                                                                         *)
(* Every client object has its own fresh runtime_id, so a client and its   *)
(* runtime are the same number here.  The application uses its newest      *)
(* client; calls begun with an older one may still be running while the    *)
(* next one is opened.  The canonical bytes of an event contain its uuid,  *)
(* so the event id serves as the event hash.                               *)
(***************************************************************************)
EXTENDS AuditQueue

CONSTANTS
    Threads,        \* application threads that call instrumented functions
    MaxRuntimes,    \* bound: clients ever constructed on the directory
    MaxCalls,       \* bound: instrumented calls ever made
    FailureModes,   \* the failure_mode values a deployment may choose
    AmbiguousMarks  \* whether the COMMIT of mark_permanent may take effect and raise

ASSUME ThreadsAssumption == Threads \cap {"nobody", "uploader"} = {}
ASSUME BoundsAssumption == MaxRuntimes \in Nat \ {0} /\ MaxCalls \in Nat \ {0}
ASSUME ModesAssumption == FailureModes \subseteq {"continue", "raise"}
ASSUME MarksAssumption == AmbiguousMarks \in BOOLEAN

Runtimes == 1..MaxRuntimes
Calls == 1..MaxCalls
Kinds == {"started", "terminal"}
Ids == Calls \X Kinds
Hashes == Ids \cup {NoHash}

VARIABLES
    queue,       \* the table of audit_queue.db
    registered,  \* identity.json holds an active key, Identity.can_sign
    mode,        \* failure_mode
    owner,       \* client that holds the directory lock, 0 when it is free
    clients,     \* clients constructed so far; the newest is the one in use
    calls,       \* invocations made so far; an action_id is its number
    phase,       \* per client: life cycle up to _release_resources
    blocked,     \* per client: _signing_blocked_reason is set
    head,        \* per client: _head_sequence and _head_hash
    conn,        \* per client: connection of the runtime's EventQueue
    lock,        \* per client: holder of the runtime lock
    writer,      \* thread whose write transaction is open, or "nobody"
    stage,       \* per thread: position in the decorator's wrapper
    pc,          \* per thread: position in append_event, "out" outside it
    use,         \* per thread: client its call goes to
    action,      \* per thread: action_id of its call
    started,     \* per thread: _Invocation._started
    pending,     \* per thread: the PendingEvent it built
    outcome,     \* per thread: what the caller of the last call got
    upload,      \* the uploader of the owner
    batch        \* rows selected and not yet settled by the uploader

diskVars == <<queue, registered>>
lifeVars == <<mode, owner, clients, phase>>
clientVars == <<lifeVars, blocked, head, conn, lock, writer>>
callVars == <<calls, stage, use, action, started, outcome>>
threadVars == <<callVars, pc, pending>>
uploadVars == <<upload, batch>>
vars == <<diskVars, clientVars, threadVars, uploadVars>>

NoEvent == [id |-> NoHash, hash |-> NoHash, runtime |-> 0, sequence |-> 0,
            prev |-> NoHash, action |-> 0, kind |-> "started"]

Event == [id : Hashes, hash : Hashes, runtime : Runtimes \cup {0}, sequence : Nat,
          prev : Hashes, action : Calls \cup {0}, kind : Kinds]

Row == [event : Event, state : RowStates, restart : BOOLEAN,
        receipt : {NoReceipt} \cup {<<id>> : id \in Hashes}]

DiskTypes ==
    /\ queue \subseteq Row
    /\ registered \in BOOLEAN

ClientTypes ==
    /\ mode \in FailureModes
    /\ owner \in Runtimes \cup {0}
    /\ clients \in 0..MaxRuntimes
    /\ phase \in [Runtimes -> {"new", "open", "closing", "stopped", "disconnected",
                               "released", "dead"}]
    /\ blocked \in [Runtimes -> BOOLEAN]
    /\ head \in [Runtimes -> [sequence : Nat, hash : Hashes]]
    /\ conn \in [Runtimes -> {"open", "closed"}]
    /\ lock \in [Runtimes -> Threads \cup {"nobody", "uploader"}]
    /\ writer \in Threads \cup {"nobody"}

ThreadTypes ==
    /\ calls \in 0..MaxCalls
    /\ stage \in [Threads -> {"idle", "start", "business", "terminal"}]
    /\ pc \in [Threads -> {"out", "register", "insert", "commit", "reconcile", "advance"}]
    /\ use \in [Threads -> Runtimes \cup {0}]
    /\ action \in [Threads -> Calls \cup {0}]
    /\ started \in [Threads -> BOOLEAN]
    /\ pending \in [Threads -> Event]
    /\ outcome \in [Threads -> {"none", "original", "audit_failure", "digest_error"}]

UploadTypes ==
    /\ upload \in {"off", "idle", "halted", "sent", "apply", "strand", "block"}
    /\ batch \subseteq Row

TypeOK == DiskTypes /\ ClientTypes /\ ThreadTypes /\ UploadTypes

Init ==
    /\ queue = {}
    /\ registered \in BOOLEAN
    /\ mode \in FailureModes
    /\ owner = 0
    /\ clients = 0
    /\ calls = 0
    /\ phase = [r \in Runtimes |-> "new"]
    /\ blocked = [r \in Runtimes |-> FALSE]
    /\ head = [r \in Runtimes |-> EmptyHead]
    /\ conn = [r \in Runtimes |-> "closed"]
    /\ lock = [r \in Runtimes |-> "nobody"]
    /\ writer = "nobody"
    /\ stage = [t \in Threads |-> "idle"]
    /\ pc = [t \in Threads |-> "out"]
    /\ use = [t \in Threads |-> 0]
    /\ action = [t \in Threads |-> 0]
    /\ started = [t \in Threads |-> FALSE]
    /\ pending = [t \in Threads |-> NoEvent]
    /\ outcome = [t \in Threads |-> "none"]
    /\ upload = "off"
    /\ batch = {}
-----------------------------------------------------------------------------
(* Construction and shutdown of a client. *)

\* __init__: takes the directory lock before anything else, tries to register,
\* opens the queue, draws a runtime_id and starts the uploader.
Open ==
    /\ owner = 0
    /\ clients < MaxRuntimes
    /\ clients' = clients + 1
    /\ owner' = clients'
    /\ phase' = [phase EXCEPT ![clients'] = "open"]
    /\ conn' = [conn EXCEPT ![clients'] = "open"]
    /\ registered' \in {registered, TRUE}
    /\ upload' = "idle"
    /\ UNCHANGED <<queue, mode, blocked, head, lock, writer, threadVars, batch>>

\* Mutant of BeginClose: close() takes the runtime lock and keeps it.
BeginCloseLocked ==
    /\ owner # 0 /\ phase[owner] = "open"
    /\ lock[owner] = "nobody"
    /\ lock' = [lock EXCEPT ![owner] = "close"]
    /\ phase' = [phase EXCEPT ![owner] = "closing"]
    /\ UNCHANGED <<diskVars, mode, owner, clients, blocked, head, conn, writer,
                   threadVars, uploadVars>>

\* close() sets _closed without the runtime lock, then Uploader.stop sets the
\* stop event.
BeginClose ==
    /\ owner # 0 /\ phase[owner] = "open"
    /\ phase' = [phase EXCEPT ![owner] = "closing"]
    /\ UNCHANGED <<diskVars, mode, owner, clients, blocked, head, conn, lock, writer,
                   threadVars, uploadVars>>

\* Uploader.stop returns once it has the uploader's lock, which upload_once
\* holds for a whole attempt.
StopUploader ==
    /\ owner # 0 /\ phase[owner] = "closing"
    /\ upload \in {"idle", "halted"}
    /\ phase' = [phase EXCEPT ![owner] = "stopped"]
    /\ upload' = "off"
    /\ UNCHANGED <<diskVars, mode, owner, clients, blocked, head, conn, lock, writer,
                   threadVars, batch>>

\* Mutant of CloseQueue: the connection of the runtime stays open.
CloseQueueForgotten ==
    /\ owner # 0 /\ phase[owner] = "stopped"
    /\ phase' = [phase EXCEPT ![owner] = "disconnected"]
    /\ UNCHANGED <<diskVars, mode, owner, clients, blocked, head, conn, lock, writer,
                   threadVars, uploadVars>>

\* queue.close(): an open write transaction of this connection is rolled back.
CloseQueue ==
    /\ owner # 0 /\ phase[owner] = "stopped"
    /\ phase' = [phase EXCEPT ![owner] = "disconnected"]
    /\ conn' = [conn EXCEPT ![owner] = "closed"]
    /\ writer' = IF writer \in Threads /\ use[writer] = owner THEN "nobody" ELSE writer
    /\ UNCHANGED <<diskVars, mode, owner, clients, blocked, head, lock, threadVars,
                   uploadVars>>

ReleaseDirectory ==
    /\ owner # 0 /\ phase[owner] = "disconnected"
    /\ phase' = [phase EXCEPT ![owner] = "released"]
    /\ owner' = 0
    /\ UNCHANGED <<diskVars, mode, clients, blocked, head, conn, lock, writer,
                   threadVars, uploadVars>>

\* The process dies: the operating system drops the directory lock, SQLite
\* rolls an unfinished transaction back at the next open, memory is gone.
Crash ==
    /\ owner # 0
    /\ owner' = 0
    /\ phase' = [r \in Runtimes |-> IF phase[r] = "new" THEN "new" ELSE "dead"]
    /\ conn' = [r \in Runtimes |-> "closed"]
    /\ lock' = [r \in Runtimes |-> "nobody"]
    /\ writer' = "nobody"
    /\ stage' = [t \in Threads |-> "idle"]
    /\ pc' = [t \in Threads |-> "out"]
    /\ use' = [t \in Threads |-> 0]
    /\ action' = [t \in Threads |-> 0]
    /\ started' = [t \in Threads |-> FALSE]
    /\ pending' = [t \in Threads |-> NoEvent]
    /\ outcome' = [t \in Threads |-> "none"]
    /\ upload' = "off"
    /\ batch' = {}
    /\ UNCHANGED <<diskVars, mode, clients, blocked, head, calls>>
-----------------------------------------------------------------------------
(* The decorator: start, business function, terminal event. *)

\* The wrapper returns to its caller; the _Invocation is gone.
Return(t, result) ==
    /\ stage' = [stage EXCEPT ![t] = "idle"]
    /\ outcome' = [outcome EXCEPT ![t] = result]
    /\ use' = [use EXCEPT ![t] = 0]
    /\ action' = [action EXCEPT ![t] = 0]
    /\ started' = [started EXCEPT ![t] = FALSE]

\* wrapper(): prepare the invocation, then begin().
Invoke(t) ==
    /\ stage[t] = "idle"
    /\ calls < MaxCalls
    /\ clients # 0 /\ phase[clients] # "dead"
    /\ calls' = calls + 1
    /\ action' = [action EXCEPT ![t] = calls']
    /\ use' = [use EXCEPT ![t] = clients]
    /\ stage' = [stage EXCEPT ![t] = "start"]
    /\ outcome' = [outcome EXCEPT ![t] = "none"]
    /\ UNCHANGED <<diskVars, clientVars, pc, started, pending, uploadVars>>

\* is_supported recurses outside the try of digest(): a value nested deeper
\* than the interpreter's recursion limit raises out of input_digest_for_call,
\* before the business function, or out of complete(), after it.
DigestRaises(t) ==
    /\ \/ /\ stage[t] = "idle"
          /\ calls < MaxCalls
          /\ clients # 0 /\ phase[clients] # "dead"
          /\ calls' = calls + 1
       \/ /\ stage[t] = "business"
          /\ UNCHANGED calls
    /\ Return(t, "digest_error")
    /\ UNCHANGED <<diskVars, clientVars, pc, pending, uploadVars>>

\* Mutant of FinishBusiness: _terminal does not look at _started.
FinishAlwaysTerminal(t) ==
    /\ stage[t] = "business"
    /\ stage' = [stage EXCEPT ![t] = "terminal"]
    /\ UNCHANGED <<diskVars, clientVars, calls, use, action, started, outcome, pc, pending,
                   uploadVars>>

\* The business function returned or raised; _terminal does nothing for an
\* invocation whose start was not durably committed.
FinishBusiness(t) ==
    /\ stage[t] = "business"
    /\ IF started[t]
         THEN /\ stage' = [stage EXCEPT ![t] = "terminal"]
              /\ UNCHANGED <<use, action, started, outcome>>
         ELSE Return(t, "original")
    /\ UNCHANGED <<diskVars, clientVars, calls, pc, pending, uploadVars>>

\* What begin() and _terminal() do with the outcome of append_event.
Conclude(t, committed) ==
    /\ pc' = [pc EXCEPT ![t] = "out"]
    /\ pending' = [pending EXCEPT ![t] = NoEvent]
    /\ IF stage[t] = "start" /\ (committed \/ mode = "continue")
         THEN /\ stage' = [stage EXCEPT ![t] = "business"]
              /\ started' = [started EXCEPT ![t] = committed]
              /\ UNCHANGED <<use, action, outcome>>
         ELSE Return(t, IF stage[t] = "start" THEN "audit_failure" ELSE "original")
    /\ UNCHANGED calls
-----------------------------------------------------------------------------
(* append_event, under the runtime lock. *)

Signable(r) == phase[r] = "open" /\ ~blocked[r]

Wants(t) == pc[t] = "out" /\ stage[t] \in {"start", "terminal"}

CanLock(t) == Wants(t) /\ lock[use[t]] = "nobody"

\* build_event, canonicalize, sha256_hash and sign.
NextEvent(t) ==
    LET r == use[t]
        kind == IF stage[t] = "start" THEN "started" ELSE "terminal"
        id == <<action[t], kind>>
    IN  [id |-> id, hash |-> id, runtime |-> r, sequence |-> head[r].sequence + 1,
         prev |-> head[r].hash, action |-> action[t], kind |-> kind]

Unlock(t) == lock' = [lock EXCEPT ![use[t]] = "nobody"]

\* _require_signable raises: closed, blocked, or not registered and either
\* halted or too early for another attempt.
Refuse(t) ==
    /\ CanLock(t)
    /\ ~Signable(use[t]) \/ ~registered
    /\ Conclude(t, FALSE)
    /\ UNCHANGED <<diskVars, clientVars, uploadVars>>

\* _require_signable passes, and the event is built from the head.
Build(t) ==
    /\ CanLock(t)
    /\ Signable(use[t]) /\ registered
    /\ lock' = [lock EXCEPT ![use[t]] = t]
    /\ pending' = [pending EXCEPT ![t] = NextEvent(t)]
    /\ pc' = [pc EXCEPT ![t] = "insert"]
    /\ UNCHANGED <<diskVars, lifeVars, blocked, head, conn, writer, callVars,
                   uploadVars>>

\* An unregistered identity sends its registration request from here.
SendRegistration(t) ==
    /\ CanLock(t)
    /\ Signable(use[t]) /\ ~registered
    /\ lock' = [lock EXCEPT ![use[t]] = t]
    /\ pc' = [pc EXCEPT ![t] = "register"]
    /\ UNCHANGED <<diskVars, lifeVars, blocked, head, conn, writer, callVars, pending,
                   uploadVars>>

RegistrationSucceeds(t) ==
    /\ pc[t] = "register"
    /\ registered' = TRUE
    /\ pending' = [pending EXCEPT ![t] = NextEvent(t)]
    /\ pc' = [pc EXCEPT ![t] = "insert"]
    /\ UNCHANGED <<queue, clientVars, callVars, uploadVars>>

RegistrationFails(t) ==
    /\ pc[t] = "register"
    /\ Unlock(t)
    /\ Conclude(t, FALSE)
    /\ UNCHANGED <<diskVars, lifeVars, blocked, head, conn, writer, uploadVars>>

\* BEGIN IMMEDIATE and INSERT.
InsertRow(t) ==
    /\ pc[t] = "insert"
    /\ conn[use[t]] = "open" /\ writer = "nobody"
    /\ Admits(queue, pending[t])
    /\ writer' = t
    /\ pc' = [pc EXCEPT ![t] = "commit"]
    /\ UNCHANGED <<diskVars, lifeVars, blocked, head, conn, lock, callVars, pending,
                   uploadVars>>

\* Mutant of InsertFails: the lock is not released on the error path.
InsertFailsLocked(t) ==
    /\ pc[t] = "insert"
    /\ Conclude(t, FALSE)
    /\ UNCHANGED <<diskVars, clientVars, uploadVars>>

\* Any error up to the INSERT is a definite failure: no write lock within the
\* busy timeout, no space, an event that cannot be built.
InsertFails(t) ==
    /\ pc[t] = "insert"
    /\ Unlock(t)
    /\ Conclude(t, FALSE)
    /\ UNCHANGED <<diskVars, lifeVars, blocked, head, conn, writer, uploadVars>>

Commit(t) ==
    /\ pc[t] = "commit" /\ conn[use[t]] = "open"
    /\ queue' = Insert(queue, pending[t])
    /\ writer' = "nobody"
    /\ pc' = [pc EXCEPT ![t] = "advance"]
    /\ UNCHANGED <<registered, lifeVars, blocked, head, conn, lock, callVars, pending,
                   uploadVars>>

\* COMMIT raises: the row may or may not be there.  The connection is dropped.
CommitRaises(t) ==
    /\ pc[t] = "commit"
    /\ \/ queue' = queue
       \/ conn[use[t]] = "open" /\ queue' = Insert(queue, pending[t])
    /\ conn' = [conn EXCEPT ![use[t]] = "closed"]
    /\ writer' = IF writer = t THEN "nobody" ELSE writer
    /\ pc' = [pc EXCEPT ![t] = "reconcile"]
    /\ UNCHANGED <<registered, lifeVars, blocked, head, lock, callVars, pending,
                   uploadVars>>

\* The reopened queue cannot be read, or holds other bytes: block signing.  The
\* connection, if there is one, is never used again.
ReconcileBlocks(t) ==
    /\ pc[t] = "reconcile"
    /\ blocked' = [blocked EXCEPT ![use[t]] = TRUE]
    /\ Unlock(t)
    /\ Conclude(t, FALSE)
    /\ UNCHANGED <<diskVars, lifeVars, head, conn, writer, uploadVars>>

\* Mutant of ReconcileAbsent: a queue that can be reopened counts as a commit.
ReconcileAbsentTrusted(t) ==
    /\ pc[t] = "reconcile"
    /\ pending[t] \notin Events(queue)
    /\ conn' = [conn EXCEPT ![use[t]] = "open"]
    /\ Unlock(t)
    /\ Conclude(t, TRUE)
    /\ UNCHANGED <<diskVars, lifeVars, blocked, head, writer, uploadVars>>

ReconcileAbsent(t) ==
    /\ pc[t] = "reconcile"
    /\ pending[t] \notin Events(queue)
    /\ conn' = [conn EXCEPT ![use[t]] = "open"]
    /\ Unlock(t)
    /\ Conclude(t, FALSE)
    /\ UNCHANGED <<diskVars, lifeVars, blocked, head, writer, uploadVars>>

\* Mutant of ReconcilePresent: an exception from COMMIT counts as a failure.
ReconcilePresentDenied(t) ==
    /\ pc[t] = "reconcile"
    /\ pending[t] \in Events(queue)
    /\ conn' = [conn EXCEPT ![use[t]] = "open"]
    /\ Unlock(t)
    /\ Conclude(t, FALSE)
    /\ UNCHANGED <<diskVars, lifeVars, blocked, head, writer, uploadVars>>

\* The row is there: append_event installs the head that the queue reports.
ReconcilePresent(t) ==
    /\ pc[t] = "reconcile"
    /\ pending[t] \in Events(queue)
    /\ conn' = [conn EXCEPT ![use[t]] = "open"]
    /\ head' = [head EXCEPT ![use[t]] = QueueHead(queue, use[t])]
    /\ Unlock(t)
    /\ Conclude(t, TRUE)
    /\ UNCHANGED <<diskVars, lifeVars, blocked, writer, uploadVars>>

\* Mutant of Advance: the hash of the head is not updated.
AdvanceSequenceOnly(t) ==
    /\ pc[t] = "advance"
    /\ head' = [head EXCEPT ![use[t]].sequence = pending[t].sequence]
    /\ Unlock(t)
    /\ Conclude(t, TRUE)
    /\ UNCHANGED <<diskVars, lifeVars, blocked, conn, writer, uploadVars>>

\* The plain COMMIT: advance the head to the event just written.
Advance(t) ==
    /\ pc[t] = "advance"
    /\ head' = [head EXCEPT ![use[t]] =
                    [sequence |-> pending[t].sequence, hash |-> pending[t].hash]]
    /\ Unlock(t)
    /\ Conclude(t, TRUE)
    /\ UNCHANGED <<diskVars, lifeVars, blocked, conn, writer, uploadVars>>
-----------------------------------------------------------------------------
(* The uploader thread of the owner, on a connection of its own. *)

Select ==
    /\ owner # 0 /\ phase[owner] = "open"
    /\ upload = "idle"
    /\ SelectUploadBatch(queue) # {}
    /\ batch' = SelectUploadBatch(queue)
    /\ upload' = "sent"
    /\ UNCHANGED <<diskVars, clientVars, threadVars>>

\* A transport failure, a retryable or unexpected status, a malformed or an
\* uncorrelated answer: nothing is acknowledged.  401, 403 and the like also
\* stop automatic uploads until a restart.
RetryBatch ==
    /\ upload = "sent" /\ writer = "nobody"
    /\ queue' = MarkRetryable(queue, {row.event.id : row \in batch}, FALSE)
    /\ batch' = {}
    /\ upload' \in {"idle", "halted"}
    /\ UNCHANGED <<registered, clientVars, threadVars>>

\* A correlated answer, one result per row, applied row by row; or a status that
\* condemns the rows: 413 for a single one, 400 for a schema it does not know.
Answer ==
    /\ upload = "sent"
    /\ upload' = "apply"
    /\ UNCHANGED <<diskVars, clientVars, threadVars, batch>>

\* Rows of different runtimes, in the order of their random runtime_ids.
NextResult(row) == upload = "apply" /\ writer = "nobody" /\ row \in batch

Settle(row) ==
    /\ batch' = batch \ {row}
    /\ upload' = IF batch' = {} THEN "idle" ELSE "apply"

\* accepted or duplicate, with a receipt that binds this event.
ApplyAccepted(row) ==
    /\ NextResult(row)
    /\ queue' = Acknowledge(queue, row.event.id, <<row.event.id>>)
    /\ Settle(row)
    /\ UNCHANGED <<registered, clientVars, threadVars>>

\* An unusable receipt, or missing_previous: a restart is needed only when the
\* local predecessor is gone.
ApplyRetry(row) ==
    /\ NextResult(row)
    /\ \E missing \in BOOLEAN :
           queue' = MarkRetryable(queue, {row.event.id},
                        /\ missing
                        /\ row.event.sequence # 1
                        /\ ~HasRow(queue, row.event.runtime, row.event.sequence - 1))
    /\ Settle(row)
    /\ UNCHANGED <<registered, clientVars, threadVars>>

\* _strand, for some row: the uploader, which holds its own lock, waits for the
\* runtime lock of the live client, and there is no timeout.
AwaitLock ==
    /\ upload = "apply" /\ batch # {}
    /\ upload' = "strand"
    /\ UNCHANGED <<diskVars, clientVars, threadVars, batch>>

\* Mutant of Strand: the transaction runs outside the runtime lock.
StrandUnlocked(row) ==
    /\ upload = "strand" /\ writer = "nobody" /\ row \in batch
    /\ queue' = MarkPermanent(queue, row.event)
    /\ upload' = "block"
    /\ UNCHANGED <<registered, clientVars, threadVars, batch>>

\* A permanent verdict: the runtime lock covers the transaction and
\* block_signing together.
Strand(row) ==
    /\ upload = "strand" /\ writer = "nobody" /\ row \in batch
    /\ lock[owner] = "nobody"
    /\ lock' = [lock EXCEPT ![owner] = "uploader"]
    /\ queue' = MarkPermanent(queue, row.event)
    /\ upload' = "block"
    /\ UNCHANGED <<registered, lifeVars, blocked, head, conn, writer, threadVars,
                   batch>>

\* The COMMIT of mark_permanent raises although it took effect: _transaction has
\* no reconciliation, the exception ends the attempt before block_signing.
StrandRaises(row) ==
    /\ AmbiguousMarks
    /\ upload = "strand" /\ writer = "nobody" /\ row \in batch
    /\ lock[owner] = "nobody"
    /\ queue' = MarkPermanent(queue, row.event)
    /\ batch' = {}
    /\ upload' = "idle"
    /\ UNCHANGED <<registered, clientVars, threadVars>>

\* The transaction fails without an effect: with its exception the uploader
\* leaves the runtime lock again, and the rest of the answer is lost.
StrandFails ==
    /\ upload = "strand"
    /\ lock[owner] = "nobody"
    /\ batch' = {}
    /\ upload' = "idle"
    /\ UNCHANGED <<diskVars, clientVars, threadVars>>

BlockSigning(row) ==
    /\ upload = "block"
    /\ row \in batch
    /\ \E failed \in queue : failed.event = row.event /\ failed.state = "failed_permanent"
    /\ blocked' = IF row.event.runtime = owner THEN [blocked EXCEPT ![owner] = TRUE]
                  ELSE blocked
    /\ lock' = [lock EXCEPT ![owner] = "nobody"]
    /\ Settle(row)
    /\ UNCHANGED <<diskVars, lifeVars, head, conn, writer, threadVars>>

\* Another transaction of the uploader fails: the rest of the answer is lost.
AbandonBatch ==
    /\ upload \in {"sent", "apply"}
    /\ batch' = {}
    /\ upload' = "idle"
    /\ UNCHANGED <<diskVars, clientVars, threadVars>>
-----------------------------------------------------------------------------
Append(t) ==
    \/ Refuse(t) \/ Build(t)
    \/ SendRegistration(t) \/ RegistrationSucceeds(t) \/ RegistrationFails(t)
    \/ InsertRow(t) \/ InsertFails(t) \/ Commit(t) \/ CommitRaises(t)
    \/ ReconcileBlocks(t) \/ ReconcileAbsent(t) \/ ReconcilePresent(t) \/ Advance(t)

Apply(row) ==
    \/ ApplyAccepted(row) \/ ApplyRetry(row)
    \/ Strand(row) \/ StrandRaises(row) \/ BlockSigning(row)

Upload ==
    \/ Select \/ RetryBatch \/ Answer \/ AwaitLock \/ StrandFails \/ AbandonBatch
    \/ \E row \in batch : Apply(row)

Shutdown == StopUploader \/ CloseQueue \/ ReleaseDirectory

Next ==
    \/ Open \/ BeginClose \/ Crash \/ Shutdown
    \/ \E t \in Threads : Invoke(t) \/ DigestRaises(t) \/ FinishBusiness(t) \/ Append(t)
    \/ Upload

Spec == Init /\ [][Next]_vars

\* A business function returns, a lock holder runs, an HTTP request times out,
\* a thread that has begun to close goes on: the scheduler runs every thread.
\* Nothing obliges the application to call or to close, nor the process to die.
Fairness ==
    /\ \A t \in Threads : WF_vars(FinishBusiness(t)) /\ WF_vars(Append(t))
    /\ WF_vars(Upload)
    /\ WF_vars(Shutdown)

FairSpec == Spec /\ Fairness
-----------------------------------------------------------------------------
(* Properties. *)

InFlight(r) == \E t \in Threads : use[t] = r /\ pc[t] \in {"reconcile", "advance"}

\* Every stored event extends its runtime's chain: sequence 1 starts it, any
\* other event carries the hash of a stored event one sequence below, and no
\* two events share an id or a place (append_event, _reconcile_ambiguous_commit).
HashChain ==
    \A row \in queue :
        /\ IF row.event.sequence = 1 THEN row.event.prev = NoHash
           ELSE \E below \in queue :
                    /\ below.event.runtime = row.event.runtime
                    /\ below.event.sequence = row.event.sequence - 1
                    /\ below.event.hash = row.event.prev
        /\ \A other \in queue :
               \/ other.event.id = row.event.id
               \/ other.event.runtime = row.event.runtime
                   /\ other.event.sequence = row.event.sequence
               => other = row

\* Whenever the next event could be signed, the head in memory is the highest
\* durable row: neither an ambiguous COMMIT nor a lost one makes them differ.
HeadIsDurable ==
    \A r \in Runtimes : Signable(r) /\ ~InFlight(r) => head[r] = QueueHead(queue, r)

\* A permanent failure leaves nothing that would wait for ever behind it: no
\* thread slips an event in between the marking and block_signing (_strand), and
\* the client creates no signed event behind it "until restart" (client.py:192).
NothingBehindFailure ==
    \A row, failed \in queue :
        /\ failed.state = "failed_permanent"
        /\ row.event.runtime = failed.event.runtime
        => row.state \notin Unresolved

\* A terminal event is stored only behind the stored start of its own action, in
\* the same runtime (decorator.py: no terminal event for an unstarted action).
TerminalAfterStart ==
    \A row \in queue : row.event.kind = "terminal" =>
        \E start \in queue :
            /\ start.event.kind = "started"
            /\ start.event.action = row.event.action
            /\ start.event.runtime = row.event.runtime
            /\ start.event.sequence < row.event.sequence

\* With failure_mode="raise" the business function runs only once its start is
\* durable, whatever COMMIT reported (_Invocation.begin).
RaiseModeAudited ==
    \A t \in Threads : stage[t] = "business" /\ mode = "raise" =>
        \E row \in queue : row.event.kind = "started" /\ row.event.action = action[t]

\* What is stored stays stored, and a new event belongs to the runtime whose
\* client holds the directory: a call that outlives close() writes nothing into
\* a directory another client may own by then.
AppendOnlyByOwner ==
    [][/\ Events(queue) \subseteq Events(queue')
       /\ \A event \in Events(queue') \ Events(queue) :
              owner # 0 /\ event.runtime = owner]_vars

\* An instrumented call ends: no combination of a busy uploader, a storage
\* failure and a shutdown leaves its thread waiting for the runtime lock.
CallEnds == \A t \in Threads : stage[t] # "idle" ~> stage[t] = "idle"

\* close() ends: it waits for the uploader, the uploader without a timeout for
\* the runtime lock (_strand), a thread with that lock for the database, and no
\* one of them for something that close() keeps.
CloseEnds == \A r \in Runtimes : phase[r] = "closing" ~> phase[r] \in {"released", "dead"}

Log == INSTANCE AuditLog WITH
           log       <- Events(queue),
           acked     <- {row.event : row \in {r \in queue : r.state = "uploaded"}},
           condemned <- {row.event : row \in {r \in queue : r.state = "failed_permanent"}}

\* The threads, the transactions, the crashes and the restarts together do what
\* the abstract audit log allows, and nothing else.
ImplementsAuditLog == Log!Spec

\* decorator.py:6: the "original result or exception is always what the caller
\* sees" unless failure_mode="raise" refused the start.
OriginalOutcome ==
    \A t \in Threads :
        \/ outcome[t] \in {"none", "original"}
        \/ outcome[t] = "audit_failure" /\ mode = "raise"
============================================================================
