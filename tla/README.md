# A TLA+ verification of the sealstack SDK and its reference service

The SDK (`sdk/sealstack`) lets an application record what its functions do as
signed, hash-chained events: each event is stored in a local SQLite queue before
the function runs on, and a background thread uploads it to a service
(`reference-server/server.py`), which checks it, appends it to its own copy of
the chain and returns a signed receipt. Threads, two databases, an unreliable
network and two processes that may die at any time meet in a few hundred lines.
This directory holds TLA+ models of that core, TLC runs over small instances and
proofs, checked by TLAPS, for every instance.

## The system

| component | state | operations | interacts with |
|---|---|---|---|
| Durable queue (`queue.py`) | table `audit_queue` (event, state, receipt, `restart_required`); one connection per user | `append` with the reconciliation of an ambiguous COMMIT, `head`, `has_row`, `select_upload_batch`, `acknowledge`, `mark_retryable`, `mark_permanent`, `close` | called by the client under the runtime lock, by the uploader on a second connection; SQLite's write lock orders the two |
| Client runtime (`client.py`) | `_closed`, `_signing_blocked_reason`, head of the chain, runtime lock | constructor, `append_event`, `block_signing`, `close`, fork hook | owns identity, queue, uploader and directory lock |
| Decorator (`decorator.py`) | per call: `_started`, action id | `begin`, `complete`, `fail`, `_terminal` for wrappers and `ActionContext` | calls `append_event` before and after the business function |
| Directory lock, identity (`identity.py`) | lock file; `identity.json` with active or pending key; halt and back-off of registration | acquire, release, abandon; bootstrap, `ensure_registered`, `sign` | the constructor and `append_event` register; the service assigns the key id |
| Uploader (`uploader.py`) | stop and halt flags, back-off delay | `upload_once`, `_classify`, `_apply_results`, `_strand`, `halt`, `stop` | posts batches; strands under the client's runtime lock |
| Service ingestion (`server.py`) | tables `events`, `receipts`, `agents`, `agent_keys` | `events_batch`, `_ingest` | answers the uploader |
| Service registration and start (`server.py`) | agents, keys; seed file, service key | `_register_agent`, key listings; `initialise` | answers `identity.py` |
| Events, failure log (`events.py`) | two log files | `build_event`, `FailureLog.record` | called by client and decorator |
| Signing, parsing (`signing.py`) | none | canonical JSON, hash, digest, sign, verify, strict parser | everywhere |
| Verifier (`verify.py`) | none | `verify_bundle` | receipts offline |
| Exporters (`export.py`), command line (`cli.py`) | none; output files | `build_*`; `_run_verify`, `_run_export`, `_write_all` | bundles, mapping and key files; the directory lock, for the agent's key |

What is hard about them, and what must be true all the same:

* **Append.** A COMMIT may raise and still have taken effect; the head lives in
  memory, the row on disk. The stored events of a runtime must form one chain,
  and the head must be the highest durable row whenever the next event can be
  signed. In `failure_mode="raise"` no function may run without its durable
  start, and no terminal event may be stored without it in either mode.
* **Shutdown and succession.** `close()` sets a flag without the runtime lock
  while threads are inside `append_event`; the directory then goes to another
  client. Nothing may be written by a client that no longer owns it, and neither
  calls nor `close()` may wait for ever.
* **Upload.** Rows of a runtime must be acknowledged in order although requests
  are lost, repeated, halved and processed after the client gave them up, and
  although either side dies between two commits. A permanent refusal must stop
  its runtime as one step as far as the application's threads can tell.
* **Ingestion.** Whatever candidates arrive in whatever order, the stored events
  of a runtime must be an authentic chain that only grows, with one receipt
  each, and a replay must be answered with the first receipt.
* **Registration.** A key pair exists nowhere but in `identity.json`, and the
  service learns of it from requests that may be lost, late or repeated around
  crashes. The service must never know an agent that the directory lost, and the
  client must sign under the very key id the service has.
* **Service start.** Seed file, organisation and service key are each looked for
  and then made, in steps that another start or a crash can come between. All
  receipts ever issued must verify with the keys that any process lists.
* **Fork.** A child inherits the client, the state of its locks and the locked
  file. It must not append, not unlock the directory under its parent, and not
  keep it when the parent is gone.
* **Failure log.** Threads and forked children decide to rotate on a size that
  may be stale; the two files must stay bounded.
* **Back-off.** Growth, jitter, resets and whatever a `Retry-After` says must
  leave a delay that is neither shorter nor longer than the configured times.
* **Export.** Two files are written one after the other while other commands
  run: the exit code must tell what is on the disk. An artifact must name what
  it lacks, and its link must be to the receipt that was exported before.
* **Verification.** A dozen checks each bind two parts of a bundle. Together
  they must bind everything: VALID of genuine evidence only, of all of it, and
  UNKNOWN wherever more trust could still decide.

`PROJECT.json` lists these hazards line by line with the properties that would
show each one going wrong.

## Modules

| module | models | extends |
|---|---|---|
| `AuditQueue` | the table, its queries and transactions, as operators | |
| `AuditLog` | abstract specification: per runtime a log that only grows, acknowledged in order or condemned from some event on | |
| `AuditClient` | decorator, append protocol, shutdown, crash, local half of the uploader | `AuditQueue`; refines `AuditLog` |
| `MCAuditClient` | thread symmetry for its runs | `AuditClient` |
| `Ingestion` | verdict and effect of `_ingest` on one candidate, as operators | |
| `ReferenceServer` | the service under arbitrary candidates | `Ingestion`; refines `AuditLog` |
| `MCReferenceServer` | a catalogue of candidates | `ReferenceServer` |
| `Delivery` | queue, uploader, network and service together | `AuditQueue`, `Ingestion`; refines `AuditLog` |
| `MCDelivery` | module of its runs | `Delivery` |
| `Registration` | one state directory and its agent, against the service's registration | |
| `MCRegistration` | module of its run | `Registration` |
| `Verifier` | `verify_bundle`, check by check, and a second run with another trust file | |
| `MCVerifier` | the evidence and the trust files | `Verifier` |
| `Export` | the three builders, as operators | |
| `CommandLine` | `verify` and `export` as processes on one file system | `Export` |
| `MCCommandLine` | a runtime of three events, five mappings, 33 argument lists | `CommandLine` |
| `ServiceStart` | `initialise` by several processes, and what they sign with | |
| `FailureLog` | `FailureLog.record` by several writers | |
| `Fork` | a process with a client that forks | |
| `Backoff` | the uploader's delay | |
| `MCLocal` | module of the run of the five parts | `MCCommandLine`, `ServiceStart`, `FailureLog`, `Fork`, `Backoff` |
| `AuditQueueProofs` | lemmas about the table and its transactions | `AuditQueue`, `TLAPS` |
| `AuditClientProofs` | safety and refinement of `AuditClient`, proved | `AuditClient`, `AuditQueueProofs` |
| `ReferenceServerProofs` | safety and refinement of `ReferenceServer`, proved | `ReferenceServer`, `FiniteSetTheorems`, `SequenceTheorems`, `TLAPS` |
| `DeliveryProofs` | safety and refinement of `Delivery`, proved | `Delivery`, `AuditQueueProofs`, `FiniteSetTheorems`, `WellFoundedInduction` |
| `RegistrationProofs` | safety of `Registration`, proved | `Registration`, `TLAPS` |
| `VerifierProofs` | what a verdict means, when it is VALID and when it is final, proved | `Verifier`, `TLAPS` |
| `ServiceStartProofs` | the service is one, proved | `ServiceStart`, `SequenceTheorems`, `TLAPS` |
| `LocalProofs` | who owns the directory, the bounds of the delay and of the log files, what exports tell, proved | `MCLocal`, `ServiceStartProofs`, `FiniteSetTheorems` |

The operators of `AuditQueue` are shared by `AuditClient` and `Delivery`, those
of `Ingestion` by `ReferenceServer` and `Delivery`: a fact about the table or
about the service is stated once.

**`AuditClient`.** An action ends where another thread can interfere: at the
runtime lock, at BEGIN IMMEDIATE (variable `writer` is SQLite's write lock), at
COMMIT, and between COMMIT and the assignment to the head. `pc` is the position
of a thread in `append_event`, `stage` its position in the wrapper. `Build` is
`_require_signable` and `build_event`; `InsertRow`, `Commit` and `CommitRaises`
are `EventQueue.append`; the `Reconcile...` actions are
`_reconcile_ambiguous_commit` with what `append_event` does about each result.
`Conclude` is what `begin` and `_terminal` do with success or failure. `Open`,
`BeginClose`, `StopUploader`, `CloseQueue`, `ReleaseDirectory` are the
constructor and the four steps of `close()`. The service's verdicts are
arbitrary here: `Answer` followed by any `Apply...` per row. A permanent result
takes the uploader, which holds its own lock, to the position `strand`
(`AwaitLock`). There it waits for the runtime lock, without a timeout, and
nothing but that lock takes it on: `Strand`, `StrandRaises` and `StrandUnlocked`
need the lock, `StrandFails` is the transaction that raises once the lock is
held. `AbandonBatch` is for an uploader that waits for no lock. A correlated
answer to half of a batch after a 413, a single row refused with 413, and a
top-level 400 for all rows are covered by `Answer`, `AwaitLock` and `Strand` per
row, and `AbandonBatch` for the rest. A client and its `runtime_id` are one number, since every client
draws a fresh one; the hash of an event is its id, since the hashed bytes
contain the fresh `event_id`. `mark_permanent` may commit and raise only if the
constant `AmbiguousMarks` is TRUE.

**`ReferenceServer`.** One action per candidate (`IngestNext`), since each has a
transaction of its own and nothing is awaited between them; `Respond` and
`Crash` end a batch. The catalogue has a chain of three events, and for every
check a candidate that only this check stops: a rewritten event, a fork, a wrong
link, another agent's event, a wrong claimed hash, a wrong signature, another
organisation, a malformed one. A receipt's number stands for the time it
contains, so that a second receipt for an event would be a different one.

**`Delivery`.** Appending is one step. A request in flight is answered candidate
by candidate (`Ingest`), its response arrives (`Reply`) or does not
(`AttemptFails`); whatever the client gave up stays in `late` and may be
processed at any later time, any number of times. Batches are sets: their order
is that of random uuids. `faults`, chosen at the start among `Scenarios`, is
what the environment may do beyond losing and delaying: stop uploads by a 401
(`halt`), refuse an honest event (`refuse`: revoked agent or key, clocks apart),
refuse a request as a whole (`reject`: a 413 for a single row, which the service
sends for a body over its limit, or a top-level 400 `invalid_schema` for any
number of rows), answer what the service would not say (`garble`: for each row
success with any receipt the service has issued, its own or another row's, or
with none, `missing_previous`, or a conflict), fail a local transaction
(`storage`), restore the service from a backup (`forget`). `refused` is a history
variable: the events that were refused for what they are. An answer that only
says that the predecessor is missing does not count, and neither does an answer
that comes too late to be read.

**`Registration`.** Agent id and key pair are drawn together, so one number
stands for both. `Bootstrap` draws, `WriteSucceeds` replaces `identity.json` and
then the document in memory, `WriteFails` leaves both; `Crash` during a write
leaves either file. `Attempt`, `AttemptFails`, `Refused` and `Activate` are
`ensure_registered` with its retry interval and its halt after any 4xx. A
request given up stays in `late`. `acceptable` says for which agents the name
and environment, persisted at the first start, are such as the service takes.

**`Verifier`.** One action per check of `verify_bundle`, in the order of the
code, over the bundle and then its predecessor; the first that fails decides.
Hashes, fingerprints and signatures are terms, so that equal means made from
equal things. `Signed` and `Issued` are what the agents and the service have
signed; `SignersAssumption` says that nobody else uses their keys and that the
service issues receipts for authentic events only, under a key of its own, which
is what `ReferenceServer` shows of it (`StoredIsAuthentic`); `ChainAssumption`
that an agent signs one event for each place in a runtime, of one organisation
and with the hash of the event before (`AuditClient!HashChain`);
`TimesAssumption` that moments are comparable; `TrustAssumption` that a trust
file which is missing or refused gives no keys. Receipts have contexts of
any kind, fitting or not: the verifier has to check them itself. Checks of one
field are one bit (`shape`, and `wellFormed` of a trust file).

**`CommandLine`.** A command takes the steps of `_run_export`; another command,
a client that opens or closes the state directory, or a kill may come between
any two. `disk` maps paths to contents; a write is whole, or fails and leaves
the file as it was or cut short. `CheckTarget` and `WriteTarget` are the two
loops of `_write_all`. What is built is computed by `Export`: an artifact is a
receipt with its link, the members it has of those its format requires, and the
labels. The hash of a receipt is the receipt, so two links are equal if the
hashed receipts are; that what an artifact holds is determined by event,
mapping, signer, time and link takes a bundle's receipt and key metadata to be
the same in every bundle of an event. `ExportPaths` names the files; a name is a
stem with its suffixes. `FilesAssumption` says of the files at the start that
bundles are evidence of a runtime, with the event before as predecessor, which
`verify` would check and `export` does not (`_verify_link`), and that nothing has
been exported yet.

**`ServiceStart`.** Every file or database step of `initialise` is an action,
since statements commit by themselves. What a start draws is known by the
start's number. `service_keys` is ordered as the query orders it, by a clock
that a second start may read in any order. A start that finds an empty seed
file, a foreign key, or a row inserted before its own fails, as in the code.

**`FailureLog`.** A name is an inode, an open file goes on taking writes after
its name is gone, and a record is its length. `Rename` takes what has the name
by then.

**`Fork`.** The lock of the directory belongs to the open file description that
parent and child share (`openIn`, `flocked`): an unlock by either ends it, and
so does the last close. `coveredByHook` says that the client was in
`_LIVE_CLIENTS` at the fork, which it is from the end of the constructor to the
beginning of `close()`; `heldAtFork` that another thread was in the runtime
lock.

**`Backoff`.** A delay is a whole number of units, jitter any number up to the
interval. `least` follows what the outcomes call for without the jitter.

**`MCLocal`.** These five parts share no state, so one run explores them side by
side: `part`, chosen at the start, says which one moves.

## Runs

| run | cfg | checks |
|---|---|---|
| `client_safety` | `AuditClient.cfg` | `TypeOK`, `HashChain`, `HeadIsDurable`, `TerminalAfterStart`, `RaiseModeAudited`, `NothingBehindFailure`, `AppendOnlyByOwner`, `ImplementsAuditLog` |
| `client_live` | `AuditClientLive.cfg` | `CallEnds`, `CloseEnds` |
| `service` | `ReferenceServer.cfg` | `TypeOK`, `ReplayGetsOriginal`, `StoredIsAuthentic`, `ImplementsAuditLog` |
| `delivery` | `Delivery.cfg` | `TypeOK`, `UploadedIsServed`, `ServiceAtMostOneAhead`, `NothingWaitsForever`, `GivenUpForCause`, `ImplementsAuditLog` |
| `delivery_live` | `DeliveryLive.cfg` | `EverythingDelivered` |
| `registration` | `Registration.cfg` | `TypeOK`, `OneAgentPerDirectory`, `SignsAsRegistered`, `HaltedForCause`, `IdentityIsForever`, `EventuallyRegistered` |
| `verifier` | `Verifier.cfg` | `TypeOK`, `ValidIsGenuine`, `ContextCovers`, `LinkIsGenuine`, `GenuineIsValid`, `VerdictIsStable` |
| `local` | `Local.cfg` | `LocalTypeOK`, `ExportTells`, `SecondLinks`, `OneService`, `LogBounded`, `LockFollowsOwner`, `DelayFits` |
| `client_stranded` | `ClientStranded.cfg` | `NothingBehindFailure`, violated |
| `client_outcome` | `ClientOutcome.cfg` | `OriginalOutcome`, violated |
| `delivery_missing` | `DeliveryMissing.cfg` | `MissingIsRepaired`, violated |
| `fork_hang` | `ForkHang.cfg` | `ChildCallEnds`, violated |

`client_safety` has `AmbiguousMarks = FALSE`, without which neither
`NothingBehindFailure` nor the refinement holds; `client_stranded` has it TRUE
and shows why. The proofs of the other invariants cover both.

`CloseEnds` depends on the order of three locks. `close()` waits for the
uploader, which may be waiting for the runtime lock with its own lock in hand;
it ends because `close()` has given the runtime lock back before it stops the
uploader. The mutant of the run keeps it, and the two wait for each other.

`NothingWaitsForever` is not that no flag stops a runtime, but that the
runtime's lowest unresolved event would be selected now, and that the service
would say accepted or duplicate of it now. `GivenUpForCause` says for what an
event may be given up at all; a refusal that the client gives the service no
reason for (`reject`, `garble`) counts as a cause, since the code has no way to
tell it from a fair one. What it excludes is that a retry, a late request, a
restart, a half-applied answer or a forgetful service condemns an event that
nobody refused.

The runs that end in a violation show where the code and its own documentation
part:

* `decorator.py:6` says the caller always sees the original result or exception;
  `is_supported` recurses outside `digest`'s `try`, and a value nested deeper
  than the recursion limit raises into the caller.
* `client.py:335` says a forked child is refused; `append_event` takes the
  runtime lock before it looks, and the child of a process whose other thread
  was inside the lock waits for ever.
* `uploader.py:250` and `client.py:192` say a permanent failure is propagated
  through its runtime and signing stops; when `mark_permanent`'s COMMIT takes
  effect and raises, `block_signing` is skipped.
* `uploader.py:220` says that a `missing_previous` retries the predecessor or
  stops the runtime. `has_row` asks for the predecessor in any state; with one
  that is uploaded already, and that the service lost, the code does neither and
  sends the same row again and again (`delivery_missing`, in the scenario
  `forget`). That is why `NothingWaitsForever` says nothing of that scenario.

More of the kind was met while modelling. These have no run:

* `client.py:9` says the runtime lock is never held across an HTTP request.
  `append_event` of an unregistered client sends the registration request under
  it (`SendRegistration`, `identity.py:452`), with a timeout of 10 s
  (`identity.py:56`); all other appends and the uploader's `_strand` wait for it.
* `COMPATIBILITY.md:157` says of a noa receipt that `chain.prevHash` is the
  predecessor receipt's `chain.hash`. A bundle carries one predecessor and no
  predecessor of that, so the hash is that of a receipt without a link. The
  first receipt of a runtime has none anyway, and `SecondLinks` holds; from the
  third event on the link differs from the `chain.hash` of the exported
  predecessor. AERF and Agent Receipts compute their links in the same way.
* With one path as both `--out` and `--public-key-out` the public key
  overwrites the artifact and the exit code is 0; two exports to one path that
  both pass the check before either writes do the same to each other.
  `ExportTells` excludes both cases by name (`PathsDistinct`, `Ours`).
* A `Retry-After` of more than 308 digits overflows its float and is not caught
  where others are; the attempt ends, the delay stays (`Unchanged`).

**Bounds.** `AuditClient`: two threads, two clients, two calls (up to four
events). Two threads in one client meet each other and the uploader on all three
locks; two clients give a closing or dead one and its successor on the same
directory, and rows of two runtimes in one batch; two calls give an event behind
an unresolved, an uploaded and a condemned one. A third thread only adds a
waiter. The liveness run has one client and no symmetry. `ReferenceServer`:
eleven candidates, batches of two, a clock of two instants, two agents, two
keys. `Delivery`: two processes of two events, enough for a successor behind an
event in every state and a late request of the first process during the second.
`RequestLimit = 1` makes every batch of two runtimes too large; that a single
row may be too large as well is the scenario `reject`, which the safety run has
and the liveness run has not, since such a row is condemned and never delivered.
The safety run has two scenarios, one with every fault but `forget`, and `forget`
by itself, of which `UploadedIsServed` and `NothingWaitsForever` say nothing.
`delivery_missing` needs one process, two events and a service that forgets the
first. `Registration`: three identities, one more than a
directory could ever need twice over. `Verifier`: two agents, a chain of three
events, two keys of the service and a stranger's, a bundle with a predecessor
with any one or two of its parts replaced (two, since a part and the part that
is to vouch for it are the least a consistent mixture needs), a stranger's
consistent bundle with any one part replaced, and every order of the ends of
sponsor and grant interval around the action. `local`: two commands, any two of 33
argument lists that between them reach every exit, every format in both modes,
events with and without predecessor, digest and alias, default and shared
paths; four starts by two servers, so that a restart meets the remains of two
that raced; three writers and five records of one or two bytes against a limit
of three, so that stale sizes meet twice; an interval of 3 and a maximum of 40,
which is not on the way of doubling. Not covered by these bounds: a runtime that grows without end while its batches are answered
with 413, which could keep a later runtime waiting.

**Deadlock** is not checked as such (`CHECK_DEADLOCK FALSE`): the counters are
bounded, and an application may simply stop calling. That nothing waits for ever
is checked as `CallEnds`, `CloseEnds` and `EverythingDelivered`.

**Fairness.** `AuditClient`: weak fairness of each thread inside an instrumented
call (a business function returns, a lock holder is scheduled, an HTTP request
has a timeout, SQLite a busy timeout, after which `InsertFails` is enabled), of
the uploader thread, and of a shutdown that has begun; none for making calls,
for closing or for crashing. `Delivery`: weak fairness for sending, strong
fairness for what the environment must grant infinitely often: a request tried
again and again is at last processed and answered, a local transaction at last
succeeds. `EverythingDelivered` assumes that some process keeps running and that
the service refuses no event and no request, and does not answer nonsense or
forget. The code's part in it is
that failed rows become selectable again, that halving ends and that rows of
dead runtimes are uploaded by their successors. `Registration`: weak fairness
for what the process does by itself and for time, strong fairness for an answer
in time and a write that succeeds. `EventuallyRegistered` also assumes calls
(nothing but the constructor and `append_event` tries to register), a valid API
key, an agent that nobody makes inactive, and an acceptable name and environment
at the directory's first start: with others every start is refused again, since
the request is persisted with the key and never drawn anew. `Fork`: weak
fairness of the hook, of the child's one thread and of a parent's thread that
holds the runtime lock, which is no more than that they are scheduled; the
counterexample needs none of the parent's. The registration
attempts also stop after a 408 or a 429, which the model's service never sends.

Each passing property is accompanied by a mutant: an operator next to the
definition it replaces ("Mutant of ..."), a plausible bug under which TLC finds
the property violated.

## Proofs

Every theorem is for all values of the constants that satisfy the assumptions of
the module. The assumptions are named below, and TLC evaluates them in the runs.

### The table: `AuditQueueProofs`

What the operators of `AuditQueue` do to any table, for the two models that use
it. `AcknowledgeRows`, `MarkRetryableRows`, `MarkPermanentRows` and `InsertRows`
say which rows a transaction leaves and which it makes. `RetriedKeeps`,
`AcceptedKeeps`, `CondemnedKeeps` and `InsertKeeps` say that the order of states
in a chain survives it: uploaded rows, then unresolved ones or failed ones
(`Ordered`), and no row waits for a restart (`NoRestart`). The hypotheses are
where the order is delicate: only a row that is selectable now may be
acknowledged or condemned, and no row may be inserted behind a failed one.
`BelowSelected`, `OnePerRuntime` and `SelectionIsLocal` are
`select_upload_batch`: below a selected row all is uploaded, a runtime has at
most one, and what happens to one runtime changes no other's.

### The client: `AuditClientProofs`

For all finite or infinite sets of threads, all bounds on runtimes and calls,
both failure modes and `AmbiguousMarks` either way,

    THEOREM Invariant      Spec => []IInv
    THEOREM TypesHold      Spec => []TypeOK
    THEOREM ChainHolds     Spec => []HashChain
    THEOREM HeadHolds      Spec => []HeadIsDurable
    THEOREM TerminalsHold  Spec => []TerminalAfterStart
    THEOREM RaiseModeHolds Spec => []RaiseModeAudited
    THEOREM OwnerAppends   Spec => AppendOnlyByOwner

and, if `mark_permanent` never commits and raises,

    THEOREM NothingBehind  ASSUME ~AmbiguousMarks PROVE Spec => []NothingBehindFailure
    THEOREM Refinement     ASSUME ~AmbiguousMarks PROVE Spec => ImplementsAuditLog

from the module's assumptions: no thread is called "nobody" or "uploader", the
bounds are positive, modes are among the two, `AmbiguousMarks` is Boolean. The
hypothesis of the last two is needed, as `client_stranded` shows.

None of the properties is inductive. The chain is extended by what a thread
built several steps earlier from a head that an ambiguous COMMIT may have left
behind, so `IInv` has to say what every thread knows:

* `Control` - who may be where: a thread inside `append_event` holds the runtime
  lock of its client, which is not blocked, and the uploader does while it
  strands; at most one thread is between INSERT and COMMIT, and `writer` names
  it; clients numbered above `clients` are new.
* `Chained`, `OneRowPerEvent` - the stored events form chains without a double
  id or place, and a row is determined by its event.
* `Heads` - while nobody holds the lock inside an append and signing is
  possible, the head is the highest stored row (`SettledHeads`); and
  `PendingKnown(t)` says of a thread in an append what its pending event is
  relative to head and table: the successor of the head and of the top row until
  COMMIT, either that or already stored in `reconcile`, stored in `advance`.
* `Starts` - every stored terminal event has its start below it, and
  `StartKnown(t)` says that a thread whose call will store a terminal event has
  its start in the table, that in mode raise the business function runs only in
  a started invocation, and that the event in hand is of the kind of its stage.

The proof of each part has one step per action, preceded by lemmas about the
table's transactions (`AcknowledgeKeeps`, `MarkRetryableKeeps`,
`MarkPermanentKeeps`, `InsertAdds`, `AdmitsEvents`), about `QueueHead` (`HeadOfTop`,
`HeadOfNone`), and by `QueueStep`: every step leaves the events of the table as
they are or adds the pending event of a thread at COMMIT. `ChainStep` then needs
only `StoredNext` (that event is the next of its chain), and the proofs about
heads and starts only who that thread is.

`OwnerAppends` needs one part more, `Owning`: only the owner's client is alive,
and an append before its COMMIT belongs to a client that has not disconnected,
or whose connection is closed. A client that has let the directory go can
therefore have a thread inside `append_event`, but none that can COMMIT.

For the other two the fates of the rows come in. `FInv` is `IInv`, `Owning` and

* `Fates` - of a chain, uploaded rows come first and then rows of one fate. No
  row waits for a restart: `_handle_missing_previous` would leave one if the
  predecessor were not in the table, and `Chained` says it is
  (`RetryKeepsRestart`).
* `Selected` - the rows in the uploader's hands are still those that a selection
  would give, but for the one it has just failed and is about to block signing
  for. The application appends above them, and no one else resolves rows.
* `Guarded` - if a row of the owner's runtime has failed, signing is blocked, or
  the uploader has the runtime lock and will block it next; and then no append
  has passed the gate. `_strand` takes the lock before the first write, so there
  is no append in progress at the failure, and none begins before the block.
* `Opened` - every stored event is of a runtime that was opened.

An insertion is then above rows without a failure (`NothingBehind`), a row is
acknowledged when all below it are, and a failure condemns from its row on,
which are the three steps of `AuditLog` (`AcceptAcknowledges`,
`StrandCondemns`, `StoreGrows`, joined in `LogStep`).

### The service: `ReferenceServerProofs`

For any set of candidates, any agents and keys, and any batch size and clock,

    THEOREM Invariant      Spec => []IInv
    THEOREM TypesHold      Spec => []TypeOK
    THEOREM ReplayAnswered Spec => []ReplayGetsOriginal
    THEOREM StoredSigned   Spec => []StoredIsAuthentic
    THEOREM Refinement     Spec => ImplementsAuditLog

Assumed: the bounds are numbers, `NoKey` is no key, equal hashes are of equal
events, and well-formed candidates have what `_validate_event` asks for
(`SchemaAssumption`): a positive sequence number, and no link exactly at the
first. `IInv` says that the tables have the same ids, each once (`TablesMatch`),
and receipts numbers up to their count (`Numbered`); that what a batch will
answer, and all that was ever answered, is in the table of receipts
(`AnswersStored`); that below a stored event every place of its runtime is taken
(`Dense`), so that a candidate that passes `MissesPrevious` and `BreaksChain` is
the next one; and that a stored event's agent has the key it was signed with
(`SignedAsRegistered`), which needs that a key once registered is not replaced.
`_duplicate` comes before the checks of agent and key, and so an identical
candidate is answered with its receipt in every state.

### Queue, uploader, network and service: `DeliveryProofs`

For any number of processes and events, any request limit and any scenarios,

    THEOREM Invariant      Spec => []IInv
    THEOREM TypesHold      Spec => []TypeOK
    THEOREM UploadedServed Spec => []UploadedIsServed
    THEOREM OneAhead       Spec => []ServiceAtMostOneAhead
    THEOREM NothingStuck   Spec => []NothingWaitsForever
    THEOREM CauseHolds     Spec => []GivenUpForCause
    THEOREM Refinement     Spec => ImplementsAuditLog

Besides types, the shape of rows (`Table`) and of chains (`Shape`), and that
nothing is signed behind a failure (`Blocking`), `IInv` says how far the rest
lags behind the queue:

* `InFlight` - the rows of a request are what would be selected now, so nothing
  has resolved them or made their predecessors unresolved since they were read.
* `Known`, `ServedBelow` - service and network have durable events only, and
  below each of them, however late, all rows are uploaded. This is what makes a
  request harmless that is processed long after it was given up: its event is
  stored already, or is still the next one.
* `TablesMatch`, `ReceiptsKept` - each stored event has one receipt; a service
  that forgets nothing has those under way and those in the queue.
* `Honest` - every failed row has a remembered refusal, its own or that of a row
  below it, and every result on its way that would fail its row is remembered
  already. The service could say sequence_conflict only of a candidate that is
  not the one event of its place (`VerdictFacts`), so what is left are the
  refusals that `refused` remembers.

`NothingStuck` follows from the invariant. An unresolved row has a lowest one
below it in its runtime (`LeastNumber`, from the least element of a set of
numbers, hence `WellFoundedInduction`); no row of the runtime waits for a
restart or has failed, so that row is selected (`LowestSelected`). Its
predecessor is uploaded, hence stored by a service that forgets nothing
(`UploadedIsStored`), so the service cannot miss it (`SelectedIsNext`).

### The verifier: `VerifierProofs`

For any evidence and any trust files that satisfy the assumptions of `Verifier`,

    THEOREM Invariant      Spec => []IInv
    THEOREM Decided        Spec => []DInv
    THEOREM TypesHold      Spec => []TypeOK
    THEOREM ValidHolds     Spec => []ValidIsGenuine
    THEOREM ContextCovered Spec => []ContextCovers
    THEOREM LinkReported   Spec => []LinkIsGenuine
    THEOREM StableHolds    Spec => []VerdictIsStable
    THEOREM GenuineHolds   Spec => []GenuineIsValid

`IInv` collects, per position, what the checks before it have established of
the bundle in hand (`Passed`), that the trust file was loaded before the core,
the bundle was through the core before its predecessor and the predecessor
before the link (`InOrder`), and what VALID stands for (`Verified`).
`CoreIsGenuine` is the heart: the trust file's key made the signature of the
receipt, so the service issued it, so it is for an event the agent signed; the
receipt's hash is that event's and the bundle's, so the bundle's event is the
signed one. Only here is it used that hashes do not collide. For intervals,
`MomentsWithin` shows that the comparison of ends the code makes is inclusion.

`DInv` goes the other way, from the evidence to the verdict: `Verdict(b, t)`
composes the checks into a function of bundle and trust file, and whatever check
a run is at, what is left to check decides that verdict (`Deciding`,
`Decides`). For `StableHolds` the function is then compared for two trust files
of which one extends the other: a key that both have is the same in both, and
one that is missing makes the verdict UNKNOWN. For `GenuineHolds` it is
evaluated for genuine evidence, where every check has to pass; that the
comparison of ends is inclusion is needed here in the other direction.

### Registration and the start of the service

`RegistrationProofs` proves, for any number of identities drawn, all of the
safety properties of `Registration`:

    THEOREM Invariant      Spec => []IInv
    THEOREM TypesHold      Spec => []TypeOK
    THEOREM OneAgent       Spec => []OneAgentPerDirectory
    THEOREM SigningHolds   Spec => []SignsAsRegistered
    THEOREM HaltsForCause  Spec => []HaltedForCause
    THEOREM IdentityKept   Spec => IdentityIsForever

`IInv` relates the four places an identity can be in. `ServiceKnows`: what the
service has or will have (a late request) is the agent in the file, under the
key id in the file if there is one. `InMemory`: a process that is not writing
has the file's document in memory, and it asks only while that has no key id.
`Written`: what is being written is a first identity while there is no file, or
the file's own identity with the key id the service has for it; with it the
crash that leaves either file is harmless. `Answered`: a key id on its way is
the one the service has. `Halts`: there is a reason not to try again, which
needs that nobody gives an agent back its authority.

`ServiceStartProofs` proves, for any processes and any number of starts,

    THEOREM Invariant      StartSpec => []IInv
    THEOREM ServiceIsOne   StartSpec => []OneService

`OneService` speaks of the end of a start, so `IInv` has to say what a process
knows on the way (`Justified`): between creation and writing the seed file is
empty; a start past `_read_seed` holds the seed in the file; a start about to
insert a key found none, and all inserted since are of its seed; what is up has
the recorded organisation and a recorded key. `OneWriter` is what O_EXCL gives.
Creating or writing the file then means that no start holds a seed, and that no
key is recorded unless a seed was lost (`KeysAgree`). `KeyAdded` and the two
lemmas before it say that an insertion into the ordered keys, wherever the clock
puts it, adds that key and no other.

### Within one host: `LocalProofs`

    THEOREM OwnerHolds      ForkSpec => []LockFollowsOwner
    THEOREM DelayHolds      BackoffSpec => []DelayFits
    THEOREM LogHolds        LogSpec => []LogBounded
    THEOREM ExportsTell     CommandSpec => []ExportTells
    THEOREM SecondLinksHold CommandSpec => []SecondLinks
    THEOREM SideBySide      LocalSpec => CommandSpec /\ StartSpec /\ LogSpec
                                           /\ ForkSpec /\ BackoffSpec
    THEOREM LocalTypesHold  LocalSpec => []LocalTypeOK

the first from who can hold a descriptor of the locked file in which state
(`Descriptors`) and from what a child has inherited (`Inheritance`), the second,
which is inductive with the types, from `BetweenFits` and `GrowFits`. Nothing in
the code compares `upload_interval` with `max_upload_delay`, and the second
theorem does not assume it either: the delay is at least the smaller of the two,
and at most the maximum, or else it is still the interval as configured. The
assumption leaves out only negative times.

The third is for any finite set of writers and any record lengths that have a
largest (`LogAssumption`). A writer decides on the size of a file that others
have not finished growing, and then writes, whatever the size has become. So the
invariant has to bound a file together with the records on their way to it
(`Pending`): one of the pending writers saw the last size, and its record fits;
each of the others adds at most one longest record (`Room`). Whoever leaves the
file is taken out of that count, and whoever joins has just looked at the size,
or finds a new file. `Counted` says that a new file is empty and that the model
does not run out of files.

The next two are for any commands, argument lists, mappings, events and files
that satisfy `FilesAssumption`. `CommandInv` says per command how far it is
(`Progress`): from the build on it has two targets, the first an artifact that
`Build` makes of arguments and a bundle that were there (`Made`), and those
behind its position may be written (`Allowed`). A file on the disk was there
before, or is a target of a command that has come to its writes, whole or cut
short (`Origins`); the commands write no bundles, so what a command reads is one
of those at the start. `Written` says that a target a command has written and
that no other command writes to is on the disk as it was meant. `MadeIsExact`
and `LinkIsFirst` are about the builders alone: what is reported missing is what
the format requires and the members lack, and the receipt rebuilt for the link
of a second event has the same members as the one exported for the first.

`SideBySide` says that the run over the five parts explores each of them as it
would run alone; the types are then those of the parts.

Only model-checked: liveness (`CallEnds`, `CloseEnds`, `EverythingDelivered`,
`EventuallyRegistered`), which needs ENABLED and is out of the prover's reach.
The four violations are counterexamples and have nothing to prove.

## Not modelled

* Bytes: canonical JSON, Base64, hashes and signatures are injective values.
* A receipt that the service never issued. The uploader compares a receipt's
  event and hash with its row and checks no signature (`_receipt_binds`), so what
  answers with fabricated receipts for the right events is believed;
  `UploadedIsServed` is about answers whose receipts are the service's, if not
  always the right ones.
* `attempt_count`, `last_error`, timestamps other than the service's skew check,
  logging, the queue size warning: nothing reads them back.
* `os.write` of `identity.json` is taken to write all it is given, and the
  permissions and syntax of a file that is read to be right: a start that finds
  them wrong is refused and changes nothing.
* One `ActionContext` entered twice, and the scheduling of the asynchronous
  wrapper, which awaits nothing but the business function.
* The text of logs and of the command line, `rotate-key` (a message), members of
  an exported artifact that are always written, and their encodings. (The
  command line calls an unreadable trust file UNKNOWN before it looks at the
  bundle; `Verifier` starts at `verify_bundle`, and `CommandLine` takes its
  verdict as given.)
* `src/sdk/product` is a second name for the package; tests, site and assets are
  no program logic.

## Plan

Every component with state of its own is modelled, and every safety property of
the passing runs is proved. What is left:

1. `Delivery` takes append as one step and has one key for the agent;
   `AuditClient` takes the service's verdicts as arbitrary. That a behaviour of
   `Delivery`'s queue is one of `AuditClient`'s, with a mapping of its own, would
   connect the two by a theorem and not only by the operators they share.
2. `SecondLinks` for later events says less by design (see above): the link is to
   a receipt without a link. A property of the whole chain needs a decision in
   the code first.
3. The mapping of `Verifier`'s `ChainAssumption` and `SignersAssumption` to what
   `AuditClient` and `ReferenceServer` guarantee is argued in words.
