---------------------------- MODULE Registration ----------------------------
(***************************************************************************)
(* The identity of one state directory and its registration: Identity and  *)
(* IdentityStore (sdk/sealstack/identity.py) against _register_agent of    *)
(* the reference service.  The agent_id and the key pair are drawn         *)
(* together, so an agent's number stands for both, its fingerprint too;    *)
(* the service draws the key_id.  Everything here runs under the directory *)
(* lock and the runtime lock: there is one process and one attempt at a    *)
(* time, and requests of attempts that were given up.                      *)
(*                                                                         *)
(* os.write is taken to write all it is given.                             *)
(***************************************************************************)
EXTENDS Integers

CONSTANT MaxAgents      \* bound: identities ever drawn for the directory

ASSUME AgentsAssumption == MaxAgents \in Nat \ {0}

Agents == 1..MaxAgents
KeyIds == Agents

\* A document of identity.json: a pending key as long as it has no key_id.
NoDocument == [agent |-> 0, key |-> 0]
Document == [agent : Agents \cup {0}, key : KeyIds \cup {0}]

\* The answers to a registration: none yet, any 4xx, or a key_id.
NoAnswer == 0
Rejected == -1

VARIABLES
    file,           \* identity.json
    drawn,          \* identities drawn so far
    acceptable,     \* agents whose persisted name and environment the service takes
    up,             \* a client is being constructed or running
    constructing,   \* it has not left its constructor
    authorised,     \* its API key is the service's
    memory,         \* Identity._document
    halted,         \* _registration_halted
    waiting,        \* _last_attempt is less than REGISTRATION_RETRY_SECONDS ago
    pc,             \* position in Identity.__init__ and ensure_registered
    draft,          \* the document that is being written
    answer,         \* the service's answer to the request in flight
    late,           \* agents with requests given up, still in the network
    keyOf,          \* the service's tables agents and agent_keys
    revoked         \* agents an operator of the service made inactive

processVars == <<up, constructing, authorised, memory, halted, waiting, pc, draft>>
serviceVars == <<keyOf, revoked>>
drawnVars == <<drawn, acceptable>>
vars == <<file, drawnVars, processVars, answer, late, serviceVars>>

TypeOK ==
    /\ file \in Document
    /\ drawn \in 0..MaxAgents
    /\ acceptable \subseteq 1..drawn
    /\ up \in BOOLEAN /\ constructing \in BOOLEAN /\ authorised \in BOOLEAN
    /\ memory \in Document
    /\ halted \in BOOLEAN /\ waiting \in BOOLEAN
    /\ pc \in {"idle", "ensure", "sent", "write"}
    /\ draft \in Document
    /\ answer \in KeyIds \cup {NoAnswer, Rejected}
    /\ late \subseteq Agents
    /\ keyOf \in [Agents -> KeyIds \cup {0}]
    /\ revoked \subseteq Agents

Init ==
    /\ file = NoDocument
    /\ drawn = 0
    /\ acceptable = {}
    /\ up = FALSE /\ constructing = FALSE /\ authorised = FALSE
    /\ memory = NoDocument
    /\ halted = FALSE /\ waiting = FALSE
    /\ pc = "idle"
    /\ draft = NoDocument
    /\ answer = NoAnswer
    /\ late = {}
    /\ keyOf = [a \in Agents |-> 0]
    /\ revoked = {}

CanSign == memory.key # 0
-----------------------------------------------------------------------------
(* Start and end of a process. *)

\* A new identity and key pair, with the name and environment of this start.
Draw ==
    /\ drawn < MaxAgents
    /\ drawn' = drawn + 1
    /\ acceptable' \in {acceptable, acceptable \cup {drawn'}}

BeginStart ==
    /\ ~up
    /\ up' = TRUE
    /\ constructing' = TRUE
    /\ authorised' \in BOOLEAN

\* Mutant of StartFromFile: an identity that never got registered is drawn anew.
StartAfresh ==
    /\ BeginStart
    /\ file # NoDocument
    /\ IF file.key # 0
       THEN memory' = file /\ pc' = "ensure" /\ UNCHANGED <<drawnVars, draft>>
       ELSE /\ Draw
            /\ draft' = [agent |-> drawn', key |-> 0]
            /\ pc' = "write"
            /\ UNCHANGED memory
    /\ UNCHANGED <<file, halted, waiting, answer, late, serviceVars>>

\* Identity.__init__ reads the document that is there.
StartFromFile ==
    /\ BeginStart
    /\ file # NoDocument
    /\ memory' = file
    /\ pc' = "ensure"
    /\ UNCHANGED <<file, drawnVars, halted, waiting, draft, answer, late, serviceVars>>

\* Mutant of Bootstrap: the request may leave before the identity is durable.
BootstrapInMemory ==
    /\ BeginStart
    /\ file = NoDocument
    /\ Draw
    /\ memory' = [agent |-> drawn', key |-> 0]
    /\ pc' = "ensure"
    /\ UNCHANGED <<file, halted, waiting, draft, answer, late, serviceVars>>

\* _bootstrap draws an identity and writes it before any request is sent.
Bootstrap ==
    /\ BeginStart
    /\ file = NoDocument
    /\ Draw
    /\ draft' = [agent |-> drawn', key |-> 0]
    /\ pc' = "write"
    /\ UNCHANGED <<file, memory, halted, waiting, answer, late, serviceVars>>

\* The request in flight stays in the network, if the service will look at it.
GivenUp == IF authorised THEN late \cup {memory.agent} ELSE late

\* The process is gone, or the client is closed.
Leave ==
    /\ up' = FALSE /\ constructing' = FALSE /\ authorised' = FALSE
    /\ memory' = NoDocument /\ draft' = NoDocument
    /\ halted' = FALSE /\ waiting' = FALSE
    /\ pc' = "idle"
    /\ answer' = NoAnswer
    /\ late' = IF pc = "sent" THEN GivenUp ELSE late

\* A crash during a write leaves the old file or the new one (os.replace).
Crash ==
    /\ up
    /\ file' \in {file} \cup (IF pc = "write" THEN {draft} ELSE {})
    /\ Leave
    /\ UNCHANGED <<drawnVars, serviceVars>>
-----------------------------------------------------------------------------
(* IdentityStore.write *)

\* Mutant of WriteSucceeds: activation does not reach the disk.
ActivatedInMemory ==
    /\ pc = "write"
    /\ file' = IF draft.key = 0 THEN draft ELSE file
    /\ memory' = draft
    /\ draft' = NoDocument
    /\ pc' = IF draft.key = 0 THEN "ensure" ELSE "idle"
    /\ constructing' = (constructing /\ draft.key = 0)
    /\ UNCHANGED <<drawnVars, up, authorised, halted, waiting, answer, late, serviceVars>>

\* The file is replaced, then the document in memory: _bootstrap goes on to
\* ensure_registered, _activate returns.
WriteSucceeds ==
    /\ pc = "write"
    /\ file' = draft
    /\ memory' = draft
    /\ draft' = NoDocument
    /\ pc' = IF draft.key = 0 THEN "ensure" ELSE "idle"
    /\ constructing' = (constructing /\ draft.key = 0)
    /\ UNCHANGED <<drawnVars, up, authorised, halted, waiting, answer, late, serviceVars>>

\* The exception leaves ensure_registered, and the constructor if that called it.
WriteFails ==
    /\ pc = "write"
    /\ IF constructing THEN Leave
       ELSE /\ pc' = "idle"
            /\ draft' = NoDocument
            /\ UNCHANGED <<up, constructing, authorised, memory, halted, waiting, answer, late>>
    /\ UNCHANGED <<file, drawnVars, serviceVars>>
-----------------------------------------------------------------------------
(* ensure_registered: called by the constructor and by _require_signable. *)

Call ==
    /\ up /\ pc = "idle" /\ ~CanSign
    /\ pc' = "ensure"
    /\ UNCHANGED <<file, drawnVars, up, constructing, authorised, memory, halted, waiting, draft,
                   answer, late, serviceVars>>

\* Mutant of MayAttempt: only the constructor registers.
AttemptAtStart == ~CanSign /\ ~halted /\ ~waiting /\ constructing

MayAttempt == ~CanSign /\ ~halted /\ ~waiting

EnsureReturns ==
    /\ pc = "ensure" /\ ~MayAttempt
    /\ pc' = "idle"
    /\ constructing' = FALSE
    /\ UNCHANGED <<file, drawnVars, up, authorised, memory, halted, waiting, draft, answer, late,
                   serviceVars>>

Attempt ==
    /\ pc = "ensure" /\ MayAttempt
    /\ waiting' = TRUE
    /\ pc' = "sent"
    /\ UNCHANGED <<file, drawnVars, up, constructing, authorised, memory, halted, draft, answer,
                   late, serviceVars>>

\* REGISTRATION_RETRY_SECONDS pass.
Elapse ==
    /\ waiting
    /\ waiting' = FALSE
    /\ UNCHANGED <<file, drawnVars, up, constructing, authorised, memory, halted, pc, draft, answer,
                   late, serviceVars>>

\* No response in time, a 5xx, or a body that does not match the request: the
\* service may have registered the agent all the same.
AttemptFails ==
    /\ pc = "sent"
    /\ pc' = "idle"
    /\ constructing' = FALSE
    /\ late' = GivenUp
    /\ answer' = NoAnswer
    /\ UNCHANGED <<file, drawnVars, up, authorised, memory, halted, waiting, draft, serviceVars>>

\* Any 4xx stops the attempts of this process.
Refused ==
    /\ pc = "sent" /\ answer = Rejected
    /\ halted' = TRUE
    /\ pc' = "idle"
    /\ constructing' = FALSE
    /\ answer' = NoAnswer
    /\ UNCHANGED <<file, drawnVars, up, authorised, memory, waiting, draft, late, serviceVars>>

\* Mutant of Activate: whatever answer there is becomes the key_id.
ActivateAnyAnswer ==
    /\ pc = "sent" /\ answer # NoAnswer
    /\ draft' = [agent |-> memory.agent, key |-> answer]
    /\ pc' = "write"
    /\ answer' = NoAnswer
    /\ UNCHANGED <<file, drawnVars, up, constructing, authorised, memory, halted, waiting, late,
                   serviceVars>>

\* _activate: the answer matches the request, the completed document is written.
Activate ==
    /\ pc = "sent" /\ answer \in KeyIds
    /\ draft' = [agent |-> memory.agent, key |-> answer]
    /\ pc' = "write"
    /\ answer' = NoAnswer
    /\ UNCHANGED <<file, drawnVars, up, constructing, authorised, memory, halted, waiting, late,
                   serviceVars>>
-----------------------------------------------------------------------------
(* _register_agent. *)

\* Mutant of Accepts: a known agent is a conflict.
AcceptsUnknown(agent) ==
    agent \in acceptable /\ agent \notin revoked /\ keyOf[agent] = 0

\* A known agent with its own key, and so an identical request, is no conflict.
Accepts(agent) == agent \in acceptable /\ agent \notin revoked

\* A new agent gets a fresh key_id, a known one keeps its own.
Register(agent) ==
    \/ /\ keyOf[agent] # 0
       /\ UNCHANGED keyOf
    \/ /\ keyOf[agent] = 0
       /\ \E key \in KeyIds :
              /\ \A other \in Agents : keyOf[other] # key
              /\ keyOf' = [keyOf EXCEPT ![agent] = key]

Serve ==
    /\ pc = "sent" /\ answer = NoAnswer
    /\ authorised /\ Accepts(memory.agent)
    /\ Register(memory.agent)
    /\ answer' = keyOf'[memory.agent]
    /\ UNCHANGED <<file, drawnVars, processVars, late, revoked>>

\* 401 before anything else, 400 for a name or an environment that the service
\* does not take, 409 for an agent or a key that is not active.
Reject ==
    /\ pc = "sent" /\ answer = NoAnswer
    /\ ~authorised \/ ~Accepts(memory.agent)
    /\ answer' = Rejected
    /\ UNCHANGED <<file, drawnVars, processVars, late, serviceVars>>

ServeLate(agent) ==
    /\ agent \in late
    /\ Accepts(agent) /\ Register(agent)
    /\ UNCHANGED <<file, drawnVars, processVars, answer, late, revoked>>

\* The service's operator makes an agent inactive.
Revoke(agent) ==
    /\ keyOf[agent] # 0 /\ agent \notin revoked
    /\ revoked' = revoked \cup {agent}
    /\ UNCHANGED <<file, drawnVars, processVars, answer, late, keyOf>>
-----------------------------------------------------------------------------
Start == StartFromFile \/ Bootstrap

Next ==
    \/ Start \/ Crash \/ WriteSucceeds \/ WriteFails
    \/ Call \/ EnsureReturns \/ Attempt \/ Elapse \/ AttemptFails \/ Refused \/ Activate
    \/ Serve \/ Reject
    \/ \E agent \in Agents : ServeLate(agent) \/ Revoke(agent)

Spec == Init /\ [][Next]_vars

\* The process goes on with what it has begun and time passes.  Strong fairness
\* is asked of the environment: a request sent again and again is answered in
\* time at last, a file written again and again is written at last.
Fairness ==
    /\ WF_vars(EnsureReturns) /\ WF_vars(Attempt) /\ WF_vars(Elapse) /\ WF_vars(Refused)
    /\ WF_vars(Reject)
    /\ SF_vars(Serve) /\ SF_vars(Activate) /\ SF_vars(WriteSucceeds)

FairSpec == Spec /\ Fairness
-----------------------------------------------------------------------------
(* Properties. *)

\* Whatever is lost, repeated or cut off by a crash, the service never knows
\* another agent of this directory than the one in identity.json: every retry
\* is about the same key (_bootstrap persists before it sends).
OneAgentPerDirectory == \A a \in Agents : keyOf[a] # 0 => file.agent = a

\* The client signs only with a key that is on disk and that the service has
\* registered for this agent under the very key_id the events will carry.
SignsAsRegistered == CanSign => file = memory /\ keyOf[memory.agent] = memory.key

\* An identity, once durable, is never drawn again or changed, and a registered
\* one is never lost (the private key exists nowhere else).
IdentityIsForever ==
    [][file # NoDocument =>
           /\ file'.agent = file.agent
           /\ file.key # 0 => file' = file]_vars

\* Attempts stop for operator resolution only when there is something to
\* resolve: no retry, late request or restart is taken for a conflict.
HaltedForCause ==
    halted => ~authorised \/ memory.agent \in revoked \/ memory.agent \notin acceptable

\* A process that stays up, with a valid API key and an agent that nobody makes
\* inactive, can sign in the end, provided that calls keep being made (nothing
\* but the constructor and append_event ever tries to register) and that the
\* directory's first start had a name and environment that the service takes.
EventuallyRegistered ==
    /\ <>[](up /\ authorised /\ revoked = {} /\ drawn \in acceptable)
    /\ WF_vars(Call)
    => <>CanSign
============================================================================
