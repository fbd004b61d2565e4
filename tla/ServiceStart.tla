---------------------------- MODULE ServiceStart ----------------------------
(***************************************************************************)
(* initialise() of reference-server/server.py and the first requests after *)
(* it.  Several processes may start on one seed file and one database, and *)
(* each may die between any two steps; every database statement is a       *)
(* transaction of its own (isolation_level=None).  What a start draws, a   *)
(* seed, an organisation_id and a key_id, is known by the start's number,  *)
(* and so is the public key of a seed.  The operator may lose the seed     *)
(* file while no process is starting.                                      *)
(***************************************************************************)
EXTENDS Integers, Sequences

CONSTANTS
    Servers,        \* processes
    MaxStarts       \* bound: starts ever made

ASSUME StartsAssumption == MaxStarts \in Nat \ {0}

VARIABLES
    seedFile,       \* the service seed file
    organisation,   \* meta.organisation_id
    serviceKeys,    \* service_keys, ordered by valid_from and key_id
    starts,         \* starts made so far
    server,         \* server[p] : where p is and what it holds
    issued,         \* receipts issued: key, seed and organisation
    seedLost        \* the operator has lost a seed file

startVars == <<seedFile, organisation, serviceKeys, starts, server, issued, seedLost>>

Absent == 0
Empty == -1
Numbers == 1..MaxStarts
Down == [pc |-> "down", start |-> 0, seed |-> 0, org |-> 0, key |-> 0]

StartInit ==
    /\ seedFile = Absent
    /\ organisation = 0
    /\ serviceKeys = <<>>
    /\ starts = 0
    /\ server = [p \in Servers |-> Down]
    /\ issued = {}
    /\ seedLost = FALSE

StartTypeOK ==
    /\ seedFile \in Numbers \cup {Absent, Empty}
    /\ organisation \in Numbers \cup {0}
    /\ serviceKeys \in Seq([key : Numbers, public : Numbers])
    /\ starts \in 0..MaxStarts
    /\ server \in [Servers -> [pc : {"down", "seed", "create", "write", "meta", "metaInsert",
                                     "keys", "keyInsert", "up"},
                               start : 0..MaxStarts, seed : 0..MaxStarts,
                               org : 0..MaxStarts, key : 0..MaxStarts]]
    /\ issued \subseteq [key : Numbers, seed : Numbers, org : Numbers]
    /\ seedLost \in BOOLEAN

At(p, place) == server[p].pc = place
Goes(p, record) == server' = [server EXCEPT ![p] = record]
Moves(p, place) == Goes(p, [server[p] EXCEPT !.pc = place])

\* An exception in initialise(), or the death of the process.
Dies(p) == Goes(p, Down)

StartServer(p) ==
    /\ At(p, "down")
    /\ starts < MaxStarts
    /\ starts' = starts + 1
    /\ Goes(p, [Down EXCEPT !.pc = "seed", !.start = starts + 1])
    /\ UNCHANGED <<seedFile, organisation, serviceKeys, issued, seedLost>>

\* _read_seed: an empty file does not decode, and the start fails.
ReadSeed(p) ==
    /\ At(p, "seed")
    /\ \/ seedFile = Absent /\ Moves(p, "create")
       \/ seedFile = Empty /\ Dies(p)
       \/ /\ seedFile \in Numbers
          /\ Goes(p, [server[p] EXCEPT !.pc = "meta", !.seed = seedFile])
    /\ UNCHANGED <<seedFile, organisation, serviceKeys, starts, issued, seedLost>>

\* Mutant of CreateSeed: the file is opened without O_EXCL.
CreateSeedShared(p) ==
    /\ At(p, "create")
    /\ seedFile' = Empty
    /\ Moves(p, "write")
    /\ UNCHANGED <<organisation, serviceKeys, starts, issued, seedLost>>
\* os.open with O_EXCL: FileExistsError if another start was faster.
CreateSeed(p) ==
    /\ At(p, "create")
    /\ IF seedFile = Absent
       THEN seedFile' = Empty /\ Moves(p, "write")
       ELSE Dies(p) /\ UNCHANGED seedFile
    /\ UNCHANGED <<organisation, serviceKeys, starts, issued, seedLost>>

WriteSeed(p) ==
    /\ At(p, "write")
    /\ seedFile' = server[p].start
    /\ Goes(p, [server[p] EXCEPT !.pc = "meta", !.seed = server[p].start])
    /\ UNCHANGED <<organisation, serviceKeys, starts, issued, seedLost>>

\* _meta: SELECT, and INSERT if there was no row.
SelectOrganisation(p) ==
    /\ At(p, "meta")
    /\ IF organisation = 0 THEN Moves(p, "metaInsert")
       ELSE Goes(p, [server[p] EXCEPT !.pc = "keys", !.org = organisation])
    /\ UNCHANGED <<seedFile, organisation, serviceKeys, starts, issued, seedLost>>

\* The primary key refuses a second row, and the start fails.
InsertOrganisation(p) ==
    /\ At(p, "metaInsert")
    /\ IF organisation = 0
       THEN /\ organisation' = server[p].start
            /\ Goes(p, [server[p] EXCEPT !.pc = "keys", !.org = server[p].start])
       ELSE Dies(p) /\ UNCHANGED organisation
    /\ UNCHANGED <<seedFile, serviceKeys, starts, issued, seedLost>>

\* The oldest key, if there is one, must be the seed's.
SelectKey(p) ==
    /\ At(p, "keys")
    /\ IF serviceKeys = <<>>
       THEN Moves(p, "keyInsert")
       ELSE \/ Head(serviceKeys).public # server[p].seed /\ Dies(p)
            \/ /\ Head(serviceKeys).public = server[p].seed
               /\ Goes(p, [server[p] EXCEPT !.pc = "up", !.key = Head(serviceKeys).key])
    /\ UNCHANGED <<seedFile, organisation, serviceKeys, starts, issued, seedLost>>

\* Nothing makes service_keys.public_key unique; valid_from is the clock's.
InsertKey(p) ==
    /\ At(p, "keyInsert")
    /\ \E n \in 0..Len(serviceKeys) :
          serviceKeys' = SubSeq(serviceKeys, 1, n)
                            \o << [key |-> server[p].start, public |-> server[p].seed] >>
                            \o SubSeq(serviceKeys, n + 1, Len(serviceKeys))
    /\ Goes(p, [server[p] EXCEPT !.pc = "up", !.key = server[p].start])
    /\ UNCHANGED <<seedFile, organisation, starts, issued, seedLost>>

\* A receipt names _State.service_key_id and organisation_id and is signed
\* with _State.seed.
IssueReceipt(p) ==
    /\ At(p, "up")
    /\ issued' = issued \cup
          {[key |-> server[p].key, seed |-> server[p].seed, org |-> server[p].org]}
    /\ UNCHANGED <<seedFile, organisation, serviceKeys, starts, server, seedLost>>

CrashServer(p) ==
    /\ ~ At(p, "down")
    /\ Dies(p)
    /\ UNCHANGED <<seedFile, organisation, serviceKeys, starts, issued, seedLost>>

LoseSeedFile ==
    /\ seedFile # Absent
    /\ \A p \in Servers : At(p, "down") \/ At(p, "up")
    /\ seedFile' = Absent
    /\ seedLost' = TRUE
    /\ UNCHANGED <<organisation, serviceKeys, starts, server, issued>>

StartNext ==
    \/ \E p \in Servers :
          \/ StartServer(p) \/ ReadSeed(p) \/ CreateSeed(p) \/ WriteSeed(p)
          \/ SelectOrganisation(p) \/ InsertOrganisation(p)
          \/ SelectKey(p) \/ InsertKey(p) \/ IssueReceipt(p) \/ CrashServer(p)
    \/ LoseSeedFile

StartSpec == StartInit /\ [][StartNext]_startVars

-----------------------------------------------------------------------------
\* server.py, _State.start and initialise: whatever starts raced, died or
\* failed, the service is one.  All keys it ever recorded are of one seed, and
\* every receipt any process has issued names a recorded key, is signed with
\* that key's seed and is of the recorded organisation, so /v1/verification-keys
\* of any process verifies the receipts of all.  And unless its operator loses
\* the seed file, a service that has a key can be started again.
OneService ==
    /\ \A i, j \in DOMAIN serviceKeys : serviceKeys[i].public = serviceKeys[j].public
    /\ \A r \in issued :
          /\ r.org = organisation
          /\ [key |-> r.key, public |-> r.seed] \in {serviceKeys[i] : i \in DOMAIN serviceKeys}
    /\ serviceKeys # <<>> /\ ~ seedLost => seedFile = serviceKeys[1].public
=============================================================================
