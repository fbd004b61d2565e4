---------------------------- MODULE CommandLine ----------------------------
(***************************************************************************)
(* Commands of sdk/sealstack/cli.py that run at the same time on one file  *)
(* system and one state directory.  An export takes its steps in the order *)
(* of _run_export: usage, bundle, mapping, seed (from a file, or from the  *)
(* state directory under its lock), build, then the check of every target  *)
(* against overwriting and the writes, one file after the other.  A client *)
(* may hold the directory; a command may be killed anywhere; a write may   *)
(* fail and leave its file truncated.  The operator waits for nothing.     *)
(***************************************************************************)
EXTENDS Export, Sequences

CONSTANTS
    Commands,       \* the processes
    Arguments,      \* the argument lists they may be given
    Times,          \* seconds in which an export can happen
    InitialFiles,   \* path -> content, before any command
    ActiveKey,      \* the seed in the state directory's identity.json
    Default,        \* --out or --public-key-out not given
    StateDir,       \* --state-dir and no --signing-key
    BadUsage,       \* both of these or none
    BadMapping,     \* an unreadable or invalid mapping file
    Nobody,         \* nobody holds the state directory
    ClientProcess   \* a client that may hold it

\* argparse takes the three formats only.  The bundles at hand are evidence of a
\* runtime, with the event before as predecessor (verify.py, _verify_link; an
\* export does not look at it), and nothing has been exported yet.
ASSUME FilesAssumption ==
    /\ \A args \in Arguments : args.command = "export" => args.format \in Formats
    /\ \A path \in DOMAIN InitialFiles :
           /\ InitialFiles[path].kind # "artifact"
           /\ InitialFiles[path].kind = "bundle" =>
                  /\ InitialFiles[path].event \in Nat \ {0}
                  /\ InitialFiles[path].predecessor \in {NoEvent, InitialFiles[path].event - 1}

VARIABLES
    disk,           \* path -> content
    directory,      \* who holds identity.lock of the state directory
    stage,          \* position of a command in _run_export
    arguments,      \* its parsed arguments
    bundle,         \* the bundle it read
    seed,           \* the seed it signs with
    targets,        \* <<path, content>> of everything it writes
    position,       \* the target it checks or writes next
    code,           \* its exit code
    failedWrite     \* one of its writes failed, or it was killed at them

cliVars == <<disk, directory, stage, arguments, bundle, seed, targets, position,
             code, failedWrite>>

Idle == [command |-> "none"]
NoBundle == [kind |-> "none"]
Partial == [kind |-> "partial"]
Path(stem, suffix) == <<stem, suffix>>

CommandInit ==
    /\ disk = InitialFiles
    /\ directory = Nobody
    /\ stage = [c \in Commands |-> "new"]
    /\ arguments = [c \in Commands |-> Idle]
    /\ bundle = [c \in Commands |-> NoBundle]
    /\ seed = [c \in Commands |-> Nobody]
    /\ targets = [c \in Commands |-> <<>>]
    /\ position = [c \in Commands |-> 1]
    /\ code = [c \in Commands |-> 0]
    /\ failedWrite = [c \in Commands |-> FALSE]

CommandTypeOK ==
    /\ DOMAIN InitialFiles \subseteq DOMAIN disk
    /\ directory \in Commands \cup {Nobody, ClientProcess}
    /\ stage \in [Commands -> {"new", "mapping", "seed", "identity", "build",
                               "check", "write", "done"}]
    /\ \A c \in Commands :
          /\ arguments[c] = Idle <=> stage[c] = "new"
          /\ Len(targets[c]) \in {0, 2}
          /\ position[c] \in 1..(Len(targets[c]) + 1)
    /\ code \in [Commands -> 0..2]
    /\ failedWrite \in [Commands -> BOOLEAN]

Exit(c, result) ==
    /\ stage' = [stage EXCEPT ![c] = "done"]
    /\ code' = [code EXCEPT ![c] = result]

Reads(path, kind) == path \in DOMAIN disk /\ disk[path].kind = kind

-----------------------------------------------------------------------------
\* sealstack verify: reads two files, prints, and exits with the verdict.
Verify(c, args, verdict) ==
    /\ stage[c] = "new"
    /\ args.command = "verify"
    /\ Exit(c, IF args.bundle \notin DOMAIN disk THEN 2
               ELSE IF Reads(args.bundle, "binary") THEN 1
               ELSE IF /\ args.trust # Default
                       /\ args.trust \notin DOMAIN disk \/ Reads(args.trust, "binary") THEN 2
               ELSE IF ~ Reads(args.bundle, "bundle") THEN 1 ELSE verdict)
    /\ arguments' = [arguments EXCEPT ![c] = args]
    /\ UNCHANGED <<disk, directory, bundle, seed, targets, position, failedWrite>>

\* Usage, then the bundle: 2 for usage and unreadable, 1 for invalid.
Start(c, args) ==
    /\ stage[c] = "new"
    /\ args.command = "export"
    /\ arguments' = [arguments EXCEPT ![c] = args]
    /\ IF \/ args.key = BadUsage
          \/ args.pem # Default /\ args.format # "aerf"
          \/ args.bundle \notin DOMAIN disk \/ Reads(args.bundle, "binary")
       THEN Exit(c, 2) /\ UNCHANGED bundle
       ELSE IF ~ Reads(args.bundle, "bundle")
       THEN Exit(c, 1) /\ UNCHANGED bundle
       ELSE /\ stage' = [stage EXCEPT ![c] = "mapping"]
            /\ bundle' = [bundle EXCEPT ![c] = disk[args.bundle]]
            /\ UNCHANGED code
    /\ UNCHANGED <<disk, directory, seed, targets, position, failedWrite>>

LoadMapping(c) ==
    /\ stage[c] = "mapping"
    /\ IF arguments[c].mapping = BadMapping
       THEN Exit(c, 2)
       ELSE stage' = [stage EXCEPT ![c] = "seed"] /\ UNCHANGED code
    /\ UNCHANGED <<disk, directory, arguments, bundle, seed, targets, position, failedWrite>>

SeedFromFile(c) ==
    /\ stage[c] = "seed"
    /\ arguments[c].key # StateDir
    /\ IF Reads(arguments[c].key, "seed")
       THEN /\ stage' = [stage EXCEPT ![c] = "build"]
            /\ seed' = [seed EXCEPT ![c] = disk[arguments[c].key].seed]
            /\ UNCHANGED code
       ELSE Exit(c, 2) /\ UNCHANGED seed
    /\ UNCHANGED <<disk, directory, arguments, bundle, targets, position, failedWrite>>

\* The lock is tried once; identity_in_use ends the command.
LockDirectory(c) ==
    /\ stage[c] = "seed"
    /\ arguments[c].key = StateDir
    /\ IF directory = Nobody
       THEN /\ directory' = c
            /\ stage' = [stage EXCEPT ![c] = "identity"]
            /\ UNCHANGED code
       ELSE Exit(c, 2) /\ UNCHANGED directory
    /\ UNCHANGED <<disk, arguments, bundle, seed, targets, position, failedWrite>>

\* The lock is released whatever the reading did; a missing or unreadable
\* identity, or one without a usable active key, is an error.
ReadIdentity(c, usable) ==
    /\ stage[c] = "identity"
    /\ directory' = Nobody
    /\ IF usable
       THEN /\ stage' = [stage EXCEPT ![c] = "build"]
            /\ seed' = [seed EXCEPT ![c] = ActiveKey]
            /\ UNCHANGED code
       ELSE Exit(c, 2) /\ UNCHANGED seed
    /\ UNCHANGED <<disk, arguments, bundle, targets, position, failedWrite>>

\* The artifact, the public key (AERF) or the companion (the other two).
ExportPaths(args, artifact, native, signer) ==
    LET out == IF args.out = Default THEN Path(args.bundle[1], args.format) ELSE args.out
        pem == IF args.pem = Default THEN Path(args.bundle[1], "pem") ELSE args.pem
    IN  << <<out, artifact>>,
           IF args.format = "aerf"
           THEN <<pem, [kind |-> "public key", seed |-> signer]>>
           ELSE << <<out[1], out[2], "sealstack.json">>, Companion(artifact, native)>> >>

BuildArtifact(c, time) ==
    /\ stage[c] = "build"
    /\ LET args == arguments[c]
           artifact == Build(args.format, bundle[c], args.mapping, seed[c], time)
       IN  IF ExportRaises(args.format, bundle[c], args.mapping)
           THEN Exit(c, 2) /\ UNCHANGED targets
           ELSE /\ stage' = [stage EXCEPT ![c] = "check"]
                /\ targets' = [targets EXCEPT ![c] =
                                  ExportPaths(args, artifact, bundle[c], seed[c])]
                /\ UNCHANGED code
    /\ UNCHANGED <<disk, directory, arguments, bundle, seed, position, failedWrite>>

\* Mutant of CheckTarget: only the artifact is checked.
CheckFirstOnly(c) ==
    /\ stage[c] = "check"
    /\ IF targets[c][1][1] \in DOMAIN disk /\ ~ arguments[c].force
       THEN Exit(c, 2) /\ UNCHANGED position
       ELSE /\ stage' = [stage EXCEPT ![c] = "write"]
            /\ position' = [position EXCEPT ![c] = 1]
            /\ UNCHANGED code
    /\ UNCHANGED <<disk, directory, arguments, bundle, seed, targets, failedWrite>>
\* The first loop of _write_all: nothing is written if a target is there.
CheckTarget(c) ==
    /\ stage[c] = "check"
    /\ LET path == targets[c][position[c]][1]
           last == position[c] = Len(targets[c])
       IN  IF path \in DOMAIN disk /\ ~ arguments[c].force
           THEN Exit(c, 2) /\ UNCHANGED position
           ELSE /\ stage' = [stage EXCEPT ![c] = IF last THEN "write" ELSE "check"]
                /\ position' = [position EXCEPT ![c] = IF last THEN 1 ELSE @ + 1]
                /\ UNCHANGED code
    /\ UNCHANGED <<disk, directory, arguments, bundle, seed, targets, failedWrite>>

\* The disk with a file written, a new one or over an old one.
DiskWith(path, content) ==
    [p \in DOMAIN disk \cup {path} |-> IF p = path THEN content ELSE disk[p]]

\* The second loop: a target is written, or OSError ends the command.
WriteTarget(c) ==
    /\ stage[c] = "write"
    /\ LET target == targets[c][position[c]]
       IN  \/ /\ disk' = DiskWith(target[1], target[2])
              /\ position' = [position EXCEPT ![c] = @ + 1]
              /\ IF position[c] = Len(targets[c])
                 THEN Exit(c, 0) ELSE UNCHANGED <<stage, code>>
              /\ UNCHANGED failedWrite
           \/ /\ \/ UNCHANGED disk
                 \/ disk' = DiskWith(target[1], Partial)
              /\ failedWrite' = [failedWrite EXCEPT ![c] = TRUE]
              /\ Exit(c, 2)
              /\ UNCHANGED position
    /\ UNCHANGED <<directory, arguments, bundle, seed, targets>>

\* The process dies, its lock with it; a file half written is what a failing
\* write of WriteTarget leaves.
Kill(c) ==
    /\ stage[c] \notin {"new", "done"}
    /\ directory' = IF directory = c THEN Nobody ELSE directory
    /\ failedWrite' = [failedWrite EXCEPT ![c] = (stage[c] = "write")]
    /\ Exit(c, 2)
    /\ UNCHANGED <<disk, arguments, bundle, seed, targets, position>>

\* A client opens the state directory, or closes it.
ClientTakes ==
    /\ directory = Nobody
    /\ directory' = ClientProcess
    /\ UNCHANGED <<disk, stage, arguments, bundle, seed, targets, position, code, failedWrite>>

ClientLeaves ==
    /\ directory = ClientProcess
    /\ directory' = Nobody
    /\ UNCHANGED <<disk, stage, arguments, bundle, seed, targets, position, code, failedWrite>>

CommandNext ==
    \/ \E c \in Commands :
          \/ \E args \in Arguments :
                Start(c, args) \/ \E verdict \in 0..2 : Verify(c, args, verdict)
          \/ LoadMapping(c) \/ SeedFromFile(c) \/ LockDirectory(c)
          \/ \E usable \in BOOLEAN : ReadIdentity(c, usable)
          \/ \E time \in Times : BuildArtifact(c, time)
          \/ CheckTarget(c) \/ WriteTarget(c) \/ Kill(c)
    \/ ClientTakes \/ ClientLeaves

CommandSpec == CommandInit /\ [][CommandNext]_cliVars

-----------------------------------------------------------------------------
\* The paths c has begun to write.
WritesBegun(c) ==
    IF stage[c] = "write" \/ (stage[c] = "done" /\ (code[c] = 0 \/ failedWrite[c]))
    THEN {targets[c][i][1] : i \in DOMAIN targets[c]} ELSE {}

PathsDistinct(c) == \A i, j \in DOMAIN targets[c] :
    targets[c][i][1] = targets[c][j][1] => i = j

Ours(c, path) == \A d \in Commands \ {c} : path \notin WritesBegun(d)

Artifacts == {path \in DOMAIN disk : disk[path].kind = "artifact"}

\* _write_all, the exit codes (0 written, 1 bundle invalid, 2 anything else)
\* and the labels.  An exit with 0 leaves every file it announced, complete,
\* unless two of them have one name or another command writes to them too; a
\* command that did not come to its writes has touched no file; a file that
\* was there before is changed only by a command with --force.  An artifact
\* names exactly the required members it lacks, and in full mode it lacks
\* only what the event has not to give: a digest, a predecessor.
ExportTells ==
    /\ \A c \in Commands :
          stage[c] = "done" /\ code[c] = 0 /\ PathsDistinct(c) =>
             \A i \in DOMAIN targets[c] :
                Ours(c, targets[c][i][1]) => disk[targets[c][i][1]] = targets[c][i][2]
    /\ \A path \in DOMAIN disk :
          \/ path \in DOMAIN InitialFiles /\ disk[path] = InitialFiles[path]
          \/ \E c \in Commands :
                /\ path \in WritesBegun(c)
                /\ path \in DOMAIN InitialFiles => arguments[c].force
    /\ \A path \in Artifacts :
          /\ Exact(disk[path])
          /\ disk[path].receipt.mapping # NoMapping =>
                disk[path].missing \subseteq
                   {"action.paramsHash", ChainField(disk[path].receipt.format)}

\* The export of the second event of a runtime with predecessor evidence links
\* to the export of the first, whenever and wherever they were made, as long
\* as mapping and signer are the same (Agent Receipts: and the second, too).
SecondLinks ==
    \A p, q \in Artifacts :
        LET a == disk[p].receipt
            b == disk[q].receipt
        IN  SameWay(a, b) /\ b.event = 1 /\ a.issued = b.issued => LinksTo(a, b)

=============================================================================
