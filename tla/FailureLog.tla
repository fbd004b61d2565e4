----------------------------- MODULE FailureLog -----------------------------
(***************************************************************************)
(* FailureLog of sdk/sealstack/events.py: record appends one line to       *)
(* audit_sdk_failures.log and rotates it to one backup.  No lock is taken, *)
(* so threads, and a forked child that still has the path, meet between    *)
(* stat, rename, open and write.  A file is an inode with a size; a name   *)
(* is an inode or nothing; a file that has lost its name keeps taking the  *)
(* writes of whoever has it open.                                          *)
(***************************************************************************)
EXTENDS Integers, FiniteSets

CONSTANTS
    Writers,        \* threads and processes that record failures
    Lengths,        \* the lengths of a record in bytes
    MaxBytes,       \* FailureLog.max_bytes
    MaxRecords      \* bound: records begun

ASSUME LogAssumption ==
    /\ IsFiniteSet(Writers)
    /\ Lengths \subseteq Nat \ {0}
    /\ \E n \in Lengths : \A k \in Lengths : k <= n
    /\ MaxBytes \in Nat /\ MaxRecords \in Nat

VARIABLES
    logPath,        \* the inode at audit_sdk_failures.log
    logBackup,      \* the inode at audit_sdk_failures.log.1
    inodes,         \* the number of files ever made
    fileSize,       \* inode -> bytes
    writer,         \* writer[w] : position and locals of _write
    begun           \* records begun

logVars == <<logPath, logBackup, inodes, fileSize, writer, begun>>

NoFile == 0
Resting == [pc |-> "idle", raw |-> 0, size |-> 0, handle |-> NoFile]

LogInit ==
    /\ logPath = NoFile
    /\ logBackup = NoFile
    /\ inodes = 0
    /\ fileSize = [i \in 1..MaxRecords |-> 0]
    /\ writer = [w \in Writers |-> Resting]
    /\ begun = 0

SizeAt(name) == IF name = NoFile THEN 0 ELSE fileSize[name]

Record(w, length) ==
    /\ writer[w].pc = "idle"
    /\ begun < MaxRecords
    /\ begun' = begun + 1
    /\ writer' = [writer EXCEPT ![w] = [Resting EXCEPT !.pc = "stat", !.raw = length]]
    /\ UNCHANGED <<logPath, logBackup, inodes, fileSize>>

\* Mutant of Full: the record that is about to be written is not counted.
FullWithoutRecord(size, length) == size > MaxBytes
Full(size, length) == size > 0 /\ size + length > MaxBytes

\* A missing file counts as empty.
Stat(w) ==
    /\ writer[w].pc = "stat"
    /\ LET size == SizeAt(logPath)
       IN  writer' = [writer EXCEPT ![w].size = size,
                        ![w].pc = IF Full(size, writer[w].raw) THEN "rename" ELSE "open"]
    /\ UNCHANGED <<logPath, logBackup, inodes, fileSize, begun>>

\* os.replace takes whatever has the name by now; if nothing has it, it
\* raises, and record() drops the line.
Rename(w) ==
    /\ writer[w].pc = "rename"
    /\ IF logPath = NoFile
       THEN /\ writer' = [writer EXCEPT ![w] = Resting]
            /\ UNCHANGED <<logPath, logBackup>>
       ELSE /\ logBackup' = logPath
            /\ logPath' = NoFile
            /\ writer' = [writer EXCEPT ![w].pc = "open"]
    /\ UNCHANGED <<inodes, fileSize, begun>>

OpenLog(w) ==
    /\ writer[w].pc = "open"
    /\ IF logPath = NoFile
       THEN inodes' = inodes + 1 /\ logPath' = inodes + 1
       ELSE UNCHANGED <<inodes, logPath>>
    /\ writer' = [writer EXCEPT ![w].pc = "write", ![w].handle = logPath']
    /\ UNCHANGED <<logBackup, fileSize, begun>>

\* Mode "ab": at the end of the file as it is now.
Write(w) ==
    /\ writer[w].pc = "write"
    /\ fileSize' = [fileSize EXCEPT ![writer[w].handle] = @ + writer[w].raw]
    /\ writer' = [writer EXCEPT ![w] = Resting]
    /\ UNCHANGED <<logPath, logBackup, inodes, begun>>

\* Any call may raise, and record() passes over it.
Drop(w) ==
    /\ writer[w].pc # "idle"
    /\ writer' = [writer EXCEPT ![w] = Resting]
    /\ UNCHANGED <<logPath, logBackup, inodes, fileSize, begun>>

LogNext ==
    \E w \in Writers :
        \/ \E length \in Lengths : Record(w, length)
        \/ Stat(w) \/ Rename(w) \/ OpenLog(w) \/ Write(w) \/ Drop(w)

LogSpec == LogInit /\ [][LogNext]_logVars

-----------------------------------------------------------------------------
LogTypeOK ==
    /\ logPath \in 0..inodes /\ logBackup \in 0..inodes
    /\ inodes \in 0..MaxRecords
    /\ fileSize \in [1..MaxRecords -> Nat]
    /\ writer \in [Writers -> [pc : {"idle", "stat", "rename", "open", "write"},
                               raw : Lengths \cup {0}, size : Nat, handle : 0..inodes]]
    /\ begun \in 0..MaxRecords

Largest == CHOOSE n \in Lengths : \A k \in Lengths : k <= n

\* events.py: "at most two files ever retained", of at most max_bytes each when
\* one writer is at work (or of one record, if that is longer).  Every other
\* writer may have looked at the size before the file grew, and adds at most
\* one record to it: the excess does not accumulate.
LogBounded ==
    \A name \in {logPath, logBackup} \ {NoFile} :
        fileSize[name] <= (IF MaxBytes < Largest THEN Largest ELSE MaxBytes)
                             + (Cardinality(Writers) - 1) * Largest
=============================================================================
