-------------------------------- MODULE Fork --------------------------------
(***************************************************************************)
(* A process that holds an AuditClient and forks (client.py,               *)
(* _invalidate_after_fork and its after_in_child hook; identity.py,        *)
(* DirectoryLock).  The child has a copy of the memory, with the runtime   *)
(* lock as it was, and only the thread that forked; it shares the open     *)
(* file description of identity.lock, and the lock belongs to that: an     *)
(* unlock by either process ends it, and so does the last close.  Another  *)
(* process tries to own the directory.  The thread that forks holds no     *)
(* lock, and the process forks once.                                       *)
(***************************************************************************)

VARIABLES
    parent,         \* the client's life in the parent
    live,           \* the client is in _LIVE_CLIENTS
    openIn,         \* processes with a descriptor of the locked description
    flocked,        \* the description holds the lock
    lockOwner,      \* the parent's thread in the runtime lock
    child,          \* the child's life
    refuses,        \* in the child: _closed, _forked or _signing_blocked_reason
    heldAtFork,     \* in the child: another thread owns the runtime lock
    coveredByHook,  \* in the child: the client was in _LIVE_CLIENTS
    call,           \* an append_event of the child
    appended,       \* processes that have appended
    rival           \* another process owns the directory

forkVars == <<parent, live, openIn, flocked, lockOwner, child, refuses, heldAtFork,
              coveredByHook, call, appended, rival>>

Free == "free"

ForkInit ==
    /\ parent = "new" /\ live = FALSE
    /\ openIn = {} /\ flocked = FALSE
    /\ lockOwner = Free
    /\ child = "none"
    /\ refuses = FALSE /\ heldAtFork = FALSE /\ coveredByHook = FALSE
    /\ call = "none"
    /\ appended = {}
    /\ rival = FALSE

ForkTypeOK ==
    /\ parent \in {"new", "constructing", "open", "closing", "unlocked", "closed", "dead"}
    /\ live \in BOOLEAN
    /\ openIn \subseteq {"parent", "child"}
    /\ flocked \in BOOLEAN
    /\ lockOwner \in {Free, "thread"}
    /\ child \in {"none", "forked", "running", "exited"}
    /\ refuses \in BOOLEAN /\ heldAtFork \in BOOLEAN /\ coveredByHook \in BOOLEAN
    /\ call \in {"none", "waiting", "refused", "appending"}
    /\ appended \subseteq {"parent", "child"}
    /\ rival \in BOOLEAN

childVars == <<child, refuses, heldAtFork, coveredByHook, call>>

\* A process closes its descriptor; the last one takes the lock with it.
Closes(process) ==
    /\ openIn' = openIn \ {process}
    /\ flocked' = (flocked /\ openIn' # {})

-----------------------------------------------------------------------------
(* The parent. *)

Acquire ==
    /\ parent = "new"
    /\ ~ flocked /\ ~ rival
    /\ parent' = "constructing"
    /\ openIn' = {"parent"} /\ flocked' = TRUE
    /\ UNCHANGED <<live, lockOwner, childVars, appended, rival>>

FinishConstructor ==
    /\ parent = "constructing"
    /\ parent' = "open"
    /\ live' = TRUE
    /\ UNCHANGED <<openIn, flocked, lockOwner, childVars, appended, rival>>

\* close(): _closed, then out of _LIVE_CLIENTS.
BeginForkedClose ==
    /\ parent = "open"
    /\ parent' = "closing"
    /\ live' = FALSE
    /\ UNCHANGED <<openIn, flocked, lockOwner, childVars, appended, rival>>

\* DirectoryLock.release: LOCK_UN, then close, of whatever the constructor
\* (if it raises) or close() has left.
Unlock ==
    /\ parent \in {"closing", "constructing"}
    /\ parent' = "unlocked"
    /\ flocked' = FALSE
    /\ UNCHANGED <<live, openIn, lockOwner, childVars, appended, rival>>

CloseDescriptor ==
    /\ parent = "unlocked"
    /\ parent' = "closed"
    /\ Closes("parent")
    /\ UNCHANGED <<live, lockOwner, childVars, appended, rival>>

Die ==
    /\ parent \notin {"new", "dead"}
    /\ parent' = "dead"
    /\ lockOwner' = Free
    /\ Closes("parent")
    /\ UNCHANGED <<live, childVars, appended, rival>>

\* append_event, or the uploader in _strand, in any other thread.
EnterLock ==
    /\ parent = "open"
    /\ lockOwner = Free
    /\ lockOwner' = "thread"
    /\ UNCHANGED <<parent, live, openIn, flocked, childVars, appended, rival>>

LeaveLock ==
    /\ lockOwner = "thread"
    /\ lockOwner' = Free
    /\ appended' = appended \cup {"parent"}
    /\ UNCHANGED <<parent, live, openIn, flocked, childVars, rival>>

-----------------------------------------------------------------------------
(* The child. *)

ForkChild ==
    /\ parent \notin {"new", "dead"}
    /\ child = "none"
    /\ child' = "forked"
    /\ openIn' = openIn \cup (IF "parent" \in openIn THEN {"child"} ELSE {})
    /\ refuses' = (parent \in {"closing", "unlocked", "closed"})
    /\ heldAtFork' = (lockOwner # Free)
    /\ coveredByHook' = live
    /\ UNCHANGED <<parent, live, flocked, lockOwner, call, appended, rival>>

\* Mutant of Hook: the child releases the lock as close() would.
HookReleasing ==
    /\ child = "forked"
    /\ child' = "running"
    /\ refuses' = (refuses \/ coveredByHook)
    /\ openIn' = IF coveredByHook THEN openIn \ {"child"} ELSE openIn
    /\ flocked' = (flocked /\ ~ coveredByHook)
    /\ UNCHANGED <<parent, live, lockOwner, heldAtFork, coveredByHook, call, appended, rival>>
\* _invalidate_inherited_clients, before any other code of the child: the
\* three flags, the uploader halted, the descriptor closed without unlocking.
Hook ==
    /\ child = "forked"
    /\ child' = "running"
    /\ IF coveredByHook
       THEN refuses' = TRUE /\ Closes("child")
       ELSE UNCHANGED <<refuses, openIn, flocked>>
    /\ UNCHANGED <<parent, live, lockOwner, heldAtFork, coveredByHook, call, appended, rival>>

\* The child has a client to call if the constructor had returned it.
Call ==
    /\ child = "running"
    /\ call = "none"
    /\ refuses \/ coveredByHook
    /\ call' = "waiting"
    /\ UNCHANGED <<parent, live, openIn, flocked, lockOwner, child, refuses, heldAtFork,
                   coveredByHook, appended, rival>>

\* append_event takes the runtime lock first, then _require_signable; the
\* owner of an inherited lock does not exist in the child.
EnterInChild ==
    /\ child = "running"
    /\ call = "waiting"
    /\ ~ heldAtFork
    /\ call' = IF refuses THEN "refused" ELSE "appending"
    /\ appended' = IF refuses THEN appended ELSE appended \cup {"child"}
    /\ UNCHANGED <<parent, live, openIn, flocked, lockOwner, child, refuses, heldAtFork,
                   coveredByHook, rival>>

ExitChild ==
    /\ child \in {"forked", "running"}
    /\ child' = "exited"
    /\ Closes("child")
    /\ UNCHANGED <<parent, live, lockOwner, refuses, heldAtFork, coveredByHook, call,
                   appended, rival>>

RivalAcquires ==
    /\ parent # "new"
    /\ ~ flocked /\ ~ rival
    /\ rival' = TRUE
    /\ UNCHANGED <<parent, live, openIn, flocked, lockOwner, childVars, appended>>

ForkNext ==
    \/ Acquire \/ FinishConstructor \/ BeginForkedClose \/ Unlock \/ CloseDescriptor \/ Die
    \/ EnterLock \/ LeaveLock
    \/ ForkChild \/ Hook \/ Call \/ EnterInChild \/ ExitChild
    \/ RivalAcquires

ForkSpec == ForkInit /\ [][ForkNext]_forkVars

\* The child's one thread and the parent's threads are scheduled.
FairForkSpec ==
    ForkSpec /\ WF_forkVars(EnterInChild) /\ WF_forkVars(LeaveLock) /\ WF_forkVars(Hook)

-----------------------------------------------------------------------------
\* client.py, _invalidate_after_fork: "Refuse queue, signer and uploader use in
\* a forked child".  The child appends nothing, whatever the parent was doing
\* when it forked.  As long as the parent's client is open no other process
\* gets the directory: neither the hook nor the end of the child unlocks it.
\* When the parent's client is gone the directory is free, in spite of a child
\* whose hook has run: except for a child forked while the client was being
\* constructed or closed, if the parent then died before it unlocked.
LockFollowsOwner ==
    /\ "child" \notin appended
    /\ parent \in {"constructing", "open", "closing"} => flocked /\ ~ rival
    /\ parent \in {"closed", "dead"} /\ flocked =>
          \/ child = "forked"
          \/ child = "running" /\ parent = "dead" /\ ~ coveredByHook

\* client.py, append_event and _invalidate_after_fork: a call in the child ends,
\* because it is refused.
ChildCallEnds == call = "waiting" ~> call # "waiting" \/ child = "exited"
=============================================================================
