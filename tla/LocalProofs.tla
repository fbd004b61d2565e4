----------------------------- MODULE LocalProofs -----------------------------
(***************************************************************************)
(* The parts that stay within one host: the owner of the directory across  *)
(* a fork, the uploader's delay, the failure log under concurrent writers, *)
(* and the commands.  They share no state; each has its invariant and its  *)
(* theorems.  The start of the service is in ServiceStartProofs; the five  *)
(* are put side by side at the end.                                        *)
(***************************************************************************)
EXTENDS MCLocal, ServiceStartProofs, FiniteSetTheorems

-----------------------------------------------------------------------------
(* Fork. *)

\* Who has a descriptor of the locked description: the parent until it has
\* closed it, a child from its fork to its hook or its end.
Descriptors ==
    /\ parent = "new" => ~ rival /\ child = "none"
    /\ parent \in {"constructing", "open", "closing"} =>
          "parent" \in openIn /\ flocked /\ ~ rival
    /\ parent \in {"new", "unlocked", "closed"} => ~ flocked
    /\ parent = "dead" => "parent" \notin openIn
    /\ flocked => openIn # {}
    /\ "child" \in openIn =>
          child = "forked" \/ (child = "running" /\ ~ coveredByHook)

\* The child has a client to call only if the client refuses, or if it was in
\* _LIVE_CLIENTS and has been made to refuse by the hook.
Inheritance ==
    /\ child = "running" /\ coveredByHook => refuses
    /\ child \in {"none", "forked"} => call = "none"
    /\ call = "waiting" => refuses
    /\ "child" \notin appended

\* Inductive, and LockFollowsOwner follows.
ForkInv == ForkTypeOK /\ Descriptors /\ Inheritance

\* Before the constructor there is nothing to inherit.
LEMMA ForkInitially == ForkInit => ForkInv
  BY DEF ForkInit, ForkInv, ForkTypeOK, Descriptors, Inheritance, Free

\* Every step of parent, child and rival keeps the types.
LEMMA ForkTypesStep == ForkTypeOK /\ [ForkNext]_forkVars => ForkTypeOK'
  <1> SUFFICES ASSUME ForkTypeOK, [ForkNext]_forkVars PROVE ForkTypeOK'
    OBVIOUS
  <1> USE DEF ForkTypeOK, childVars, Free
  <1>1. CASE Acquire
    BY <1>1 DEF Acquire
  <1>2. CASE FinishConstructor
    BY <1>2 DEF FinishConstructor
  <1>3. CASE BeginForkedClose
    BY <1>3 DEF BeginForkedClose
  <1>4. CASE Unlock
    BY <1>4 DEF Unlock
  <1>5. CASE CloseDescriptor
    BY <1>5 DEF CloseDescriptor, Closes
  <1>6. CASE Die
    BY <1>6 DEF Die, Closes
  <1>7. CASE EnterLock
    BY <1>7 DEF EnterLock
  <1>8. CASE LeaveLock
    BY <1>8 DEF LeaveLock
  <1>9. CASE ForkChild
    BY <1>9 DEF ForkChild
  <1>10. CASE Hook
    BY <1>10 DEF Hook, Closes
  <1>11. CASE Call
    BY <1>11 DEF Call
  <1>12. CASE EnterInChild
    BY <1>12 DEF EnterInChild
  <1>13. CASE ExitChild
    BY <1>13 DEF ExitChild, Closes
  <1>14. CASE RivalAcquires
    BY <1>14 DEF RivalAcquires
  <1>15. CASE UNCHANGED forkVars
    BY <1>15 DEF forkVars
  <1> QED
    BY <1>1, <1>2, <1>3, <1>4, <1>5, <1>6, <1>7, <1>8, <1>9, <1>10, <1>11,
       <1>12, <1>13, <1>14, <1>15 DEF ForkNext

\* Unlocking, closing, dying, forking and the hook keep account of who has the
\* locked description open.
LEMMA DescriptorsStep == ForkInv /\ [ForkNext]_forkVars => Descriptors'
  <1> SUFFICES ASSUME ForkInv, [ForkNext]_forkVars PROVE Descriptors'
    OBVIOUS
  <1> USE DEF ForkInv, Descriptors, childVars
  <1>1. CASE Acquire
    BY <1>1 DEF Acquire
  <1>2. CASE FinishConstructor
    BY <1>2 DEF FinishConstructor
  <1>3. CASE BeginForkedClose
    BY <1>3 DEF BeginForkedClose
  <1>4. CASE Unlock
    BY <1>4 DEF Unlock
  <1>5. CASE CloseDescriptor
    BY <1>5 DEF CloseDescriptor, Closes
  <1>6. CASE Die
    BY <1>6 DEF Die, Closes
  <1>7. CASE EnterLock
    BY <1>7 DEF EnterLock
  <1>8. CASE LeaveLock
    BY <1>8 DEF LeaveLock
  <1>9. CASE ForkChild
    BY <1>9 DEF ForkChild
  <1>10. CASE Hook
    <2>1. CASE coveredByHook
      <3>1. openIn' = openIn \ {"child"} /\ (flocked' <=> flocked /\ openIn' # {})
        BY <1>10, <2>1, Zenon DEF Hook, Closes
      <3>2. /\ UNCHANGED <<parent, rival, coveredByHook>>
            /\ child = "forked" /\ child' = "running"
        BY <1>10 DEF Hook
      <3> QED
        BY <3>1, <3>2
    <2>2. CASE ~ coveredByHook
      BY <1>10, <2>2 DEF Hook
    <2> QED
      BY <2>1, <2>2
  <1>11. CASE Call
    BY <1>11 DEF Call
  <1>12. CASE EnterInChild
    BY <1>12 DEF EnterInChild
  <1>13. CASE ExitChild
    <2>1. openIn' = openIn \ {"child"} /\ (flocked' <=> flocked /\ openIn' # {})
      BY <1>13, Zenon DEF ExitChild, Closes
    <2>2. UNCHANGED <<parent, rival, coveredByHook>> /\ child' = "exited" /\ child # "none"
      BY <1>13 DEF ExitChild
    <2> QED
      BY <2>1, <2>2
  <1>14. CASE RivalAcquires
    BY <1>14 DEF RivalAcquires
  <1>15. CASE UNCHANGED forkVars
    BY <1>15 DEF forkVars
  <1> QED
    BY <1>1, <1>2, <1>3, <1>4, <1>5, <1>6, <1>7, <1>8, <1>9, <1>10, <1>11,
       <1>12, <1>13, <1>14, <1>15 DEF ForkNext

\* What the child may do with the client.  Only its fork, its hook, its call
\* and a parent's append matter.
LEMMA InheritanceStep == ForkInv /\ [ForkNext]_forkVars => Inheritance'
  <1> SUFFICES ASSUME ForkInv, [ForkNext]_forkVars PROVE Inheritance'
    OBVIOUS
  <1> USE DEF ForkInv, Inheritance, childVars
  <1>1. CASE LeaveLock
    BY <1>1 DEF LeaveLock
  <1>2. CASE ForkChild
    BY <1>2 DEF ForkChild, ForkTypeOK
  <1>3. CASE Hook
    BY <1>3 DEF Hook
  <1>4. CASE Call
    BY <1>4 DEF Call
  <1>5. CASE EnterInChild
    BY <1>5 DEF EnterInChild
  <1>6. CASE ExitChild
    BY <1>6 DEF ExitChild
  <1>7. ASSUME UNCHANGED childVars, UNCHANGED appended
        PROVE  Inheritance'
    BY <1>7
  <1>8. CASE UNCHANGED forkVars
    BY <1>8 DEF forkVars
  <1> QED
    BY <1>1, <1>2, <1>3, <1>4, <1>5, <1>6, <1>7, <1>8
       DEF ForkNext, Acquire, FinishConstructor, BeginForkedClose, Unlock,
           CloseDescriptor, Die, EnterLock, RivalAcquires

\* client.py, _invalidate_after_fork, and identity.py, DirectoryLock: types,
\* descriptors and what a child inherits, together.
THEOREM ForkInvariant == ForkSpec => []ForkInv
  <1>1. ForkInv /\ [ForkNext]_forkVars => ForkInv'
    BY ForkTypesStep, DescriptorsStep, InheritanceStep DEF ForkInv
  <1> QED
    BY ForkInitially, <1>1, PTL DEF ForkSpec

\* client.py, _invalidate_after_fork: a child appends nothing, the directory
\* belongs to the parent's client while that is open, and afterwards to nobody,
\* but for a child that was forked outside the life of the client.
THEOREM OwnerHolds == ForkSpec => []LockFollowsOwner
  <1>1. ForkInv => LockFollowsOwner
    <2> SUFFICES ASSUME ForkInv PROVE LockFollowsOwner
      OBVIOUS
    <2>1. parent \in {"closed", "dead"} /\ flocked => "child" \in openIn /\ parent = "dead"
      BY DEF ForkInv, ForkTypeOK, Descriptors
    <2> QED
      BY <2>1 DEF ForkInv, Descriptors, Inheritance, LockFollowsOwner
  <1> QED
    BY <1>1, ForkInvariant, PTL

-----------------------------------------------------------------------------
(* The uploader's delay. *)

\* DelayFits is inductive with the types.
BackoffInv == BackoffTypeOK /\ DelayFits

\* uploader.py, _grow_backoff: min(max(n, interval), max_delay) is at least the
\* smaller of the two for any n and at most max_delay, and keeps the order.
LEMMA BetweenFits ==
    ASSUME NEW n \in Int
    PROVE  /\ Between(n) \in Nat
           /\ Least(Interval, MaxDelay) <= Between(n) /\ Between(n) <= MaxDelay
           /\ \A k \in Int : k <= n => Between(k) <= Between(n)
  BY DelayAssumption DEF Between, Least, Greatest

\* The initial delay is the interval.
LEMMA BackoffInitially == BackoffInit => BackoffInv
  <1> SUFFICES ASSUME BackoffInit PROVE BackoffInv
    OBVIOUS
  <1>1. stopped \in BOOLEAN /\ phase \in {"wait", "attempt", "results"}
    BY Zenon DEF BackoffInit
  <1>2. delay \in Nat /\ least \in Nat /\ DelayFits
    BY DelayAssumption DEF BackoffInit, DelayFits, Least
  <1> QED
    BY <1>1, <1>2 DEF BackoffInv, BackoffTypeOK

\* Doubling with jitter keeps the bounds, and stays above doubling without.
LEMMA GrowFits ==
    ASSUME BackoffInv, Grow
    PROVE  /\ delay' \in Nat /\ least' \in Nat
           /\ DelayFits'
  <1> DEFINE grown == Between(delay * 2)
  <1>1. /\ delay * 2 \in Int /\ least * 2 \in Int
        /\ least * 2 <= delay * 2
    BY DEF BackoffInv, BackoffTypeOK, DelayFits
  <1>2. /\ grown \in Nat /\ Least(Interval, MaxDelay) <= grown /\ grown <= MaxDelay
        /\ Between(least * 2) <= grown
        /\ Between(least * 2) \in Nat
    BY <1>1, BetweenFits
  <1>3. PICK jitter \in 0..Interval : delay' = Least(grown + jitter, MaxDelay)
    BY DEF Grow
  <1>4. least' = Between(least * 2)
    BY DEF Grow
  <1> HIDE DEF grown
  <1>5. delay' \in Nat /\ grown <= delay' /\ delay' <= MaxDelay
    BY <1>2, <1>3, DelayAssumption DEF Least
  <1> QED
    BY <1>2, <1>4, <1>5, DelayAssumption DEF DelayFits, Least

\* Every step keeps the invariant.
LEMMA BackoffStep == BackoffInv /\ [BackoffNext]_backoffVars => BackoffInv'
  <1> SUFFICES ASSUME BackoffInv, [BackoffNext]_backoffVars
               PROVE  BackoffInv'
    OBVIOUS
  <1> USE DEF BackoffInv, BackoffTypeOK
  <1>1. CASE Attempt
    BY <1>1 DEF Attempt, DelayFits
  <1>2. CASE RetryLater
    BY <1>2, GrowFits DEF RetryLater
  <1>3. ASSUME NEW n \in RetryAfters, RetryAfter(n)
        PROVE  BackoffInv'
    BY <1>3, BetweenFits, DelayAssumption DEF RetryAfter, DelayFits
  <1>4. CASE Unchanged
    BY <1>4 DEF Unchanged, DelayFits
  <1>5. CASE Halt
    BY <1>5, GrowFits DEF Halt
  <1>6. CASE Answer
    BY <1>6, DelayAssumption DEF Answer, DelayFits, Least
  <1>7. CASE UnusableReceipt
    BY <1>7, GrowFits DEF UnusableReceipt
  <1>8. CASE UNCHANGED backoffVars
    BY <1>8 DEF backoffVars, DelayFits
  <1> QED
    BY <1>1, <1>2, <1>3, <1>4, <1>5, <1>6, <1>7, <1>8 DEF BackoffNext

\* uploader.py, _grow_backoff and _reset_backoff: types and bounds together.
THEOREM BackoffInvariant == BackoffSpec => []BackoffInv
  BY BackoffInitially, BackoffStep, PTL DEF BackoffSpec

\* uploader.py, _grow_backoff: for any interval, maximum and Retry-After, also
\* for a maximum below the interval, the delay is never below the smaller of
\* the two, never above the maximum unless it is the interval as configured,
\* and never below what the failures since the last answer have doubled it to.
THEOREM DelayHolds == BackoffSpec => []DelayFits
  <1>1. BackoffInv => DelayFits
    BY DEF BackoffInv
  <1> QED
    BY <1>1, BackoffInvariant, PTL

-----------------------------------------------------------------------------
(* The failure log. *)

\* What one writer keeps a file to, and what all of them do.
Limit == IF MaxBytes < Largest THEN Largest ELSE MaxBytes
Bound == Limit + (Cardinality(Writers) - 1) * Largest

\* Writers whose next write goes to the file, as things stand.
Pending(i) ==
    {w \in Writers : \/ writer[w].pc = "write" /\ writer[w].handle = i
                     \/ writer[w].pc = "open" /\ logPath = i}

\* A file has room for the records in r of the writers in P: one of them has
\* been counted when the size was looked at, the others are one record each.
Room(size, P, r) ==
    /\ size <= Bound
    /\ P # {} => \E w \in P : size + r[w].raw + (Cardinality(P) - 1) * Largest <= Bound

\* A writer that is not at rest has a record, and a handle if it has opened.
Working ==
    \A w \in Writers :
        /\ writer[w].pc # "idle" => writer[w].raw \in Lengths
        /\ writer[w].pc = "write" => writer[w].handle # NoFile

\* Every file that is made takes a record that has been begun.
Making == {w \in Writers : writer[w].pc \in {"stat", "rename", "open"}}
Counted ==
    /\ inodes + Cardinality(Making) <= begun
    /\ \A i \in 1..MaxRecords : i > inodes => fileSize[i] = 0

AllFit == \A i \in 1..inodes : Room(fileSize[i], Pending(i), writer)

LogInv == LogTypeOK /\ Working /\ Counted /\ AllFit

\* The longest record is one of them, and no other is longer.
LEMMA LargestIsLargest ==
    /\ Largest \in Lengths /\ Largest \in Nat /\ Largest > 0
    /\ \A k \in Lengths : k \in Nat /\ k > 0 /\ k <= Largest
  <1>1. /\ Largest \in Lengths
        /\ \A k \in Lengths : k <= Largest
    BY LogAssumption DEF Largest
  <1> QED
    BY <1>1, LogAssumption

\* Products with the longest record keep the order.
LEMMA TimesLargest ==
    ASSUME NEW a \in Int, NEW b \in Int, a <= b
    PROVE  /\ a * Largest \in Int /\ b * Largest \in Int
           /\ a * Largest <= b * Largest
           /\ (a + 1) * Largest = a * Largest + Largest
  BY LargestIsLargest

\* The limits are numbers, one record apart for every other writer.
LEMMA BoundIsNat ==
    ASSUME Writers # {}
    PROVE  /\ Cardinality(Writers) \in Nat /\ Cardinality(Writers) > 0
           /\ Limit \in Nat /\ Largest <= Limit /\ MaxBytes <= Limit
           /\ Bound \in Nat /\ Limit <= Bound
           /\ Bound + Largest = Limit + Cardinality(Writers) * Largest
  <1>1. Cardinality(Writers) \in Nat /\ Cardinality(Writers) # 0
    BY FS_CardinalityType, FS_EmptySet, LogAssumption
  <1>2. Limit \in Nat /\ Largest <= Limit /\ MaxBytes <= Limit
    BY LargestIsLargest, LogAssumption DEF Limit
  <1> DEFINE n == Cardinality(Writers) - 1
  <1>3. /\ n \in Int /\ 0 <= n /\ n + 1 = Cardinality(Writers)
    BY <1>1
  <1> HIDE DEF n
  <1>4. /\ n * Largest \in Int /\ 0 * Largest <= n * Largest
        /\ (n + 1) * Largest = n * Largest + Largest
    BY <1>3, TimesLargest
  <1>5. Bound = Limit + n * Largest
    BY DEF Bound, n
  <1>6. 0 * Largest = 0
    BY LargestIsLargest
  <1> QED
    BY <1>1, <1>2, <1>3, <1>4, <1>5, <1>6, LargestIsLargest

\* Room for some writers is room for fewer.
LEMMA RoomShrinks ==
    ASSUME NEW P \in SUBSET Writers, NEW Q \in SUBSET P, NEW size \in Nat, NEW r, NEW s,
           Room(size, P, r),
           \A w \in P : r[w].raw \in Lengths,
           \A w \in Q : s[w].raw = r[w].raw
    PROVE  Room(size, Q, s)
  <1>1. CASE Q = {}
    BY <1>1 DEF Room
  <1>2. CASE Q # {}
    <2>1. /\ IsFiniteSet(P) /\ IsFiniteSet(Q) /\ Cardinality(Q) <= Cardinality(P)
          /\ Cardinality(P) \in Nat /\ Cardinality(Q) \in Nat
      BY FS_Subset, FS_CardinalityType, LogAssumption
    <2>2. PICK w \in P : size + r[w].raw + (Cardinality(P) - 1) * Largest <= Bound
      BY <1>2 DEF Room
    <2> DEFINE p == Cardinality(P)
               q == Cardinality(Q)
               x == r[w].raw
    <2>21. x \in Nat /\ x > 0 /\ p \in Nat /\ q \in Nat /\ q <= p
      BY <2>1, LargestIsLargest
    <2>22. size + x + (p - 1) * Largest <= Bound
      BY <2>2
    <2>23. Bound \in Nat
      BY BoundIsNat, <2>2
    <2> HIDE DEF p, q, x
    <2>3. CASE w \in Q
      <3>1. /\ (q - 1) * Largest <= (p - 1) * Largest
            /\ (q - 1) * Largest \in Int /\ (p - 1) * Largest \in Int
        <4> DEFINE a == q - 1
                   b == p - 1
        <4>1. a \in Int /\ b \in Int /\ a <= b
          BY <2>21
        <4> HIDE DEF a, b
        <4>2. a * Largest <= b * Largest /\ a * Largest \in Int /\ b * Largest \in Int
          BY <4>1, TimesLargest
        <4> QED
          BY ONLY <4>2 DEF a, b
      <3>2. size + x + (q - 1) * Largest <= Bound
        BY <3>1, <2>21, <2>22, <2>23
      <3> QED
        BY <3>2, <2>3 DEF q, x, Room
    <2>4. CASE w \notin Q
      <3>1. PICK v \in Q : TRUE
        BY <1>2
      <3>2. IsFiniteSet(Q \cup {w}) /\ Cardinality(Q \cup {w}) = q + 1
        BY <2>1, <2>4, FS_AddElement DEF q
      <3>3. q + 1 <= p
        BY <3>2, <2>1, FS_Subset DEF p
      <3>4. /\ q * Largest <= (p - 1) * Largest
            /\ q * Largest \in Int /\ (p - 1) * Largest \in Int
        <4> DEFINE b == p - 1
        <4>1. q \in Int /\ b \in Int /\ q <= b
          BY <3>3, <2>21
        <4> HIDE DEF b
        <4>2. q * Largest <= b * Largest /\ q * Largest \in Int /\ b * Largest \in Int
          BY <4>1, TimesLargest
        <4> QED
          BY ONLY <4>2 DEF b
      <3>5. (q - 1) * Largest \in Int /\ q * Largest = (q - 1) * Largest + Largest
        <4> DEFINE a == q - 1
        <4>1. a + 1 = q /\ a \in Int /\ a <= a
          BY <2>21
        <4> HIDE DEF a
        <4>2. a * Largest \in Int /\ (a + 1) * Largest = a * Largest + Largest
          BY <4>1, TimesLargest
        <4>3. q * Largest = a * Largest + Largest
          BY <4>1, <4>2
        <4> QED
          BY ONLY <4>2, <4>3 DEF a
      <3>6. s[v].raw \in Nat /\ s[v].raw <= Largest
        BY LargestIsLargest
      <3>7. size + s[v].raw + (q - 1) * Largest <= Bound
        BY <3>4, <3>5, <3>6, <2>21, <2>22, <2>23, LargestIsLargest
      <3> QED
        BY <3>7 DEF q, Room
    <2> QED
      BY <2>3, <2>4
  <1> QED
    BY <1>1, <1>2

\* A write of one of them takes its place.
LEMMA RoomWritten ==
    ASSUME NEW P \in SUBSET Writers, NEW w \in P, NEW size \in Nat, NEW r, NEW s,
           Room(size, P, r),
           \A v \in P : r[v].raw \in Lengths,
           \A v \in P \ {w} : s[v].raw = r[v].raw
    PROVE  Room(size + r[w].raw, P \ {w}, s)
  <1> DEFINE p == Cardinality(P)
             y == r[w].raw
  <1>1. /\ IsFiniteSet(P) /\ p \in Nat
        /\ Cardinality(P \ {w}) = p - 1
    BY FS_Subset, FS_CardinalityType, FS_RemoveElement, LogAssumption
  <1>2. PICK u \in P : size + r[u].raw + (p - 1) * Largest <= Bound
    BY DEF Room
  <1> DEFINE x == r[u].raw
  <1>3. /\ x \in Nat /\ x > 0 /\ x <= Largest /\ y \in Nat /\ y > 0 /\ y <= Largest
        /\ Bound \in Nat /\ Largest \in Nat
    BY LargestIsLargest, BoundIsNat
  <1>4. size + x + (p - 1) * Largest <= Bound
    BY <1>2
  <1>5. p > 0
    BY <1>1, FS_EmptySet
  <1> HIDE DEF p, x, y
  <1>6. /\ (p - 2) * Largest \in Int /\ (p - 1) * Largest = (p - 2) * Largest + Largest
        /\ p > 1 => 0 <= (p - 2) * Largest
    <2> DEFINE a == p - 2
    <2>1. /\ a + 1 = p - 1 /\ a \in Int /\ a <= a
          /\ p > 1 => 0 <= a
      BY <1>1
    <2> HIDE DEF a
    <2>2. 0 * Largest = 0
      BY <1>3
    <2>3. a * Largest \in Int /\ (a + 1) * Largest = a * Largest + Largest
      BY <2>1, TimesLargest
    <2>4. p > 1 => 0 * Largest <= a * Largest
      BY <2>1, TimesLargest
    <2>5. (p - 1) * Largest = a * Largest + Largest
      BY <2>1, <2>3
    <2> QED
      BY ONLY <2>2, <2>3, <2>4, <2>5 DEF a
  <1>7. CASE P \ {w} = {}
    <2>1. u = w /\ x = y
      BY <1>7 DEF x, y
    <2>2. p = 1
      BY <1>7, <1>1, FS_EmptySet
    <2>3. (p - 1) * Largest = 0
      BY <2>2, <1>3
    <2>4. size + y <= Bound
      BY <2>1, <2>3, <1>4, <1>3
    <2> QED
      BY <2>4, <1>7 DEF Room, y
  <1>8. CASE P \ {w} # {}
    <2>1. p > 1
      <3>1. IsFiniteSet(P \ {w})
        BY <1>1, FS_Subset
      <3>2. Cardinality(P \ {w}) # 0
        BY <3>1, <1>8, FS_EmptySet
      <3> QED
        BY <3>2, <1>1, <1>5
    <2>2. CASE u = w
      <3>1. PICK v \in P \ {w} : TRUE
        BY <1>8
      <3>2. s[v].raw \in Nat /\ s[v].raw <= Largest
        BY <3>1, LargestIsLargest
      <3>3. x = y
        BY <2>2 DEF x, y
      <3>4. size + y + s[v].raw + (p - 2) * Largest <= Bound /\ size + y <= Bound
        BY <3>2, <3>3, <2>1, <1>1, <1>3, <1>4, <1>6
      <3>5. Cardinality(P \ {w}) - 1 = p - 2
        BY <1>1 DEF p
      <3> QED
        BY <3>4, <3>5 DEF Room, y
    <2>3. CASE u # w
      <3>1. s[u].raw = x
        BY <2>3 DEF x
      <3>4. size + y + x + (p - 2) * Largest <= Bound /\ size + y <= Bound
        BY <2>1, <1>1, <1>3, <1>4, <1>6
      <3>5. Cardinality(P \ {w}) - 1 = p - 2
        BY <1>1 DEF p
      <3> QED
        BY <3>1, <3>4, <3>5, <2>3 DEF Room, y
    <2> QED
      BY <2>2, <2>3
  <1> QED
    BY <1>7, <1>8

\* A writer that has looked at the size and found room leaves room for one
\* record of everybody else.
LEMMA RoomChecked ==
    ASSUME NEW P \in SUBSET Writers, NEW w \in P, NEW size \in Nat, NEW r,
           r[w].raw \in Lengths,
           size + r[w].raw <= Limit
    PROVE  Room(size, P, r)
  <1> DEFINE p == Cardinality(P)
             n == Cardinality(Writers)
             x == r[w].raw
  <1>1. p \in Nat /\ n \in Nat /\ p <= n
    BY FS_Subset, FS_CardinalityType, LogAssumption
  <1>2. x \in Nat /\ Bound \in Nat /\ Limit \in Nat /\ Limit <= Bound
    BY LargestIsLargest, BoundIsNat
  <1>3. size + x <= Limit /\ Bound = Limit + (n - 1) * Largest
    BY DEF Bound
  <1> HIDE DEF p, n, x
  <1>4. /\ (p - 1) * Largest <= (n - 1) * Largest
        /\ (p - 1) * Largest \in Int /\ (n - 1) * Largest \in Int
    <2> DEFINE a == p - 1
               b == n - 1
    <2>1. a \in Int /\ b \in Int /\ a <= b
      BY <1>1
    <2> HIDE DEF a, b
    <2>2. a * Largest <= b * Largest /\ a * Largest \in Int /\ b * Largest \in Int
      BY <2>1, TimesLargest
    <2> QED
      BY ONLY <2>2 DEF a, b
  <1>5. size + x + (p - 1) * Largest <= Bound /\ size <= Bound
    BY <1>1, <1>2, <1>3, <1>4
  <1> QED
    BY <1>5 DEF p, x, Room

\* Nothing is there at first.
LEMMA LogInitially == LogInit => LogInv
  <1> SUFFICES ASSUME LogInit PROVE LogInv
    OBVIOUS
  <1>1. LogTypeOK
    BY LogAssumption DEF LogInit, LogTypeOK, Resting, NoFile
  <1>2. Working
    BY DEF LogInit, Working, Resting
  <1>3. Making = {}
    BY DEF LogInit, Making, Resting
  <1>4. Cardinality(Making) = 0
    BY <1>3, FS_EmptySet
  <1>5. Counted
    BY <1>4 DEF LogInit, Counted
  <1>6. AllFit
    BY DEF LogInit, AllFit
  <1> QED
    BY <1>1, <1>2, <1>5, <1>6 DEF LogInv

\* One step of a writer.
StepOf(w) ==
    \/ \E length \in Lengths : Record(w, length)
    \/ Stat(w) \/ Rename(w) \/ OpenLog(w) \/ Write(w) \/ Drop(w)

\* A step changes the stepping writer only.
LEMMA OthersStay ==
    ASSUME LogTypeOK, NEW w \in Writers, StepOf(w)
    PROVE  \A v \in Writers \ {w} : writer'[v] = writer[v]
  <1>1. CASE Stat(w)
    BY <1>1 DEF Stat, LogTypeOK
  <1>2. CASE Rename(w)
    BY <1>2 DEF Rename, LogTypeOK
  <1>3. CASE OpenLog(w)
    BY <1>3 DEF OpenLog, LogTypeOK
  <1>4. CASE (\E length \in Lengths : Record(w, length)) \/ Write(w) \/ Drop(w)
    BY <1>4 DEF Record, Write, Drop, LogTypeOK
  <1> QED
    BY <1>1, <1>2, <1>3, <1>4 DEF StepOf

\* What the step leaves of the stepping writer.
LEMMA WriterAfter ==
    ASSUME LogTypeOK, NEW w \in Writers
    PROVE  /\ \A length \in Lengths : Record(w, length) =>
                  writer'[w] = [pc |-> "stat", raw |-> length, size |-> 0, handle |-> NoFile]
           /\ Stat(w) =>
                  writer'[w] = [writer[w] EXCEPT !.size = SizeAt(logPath),
                      !.pc = IF Full(SizeAt(logPath), writer[w].raw) THEN "rename" ELSE "open"]
           /\ Rename(w) =>
                  writer'[w] = IF logPath = NoFile THEN Resting ELSE [writer[w] EXCEPT !.pc = "open"]
           /\ OpenLog(w) => writer'[w] = [writer[w] EXCEPT !.pc = "write", !.handle = logPath']
           /\ Write(w) \/ Drop(w) => writer'[w] = Resting
  <1> USE DEF LogTypeOK
  <1>1. \A length \in Lengths : Record(w, length) =>
                  writer'[w] = [pc |-> "stat", raw |-> length, size |-> 0, handle |-> NoFile]
    BY DEF Record, Resting
  <1>2. Stat(w) =>
           writer'[w] = [writer[w] EXCEPT !.size = SizeAt(logPath),
               !.pc = IF Full(SizeAt(logPath), writer[w].raw) THEN "rename" ELSE "open"]
    BY DEF Stat
  <1>3. Rename(w) =>
           writer'[w] = IF logPath = NoFile THEN Resting ELSE [writer[w] EXCEPT !.pc = "open"]
    BY DEF Rename
  <1>4. OpenLog(w) => writer'[w] = [writer[w] EXCEPT !.pc = "write", !.handle = logPath']
    BY DEF OpenLog
  <1>5. Write(w) \/ Drop(w) => writer'[w] = Resting
    BY DEF Write, Drop
  <1> QED
    BY <1>1, <1>2, <1>3, <1>4, <1>5

\* A function of records stays one if one writer gets a record.
LEMMA WritersTyped ==
    ASSUME LogTypeOK, NEW w \in Writers, StepOf(w), NEW n \in Nat, inodes <= n,
           writer'[w] \in [pc : {"idle", "stat", "rename", "open", "write"},
                            raw : Lengths \cup {0}, size : Nat, handle : 0..n]
    PROVE  writer' \in [Writers -> [pc : {"idle", "stat", "rename", "open", "write"},
                                     raw : Lengths \cup {0}, size : Nat, handle : 0..n]]
  <1> DEFINE R == [pc : {"idle", "stat", "rename", "open", "write"},
                   raw : Lengths \cup {0}, size : Nat, handle : 0..n]
  <1>1. \A v \in Writers : writer[v] \in R
    BY LogAssumption DEF LogTypeOK
  <1>2. \E x : writer' = [writer EXCEPT ![w] = x]
    BY DEF StepOf, Record, Stat, Rename, OpenLog, Write, Drop
  <1>3. DOMAIN writer' = Writers /\ writer' = [v \in Writers |-> writer'[v]]
    BY <1>2 DEF LogTypeOK
  <1> HIDE DEF R
  <1>4. \A v \in Writers : writer'[v] \in R
    BY <1>1, OthersStay DEF R
  <1> QED
    BY <1>3, <1>4 DEF R

\* How many writers are about to make a file, after a step of one.
LEMMA MakingCount ==
    ASSUME LogTypeOK, NEW w \in Writers, StepOf(w)
    PROVE  /\ Cardinality(Making) \in Nat /\ Cardinality(Making') \in Nat
           /\ w \in Making /\ w \in Making' => Cardinality(Making') = Cardinality(Making)
           /\ w \in Making /\ w \notin Making' => Cardinality(Making') = Cardinality(Making) - 1
           /\ w \notin Making /\ w \in Making' => Cardinality(Making') = Cardinality(Making) + 1
           /\ w \notin Making /\ w \notin Making' => Cardinality(Making') = Cardinality(Making)
  <1>1. IsFiniteSet(Making) /\ IsFiniteSet(Making')
    BY FS_Subset, LogAssumption DEF Making
  <1>2. Making \ {w} = Making' \ {w}
    BY OthersStay DEF Making
  <1>3. Cardinality(Making) \in Nat /\ Cardinality(Making') \in Nat
    BY <1>1, FS_CardinalityType
  <1>4. /\ w \in Making => Cardinality(Making \ {w}) = Cardinality(Making) - 1
        /\ w \notin Making => Cardinality(Making \ {w}) = Cardinality(Making)
        /\ w \in Making' => Cardinality(Making' \ {w}) = Cardinality(Making') - 1
        /\ w \notin Making' => Cardinality(Making' \ {w}) = Cardinality(Making')
    BY <1>1, FS_RemoveElement
  <1> DEFINE a == Cardinality(Making)
             b == Cardinality(Making')
             c == Cardinality(Making \ {w})
  <1>5. /\ a \in Nat /\ b \in Nat
        /\ w \in Making => c = a - 1
        /\ w \notin Making => c = a
        /\ w \in Making' => c = b - 1
        /\ w \notin Making' => c = b
    BY <1>2, <1>3, <1>4
  <1> HIDE DEF a, b, c
  <1>6. /\ w \in Making /\ w \in Making' => b = a
        /\ w \in Making /\ w \notin Making' => b = a - 1
        /\ w \notin Making /\ w \in Making' => b = a + 1
        /\ w \notin Making /\ w \notin Making' => b = a
    BY <1>5
  <1> QED
    BY <1>3, <1>6 DEF a, b

\* Types, the counts of files and what each writer holds, step by step.
LEMMA CountedStep ==
    ASSUME LogInv, NEW w \in Writers, StepOf(w)
    PROVE  LogTypeOK' /\ Working' /\ Counted' /\ inodes <= inodes'
  <1> USE DEF LogInv
  <1> DEFINE R(n) == [pc : {"idle", "stat", "rename", "open", "write"},
                      raw : Lengths \cup {0}, size : Nat, handle : 0..n]
             m == Cardinality(Making)
  <1>1. /\ m \in Nat /\ inodes + m <= begun
        /\ \A i \in 1..MaxRecords : i > inodes => fileSize[i] = 0
        /\ Cardinality(Making') \in Nat
    BY MakingCount DEF Counted
  <1>2. /\ writer[w] \in R(inodes) /\ inodes \in Nat /\ MaxRecords \in Nat /\ inodes <= MaxRecords
        /\ begun \in Nat /\ begun <= MaxRecords
        /\ logPath \in 0..inodes /\ logBackup \in 0..inodes
        /\ fileSize \in [1..MaxRecords -> Nat]
    BY LogAssumption DEF LogTypeOK
  <1>3. \A k \in Lengths : k \in Nat
    BY LogAssumption
  <1>4. SizeAt(logPath) \in Nat
    BY <1>2 DEF SizeAt, NoFile
  <1>5. w \in Making <=> writer[w].pc \in {"stat", "rename", "open"}
    BY DEF Making
  <1>6. w \in Making' <=> writer'[w].pc \in {"stat", "rename", "open"}
    BY DEF Making
  <1>7. \A v \in Writers \ {w} : writer'[v] = writer[v]
    BY OthersStay
  <1>8. ASSUME NEW length \in Lengths, Record(w, length)
        PROVE  LogTypeOK' /\ Working' /\ Counted' /\ inodes <= inodes'
    <2>1. writer'[w] = [pc |-> "stat", raw |-> length, size |-> 0, handle |-> NoFile]
      BY <1>8, WriterAfter
    <2>2. /\ writer[w].pc = "idle" /\ begun < MaxRecords /\ begun' = begun + 1
          /\ UNCHANGED <<logPath, logBackup, inodes, fileSize>>
      BY <1>8 DEF Record
    <2>3. writer'[w] \in R(inodes)
      BY <2>1, <1>2 DEF NoFile
    <2>4. writer' \in [Writers -> R(inodes)]
      BY <2>3, <1>2, WritersTyped
    <2>5. LogTypeOK'
      BY <2>2, <2>4, <1>2 DEF LogTypeOK
    <2>6. Working'
      BY <2>1, <1>7 DEF Working
    <2>7. Cardinality(Making') = m + 1
      BY <1>5, <1>6, <2>1, <2>2, MakingCount
    <2>8. Counted'
      BY <2>7, <2>2, <1>1, <1>2 DEF Counted
    <2> QED
      BY <2>5, <2>6, <2>8, <2>2, <1>2
  <1>9. CASE Stat(w)
    <2>1. writer'[w] = [writer[w] EXCEPT !.size = SizeAt(logPath),
               !.pc = IF Full(SizeAt(logPath), writer[w].raw) THEN "rename" ELSE "open"]
      BY <1>9, WriterAfter
    <2>2. /\ writer[w].pc = "stat"
          /\ UNCHANGED <<logPath, logBackup, inodes, fileSize, begun>>
      BY <1>9 DEF Stat
    <2>3. writer'[w] \in R(inodes) /\ writer'[w].pc \in {"rename", "open"}
          /\ writer'[w].raw = writer[w].raw
      BY <2>1, <1>2, <1>4
    <2>4. writer' \in [Writers -> R(inodes)]
      BY <2>3, <1>2, WritersTyped
    <2>5. LogTypeOK'
      BY <2>2, <2>4, <1>2 DEF LogTypeOK
    <2>6. Working'
      BY <2>3, <2>2, <1>7 DEF Working
    <2>7. Cardinality(Making') = m
      BY <1>5, <1>6, <2>2, <2>3, MakingCount
    <2>8. Counted'
      BY <2>7, <2>2, <1>1, <1>2 DEF Counted
    <2> QED
      BY <2>5, <2>6, <2>8, <2>2, <1>2
  <1>10. CASE Rename(w)
    <2>1. writer'[w] = IF logPath = NoFile THEN Resting ELSE [writer[w] EXCEPT !.pc = "open"]
      BY <1>10, WriterAfter
    <2>2. /\ writer[w].pc = "rename"
          /\ logPath' \in {logPath, NoFile} /\ logBackup' \in {logPath, logBackup}
          /\ UNCHANGED <<inodes, fileSize, begun>>
      BY <1>10 DEF Rename
    <2>3. /\ writer'[w] \in R(inodes) /\ writer'[w].pc \in {"idle", "open"}
          /\ writer'[w].pc # "idle" => writer'[w].raw = writer[w].raw
      BY <2>1, <1>2 DEF Resting, NoFile
    <2>4. writer' \in [Writers -> R(inodes)]
      BY <2>3, <1>2, WritersTyped
    <2>5. LogTypeOK'
      BY <2>2, <2>4, <1>2 DEF LogTypeOK, NoFile
    <2>6. Working'
      BY <2>3, <2>2, <1>7 DEF Working
    <2>7. Cardinality(Making') <= m
      BY <1>1, <1>5, <1>6, <2>2, <2>3, MakingCount
    <2>8. Counted'
      BY <2>7, <2>2, <1>1, <1>2 DEF Counted
    <2> QED
      BY <2>5, <2>6, <2>8, <2>2, <1>2
  <1>11. CASE OpenLog(w)
    <2>1. writer'[w] = [writer[w] EXCEPT !.pc = "write", !.handle = logPath']
      BY <1>11, WriterAfter
    <2>2. /\ writer[w].pc = "open"
          /\ UNCHANGED <<logBackup, fileSize, begun>>
          /\ logPath = NoFile => inodes' = inodes + 1 /\ logPath' = inodes + 1
          /\ logPath # NoFile => inodes' = inodes /\ logPath' = logPath
      BY <1>11 DEF OpenLog
    <2>7. Cardinality(Making') = m - 1
      <3>1. w \in Making /\ w \notin Making'
        BY <1>5, <1>6, <2>1, <2>2, <1>2
      <3> QED
        BY <3>1, MakingCount
    <2>9. /\ inodes' \in Nat /\ inodes <= inodes' /\ inodes' <= MaxRecords
          /\ inodes' + Cardinality(Making') <= begun
          /\ logPath' \in 1..inodes'
      BY <2>7, <2>2, <1>1, <1>2 DEF NoFile
    <2>3. writer'[w] \in R(inodes') /\ writer'[w].pc = "write" /\ writer'[w].handle # NoFile
          /\ writer'[w].raw = writer[w].raw
      <3>1. logPath' \in 0..inodes' /\ logPath' # NoFile
        BY <2>9 DEF NoFile
      <3>2. writer[w] \in [pc : {"idle", "stat", "rename", "open", "write"},
                           raw : Lengths \cup {0}, size : Nat, handle : 0..inodes]
        BY <1>2
      <3> QED
        BY <2>1, <3>1, <3>2
    <2>4. writer' \in [Writers -> R(inodes')]
      BY <2>3, <2>9, WritersTyped
    <2>5. LogTypeOK'
      BY <2>2, <2>4, <2>9, <1>2 DEF LogTypeOK
    <2>6. Working'
      BY <2>3, <2>2, <1>7 DEF Working
    <2>8. Counted'
      BY <2>9, <2>2, <1>1, <1>2 DEF Counted
    <2> QED
      BY <2>5, <2>6, <2>8, <2>9
  <1>12. CASE Write(w) \/ Drop(w)
    <2>1. writer'[w] = Resting
      BY <1>12, WriterAfter
    <2>2. /\ UNCHANGED <<logPath, logBackup, inodes, begun>>
          /\ \/ fileSize' = fileSize
             \/ /\ writer[w].pc = "write"
                /\ fileSize' = [fileSize EXCEPT ![writer[w].handle] = @ + writer[w].raw]
      BY <1>12 DEF Write, Drop
    <2>3. writer'[w] \in R(inodes) /\ writer'[w].pc = "idle"
      BY <2>1, <1>2 DEF Resting, NoFile
    <2>4. writer' \in [Writers -> R(inodes)]
      <3>1. inodes \in Nat /\ inodes <= inodes
        BY <1>2
      <3> QED
        BY <2>3, <3>1, WritersTyped
    <2>5. writer[w].raw \in Nat /\ (writer[w].pc = "write" => writer[w].handle \in 1..inodes)
      BY <1>2, <1>3 DEF Working, NoFile
    <2>6. /\ fileSize' \in [1..MaxRecords -> Nat]
          /\ \A i \in 1..MaxRecords : i > inodes => fileSize'[i] = 0
      <3>1. CASE fileSize' = fileSize
        BY <3>1, <1>1, <1>2
      <3>2. CASE writer[w].pc = "write" /\ fileSize' = [fileSize EXCEPT ![writer[w].handle] = @ + writer[w].raw]
        <4> DEFINE h == writer[w].handle
                   x == writer[w].raw
        <4>1. h \in 1..MaxRecords /\ h <= inodes /\ x \in Nat
          BY <3>2, <2>5, <1>2
        <4>2. fileSize' = [fileSize EXCEPT ![h] = @ + x]
          BY <3>2
        <4> HIDE DEF h, x
        <4>3. fileSize \in [1..MaxRecords -> Nat]
          BY <1>2
        <4>4. fileSize[h] + x \in Nat
          BY <4>1, <4>3
        <4>5. fileSize' \in [1..MaxRecords -> Nat]
          BY <4>2, <4>3, <4>4
        <4>6. ASSUME NEW i \in 1..MaxRecords, i > inodes PROVE fileSize'[i] = 0
          <5>1. i # h
            BY <4>1, <4>6, <1>2
          <5> QED
            BY <5>1, <4>2, <4>3, <4>6, <1>1, <1>2
        <4> QED
          BY <4>5, <4>6
      <3> QED
        BY <2>2, <3>1, <3>2
    <2>7. LogTypeOK'
      BY <2>2, <2>4, <2>6, <1>2 DEF LogTypeOK
    <2>8. Working'
      BY <2>3, <1>7 DEF Working
    <2>9. Cardinality(Making') <= m
      <3>1. w \notin Making'
        BY <1>6, <2>3
      <3> QED
        BY <3>1, <1>1, MakingCount
    <2>10. Counted'
      BY <2>9, <2>6, <2>2, <1>1, <1>2 DEF Counted
    <2> QED
      BY <2>7, <2>8, <2>10, <2>2, <1>2
  <1> QED
    BY <1>8, <1>9, <1>10, <1>11, <1>12 DEF StepOf

\* A step that lets nobody write to a file who could not before leaves room.
LEMMA RoomStays ==
    ASSUME LogInv, NEW w \in Writers, StepOf(w), NEW i \in 1..inodes,
           Pending(i)' \subseteq Pending(i), fileSize'[i] = fileSize[i],
           w \in Pending(i)' => writer'[w].raw = writer[w].raw
    PROVE  Room(fileSize'[i], Pending(i)', writer')
  <1>1. /\ Pending(i) \in SUBSET Writers /\ fileSize[i] \in Nat
        /\ \A v \in Pending(i) : writer[v].raw \in Lengths
    <2>1. fileSize[i] \in Nat
      BY LogAssumption DEF LogInv, LogTypeOK
    <2> QED
      BY <2>1 DEF LogInv, Working, Pending
  <1>2. Room(fileSize[i], Pending(i), writer)
    BY DEF LogInv, AllFit
  <1>3. \A v \in Pending(i)' : writer'[v].raw = writer[v].raw
    BY OthersStay, <1>1 DEF LogInv
  <1> DEFINE P == Pending(i)
             Q == Pending(i)'
  <1>4. Q \in SUBSET P
    OBVIOUS
  <1>5. /\ P \in SUBSET Writers
        /\ Room(fileSize[i], P, writer)
        /\ \A v \in P : writer[v].raw \in Lengths
        /\ \A v \in Q : writer'[v].raw = writer[v].raw
    BY <1>1, <1>2, <1>3
  <1> HIDE DEF P, Q
  <1>6. Room(fileSize[i], Q, writer')
    BY <1>1, <1>4, <1>5, RoomShrinks
  <1> QED
    BY <1>6 DEF Q

\* Who looks at the size joins the writers of the file only if his record fits.
LEMMA FitStep ==
    ASSUME LogInv, NEW w \in Writers, StepOf(w)
    PROVE  AllFit'
  <1> SUFFICES ASSUME NEW i \in 1..inodes'
               PROVE  Room(fileSize'[i], Pending(i)', writer')
    BY DEF AllFit
  <1>1. /\ inodes \in Nat /\ inodes' \in Nat /\ inodes <= MaxRecords /\ MaxRecords \in Nat
        /\ inodes' <= MaxRecords
        /\ i \in 1..MaxRecords /\ fileSize[i] \in Nat /\ fileSize'[i] \in Nat
        /\ logPath \in Nat /\ logPath <= inodes
    <2>1. LogTypeOK /\ LogTypeOK'
      BY CountedStep DEF LogInv
    <2>2. /\ fileSize \in [1..MaxRecords -> Nat] /\ fileSize' \in [1..MaxRecords -> Nat]
          /\ inodes \in 0..MaxRecords /\ inodes' \in 0..MaxRecords /\ logPath \in 0..inodes
          /\ MaxRecords \in Nat
      BY <2>1, LogAssumption DEF LogTypeOK
    <2> QED
      BY <2>2
  <1>2. \A v \in Writers \ {w} : writer'[v] = writer[v]
    BY OthersStay DEF LogInv
  <1>3. /\ writer[w].pc # "idle" => writer[w].raw \in Lengths
        /\ LogTypeOK
        /\ writer[w] \in [pc : {"idle", "stat", "rename", "open", "write"},
                            raw : Lengths \cup {0}, size : Nat, handle : 0..inodes]
    BY DEF LogInv, Working, LogTypeOK
  <1>4. Pending(i)' \in SUBSET Writers
    BY DEF Pending
  <1>5. CASE (\E length \in Lengths : Record(w, length)) \/ Drop(w)
    <2>1. writer'[w].pc \in {"idle", "stat"}
      <3>1. CASE Drop(w)
        <4>1. writer'[w] = Resting
          BY <3>1, <1>3, WriterAfter, Zenon
        <4> QED
          BY <4>1 DEF Resting
      <3>2. ASSUME NEW length \in Lengths, Record(w, length)
            PROVE  writer'[w].pc = "stat"
        <4>1. writer'[w] = [pc |-> "stat", raw |-> length, size |-> 0, handle |-> NoFile]
          BY <3>2, <1>3, WriterAfter
        <4> QED
          BY <4>1
      <3> QED
        BY <1>5, <3>1, <3>2
    <2>2. UNCHANGED <<logPath, logBackup, inodes, fileSize>>
      BY <1>5 DEF Record, Drop
    <2>3. Pending(i)' \subseteq Pending(i) /\ w \notin Pending(i)'
      BY <2>1, <2>2, <1>2 DEF Pending
    <2> QED
      BY <2>2, <2>3, RoomStays
  <1>6. CASE Stat(w)
    <2>1. writer'[w] = [writer[w] EXCEPT !.size = SizeAt(logPath),
               !.pc = IF Full(SizeAt(logPath), writer[w].raw) THEN "rename" ELSE "open"]
      BY <1>6, <1>3, WriterAfter
    <2>2. /\ writer[w].pc = "stat"
          /\ UNCHANGED <<logPath, logBackup, inodes, fileSize, begun>>
      BY <1>6 DEF Stat
    <2>3. writer'[w].raw = writer[w].raw /\ writer[w].raw \in Lengths
      BY <2>1, <2>2, <1>3
    <2>4. CASE Full(SizeAt(logPath), writer[w].raw) \/ i # logPath
      <3>1. writer'[w].pc \in {"rename", "open"} /\ (i = logPath => writer'[w].pc = "rename")
        BY <2>1, <2>4, <1>3
      <3>2. Pending(i)' \subseteq Pending(i)
        BY <3>1, <2>2, <1>2 DEF Pending
      <3> QED
        BY <3>2, <2>2, <2>3, RoomStays
    <2>5. CASE ~ Full(SizeAt(logPath), writer[w].raw) /\ i = logPath
      <3>1. writer'[w].pc = "open"
        BY <2>1, <2>5, <1>3
      <3>2. w \in Pending(i)'
        BY <3>1, <2>5, <2>2 DEF Pending
      <3>3. SizeAt(logPath) = fileSize[i]
        BY <2>5, <1>1 DEF SizeAt, NoFile
      <3>4. fileSize[i] + writer[w].raw <= Limit
        <4>1. fileSize[i] > 0 => fileSize[i] + writer[w].raw <= MaxBytes
          <5> DEFINE x == writer[w].raw
                     y == fileSize[i]
          <5>1. ~ Full(y, x)
            BY <2>5, <3>3
          <5>2. x \in Nat /\ y \in Nat /\ MaxBytes \in Nat
            BY <2>3, <1>1, LargestIsLargest, LogAssumption
          <5> HIDE DEF x, y
          <5>3. y > 0 => y + x <= MaxBytes
            BY <5>1, <5>2 DEF Full
          <5> QED
            BY <5>3 DEF x, y
        <4>2. writer[w].raw \in Nat /\ writer[w].raw <= Largest
          BY <2>3, LargestIsLargest
        <4>3. Limit \in Nat /\ Largest \in Nat /\ MaxBytes \in Nat /\ Largest <= Limit /\ MaxBytes <= Limit
          BY BoundIsNat, LargestIsLargest, LogAssumption
        <4> QED
          BY <4>1, <4>2, <4>3, <1>1
      <3>5. fileSize'[i] + writer'[w].raw <= Limit /\ writer'[w].raw \in Lengths
        BY <3>4, <2>2, <2>3
      <3> QED
        BY <3>2, <3>5, <1>1, <1>4, RoomChecked
    <2> QED
      BY <2>4, <2>5
  <1>7. CASE Rename(w)
    <2>1. writer'[w] = IF logPath = NoFile THEN Resting ELSE [writer[w] EXCEPT !.pc = "open"]
      BY <1>7, <1>3, WriterAfter
    <2>2. UNCHANGED <<inodes, fileSize>> /\ logPath' = NoFile
      BY <1>7 DEF Rename
    <2>3. writer'[w].pc \in {"idle", "open"}
      BY <2>1, <1>3 DEF Resting
    <2>4. i # NoFile
      BY <1>1 DEF NoFile
    <2>5. Pending(i)' \subseteq Pending(i) /\ w \notin Pending(i)'
      BY <2>2, <2>3, <2>4, <1>2 DEF Pending
    <2> QED
      BY <2>2, <2>5, RoomStays
  <1>8. CASE OpenLog(w)
    <2>1. writer'[w] = [writer[w] EXCEPT !.pc = "write", !.handle = logPath']
      BY <1>8, <1>3, WriterAfter
    <2>2. /\ writer[w].pc = "open"
          /\ UNCHANGED <<logBackup, fileSize, begun>>
          /\ logPath = NoFile => inodes' = inodes + 1 /\ logPath' = inodes + 1
          /\ logPath # NoFile => inodes' = inodes /\ logPath' = logPath
      BY <1>8 DEF OpenLog
    <2>3. /\ writer'[w].raw = writer[w].raw /\ writer[w].raw \in Lengths
          /\ writer'[w].pc = "write" /\ writer'[w].handle = logPath'
      BY <2>1, <2>2, <1>3
    <2>4. CASE i \in 1..inodes
      <3>1. logPath' = i => logPath = i
        BY <2>2, <2>4, <1>1
      <3>2. Pending(i)' \subseteq Pending(i)
        BY <3>1, <2>2, <2>3, <1>2 DEF Pending
      <3> QED
        BY <3>2, <2>2, <2>3, <2>4, RoomStays
    <2>5. CASE i \notin 1..inodes
      <3>1. i = inodes + 1 /\ logPath' = i
        BY <2>2, <2>5, <1>1
      <3>2. fileSize'[i] = 0
        BY <3>1, <2>2, <1>1 DEF LogInv, Counted
      <3>3. w \in Pending(i)'
        BY <3>1, <2>3 DEF Pending
      <3>4. fileSize'[i] + writer'[w].raw <= Limit /\ writer'[w].raw \in Lengths
        <4>1. writer[w].raw \in Nat /\ writer[w].raw <= Largest
          BY <2>3, LargestIsLargest
        <4>2. Limit \in Nat /\ Largest \in Nat /\ Largest <= Limit
          BY BoundIsNat, LargestIsLargest
        <4> DEFINE x == writer[w].raw
        <4>3. x \in Nat /\ x <= Largest
          BY <4>1
        <4> HIDE DEF x
        <4>4. 0 + x <= Limit
          BY <4>2, <4>3
        <4> QED
          BY <4>4, <3>2, <2>3 DEF x
      <3> QED
        BY <3>3, <3>4, <1>1, <1>4, RoomChecked
    <2> QED
      BY <2>4, <2>5
  <1>9. CASE Write(w)
    <2>1. writer'[w] = Resting
      BY <1>9, <1>3, WriterAfter
    <2>2. /\ UNCHANGED <<logPath, inodes>> /\ writer[w].pc = "write"
          /\ fileSize' = [fileSize EXCEPT ![writer[w].handle] = @ + writer[w].raw]
      BY <1>9 DEF Write
    <2>3. Pending(i)' = Pending(i) \ {w}
      BY <2>1, <2>2, <1>2 DEF Pending, Resting
    <2>4. CASE writer[w].handle # i
      <3>1. fileSize'[i] = fileSize[i]
        BY <2>2, <2>4, <1>1 DEF LogTypeOK
      <3> QED
        BY <3>1, <2>2, <2>3, RoomStays
    <2>5. CASE writer[w].handle = i
      <3>1. fileSize'[i] = fileSize[i] + writer[w].raw
        BY <2>2, <2>5, <1>1, <1>3 DEF LogTypeOK
      <3>2. w \in Pending(i) /\ i \in 1..inodes
        BY <2>2, <2>5 DEF Pending
      <3>3. /\ \A v \in Pending(i) : writer[v].raw \in Lengths
            /\ Room(fileSize[i], Pending(i), writer)
            /\ Pending(i) \in SUBSET Writers
        BY <3>2 DEF LogInv, Working, Pending, AllFit
      <3>4. \A v \in Pending(i) \ {w} : writer'[v].raw = writer[v].raw
        BY <1>2 DEF Pending
      <3>5. Room(fileSize[i] + writer[w].raw, Pending(i) \ {w}, writer')
        BY <3>2, <3>3, <3>4, <1>1, RoomWritten
      <3> QED
        BY <3>1, <3>5, <2>3
    <2> QED
      BY <2>4, <2>5
  <1> QED
    BY <1>5, <1>6, <1>7, <1>8, <1>9 DEF StepOf

\* Doing nothing keeps the invariant.
LEMMA LogStutter == LogInv /\ UNCHANGED logVars => LogInv'
  <1> SUFFICES ASSUME LogInv, UNCHANGED logVars PROVE LogInv'
    OBVIOUS
  <1>1. UNCHANGED <<logPath, logBackup, inodes, fileSize, writer, begun>>
    BY DEF logVars
  <1>2. LogTypeOK' /\ Working'
    BY <1>1 DEF LogInv, LogTypeOK, Working
  <1>3. Making' = Making /\ \A i \in 1..inodes : Pending(i)' = Pending(i)
    BY <1>1 DEF Making, Pending
  <1>4. Counted' /\ AllFit'
    BY <1>1, <1>3 DEF LogInv, Counted, AllFit
  <1> QED
    BY <1>2, <1>4 DEF LogInv

\* events.py, FailureLog: types, the counts of files, and room in every file.
THEOREM LogInvariant == LogSpec => []LogInv
  <1>1. LogInv /\ [LogNext]_logVars => LogInv'
    BY CountedStep, FitStep, LogStutter DEF LogNext, StepOf, LogInv
  <1> QED
    BY LogInitially, <1>1, PTL DEF LogSpec

\* events.py, FailureLog: for any writers, record lengths and max_bytes, a
\* retained file exceeds the limit by at most one record of every other writer.
THEOREM LogHolds == LogSpec => []LogBounded
  <1>1. LogInv => LogBounded
    <2> SUFFICES ASSUME LogInv, NEW name \in {logPath, logBackup} \ {NoFile}
                 PROVE  fileSize[name] <= Bound
      BY DEF LogBounded, Bound, Limit
    <2>1. name \in 1..inodes
      BY DEF LogInv, LogTypeOK, NoFile
    <2> QED
      BY <2>1 DEF LogInv, AllFit, Room
  <1> QED
    BY <1>1, LogInvariant, PTL
-----------------------------------------------------------------------------
(* Commands. *)

\* The bundles and the argument lists there are.
Bundles == {InitialFiles[path] : path \in {p \in DOMAIN InitialFiles :
                                              InitialFiles[p].kind = "bundle"}}
Exports == {args \in Arguments : args.command = "export"}

\* An artifact that an export can have made.
Made(artifact) ==
    \E args \in Exports, b \in Bundles : \E s, t :
        /\ artifact = Build(args.format, b, args.mapping, s, t)
        /\ ~ ExportRaises(args.format, b, args.mapping)

\* What a command writes is an artifact, and a file of another kind.
Plan(them) ==
    /\ DOMAIN them = 1..2 /\ Len(them) = 2 /\ them # <<>>
    /\ Made(them[1][2]) /\ them[2][2].kind \in {"public key", "companion"}
Planned(c) == Plan(targets[c])

\* A command has its arguments and its bundle, and knows its targets from the
\* build on.  As long as it checks or writes, the targets behind it may be written.
Allowed(c, i) == targets[c][i][1] \in DOMAIN InitialFiles => arguments[c].force
Steady(c) ==
    /\ stage[c] \notin {"new", "done"} => arguments[c] \in Exports /\ bundle[c] \in Bundles
    /\ targets[c] = <<>> \/ Planned(c)
    /\ stage[c] \in {"new", "mapping", "seed", "identity", "build"} =>
           targets[c] = <<>> /\ position[c] = 1
    /\ stage[c] \in {"check", "write"} => targets[c] # <<>> /\ position[c] \in 1..2
    /\ stage[c] = "check" => \A i \in 1..(position[c] - 1) : Allowed(c, i)
    /\ stage[c] = "write" => Allowed(c, 1) /\ Allowed(c, 2)

Tables ==
    /\ DOMAIN arguments = Commands /\ DOMAIN bundle = Commands /\ DOMAIN seed = Commands
    /\ DOMAIN targets = Commands /\ DOMAIN position = Commands

Progress == Tables /\ \A c \in Commands : Steady(c)

\* Where every file comes from.
FromTarget(c, path) ==
    /\ path \in WritesBegun(c)
    /\ path \in DOMAIN InitialFiles => arguments[c].force
    /\ \/ disk[path] = Partial
       \/ \E i \in DOMAIN targets[c] : disk[path] = targets[c][i][2]
Origins ==
    \A path \in DOMAIN disk :
        \/ path \in DOMAIN InitialFiles /\ disk[path] = InitialFiles[path]
        \/ \E c \in Commands : FromTarget(c, path)

\* The targets a command has written and nobody else writes to.
Done(c) ==
    IF stage[c] = "write" THEN 1..(position[c] - 1)
    ELSE IF stage[c] = "done" /\ code[c] = 0 THEN DOMAIN targets[c] ELSE {}
Written ==
    \A c \in Commands : PathsDistinct(c) => \A i \in Done(c) :
        Ours(c, targets[c][i][1]) =>
            /\ targets[c][i][1] \in DOMAIN disk
            /\ disk[targets[c][i][1]] = targets[c][i][2]

CommandInv == CommandTypeOK /\ Progress /\ Origins /\ Written

\* An artifact has the kind of one, and no other file does.
LEMMA KindOfMade == ASSUME NEW x, Made(x) PROVE x.kind = "artifact"
  BY DEF Made, Build

\* What is on the disk: an artifact was made by an export, a bundle was there.
LEMMA Contents ==
    ASSUME Progress, Origins, NEW path \in DOMAIN disk
    PROVE  /\ disk[path].kind = "artifact" => Made(disk[path])
           /\ disk[path].kind = "bundle" => disk[path] \in Bundles
<1>1. CASE path \in DOMAIN InitialFiles /\ disk[path] = InitialFiles[path]
  BY <1>1, FilesAssumption DEF Bundles
<1>2. ASSUME NEW c \in Commands, FromTarget(c, path)
      PROVE  /\ disk[path].kind = "artifact" => Made(disk[path])
             /\ disk[path].kind = "bundle" => disk[path] \in Bundles
  <2>1. CASE disk[path] = Partial
    BY <2>1 DEF Partial
  <2>2. ASSUME NEW i \in DOMAIN targets[c], disk[path] = targets[c][i][2]
        PROVE  /\ disk[path].kind = "artifact" => Made(disk[path])
               /\ disk[path].kind = "bundle" => disk[path] \in Bundles
    <3>1. CASE targets[c] = <<>>
      BY <2>2, <3>1
    <3>2. CASE Planned(c)
      <4>0. i \in 1..2
        BY <3>2 DEF Planned, Plan
      <4>1. i = 1 \/ i = 2
        BY <4>0
      <4>2. CASE i = 1
        BY <2>2, <3>2, <4>2, KindOfMade DEF Planned, Plan
      <4>3. CASE i = 2
        BY <2>2, <3>2, <4>3 DEF Planned, Plan
      <4> QED
        BY <4>1, <4>2, <4>3
    <3> QED
      BY <3>1, <3>2 DEF Progress, Steady
  <2> QED
    BY <1>2, <2>1, <2>2 DEF FromTarget
<1> QED
  BY <1>1, <1>2 DEF Origins

\* A command that reads a bundle reads evidence of the runtime.
LEMMA CommandInitially == CommandInit => CommandInv
<1> SUFFICES ASSUME CommandInit PROVE CommandInv
  OBVIOUS
<1>1. CommandTypeOK
  BY DEF CommandInit, CommandTypeOK
<1>2. Progress
  BY DEF CommandInit, Progress, Steady, Tables
<1>3. Origins
  BY DEF CommandInit, Origins
<1>4. Written
  BY DEF CommandInit, Written, Done
<1> QED
  BY <1>1, <1>2, <1>3, <1>4 DEF CommandInv

\* An action of one command leaves the others alone.
Others(c) ==
    \A d \in Commands \ {c} :
        /\ stage'[d] = stage[d] /\ arguments'[d] = arguments[d] /\ bundle'[d] = bundle[d]
        /\ targets'[d] = targets[d] /\ position'[d] = position[d] /\ code'[d] = code[d]
        /\ failedWrite'[d] = failedWrite[d]

\* A step of a command that writes nothing.
Reading(c) ==
    \/ \E args \in Arguments : Start(c, args)
    \/ \E args \in Arguments : \E verdict \in 0..2 : Verify(c, args, verdict)
    \/ LoadMapping(c)
    \/ SeedFromFile(c)
    \/ LockDirectory(c)
    \/ \E usable \in BOOLEAN : ReadIdentity(c, usable)
    \/ \E time \in Times : BuildArtifact(c, time)
    \/ CheckTarget(c)
    \/ Kill(c)

\* What changes at the commands at all.
LEMMA OneMoves ==
    ASSUME CommandTypeOK, Tables, NEW c \in Commands, Reading(c) \/ WriteTarget(c)
    PROVE  Others(c) /\ Tables'
<1>0. DOMAIN stage = Commands /\ DOMAIN code = Commands /\ DOMAIN failedWrite = Commands
  BY DEF CommandTypeOK
<1> USE DEF Others, Tables
<1>1. ASSUME NEW args \in Arguments, Start(c, args) PROVE Others(c) /\ Tables'
  BY <1>0, <1>1 DEF Start, Exit
<1>2. ASSUME NEW args \in Arguments, NEW verdict \in 0..2, Verify(c, args, verdict)
      PROVE  Others(c) /\ Tables'
  BY <1>0, <1>2 DEF Verify, Exit
<1>3. CASE LoadMapping(c)
  BY <1>0, <1>3 DEF LoadMapping, Exit
<1>4. CASE SeedFromFile(c)
  BY <1>0, <1>4 DEF SeedFromFile, Exit
<1>5. CASE LockDirectory(c)
  BY <1>0, <1>5 DEF LockDirectory, Exit
<1>6. ASSUME NEW usable \in BOOLEAN, ReadIdentity(c, usable) PROVE Others(c) /\ Tables'
  BY <1>0, <1>6 DEF ReadIdentity, Exit
<1>7. ASSUME NEW time \in Times, BuildArtifact(c, time) PROVE Others(c) /\ Tables'
  BY <1>0, <1>7 DEF BuildArtifact, Exit
<1>8. CASE CheckTarget(c)
  BY <1>0, <1>8 DEF CheckTarget, Exit
<1>9. CASE Kill(c)
  BY <1>0, <1>9 DEF Kill, Exit
<1>10. CASE WriteTarget(c)
  BY <1>0, <1>10 DEF WriteTarget, Exit
<1> QED
  BY <1>1, <1>2, <1>3, <1>4, <1>5, <1>6, <1>7, <1>8, <1>9, <1>10 DEF Reading

\* The commands that do not move stay as steady as they were.
LEMMA OthersSteady ==
    ASSUME NEW c \in Commands, NEW d \in Commands \ {c}, Others(c), Steady(d)
    PROVE  Steady(d)'
<1>1. /\ stage'[d] = stage[d] /\ arguments'[d] = arguments[d] /\ bundle'[d] = bundle[d]
      /\ targets'[d] = targets[d] /\ position'[d] = position[d]
  BY DEF Others
<1>2. (Planned(d) => Planned(d)') /\ \A i : Allowed(d, i)' <=> Allowed(d, i)
  BY <1>1 DEF Planned, Plan, Allowed
<1> QED
  BY <1>1, <1>2 DEF Steady

\* A tuple of two.
LEMMA PairFacts ==
    ASSUME NEW x, NEW y
    PROVE  /\ DOMAIN <<x, y>> = 1..2 /\ Len(<<x, y>>) = 2 /\ <<x, y>> # <<>>
           /\ <<x, y>>[1] = x /\ <<x, y>>[2] = y
  OBVIOUS

\* An artifact and a file of another kind are what a command writes.
LEMMA PairIsPlan ==
    ASSUME NEW x, NEW y, Made(x[2]), y[2].kind \in {"public key", "companion"}
    PROVE  Plan(<<x, y>>)
<1> DEFINE them == <<x, y>>
<1>1. /\ DOMAIN them = 1..2 /\ Len(them) = 2 /\ them # <<>>
      /\ them[1] = x /\ them[2] = y
  BY PairFacts
<1> HIDE DEF them
<1>2. Plan(them)
  BY <1>1 DEF Plan
<1> QED
  BY <1>2 DEF them

\* The two targets of an export.
LEMMA TargetsOfExport ==
    ASSUME NEW args, NEW artifact, NEW native, NEW signer, Made(artifact)
    PROVE  Plan(ExportPaths(args, artifact, native, signer))
<1> DEFINE out == IF args.out = Default THEN Path(args.bundle[1], args.format) ELSE args.out
           pem == IF args.pem = Default THEN Path(args.bundle[1], "pem") ELSE args.pem
           first == <<out, artifact>>
           second == IF args.format = "aerf"
                     THEN <<pem, [kind |-> "public key", seed |-> signer]>>
                     ELSE << <<out[1], out[2], "sealstack.json">>, Companion(artifact, native)>>
<1>1. ExportPaths(args, artifact, native, signer) = <<first, second>>
  BY DEF ExportPaths
<1>2. first[2] = artifact
  OBVIOUS
<1>3. second[2].kind \in {"public key", "companion"}
  BY DEF Companion
<1> HIDE DEF first, second
<1> QED
  BY <1>1, <1>2, <1>3, PairIsPlan

\* What a command that writes nothing does to its own place.
LEMMA ReadingSteady ==
    ASSUME CommandInv, NEW c \in Commands, Reading(c)
    PROVE  Steady(c)'
<1>0. /\ DOMAIN stage = Commands /\ DOMAIN code = Commands
      /\ Tables /\ Steady(c) /\ DOMAIN InitialFiles \subseteq DOMAIN disk
  BY DEF CommandInv, CommandTypeOK, Progress
<1> USE DEF Tables, Exit
<1>1. ASSUME NEW args \in Arguments, Start(c, args) PROVE Steady(c)'
  <2>1. args \in Exports
    BY <1>1 DEF Start, Exports
  <2>2. /\ arguments'[c] = args /\ targets'[c] = <<>> /\ position'[c] = 1
        /\ \/ stage'[c] = "done"
           \/ stage'[c] = "mapping" /\ bundle'[c] = disk[args.bundle] /\ Reads(args.bundle, "bundle")
    BY <1>0, <1>1 DEF Start, Steady
  <2>3. stage'[c] = "mapping" => bundle'[c] \in Bundles
    BY <2>2, Contents DEF Reads, CommandInv
  <2> QED
    BY <2>1, <2>2, <2>3 DEF Steady
<1>2. ASSUME NEW args \in Arguments, NEW verdict \in 0..2, Verify(c, args, verdict)
      PROVE  Steady(c)'
  <2>1. stage'[c] = "done" /\ targets'[c] = <<>>
    BY <1>0, <1>2 DEF Verify, Steady
  <2> QED
    BY <2>1 DEF Steady
<1>3. CASE LoadMapping(c) \/ SeedFromFile(c) \/ LockDirectory(c)
           \/ \E usable \in BOOLEAN : ReadIdentity(c, usable)
  <2>1. /\ stage[c] \in {"mapping", "seed", "identity"}
        /\ stage'[c] \in {"seed", "identity", "build", "done"}
        /\ UNCHANGED <<arguments, bundle, targets, position>>
    BY <1>0, <1>3 DEF LoadMapping, SeedFromFile, LockDirectory, ReadIdentity
  <2> QED
    BY <1>0, <2>1 DEF Steady
<1>4. ASSUME NEW time \in Times, BuildArtifact(c, time) PROVE Steady(c)'
  <2> DEFINE artifact == Build(arguments[c].format, bundle[c], arguments[c].mapping, seed[c], time)
  <2> HIDE DEF artifact
  <2>1. /\ stage[c] = "build" /\ UNCHANGED <<arguments, bundle, position, seed>>
        /\ \/ stage'[c] = "done" /\ targets' = targets
           \/ /\ stage'[c] = "check"
              /\ ~ ExportRaises(arguments[c].format, bundle[c], arguments[c].mapping)
              /\ targets'[c] = ExportPaths(arguments[c], artifact, bundle[c], seed[c])
    BY <1>0, <1>4 DEF BuildArtifact, artifact
  <2>2. CASE stage'[c] = "done" /\ targets' = targets
    BY <1>0, <2>1, <2>2 DEF Steady
  <2>3. CASE stage'[c] = "check"
    <3>1. arguments[c] \in Exports /\ bundle[c] \in Bundles /\ position[c] = 1
      BY <1>0, <2>1 DEF Steady
    <3>2. Made(artifact)
      BY <3>1, <2>1, <2>3 DEF Made, artifact
    <3>3. Plan(targets'[c])
      BY <2>1, <2>3, <3>2, TargetsOfExport
    <3>4. Planned(c)' /\ targets'[c] # <<>>
      BY <3>3 DEF Planned, Plan
    <3> QED
      BY <2>1, <2>3, <3>1, <3>4 DEF Steady
  <2> QED
    BY <2>1, <2>2, <2>3
<1>5. CASE CheckTarget(c)
  <2>1. /\ stage[c] = "check" /\ UNCHANGED <<arguments, bundle, targets>>
        /\ Planned(c) /\ position[c] \in 1..2 /\ targets[c] # <<>>
        /\ Planned(c)' /\ arguments[c] \in Exports /\ bundle[c] \in Bundles
    BY <1>0, <1>5 DEF CheckTarget, Steady, Planned, Plan
  <2>2. \/ stage'[c] = "done"
        \/ /\ Allowed(c, position[c])
           /\ \/ stage'[c] = "write" /\ position[c] = 2 /\ position'[c] = 1
              \/ stage'[c] = "check" /\ position[c] = 1 /\ position'[c] = 2
    <3>1. Len(targets[c]) = 2
      BY <2>1 DEF Planned, Plan
    <3> DEFINE path == targets[c][position[c]][1]
    <3>2. CASE path \in DOMAIN disk /\ ~ arguments[c].force
      BY <1>0, <1>5, <3>2 DEF CheckTarget
    <3>3. CASE ~ (path \in DOMAIN disk /\ ~ arguments[c].force)
      <4>1. Allowed(c, position[c])
        BY <1>0, <3>3 DEF Allowed
      <4>2. /\ stage'[c] = IF position[c] = 2 THEN "write" ELSE "check"
            /\ position'[c] = IF position[c] = 2 THEN 1 ELSE position[c] + 1
        BY <1>0, <1>5, <3>1, <3>3 DEF CheckTarget
      <4> QED
        BY <4>1, <4>2, <2>1
    <3> QED
      BY <3>2, <3>3
  <2>3. stage'[c] = "done" => Steady(c)'
    BY <2>1 DEF Steady
  <2>4. ASSUME Allowed(c, position[c]), stage'[c] = "write", position[c] = 2, position'[c] = 1
        PROVE  Steady(c)'
    <3>1. Allowed(c, 1)
      BY <1>0, <2>1, <2>4 DEF Steady
    <3>2. Allowed(c, 1)' /\ Allowed(c, 2)'
      BY <3>1, <2>1, <2>4 DEF Allowed
    <3> QED
      BY <3>2, <2>1, <2>4 DEF Steady
  <2>5. ASSUME Allowed(c, position[c]), stage'[c] = "check", position[c] = 1, position'[c] = 2
        PROVE  Steady(c)'
    <3>1. \A i \in 1..(position'[c] - 1) : Allowed(c, i)'
      BY <2>1, <2>5 DEF Allowed
    <3> QED
      BY <3>1, <2>1, <2>5 DEF Steady
  <2> QED
    BY <2>2, <2>3, <2>4, <2>5
<1>6. CASE Kill(c)
  <2>1. stage'[c] = "done" /\ UNCHANGED targets
    BY <1>0, <1>6 DEF Kill
  <2> QED
    BY <1>0, <2>1 DEF Steady, Planned, Plan
<1> QED
  BY <1>1, <1>2, <1>3, <1>4, <1>5, <1>6 DEF Reading

\* Types of one command.
Typical(c) ==
    /\ stage[c] \in {"new", "mapping", "seed", "identity", "build", "check", "write", "done"}
    /\ arguments[c] = Idle <=> stage[c] = "new"
    /\ Len(targets[c]) \in {0, 2}
    /\ position[c] \in 1..(Len(targets[c]) + 1)
    /\ code[c] \in 0..2
    /\ failedWrite[c] \in BOOLEAN

\* No argument list is the absence of one.
LEMMA ArgumentsAreSome ==
    ASSUME NEW args, args.command \in {"export", "verify"}
    PROVE  args # Idle
  BY DEF Idle

\* A command's step keeps its own types.
LEMMA OwnTypes ==
    ASSUME CommandInv, NEW c \in Commands, Reading(c) \/ WriteTarget(c)
    PROVE  /\ Typical(c)'
           /\ DOMAIN stage' = Commands /\ DOMAIN code' = Commands
           /\ DOMAIN failedWrite' = Commands
<1>0. /\ DOMAIN stage = Commands /\ DOMAIN code = Commands /\ DOMAIN failedWrite = Commands
      /\ Tables /\ Steady(c) /\ Typical(c) /\ Len(<<>>) = 0
  BY DEF CommandInv, CommandTypeOK, Progress, Typical
<1> USE DEF Tables, Exit
<1>1. ASSUME NEW args \in Arguments, Start(c, args) PROVE Typical(c)'
  <2>1. args # Idle
    BY <1>1, ArgumentsAreSome DEF Start
  <2> QED
    BY <1>0, <1>1, <2>1 DEF Start, Typical
<1>2. ASSUME NEW args \in Arguments, NEW verdict \in 0..2, Verify(c, args, verdict)
      PROVE  Typical(c)'
  <2>1. args # Idle
    BY <1>2, ArgumentsAreSome DEF Verify
  <2> QED
    BY <1>0, <1>2, <2>1 DEF Verify, Typical
<1> DEFINE Moved ==
        /\ stage[c] # "new" /\ stage'[c] \in {"seed", "identity", "build", "check", "write", "done"}
        /\ code'[c] \in 0..2 /\ failedWrite'[c] \in BOOLEAN
        /\ arguments'[c] = arguments[c] /\ targets'[c] = targets[c]
<1>3. Moved /\ position'[c] = position[c] => Typical(c)'
  BY <1>0 DEF Typical
<1>31. ASSUME LoadMapping(c) PROVE Typical(c)'
  BY <1>0, <1>3, <1>31 DEF LoadMapping, Typical
<1>32. ASSUME SeedFromFile(c) PROVE Typical(c)'
  BY <1>0, <1>3, <1>32 DEF SeedFromFile, Typical
<1>33. ASSUME LockDirectory(c) PROVE Typical(c)'
  BY <1>0, <1>3, <1>33 DEF LockDirectory, Typical
<1>34. ASSUME Kill(c) PROVE Typical(c)'
  BY <1>0, <1>3, <1>34 DEF Kill, Typical
<1>35. ASSUME NEW usable \in BOOLEAN, ReadIdentity(c, usable) PROVE Typical(c)'
  BY <1>0, <1>3, <1>35 DEF ReadIdentity, Typical
<1>4. ASSUME NEW time \in Times, BuildArtifact(c, time) PROVE Typical(c)'
  <2>1. /\ stage[c] = "build" /\ stage'[c] \in {"check", "done"}
        /\ code'[c] \in 0..2 /\ UNCHANGED <<arguments, position, failedWrite>>
        /\ position[c] = 1
    BY <1>0, <1>4 DEF BuildArtifact, Typical, Steady
  <2>2. targets'[c] = <<>> \/ Planned(c)'
    BY <1>4, ReadingSteady DEF Reading, Steady
  <2>3. Len(targets'[c]) \in {0, 2}
    BY <1>0, <2>2 DEF Planned, Plan
  <2> QED
    BY <1>0, <2>1, <2>3 DEF Typical
<1> HIDE DEF Moved
<1>5. ASSUME CheckTarget(c) \/ WriteTarget(c) PROVE Typical(c)'
  <2>1. Len(targets[c]) = 2 /\ position[c] \in 1..2
    BY <1>0, <1>5 DEF CheckTarget, WriteTarget, Steady, Planned, Plan
  <2>2. ASSUME Moved, position'[c] \in 1..3 PROVE Typical(c)'
    <3>1. Len(targets'[c]) = 2 /\ Len(targets'[c]) \in {0, 2}
      BY <2>1, <2>2 DEF Moved
    <3>2. position'[c] \in 1..(Len(targets'[c]) + 1)
      BY <3>1, <2>2
    <3>3. arguments'[c] = Idle <=> stage'[c] = "new"
      BY <1>0, <2>2 DEF Moved, Typical
    <3>4. stage'[c] \in {"new", "mapping", "seed", "identity", "build", "check", "write", "done"}
      BY <2>2 DEF Moved
    <3> QED
      BY <2>2, <3>1, <3>2, <3>3, <3>4 DEF Moved, Typical
  <2>3. CASE CheckTarget(c)
    <3>1. Moved
      BY <1>0, <2>3 DEF CheckTarget, Moved, Typical
    <3>2. position'[c] \in 1..3
      BY <1>0, <2>1, <2>3 DEF CheckTarget
    <3> QED
      BY <3>1, <3>2, <2>2
  <2>4. CASE WriteTarget(c)
    <3>1. Moved
      <4>1. /\ stage[c] = "write" /\ stage'[c] \in {"write", "done"}
            /\ arguments' = arguments /\ targets' = targets
        BY <1>0, <2>4 DEF WriteTarget
      <4>2. code[c] \in 0..2 /\ failedWrite[c] \in BOOLEAN
        BY <1>0 DEF Typical
      <4>3. code' = code \/ code' = [code EXCEPT ![c] = 0] \/ code' = [code EXCEPT ![c] = 2]
        BY <2>4 DEF WriteTarget
      <4>4. failedWrite' = failedWrite \/ failedWrite' = [failedWrite EXCEPT ![c] = TRUE]
        BY <2>4 DEF WriteTarget
      <4>5. code'[c] \in 0..2
        BY <1>0, <4>2, <4>3
      <4>6. failedWrite'[c] \in BOOLEAN
        BY <1>0, <4>2, <4>4
      <4> QED
        BY <4>1, <4>5, <4>6 DEF Moved
    <3>2. position'[c] \in 1..3
      BY <1>0, <2>1, <2>4 DEF WriteTarget
    <3> QED
      BY <3>1, <3>2, <2>2
  <2> QED
    BY <1>5, <2>3, <2>4
<1>6. DOMAIN stage' = Commands /\ DOMAIN code' = Commands /\ DOMAIN failedWrite' = Commands
  BY <1>0 DEF Reading, Start, Verify, LoadMapping, SeedFromFile, LockDirectory, ReadIdentity,
              BuildArtifact, CheckTarget, Kill, WriteTarget
<1> QED
  BY <1>1, <1>2, <1>31, <1>32, <1>33, <1>34, <1>35, <1>4, <1>5, <1>6 DEF Reading

\* The disk keeps its files, and the directory's holder is one that there is.
LEMMA DiskGrows ==
    ASSUME CommandInv, NEW c \in Commands, Reading(c) \/ WriteTarget(c)
    PROVE  /\ DOMAIN disk \subseteq DOMAIN disk'
           /\ directory' \in Commands \cup {Nobody, ClientProcess}
           /\ Reading(c) => disk' = disk
<1>0. directory \in Commands \cup {Nobody, ClientProcess}
  BY DEF CommandInv, CommandTypeOK
<1>1. CASE Reading(c)
  BY <1>0, <1>1 DEF Reading, Start, Verify, LoadMapping, SeedFromFile, LockDirectory, ReadIdentity,
              BuildArtifact, CheckTarget, Kill
<1>2. CASE WriteTarget(c)
  BY <1>0, <1>2 DEF WriteTarget, DiskWith, Reading, Start, Verify, LoadMapping, SeedFromFile,
              LockDirectory, ReadIdentity, BuildArtifact, CheckTarget, Kill, Exit
<1> QED
  BY <1>1, <1>2

\* Every step of a command keeps the types.
LEMMA CommandTypesStep ==
    ASSUME CommandInv, NEW c \in Commands, Reading(c) \/ WriteTarget(c)
    PROVE  CommandTypeOK'
<1>1. Typical(c)' /\ DOMAIN stage' = Commands /\ DOMAIN code' = Commands
      /\ DOMAIN failedWrite' = Commands
  BY OwnTypes
<1>2. ASSUME NEW d \in Commands \ {c} PROVE Typical(d)'
  <2>1. Typical(d)
    BY DEF CommandInv, CommandTypeOK, Typical
  <2> QED
    BY <2>1, OneMoves DEF Others, Typical, CommandInv, Progress
<1>3. \A d \in Commands : Typical(d)'
  BY <1>1, <1>2
<1>4. DOMAIN InitialFiles \subseteq DOMAIN disk'
  BY DiskGrows DEF CommandInv, CommandTypeOK
<1>5. directory' \in Commands \cup {Nobody, ClientProcess}
  BY DiskGrows
<1>6. /\ stage' = [d \in Commands |-> stage'[d]] /\ code' = [d \in Commands |-> code'[d]]
      /\ failedWrite' = [d \in Commands |-> failedWrite'[d]]
  BY <1>1 DEF Reading, Start, Verify, LoadMapping, SeedFromFile, LockDirectory, ReadIdentity,
              BuildArtifact, CheckTarget, Kill, WriteTarget, Exit, CommandInv, CommandTypeOK
<1> QED
  BY <1>3, <1>4, <1>5, <1>6 DEF Typical, CommandTypeOK

\* What a command has begun stays begun, with its targets.
Lasting(d) ==
    /\ WritesBegun(d) \subseteq WritesBegun(d)'
    /\ WritesBegun(d) # {} => targets'[d] = targets[d] /\ arguments'[d] = arguments[d]

\* It lasts at those that do not move.
LEMMA OthersLast ==
    ASSUME NEW c \in Commands, Others(c), NEW d \in Commands \ {c}
    PROVE  Lasting(d) /\ Done(d)' = Done(d) /\ targets'[d] = targets[d]
<1>1. /\ stage'[d] = stage[d] /\ targets'[d] = targets[d] /\ arguments'[d] = arguments[d]
      /\ code'[d] = code[d] /\ failedWrite'[d] = failedWrite[d] /\ position'[d] = position[d]
  BY DEF Others
<1>2. WritesBegun(d)' = WritesBegun(d)
  BY <1>1 DEF WritesBegun
<1>3. Done(d)' = Done(d)
  BY <1>1 DEF Done
<1> QED
  BY <1>1, <1>2, <1>3 DEF Lasting

\* A command that writes nothing has no new file to answer for.
LEMMA ReadingLasts ==
    ASSUME CommandInv, NEW c \in Commands, Reading(c)
    PROVE  Lasting(c) /\ Done(c)' = {}
<1>0. /\ DOMAIN stage = Commands /\ DOMAIN code = Commands /\ DOMAIN failedWrite = Commands
      /\ Tables /\ Steady(c) /\ Steady(c)' /\ DOMAIN <<>> = {}
  BY ReadingSteady DEF CommandInv, CommandTypeOK, Progress
<1>1. CASE Kill(c)
  <2>1. /\ stage[c] # "done" /\ stage'[c] = "done" /\ code'[c] = 2
        /\ failedWrite'[c] = (stage[c] = "write")
        /\ targets' = targets /\ arguments' = arguments
    BY <1>0, <1>1 DEF Kill, Exit, Tables
  <2>2. WritesBegun(c) \subseteq WritesBegun(c)'
    BY <2>1 DEF WritesBegun
  <2>3. Done(c)' = {}
    BY <2>1 DEF Done
  <2> QED
    BY <2>1, <2>2, <2>3 DEF Lasting
<1>2. CASE ~ Kill(c)
  <2>1. stage[c] \notin {"write", "done"}
    BY <1>2 DEF Reading, Start, Verify, LoadMapping, SeedFromFile, LockDirectory, ReadIdentity,
                BuildArtifact, CheckTarget
  <2>2. WritesBegun(c) = {}
    BY <2>1 DEF WritesBegun
  <2>3. Lasting(c)
    BY <2>2 DEF Lasting
  <2>4. CASE CheckTarget(c)
    <3>1. position[c] \in 1..2 /\ Len(targets[c]) = 2
      BY <1>0, <2>4 DEF CheckTarget, Steady, Planned, Plan
    <3>2. \/ stage'[c] = "done" /\ code'[c] = 2
          \/ stage'[c] = "write" /\ position'[c] = 1
          \/ stage'[c] = "check"
      BY <1>0, <2>4 DEF CheckTarget, Exit, Tables
    <3> QED
      BY <2>3, <3>2 DEF Done
  <2>5. ASSUME NEW args \in Arguments, NEW verdict \in 0..2, Verify(c, args, verdict)
        PROVE  Lasting(c) /\ Done(c)' = {}
    <3>1. stage'[c] = "done" /\ targets'[c] = <<>>
      BY <1>0, <2>5 DEF Verify, Exit, Steady
    <3> QED
      BY <1>0, <2>3, <3>1 DEF Done
  <2>6. ASSUME \/ \E args \in Arguments : Start(c, args)
               \/ LoadMapping(c)
               \/ SeedFromFile(c)
               \/ LockDirectory(c)
               \/ \E usable \in BOOLEAN : ReadIdentity(c, usable)
               \/ \E time \in Times : BuildArtifact(c, time)
        PROVE  Lasting(c) /\ Done(c)' = {}
    <3>1. \/ stage'[c] = "done" /\ code'[c] \in {1, 2}
          \/ stage'[c] \in {"mapping", "seed", "identity", "build", "check"}
      BY <1>0, <2>6 DEF Start, LoadMapping, SeedFromFile, LockDirectory, ReadIdentity,
                        BuildArtifact, Exit, Tables
    <3>2. stage'[c] # "write" /\ ~ (stage'[c] = "done" /\ code'[c] = 0)
      BY <3>1
    <3> QED
      BY <2>3, <3>2 DEF Done
  <2> QED
    BY <1>2, <2>4, <2>5, <2>6 DEF Reading
<1> QED
  BY <1>1, <1>2

\* A file of another origin keeps it when the disk does not change there.
LEMMA OriginStays ==
    ASSUME NEW d, Lasting(d), NEW path, FromTarget(d, path), disk'[path] = disk[path]
    PROVE  FromTarget(d, path)'
<1>1. /\ path \in WritesBegun(d) /\ path \in WritesBegun(d)'
      /\ targets'[d] = targets[d] /\ arguments'[d] = arguments[d]
  BY DEF FromTarget, Lasting
<1> QED
  BY <1>1 DEF FromTarget

\* Steps that write nothing keep origins and written files.
LEMMA ReadingKeeps ==
    ASSUME CommandInv, NEW c \in Commands, Reading(c)
    PROVE  Origins' /\ Written'
<1>1. Others(c)
  BY OneMoves DEF CommandInv, Progress
<1>2. \A d \in Commands : Lasting(d)
  BY <1>1, OthersLast, ReadingLasts
<1>3. disk' = disk
  BY DiskGrows
<1>4. Origins'
  <2> SUFFICES ASSUME NEW path \in DOMAIN disk'
               PROVE  \/ path \in DOMAIN InitialFiles /\ disk'[path] = InitialFiles[path]
                      \/ \E d \in Commands : FromTarget(d, path)'
    BY DEF Origins
  <2> QED
    BY <1>2, <1>3, OriginStays DEF CommandInv, Origins
<1>5. Written'
  <2> SUFFICES ASSUME NEW d \in Commands, PathsDistinct(d)', NEW i \in Done(d)',
                      Ours(d, targets[d][i][1])'
               PROVE  /\ targets'[d][i][1] \in DOMAIN disk'
                      /\ disk'[targets'[d][i][1]] = targets'[d][i][2]
    BY DEF Written
  <2>1. d # c
    BY ReadingLasts
  <2>2. Done(d)' = Done(d) /\ targets'[d] = targets[d]
    BY <2>1, <1>1, OthersLast
  <2>3. PathsDistinct(d)
    BY <2>2 DEF PathsDistinct
  <2>4. Ours(d, targets[d][i][1])
    BY <1>2, <2>2 DEF Ours, Lasting
  <2> QED
    BY <2>2, <2>3, <2>4, <1>3 DEF CommandInv, Written
<1> QED
  BY <1>4, <1>5

\* What a write does: to the next target, which is one that may be written.
LEMMA WriteFacts ==
    ASSUME CommandInv, NEW c \in Commands, WriteTarget(c)
    PROVE  LET k == position[c]
               path == targets[c][k][1]
           IN  /\ k \in 1..2 /\ DOMAIN targets[c] = 1..2 /\ Planned(c)
               /\ targets'[c] = targets[c] /\ arguments'[c] = arguments[c]
               /\ stage[c] = "write" /\ Allowed(c, k)
               /\ \/ /\ disk' = DiskWith(path, targets[c][k][2])
                     /\ \/ stage'[c] = "write" /\ position'[c] = k + 1
                        \/ stage'[c] = "done" /\ code'[c] = 0 /\ k = 2
                  \/ /\ disk' = disk \/ disk' = DiskWith(path, Partial)
                     /\ stage'[c] = "done" /\ code'[c] = 2 /\ failedWrite'[c]
<1>0. /\ DOMAIN stage = Commands /\ DOMAIN code = Commands /\ DOMAIN failedWrite = Commands
      /\ Tables /\ Steady(c)
  BY DEF CommandInv, CommandTypeOK, Progress
<1>1. stage[c] = "write" /\ targets' = targets /\ arguments' = arguments
  BY DEF WriteTarget
<1>2. /\ position[c] \in 1..2 /\ Planned(c) /\ Allowed(c, 1) /\ Allowed(c, 2)
  BY <1>0, <1>1 DEF Steady
<1>3. DOMAIN targets[c] = 1..2 /\ Len(targets[c]) = 2
  BY <1>2 DEF Planned, Plan
<1>4. Allowed(c, position[c])
  <2>1. position[c] = 1 \/ position[c] = 2
    BY <1>2
  <2> QED
    BY <2>1, <1>2
<1>5. \/ /\ disk' = DiskWith(targets[c][position[c]][1], targets[c][position[c]][2])
         /\ \/ stage'[c] = "write" /\ position'[c] = position[c] + 1
            \/ stage'[c] = "done" /\ code'[c] = 0 /\ position[c] = 2
      \/ /\ disk' = disk \/ disk' = DiskWith(targets[c][position[c]][1], Partial)
         /\ stage'[c] = "done" /\ code'[c] = 2 /\ failedWrite'[c]
  BY <1>0, <1>1, <1>2, <1>3 DEF WriteTarget, Exit, Tables
<1> QED
  BY <1>1, <1>2, <1>3, <1>4, <1>5

\* Writing keeps a command steady.
LEMMA WritingSteady ==
    ASSUME CommandInv, NEW c \in Commands, WriteTarget(c)
    PROVE  Steady(c)'
<1>1. Steady(c)
  BY DEF CommandInv, Progress
<1>2. /\ bundle' = bundle /\ stage[c] = "write"
      /\ targets'[c] = targets[c] /\ arguments'[c] = arguments[c]
      /\ \/ stage'[c] = "done"
         \/ stage'[c] = "write" /\ position'[c] \in 1..2
  <2>1. ASSUME stage'[c] # "done" PROVE stage'[c] = "write" /\ position'[c] \in 1..2
    <3>1. position[c] # 2
      BY <1>1, <2>1, WriteFacts DEF WriteTarget, Exit, Steady, Planned, Plan, CommandInv,
            CommandTypeOK
    <3> QED
      BY <2>1, <3>1, WriteFacts
  <2> QED
    BY <2>1, WriteFacts DEF WriteTarget
<1>3. Planned(c)' /\ targets[c] # <<>> /\ \A i : Allowed(c, i)' <=> Allowed(c, i)
  BY <1>1, <1>2 DEF Steady, Planned, Plan, Allowed
<1> QED
  BY <1>1, <1>2, <1>3 DEF Steady

\* A write begun is one of the command's, before and after.
LEMMA WritingLasts ==
    ASSUME CommandInv, NEW c \in Commands, WriteTarget(c)
    PROVE  /\ Lasting(c)
           /\ targets[c][position[c]][1] \in WritesBegun(c)'
<1>1. WritesBegun(c) = {targets[c][i][1] : i \in DOMAIN targets[c]}
  BY WriteFacts DEF WritesBegun
<1>2. WritesBegun(c)' = {targets[c][i][1] : i \in DOMAIN targets[c]}
  BY WriteFacts DEF WritesBegun
<1>3. position[c] \in DOMAIN targets[c]
  BY WriteFacts
<1>4. targets'[c] = targets[c] /\ arguments'[c] = arguments[c]
  BY WriteFacts
<1> QED
  BY <1>1, <1>2, <1>3, <1>4 DEF Lasting

\* Every file there is after a write has its origin.
LEMMA WritingOrigins ==
    ASSUME CommandInv, NEW c \in Commands, WriteTarget(c)
    PROVE  Origins'
<1> DEFINE k == position[c]
           target == targets[c][k][1]
<1>1. \A d \in Commands : Lasting(d)
  BY OneMoves, OthersLast, WritingLasts DEF CommandInv, Progress
<1>2. /\ k \in DOMAIN targets[c] /\ targets'[c] = targets[c] /\ arguments'[c] = arguments[c]
      /\ target \in WritesBegun(c)' /\ Allowed(c, k)
  BY WriteFacts, WritingLasts
<1>3. \/ disk' = disk
      \/ disk' = DiskWith(target, targets[c][k][2])
      \/ disk' = DiskWith(target, Partial)
  BY WriteFacts
<1> SUFFICES ASSUME NEW path \in DOMAIN disk'
             PROVE  \/ path \in DOMAIN InitialFiles /\ disk'[path] = InitialFiles[path]
                    \/ \E d \in Commands : FromTarget(d, path)'
  BY DEF Origins
<1>4. CASE path \in DOMAIN disk /\ disk'[path] = disk[path]
  BY <1>1, <1>4, OriginStays DEF CommandInv, Origins
<1>5. CASE path = target /\ disk'[path] \in {Partial, targets[c][k][2]}
  <2>1. path \in DOMAIN InitialFiles => arguments'[c].force
    BY <1>2, <1>5 DEF Allowed
  <2>2. disk'[path] = Partial \/ \E i \in DOMAIN targets'[c] : disk'[path] = targets'[c][i][2]
    BY <1>2, <1>5
  <2>3. FromTarget(c, path)'
    BY <1>2, <1>5, <2>1, <2>2 DEF FromTarget
  <2> QED
    BY <2>3
<1> QED
  BY <1>3, <1>4, <1>5 DEF DiskWith

\* What a command has written without interference is still there.
LEMMA WritingWritten ==
    ASSUME CommandInv, NEW c \in Commands, WriteTarget(c)
    PROVE  Written'
<1> DEFINE k == position[c]
           target == targets[c][k][1]
<1>0. Others(c) /\ \A d \in Commands : Lasting(d)
  BY OneMoves, OthersLast, WritingLasts DEF CommandInv, Progress
<1>1. \/ disk' = disk
      \/ disk' = DiskWith(target, targets[c][k][2])
      \/ disk' = DiskWith(target, Partial)
  BY WriteFacts
<1>2. \A path \in DOMAIN disk : path # target => path \in DOMAIN disk' /\ disk'[path] = disk[path]
  BY <1>1 DEF DiskWith
<1> SUFFICES ASSUME NEW d \in Commands, PathsDistinct(d)', NEW i \in Done(d)',
                    Ours(d, targets[d][i][1])'
             PROVE  /\ targets'[d][i][1] \in DOMAIN disk'
                    /\ disk'[targets'[d][i][1]] = targets'[d][i][2]
  BY DEF Written
<1>3. targets'[d] = targets[d]
  BY <1>0, WriteFacts, OthersLast
<1>4. PathsDistinct(d) /\ Ours(d, targets[d][i][1])
  BY <1>0, <1>3 DEF PathsDistinct, Ours, Lasting
<1>5. ASSUME i \in Done(d), targets[d][i][1] # target
      PROVE  /\ targets'[d][i][1] \in DOMAIN disk'
             /\ disk'[targets'[d][i][1]] = targets'[d][i][2]
  BY <1>2, <1>3, <1>4, <1>5 DEF CommandInv, Written
<1>6. CASE d # c
  <2>1. Done(d)' = Done(d)
    BY <1>0, <1>6, OthersLast
  <2>2. target \in WritesBegun(c)'
    BY WritingLasts
  <2>3. targets[d][i][1] # target
    BY <1>3, <1>6, <2>2 DEF Ours
  <2> QED
    BY <1>5, <2>1, <2>3
<1>7. CASE d = c
  <2>1. /\ disk' = DiskWith(target, targets[c][k][2])
        /\ Done(c)' = 1..k
    <3>1. CASE stage'[c] = "done" /\ code'[c] = 2
      <4>1. Done(c)' = {}
        BY <3>1 DEF Done
      <4> QED
        BY <4>1, <1>7
    <3>2. CASE stage'[c] = "write" /\ position'[c] = k + 1
      <4>1. Done(c)' = 1..(position'[c] - 1)
        BY <3>2 DEF Done
      <4>2. position'[c] - 1 = k
        BY <3>2, WriteFacts
      <4> QED
        BY <3>2, <4>1, <4>2, WriteFacts
    <3>3. CASE stage'[c] = "done" /\ code'[c] = 0 /\ k = 2
      <4>1. Done(c)' = DOMAIN targets'[c]
        BY <3>3 DEF Done
      <4> QED
        BY <3>3, <4>1, WriteFacts
    <3> QED
      BY <3>1, <3>2, <3>3, WriteFacts
  <2>2. k \in 1..2 /\ DOMAIN targets[c] = 1..2 /\ Done(c) = 1..(k - 1)
    BY WriteFacts DEF Done
  <2>3. CASE i = k
    BY <1>3, <1>7, <2>1, <2>3 DEF DiskWith
  <2>4. CASE i # k
    <3>1. i \in Done(c) /\ i \in DOMAIN targets[c] /\ k \in DOMAIN targets[c]
      BY <1>7, <2>1, <2>2, <2>4
    <3>2. targets[c][i][1] # target
      BY <1>4, <1>7, <2>4, <3>1 DEF PathsDistinct
    <3> QED
      BY <1>5, <1>7, <3>1, <3>2
  <2> QED
    BY <2>3, <2>4
<1> QED
  BY <1>6, <1>7

\* Every step keeps the invariant.
LEMMA CommandStep == CommandInv /\ [CommandNext]_cliVars => CommandInv'
<1> SUFFICES ASSUME CommandInv, [CommandNext]_cliVars PROVE CommandInv'
  OBVIOUS
<1>1. ASSUME NEW c \in Commands, Reading(c) \/ WriteTarget(c) PROVE CommandInv'
  <2>1. CommandTypeOK'
    BY <1>1, CommandTypesStep
  <2>2. Progress'
    <3>1. Others(c) /\ Tables'
      BY <1>1, OneMoves DEF CommandInv, Progress
    <3>2. Steady(c)'
      BY <1>1, ReadingSteady, WritingSteady
    <3>3. \A d \in Commands \ {c} : Steady(d)'
      BY <3>1, OthersSteady DEF CommandInv, Progress
    <3> QED
      BY <3>1, <3>2, <3>3 DEF Progress
  <2>3. Origins' /\ Written'
    BY <1>1, ReadingKeeps, WritingOrigins, WritingWritten
  <2> QED
    BY <2>1, <2>2, <2>3 DEF CommandInv
<1>2. CASE /\ directory' \in {Nobody, ClientProcess}
           /\ UNCHANGED <<disk, stage, arguments, bundle, seed, targets, position, code, failedWrite>>
  <2>1. CommandTypeOK'
    BY <1>2 DEF CommandInv, CommandTypeOK
  <2>2. Progress'
    BY <1>2 DEF CommandInv, Progress, Tables, Steady, Planned, Allowed
  <2>3. \A c \in Commands : WritesBegun(c)' = WritesBegun(c) /\ Done(c)' = Done(c)
    BY <1>2 DEF WritesBegun, Done
  <2>4. Origins'
    BY <1>2, <2>3 DEF CommandInv, Origins, FromTarget
  <2>5. Written'
    BY <1>2, <2>3 DEF CommandInv, Written, PathsDistinct, Ours
  <2> QED
    BY <2>1, <2>2, <2>4, <2>5 DEF CommandInv
<1>3. CASE UNCHANGED cliVars
  <2>1. UNCHANGED <<disk, directory, stage, arguments, bundle, seed, targets, position, code,
                    failedWrite>>
    BY <1>3 DEF cliVars
  <2>2. CommandTypeOK'
    BY <2>1 DEF CommandInv, CommandTypeOK
  <2>3. Progress'
    BY <2>1 DEF CommandInv, Progress, Tables, Steady, Planned, Allowed
  <2>4. \A c \in Commands : WritesBegun(c)' = WritesBegun(c) /\ Done(c)' = Done(c)
    BY <2>1 DEF WritesBegun, Done
  <2>5. Origins'
    BY <2>1, <2>4 DEF CommandInv, Origins, FromTarget
  <2>6. Written'
    BY <2>1, <2>4 DEF CommandInv, Written, PathsDistinct, Ours
  <2> QED
    BY <2>2, <2>3, <2>5, <2>6 DEF CommandInv
<1> QED
  BY <1>1, <1>2, <1>3 DEF CommandNext, Reading, ClientTakes, ClientLeaves

\* cli.py, _run_export and _write_all: how far every command is, and where every
\* file on the disk comes from.
THEOREM CommandInvariant == CommandSpec => []CommandInv
  BY CommandInitially, CommandStep, PTL DEF CommandSpec

\* The types of the commands.
THEOREM CommandTypesHold == CommandSpec => []CommandTypeOK
<1>1. CommandInv => CommandTypeOK
  BY DEF CommandInv
<1> QED
  BY <1>1, CommandInvariant, PTL

\* The formats and the bundles of a made artifact.
LEMMA BundleFacts ==
    ASSUME NEW b \in Bundles
    PROVE  b.event \in Nat \ {0} /\ b.predecessor \in {NoEvent, b.event - 1}
  BY FilesAssumption DEF Bundles

\* A link says that it is one.
LEMMA LinksDiffer == \A x : HashOf(x) # Omitted /\ HashOf(x) # Genesis /\ Omitted # Genesis
<1>1. \A x : HashOf(x).link = "hash"
  BY DEF HashOf
<1>2. Omitted.link = "omitted" /\ Genesis.link = "genesis"
  BY DEF Omitted, Genesis
<1> QED
  BY <1>1, <1>2

\* export.py, Labels.missing_fields: what is reported is what is lacking.
LEMMA MadeIsExact ==
    ASSUME NEW format \in Formats, NEW b \in Bundles, NEW mapping, NEW s, NEW t,
           ~ ExportRaises(format, b, mapping)
    PROVE  LET x == Build(format, b, mapping, s, t)
           IN  /\ Exact(x)
               /\ x.receipt.mapping # NoMapping =>
                      x.missing \subseteq {"action.paramsHash", ChainField(x.receipt.format)}
<1> DEFINE x == Build(format, b, mapping, s, t)
           e == b.event
           link == LinkTo(format, b, mapping, s, t)
           missing == Missing(format, e, mapping, b.predecessor)
           members == Members(format, e, mapping, link)
<1>1. /\ x.receipt.format = format /\ x.receipt.event = e /\ x.receipt.mapping = mapping
      /\ x.receipt.members = members /\ x.missing = missing
  BY DEF Build, Receipt
<1>2. link = Omitted <=> e # 1 /\ b.predecessor = NoEvent
  BY LinksDiffer DEF LinkTo
<1>3. link = Genesis <=> e = 1
  BY LinksDiffer DEF LinkTo
<1>4. ~ BuildRaises(format, e, mapping)
  BY DEF ExportRaises
<1> HIDE DEF link
<1>5. missing = Required(format, e) \ members
  <2>1. CASE format = "aerf"
    BY <2>1, <1>2, <1>3 DEF Missing, MissingData, Required, Members, LinkMembers, SectionFields,
                            EntryFields, ChainField
  <2>2. CASE format = "agent-receipts"
    BY <2>2, <1>2, <1>3 DEF Missing, MissingData, Required, Members, LinkMembers, SectionFields,
                            EntryFields, ChainField
  <2>3. CASE format = "scitt"
    BY <2>3, <1>2, <1>3 DEF Missing, MissingData, Required, Members, LinkMembers, SectionFields,
                            EntryFields, ChainField
  <2> QED
    BY <2>1, <2>2, <2>3 DEF Formats
<1>6. mapping # NoMapping => missing \subseteq {"action.paramsHash", ChainField(format)}
  BY <1>4 DEF Missing, MissingData, BuildRaises
<1> QED
  BY <1>1, <1>5, <1>6 DEF Exact

\* cli.py, _run_export and _write_all; export.py, Labels: exit codes and labels
\* tell what is on the disk, whatever other commands, kills and failures do.
THEOREM ExportsTell == CommandSpec => []ExportTells
<1>1. CommandInv => ExportTells
  <2> SUFFICES ASSUME CommandInv PROVE ExportTells
    OBVIOUS
  <2>1. ASSUME NEW c \in Commands, stage[c] = "done", code[c] = 0, PathsDistinct(c),
               NEW i \in DOMAIN targets[c], Ours(c, targets[c][i][1])
        PROVE  disk[targets[c][i][1]] = targets[c][i][2]
    <3>1. i \in Done(c)
      BY <2>1 DEF Done
    <3> QED
      BY <2>1, <3>1 DEF CommandInv, Written
  <2>2. \A path \in DOMAIN disk :
            \/ path \in DOMAIN InitialFiles /\ disk[path] = InitialFiles[path]
            \/ \E c \in Commands :
                  /\ path \in WritesBegun(c)
                  /\ path \in DOMAIN InitialFiles => arguments[c].force
    BY DEF CommandInv, Origins, FromTarget
  <2>3. ASSUME NEW path \in Artifacts
        PROVE  /\ Exact(disk[path])
               /\ disk[path].receipt.mapping # NoMapping =>
                     disk[path].missing \subseteq
                        {"action.paramsHash", ChainField(disk[path].receipt.format)}
    <3>1. Made(disk[path])
      BY Contents DEF Artifacts, CommandInv
    <3>2. PICK args \in Exports, b \in Bundles : \E s, t :
               /\ disk[path] = Build(args.format, b, args.mapping, s, t)
               /\ ~ ExportRaises(args.format, b, args.mapping)
      BY <3>1 DEF Made
    <3>3. PICK s, t : /\ disk[path] = Build(args.format, b, args.mapping, s, t)
                      /\ ~ ExportRaises(args.format, b, args.mapping)
      BY <3>2
    <3>4. args.format \in Formats
      BY FilesAssumption DEF Exports
    <3> QED
      BY <3>3, <3>4, MadeIsExact
  <2> QED
    BY <2>1, <2>2, <2>3 DEF ExportTells
<1> QED
  BY <1>1, CommandInvariant, PTL

\* The members of a receipt that name its signer and its time.
Signer(format, s) == IF format = "scitt" THEN "agent_key_id" ELSE s
Issued(format, t) == IF format = "agent-receipts" THEN t ELSE "event time"

\* What an artifact's receipt is made of.
LEMMA BuildFields ==
    ASSUME NEW format, NEW b, NEW mapping, NEW s, NEW t,
           NEW x, x = Build(format, b, mapping, s, t).receipt
    PROVE  /\ x = Receipt(format, b.event, mapping, s, t, LinkTo(format, b, mapping, s, t),
                          Missing(format, b.event, mapping, b.predecessor))
           /\ x.format = format /\ x.mapping = mapping /\ x.event = b.event
           /\ x.link = LinkTo(format, b, mapping, s, t)
           /\ x.signer = Signer(format, s) /\ x.issued = Issued(format, t)
<1>1. x = Receipt(format, b.event, mapping, s, t, LinkTo(format, b, mapping, s, t),
                  Missing(format, b.event, mapping, b.predecessor))
  BY DEF Build
<1>2. x.format = format /\ x.mapping = mapping /\ x.event = b.event
  BY DEF Build, Receipt
<1>3. x.link = LinkTo(format, b, mapping, s, t)
  BY DEF Build, Receipt
<1>4. x.signer = Signer(format, s)
  BY DEF Build, Receipt, Signer
<1>5. x.issued = Issued(format, t)
  BY DEF Build, Receipt, Issued
<1> QED
  BY <1>1, <1>2, <1>3, <1>4, <1>5

\* The receipt rebuilt for the link of a second event is that of the first's export.
LEMMA LinkIsFirst ==
    ASSUME NEW f, NEW m, NEW s, NEW t, NEW b \in Bundles, NEW x, x = Build(f, b, m, s, t).receipt,
           NEW g, NEW n, NEW r, NEW u, NEW d \in Bundles, NEW y, y = Build(g, d, n, r, u).receipt,
           SameWay(x, y), y.event = 1, x.issued = y.issued
    PROVE  LinksTo(x, y)
<1>1. /\ x.format = f /\ x.mapping = m /\ x.event = b.event
      /\ x.link = LinkTo(f, b, m, s, t)
      /\ x.signer = Signer(f, s) /\ x.issued = Issued(f, t)
  BY BuildFields
<1>2. /\ y.format = g /\ y.mapping = n /\ y.event = d.event
      /\ y.signer = Signer(g, r) /\ y.issued = Issued(g, u)
      /\ y = Receipt(g, d.event, n, r, u, LinkTo(g, d, n, r, u),
                     Missing(g, d.event, n, d.predecessor))
  BY BuildFields
<1>3. g = f /\ n = m /\ d.event = 1
  BY <1>1, <1>2 DEF SameWay
<1>4. b.event = 2
  BY <1>1 DEF SameWay
<1>5. Signer(f, s) = Signer(f, r) /\ Issued(f, t) = Issued(f, u)
  BY <1>1, <1>2, <1>3 DEF SameWay
<1>6. LinkTo(f, d, m, r, u) = Genesis
  BY <1>3 DEF LinkTo
<1>7. Missing(f, 1, m, d.predecessor) = Missing(f, 1, m, NoEvent)
  BY DEF Missing
<1>8. y = Receipt(f, 1, m, r, u, Genesis, Missing(f, 1, m, NoEvent))
  BY <1>2, <1>3, <1>6, <1>7
<1>9. Alone(f, 1, m, s, t) = Receipt(f, 1, m, s, t, Genesis, Missing(f, 1, m, NoEvent))
  BY DEF Alone
<1>10. Receipt(f, 1, m, s, t, Genesis, Missing(f, 1, m, NoEvent))
         = Receipt(f, 1, m, r, u, Genesis, Missing(f, 1, m, NoEvent))
  BY <1>5 DEF Receipt, Signer, Issued
<1>11. b.predecessor = NoEvent \/ b.predecessor = 1
  BY <1>4, BundleFacts
<1>12. LinkTo(f, b, m, s, t) = Omitted \/ LinkTo(f, b, m, s, t) = HashOf(Alone(f, 1, m, s, t))
  BY <1>4, <1>11 DEF LinkTo
<1>13. Alone(f, 1, m, s, t) = y
  BY <1>8, <1>9, <1>10
<1> QED
  BY <1>1, <1>12, <1>13 DEF LinksTo

\* export.py, build_aerf, build_agent_receipt and build_noa: the link of the
\* second event's export is to the export of the first, however the two were made.
THEOREM SecondLinksHold == CommandSpec => []SecondLinks
<1>1. CommandInv => SecondLinks
  <2> SUFFICES ASSUME CommandInv, NEW p \in Artifacts, NEW q \in Artifacts,
                      SameWay(disk[p].receipt, disk[q].receipt), disk[q].receipt.event = 1,
                      disk[p].receipt.issued = disk[q].receipt.issued
               PROVE  LinksTo(disk[p].receipt, disk[q].receipt)
    BY DEF SecondLinks
  <2>1. Made(disk[p]) /\ Made(disk[q])
    BY Contents DEF Artifacts, CommandInv
  <2>2. PICK args \in Exports, b \in Bundles :
            \E s, t : disk[p] = Build(args.format, b, args.mapping, s, t)
    BY <2>1 DEF Made
  <2>3. PICK s, t : disk[p] = Build(args.format, b, args.mapping, s, t)
    BY <2>2
  <2>4. PICK others \in Exports, d \in Bundles :
            \E r, u : disk[q] = Build(others.format, d, others.mapping, r, u)
    BY <2>1 DEF Made
  <2>5. PICK r, u : disk[q] = Build(others.format, d, others.mapping, r, u)
    BY <2>4
  <2> QED
    BY <2>3, <2>5, LinkIsFirst
<1> QED
  BY <1>1, CommandInvariant, PTL
-----------------------------------------------------------------------------
(* All parts, side by side. *)

\* MCLocal moves one part and leaves the others as they are: each does what it
\* does alone.
THEOREM SideBySide ==
    LocalSpec => CommandSpec /\ StartSpec /\ LogSpec /\ ForkSpec /\ BackoffSpec
<1>1. LocalInit => CommandInit /\ StartInit /\ LogInit /\ ForkInit /\ BackoffInit
  BY DEF LocalInit
<1>2. [LocalNext]_localVars =>
          /\ [CommandNext]_cliVars /\ [StartNext]_startVars /\ [LogNext]_logVars
          /\ [ForkNext]_forkVars /\ [BackoffNext]_backoffVars
  BY DEF LocalNext, localVars
<1> QED
  BY <1>1, <1>2, PTL DEF LocalSpec, CommandSpec, StartSpec, LogSpec, ForkSpec, BackoffSpec

\* The types of the five parts.
THEOREM LocalTypesHold == LocalSpec => []LocalTypeOK
<1>1. CommandInv /\ IInv /\ LogInv /\ ForkInv /\ BackoffInv => LocalTypeOK
  BY DEF CommandInv, IInv, LogInv, ForkInv, BackoffInv, LocalTypeOK
<1> QED
  BY <1>1, SideBySide, CommandInvariant, Invariant, LogInvariant, ForkInvariant,
     BackoffInvariant, PTL
=============================================================================
