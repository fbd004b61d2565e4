------------------------- MODULE ServiceStartProofs -------------------------
(* Whatever starts race, die or fail, the service is one.                  *)
EXTENDS ServiceStart, SequenceTheorems, TLAPS

Recorded == Range(serviceKeys)

\* What the place and the locals of a process are worth: the seed of a start
\* is the one in the file, or the file is waiting for it; a start about to add
\* a key found none, and all added since are of its seed; what is up works for
\* the recorded organisation under a recorded key.
Justified(r) ==
    /\ r.pc # "down" => r.start \in Numbers
    /\ r.pc = "write" => seedFile = Empty
    /\ r.pc \in {"meta", "metaInsert", "keys", "keyInsert"} =>
          r.seed = seedFile /\ seedFile \in Numbers
    /\ r.pc = "keyInsert" => \A k \in Recorded : k.public = r.seed
    /\ r.pc \in {"keys", "keyInsert", "up"} => r.org = organisation /\ organisation # 0
    /\ r.pc = "up" => [key |-> r.key, public |-> r.seed] \in Recorded

\* O_EXCL: one start at most is between creating the seed file and writing it.
OneWriter == \A p, q \in Servers : server[p].pc = "write" /\ server[q].pc = "write" => p = q

\* The recorded keys are of one seed, that in the file if none was lost.
KeysAgree ==
    /\ \A k, l \in Recorded : k.public = l.public
    /\ ~ seedLost => \A k \in Recorded : seedFile = k.public

IssuedRecorded ==
    \A r \in issued : r.org = organisation /\ [key |-> r.key, public |-> r.seed] \in Recorded

IInv ==
    /\ StartTypeOK
    /\ \A p \in Servers : Justified(server[p])
    /\ OneWriter /\ KeysAgree /\ IssuedRecorded

\* Nothing is there before the first start.
LEMMA Initially == StartInit => IInv
  <1> SUFFICES ASSUME StartInit PROVE IInv
    OBVIOUS
  <1> USE DEF StartInit
  <1>1. Recorded = {}
    BY DEF Recorded, Range
  <1>2. StartTypeOK
    <2>1. seedLost \in BOOLEAN
      BY Zenon
    <2>2. server \in [Servers -> [pc : {"down", "seed", "create", "write", "meta", "metaInsert",
                                       "keys", "keyInsert", "up"},
                                 start : 0..MaxStarts, seed : 0..MaxStarts,
                                 org : 0..MaxStarts, key : 0..MaxStarts]]
      BY StartsAssumption DEF Down
    <2> QED
      BY <2>1, <2>2, StartsAssumption DEF StartTypeOK, Numbers, Absent
  <1>3. (\A p \in Servers : Justified(server[p])) /\ OneWriter /\ KeysAgree /\ IssuedRecorded
    BY <1>1 DEF Justified, OneWriter, KeysAgree, IssuedRecorded, Down
  <1> QED
    BY <1>2, <1>3 DEF IInv

\* The steps that add no key leave the recorded ones.
LEMMA SameKeys == UNCHANGED serviceKeys => Recorded' = Recorded
  BY DEF Recorded

\* A sequence has the elements of its two parts.
LEMMA SplitRange ==
    ASSUME NEW K, NEW s \in Seq(K), NEW n \in 0..Len(s)
    PROVE  /\ SubSeq(s, 1, n) \in Seq(K) /\ SubSeq(s, n + 1, Len(s)) \in Seq(K)
           /\ Range(s) = Range(SubSeq(s, 1, n)) \cup Range(SubSeq(s, n + 1, Len(s)))
  <1> DEFINE front == SubSeq(s, 1, n)
             back == SubSeq(s, n + 1, Len(s))
  <1>1. Len(s) \in Nat /\ n \in Nat /\ n <= Len(s) /\ DOMAIN s = 1..Len(s)
    OBVIOUS
  <1>2. /\ front \in Seq(K) /\ DOMAIN front = 1..n
        /\ \A i \in 1..n : front[i] = s[i]
    BY <1>1
  <1>3. /\ back \in Seq(K) /\ DOMAIN back = 1..(Len(s) - n)
        /\ \A i \in 1..(Len(s) - n) : back[i] = s[n + i]
    BY <1>1
  <1> HIDE DEF front, back
  <1>4. ASSUME NEW i \in DOMAIN s PROVE s[i] \in Range(front) \cup Range(back)
    <2>1. CASE i <= n
      BY <1>1, <1>2, <2>1 DEF Range
    <2>2. CASE i > n
      <3>1. back[i - n] = s[i] /\ i - n \in DOMAIN back
        BY <1>1, <1>3, <2>2
      <3> QED
        BY <3>1 DEF Range
    <2> QED
      BY <1>1, <2>1, <2>2
  <1>5. ASSUME NEW i \in DOMAIN front PROVE front[i] \in Range(s)
    BY <1>1, <1>2 DEF Range
  <1>6. ASSUME NEW i \in DOMAIN back PROVE back[i] \in Range(s)
    <2>1. back[i] = s[n + i] /\ n + i \in DOMAIN s
      BY <1>1, <1>3
    <2> QED
      BY <2>1 DEF Range
  <1>7. Range(s) = Range(front) \cup Range(back)
    BY <1>4, <1>5, <1>6 DEF Range
  <1> QED
    BY <1>2, <1>3, <1>7 DEF front, back

\* A sequence with one more element somewhere.
LEMMA InsertedRange ==
    ASSUME NEW K, NEW s \in Seq(K), NEW e \in K, NEW n \in 0..Len(s)
    PROVE  LET t == SubSeq(s, 1, n) \o <<e>> \o SubSeq(s, n + 1, Len(s))
           IN  t \in Seq(K) /\ Range(t) = Range(s) \cup {e}
  <1> DEFINE front == SubSeq(s, 1, n)
             back == SubSeq(s, n + 1, Len(s))
             t == SubSeq(s, 1, n) \o <<e>> \o SubSeq(s, n + 1, Len(s))
  <1>1. /\ front \in Seq(K) /\ back \in Seq(K)
        /\ Range(s) = Range(front) \cup Range(back)
    BY SplitRange
  <1>2. t = (front \o <<e>>) \o back
    OBVIOUS
  <1> HIDE DEF front, back, t
  <1>3. <<e>> \in Seq(K)
    OBVIOUS
  <1>4. Range(<<e>>) = {e}
    BY DEF Range
  <1>5. \A g, h \in Seq(K) : g \o h \in Seq(K)
    BY ConcatProperties
  <1>6. \A g, h \in Seq(K) : Range(g \o h) = Range(g) \cup Range(h)
    BY RangeConcatenation
  <1>7. front \o <<e>> \in Seq(K)
    BY <1>1, <1>3, <1>5
  <1>8. Range(front \o <<e>>) = Range(front) \cup {e}
    BY <1>1, <1>3, <1>4, <1>6
  <1>9. t \in Seq(K)
    BY <1>1, <1>2, <1>5, <1>7
  <1>10. Range(t) = (Range(front) \cup {e}) \cup Range(back)
    BY <1>1, <1>2, <1>6, <1>7, <1>8
  <1> QED
    BY <1>1, <1>9, <1>10 DEF t

\* INSERT INTO service_keys adds the start's key, wherever the clock puts it.
LEMMA KeyAdded ==
    ASSUME NEW p \in Servers, IInv, InsertKey(p)
    PROVE  /\ Recorded' = Recorded \cup
                  {[key |-> server[p].start, public |-> server[p].seed]}
           /\ serviceKeys' \in Seq([key : Numbers, public : Numbers])
  <1> DEFINE new == [key |-> server[p].start, public |-> server[p].seed]
             K == [key : Numbers, public : Numbers]
             len == Len(serviceKeys)
  <1>1. serviceKeys \in Seq(K)
    BY DEF IInv, StartTypeOK
  <1>2. new \in K
    BY DEF IInv, InsertKey, At, Justified
  <1>3. PICK n \in 0..len :
           serviceKeys' = SubSeq(serviceKeys, 1, n) \o <<new>> \o SubSeq(serviceKeys, n + 1, len)
    BY DEF InsertKey
  <1> HIDE DEF new, K
  <1>4. serviceKeys' \in Seq(K) /\ Range(serviceKeys') = Range(serviceKeys) \cup {new}
    <2> DEFINE t == SubSeq(serviceKeys, 1, n) \o <<new>> \o SubSeq(serviceKeys, n + 1, len)
    <2>1. t \in Seq(K) /\ Range(t) = Range(serviceKeys) \cup {new}
      BY <1>1, <1>2, InsertedRange
    <2> HIDE DEF t
    <2>2. serviceKeys' = t
      BY <1>3 DEF t
    <2> QED
      BY <2>1, <2>2
  <1> QED
    BY <1>4 DEF Recorded, new, K

-----------------------------------------------------------------------------
Places ==
    {"down", "seed", "create", "write", "meta", "metaInsert", "keys", "keyInsert", "up"}
Row == [pc : Places,
        start : 0..MaxStarts, seed : 0..MaxStarts, org : 0..MaxStarts, key : 0..MaxStarts]

\* A step that only moves one process, to a place it is justified in.
LEMMA MoveKeeps ==
    ASSUME IInv, NEW p \in Servers, NEW r \in Row, Justified(r), r.pc # "write",
           Goes(p, r), starts' \in 0..MaxStarts,
           UNCHANGED <<seedFile, organisation, serviceKeys, issued, seedLost>>
    PROVE  IInv'
  <1>1. Recorded' = Recorded
    BY DEF Recorded
  <1>2. server \in [Servers -> Row] /\ server' = [server EXCEPT ![p] = r]
    BY DEF IInv, StartTypeOK, Row, Places, Goes
  <1>3. \A q \in Servers : server'[q] = IF q = p THEN r ELSE server[q]
    BY <1>2
  <1>4. StartTypeOK'
    BY <1>2 DEF IInv, StartTypeOK, Row, Places
  <1>5. ASSUME NEW q \in Servers PROVE Justified(server[q])'
    BY <1>1, <1>3 DEF IInv, Justified
  <1>6. OneWriter'
    BY <1>3 DEF IInv, OneWriter
  <1>7. KeysAgree' /\ IssuedRecorded'
    BY <1>1 DEF IInv, KeysAgree, IssuedRecorded
  <1> QED
    BY <1>4, <1>5, <1>6, <1>7 DEF IInv

\* A process that is down is justified.
LEMMA DownJustified == StartTypeOK => Down \in Row /\ Justified(Down)
  BY StartsAssumption DEF StartTypeOK, Down, Row, Places, Justified

\* The row of a process.
LEMMA Rows == ASSUME IInv, NEW p \in Servers
              PROVE  server[p] \in Row /\ Justified(server[p])
  BY DEF IInv, StartTypeOK, Row, Places

\* Recorded keys are typed.
LEMMA RecordedTyped == StartTypeOK => \A k \in Recorded : k.key \in Numbers /\ k.public \in Numbers
  <1> SUFFICES ASSUME StartTypeOK, NEW k \in Recorded
               PROVE  k.key \in Numbers /\ k.public \in Numbers
    OBVIOUS
  <1> DEFINE K == [key : Numbers, public : Numbers]
  <1>1. serviceKeys \in Seq(K)
    BY DEF StartTypeOK
  <1>2. k \in K
    <2> HIDE DEF K
    <2> QED
      BY <1>1, RangeOfSeq DEF Recorded
  <1> QED
    BY <1>2

\* Assignments to the fields of a row.
LEMMA Assigned ==
    ASSUME NEW r \in Row, NEW place \in Places, NEW n \in 0..MaxStarts
    PROVE  /\ [r EXCEPT !.pc = place] \in Row
           /\ [r EXCEPT !.pc = place, !.start = n] \in Row
           /\ [r EXCEPT !.pc = place, !.seed = n] \in Row
           /\ [r EXCEPT !.pc = place, !.org = n] \in Row
           /\ [r EXCEPT !.pc = place, !.key = n] \in Row
  BY DEF Row

\* A process that dies leaves the rest as it was.
LEMMA DiesKeeps ==
    ASSUME IInv, NEW p \in Servers, Dies(p),
           UNCHANGED <<seedFile, organisation, serviceKeys, starts, issued, seedLost>>
    PROVE  IInv'
  <1>1. Down \in Row /\ Justified(Down)
    BY DownJustified DEF IInv
  <1>2. Down.pc # "write"
    BY DEF Down
  <1>3. Goes(p, Down)
    BY DEF Dies
  <1>4. starts' \in 0..MaxStarts
    BY DEF IInv, StartTypeOK
  <1> QED
    BY <1>1, <1>2, <1>3, <1>4, MoveKeeps

\* A new start has its number, and nothing else is claimed of it.
LEMMA StartServerKeeps == ASSUME IInv, NEW p \in Servers, StartServer(p) PROVE IInv'
  <1> DEFINE r == [Down EXCEPT !.pc = "seed", !.start = starts + 1]
  <1>1. starts' \in 0..MaxStarts /\ starts + 1 \in Numbers /\ starts + 1 \in 0..MaxStarts
    BY StartsAssumption DEF IInv, StartTypeOK, StartServer, Numbers
  <1>2. r \in Row
    BY <1>1, DownJustified, Assigned DEF IInv, Places
  <1>3. r.pc = "seed" /\ r.start = starts + 1
    BY <1>2, DownJustified DEF Row, IInv
  <1>4. Justified(r) /\ r.pc # "write"
    BY <1>1, <1>3 DEF Justified
  <1> HIDE DEF r
  <1>5. Goes(p, r) /\ UNCHANGED <<seedFile, organisation, serviceKeys, issued, seedLost>>
    BY DEF StartServer, r
  <1> QED
    BY <1>1, <1>2, <1>4, <1>5, MoveKeeps

\* A start that read a seed holds the file's.
LEMMA ReadSeedKeeps == ASSUME IInv, NEW p \in Servers, ReadSeed(p) PROVE IInv'
  <1>1. /\ starts' \in 0..MaxStarts /\ server[p] \in Row /\ Justified(server[p])
        /\ UNCHANGED <<seedFile, organisation, serviceKeys, starts, issued, seedLost>>
        /\ server[p].pc = "seed"
    BY Rows DEF IInv, StartTypeOK, At, ReadSeed
  <1>2. CASE Moves(p, "create")
    <2> DEFINE r == [server[p] EXCEPT !.pc = "create"]
    <2>1. r \in Row /\ r.pc = "create" /\ r.start = server[p].start
      BY <1>1 DEF Row, Places
    <2>2. Goes(p, r)
      BY <1>2 DEF Moves
    <2> HIDE DEF r
    <2>3. Justified(r)
      BY <1>1, <2>1 DEF Justified
    <2> QED
      BY <1>1, <2>1, <2>2, <2>3, MoveKeeps
  <1>3. CASE Dies(p)
    BY <1>1, <1>3, DiesKeeps
  <1>4. CASE /\ seedFile \in Numbers
             /\ Goes(p, [server[p] EXCEPT !.pc = "meta", !.seed = seedFile])
    <2> DEFINE r == [server[p] EXCEPT !.pc = "meta", !.seed = seedFile]
    <2>1. r \in Row
      <3>1. seedFile \in 0..MaxStarts /\ "meta" \in Places
        BY <1>4, StartsAssumption DEF Numbers, Places
      <3> QED
        BY <1>1, <3>1, Assigned
    <2>2. r.pc = "meta" /\ r.start = server[p].start /\ r.seed = seedFile
      BY <1>1 DEF Row
    <2>3. Goes(p, r)
      BY <1>4
    <2> HIDE DEF r
    <2>4. Justified(r)
      BY <1>1, <1>4, <2>2 DEF Justified
    <2> QED
      BY <1>1, <2>1, <2>2, <2>3, <2>4, MoveKeeps
  <1> QED
    BY <1>2, <1>3, <1>4 DEF ReadSeed

\* If the file was absent nobody works with a seed, and no keys are recorded
\* unless a seed was lost.
LEMMA CreateSeedKeeps == ASSUME IInv, NEW p \in Servers, CreateSeed(p) PROVE IInv'
  <1>1. /\ server[p] \in Row /\ Justified(server[p]) /\ server[p].pc = "create"
        /\ UNCHANGED <<organisation, serviceKeys, starts, issued, seedLost>>
    BY Rows DEF At, CreateSeed
  <1>2. CASE seedFile = Absent
    <2> DEFINE r == [server[p] EXCEPT !.pc = "write"]
    <2>1. r \in Row /\ r.pc = "write" /\ r.start = server[p].start
      BY <1>1 DEF Row, Places
    <2>2. seedFile' = Empty /\ server' = [server EXCEPT ![p] = r]
      BY <1>2 DEF CreateSeed, Moves, Goes
    <2> HIDE DEF r
    <2>3. server \in [Servers -> Row]
      BY DEF IInv, StartTypeOK, Row, Places
    <2>4. \A q \in Servers : server'[q] = IF q = p THEN r ELSE server[q]
      BY <2>2, <2>3
    <2>5. Recorded' = Recorded
      BY <1>1 DEF Recorded
    <2>6. Absent \notin Numbers /\ Absent # Empty
      BY DEF Absent, Empty, Numbers
    <2>7. \A q \in Servers :
             server[q].pc \notin {"write", "meta", "metaInsert", "keys", "keyInsert"}
      BY <1>2, <2>6 DEF IInv, Justified
    <2>8. StartTypeOK'
      BY <1>1, <2>1, <2>2, <2>3 DEF IInv, StartTypeOK, Row, Places
    <2>9. ASSUME NEW q \in Servers PROVE Justified(server[q])'
      <3>1. CASE q = p
        BY <1>1, <2>1, <2>2, <2>4, <3>1 DEF Justified
      <3>2. CASE q # p
        BY <1>1, <2>4, <2>5, <2>7, <3>2 DEF IInv, Justified
      <3> QED
        BY <3>1, <3>2
    <2>10. OneWriter'
      BY <2>4, <2>7 DEF OneWriter
    <2>11. \A k \in Recorded : k.public \in Numbers
      BY RecordedTyped DEF IInv
    <2>12. KeysAgree' /\ IssuedRecorded'
      <3>1. ~ seedLost => Recorded = {}
        BY <1>2, <2>11, <2>6 DEF IInv, KeysAgree
      <3> QED
        BY <1>1, <2>5, <3>1 DEF IInv, KeysAgree, IssuedRecorded
    <2> QED
      BY <2>8, <2>9, <2>10, <2>12 DEF IInv
  <1>3. CASE seedFile # Absent
    BY <1>1, <1>3, DiesKeeps DEF CreateSeed
  <1> QED
    BY <1>2, <1>3

\* The one that created the file alone is between the two steps, so no start
\* holds a seed and, unless a seed was lost, no key is recorded.
LEMMA WriteSeedKeeps == ASSUME IInv, NEW p \in Servers, WriteSeed(p) PROVE IInv'
  <1> DEFINE r == [server[p] EXCEPT !.pc = "meta", !.seed = server[p].start]
  <1>1. /\ server[p].pc = "write" /\ server[p].start \in Numbers /\ server[p] \in Row
        /\ seedFile = Empty /\ seedFile' = server[p].start
        /\ UNCHANGED <<organisation, serviceKeys, starts, issued, seedLost>>
        /\ Goes(p, r)
    BY Rows DEF WriteSeed, At, Justified
  <1>2. r \in Row
    <2>1. server[p].start \in 0..MaxStarts /\ "meta" \in Places
      BY <1>1 DEF Row, Places
    <2> QED
      BY <1>1, <2>1, Assigned
  <1>3. r.pc = "meta" /\ r.start = server[p].start /\ r.seed = server[p].start
    BY <1>1 DEF Row
  <1> HIDE DEF r
  <1>4. server \in [Servers -> Row] /\ server' = [server EXCEPT ![p] = r]
    BY <1>1 DEF IInv, StartTypeOK, Row, Places, Goes
  <1>5. \A q \in Servers : server'[q] = IF q = p THEN r ELSE server[q]
    BY <1>4
  <1>6. Recorded' = Recorded
    BY <1>1 DEF Recorded
  <1>7. Empty \notin Numbers
    BY DEF Empty, Numbers
  <1>8. \A q \in Servers : server[q].pc \notin {"meta", "metaInsert", "keys", "keyInsert"}
    BY <1>1, <1>7 DEF IInv, Justified
  <1>9. \A q \in Servers \ {p} : server[q].pc # "write"
    BY <1>1 DEF IInv, OneWriter
  <1>10. StartTypeOK'
    BY <1>1, <1>2, <1>4 DEF IInv, StartTypeOK, Row, Places
  <1>11. ASSUME NEW q \in Servers PROVE Justified(server[q])'
    <2>1. CASE q = p
      BY <1>1, <1>3, <1>5, <2>1 DEF Justified
    <2>2. CASE q # p
      BY <1>1, <1>5, <1>6, <1>8, <1>9, <2>2 DEF IInv, Justified
    <2> QED
      BY <2>1, <2>2
  <1>12. OneWriter'
    BY <1>3, <1>5, <1>9 DEF OneWriter
  <1>13. ~ seedLost => Recorded = {}
    BY <1>1, <1>7, RecordedTyped DEF IInv, KeysAgree
  <1>14. KeysAgree' /\ IssuedRecorded'
    BY <1>1, <1>6, <1>13 DEF IInv, KeysAgree, IssuedRecorded
  <1> QED
    BY <1>10, <1>11, <1>12, <1>14 DEF IInv

\* A row found is the organisation's.
LEMMA SelectOrganisationKeeps == ASSUME IInv, NEW p \in Servers, SelectOrganisation(p) PROVE IInv'
  <1>1. /\ starts' \in 0..MaxStarts /\ server[p] \in Row /\ Justified(server[p])
        /\ UNCHANGED <<seedFile, organisation, serviceKeys, issued, seedLost>>
        /\ server[p].pc = "meta" /\ organisation \in Numbers \cup {0}
    BY Rows DEF IInv, StartTypeOK, At, SelectOrganisation
  <1>2. CASE organisation = 0
    <2> DEFINE r == [server[p] EXCEPT !.pc = "metaInsert"]
    <2>1. r \in Row /\ r.pc = "metaInsert" /\ r.start = server[p].start /\ r.seed = server[p].seed
      BY <1>1 DEF Row, Places
    <2>2. Goes(p, r)
      BY <1>2 DEF SelectOrganisation, Moves
    <2> HIDE DEF r
    <2>3. Justified(r)
      BY <1>1, <2>1 DEF Justified
    <2> QED
      BY <1>1, <2>1, <2>2, <2>3, MoveKeeps
  <1>3. CASE organisation # 0
    <2> DEFINE r == [server[p] EXCEPT !.pc = "keys", !.org = organisation]
    <2>1. /\ r \in Row /\ r.pc = "keys" /\ r.start = server[p].start
          /\ r.seed = server[p].seed /\ r.org = organisation
      <3>1. organisation \in 0..MaxStarts
        BY <1>1, StartsAssumption DEF Numbers
      <3> QED
        BY <1>1, <3>1 DEF Row, Places
    <2>2. Goes(p, r)
      BY <1>3 DEF SelectOrganisation
    <2> HIDE DEF r
    <2>3. Justified(r)
      BY <1>1, <1>3, <2>1 DEF Justified
    <2> QED
      BY <1>1, <2>1, <2>2, <2>3, MoveKeeps
  <1> QED
    BY <1>2, <1>3

\* While there is no organisation nothing works for one.
LEMMA InsertOrganisationKeeps == ASSUME IInv, NEW p \in Servers, InsertOrganisation(p) PROVE IInv'
  <1> DEFINE r == [server[p] EXCEPT !.pc = "keys", !.org = server[p].start]
  <1>1. /\ server[p] \in Row /\ Justified(server[p]) /\ server[p].pc = "metaInsert"
        /\ server[p].start \in Numbers
        /\ UNCHANGED <<seedFile, serviceKeys, starts, issued, seedLost>>
    BY Rows DEF At, InsertOrganisation, Justified
  <1>2. CASE organisation # 0
    BY <1>1, <1>2, DiesKeeps DEF InsertOrganisation
  <1>3. CASE organisation = 0
    <2>1. /\ r \in Row /\ r.pc = "keys" /\ r.start = server[p].start
          /\ r.seed = server[p].seed /\ r.org = server[p].start
      BY <1>1 DEF Row, Places
    <2>2. organisation' = server[p].start /\ Goes(p, r)
      BY <1>3 DEF InsertOrganisation
    <2> HIDE DEF r
    <2>3. server \in [Servers -> Row] /\ server' = [server EXCEPT ![p] = r]
      BY <2>2 DEF IInv, StartTypeOK, Row, Places, Goes
    <2>4. \A q \in Servers : server'[q] = IF q = p THEN r ELSE server[q]
      BY <2>3
    <2>5. Recorded' = Recorded
      BY <1>1 DEF Recorded
    <2>6. 0 \notin Numbers
      BY DEF Numbers
    <2>7. \A q \in Servers : server[q].pc \notin {"keys", "keyInsert", "up"}
      BY <1>3 DEF IInv, Justified
    <2>8. StartTypeOK'
      BY <1>1, <2>1, <2>2, <2>3 DEF IInv, StartTypeOK, Row, Places
    <2>9. ASSUME NEW q \in Servers PROVE Justified(server[q])'
      <3>1. CASE q = p
        BY <1>1, <2>1, <2>2, <2>4, <2>6, <3>1 DEF Justified
      <3>2. CASE q # p
        BY <1>1, <2>4, <2>5, <2>7, <3>2 DEF IInv, Justified
      <3> QED
        BY <3>1, <3>2
    <2>10. OneWriter'
      BY <2>1, <2>4 DEF IInv, OneWriter
    <2>11. issued = {}
      BY <1>3, <2>6 DEF IInv, IssuedRecorded, StartTypeOK
    <2>12. KeysAgree' /\ IssuedRecorded'
      BY <1>1, <2>5, <2>11 DEF IInv, KeysAgree, IssuedRecorded
    <2> QED
      BY <2>8, <2>9, <2>10, <2>12 DEF IInv
  <1> QED
    BY <1>2, <1>3

\* A key found is recorded, and its seed is the file's.
LEMMA SelectKeyKeeps == ASSUME IInv, NEW p \in Servers, SelectKey(p) PROVE IInv'
  <1>1. /\ starts' \in 0..MaxStarts /\ server[p] \in Row /\ Justified(server[p])
        /\ UNCHANGED <<seedFile, organisation, serviceKeys, starts, issued, seedLost>>
        /\ server[p].pc = "keys"
        /\ serviceKeys \in Seq([key : Numbers, public : Numbers])
    BY Rows DEF IInv, StartTypeOK, At, SelectKey
  <1>2. CASE serviceKeys = <<>>
    <2> DEFINE r == [server[p] EXCEPT !.pc = "keyInsert"]
    <2>1. /\ r \in Row /\ r.pc = "keyInsert" /\ r.start = server[p].start
          /\ r.seed = server[p].seed /\ r.org = server[p].org
      BY <1>1 DEF Row, Places
    <2>2. Goes(p, r)
      BY <1>2 DEF SelectKey, Moves
    <2> HIDE DEF r
    <2>3. Recorded = {}
      BY <1>2 DEF Recorded, Range
    <2>4. Justified(r)
      BY <1>1, <2>1, <2>3 DEF Justified
    <2> QED
      BY <1>1, <2>1, <2>2, <2>4, MoveKeeps
  <1>3. CASE serviceKeys # <<>>
    <2> DEFINE head == serviceKeys[1]
               r == [server[p] EXCEPT !.pc = "up", !.key = head.key]
    <2>1. head \in Recorded /\ head = Head(serviceKeys)
      BY <1>1, <1>3 DEF Recorded, Range
    <2> HIDE DEF head
    <2>2. head \in [key : Numbers, public : Numbers]
      <3> DEFINE K == [key : Numbers, public : Numbers]
      <3>1. serviceKeys \in Seq(K)
        BY <1>1
      <3> HIDE DEF K
      <3>2. head \in K
        BY <2>1, <3>1, RangeOfSeq DEF Recorded
      <3> QED
        BY <3>2 DEF K
    <2>3. CASE Dies(p)
      BY <1>1, <2>3, DiesKeeps
    <2>4. CASE head.public = server[p].seed /\ Goes(p, r)
      <3>1. head = [key |-> head.key, public |-> head.public] /\ head.key \in 0..MaxStarts
        <4>1. head = [key |-> head.key, public |-> head.public] /\ head.key \in Numbers
          BY <2>2
        <4> QED
          BY <4>1, StartsAssumption DEF Numbers
      <3>2. /\ r \in Row /\ r.pc = "up" /\ r.start = server[p].start
            /\ r.seed = server[p].seed /\ r.org = server[p].org /\ r.key = head.key
        BY <1>1, <3>1 DEF Row, Places
      <3> HIDE DEF r
      <3>3. [key |-> r.key, public |-> r.seed] \in Recorded
        BY <2>1, <2>4, <3>1, <3>2
      <3>4. Justified(r)
        BY <1>1, <3>2, <3>3 DEF Justified
      <3> QED
        BY <1>1, <2>4, <3>2, <3>4, MoveKeeps
    <2> QED
      BY <1>3, <2>1, <2>3, <2>4 DEF SelectKey
  <1> QED
    BY <1>2, <1>3

\* All that add a key found none, and work with the seed of the file.
LEMMA InsertKeyKeeps == ASSUME IInv, NEW p \in Servers, InsertKey(p) PROVE IInv'
  <1> DEFINE r == [server[p] EXCEPT !.pc = "up", !.key = server[p].start]
             new == [key |-> server[p].start, public |-> server[p].seed]
  <1>1. /\ server[p] \in Row /\ Justified(server[p]) /\ server[p].pc = "keyInsert"
        /\ UNCHANGED <<seedFile, organisation, starts, issued, seedLost>>
        /\ Goes(p, r)
    BY Rows DEF At, InsertKey
  <1>2. /\ Recorded' = Recorded \cup {new}
        /\ serviceKeys' \in Seq([key : Numbers, public : Numbers])
    BY KeyAdded
  <1>3. /\ r \in Row /\ r.pc = "up" /\ r.start = server[p].start
        /\ r.seed = server[p].seed /\ r.org = server[p].org /\ r.key = server[p].start
    BY <1>1 DEF Row, Places
  <1>4. /\ new.public = seedFile /\ seedFile \in Numbers
        /\ \A k \in Recorded : k.public = seedFile
    BY <1>1 DEF Justified
  <1>5. new = [key |-> r.key, public |-> r.seed]
    BY <1>3
  <1> HIDE DEF r, new
  <1>6. server \in [Servers -> Row] /\ server' = [server EXCEPT ![p] = r]
    BY <1>1 DEF IInv, StartTypeOK, Row, Places, Goes
  <1>7. \A q \in Servers : server'[q] = IF q = p THEN r ELSE server[q]
    BY <1>6
  <1>8. \A k \in Recorded' : k.public = seedFile
    BY <1>2, <1>4
  <1>9. StartTypeOK'
    BY <1>1, <1>2, <1>3, <1>6 DEF IInv, StartTypeOK, Row, Places
  <1>10. ASSUME NEW q \in Servers PROVE Justified(server[q])'
    <2>1. CASE q = p
      BY <1>1, <1>2, <1>3, <1>5, <1>7, <2>1 DEF Justified
    <2>2. CASE q # p
      <3>1. server'[q] = server[q] /\ Justified(server[q])
        BY <1>7, <2>2 DEF IInv
      <3> QED
        BY <1>1, <1>2, <1>8, <3>1 DEF Justified
    <2> QED
      BY <2>1, <2>2
  <1>11. OneWriter'
    BY <1>3, <1>7 DEF IInv, OneWriter
  <1>12. KeysAgree' /\ IssuedRecorded'
    BY <1>1, <1>2, <1>8 DEF IInv, KeysAgree, IssuedRecorded
  <1> QED
    BY <1>9, <1>10, <1>11, <1>12 DEF IInv

\* A process issues receipts under what it is up with.
LEMMA IssueReceiptKeeps == ASSUME IInv, NEW p \in Servers, IssueReceipt(p) PROVE IInv'
  <1> DEFINE new == [key |-> server[p].key, seed |-> server[p].seed, org |-> server[p].org]
  <1>1. /\ server[p].pc = "up" /\ Justified(server[p]) /\ issued' = issued \cup {new}
        /\ UNCHANGED <<seedFile, organisation, serviceKeys, starts, server, seedLost>>
    BY Rows DEF At, IssueReceipt
  <1>2. Recorded' = Recorded
    BY <1>1 DEF Recorded
  <1>3. /\ new.org = organisation /\ organisation # 0
        /\ [key |-> new.key, public |-> new.seed] \in Recorded
    BY <1>1 DEF Justified
  <1>4. new \in [key : Numbers, seed : Numbers, org : Numbers]
    <2>1. organisation \in Numbers
      BY <1>3 DEF IInv, StartTypeOK
    <2>2. server[p].key \in Numbers /\ server[p].seed \in Numbers
      BY <1>3, RecordedTyped DEF IInv
    <2> QED
      BY <1>3, <2>1, <2>2
  <1> HIDE DEF new
  <1>5. StartTypeOK'
    BY <1>1, <1>4 DEF IInv, StartTypeOK
  <1>6. ASSUME NEW q \in Servers PROVE Justified(server[q])'
    BY <1>1, <1>2 DEF IInv, Justified
  <1>7. OneWriter' /\ KeysAgree' /\ IssuedRecorded'
    BY <1>1, <1>2, <1>3 DEF IInv, OneWriter, KeysAgree, IssuedRecorded
  <1> QED
    BY <1>5, <1>6, <1>7 DEF IInv

\* The file is lost while no start holds its seed or is about to write it.
LEMMA LoseSeedFileKeeps == ASSUME IInv, LoseSeedFile PROVE IInv'
  <1>1. /\ \A p \in Servers : server[p].pc \in {"down", "up"}
        /\ seedFile' = Absent /\ seedLost' = TRUE
        /\ UNCHANGED <<organisation, serviceKeys, starts, server, issued>>
    BY DEF LoseSeedFile, At
  <1>2. Recorded' = Recorded
    BY <1>1 DEF Recorded
  <1>3. StartTypeOK'
    <2>1. seedLost' \in BOOLEAN
      BY <1>1, Zenon
    <2> QED
      BY <1>1, <2>1 DEF IInv, StartTypeOK
  <1>4. ASSUME NEW q \in Servers PROVE Justified(server[q])'
    BY <1>1, <1>2 DEF IInv, Justified
  <1>5. OneWriter' /\ KeysAgree' /\ IssuedRecorded'
    BY <1>1, <1>2 DEF IInv, OneWriter, KeysAgree, IssuedRecorded
  <1> QED
    BY <1>3, <1>4, <1>5 DEF IInv

\* Every step, or none, keeps the invariant.
LEMMA StepKeeps == IInv /\ [StartNext]_startVars => IInv'
  <1> SUFFICES ASSUME IInv, [StartNext]_startVars PROVE IInv'
    OBVIOUS
  <1>1. ASSUME NEW p \in Servers, CrashServer(p) PROVE IInv'
    BY <1>1, DiesKeeps DEF CrashServer
  <1>2. CASE UNCHANGED startVars
    BY <1>2 DEF startVars, IInv, StartTypeOK, Justified, OneWriter, KeysAgree,
                IssuedRecorded, Recorded
  <1>3. CASE StartNext
    <2>1. CASE LoseSeedFile
      BY <2>1, LoseSeedFileKeeps
    <2>2. ASSUME NEW p \in Servers,
                 \/ StartServer(p) \/ ReadSeed(p) \/ CreateSeed(p) \/ WriteSeed(p)
                 \/ SelectOrganisation(p) \/ InsertOrganisation(p)
                 \/ SelectKey(p) \/ InsertKey(p) \/ IssueReceipt(p) \/ CrashServer(p)
          PROVE  IInv'
      BY <1>1, <2>2, StartServerKeeps, ReadSeedKeeps, CreateSeedKeeps, WriteSeedKeeps,
         SelectOrganisationKeeps, InsertOrganisationKeeps, SelectKeyKeeps, InsertKeyKeeps,
         IssueReceiptKeeps
    <2> QED
      BY <1>3, <2>1, <2>2 DEF StartNext
  <1> QED
    BY <1>2, <1>3

\* initialise() and the receipts after it: the invariant holds in every state,
\* for any processes and any number of starts.
THEOREM Invariant == StartSpec => []IInv
  <1>1. StartInit => IInv
    BY Initially
  <1>2. IInv /\ [StartNext]_startVars => IInv'
    BY StepKeeps
  <1> QED
    BY <1>1, <1>2, PTL DEF StartSpec

\* _State.start and initialise: all recorded keys are of one seed, every receipt
\* is under a recorded key and of the recorded organisation, and unless the
\* seed file was lost the recorded keys are those of the seed in it.
THEOREM ServiceIsOne == StartSpec => []OneService
  <1>1. IInv => OneService
    <2> SUFFICES ASSUME IInv PROVE OneService
      OBVIOUS
    <2>1. serviceKeys \in Seq([key : Numbers, public : Numbers])
      BY DEF IInv, StartTypeOK
    <2>2. Recorded = {serviceKeys[i] : i \in DOMAIN serviceKeys}
      BY DEF Recorded, Range
    <2>3. \A i, j \in DOMAIN serviceKeys : serviceKeys[i].public = serviceKeys[j].public
      BY <2>2 DEF IInv, KeysAgree
    <2>4. ASSUME serviceKeys # <<>>, ~ seedLost PROVE seedFile = serviceKeys[1].public
      <3>1. 1 \in DOMAIN serviceKeys
        BY <2>1, <2>4
      <3> QED
        BY <2>2, <2>4, <3>1 DEF IInv, KeysAgree
    <2>5. \A r \in issued :
             /\ r.org = organisation
             /\ [key |-> r.key, public |-> r.seed] \in {serviceKeys[i] : i \in DOMAIN serviceKeys}
      BY <2>2 DEF IInv, IssuedRecorded
    <2> QED
      BY <2>3, <2>4, <2>5 DEF OneService
  <1> QED
    BY <1>1, Invariant, PTL
=============================================================================
