----------------------------- MODULE DirPoolKept ------------------------------
(***************************************************************************)
(* What the inductive invariant of the directory pool gives: the           *)
(* properties of the table of references, and then, with a second          *)
(* invariant on top of it (KeptInv), that no finished backup loses content *)
(* that it shares with others.                                             *)
(***************************************************************************)
EXTENDS DirPoolProofs

-------------------------------------------------------------------------------
(***************************************************************************)
(* The properties that are conjuncts or consequences of IInv.              *)
(***************************************************************************)
\* A reference names the pool directory that the link at its path leads to.
THEOREM AgreeingRowsAlways == Spec => []RowsAgree
<1>1. IInv => RowsAgree
  BY AgreeingRows
<1> QED
  BY <1>1, Inductive, PTL

\* Every link that is there is counted: no step makes one before its row is committed.
THEOREM LinksAlwaysCounted == Spec => []LinksCounted
<1>1. IInv => LinksCounted
  BY CountedLinks
<1> QED
  BY <1>1, Inductive, PTL

\* No pool directory loses its last reference before it is deleted.
THEOREM PoolsAlwaysReferenced == Spec => []PoolsReferenced
<1>1. IInv => PoolsReferenced
  BY ReferencedPools
<1> QED
  BY <1>1, Inductive, PTL

\* The assertion of reference_parents holds on a table no crash has touched.
THEOREM ParentsAlwaysVisible == Spec => []ParentsVisible
<1>1. IInv => ParentsVisible
  BY VisibleParents
<1> QED
  BY <1>1, Inductive, PTL

-------------------------------------------------------------------------------
(***************************************************************************)
(* Nothing is lost, when the newest backup is not deleted by hand in a     *)
(* server that may crash: then a deletion that a crash cuts short is never *)
(* that of the backup the next one is linked to.                           *)
(***************************************************************************)
Careful == ~(setting.crash /\ setting.manual)

\* all of what is at a place is there
WholeIn(pl, v) == v = "dir" \/ (v \in Pools /\ pl[v] = "full")

\* all of b is there
HasAll(t, s, pl, b) == WholeIn(pl, t[b]) /\ WholeIn(pl, Sees(t, s, b))

\* what b has by now is there
HasParts(t, s, pl, b) ==
    /\ t[b] \in Pools => WholeIn(pl, t[b]) /\ WholeIn(pl, s[t[b]])
    /\ s[b] \in Pools => WholeIn(pl, s[b])

\* done, and nobody deletes it
Safe(b) == status[b] = "done" /\ b \notin doomed

\* A backup that is done has all its content, once the journal is replayed.
DoneWhole == \A b \in Backups : Safe(b) => HasAll(seenTop, seenSub, pool, b)

\* What the running backup has been linked to is whole.
RunningWhole == up => \A b \in Backups : Running(b) => HasParts(top, sub, pool, b)

\* Only older backups are deleted, and the running one is linked to the newest.
OlderDoomed ==
    ~setting.manual =>
        /\ \A b \in doomed : status[b] = "done" => b < Newest
        /\ last # 0 /\ (\E b \in Backups : Running(b)) => last = Newest

\* A deletion that has begun comes to its end.
DoomedGone ==
    ~setting.crash =>
        up /\ \A b \in doomed : status[b] = "gone" \/ (job.step \in RemoveSteps /\ job.b = b)

\* A row names a pool directory that is there, or is of a backup that is being deleted.
RowsLive ==
    ~stale => \A p \in Pools, b \in Backups, x \in XS :
        Has(links, p, b, x) /\ ~Exempt(p, b) => Live(pool, p) \/ b \in doomed

\* the second invariant
Kept == DoneWhole /\ RunningWhole /\ OlderDoomed /\ DoomedGone /\ RowsLive

\* the two together
KeptInv == IInv /\ (Careful => Kept)

(***************************************************************************)
(* What a backup has.                                                      *)
(***************************************************************************)
\* Places and pool directories of b stay.
LEMMA StillAll ==
    ASSUME NEW t, NEW s, NEW pl, NEW t2, NEW s2, NEW pl2, NEW b \in Backups,
           HasAll(t, s, pl, b), t2[b] = t[b], Sees(t2, s2, b) = Sees(t, s, b),
           \A p \in Pools : pl[p] = "full" /\ (t[b] = p \/ Sees(t, s, b) = p) => pl2[p] = "full"
    PROVE  HasAll(t2, s2, pl2, b)
BY DEF HasAll, WholeIn

\* What b has by now stays.
LEMMA StillParts ==
    ASSUME NEW t, NEW s, NEW pl, NEW t2, NEW s2, NEW pl2, NEW b \in Backups,
           HasParts(t, s, pl, b), t2[b] = t[b], s2[b] = s[b],
           t[b] \in Pools => s2[t[b]] = s[t[b]],
           \A p \in Pools : pl[p] = "full" /\ (t[b] = p \/ s[b] = p \/ (t[b] \in Pools /\ s[t[b]] = p)) =>
              pl2[p] = "full"
    PROVE  HasParts(t2, s2, pl2, b)
BY DEF HasParts, WholeIn

\* A link of a backup that counts has its row.
LEMMA LinkHasRow ==
    ASSUME NEW t, NEW s, NEW pl, NEW R, NEW ren, NEW C, NEW c \in Backups, NEW p \in Pools,
           Values(t, s, pl), Consistent(t, s, pl, R, ren, C), c \in C, Live(pl, p)
    PROVE  /\ t[c] = p => Has(R, p, c, "d")
           /\ t[c] # "none" /\ Sees(t, s, c) = p => Has(R, p, c, "s")
<1>1. t[c] = p => Has(R, p, c, "d")
  BY DEF Consistent, Counted
<1>2. ASSUME t[c] # "none", Sees(t, s, c) = p PROVE Has(R, p, c, "s")
  <2>1. CASE t[c] = "dir"
    BY <1>2, <2>1, Names DEF Consistent, Counted, Sees
  <2>2. CASE t[c] \in Pools
    <3>1. s[t[c]] = p
      BY <1>2, <2>2 DEF Sees
    <3>2. Live(pl, t[c])
      BY <2>2, <3>1, Names DEF Consistent, Shape
    <3>3. Has(R, t[c], c, "d")
      BY <2>2, <3>2 DEF Consistent, Counted
    <3> QED
      BY <2>2, <3>1, <3>3 DEF Consistent, Closed
  <2> QED
    BY <1>2, <2>1, <2>2 DEF Values, Places
<1> QED
  BY <1>1, <1>2

\* A backup that is done counts.
LEMMA SafeCounts ==
    ASSUME IInv, NEW c \in Backups, status[c] = "done"
    PROVE  c \in CountedBackups /\ c \notin renamed /\ ~Running(c)
BY DEF IInv, Ages, CountedBackups, Running

\* A running backup is not doomed.
LEMMA RunningNotDoomed ==
    ASSUME IInv, NEW c \in Backups, Running(c)
    PROVE  c \notin doomed
BY DEF IInv, Ages, Running

\* The backup the running one is linked to is not being deleted.
LEMMA LastSafe ==
    ASSUME IInv, Careful, Kept, last \in Backups, status[last] = "done",
           \E b \in Backups : Running(b), job.step \notin RemoveSteps
    PROVE  Safe(last)
<1>1. CASE ~setting.manual
  <2>1. last = Newest /\ \A b \in doomed : status[b] = "done" => b < Newest
    BY <1>1, BackupsAssumption DEF Kept, OlderDoomed
  <2>2. ~(last < last)
    BY BackupsAssumption
  <2> QED
    BY <2>1, <2>2 DEF Safe
<1>2. CASE ~setting.crash
  BY <1>2 DEF Kept, DoomedGone, Safe
<1> QED
  BY <1>1, <1>2 DEF Careful

\* In an operation of link_directory_pool.
LEMMA LinkLast ==
    ASSUME IInv, Careful, Kept, job.step \in LinkSteps
    PROVE  Safe(last) /\ HasAll(seenTop, seenSub, pool, last)
<1>1. last \in Backups /\ status[last] = "done" /\ job.b \in Backups /\ Running(job.b)
      /\ job.step \notin RemoveSteps
  BY LinkFacts DEF LinkSteps, RemoveSteps
<1>2. Safe(last)
  BY <1>1, LastSafe
<1> QED
  BY <1>1, <1>2 DEF Kept, DoneWhole

(***************************************************************************)
(* A backup that is done keeps all it has.                                 *)
(***************************************************************************)
\* What a link or a copy puts at a free place of b is none of c's business.
LEMMA PutAway ==
    ASSUME NEW b \in Backups, NEW x \in XS, NEW v \in Places, Values(top, sub, pool),
           Place(b, x, v),
           Free(top, sub, b, x)
    PROVE  /\ Put(top, sub, top', sub', b, x, v)
           /\ \A c \in Backups : c # b => /\ top'[c] = top[c] /\ sub'[c] = sub[c]
                                          /\ Sees(top', sub', c) = Sees(top, sub, c)
           /\ \A p \in Pools : sub'[p] = sub[p]
<1>1. Put(top, sub, top', sub', b, x, v)
  BY Names DEF Place, Home, Put, Free, XS
<1>2. \A c \in Backups : c # b => top'[c] = top[c] /\ sub'[c] = sub[c]
  BY <1>1 DEF Put, Values
<1>3. \A p \in Pools : sub'[p] = sub[p]
  BY <1>1, Names DEF Put, Values
<1> QED
  BY <1>1, <1>2, <1>3 DEF Sees

\* The steps of a backup.
LEMMA BackupDone ==
    ASSUME IInv, IInv', DoneWhole, RunningWhole, BackupStep
    PROVE  DoneWhole'
<1>1. PICK b \in Backups :
         \/ StartBackup(b) \/ FinishBackup(b) \/ FailBackup(b) \/ DeleteBackup(b)
         \/ \E x \in {"d", "s"} : Copy(b, x)
  BY DEF BackupStep
<1>2. job.step \notin LinkSteps /\ up
  BY <1>1, NotLinking DEF StartBackup, FinishBackup, FailBackup, DeleteBackup, Copy
<1>3. /\ seenTop = top /\ seenSub = sub /\ Values(top, sub, pool)
      /\ status \in [Backups -> {"unused", "running", "done", "failed", "gone"}]
  BY <1>2, ViewUp, ViewType DEF IInv, TypeInv, TypeOK, LinkSteps
<1>4. UNCHANGED <<pool, up>>
  BY <1>1 DEF StartBackup, FinishBackup, FailBackup, DeleteBackup, Copy, files
<1>5. job' = job \/ job'.step = "scan"
  BY <1>1 DEF StartBackup, FinishBackup, FailBackup, DeleteBackup, Copy
<1>6. seenTop' = top' /\ seenSub' = sub'
  BY <1>2, <1>4, <1>5, ViewUpNext DEF LinkSteps, IInv, TypeInv
<1> SUFFICES ASSUME NEW c \in Backups, Safe(c)' PROVE HasAll(top', sub', pool', c)
  BY <1>6 DEF DoneWhole
<1>7. CASE FinishBackup(b) /\ c = b
  <2>1. top[b] # "none" /\ (top[b] = "dir" => sub[b] # "none") /\ UNCHANGED <<top, sub>>
        /\ HasParts(top, sub, pool, b)
    BY <1>2, <1>7 DEF FinishBackup, Present, RunningWhole, files
  <2>2. WholeIn(pool, top[b])
    BY <1>3, <2>1 DEF HasParts, Values, Places, WholeIn
  <2>3. WholeIn(pool, Sees(top, sub, b))
    BY <1>3, <2>1, Names DEF HasParts, Values, Places, WholeIn, Sees
  <2> QED
    BY <1>4, <1>7, <2>1, <2>2, <2>3 DEF HasAll
<1>8. CASE ~(FinishBackup(b) /\ c = b)
  <2>1. Safe(c)
    BY <1>1, <1>3, <1>8 DEF Safe, StartBackup, FinishBackup, FailBackup, DeleteBackup, Copy, backups
  <2>2. HasAll(top, sub, pool, c)
    BY <1>3, <2>1 DEF DoneWhole
  <2>3. ASSUME NEW x \in {"d", "s"}, Copy(b, x)
        PROVE  top'[c] = top[c] /\ Sees(top', sub', c) = Sees(top, sub, c)
    <3>1. Open(b, x) /\ Place(b, x, "dir") /\ x \in XS /\ "dir" \in Places /\ Running(b)
      BY <2>3 DEF Copy, XS, Places, Open
    <3>2. Free(top, sub, b, x) /\ c # b
      BY <2>1, <3>1 DEF Open, Free, Safe, Running
    <3> QED
      BY <1>3, <3>1, <3>2, PutAway
  <2>4. top'[c] = top[c] /\ Sees(top', sub', c) = Sees(top, sub, c)
    <3>1. CASE UNCHANGED <<top, sub>>
      BY <3>1
    <3> QED
      BY <1>1, <2>3, <3>1 DEF StartBackup, FinishBackup, FailBackup, DeleteBackup, files
  <2> QED
    BY <1>4, <2>2, <2>4, StillAll
<1> QED
  BY <1>7, <1>8

\* A step that changes no place, no pool directory and not what is done.
LEMMA SameDone ==
    ASSUME IInv, IInv', DoneWhole, UNCHANGED <<backups, top, sub, pool>>, up, up',
           job.step # "link_source", job'.step # "link_source"
    PROVE  DoneWhole'
<1>1. seenTop = top /\ seenSub = sub
  BY ViewUp DEF IInv, TypeInv
<1>2. seenTop' = top' /\ seenSub' = sub'
  BY ViewUpNext DEF IInv, TypeInv
<1> QED
  BY <1>1, <1>2 DEF DoneWhole, Safe, backups

\* The backup that runs gets its link.
LEMMA TargetDone ==
    ASSUME IInv, IInv', DoneWhole, LinkTarget \/ LinkTargetInTx
    PROVE  DoneWhole'
<1>1. /\ job.step \in LinkSteps /\ job.step \notin {"end_link", "link_source"}
      /\ UNCHANGED <<backups, pool, up>>
      /\ Place(job.b, job.x, job.p) \/ UNCHANGED <<top, sub>>
  BY DEF LinkTarget, LinkTargetInTx, LinkSteps
<1>2. /\ job.b \in Backups \ renamed /\ job.p \in Pools /\ job.x \in XS /\ up /\ Running(job.b)
      /\ Vacant(job.b, job.x) /\ Values(top, sub, pool)
  BY <1>1, LinkFacts
<1>3. job'.step # "link_source"
  <2>1. TypeOK
    BY DEF IInv, TypeInv
  <2> QED
    BY <2>1, GoIs DEF LinkTarget, LinkTargetInTx, NoJob
<1>4. CASE UNCHANGED <<top, sub>>
  BY <1>1, <1>2, <1>3, <1>4, SameDone
<1>5. CASE Place(job.b, job.x, job.p)
  <2>1. seenTop = top /\ seenSub = sub
    BY <1>1, <1>2, ViewUp DEF IInv, TypeInv
  <2>2. seenTop' = top' /\ seenSub' = sub'
    BY <1>1, <1>2, <1>3, ViewUpNext DEF IInv, TypeInv
  <2>3. Free(top, sub, job.b, job.x) /\ job.p \in Places
    BY <1>2 DEF Free, Vacant, Places
  <2>4. \A c \in Backups : c # job.b => top'[c] = top[c] /\ Sees(top', sub', c) = Sees(top, sub, c)
    BY <1>2, <1>5, <2>3, PutAway
  <2> SUFFICES ASSUME NEW c \in Backups, Safe(c)' PROVE HasAll(top', sub', pool', c)
    BY <2>2 DEF DoneWhole
  <2>5. Safe(c) /\ c # job.b
    BY <1>1, <1>2 DEF Safe, backups, Running
  <2> QED
    BY <1>1, <2>1, <2>4, <2>5, StillAll DEF DoneWhole
<1> QED
  BY <1>1, <1>4, <1>5

\* The directory goes into the pool.
LEMMA RenameDone ==
    ASSUME IInv, IInv', DoneWhole, Rename
    PROVE  DoneWhole'
<1>1. /\ job.step = "rename" /\ job.step \in LinkSteps \ LinkedSteps
      /\ Go("link_source") /\ UNCHANGED <<backups, up>>
      /\ pool' = [pool EXCEPT ![job.p] = "full"]
  BY DEF Rename, LinkSteps, LinkedSteps
<1>2. /\ job.p \in Pools /\ job.x \in XS /\ last \in Backups
      /\ Values(top, sub, pool) /\ TypeOK /\ seenTop = top /\ seenSub = sub
  BY <1>1, PoolFacts
<1>3. job'.step = "link_source" /\ job'.x = job.x /\ job'.p = job.p /\ last' = last
  BY <1>1, <1>2, GoIs DEF backups
<1>4. AtSource(job.x) /\ pool[job.p] = "unused"
  BY <1>1 DEF IInv, PoolJob
<1>5. \A p \in Pools : pool[p] = "full" => pool'[p] = "full" /\ p # job.p
  BY <1>1, <1>2, <1>4 DEF Values
<1>6. pool'[job.p] = "full"
  BY <1>1, <1>2 DEF Values
<1>7. /\ job'.x = "d" => seenTop' = [top' EXCEPT ![last'] = job'.p] /\ seenSub' = sub'
      /\ job'.x = "s" => seenTop' = top' /\ seenSub' = [sub' EXCEPT ![HomeOf(top', last')] = job'.p]
  BY <1>3, ViewSourceNext DEF IInv, TypeInv
<1> SUFFICES ASSUME NEW c \in Backups, Safe(c)' PROVE HasAll(seenTop', seenSub', pool', c)
  BY DEF DoneWhole
<1>8. HasAll(top, sub, pool, c)
  BY <1>1, <1>2 DEF DoneWhole, Safe, backups
<1>9. CASE job.x = "d"
  <2>1. /\ top' = [top EXCEPT ![last] = "none"]
        /\ sub' = [sub EXCEPT ![job.p] = sub[last], ![last] = "none"]
    BY <1>9 DEF Rename
  <2>2. seenTop' = [top EXCEPT ![last] = job.p] /\ seenSub' = sub'
    BY <1>2, <1>3, <1>7, <1>9, <2>1 DEF Values
  <2>3. CASE c = last
    <3>1. top[last] = "dir" /\ seenTop'[c] = job.p
      BY <1>2, <1>4, <1>9, <2>2, <2>3 DEF AtSource, Values
    <3>2. Sees(seenTop', seenSub', c) = Sees(top, sub, c)
      BY <1>2, <2>1, <2>2, <2>3, <3>1, Names DEF Sees, Values
    <3> QED
      BY <1>2, <1>5, <1>6, <1>8, <3>1, <3>2 DEF HasAll, WholeIn
  <2>4. CASE c # last
    <3>1. seenTop'[c] = top[c] /\ (top[c] \in Pools => top[c] # job.p)
      BY <1>2, <1>4, <1>8, <2>2, <2>4, Names DEF HasAll, WholeIn, Values
    <3>2. Sees(seenTop', seenSub', c) = Sees(top, sub, c)
      BY <1>2, <2>1, <2>2, <2>4, <3>1, Names DEF Sees, Values
    <3> QED
      BY <1>5, <1>8, <3>1, <3>2, StillAll
  <2> QED
    BY <2>3, <2>4
<1>10. CASE job.x = "s"
  <2> DEFINE h == HomeOf(top, last)
  <2>1. top' = top /\ sub' = [sub EXCEPT ![h] = "none"]
    BY <1>10 DEF Rename, Place, Home, HomeOf
  <2>2. h \in Backups \cup Pools /\ seenTop' = top /\ seenSub' = [sub' EXCEPT ![h] = job.p]
    BY <1>2, <1>3, <1>7, <1>10, <2>1 DEF HomeOf
  <2> HIDE DEF h
  <2>3. seenSub' = [sub EXCEPT ![h] = job.p]
    BY <1>2, <2>1, <2>2 DEF Values
  <2>4. Sees(seenTop', seenSub', c) \in {Sees(top, sub, c), job.p}
    BY <1>2, <2>2, <2>3 DEF Sees, Values
  <2> QED
    BY <1>2, <1>5, <1>6, <1>8, <2>2, <2>4 DEF HasAll, WholeIn
<1> QED
  BY <1>2, <1>9, <1>10 DEF XS

\* The link is made in its place.
LEMMA SourceDone ==
    ASSUME IInv, IInv', DoneWhole, LinkSource
    PROVE  DoneWhole'
<1>1. /\ job.step = "link_source" /\ job.step \in LinkSteps \ LinkedSteps
      /\ Place(last, job.x, job.p) /\ Go("forget") /\ UNCHANGED <<backups, pool, up>>
  BY DEF LinkSource, LinkSteps, LinkedSteps
<1>2. job.x \in XS /\ TypeOK /\ up
  BY <1>1, PoolFacts
<1>3. job'.step = "forget"
  BY <1>1, <1>2, GoIs
<1>4. seenTop' = top' /\ seenSub' = sub'
  BY <1>1, <1>2, <1>3, ViewUpNext DEF IInv, TypeInv
<1>5. /\ job.x = "d" => seenTop = [top EXCEPT ![last] = job.p] /\ seenSub = sub
      /\ job.x = "s" => seenTop = top /\ seenSub = [sub EXCEPT ![HomeOf(top, last)] = job.p]
  BY <1>1, <1>2, ViewSource DEF IInv
<1>6. top' = seenTop /\ sub' = seenSub
  BY <1>1, <1>2, <1>5 DEF Place, Home, HomeOf, XS
<1> QED
  BY <1>1, <1>4, <1>6 DEF DoneWhole, Safe, backups

\* The directory moves back.
LEMMA BackDone ==
    ASSUME IInv, IInv', DoneWhole, LinkSourceFails
    PROVE  DoneWhole'
<1>1. /\ job.step = "link_source" /\ job.step \in LinkSteps \ LinkedSteps
      /\ Go("undo_parents") /\ UNCHANGED <<backups, up>>
      /\ pool' = [pool EXCEPT ![job.p] = "gone"]
  BY DEF LinkSourceFails, LinkSteps, LinkedSteps
<1>2. /\ job.b \in Backups \ renamed /\ job.p \in Pools /\ job.x \in XS /\ up /\ Running(job.b)
      /\ last \in Backups \ renamed /\ Values(top, sub, pool) /\ TypeOK
  BY <1>1, PoolFacts
<1>3. job'.step = "undo_parents"
  BY <1>1, <1>2, GoIs
<1>4. seenTop' = top' /\ seenSub' = sub'
  BY <1>1, <1>2, <1>3, ViewUpNext DEF IInv, TypeInv
<1>5. /\ job.x = "d" => seenTop = [top EXCEPT ![last] = job.p] /\ seenSub = sub
      /\ job.x = "s" => seenTop = top /\ seenSub = [sub EXCEPT ![HomeOf(top, last)] = job.p]
  BY <1>1, <1>2, ViewSource DEF IInv
<1>6. Consistent(seenTop, seenSub, pool, links, renamed, CountedBackups)
      /\ Values(seenTop, seenSub, pool)
  BY <1>2, ViewType DEF IInv
<1>7. PoolRows(links, last, top[last], job.b, job.x, job.p) /\ Live(pool, job.p)
  BY <1>1 DEF IInv, RowsJob, PoolJob, Moved, Live
<1>8. \A p \in Pools : pool[p] = "full" /\ p # job.p => pool'[p] = "full"
  BY <1>1, <1>2 DEF Values
<1> SUFFICES ASSUME NEW c \in Backups, Safe(c)' PROVE HasAll(top', sub', pool', c)
  BY <1>4 DEF DoneWhole
<1>9. HasAll(seenTop, seenSub, pool, c) /\ c \in CountedBackups /\ c \notin renamed /\ ~Running(c)
  BY <1>1, SafeCounts DEF DoneWhole, Safe, backups
<1>10. CASE job.x = "d"
  <2>1. /\ top' = [top EXCEPT ![last] = "dir"]
        /\ sub' = [sub EXCEPT ![last] = sub[job.p], ![job.p] = "none"]
    BY <1>10 DEF LinkSourceFails
  <2>2. /\ top' = [seenTop EXCEPT ![last] = "dir"]
        /\ sub' = [seenSub EXCEPT ![last] = seenSub[job.p], ![job.p] = "none"]
    BY <1>2, <1>5, <1>10, <2>1 DEF Values
  <2>3. Has(links, job.p, last, "d") /\ \A b \in Backups : top[b] # job.p
    BY <1>1, <1>2, <1>7, <1>10 DEF IInv, PoolJob, PoolRows
  <2>4. \A h \in Backups \cup Pools : seenSub[h] # job.p
    BY <1>2, <1>6, <2>3 DEF Consistent, Kinds
  <2>5. CASE c = last
    <3>1. seenTop[c] = job.p /\ top'[c] = "dir"
      BY <1>2, <1>5, <1>6, <1>10, <2>2, <2>5 DEF Values
    <3>2. Sees(top', sub', c) = Sees(seenTop, seenSub, c) /\ Sees(seenTop, seenSub, c) # job.p
      BY <1>2, <1>6, <2>2, <2>4, <2>5, <3>1, Names DEF Sees, Values
    <3> QED
      BY <1>8, <1>9, <3>1, <3>2 DEF HasAll, WholeIn
  <2>6. CASE c # last
    <3>1. top'[c] = seenTop[c] /\ seenTop[c] # job.p
      BY <1>2, <1>5, <1>6, <1>10, <2>2, <2>3, <2>6 DEF Values
    <3>2. Sees(top', sub', c) = Sees(seenTop, seenSub, c) /\ Sees(seenTop, seenSub, c) # job.p
      BY <1>2, <1>6, <2>2, <2>4, <2>6, <3>1, Names DEF Sees, Values
    <3> QED
      BY <1>8, <1>9, <3>1, <3>2, StillAll
  <2> QED
    BY <2>5, <2>6
<1>11. CASE job.x = "s"
  <2> DEFINE h == HomeOf(top, last)
  <2>1. top' = top /\ sub' = [sub EXCEPT ![h] = "dir"]
    BY <1>11 DEF LinkSourceFails, Place, Home, HomeOf
  <2>2. h \in Backups \cup Pools /\ h = (IF top[last] \in Pools THEN top[last] ELSE last)
    BY <1>2 DEF HomeOf
  <2>3. seenTop = top /\ seenSub = [sub EXCEPT ![h] = job.p]
    BY <1>5, <1>11
  <2> HIDE DEF h
  <2>4. seenSub[h] = job.p /\ sub' = [seenSub EXCEPT ![h] = "dir"]
    BY <1>2, <2>1, <2>2, <2>3 DEF Values
  <2>5. \A b \in Backups : top[b] # job.p
    BY <1>2, <1>6, <2>2, <2>3, <2>4 DEF Consistent, Kinds
  <2>6. CASE HomeOf(top, c) = h
    <3>1. Sees(top', sub', c) = "dir"
      BY <1>2, <1>6, <2>1, <2>2, <2>4, <2>6 DEF Sees, Values, HomeOf
    <3> QED
      BY <1>8, <1>9, <2>1, <2>3, <2>5, <3>1 DEF HasAll, WholeIn
  <2>7. CASE HomeOf(top, c) # h
    <3>1. Sees(top', sub', c) = Sees(seenTop, seenSub, c)
      BY <1>6, <2>1, <2>2, <2>3, <2>4, <2>7 DEF Sees, Values, HomeOf
    <3>2. ASSUME Sees(seenTop, seenSub, c) = job.p PROVE FALSE
      <4>1. seenTop[c] # "none"
        BY <1>9, Names DEF HasAll, WholeIn
      <4>2. Has(links, job.p, c, "s")
        BY <1>2, <1>6, <1>7, <1>9, <3>2, <4>1, LinkHasRow
      <4>3. c \in {job.b, last} \/ (top[last] \in Pools /\ Has(links, top[last], c, "d"))
        BY <1>7, <1>11, <4>2 DEF PoolRows
      <4>4. c # job.b /\ c # last
        BY <1>2, <1>9, <2>2, <2>7 DEF HomeOf
      <4>5. seenTop[c] \in {top[last], "none"}
        BY <1>2, <1>6, <1>9, <2>3, <4>3, <4>4 DEF Consistent, Agree, Reached
      <4> QED
        BY <2>2, <2>3, <2>7, <4>1, <4>3, <4>4, <4>5 DEF HomeOf
    <3> QED
      BY <1>8, <1>9, <2>1, <2>3, <2>5, <3>1, <3>2, StillAll
  <2> QED
    BY <2>6, <2>7
<1> QED
  BY <1>2, <1>10, <1>11 DEF XS

\* The steps of link_directory_pool.
LEMMA LinkDone ==
    ASSUME IInv, IInv', DoneWhole, LinkStep
    PROVE  DoneWhole'
<1>1. TypeOK
  BY DEF IInv, TypeInv
<1>2. ASSUME NEW b \in Backups, NEW x \in {"d", "s"}, LinkLinked(b, x) \/ LinkPlain(b, x)
      PROVE  DoneWhole'
  <2>1. /\ up /\ job = NoJob /\ job'.step \in {"symlink", "commit"}
        /\ UNCHANGED <<backups, top, sub, pool, up>>
    BY <1>2 DEF LinkLinked, LinkPlain, Idle, files
  <2> QED
    BY <2>1, SameDone DEF NoJob
<1>3. ASSUME EndLink \/ CommitRows \/ RenameFails \/ ForgetJournal \/ Undo \/ UndoJournal \/ DropTarget
      PROVE  DoneWhole'
  <2>1. /\ job.step \in LinkSteps /\ job.step # "link_source"
        /\ UNCHANGED <<backups, top, sub, pool, up>>
    BY <1>3 DEF EndLink, CommitRows, RenameFails, ForgetJournal, Undo, AfterUndo, UndoJournal,
       DropTarget, LinkSteps, files
  <2>2. up
    BY <2>1, LinkFacts
  <2>3. Undo => Go(AfterUndo[job.step]) /\ AfterUndo[job.step] # "link_source"
    BY DEF Undo, AfterUndo
  <2>4. \A step : Go(step) => job'.step = step
    BY <1>1, GoIs
  <2>5. job'.step # "link_source"
    BY <1>3, <2>3, <2>4 DEF EndLink, CommitRows, RenameFails, ForgetJournal, UndoJournal,
       DropTarget,
       NoJob
  <2> QED
    BY <2>1, <2>2, <2>5, SameDone
<1> QED
  BY <1>2, <1>3, TargetDone, RenameDone, SourceDone, BackDone DEF LinkStep

\* A deletion takes nothing from another backup that counts.
LEMMA RemoveKeeps ==
    ASSUME IInv, FiniteTables, RemoveStep, NEW c \in Backups, c \in CountedBackups, c # job.b
    PROVE  /\ top'[c] = top[c] /\ sub'[c] = sub[c]
           /\ top[c] # "none" => Sees(top', sub', c) = Sees(top, sub, c)
           /\ \A p \in Pools :
                 pool[p] = "full" /\ (top[c] = p \/ (top[c] # "none" /\ Sees(top, sub, c) = p)) =>
                    pool'[p] = "full"
<1>1. job.step \in RemoveSteps
  BY DEF RemoveStep, ScanFolder, RemoveRow, EmptyPool, UnlinkNested, RemovePool, Unlink, EndRemove,
         RemoveSteps
<1>2. /\ job.b \in Backups /\ job.x \in XS /\ (job.step # "scan" => job.p \in Pools)
      /\ Values(top, sub, pool)
      /\ Consistent(top, sub, pool, links, renamed, CountedBackups)
  BY <1>1, DeleteFacts
<1>3. RemoveJob /\ RemoveTx
  BY DEF IInv
<1>4. ASSUME NEW p \in Pools, Live(pool, p), ~Has(links, p, c, "d"), ~Has(links, p, c, "s")
      PROVE  top[c] # p /\ (top[c] # "none" => Sees(top, sub, c) # p)
  BY <1>2, <1>4, LinkHasRow
<1>5. ASSUME job.step \in EmptySteps
      PROVE  top[c] # job.p /\ (top[c] # "none" => Sees(top, sub, c) # job.p)
  <2>1. job.p \in Pools /\ Live(pool, job.p)
    BY <1>2, <1>3, <1>5 DEF RemoveJob, EmptySteps, RemoveSteps
  <2>2. ~Has(links, job.p, c, "d") /\ ~Has(links, job.p, c, "s")
    BY <1>3, <1>5, <2>1 DEF RemoveTx, EmptySteps, RemoveSteps
  <2> QED
    BY <1>4, <2>1, <2>2
<1>6. CASE ScanFolder
  <2>1. /\ pool' = pool
        /\ \/ UNCHANGED <<top, sub>>
           \/ /\ sub' = [sub EXCEPT ![job.b] = "none"]
              /\ top' = IF sub[job.b] = "none" THEN [top EXCEPT ![job.b] = "none"] ELSE top
    BY <1>6 DEF ScanFolder, RemoveLink, files
  <2>2. top'[c] = top[c] /\ sub'[c] = sub[c] /\ \A p \in Pools : sub'[p] = sub[p]
    BY <1>2, <2>1, Names DEF Values
  <2> QED
    BY <2>1, <2>2 DEF Sees
<1>7. CASE RemoveRow \/ EndRemove
  BY <1>7 DEF RemoveRow, EndRemove, files, Sees
<1>8. CASE EmptyPool
  <2>1. job.step = "empty" /\ job.step \in EmptySteps /\ UNCHANGED <<top, sub>>
    BY <1>8 DEF EmptyPool, EmptySteps
  <2>2. \A r \in Pools : pool'[r] # pool[r] => r = job.p \/ ~Live(pool', r)
    <3>1. job.p \in Pools
      BY <1>2, <2>1
    <3>2. CASE pool' = [pool EXCEPT ![job.p] = "partial"]
      BY <1>2, <3>1, <3>2 DEF Values
    <3>3. \/ pool' = [pool EXCEPT ![job.p] = "partial"]
          \/ /\ sub[job.p] \in Pools
             /\ \/ pool' = [pool EXCEPT ![job.p] = "partial", ![sub[job.p]] = "gone"]
                \/ pool' = [pool EXCEPT ![job.p] = "partial", ![sub[job.p]] = @]
      BY <1>8 DEF EmptyPool
    <3>4. CASE sub[job.p] \in Pools
          /\ pool' = [pool EXCEPT ![job.p] = "partial", ![sub[job.p]] = "gone"]
      BY <1>2, <3>1, <3>4 DEF Values, Live
    <3>5. CASE sub[job.p] \in Pools /\ pool' = [pool EXCEPT ![job.p] = "partial", ![sub[job.p]] = @]
      BY <1>2, <3>1, <3>5 DEF Values, Live
    <3> QED
      BY <3>2, <3>3, <3>4, <3>5
  <2>3. ASSUME NEW r \in Pools, Live(pool, r), ~Live(pool', r)
        PROVE  top[c] # r /\ (top[c] # "none" => Sees(top, sub, c) # r)
    <3>1. /\ ~Has(tx', r, c, "d") /\ ~Has(tx', r, c, "s")
          /\ \A y \in XS : Has(tx, r, c, y) => Has(tx', r, c, y)
      BY <1>8, <2>3, PoolEmptied
    <3>2. ~Has(links, r, c, "d") /\ ~Has(links, r, c, "s")
      BY <1>1, <1>3, <2>1, <3>1 DEF RemoveTx, XS
    <3> QED
      BY <1>4, <2>3, <3>2
  <2>4. top[c] # job.p /\ (top[c] # "none" => Sees(top, sub, c) # job.p)
    BY <1>5, <2>1
  <2> QED
    BY <2>1, <2>2, <2>3, <2>4 DEF Sees, Live
<1>9. CASE UnlinkNested
  <2>1. /\ job.step = "nested" /\ job.step \in EmptySteps /\ sub' = [sub EXCEPT ![job.p] = "none"]
        /\ UNCHANGED <<top, pool>> /\ job.p \in Pools
    BY <1>2, <1>9 DEF UnlinkNested, EmptySteps
  <2>2. top[c] # job.p
    BY <1>5, <2>1
  <2>3. sub'[c] = sub[c] /\ (top[c] \in Pools => sub'[top[c]] = sub[top[c]])
    BY <1>2, <2>1, <2>2, Names DEF Values
  <2> QED
    BY <2>1, <2>3 DEF Sees
<1>10. CASE RemovePool
  <2>1. /\ job.step \in EmptySteps /\ pool' = [pool EXCEPT ![job.p] = "gone"]
        /\ UNCHANGED <<top, sub>> /\ job.p \in Pools
    BY <1>2, <1>10 DEF RemovePool, EmptySteps
  <2>2. \A p \in Pools : p # job.p => pool'[p] = pool[p]
    BY <1>2, <2>1 DEF Values
  <2> QED
    BY <1>5, <2>1, <2>2 DEF Sees
<1>11. CASE Unlink
  <2>1. Place(job.b, job.x, "none") /\ pool' = pool /\ job.step = "unlink"
    BY <1>11 DEF Unlink
  <2>2. AtLink /\ job.p \in Pools
    BY <1>1, <1>2, <1>3, <2>1 DEF RemoveJob
  <2>3. \/ top' = [top EXCEPT ![job.b] = "none"] /\ sub' = sub
        \/ top' = top /\ sub' = [sub EXCEPT ![job.b] = "none"]
    BY <1>2, <2>1, <2>2, Names DEF Place, Home, AtLink, XS
  <2>4. top'[c] = top[c] /\ sub'[c] = sub[c] /\ \A p \in Pools : sub'[p] = sub[p]
    BY <1>2, <2>3, Names DEF Values
  <2> QED
    BY <2>1, <2>4 DEF Sees
<1> QED
  BY <1>6, <1>7, <1>8, <1>9, <1>10, <1>11 DEF RemoveStep

\* In a deletion places are what they seem, before and after a step.
LEMMA RemoveView ==
    ASSUME IInv, IInv', RemoveStep
    PROVE  /\ job.step \in RemoveSteps /\ up /\ up'
           /\ seenTop = top /\ seenSub = sub /\ seenTop' = top' /\ seenSub' = sub'
<1>1. job.step \in RemoveSteps
  BY DEF RemoveStep, ScanFolder, RemoveRow, EmptyPool, UnlinkNested, RemovePool, Unlink, EndRemove,
         RemoveSteps
<1>2. up /\ TypeOK /\ seenTop = top /\ seenSub = sub
  BY <1>1, DeleteFacts
<1>3. up' = up
  BY DEF RemoveStep, ScanFolder, RemoveLink, RemoveRow, EmptyPool, UnlinkNested, RemovePool, Unlink,
         EndRemove
<1>4. job'.step # "link_source"
  <2>1. \A x : RemoveLink(job.b, x) => job'.step = "row"
    BY <1>2 DEF RemoveLink, TypeOK
  <2>2. ScanFolder => job'.step # "link_source"
    BY <1>1, <2>1 DEF ScanFolder, NoJob
  <2>3. \A step : Go(step) => job'.step = step
    BY <1>2, GoIs
  <2> QED
    BY <2>2, <2>3 DEF RemoveStep, RemoveRow, EmptyPool, UnlinkNested, RemovePool, Unlink, EndRemove
<1> QED
  BY <1>1, <1>2, <1>3, <1>4, ViewUpNext DEF IInv, TypeInv

\* What the database says of a backup in a deletion.
LEMMA RemoveStatus ==
    ASSUME IInv, RemoveStep, NEW c \in Backups
    PROVE  /\ UNCHANGED <<doomed, renamed, last>>
           /\ status'[c] = status[c] \/ (c = job.b /\ status'[c] = "gone")
<1>1. status \in [Backups -> {"unused", "running", "done", "failed", "gone"}]
  BY DEF IInv, TypeInv, TypeOK
<1> QED
  BY <1>1 DEF RemoveStep, ScanFolder, RemoveLink, RemoveRow, EmptyPool, UnlinkNested, RemovePool,
     Unlink, EndRemove, backups

\* A deletion.
LEMMA RemoveDone ==
    ASSUME IInv, IInv', FiniteTables, DoneWhole, RemoveStep
    PROVE  DoneWhole'
<1>1. /\ job.step \in RemoveSteps
      /\ seenTop = top /\ seenSub = sub /\ seenTop' = top' /\ seenSub' = sub'
  BY RemoveView
<1> SUFFICES ASSUME NEW c \in Backups, Safe(c)' PROVE HasAll(top', sub', pool', c)
  BY <1>1 DEF DoneWhole
<1>2. Safe(c) /\ c # job.b
  BY <1>1, RemoveStatus, RemoveFacts DEF Safe
<1>3. HasAll(top, sub, pool, c) /\ top[c] # "none"
  BY <1>1, <1>2, Names DEF DoneWhole, HasAll, WholeIn
<1>4. /\ top'[c] = top[c] /\ Sees(top', sub', c) = Sees(top, sub, c)
      /\ \A p \in Pools : pool[p] = "full" /\ (top[c] = p \/ Sees(top, sub, c) = p) => pool'[p] = "full"
  BY <1>2, <1>3, SafeCounts, RemoveKeeps DEF Safe
<1> QED
  BY <1>3, <1>4, StillAll

\* A crash and what follows it.
LEMMA DownDone ==
    ASSUME IInv, IInv', FiniteTables', DoneWhole, Crash \/ RecoveryStep
    PROVE  DoneWhole'
<1>1. status \in [Backups -> {"unused", "running", "done", "failed", "gone"}]
      /\ Consistent(seenTop, seenSub, pool, links, renamed, CountedBackups)
      /\ Values(seenTop, seenSub, pool)
  BY ViewType DEF IInv, TypeInv, TypeOK
<1>2. CASE Crash
  <2>1. UNCHANGED <<journal, top, sub, pool, renamed, links, status, doomed>>
    BY <1>2 DEF Crash, files, backups
  <2>2. seenTop' = seenTop /\ seenSub' = seenSub
    BY <2>1, ViewKept
  <2> QED
    BY <2>1, <2>2 DEF DoneWhole, Safe
<1>3. CASE Restart \/ ReplayFirst
  <2>1. Replay /\ UNCHANGED pool
    BY <1>3 DEF Restart, ReplayFirst
  <2>2. seenTop' = seenTop /\ seenSub' = seenSub
    BY <2>1, ReplayView, ViewDone DEF IInv, TypeInv
  <2>3. \A c \in Backups : status'[c] = "done" => status[c] = "done"
    BY <1>1, <1>3 DEF Restart, ReplayFirst, backups
  <2>4. doomed \subseteq doomed'
    BY <1>3 DEF Restart, ReplayFirst, backups
  <2> QED
    BY <2>1, <2>2, <2>3, <2>4 DEF DoneWhole, Safe
<1>4. CASE RemoveUnknown
  <2>1. PICK deep \in BOOLEAN : KeptRows(top, sub, pool, links, renamed, links', deep)
    BY <1>4, UnknownKept
  <2>2. /\ seenTop = top /\ seenSub = sub
        /\ pool' = [p \in Pools |-> IF p \in Unreferenced(pool, links') THEN "gone" ELSE pool[p]]
        /\ sub' = [c \in Backups \cup Pools |->
                     IF c \in renamed \/ c \in Unreferenced(pool, links') THEN "none" ELSE sub[c]]
        /\ top' = [b \in Backups |-> IF b \in renamed THEN "none" ELSE top[b]]
    BY <1>4, UnknownKept
  <2>3. seenTop' = top' /\ seenSub' = sub'
    BY <1>4, ViewDone DEF RemoveUnknown, IInv, TypeInv
  <2> SUFFICES ASSUME NEW c \in Backups, Safe(c)' PROVE HasAll(top', sub', pool', c)
    BY <2>3 DEF DoneWhole
  <2>4. Safe(c)
    BY <1>1, <1>4 DEF RemoveUnknown, Safe
  <2>5. HasAll(top, sub, pool, c) /\ c \in CountedBackups /\ c \notin renamed /\ top[c] # "none"
    BY <2>2, <2>4, SafeCounts, Names DEF DoneWhole, HasAll, WholeIn, Safe
  <2>6. ASSUME NEW p \in Pools, pool[p] = "full", top[c] = p \/ Sees(top, sub, c) = p
        PROVE  p \notin Unreferenced(pool, links')
    <3>1. Live(pool, p)
      BY <2>6 DEF Live
    <3>2. top[c] = p => Has(links', p, c, "d")
      BY <1>1, <2>1, <2>2, <2>5, <3>1, LinkHasRow DEF KeptRows
    <3>3. Sees(top, sub, c) = p => Has(links', p, c, "s")
      BY <1>1, <2>1, <2>2, <2>5, <3>1, LinkHasRow DEF KeptRows
    <3> QED
      BY <2>6, <3>2, <3>3 DEF Unreferenced
  <2>7. \A p \in Pools : pool[p] = "full" /\ (top[c] = p \/ Sees(top, sub, c) = p) => pool'[p] = "full"
    BY <2>2, <2>6
  <2>8. top'[c] = top[c]
    BY <2>2, <2>5
  <2>9. Sees(top', sub', c) = Sees(top, sub, c)
    <3>1. CASE top[c] = "dir"
      <4>1. c \notin Unreferenced(pool, links')
        BY Names DEF Unreferenced
      <4> QED
        BY <2>2, <2>5, <2>8, <3>1, <4>1, Names DEF Sees
    <3>2. CASE top[c] \in Pools
      <4>1. pool[top[c]] = "full"
        BY <2>5, <3>2, Names DEF HasAll, WholeIn
      <4>2. top[c] \notin Unreferenced(pool, links') /\ top[c] \notin renamed
        BY <2>6, <3>2, <4>1, Names DEF IInv, TypeInv, TypeOK
      <4> QED
        BY <2>2, <2>8, <3>2, <4>2 DEF Sees
    <3> QED
      BY <2>5, <3>1, <3>2 DEF HasAll, WholeIn
  <2> QED
    BY <2>5, <2>7, <2>8, <2>9, StillAll
<1> QED
  BY <1>2, <1>3, <1>4 DEF RecoveryStep

\* No step takes anything from a backup that is done.
LEMMA DoneStep ==
    ASSUME IInv, IInv', DoneWhole, RunningWhole, Step
    PROVE  DoneWhole'
<1>1. FiniteTables /\ FiniteTables'
  BY DEF IInv, FiniteTables
<1> QED
  BY <1>1, Steps, BackupDone, LinkDone, RemoveDone, DownDone

(***************************************************************************)
(* A running backup keeps what it has by now.                              *)
(***************************************************************************)
\* In an operation of link_directory_pool there is nothing yet that could be lost.
LEMMA VacantParts ==
    ASSUME IInv, job.step \in LinkSteps \ {"end_link"}, NEW t, NEW s, NEW pl,
           t[job.b] = top[job.b], s[job.b] = sub[job.b]
    PROVE  HasParts(t, s, pl, job.b)
<1>1. /\ job.b \in Backups /\ job.x \in XS /\ up /\ Vacant(job.b, job.x) /\ Values(top, sub, pool)
      /\ last \in Backups /\ job.b # last
  BY LinkFacts
<1>2. CASE job.x = "s"
  BY <1>1, <1>2, Names DEF Vacant, HasParts
<1>3. CASE job.x = "d"
  <2>1. top[job.b] = "none" /\ Shape(seenTop, seenSub, pool)
    BY <1>1, <1>3 DEF Vacant, IInv, Consistent
  <2>2. CASE job.step # "link_source"
    <3>1. seenTop = top /\ seenSub = sub
      BY <1>1, <2>2, ViewUp DEF IInv, TypeInv
    <3> QED
      BY <1>1, <2>1, <3>1, Names DEF Shape, HasParts
  <2>3. CASE job.step = "link_source"
    <3>1. seenTop = [top EXCEPT ![last] = job.p] /\ seenSub = sub
      BY <1>3, <2>3, ViewSource DEF IInv, TypeInv
    <3>2. seenTop[job.b] = "none"
      BY <1>1, <2>1, <3>1 DEF Values
    <3> QED
      BY <1>1, <2>1, <3>1, <3>2, Names DEF Shape, HasParts
  <2> QED
    BY <2>2, <2>3
<1> QED
  BY <1>1, <1>2, <1>3 DEF XS

\* The steps of a backup.
LEMMA BackupRunning ==
    ASSUME IInv, RunningWhole, BackupStep
    PROVE  RunningWhole'
<1>1. PICK b \in Backups :
         \/ StartBackup(b) \/ FinishBackup(b) \/ FailBackup(b) \/ DeleteBackup(b)
         \/ \E x \in {"d", "s"} : Copy(b, x)
  BY DEF BackupStep
<1>2. job.step \notin LinkSteps /\ up
  BY <1>1, NotLinking DEF StartBackup, FinishBackup, FailBackup, DeleteBackup, Copy
<1>3. /\ seenTop = top /\ seenSub = sub /\ Values(top, sub, pool) /\ pool' = pool
      /\ status \in [Backups -> {"unused", "running", "done", "failed", "gone"}]
  BY <1>1, <1>2, ViewUp, ViewType DEF IInv, TypeInv, TypeOK, LinkSteps, StartBackup, FinishBackup,
     FailBackup, DeleteBackup, Copy, files
<1> SUFFICES ASSUME NEW c \in Backups, Running(c)' PROVE HasParts(top', sub', pool, c)
  BY <1>3 DEF RunningWhole
<1>4. CASE StartBackup(b) /\ c = b
  <2>1. top[c] = "none" /\ UNCHANGED <<top, sub>>
    BY <1>4 DEF StartBackup, files, IInv, Ages
  <2>2. sub[c] = "none"
    BY <1>3, <2>1 DEF IInv, Consistent, Shape
  <2> QED
    BY <2>1, <2>2, Names DEF HasParts
<1>5. CASE ~(StartBackup(b) /\ c = b)
  <2>1. Running(c)
    BY <1>1, <1>3, <1>5 DEF Running, StartBackup, FinishBackup, FailBackup, DeleteBackup, Copy,
       backups
  <2>2. HasParts(top, sub, pool, c)
    BY <1>2, <2>1 DEF RunningWhole
  <2>3. ASSUME NEW x \in {"d", "s"}, Copy(b, x) PROVE HasParts(top', sub', pool, c)
    <3>1. Open(b, x) /\ Place(b, x, "dir") /\ x \in XS /\ "dir" \in Places /\ Running(b)
      BY <2>3 DEF Copy, XS, Places, Open
    <3>2. c = b
      BY <2>1, <3>1, OneRuns DEF IInv
    <3>3. Put(top, sub, top', sub', b, x, "dir")
      BY <1>3, <3>1, PutAway DEF Open, Free
    <3>4. CASE x = "d"
      BY <1>3, <2>2, <3>2, <3>3, <3>4, Names DEF Put, HasParts, Values
    <3>5. CASE x = "s"
      BY <1>3, <2>2, <3>1, <3>2, <3>3, <3>5, Names DEF Put, HasParts, Values, Open
    <3> QED
      BY <3>1, <3>4, <3>5 DEF XS
  <2>4. CASE UNCHANGED <<top, sub>>
    BY <2>2, <2>4
  <2> QED
    BY <1>1, <2>3, <2>4 DEF StartBackup, FinishBackup, FailBackup, DeleteBackup, files
<1> QED
  BY <1>4, <1>5

\* The steps of link_directory_pool: what the running backup is linked to is whole.
LEMMA LinkRunning ==
    ASSUME IInv, Careful, Kept, LinkStep
    PROVE  RunningWhole'
<1>1. UNCHANGED <<backups, up>> /\ TypeOK
  BY DEF IInv, TypeInv, LinkStep, LinkLinked, LinkPlain, LinkTargetInTx, EndLink, CommitRows,
     Rename,
     RenameFails, LinkSource, LinkSourceFails, ForgetJournal, LinkTarget, Undo, UndoJournal,
     DropTarget
<1> SUFFICES ASSUME up, NEW c \in Backups, Running(c) PROVE HasParts(top', sub', pool', c)
  BY <1>1 DEF RunningWhole, Running, backups
<1>2. HasParts(top, sub, pool, c)
  BY DEF Kept, RunningWhole
<1>3. CASE UNCHANGED <<top, sub, pool>>
  BY <1>2, <1>3
<1>4. ASSUME job.step \in LinkSteps PROVE c = job.b /\ job.b \in Backups
  BY <1>4, LinkFacts, OneRuns DEF IInv
<1>5. CASE Rename \/ LinkSource \/ LinkSourceFails
  <2>1. job.step \in LinkSteps \ {"end_link"}
    BY <1>5 DEF Rename, LinkSource, LinkSourceFails, LinkSteps
  <2>2. top'[job.b] = top[job.b] /\ sub'[job.b] = sub[job.b]
    BY <1>5, PoolMoves
  <2> QED
    BY <1>4, <2>1, <2>2, VacantParts
<1>6. CASE LinkTarget \/ LinkTargetInTx
  <2>1. /\ job.step \in {"link_target", "symlink"} /\ pool' = pool
        /\ UNCHANGED <<top, sub>> \/ Place(job.b, job.x, job.p)
    BY <1>6 DEF LinkTarget, LinkTargetInTx
  <2>2. job.step \in LinkSteps /\ job.step \notin {"end_link", "link_source"}
    BY <2>1 DEF LinkSteps
  <2>3. /\ job.b \in Backups /\ job.p \in Pools /\ job.x \in XS /\ Vacant(job.b, job.x)
        /\ Values(top, sub, pool) /\ last \in Backups /\ job.b # last
    BY <2>2, LinkFacts
  <2>4. seenTop = top /\ seenSub = sub
    BY <2>2, ViewUp DEF IInv, TypeInv
  <2>5. IF job.x = "d" THEN top[last] = job.p ELSE Sees(top, sub, last) = job.p
    <3>1. CASE job.step = "link_target"
      BY <2>2, <3>1 DEF IInv, PoolJob, AtPool, LinkedSteps
    <3>2. CASE job.step = "symlink"
      BY <3>2 DEF IInv, LinkedJob, LinkedSteps
    <3> QED
      BY <2>1, <3>1, <3>2
  <2>6. HasAll(top, sub, pool, last)
    BY <2>2, <2>4, LinkLast
  <2>7. CASE Place(job.b, job.x, job.p)
    <3>1. Put(top, sub, top', sub', job.b, job.x, job.p)
      BY <2>3, <2>7, PutAway DEF Free, Vacant, Places
    <3>2. Shape(top, sub, pool)
      BY <2>4 DEF IInv, Consistent
    <3>3. CASE job.x = "d"
      <4>1. top'[job.b] = job.p /\ sub' = sub /\ sub[job.b] = "none"
        BY <2>3, <3>1, <3>2, <3>3 DEF Put, Vacant, Values, Shape
      <4>2. WholeIn(pool, job.p) /\ WholeIn(pool, sub[job.p])
        BY <2>3, <2>5, <2>6, <3>3 DEF HasAll, Sees
      <4> QED
        BY <1>4, <2>1, <2>2, <4>1, <4>2, Names DEF HasParts
    <3>4. CASE job.x = "s"
      <4>1. sub'[job.b] = job.p /\ top'[job.b] = "dir"
        BY <2>3, <3>1, <3>4 DEF Put, Vacant, Values
      <4>2. WholeIn(pool, job.p)
        BY <2>3, <2>5, <2>6, <3>4 DEF HasAll
      <4> QED
        BY <1>4, <2>1, <2>2, <4>1, <4>2, Names DEF HasParts
    <3> QED
      BY <2>3, <3>3, <3>4 DEF XS
  <2> QED
    BY <1>3, <2>1, <2>7
<1>7. CASE \/ \E b \in Backups, x \in {"d", "s"} : LinkLinked(b, x) \/ LinkPlain(b, x)
           \/ EndLink \/ CommitRows \/ RenameFails \/ ForgetJournal \/ Undo \/ UndoJournal \/ DropTarget
  BY <1>3, <1>7 DEF LinkLinked, LinkPlain, EndLink, CommitRows, RenameFails, ForgetJournal, Undo,
     UndoJournal, DropTarget, files
<1> QED
  BY <1>5, <1>6, <1>7 DEF LinkStep

\* A deletion.
LEMMA RemoveRunning ==
    ASSUME IInv, IInv', FiniteTables, RunningWhole, RemoveStep
    PROVE  RunningWhole'
<1>1. job.step \in RemoveSteps /\ up /\ seenTop = top /\ seenSub = sub
  BY RemoveView
<1> SUFFICES ASSUME NEW c \in Backups, Running(c)' PROVE HasParts(top', sub', pool', c)
  BY DEF RunningWhole
<1>2. Running(c) /\ c # job.b
  BY <1>1, RemoveStatus, RemoveFacts DEF Running
<1>3. HasParts(top, sub, pool, c)
  BY <1>1, <1>2 DEF RunningWhole
<1>4. c \in CountedBackups
  BY <1>1, <1>2 DEF CountedBackups, IInv, Ages, Running, RemoveSteps
<1>5. Values(top, sub, pool) /\ Shape(top, sub, pool)
  BY <1>1, DeleteFacts DEF Consistent
<1>6. /\ top'[c] = top[c] /\ sub'[c] = sub[c]
      /\ top[c] # "none" => Sees(top', sub', c) = Sees(top, sub, c)
      /\ \A p \in Pools :
            pool[p] = "full" /\ (top[c] = p \/ (top[c] # "none" /\ Sees(top, sub, c) = p)) =>
               pool'[p] = "full"
  BY <1>2, <1>4, RemoveKeeps
<1>7. top[c] \in Pools => sub'[top[c]] = sub[top[c]]
  BY <1>6, Names DEF Sees
<1>8. \A p \in Pools : pool[p] = "full" /\ (top[c] = p \/ sub[c] = p \/ (top[c] \in Pools /\ sub[top[c]] = p)) =>
         pool'[p] = "full"
  BY <1>5, <1>6, Names DEF Sees, Shape
<1> QED
  BY <1>3, <1>6, <1>7, <1>8, StillParts

\* No step takes anything from the running backup.
LEMMA RunningStep ==
    ASSUME IInv, IInv', Careful, Kept, Step
    PROVE  RunningWhole'
<1>1. FiniteTables /\ RunningWhole
  BY DEF IInv, FiniteTables, Kept
<1>2. CASE Crash
  BY <1>2 DEF Crash, RunningWhole
<1>3. CASE RecoveryStep
  <2>1. CASE Restart
    BY <2>1 DEF Restart, RunningWhole, Running
  <2>2. CASE ReplayFirst \/ RemoveUnknown
    BY <2>2 DEF ReplayFirst, RemoveUnknown, RunningWhole
  <2> QED
    BY <1>3, <2>1, <2>2 DEF RecoveryStep
<1> QED
  BY <1>1, <1>2, <1>3, Steps, BackupRunning, LinkRunning, RemoveRunning

(***************************************************************************)
(* Which backups are deleted.                                              *)
(***************************************************************************)
\* The newest backup stays the newest as long as none comes or goes.
LEMMA NewestSame ==
    ASSUME \A c \in Backups : status'[c] = "done" <=> status[c] = "done"
    PROVE  Newest' = Newest
<1> DEFINE Best(done) == IF done = {} THEN 0 ELSE CHOOSE b \in done : \A c \in done : c <= b
           now == {b \in Backups : status[b] = "done"}
           next == {b \in Backups : status'[b] = "done"}
<1>1. Newest = Best(now) /\ Newest' = Best(next)
  BY DEF Newest
<1>2. now = next
  OBVIOUS
<1> HIDE DEF Best, now, next
<1> QED
  BY <1>1, <1>2

\* The newest backup is the one all others are older than.
LEMMA NewestNext ==
    ASSUME NEW n \in Backups, status'[n] = "done",
           \A c \in Backups : status'[c] = "done" => c <= n
    PROVE  Newest' = n
<1> DEFINE done == {c \in Backups : status'[c] = "done"}
<1>1. n \in done /\ \A c \in done : c <= n
  OBVIOUS
<1>2. Newest' = CHOOSE m \in done : \A c \in done : c <= m
  BY <1>1 DEF Newest
<1> HIDE DEF done
<1>3. PICK m \in done : Newest' = m /\ \A c \in done : c <= m
  BY <1>1, <1>2
<1>4. m \in Nat /\ n \in Nat
  BY <1>1, <1>3, BackupsAssumption DEF done
<1> QED
  BY <1>1, <1>3, <1>4

\* What is said of a backup, what is doomed and what is linked to stay.
LEMMA SameDoomed ==
    ASSUME OlderDoomed, UNCHANGED <<status, doomed, last, setting>>
    PROVE  OlderDoomed'
<1>1. Newest' = Newest
  BY NewestSame
<1> QED
  BY <1>1 DEF OlderDoomed, Running

\* The steps of a backup.
LEMMA BackupOlder ==
    ASSUME IInv, OlderDoomed, UNCHANGED setting, BackupStep
    PROVE  OlderDoomed'
<1>1. PICK b \in Backups :
         \/ StartBackup(b) \/ FinishBackup(b) \/ FailBackup(b) \/ DeleteBackup(b)
         \/ \E x \in {"d", "s"} : Copy(b, x)
  BY DEF BackupStep
<1>2. /\ status \in [Backups -> {"unused", "running", "done", "failed", "gone"}]
      /\ doomed \subseteq Backups /\ Ages
  BY DEF IInv, TypeInv, TypeOK
<1>3. /\ \A c \in Backups : status[c] = "done" => c <= Newest
      /\ Newest \in Backups \cup {0}
  BY NewestIs DEF IInv, TypeInv
<1> SUFFICES ASSUME ~setting.manual
             PROVE /\ \A c \in doomed' : status'[c] = "done" => c < Newest'
                   /\ last' # 0 /\ (\E c \in Backups : Running(c)') => last' = Newest'
  BY DEF OlderDoomed
<1>4. /\ \A c \in doomed : status[c] = "done" => c < Newest
      /\ last # 0 /\ (\E c \in Backups : Running(c)) => last = Newest
  BY DEF OlderDoomed
<1>5. CASE StartBackup(b)
  <2>1. /\ status' = [status EXCEPT ![b] = "running"] /\ status[b] = "unused"
        /\ last' \in {Newest, 0} /\ doomed' = doomed
    BY <1>5 DEF StartBackup
  <2>2. \A c \in Backups : status'[c] = "done" <=> status[c] = "done"
    BY <1>2, <2>1
  <2>3. Newest' = Newest
    BY <2>2, NewestSame
  <2> QED
    BY <1>2, <1>4, <2>1, <2>2, <2>3
<1>6. CASE FinishBackup(b)
  <2>1. /\ status' = [status EXCEPT ![b] = "done"] /\ Running(b) /\ doomed' = doomed
    BY <1>6 DEF FinishBackup
  <2>2. ASSUME NEW c \in Backups, status[c] = "done" PROVE c < b
    <3>1. ~(b < c) /\ b # c
      BY <1>2, <2>1, <2>2 DEF Ages, Running
    <3>2. b \in Nat /\ c \in Nat
      BY BackupsAssumption
    <3> QED
      BY <3>1, <3>2
  <2>3. \A c \in Backups : status'[c] = "done" => c = b \/ status[c] = "done"
    BY <1>2, <2>1
  <2>4. Newest' = b
    <3>1. status'[b] = "done" /\ b <= b
      BY <1>2, <2>1, BackupsAssumption
    <3>2. \A c \in Backups : status'[c] = "done" => c <= b
      <4>1. \A c \in Backups : c \in Nat
        BY BackupsAssumption
      <4> QED
        BY <2>2, <2>3, <3>1, <4>1
    <3> QED
      BY <3>1, <3>2, NewestNext
  <2>5. b \notin doomed
    BY <2>1, RunningNotDoomed
  <2>6. \A c \in Backups : ~Running(c)'
    BY <1>2, <2>1, OneRuns DEF Running
  <2> QED
    BY <1>2, <2>1, <2>2, <2>3, <2>4, <2>5, <2>6
<1>7. CASE FailBackup(b)
  <2>1. /\ status' = [status EXCEPT ![b] = "failed"] /\ Running(b) /\ UNCHANGED <<doomed, last>>
    BY <1>7 DEF FailBackup
  <2>2. \A c \in Backups : status'[c] = "done" <=> status[c] = "done"
    BY <1>2, <2>1 DEF Running
  <2>3. Newest' = Newest
    BY <2>2, NewestSame
  <2>4. \A c \in Backups : Running(c)' => Running(c)
    BY <1>2, <2>1 DEF Running
  <2> QED
    BY <1>2, <1>4, <2>1, <2>2, <2>3, <2>4
<1>8. CASE DeleteBackup(b)
  <2>1. /\ UNCHANGED <<status, last>> /\ doomed' = doomed \cup {b}
        /\ status[b] = "done" => b # Newest
    BY <1>8 DEF DeleteBackup
  <2>2. Newest' = Newest
    BY <2>1, NewestSame
  <2>3. status[b] = "done" => b < Newest
    <3>1. b \in Nat /\ Newest \in Nat
      BY <1>3, BackupsAssumption
    <3> QED
      BY <1>3, <2>1, <3>1
  <2> QED
    BY <1>4, <2>1, <2>2, <2>3 DEF Running
<1>9. ASSUME NEW x \in {"d", "s"}, Copy(b, x) PROVE OlderDoomed'
  BY <1>9, SameDoomed DEF Copy, backups
<1> QED
  BY <1>1, <1>5, <1>6, <1>7, <1>8, <1>9 DEF OlderDoomed

\* A deletion.
LEMMA RemoveOlder ==
    ASSUME IInv, OlderDoomed, UNCHANGED setting, RemoveStep
    PROVE  OlderDoomed'
<1>1. job.step \in RemoveSteps
  BY DEF RemoveStep, ScanFolder, RemoveRow, EmptyPool, UnlinkNested, RemovePool, Unlink, EndRemove,
         RemoveSteps
<1>2. job.b \in doomed /\ status[job.b] \in {"done", "failed"} /\ doomed \subseteq Backups
      /\ status \in [Backups -> {"unused", "running", "done", "failed", "gone"}]
  BY <1>1, RemoveFacts DEF IInv, TypeInv, TypeOK
<1>3. CASE UNCHANGED <<status, doomed, last>>
  BY <1>3, SameDoomed
<1>4. CASE status' = [status EXCEPT ![job.b] = "gone"] /\ UNCHANGED <<doomed, last>>
  <2> SUFFICES ASSUME ~setting.manual PROVE Newest' = Newest
    BY <1>2, <1>4 DEF OlderDoomed, Running
  <2>1. CASE status[job.b] # "done"
    <3>1. \A c \in Backups : status'[c] = "done" <=> status[c] = "done"
      BY <1>2, <1>4, <2>1
    <3> QED
      BY <3>1, NewestSame
  <2>2. CASE status[job.b] = "done"
    <3>1. job.b < Newest
      BY <1>2, <2>2 DEF OlderDoomed
    <3>2. Newest \in Backups /\ status[Newest] = "done" /\ Newest # job.b
          /\ \A c \in Backups : status[c] = "done" => c <= Newest
      <4>1. Newest \in Backups \cup {0} /\ job.b \in Nat \ {0}
        BY <1>2, NewestIs, BackupsAssumption DEF IInv, TypeInv
      <4>2. Newest \in Nat /\ Newest # 0
        BY <3>1, <4>1, BackupsAssumption
      <4> QED
        BY <3>1, <4>1, <4>2, NewestIs DEF IInv, TypeInv
    <3>3. status'[Newest] = "done" /\ \A c \in Backups : status'[c] = "done" => c <= Newest
      BY <1>2, <1>4, <3>2
    <3> QED
      BY <3>2, <3>3, NewestNext
  <2> QED
    BY <2>1, <2>2
<1> QED
  BY <1>3, <1>4 DEF RemoveStep, ScanFolder, RemoveLink, RemoveRow, EmptyPool, UnlinkNested,
     RemovePool,
     Unlink, EndRemove, backups

\* A crash and what follows it.
LEMMA DownOlder ==
    ASSUME IInv, OlderDoomed, UNCHANGED setting, Crash \/ RecoveryStep
    PROVE  OlderDoomed'
<1>1. /\ status \in [Backups -> {"unused", "running", "done", "failed", "gone"}]
      /\ doomed \subseteq Backups /\ renamed \subseteq Backups
      /\ \A b \in renamed : status[b] \in {"failed", "gone"}
  BY DEF IInv, TypeInv, TypeOK, Ages
<1>2. CASE Crash \/ ReplayFirst
  BY <1>2, SameDoomed DEF Crash, ReplayFirst, backups
<1>3. CASE Restart
  <2>1. /\ status' = [b \in Backups |-> IF Running(b) THEN "failed" ELSE status[b]]
        /\ doomed' = doomed \cup renamed \cup {b \in Backups : status[b] \in {"running", "failed"}}
    BY <1>3 DEF Restart
  <2>2. \A c \in Backups : status'[c] = "done" <=> status[c] = "done"
    BY <2>1 DEF Running
  <2>3. Newest' = Newest
    BY <2>2, NewestSame
  <2>4. \A c \in Backups : ~Running(c)'
    BY <2>1 DEF Running
  <2>5. \A c \in doomed' : status'[c] = "done" => c \in doomed /\ status[c] = "done"
    BY <1>1, <2>1, <2>2
  <2> QED
    BY <2>3, <2>4, <2>5 DEF OlderDoomed
<1>4. CASE RemoveUnknown
  <2>1. /\ status' = [b \in Backups |-> IF b \in renamed THEN "gone" ELSE status[b]]
        /\ UNCHANGED <<doomed, last>>
    BY <1>4 DEF RemoveUnknown
  <2>2. \A c \in Backups : status'[c] = "done" <=> status[c] = "done"
    BY <1>1, <2>1
  <2>3. Newest' = Newest
    BY <2>2, NewestSame
  <2>4. \A c \in Backups : Running(c)' => Running(c)
    BY <2>1 DEF Running
  <2> QED
    BY <1>1, <2>1, <2>2, <2>3, <2>4 DEF OlderDoomed
<1> QED
  BY <1>2, <1>3, <1>4 DEF RecoveryStep

\* Only older backups are deleted, and the next is linked to the newest.
LEMMA OlderStep ==
    ASSUME IInv, OlderDoomed, UNCHANGED setting, Step
    PROVE  OlderDoomed'
<1>1. LinkStep => UNCHANGED <<status, doomed, last>>
  BY DEF LinkStep, LinkLinked, LinkPlain, LinkTargetInTx, EndLink, CommitRows, Rename,
     RenameFails, LinkSource, LinkSourceFails, ForgetJournal, LinkTarget, Undo, UndoJournal,
     DropTarget,
     backups
<1> QED
  BY <1>1, Steps, SameDoomed, BackupOlder, RemoveOlder, DownOlder

\* A deletion that has begun is the one under way.
LEMMA GoneStep ==
    ASSUME IInv, DoomedGone, UNCHANGED setting, Step
    PROVE  DoomedGone'
<1> SUFFICES ASSUME ~setting.crash
             PROVE up' /\ \A b \in doomed' :
                      status'[b] = "gone" \/ (job'.step \in RemoveSteps /\ job'.b = b)
  BY DEF DoomedGone
<1>1. up /\ \A b \in doomed : status[b] = "gone" \/ (job.step \in RemoveSteps /\ job.b = b)
  BY DEF DoomedGone
<1>2. /\ status \in [Backups -> {"unused", "running", "done", "failed", "gone"}]
      /\ doomed \subseteq Backups /\ TypeOK
      /\ \A b \in doomed : status[b] \in {"done", "failed", "gone"}
  BY DEF IInv, TypeInv, TypeOK, Ages
<1>3. CASE BackupStep
  <2>1. PICK b \in Backups :
           \/ StartBackup(b) \/ FinishBackup(b) \/ FailBackup(b) \/ DeleteBackup(b)
           \/ \E x \in {"d", "s"} : Copy(b, x)
    BY <1>3 DEF BackupStep
  <2>2. CASE DeleteBackup(b)
    BY <1>1, <2>2 DEF DeleteBackup, Idle, NoJob, RemoveSteps
  <2>3. CASE StartBackup(b) \/ FinishBackup(b) \/ FailBackup(b) \/ \E x \in {"d", "s"} : Copy(b, x)
    <3>1. /\ UNCHANGED <<doomed, job, up>>
          /\ \A c \in Backups : status'[c] # status[c] => status[c] \in {"unused", "running"}
      BY <1>2, <2>3 DEF StartBackup, FinishBackup, FailBackup, Copy, Running, backups
    <3> QED
      BY <1>1, <1>2, <3>1
  <2> QED
    BY <2>1, <2>2, <2>3
<1>4. CASE LinkStep
  <2>1. UNCHANGED <<status, doomed, up>> /\ (job.step = "none" \/ job.step \in LinkSteps)
    BY <1>4 DEF LinkStep, LinkLinked, LinkPlain, LinkTargetInTx, EndLink, CommitRows, Rename,
       RenameFails, LinkSource, LinkSourceFails, ForgetJournal, LinkTarget, Undo, AfterUndo,
       UndoJournal, DropTarget, backups, Idle, NoJob, LinkSteps
  <2> QED
    BY <1>1, <2>1 DEF LinkSteps, RemoveSteps
<1>5. CASE RemoveStep
  <2>1. job.step \in RemoveSteps /\ UNCHANGED <<doomed, up>>
    BY <1>5 DEF RemoveStep, ScanFolder, RemoveLink, RemoveRow, EmptyPool, UnlinkNested, RemovePool,
       Unlink, EndRemove, RemoveSteps, backups
  <2>2. \A c \in Backups : status'[c] = status[c] \/ (c = job.b /\ status'[c] = "gone")
    BY <1>5, RemoveStatus
  <2>3. \A step \in RemoveSteps : Go(step) => job'.step \in RemoveSteps /\ job'.b = job.b
    BY <1>2, GoIs DEF RemoveSteps
  <2>4. RemoveRow \/ EmptyPool \/ UnlinkNested \/ RemovePool \/ Unlink \/ EndRemove =>
           job'.step \in RemoveSteps /\ job'.b = job.b
    BY <2>3 DEF RemoveRow, EmptyPool, UnlinkNested, RemovePool, Unlink, EndRemove, RemoveSteps
  <2>5. \A x : RemoveLink(job.b, x) => job'.step = "row" /\ job'.b = job.b
    BY <1>2 DEF RemoveLink, TypeOK
  <2>6. job.b \in Backups
    BY <2>1, RemoveFacts
  <2>7. ScanFolder => \/ job'.step \in RemoveSteps /\ job'.b = job.b
                      \/ status'[job.b] = "gone"
    BY <1>2, <2>1, <2>5, <2>6 DEF ScanFolder, RemoveSteps
  <2> QED
    BY <1>1, <1>2, <1>5, <2>1, <2>2, <2>4, <2>7 DEF RemoveStep
<1>6. ~Crash /\ ~RecoveryStep
  BY <1>1 DEF Crash, RecoveryStep, Restart, ReplayFirst, RemoveUnknown
<1> QED
  BY <1>3, <1>4, <1>5, <1>6, Steps

(***************************************************************************)
(* Pool directories outlive their rows.                                    *)
(***************************************************************************)
\* Rows that were there and whose pool directory stays, and rows that need none of it.
LEMMA LiveFrame ==
    ASSUME RowsLive, stale' = stale, doomed \subseteq doomed',
           ~stale => \A p \in Pools, b \in Backups, x \in XS :
              Has(links', p, b, x) /\ ~Exempt(p, b)' =>
                 \/ /\ Has(links, p, b, x) /\ ~Exempt(p, b)
                    /\ Live(pool, p) => Live(pool', p)
                 \/ Live(pool', p) \/ b \in doomed'
    PROVE  RowsLive'
BY DEF RowsLive

\* The rows of the source of an operation.
LEMMA LastLive ==
    ASSUME IInv, Careful, Kept, ~stale, job.step \in LinkSteps, NEW q \in Pools, NEW x \in XS,
           Has(links, q, last, x), ~Exempt(q, last)
    PROVE  Live(pool, q)
<1>1. last \in Backups /\ Safe(last)
  BY LinkFacts, LinkLast
<1> QED
  BY <1>1 DEF Kept, RowsLive, Safe

\* The steps of a backup.
LEMMA BackupLive ==
    ASSUME IInv, RowsLive, BackupStep
    PROVE  RowsLive'
<1>1. PICK b \in Backups :
         \/ StartBackup(b) \/ FinishBackup(b) \/ FailBackup(b) \/ DeleteBackup(b)
         \/ \E x \in {"d", "s"} : Copy(b, x)
  BY DEF BackupStep
<1>2. UNCHANGED <<pool, links, stale>> /\ doomed \subseteq doomed'
  BY <1>1 DEF StartBackup, FinishBackup, FailBackup, DeleteBackup, Copy, files, tables, backups
<1>3. job' = job \/ job.step = "none"
  BY <1>1 DEF StartBackup, FinishBackup, FailBackup, DeleteBackup, Copy, Idle, NoJob
<1>4. \A p \in Pools, c \in Backups : ~Exempt(p, c)' => ~Exempt(p, c)
  BY <1>3 DEF Exempt, PoolSteps, ForgottenSteps, LinkSteps
<1> QED
  BY <1>2, <1>4, LiveFrame

\* The steps of link_directory_pool, whose source is a link.
LEMMA LinkedLive ==
    ASSUME IInv, Careful, Kept, \/ \E b \in Backups, x \in {"d", "s"} : LinkLinked(b, x)
                                \/ LinkTargetInTx \/ EndLink
    PROVE  RowsLive'
<1>1. RowsLive /\ TypeOK
  BY DEF Kept, IInv, TypeInv
<1>2. job.step \in {"none", "symlink", "end_link"} /\ UNCHANGED <<pool, stale, doomed>>
  BY DEF LinkLinked, LinkTargetInTx, EndLink, Idle, NoJob, files, backups
<1>3. \A p \in Pools, c \in Backups : ~Exempt(p, c)
  BY <1>2 DEF Exempt, PoolSteps, ForgottenSteps, LinkSteps, LinkedSteps
<1>4. CASE UNCHANGED links
  BY <1>1, <1>2, <1>3, <1>4, LiveFrame
<1>5. CASE EndLink
  <2>1. job.step = "end_link" /\ job.step \in LinkSteps /\ links' = tx
    BY <1>5 DEF EndLink, LinkSteps
  <2>2. /\ job.p \in Pools /\ job.x \in XS /\ up /\ last \in Backups
    BY <2>1, LinkFacts
  <2>3. seenTop = top /\ seenSub = sub
    BY <1>1, <2>1, <2>2, ViewUp DEF IInv
  <2>4. HasAll(top, sub, pool, last)
    BY <2>1, <2>3, LinkLast
  <2>5. /\ IF job.x = "d" THEN top[last] = job.p ELSE Sees(top, sub, last) = job.p
        /\ WithTarget(links, tx, last, job.b, job.x, job.p) \/ tx = links
    BY <2>1 DEF IInv, LinkedJob, LinkedSteps
  <2>6. Live(pool, job.p)
    BY <2>2, <2>4, <2>5, Names DEF HasAll, WholeIn, Live
  <2>7. ASSUME ~stale, NEW p \in Pools, NEW b \in Backups, NEW x \in XS, Has(tx, p, b, x),
               ~Has(links, p, b, x)
        PROVE  Live(pool, p)
    <3>1. p = job.p \/ Has(links, p, last, "s")
      BY <2>5, <2>7 DEF WithTarget, XS
    <3>2. "s" \in XS
      BY DEF XS
    <3> QED
      BY <1>3, <2>1, <2>2, <2>6, <2>7, <3>1, <3>2, LastLive
  <2> QED
    BY <1>1, <1>2, <1>3, <2>1, <2>7, LiveFrame
<1> QED
  BY <1>4, <1>5 DEF LinkLinked, LinkTargetInTx

\* The steps of link_directory_pool, whose source is a directory, up to the link in the backup.
LEMMA PoolLive ==
    ASSUME IInv, RowsLive,
           \/ \E b \in Backups, x \in {"d", "s"} : LinkPlain(b, x)
           \/ CommitRows \/ Rename \/ RenameFails \/ LinkSource \/ LinkSourceFails
           \/ ForgetJournal \/ Undo
    PROVE  RowsLive'
<1>1. TypeOK
  BY DEF IInv, TypeInv
<1>2. ASSUME NEW b \in Backups, NEW x \in {"d", "s"}, LinkPlain(b, x) PROVE RowsLive'
  <2>1. job.step = "none" /\ UNCHANGED <<pool, links, stale, doomed>>
    BY <1>2 DEF LinkPlain, Idle, NoJob, files, backups
  <2>2. \A p \in Pools, c \in Backups : ~Exempt(p, c)
    BY <2>1 DEF Exempt, PoolSteps, ForgottenSteps, LinkSteps
  <2> QED
    BY <2>1, <2>2, LiveFrame
<1>3. CASE CommitRows
  <2>1. /\ job.step = "commit" /\ job.step \in LinkSteps \ LinkedSteps /\ links' = tx
        /\ Go("rename") /\ UNCHANGED <<pool, stale, doomed>>
    BY <1>3 DEF CommitRows, LinkSteps, LinkedSteps, files, backups
  <2>2. WithPool(links, tx, last, top[last], job.b, job.x, job.p)
    BY <2>1 DEF IInv, RowsJob
  <2>3. job'.step = "rename" /\ job'.b = job.b /\ job'.p = job.p
    BY <1>1, <2>1, GoIs
  <2>4. \A p \in Pools, c \in Backups : ~Exempt(p, c)
    BY <2>1 DEF Exempt, PoolSteps, ForgottenSteps
  <2>5. \A p \in Pools, c \in Backups : ~Exempt(p, c)' => p # job.p /\ c # job.b
    BY <2>3 DEF Exempt, PoolSteps, LinkSteps, LinkedSteps
  <2>6. \A p \in Pools, c \in Backups, y \in XS :
           Has(links', p, c, y) /\ p # job.p /\ c # job.b => Has(links, p, c, y)
    BY <2>1, <2>2 DEF WithPool, XS
  <2> QED
    BY <2>1, <2>4, <2>5, <2>6, LiveFrame
<1>4. CASE Rename \/ RenameFails \/ LinkSource \/ LinkSourceFails \/ ForgetJournal \/ Undo
  <2>1. /\ job.step \in PoolSteps /\ job.step \in LinkSteps \ LinkedSteps
        /\ UNCHANGED <<stale, doomed>>
    BY <1>4 DEF Rename, RenameFails, LinkSource, LinkSourceFails, ForgetJournal, Undo, AfterUndo,
       PoolSteps, LinkSteps, LinkedSteps, backups
  <2>2. job.p \in Pools /\ Values(top, sub, pool)
    BY <2>1, PoolFacts
  <2>3. \A step \in PoolSteps : Go(step) => job'.step \in PoolSteps /\ job'.b = job.b /\ job'.p = job.p
    BY <1>1, GoIs DEF PoolSteps
  <2>4. job'.step \in PoolSteps /\ job'.b = job.b /\ job'.p = job.p
    <3>1. Undo => Go(AfterUndo[job.step]) /\ AfterUndo[job.step] \in PoolSteps
      BY DEF Undo, AfterUndo, PoolSteps, LinkSteps, LinkedSteps
    <3> QED
      BY <1>4, <2>3, <3>1 DEF Rename, RenameFails, LinkSource, LinkSourceFails, ForgetJournal,
         PoolSteps, LinkSteps, LinkedSteps
  <2>5. \A p \in Pools, b \in Backups : Exempt(p, b)' <=> Exempt(p, b)
    BY <2>1, <2>4, PoolExempt
  <2>6. \A p \in Pools, b \in Backups : Exempt(p, b) <=> p = job.p \/ b = job.b
    BY <2>1, <2>4, PoolExempt
  <2>7. \A p \in Pools : p # job.p => pool'[p] = pool[p]
    BY <1>4, <2>2 DEF Rename, RenameFails, LinkSource, LinkSourceFails, ForgetJournal, Undo, files,
       Values
  <2>8. \A p \in Pools, b \in Backups, x \in XS : Has(links', p, b, x) => Has(links, p, b, x)
    BY <1>4 DEF Rename, RenameFails, LinkSource, LinkSourceFails, ForgetJournal, Undo, tables, Has
  <2> QED
    BY <2>1, <2>5, <2>6, <2>7, <2>8, LiveFrame DEF Live
<1> QED
  BY <1>2, <1>3, <1>4

\* The last steps of link_directory_pool, whose source is a directory.
LEMMA TargetLive ==
    ASSUME IInv, Careful, Kept, LinkTarget \/ DropTarget \/ UndoJournal
    PROVE  RowsLive'
<1>1. /\ job.step \in PoolSteps /\ job.step \in LinkSteps \ LinkedSteps
      /\ UNCHANGED <<stale, doomed, pool>>
  BY DEF LinkTarget, DropTarget, UndoJournal, PoolSteps, LinkSteps, LinkedSteps, backups, files
<1>2. /\ job.b \in Backups /\ job.p \in Pools /\ job.x \in XS /\ last \in Backups /\ job.b # last
      /\ TypeOK /\ links \subseteq Rows
  BY <1>1, PoolFacts
<1>3. \A p \in Pools, b \in Backups, x \in XS : Has(links', p, b, x) => Has(links, p, b, x)
  BY DEF LinkTarget, DropTarget, UndoJournal, tables, Has
<1>4. RowsLive
  BY DEF Kept
<1>5. ASSUME job'.step \in PoolSteps, job'.b = job.b, job'.p = job.p PROVE RowsLive'
  <2>1. \A p \in Pools, b \in Backups : Exempt(p, b)' <=> Exempt(p, b)
    BY <1>1, <1>5, PoolExempt
  <2> QED
    BY <1>1, <1>3, <1>4, <2>1, LiveFrame
<1>6. ASSUME job'.step = "none",
             \A b \in Backups, x \in XS : Has(links', job.p, b, x) => Live(pool, job.p),
             ~stale => \A p \in Pools, x \in XS : Has(links', p, job.b, x) => Live(pool, p)
      PROVE  RowsLive'
  <2>1. job'.step \in PoolSteps \cup {"none"} /\ job'.step \notin PoolSteps
    BY <1>6 DEF PoolSteps, LinkSteps
  <2>2. \A p \in Pools, b \in Backups : Exempt(p, b) <=> p = job.p \/ b = job.b
    BY <1>1, <2>1, PoolExempt
  <2> QED
    BY <1>1, <1>3, <1>4, <1>6, <2>2, LiveFrame
<1>7. CASE LinkTarget
  <2>1. /\ job.step = "link_target" /\ links' = links
        /\ job' = NoJob \/ Go("drop_target")
    BY <1>7 DEF LinkTarget, tables
  <2>2. CASE Go("drop_target")
    BY <1>2, <1>5, <2>2, GoIs DEF PoolSteps, LinkSteps, LinkedSteps
  <2>3. CASE job' = NoJob
    <3>1. PoolRows(links, last, top[last], job.b, job.x, job.p) /\ Live(pool, job.p)
      BY <1>1, <2>1 DEF IInv, RowsJob, PoolJob, AtPool, Live
    <3>2. ASSUME ~stale, NEW p \in Pools, NEW x \in XS, Has(links', p, job.b, x) PROVE Live(pool, p)
      <4>1. p = job.p \/ Has(links, p, last, "s")
        BY <1>2, <2>1, <3>1, <3>2 DEF PoolRows, XS
      <4>2. p # job.p => ~Exempt(p, last)
        BY <1>2, <2>1 DEF Exempt, ForgottenSteps
      <4>3. "s" \in XS /\ job.step \in LinkSteps
        BY <1>1 DEF XS
      <4> QED
        BY <3>1, <3>2, <4>1, <4>2, <4>3, LastLive
    <3>3. job'.step = "none"
      BY <2>3 DEF NoJob
    <3> QED
      BY <1>6, <3>1, <3>2, <3>3
  <2> QED
    BY <2>1, <2>2, <2>3
<1>8. CASE DropTarget
  <2>1. CASE job.step = "drop_target"
    <3>1. Go("drop_below")
      BY <1>8, <2>1 DEF DropTarget
    <3> QED
      BY <1>2, <1>5, <3>1, GoIs DEF PoolSteps, LinkSteps, LinkedSteps
  <2>2. CASE job.step # "drop_target"
    <3>1. job.step = "drop_below" /\ links' = links \ RowsAt(job.b, Below(job.x))
          /\ job'.step = "none"
      BY <1>8, <2>2 DEF DropTarget, NoJob
    <3>2. /\ Live(pool, job.p)
          /\ \A q \in Pools : ~Has(links, q, job.b, "d")
          /\ \A q \in Pools : Has(links, q, job.b, "s") => job.x = "d"
      BY <1>1, <3>1 DEF IInv, PoolJob, RowsJob, AtPool, DropSteps, Live
    <3>3. \A q \in Pools, c \in Backups, y \in XS :
             Has(links', q, c, y) <=> Has(links, q, c, y) /\ ~(c = job.b /\ y \in Below(job.x))
      BY <3>1, HasMinus
    <3>4. \A p \in Pools, x \in XS : ~Has(links', p, job.b, x)
      BY <1>2, <3>2, <3>3 DEF Below, XS
    <3> QED
      BY <1>6, <3>1, <3>2, <3>4
  <2> QED
    BY <2>1, <2>2
<1>9. CASE UndoJournal
  <2>1. job.step = "undo_journal" /\ links' = links /\ job'.step = "none"
    BY <1>9 DEF UndoJournal, NoJob
  <2>2. /\ \A c \in Backups : Has(links, job.p, c, "s") \/ Has(links, job.p, c, "d") => c = job.b
        /\ \A p \in Pools : ~Has(links, p, job.b, "d") /\ ~Has(links, p, job.b, "s")
    BY <2>1 DEF IInv, UndoJob, UndoSteps, Clean
  <2>3. /\ \A b \in Backups, x \in XS : ~Has(links', job.p, b, x)
        /\ \A p \in Pools, x \in XS : ~Has(links', p, job.b, x)
    BY <1>2, <2>1, <2>2 DEF XS
  <2> QED
    BY <1>6, <2>1, <2>3
<1> QED
  BY <1>7, <1>8, <1>9

\* A deletion.
LEMMA RemoveLive ==
    ASSUME IInv, FiniteTables, RowsLive, RemoveStep
    PROVE  RowsLive'
<1>1. job.step \in RemoveSteps
  BY DEF RemoveStep, ScanFolder, RemoveRow, EmptyPool, UnlinkNested, RemovePool, Unlink, EndRemove,
         RemoveSteps
<1>2. /\ job.b \in Backups /\ job.b \in doomed /\ (job.step # "scan" => job.p \in Pools)
      /\ Values(top, sub, pool) /\ RemoveTx
  BY <1>1, RemoveFacts DEF IInv
<1>3. UNCHANGED <<stale, doomed>>
  BY DEF RemoveStep, ScanFolder, RemoveLink, RemoveRow, EmptyPool, UnlinkNested, RemovePool, Unlink,
         EndRemove, backups
<1>4. \A p \in Pools, b \in Backups : Exempt(p, b) => b = job.b
  BY <1>1 DEF Exempt, PoolSteps, LinkSteps, RemoveSteps
<1>5. ASSUME \A p \in Pools, b \in Backups, x \in XS : Has(links', p, b, x) /\ b # job.b =>
                Has(links, p, b, x) /\ (Live(pool, p) => Live(pool', p))
      PROVE  RowsLive'
  BY <1>2, <1>3, <1>4, <1>5, LiveFrame
<1>6. CASE UNCHANGED <<pool, links>>
  BY <1>5, <1>6
<1>7. CASE EmptyPool
  <2>1. links' = links /\ job.step = "empty"
    BY <1>7 DEF EmptyPool
  <2>2. ASSUME NEW p \in Pools, NEW b \in Backups, NEW x \in XS, Has(links, p, b, x), b # job.b,
               Live(pool, p), ~Live(pool', p)
        PROVE  FALSE
    <3>1. /\ \A c \in Backups : ~Has(tx', p, c, "d") /\ ~Has(tx', p, c, "s")
          /\ Has(tx, p, b, x) => Has(tx', p, b, x)
      BY <1>7, <2>2, PoolEmptied
    <3>2. Has(tx, p, b, x)
      BY <1>1, <1>2, <2>1, <2>2 DEF RemoveTx, XS
    <3> QED
      BY <3>1, <3>2 DEF XS
  <2> QED
    BY <1>5, <2>1, <2>2
<1>8. CASE RemovePool
  <2>1. job.step = "rmdir" /\ pool' = [pool EXCEPT ![job.p] = "gone"] /\ links' = links
    BY <1>8 DEF RemovePool, tables
  <2>2. \A p \in Pools : p # job.p => pool'[p] = pool[p]
    BY <1>2, <2>1 DEF Values
  <2>3. \A b \in Backups, x \in XS : b # job.b => ~Has(links, job.p, b, x)
    BY <1>1, <1>2, <2>1 DEF RemoveTx, EmptySteps, XS
  <2> QED
    BY <1>5, <2>1, <2>2, <2>3 DEF Live
<1>9. CASE EndRemove
  <2>1. job.step = "end_remove" /\ links' = tx /\ pool' = pool
    BY <1>9 DEF EndRemove, files
  <2>2. \A p \in Pools, b \in Backups, x \in XS : Has(tx, p, b, x) /\ b # job.b => Has(links, p, b, x)
    BY <1>1, <1>2, <2>1 DEF RemoveTx, XS
  <2> QED
    BY <1>5, <2>1, <2>2
<1> QED
  BY <1>6, <1>7, <1>8, <1>9 DEF RemoveStep, ScanFolder, RemoveLink, RemoveRow, UnlinkNested, Unlink,
     files, tables

\* A crash, after which the rows are not exact until remove_unknown has run.
LEMMA DownLive ==
    ASSUME IInv, IInv', FiniteTables', DoneWhole, RowsLive, Crash \/ RecoveryStep
    PROVE  RowsLive'
<1>1. CASE Crash
  BY <1>1 DEF Crash, RowsLive
<1>2. CASE Restart \/ ReplayFirst
  <2>1. UNCHANGED <<pool, links, job, stale>> /\ doomed \subseteq doomed'
    BY <1>2 DEF Restart, ReplayFirst, backups
  <2>2. \A p \in Pools, b \in Backups : Exempt(p, b)' <=> Exempt(p, b)
    BY <2>1 DEF Exempt
  <2> QED
    BY <2>1, <2>2, LiveFrame
<1>3. CASE RemoveUnknown
  <2>1. PICK deep \in BOOLEAN : KeptRows(top, sub, pool, links, renamed, links', deep)
    BY <1>3, UnknownKept
  <2>2. /\ seenTop = top /\ seenSub = sub
        /\ pool' = [p \in Pools |-> IF p \in Unreferenced(pool, links') THEN "gone" ELSE pool[p]]
    BY <1>3, UnknownKept
  <2>3. /\ stale' = \E b \in Backups : status'[b] \in {"running", "failed"}
        /\ doomed' = doomed /\ status' = [b \in Backups |-> IF b \in renamed THEN "gone" ELSE status[b]]
    BY <1>3 DEF RemoveUnknown
  <2>4. /\ status \in [Backups -> {"unused", "running", "done", "failed", "gone"}]
        /\ \A b \in Backups : status[b] \in {"unused", "gone"} => top[b] = "none"
        /\ Values(top, sub, pool)
    BY DEF IInv, TypeInv, TypeOK, Ages, Values
  <2> SUFFICES ASSUME ~stale', NEW p \in Pools, NEW b \in Backups, NEW x \in XS,
      Has(links', p, b, x)
               PROVE  Live(pool', p) \/ b \in doomed
    BY <2>3 DEF RowsLive
  <2>5. CASE Live(pool, p)
    <3>1. p \notin Unreferenced(pool, links')
      BY DEF Unreferenced, XS
    <3> QED
      BY <2>2, <2>5, <3>1 DEF Live
  <2>6. CASE ~Live(pool, p)
    <3>1. PICK q \in Pools : Has(links', q, b, "d") /\ sub[q] = p /\ x = "s"
      BY <2>1, <2>6 DEF KeptRows, XS
    <3>2. b \notin renamed /\ top[b] = q
      BY <2>1, <3>1 DEF KeptRows
    <3>3. status[b] = "done"
      BY <2>3, <2>4, <3>2, Names
    <3>4. ASSUME b \notin doomed PROVE FALSE
      <4>1. HasAll(top, sub, pool, b)
        BY <2>2, <3>3, <3>4 DEF DoneWhole, Safe
      <4>2. Sees(top, sub, b) = p
        BY <3>1, <3>2 DEF Sees
      <4> QED
        BY <2>6, <4>1, <4>2, Names DEF HasAll, WholeIn, Live
    <3> QED
      BY <3>4
  <2> QED
    BY <2>5, <2>6
<1> QED
  BY <1>1, <1>2, <1>3 DEF RecoveryStep

\* Pool directories outlive their rows in every step.
LEMMA LiveStep ==
    ASSUME IInv, IInv', Careful, Kept, Step
    PROVE  RowsLive'
<1>1. FiniteTables /\ FiniteTables' /\ RowsLive /\ DoneWhole
  BY DEF IInv, FiniteTables, Kept
<1> QED
  BY <1>1, Steps, BackupLive, LinkedLive, PoolLive, TargetLive, RemoveLive, DownLive DEF LinkStep

(***************************************************************************)
(* All of it.                                                              *)
(***************************************************************************)
\* The first state.
LEMMA KeptInit ==
    ASSUME Init
    PROVE  Kept
<1>1. /\ \A b \in Backups : status[b] = "unused"
      /\ doomed = {} /\ last = 0 /\ up /\ links = {}
  BY DEF Init
<1> QED
  BY <1>1 DEF Kept, DoneWhole, RunningWhole, OlderDoomed, DoomedGone, RowsLive, Safe, Running, Has

\* A step keeps it.
LEMMA KeptStep ==
    ASSUME KeptInv, [Next]_vars
    PROVE  KeptInv'
<1>1. IInv /\ IInv'
  BY InvStep DEF KeptInv
<1>2. setting' = setting
  BY DEF Next, AllGone, vars
<1>3. SUFFICES ASSUME Careful PROVE Kept'
  BY <1>1, <1>2 DEF KeptInv, Careful
<1>4. Kept
  BY <1>3 DEF KeptInv
<1>5. CASE UNCHANGED vars
  <2>1. /\ UNCHANGED <<status, doomed, renamed, last, top, sub, pool, links, journal>>
        /\ UNCHANGED <<job, up, stale, setting>>
    BY <1>5 DEF vars, files, tables, backups
  <2>2. seenTop' = seenTop /\ seenSub' = seenSub
    BY <2>1, ViewKept
  <2>3. DoneWhole' /\ RunningWhole'
    BY <1>4, <2>1, <2>2 DEF Kept, DoneWhole, RunningWhole, Safe, Running
  <2>4. OlderDoomed' /\ DoomedGone'
    BY <1>4, <2>1, SameDoomed DEF Kept, DoomedGone
  <2>5. RowsLive'
    BY <1>4, <2>1 DEF Kept, RowsLive, Exempt
  <2> QED
    BY <2>3, <2>4, <2>5 DEF Kept
<1>6. CASE Step
  <2>1. DoneWhole' /\ RunningWhole'
    BY <1>1, <1>3, <1>4, <1>6, DoneStep, RunningStep DEF Kept
  <2>2. OlderDoomed' /\ DoomedGone'
    BY <1>1, <1>2, <1>4, <1>6, OlderStep, GoneStep DEF Kept
  <2>3. RowsLive'
    BY <1>1, <1>3, <1>4, <1>6, LiveStep
  <2> QED
    BY <2>1, <2>2, <2>3 DEF Kept
<1> QED
  BY <1>5, <1>6 DEF Next, AllGone

\* The invariant of the directory pool holds together with what keeps the content of backups.
THEOREM KeptInductive == Spec => []KeptInv
<1>1. Init => KeptInv
  BY InvInit, KeptInit DEF KeptInv
<1>2. KeptInv /\ [Next]_vars => KeptInv'
  BY KeptStep
<1> QED
  BY <1>1, <1>2, PTL DEF Spec

\* A backup that is done has all its content.
LEMMA IntactBackups ==
    ASSUME IInv, Kept
    PROVE  Intact
<1> SUFFICES ASSUME up, job.step # "link_source", NEW b \in Backups, Safe(b)
             PROVE  Whole(top[b]) /\ Whole(At(b, "s"))
  BY DEF Intact, Safe
<1>1. seenTop = top /\ seenSub = sub
  BY ViewUp DEF IInv, TypeInv
<1>2. HasAll(top, sub, pool, b)
  BY <1>1 DEF Kept, DoneWhole
<1>3. top[b] # "none"
  BY <1>2, Names DEF HasAll, WholeIn
<1> QED
  BY <1>2, <1>3 DEF HasAll, WholeIn, Whole, At, Home, Sees

(***************************************************************************)
(* Sharing is invisible: unless the newest backup is deleted by hand in a  *)
(* server that may crash, a finished backup nobody deletes has all its     *)
(* content (Intact).                                                       *)
(***************************************************************************)
THEOREM SharingInvisible == Spec => [](Careful => Intact)
<1>1. KeptInv => (Careful => Intact)
  BY IntactBackups DEF KeptInv
<1> QED
  BY <1>1, KeptInductive, PTL

\* Without a crash every row is of a link to a directory that is there.
LEMMA ExactLinks ==
    ASSUME IInv, RowsLive
    PROVE  LinksExact
<1> SUFFICES ASSUME Idle, ~stale, NEW r \in links
             PROVE  AtPath(r[2]) = r[1] /\ (Exists(r[1]) \/ r[2][1] \in doomed)
  BY DEF LinksExact
<1> DEFINE p == r[1]
           b == r[2][1]
           x == r[2][2]
<1>1. /\ links \subseteq Rows
      /\ \A q \in Pools, c \in Backups : ~Exempt(q, c)
      /\ \A q \in Pools : Exists(q) <=> Live(pool, q)
  BY IdleFacts
<1>2. p \in Pools /\ b \in Backups /\ x \in XS /\ Has(links, p, b, x)
  BY <1>1, RowIs DEF Has
<1> HIDE DEF p, b, x
<1>3. Exists(p) \/ b \in doomed
  BY <1>1, <1>2 DEF RowsLive
<1>4. AtPath(r[2]) = r[1]
  BY ShownRows
<1> QED
  BY <1>3, <1>4 DEF p, b

(***************************************************************************)
(* The table is exact (LinksExact), under the same condition as Intact.    *)
(***************************************************************************)
THEOREM ExactTable == Spec => [](Careful => LinksExact)
<1>1. KeptInv => (Careful => LinksExact)
  BY ExactLinks DEF KeptInv, Kept
<1> QED
  BY <1>1, KeptInductive, PTL
===============================================================================
