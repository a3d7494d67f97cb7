---------------------------- MODULE DirPoolProofs -----------------------------
(***************************************************************************)
(* The inductive invariant of the directory pool, for every number of      *)
(* backups and pool directories and every setting: types first, then the   *)
(* places as a crash and the replay of the journal would leave them, which *)
(* at every moment agree with the committed table (Consistent), the        *)
(* backups, and what each operation under way has done by now.  The steps  *)
(* of an operation keep it because the references are committed before the *)
(* directory moves, so that between any two steps the journal and the      *)
(* table tell what is still to do.  The argument of every part is the      *)
(* same: a lemma for the actions of making a backup, one for each group of *)
(* steps of linking and of removing, and one for crash and recovery.       *)
(***************************************************************************)
EXTENDS DirPool, FiniteSetTheorems, WellFoundedInduction, TLAPS

-------------------------------------------------------------------------------
(***************************************************************************)
(* Places and tables, without a step: what the inductive invariant says of *)
(* places, pool directories and the table of references, as operators with *)
(* all of these as parameters (Consistent, and the parts it is made of),   *)
(* and what the operations on the table and on the places leave of it.     *)
(* The parameters are needed because the invariant holds of the places as  *)
(* the replay of the journal would leave them, and of the table as the     *)
(* open transaction will leave it, and not always of those the variables   *)
(* hold.                                                                   *)
(***************************************************************************)

\* the row that says: pool directory p is linked at x of backup b
Has(rows, p, b, x) == <<p, <<b, x>>>> \in rows

\* p has a directory in the pool, if only a part of it
Live(pl, p) == pl[p] \in {"full", "partial"}

\* what is seen at s of b
Sees(t, s, b) == IF t[b] \in Pools THEN s[t[b]] ELSE s[b]

(***************************************************************************)
(* The places by themselves.                                               *)
(***************************************************************************)
Shape(t, s, pl) ==
    /\ \A b \in Backups : t[b] # "dir" => s[b] = "none"
    /\ \A p \in Pools : ~Live(pl, p) => s[p] = "none"
    /\ \A b \in Backups : t[b] \in Pools => pl[t[b]] # "unused"
    /\ \A c \in Backups \cup Pools : s[c] \in Pools => pl[s[c]] # "unused"

(***************************************************************************)
(* A pool directory holds a d or an s, and an s has no links in it.        *)
(***************************************************************************)
Kinds(t, s, rows) ==
    /\ \A b \in Backups : t[b] \in Pools => \A c \in Backups : ~Has(rows, t[b], c, "s")
    /\ \A c \in Backups \cup Pools : s[c] \in Pools =>
          /\ s[s[c]] = "none"
          /\ \A b \in Backups : t[b] # s[c] /\ ~Has(rows, s[c], b, "d")
    /\ \A p \in Pools, b \in Backups : Has(rows, p, b, "s") =>
          s[p] = "none" /\ \A c \in Backups : ~Has(rows, p, c, "d")

(***************************************************************************)
(* Links of the backups in C have their row.                               *)
(***************************************************************************)
Counted(t, s, pl, rows, C) ==
    \A b \in Backups : b \in C =>
        /\ t[b] \in Pools /\ Live(pl, t[b]) => Has(rows, t[b], b, "d")
        /\ t[b] = "dir" /\ s[b] \in Pools /\ Live(pl, s[b]) => Has(rows, s[b], b, "s")

(***************************************************************************)
(* Who refers to a pool directory refers to the link in it; all who refer  *)
(* to it refer to the same below it.                                       *)
(***************************************************************************)
Closed(s, pl, rows) ==
    /\ \A p \in Pools, b \in Backups :
          Has(rows, p, b, "d") /\ s[p] \in Pools /\ Live(pl, s[p]) => Has(rows, s[p], b, "s")
    /\ \A p, q \in Pools, b, c \in Backups :
          Has(rows, p, b, "d") /\ Has(rows, p, c, "d") /\ Live(pl, p) /\ Live(pl, q)
             /\ Has(rows, q, b, "s") => Has(rows, q, c, "s")

(***************************************************************************)
(* Backups whose d is the same link have the same s, as far as rows tell.  *)
(***************************************************************************)
Alike(t, pl, rows, C) ==
    \A b \in Backups : b \in C /\ t[b] \in Pools =>
        \A q \in Pools, c \in Backups :
            /\ Live(pl, q) /\ Has(rows, q, b, "s")
            /\ Has(rows, t[b], c, "d") \/ (c \in C /\ t[c] = t[b])
            => Has(rows, q, c, "s")

(***************************************************************************)
(* A row of a path that leads somewhere leads to its pool directory.       *)
(***************************************************************************)
Reached(t, pl, p) == Live(pl, p) \/ \E b \in Backups : t[b] = p

\* where a row leads: to its pool directory, or nowhere; and one d has one row
Agree(t, s, pl, rows, ren) ==
    /\ \A p \in Pools, b \in Backups \ ren :
          Has(rows, p, b, "d") /\ Reached(t, pl, p) => t[b] \in {p, "none"}
    /\ \A p \in Pools, b \in Backups \ ren :
          Has(rows, p, b, "s") /\ Live(pl, p) => Sees(t, s, b) \in {p, "none"}
    /\ \A p, q \in Pools, b \in Backups :
          Has(rows, p, b, "d") /\ Has(rows, q, b, "d") /\ Live(pl, p) /\ Live(pl, q) => p = q

\* every directory in the pool has a row
Referenced(pl, rows, ps) ==
    \A p \in ps : Live(pl, p) => \E b \in Backups : Has(rows, p, b, "d") \/ Has(rows, p, b, "s")

\* all of it, for the backups C whose links count
Consistent(t, s, pl, rows, ren, C) ==
    /\ Shape(t, s, pl)
    /\ Kinds(t, s, rows)
    /\ Counted(t, s, pl, rows, C)
    /\ Closed(s, pl, rows)
    /\ Alike(t, pl, rows, C)
    /\ Agree(t, s, pl, rows, ren)
    /\ Referenced(pl, rows, Pools)

\* no rows of b
Clean(rows, b) == \A p \in Pools : ~Has(rows, p, b, "d") /\ ~Has(rows, p, b, "s")

\* the rows with those that link x of b to p, where last has p
WithTarget(rows, new, src, b, x, p) ==
    \A q \in Pools, c \in Backups :
        /\ Has(new, q, c, "d") <=> Has(rows, q, c, "d") \/ (x = "d" /\ q = p /\ c = b)
        /\ Has(new, q, c, "s") <=> \/ Has(rows, q, c, "s")
                                   \/ x = "s" /\ q = p /\ c = b
                                   \/ x = "d" /\ c = b /\ Has(rows, q, src, "s")

\* the rows with those for the new pool directory p of x of last, and of b
WithPool(rows, new, src, at, b, x, p) ==
    \A q \in Pools, c \in Backups :
        /\ Has(new, q, c, "d") <=> Has(rows, q, c, "d") \/ (x = "d" /\ q = p /\ c \in {b, src})
        /\ Has(new, q, c, "s") <=>
              \/ Has(rows, q, c, "s")
              \/ x = "d" /\ c = b /\ Has(rows, q, src, "s")
              \/ /\ x = "s" /\ q = p
                 /\ c \in {b, src} \/ (at \in Pools /\ Has(rows, at, c, "d"))

\* the committed rows are those of the operation
PoolRows(rows, src, at, b, x, p) ==
    /\ x = "d" =>
         /\ \A c \in Backups : Has(rows, p, c, "d") <=> c \in {b, src}
         /\ \A c \in Backups : ~Has(rows, p, c, "s")
         /\ \A q \in Pools : Has(rows, q, b, "d") <=> q = p
         /\ \A q \in Pools : Has(rows, q, b, "s") <=> Has(rows, q, src, "s")
    /\ x = "s" =>
         /\ \A c \in Backups : Has(rows, p, c, "s") <=>
               c \in {b, src} \/ (at \in Pools /\ Has(rows, at, c, "d"))
         /\ \A c \in Backups : ~Has(rows, p, c, "d")
         /\ \A q \in Pools : ~Has(rows, q, b, "d")
         /\ \A q \in Pools : Has(rows, q, b, "s") <=> q = p

-------------------------------------------------------------------------------
(***************************************************************************)
(* The tables as a relation of pool directories and places.                *)
(***************************************************************************)
XS == {"d", "s"}

\* A row is a pool directory and a place.
LEMMA RowIs ==
    ASSUME NEW r \in Rows
    PROVE  r[1] \in Pools /\ r[2][1] \in Backups /\ r[2][2] \in XS
           /\ r = <<r[1], <<r[2][1], r[2][2]>>>> /\ r[2] = <<r[2][1], r[2][2]>>
BY DEF Rows, Paths, XS

\* Rows added.
LEMMA HasUnion ==
    ASSUME NEW R, NEW Q, NEW p, NEW b, NEW x
    PROVE  Has(R \cup Q, p, b, x) <=> Has(R, p, b, x) \/ Has(Q, p, b, x)
BY DEF Has

\* One row.
LEMMA HasOne ==
    ASSUME NEW q, NEW c, NEW y, NEW p, NEW b, NEW x
    PROVE  Has({<<q, <<c, y>>>>}, p, b, x) <=> p = q /\ b = c /\ x = y
BY DEF Has

\* Two rows.
LEMMA HasTwo ==
    ASSUME NEW q, NEW c, NEW y, NEW q2, NEW c2, NEW y2, NEW p, NEW b, NEW x
    PROVE  Has({<<q, <<c, y>>>>, <<q2, <<c2, y2>>>>}, p, b, x) <=>
              (p = q /\ b = c /\ x = y) \/ (p = q2 /\ b = c2 /\ x = y2)
BY DEF Has

\* removeDirectoryLink: the rows of places of a backup go.
LEMMA HasMinus ==
    ASSUME NEW R, NEW c, NEW xs, NEW p \in Pools, NEW b \in Backups, NEW x \in XS
    PROVE  Has(R \ RowsAt(c, xs), p, b, x) <=> Has(R, p, b, x) /\ ~(b = c /\ x \in xs)
<1>1. <<p, <<b, x>>>> \in Rows
  BY DEF Rows, Paths, XS
<1>2. <<p, <<b, x>>>> \in RowsAt(c, xs) <=> b = c /\ x \in xs
  BY <1>1 DEF RowsAt
<1> QED
  BY <1>2 DEF Has

\* reference_all_sublinks
LEMMA HasSublink ==
    ASSUME NEW R, R \subseteq Rows, NEW src \in Backups, NEW x \in XS, NEW b \in Backups,
           NEW p \in Pools, NEW c \in Backups, NEW y \in XS
    PROVE  Has(SublinkRows(R, src, x, b), p, c, y) <=>
              x = "d" /\ c = b /\ y = "s" /\ Has(R, p, src, "s")
<1> DEFINE S == {q \in R : x = "d" /\ q[2] = <<src, "s">>}
<1>1. Has(SublinkRows(R, src, x, b), p, c, y) <=> \E r \in S : <<p, <<c, y>>>> = <<r[1], <<b, "s">>>>
  BY DEF Has, SublinkRows
<1>2. ASSUME NEW r \in S PROVE x = "d" /\ r \in Rows /\ r[2] = <<src, "s">> /\ r \in R
  OBVIOUS
<1>3. ASSUME x = "d", Has(R, p, src, "s") PROVE <<p, <<src, "s">>>> \in S
  BY <1>3 DEF Has
<1> HIDE DEF S
<1>4. ASSUME NEW r \in S, <<p, <<c, y>>>> = <<r[1], <<b, "s">>>>
      PROVE x = "d" /\ c = b /\ y = "s" /\ Has(R, p, src, "s")
  <2>1. r = <<r[1], r[2]>>
    BY <1>2, RowIs
  <2>2. p = r[1] /\ c = b /\ y = "s"
    BY <1>4
  <2>3. r = <<p, <<src, "s">>>>
    BY <1>2, <2>1, <2>2
  <2> QED
    BY <1>2, <2>2, <2>3 DEF Has
<1>5. ASSUME x = "d", c = b, y = "s", Has(R, p, src, "s")
      PROVE \E r \in S : <<p, <<c, y>>>> = <<r[1], <<b, "s">>>>
  <2>1. <<p, <<src, "s">>>>[1] = p
    OBVIOUS
  <2> QED
    BY <1>3, <1>5, <2>1
<1> QED
  BY <1>1, <1>4, <1>5

\* reference_parents
LEMMA HasParent ==
    ASSUME NEW R, R \subseteq Rows, NEW src \in Backups, NEW x \in XS, NEW q \in Pools,
           NEW p \in Pools, NEW c \in Backups, NEW y \in XS
    PROVE  Has(ParentRows(R, src, x, q), p, c, y) <=>
              x = "s" /\ top[src] \in Pools /\ p = q /\ c # src /\ y = "s"
              /\ Has(R, top[src], c, "d")
<1>1. CASE ~(x = "s" /\ top[src] \in Pools)
  BY <1>1 DEF Has, ParentRows
<1>2. CASE x = "s" /\ top[src] \in Pools
  <2> DEFINE S == {r \in R : r[1] = top[src] /\ r[2][2] = "d" /\ r[2][1] # src}
  <2>1. Has(ParentRows(R, src, x, q), p, c, y) <=>
           \E r \in S : <<p, <<c, y>>>> = <<q, <<r[2][1], "s">>>>
    BY <1>2 DEF Has, ParentRows
  <2>2. ASSUME NEW r \in S, <<p, <<c, y>>>> = <<q, <<r[2][1], "s">>>>
        PROVE p = q /\ c # src /\ y = "s" /\ Has(R, top[src], c, "d")
    <3>1. r \in R /\ r[1] = top[src] /\ r[2][2] = "d" /\ r[2][1] # src
      OBVIOUS
    <3>2. p = q /\ y = "s" /\ c = r[2][1]
      BY <2>2
    <3>3. r = <<top[src], <<c, "d">>>>
      BY <3>1, <3>2, RowIs
    <3> QED
      BY <3>1, <3>2, <3>3 DEF Has
  <2>3. ASSUME p = q, c # src, y = "s", Has(R, top[src], c, "d")
        PROVE \E r \in S : <<p, <<c, y>>>> = <<q, <<r[2][1], "s">>>>
    <3>1. <<top[src], <<c, "d">>>> \in S
      BY <2>3 DEF Has
    <3>2. <<top[src], <<c, "d">>>>[2][1] = c
      OBVIOUS
    <3> QED
      BY <2>3, <3>1, <3>2
  <2> QED
    BY <1>2, <2>1, <2>2, <2>3
<1> QED
  BY <1>1, <1>2

\* getDirectoryRefcount
LEMMA RefcountIs ==
    ASSUME NEW R, R \subseteq Rows, IsFiniteSet(R), NEW p \in Pools
    PROVE  /\ Refcount(R, p) = 0 <=> \A b \in Backups, x \in XS : ~Has(R, p, b, x)
           /\ Refcount(R, p) > 0 <=> \E b \in Backups, x \in XS : Has(R, p, b, x)
<1> DEFINE S == {r \in R : r[1] = p}
<1>1. IsFiniteSet(S)
  BY FS_Subset
<1>2. Refcount(R, p) \in Nat /\ (Refcount(R, p) = 0 <=> S = {})
  BY <1>1, FS_EmptySet, FS_CardinalityType DEF Refcount
<1>3. S = {} <=> \A b \in Backups, x \in XS : ~Has(R, p, b, x)
  <2>1. ASSUME NEW r \in S PROVE \E b \in Backups, x \in XS : Has(R, p, b, x)
    BY RowIs DEF Has
  <2>2. ASSUME NEW b \in Backups, NEW x \in XS, Has(R, p, b, x) PROVE <<p, <<b, x>>>> \in S
    BY <2>2 DEF Has
  <2> QED
    BY <2>1, <2>2
<1> HIDE DEF S
<1>4. Refcount(R, p) > 0 <=> Refcount(R, p) # 0
  BY <1>2
<1> QED
  BY <1>2, <1>3, <1>4

\* The image of a finite set is finite.
LEMMA ImageFinite ==
    ASSUME NEW S, IsFiniteSet(S), NEW f, f = [r \in S |-> f[r]]
    PROVE  IsFiniteSet({f[r] : r \in S})
<1> DEFINE T == {f[r] : r \in S}
<1>1. f \in Surjection(S, T)
  BY DEF Surjection
<1> HIDE DEF T
<1>2. IsFiniteSet(T)
  BY <1>1, FS_Surjection
<1> QED
  BY <1>2 DEF T

\* The operations add finitely many rows.
LEMMA FiniteRows ==
    ASSUME NEW R, IsFiniteSet(R), NEW src, NEW x, NEW b, NEW p
    PROVE  IsFiniteSet(SublinkRows(R, src, x, b)) /\ IsFiniteSet(ParentRows(R, src, x, p))
<1>1. IsFiniteSet(SublinkRows(R, src, x, b))
  <2> DEFINE S == {q \in R : x = "d" /\ q[2] = <<src, "s">>}
             f == [r \in S |-> <<r[1], <<b, "s">>>>]
  <2>1. IsFiniteSet(S)
    BY FS_Subset
  <2>2. SublinkRows(R, src, x, b) = {f[r] : r \in S}
    BY DEF SublinkRows
  <2>3. f = [r \in S |-> f[r]]
    OBVIOUS
  <2> HIDE DEF f, S
  <2> QED
    BY <2>1, <2>2, <2>3, ImageFinite
<1>2. IsFiniteSet(ParentRows(R, src, x, p))
  <2> DEFINE S == {q \in R : q[1] = top[src] /\ q[2][2] = "d" /\ q[2][1] # src}
             f == [r \in S |-> <<p, <<r[2][1], "s">>>>]
  <2>1. IsFiniteSet(S)
    BY FS_Subset
  <2>2. ParentRows(R, src, x, p) = {f[r] : r \in S} \/ ParentRows(R, src, x, p) = {}
    BY DEF ParentRows
  <2>3. f = [r \in S |-> f[r]]
    OBVIOUS
  <2> HIDE DEF f, S
  <2> QED
    BY <2>1, <2>2, <2>3, ImageFinite, FS_EmptySet
<1> QED
  BY <1>1, <1>2
-------------------------------------------------------------------------------
(***************************************************************************)
(* What the changes of places, pool directories and rows leave of their    *)
(* consistency.                                                            *)
(***************************************************************************)
Values(t, s, pl) ==
    /\ t \in [Backups -> Places]
    /\ s \in [Backups \cup Pools -> Places]
    /\ pl \in [Pools -> {"unused", "full", "partial", "gone"}]

\* What is not a pool directory.
LEMMA Names == /\ "none" \notin Pools /\ "dir" \notin Pools
               /\ \A b \in Backups : b \notin Pools
BY BackupsAssumption

\* Fewer backups are asked for their rows, more are renamed.
LEMMA Weaker ==
    ASSUME NEW t, NEW s, NEW pl, NEW R, NEW ren, NEW C, NEW ren2, NEW C2,
           Consistent(t, s, pl, R, ren, C), ren \subseteq ren2, C2 \subseteq C
    PROVE  Consistent(t, s, pl, R, ren2, C2)
BY DEF Consistent, Counted, Alike, Agree

\* Directories and links are deleted.
LEMMA Unlinked ==
    ASSUME NEW t, NEW s, NEW pl, NEW R, NEW ren, NEW C, NEW t2, NEW s2,
           Values(t, s, pl), Values(t2, s2, pl), Consistent(t, s, pl, R, ren, C),
           \A b \in Backups : t2[b] \in {t[b], "none"},
           \A c \in Backups \cup Pools : s2[c] \in {s[c], "none"},
           \A b \in Backups : t2[b] # "dir" => s2[b] = "none"
    PROVE  Consistent(t2, s2, pl, R, ren, C)
<1>1. Shape(t2, s2, pl)
  BY Names DEF Consistent, Shape, Values
<1>2. Kinds(t2, s2, R)
  <2>1. \A b \in Backups : t2[b] \in Pools => \A c \in Backups : ~Has(R, t2[b], c, "s")
    BY Names DEF Consistent, Kinds
  <2>2. ASSUME NEW c \in Backups \cup Pools, s2[c] \in Pools
        PROVE s2[s2[c]] = "none" /\ \A b \in Backups : t2[b] # s2[c] /\ ~Has(R, s2[c], b, "d")
    BY <2>2, Names DEF Consistent, Kinds
  <2>3. \A p \in Pools, b \in Backups : Has(R, p, b, "s") =>
           s2[p] = "none" /\ \A c \in Backups : ~Has(R, p, c, "d")
    BY DEF Consistent, Kinds
  <2> QED
    BY <2>1, <2>2, <2>3 DEF Kinds
<1>3. Counted(t2, s2, pl, R, C)
  BY Names DEF Consistent, Counted
<1>4. Closed(s2, pl, R)
  BY Names DEF Consistent, Closed
<1>5. Agree(t2, s2, pl, R, ren)
  <2>1. ASSUME NEW b \in Backups PROVE Sees(t2, s2, b) \in {Sees(t, s, b), "none"}
    <3>1. CASE t2[b] \in Pools
      BY <3>1, Names DEF Sees
    <3>2. CASE t2[b] = "dir"
      BY <3>2, Names DEF Sees
    <3>3. CASE t2[b] = "none"
      BY <3>3, Names DEF Sees
    <3> QED
      BY <3>1, <3>2, <3>3 DEF Values, Places
  <2>2. \A p \in Pools : Reached(t2, pl, p) => Reached(t, pl, p)
    BY Names DEF Reached
  <2> QED
    BY <2>1, <2>2 DEF Consistent, Agree
<1>6. Alike(t2, pl, R, C)
  BY Names DEF Consistent, Alike
<1> QED
  BY <1>1, <1>2, <1>3, <1>4, <1>5, <1>6 DEF Consistent

\* Pool directories that have no content any more go.
LEMMA PoolsGo ==
    ASSUME NEW t, NEW s, NEW pl, NEW R, NEW ren, NEW C, NEW pl2,
           Consistent(t, s, pl, R, ren, C), Values(t, s, pl),
           \A p \in Pools : Live(pl2, p) => Live(pl, p),
           \A p \in Pools : pl2[p] = "unused" => pl[p] = "unused",
           \A p \in Pools : Live(pl, p) /\ ~Live(pl2, p) => s[p] = "none"
    PROVE  Consistent(t, s, pl2, R, ren, C)
<1>1. Shape(t, s, pl2)
  BY DEF Consistent, Shape
<1>2. Counted(t, s, pl2, R, C)
  BY DEF Consistent, Counted
<1>3. Closed(s, pl2, R)
  BY DEF Consistent, Closed
<1>4. Agree(t, s, pl2, R, ren)
  BY DEF Consistent, Agree, Reached
<1>5. Referenced(pl2, R, Pools)
  BY DEF Consistent, Referenced
<1>6. Alike(t, pl2, R, C)
  BY DEF Consistent, Alike
<1> QED
  BY <1>1, <1>2, <1>3, <1>4, <1>5, <1>6 DEF Consistent

\* A pool directory that may be linked at x: it holds such a directory.
Suits(t, s, R, x, v) ==
    IF x = "d" THEN /\ \A c \in Backups : ~Has(R, v, c, "s")
                    /\ \A c \in Backups \cup Pools : s[c] # v
                    /\ \E c \in Backups : t[c] = v
    ELSE s[v] = "none" /\ \A c \in Backups : t[c] # v /\ ~Has(R, v, c, "d")

\* v comes to x of b.
Put(t, s, t2, s2, b, x, v) ==
    IF x = "d" THEN t2 = [t EXCEPT ![b] = v] /\ s2 = s
    ELSE t2 = t /\ s2 = [s EXCEPT ![b] = v]

\* x of b is still to be filled
Free(t, s, b, x) == IF x = "d" THEN t[b] = "none" ELSE t[b] = "dir" /\ s[b] = "none"

\* Something is put at a place without rows: a directory, or a link that is not counted yet.
LEMMA Placed ==
    ASSUME NEW t, NEW s, NEW pl, NEW R, NEW ren, NEW C, NEW t2, NEW s2,
           NEW b \in Backups, NEW x \in XS, NEW v,
           Values(t, s, pl), Consistent(t, s, pl, R, ren, C),
           Put(t, s, t2, s2, b, x, v), Free(t, s, b, x), Clean(R, b),
           \/ v = "dir"
           \/ v \in Pools /\ b \notin C /\ pl[v] # "unused" /\ Suits(t, s, R, x, v)
    PROVE  Consistent(t2, s2, pl, R, ren, C)
<1>1. \A c \in Backups : c # b => t2[c] = t[c]
  BY DEF Put, Values
<1>2. \A c \in Backups \cup Pools : c # b => s2[c] = s[c]
  BY DEF Put, Values
<1>3. x = "d" => t2[b] = v /\ s2 = s /\ t[b] = "none" /\ s[b] = "none"
  BY Names DEF Put, Values, Free, Consistent, Shape
<1>4. x = "s" => t2 = t /\ s2[b] = v /\ t[b] = "dir" /\ s[b] = "none"
  BY DEF Put, Values, Free, XS
<1>5. \A p \in Pools : s2[p] = s[p]
  BY <1>2, Names
<1>6. x = "d" \/ x = "s"
  BY DEF XS
<1>7. Shape(t2, s2, pl)
  BY <1>1, <1>2, <1>3, <1>4, <1>5, <1>6, Names DEF Consistent, Shape
<1>8. Kinds(t2, s2, R)
  <2>1. \A c \in Backups : t2[c] \in Pools => \A e \in Backups : ~Has(R, t2[c], e, "s")
    BY <1>1, <1>3, <1>4, <1>6, Names DEF Consistent, Kinds, Suits
  <2>2. ASSUME NEW c \in Backups \cup Pools, s2[c] \in Pools
        PROVE s2[s2[c]] = "none" /\ \A e \in Backups : t2[e] # s2[c] /\ ~Has(R, s2[c], e, "d")
    <3>1. CASE x = "d"
      <4>1. s2 = s
        BY <3>1, <1>3
      <4>2. s[s[c]] = "none" /\ \A e \in Backups : t[e] # s[c] /\ ~Has(R, s[c], e, "d")
        BY <2>2, <4>1 DEF Consistent, Kinds
      <4>3. s[c] # v
        BY <2>2, <3>1, <4>1, Names DEF Suits
      <4> QED
        BY <1>1, <1>3, <3>1, <4>1, <4>2, <4>3
    <3>2. CASE x = "s" /\ c = b
      BY <1>4, <1>5, <2>2, <3>2, Names DEF Suits
    <3>3. CASE x = "s" /\ c # b
      <4>1. s2[c] = s[c] /\ t2 = t
        BY <1>2, <1>4, <3>3
      <4>2. s[s[c]] = "none" /\ \A e \in Backups : t[e] # s[c] /\ ~Has(R, s[c], e, "d")
        BY <2>2, <4>1 DEF Consistent, Kinds
      <4> QED
        BY <1>5, <2>2, <4>1, <4>2
    <3> QED
      BY <1>6, <3>1, <3>2, <3>3
  <2>3. \A p \in Pools, c \in Backups : Has(R, p, c, "s") =>
           s2[p] = "none" /\ \A e \in Backups : ~Has(R, p, e, "d")
    BY <1>5 DEF Consistent, Kinds
  <2> QED
    BY <2>1, <2>2, <2>3 DEF Kinds
<1>9. Counted(t2, s2, pl, R, C)
  BY <1>1, <1>2, <1>3, <1>4, <1>6, Names DEF Consistent, Counted
<1>10. Closed(s2, pl, R)
  BY <1>5 DEF Consistent, Closed
<1>11. Agree(t2, s2, pl, R, ren)
  <2>1. ASSUME NEW c \in Backups, c # b PROVE t2[c] = t[c] /\ Sees(t2, s2, c) = Sees(t, s, c)
    BY <1>1, <1>2, <1>5, <2>1 DEF Sees
  <2>2. \A p \in Pools : ~Has(R, p, b, "d") /\ ~Has(R, p, b, "s")
    BY DEF Clean
  <2>3. ASSUME NEW p \in Pools, Reached(t2, pl, p) PROVE Reached(t, pl, p)
    <3>1. ASSUME NEW c \in Backups, t2[c] = p PROVE \E e \in Backups : t[e] = p
      BY <1>1, <1>3, <1>4, <1>6, <3>1, Names DEF Suits
    <3> QED
      BY <2>3, <3>1 DEF Reached
  <2> QED
    BY <2>1, <2>2, <2>3 DEF Consistent, Agree
<1>12. Alike(t2, pl, R, C)
  <2>1. \A c \in Backups : c \in C /\ t2[c] \in Pools => t2[c] = t[c]
    BY <1>1, <1>3, <1>4, <1>6, Names
  <2> QED
    BY <2>1 DEF Consistent, Alike
<1> QED
  BY <1>7, <1>8, <1>9, <1>10, <1>11, <1>12 DEF Consistent

\* The link of the new backup, whose rows are there.
LEMMA TargetLinked ==
    ASSUME NEW t, NEW s, NEW pl, NEW R, NEW ren, NEW C, NEW t2, NEW s2,
           NEW b \in Backups, NEW src \in Backups \ ren, NEW x \in XS, NEW p \in Pools,
           Values(t, s, pl), Consistent(t, s, pl, R, ren, C), b # src, src \in C,
           Put(t, s, t2, s2, b, x, p), Free(t, s, b, x), PoolRows(R, src, t[src], b, x, p),
           IF x = "d" THEN t[src] = p ELSE Sees(t, s, src) = p
    PROVE  Consistent(t2, s2, pl, R, ren, C)
<1>1. \A c \in Backups : c # b => t2[c] = t[c]
  BY DEF Put, Values
<1>2. \A c \in Backups \cup Pools : c # b => s2[c] = s[c]
  BY DEF Put, Values
<1>3. x = "d" => t2[b] = p /\ s2 = s /\ t[b] = "none" /\ s[b] = "none" /\ t[src] = p
  BY Names DEF Put, Values, Free, Consistent, Shape
<1>4. x = "s" => t2 = t /\ s2[b] = p /\ t[b] = "dir" /\ s[b] = "none" /\ Sees(t, s, src) = p
  BY DEF Put, Values, Free, XS
<1>5. \A q \in Pools : s2[q] = s[q]
  BY <1>2, Names
<1>6. x = "d" \/ x = "s"
  BY DEF XS
<1>7. x = "s" => \E c \in Backups \cup Pools : s[c] = p
  BY <1>4 DEF Sees
<1>8. Shape(t2, s2, pl)
  BY <1>1, <1>2, <1>3, <1>4, <1>5, <1>6, <1>7, Names DEF Consistent, Shape
<1>9. Kinds(t2, s2, R)
  <2>1. \A c \in Backups : t2[c] \in Pools => \A e \in Backups : ~Has(R, t2[c], e, "s")
    BY <1>1, <1>3, <1>4, <1>6, Names DEF Consistent, Kinds
  <2>2. ASSUME NEW c \in Backups \cup Pools, s2[c] \in Pools
        PROVE s2[s2[c]] = "none" /\ \A e \in Backups : t2[e] # s2[c] /\ ~Has(R, s2[c], e, "d")
    <3>1. PICK e \in Backups \cup Pools : s[e] = s2[c]
      BY <1>2, <1>3, <1>4, <1>6, <1>7
    <3>2. s[s[e]] = "none" /\ \A g \in Backups : t[g] # s[e] /\ ~Has(R, s[e], g, "d")
      BY <2>2, <3>1 DEF Consistent, Kinds
    <3>3. x = "d" => s[e] # p
      BY <1>3, <3>2
    <3> QED
      BY <1>1, <1>3, <1>4, <1>5, <1>6, <2>2, <3>1, <3>2, <3>3
  <2>3. \A q \in Pools, c \in Backups : Has(R, q, c, "s") =>
           s2[q] = "none" /\ \A e \in Backups : ~Has(R, q, e, "d")
    BY <1>5 DEF Consistent, Kinds
  <2> QED
    BY <2>1, <2>2, <2>3 DEF Kinds
<1>10. Counted(t2, s2, pl, R, C)
  <2>1. x = "d" => Has(R, p, b, "d")
    BY DEF PoolRows
  <2>2. x = "s" => Has(R, p, b, "s")
    BY DEF PoolRows
  <2> QED
    BY <1>1, <1>2, <1>3, <1>4, <1>6, <2>1, <2>2, Names DEF Consistent, Counted
<1>11. Closed(s2, pl, R)
  BY <1>5 DEF Consistent, Closed
<1>12. Agree(t2, s2, pl, R, ren)
  <2>1. ASSUME NEW c \in Backups, c # b PROVE t2[c] = t[c] /\ Sees(t2, s2, c) = Sees(t, s, c)
    BY <1>1, <1>2, <1>5, <2>1 DEF Sees
  <2>2. \A q \in Pools : Has(R, q, b, "d") => t2[b] = q
    BY <1>3, <1>4, <1>6 DEF PoolRows
  <2>3. ASSUME NEW q \in Pools, Has(R, q, b, "s"), Live(pl, q)
        PROVE Sees(t2, s2, b) \in {q, "none"}
    <3>1. CASE x = "d"
      <4>1. Has(R, q, src, "s")
        BY <2>3, <3>1 DEF PoolRows
      <4>2. Sees(t, s, src) \in {q, "none"}
        BY <2>3, <4>1 DEF Consistent, Agree
      <4>3. Sees(t2, s2, b) = s[p] /\ Sees(t, s, src) = s[p]
        BY <1>3, <3>1 DEF Sees
      <4> QED
        BY <4>2, <4>3
    <3>2. CASE x = "s"
      <4>1. q = p
        BY <2>3, <3>2 DEF PoolRows
      <4> QED
        BY <1>4, <3>2, <4>1, Names DEF Sees
    <3> QED
      BY <1>6, <3>1, <3>2
  <2>4. ASSUME NEW c \in Backups \ ren, NEW q \in Pools, Has(R, q, c, "s"), Live(pl, q)
        PROVE Sees(t2, s2, c) \in {q, "none"}
    BY <2>1, <2>3, <2>4 DEF Consistent, Agree
  <2>5. ASSUME NEW c \in Backups \ ren, NEW q \in Pools, Has(R, q, c, "d"), Reached(t2, pl, q)
        PROVE t2[c] \in {q, "none"}
    <3>1. Reached(t, pl, q)
      BY <1>1, <1>3, <1>4, <1>6, <2>5 DEF Reached
    <3> QED
      BY <2>1, <2>2, <2>5, <3>1 DEF Consistent, Agree
  <2> QED
    BY <2>4, <2>5 DEF Consistent, Agree
<1>13. Alike(t2, pl, R, C)
  <2>1. CASE x = "s"
    BY <1>4, <2>1 DEF Consistent, Alike
  <2>2. CASE x = "d"
    <3> DEFINE own(k) == IF k = b THEN src ELSE k
    <3>1. \A k \in Backups : k \in C => own(k) \in Backups /\ own(k) \in C /\ t[own(k)] = t2[k]
      BY <1>1, <1>3, <2>2
    <3>2. \A q \in Pools, k \in Backups : Has(R, q, k, "s") <=> Has(R, q, own(k), "s")
      BY <2>2 DEF PoolRows
    <3> HIDE DEF own
    <3> SUFFICES ASSUME NEW e \in Backups, e \in C, t2[e] \in Pools,
                        NEW q \in Pools, NEW c \in Backups, Live(pl, q), Has(R, q, e, "s"),
                        Has(R, t2[e], c, "d") \/ (c \in C /\ t2[c] = t2[e])
                 PROVE  Has(R, q, c, "s")
      BY DEF Alike
    <3>3. /\ own(e) \in Backups /\ own(e) \in C /\ t[own(e)] = t2[e]
          /\ t[own(e)] \in Pools /\ Has(R, q, own(e), "s")
      BY <3>1, <3>2
    <3>4. CASE Has(R, t2[e], c, "d")
      BY <3>3, <3>4 DEF Consistent, Alike
    <3>5. CASE c \in C /\ t2[c] = t2[e]
      <4>1. own(c) \in Backups /\ own(c) \in C /\ t[own(c)] = t[own(e)]
        BY <3>1, <3>3, <3>5
      <4>2. Has(R, q, own(c), "s")
        BY <3>3, <4>1 DEF Consistent, Alike
      <4> QED
        BY <3>2, <4>2
    <3> QED
      BY <3>4, <3>5
  <2> QED
    BY <1>6, <2>1, <2>2
<1> QED
  BY <1>8, <1>9, <1>10, <1>11, <1>12, <1>13 DEF Consistent

\* The rows of a link to a directory that is linked already, with that link in place.
LEMMA TargetCommitted ==
    ASSUME NEW t, NEW s, NEW pl, NEW R, NEW R2, NEW ren, NEW C,
           NEW b \in Backups, NEW src \in Backups \ ren, NEW x \in XS, NEW p \in Pools,
           Values(t, s, pl), Consistent(t, s, pl, R, ren, C), b # src, src \in C,
           Clean(R, b), WithTarget(R, R2, src, b, x, p),
           IF x = "d" THEN t[src] = p ELSE Sees(t, s, src) = p,
           IF x = "d" THEN t[b] = p ELSE t[b] = "dir" /\ s[b] = p
    PROVE  Consistent(t, s, pl, R2, ren, C \cup {b})
<1>1. \A q \in Pools, c \in Backups :
         Has(R2, q, c, "d") <=> Has(R, q, c, "d") \/ (x = "d" /\ q = p /\ c = b)
  BY DEF WithTarget
<1>2. \A q \in Pools, c \in Backups :
         Has(R2, q, c, "s") <=> \/ Has(R, q, c, "s")
                                \/ x = "s" /\ q = p /\ c = b
                                \/ x = "d" /\ c = b /\ Has(R, q, src, "s")
  BY DEF WithTarget
<1>3. \A q \in Pools : ~Has(R, q, b, "d") /\ ~Has(R, q, b, "s")
  BY DEF Clean
<1>4. x = "d" => t[src] = p /\ t[b] = p
  OBVIOUS
<1>5. x = "s" => Sees(t, s, src) = p /\ t[b] = "dir" /\ s[b] = p
  BY DEF XS
<1>6. x = "d" \/ x = "s"
  BY DEF XS
<1>7. x = "d" => \A c \in Backups \cup Pools : s[c] # p
  BY <1>4 DEF Consistent, Kinds
<1>8. x = "d" /\ Live(pl, p) => Has(R, p, src, "d")
  BY <1>4 DEF Consistent, Counted
<1>9. x = "s" => \A c \in Backups : ~Has(R, p, c, "d") /\ t[c] # p
  BY <1>5 DEF Consistent, Kinds
<1>10. x = "s" => s[p] = "none"
  BY <1>5 DEF Consistent, Kinds
<1>11. x = "d" => \A c \in Backups : ~Has(R, p, c, "s")
  BY <1>4 DEF Consistent, Kinds
<1>12. Kinds(t, s, R2)
  <2>1. ASSUME NEW c \in Backups, t[c] \in Pools, NEW e \in Backups PROVE ~Has(R2, t[c], e, "s")
    BY <1>2, <1>9, <2>1 DEF Consistent, Kinds
  <2>2. ASSUME NEW c \in Backups \cup Pools, s[c] \in Pools
        PROVE s[s[c]] = "none" /\ \A e \in Backups : t[e] # s[c] /\ ~Has(R2, s[c], e, "d")
    BY <1>1, <1>7, <2>2 DEF Consistent, Kinds
  <2>3. ASSUME NEW q \in Pools, NEW c \in Backups, Has(R2, q, c, "s")
        PROVE s[q] = "none" /\ \A e \in Backups : ~Has(R2, q, e, "d")
    <3>1. Has(R, q, c, "s") \/ (x = "s" /\ q = p) \/ (x = "d" /\ Has(R, q, src, "s"))
      BY <1>2, <2>3
    <3>2. ASSUME NEW g \in Backups, Has(R, q, g, "s")
          PROVE s[q] = "none" /\ \A e \in Backups : ~Has(R2, q, e, "d")
      <4>1. s[q] = "none" /\ \A e \in Backups : ~Has(R, q, e, "d")
        BY <3>2 DEF Consistent, Kinds
      <4> QED
        BY <1>1, <1>11, <3>2, <4>1
    <3>3. ASSUME x = "s", q = p PROVE s[q] = "none" /\ \A e \in Backups : ~Has(R2, q, e, "d")
      BY <1>1, <1>9, <1>10, <3>3
    <3> QED
      BY <3>1, <3>2, <3>3
  <2> QED
    BY <2>1, <2>2, <2>3 DEF Kinds
<1>13. Counted(t, s, pl, R2, C \cup {b})
  <2>1. x = "d" => Has(R2, p, b, "d")
    BY <1>1
  <2>2. x = "s" => Has(R2, p, b, "s")
    BY <1>2
  <2>3. ASSUME NEW c \in Backups, c \in C, t[c] \in Pools, Live(pl, t[c])
        PROVE Has(R2, t[c], c, "d")
    BY <1>1, <2>3 DEF Consistent, Counted
  <2>4. ASSUME NEW c \in Backups, c \in C, t[c] = "dir", s[c] \in Pools, Live(pl, s[c])
        PROVE Has(R2, s[c], c, "s")
    BY <1>2, <2>4 DEF Consistent, Counted
  <2> QED
    BY <1>4, <1>5, <1>6, <2>1, <2>2, <2>3, <2>4, Names DEF Counted
<1>14. Closed(s, pl, R2)
  <2>1. ASSUME NEW q \in Pools, NEW c \in Backups, Has(R2, q, c, "d"), s[q] \in Pools,
               Live(pl, s[q])
        PROVE Has(R2, s[q], c, "s")
    <3>1. CASE Has(R, q, c, "d")
      BY <1>2, <2>1, <3>1 DEF Consistent, Closed
    <3>2. CASE x = "d" /\ q = p /\ c = b
      <4>1. Live(pl, p)
        BY <2>1, <3>2, Names DEF Consistent, Shape
      <4>2. Has(R, s[p], src, "s")
        BY <1>8, <2>1, <3>2, <4>1 DEF Consistent, Closed
      <4> QED
        BY <1>2, <2>1, <3>2, <4>2
    <3> QED
      BY <1>1, <2>1, <3>1, <3>2
  <2>2. ASSUME NEW q \in Pools, NEW g \in Pools, NEW c \in Backups, NEW e \in Backups,
               Has(R2, q, c, "d"), Has(R2, q, e, "d"), Live(pl, q), Live(pl, g), Has(R2, g, c, "s")
        PROVE Has(R2, g, e, "s")
    <3>1. CASE x = "s"
      <4>1. Has(R, q, c, "d") /\ Has(R, q, e, "d") /\ c # b /\ e # b
        BY <1>1, <1>3, <2>2, <3>1
      <4>2. Has(R, g, c, "s")
        BY <1>2, <2>2, <3>1, <4>1
      <4>3. Has(R, g, e, "s")
        BY <2>2, <4>1, <4>2 DEF Consistent, Closed
      <4> QED
        BY <1>2, <4>3
    <3>2. CASE x = "d"
      <4> DEFINE own(k) == IF k = b THEN src ELSE k
      <4>1. \A k \in Backups : Has(R2, q, k, "d") => own(k) \in Backups /\ Has(R, q, own(k), "d")
        BY <1>1, <1>3, <1>8, <2>2, <3>2
      <4>2. \A k \in Backups : Has(R2, g, k, "s") <=> Has(R, g, own(k), "s")
        BY <1>2, <1>3, <3>2
      <4>3. own(c) \in Backups /\ own(e) \in Backups /\ Has(R, q, own(c), "d")
            /\ Has(R, q, own(e), "d")
            /\ Has(R, g, own(c), "s")
        BY <2>2, <4>1, <4>2
      <4> HIDE DEF own
      <4>4. Has(R, g, own(e), "s")
        BY <2>2, <4>3 DEF Consistent, Closed
      <4> QED
        BY <4>2, <4>4
    <3> QED
      BY <1>6, <3>1, <3>2
  <2> QED
    BY <2>1, <2>2 DEF Closed
<1>15. Agree(t, s, pl, R2, ren)
  <2>1. ASSUME NEW q \in Pools, NEW c \in Backups \ ren, Has(R2, q, c, "d"), Reached(t, pl, q)
        PROVE t[c] \in {q, "none"}
    BY <1>1, <1>4, <2>1 DEF Consistent, Agree
  <2>2. ASSUME NEW q \in Pools, NEW c \in Backups \ ren, Has(R2, q, c, "s"), Live(pl, q)
        PROVE Sees(t, s, c) \in {q, "none"}
    <3>1. CASE Has(R, q, c, "s")
      BY <2>2, <3>1 DEF Consistent, Agree
    <3>2. CASE x = "s" /\ q = p /\ c = b
      BY <1>5, <3>2, Names DEF Sees
    <3>3. CASE x = "d" /\ c = b /\ Has(R, q, src, "s")
      <4>1. Sees(t, s, src) \in {q, "none"}
        BY <2>2, <3>3 DEF Consistent, Agree
      <4>2. Sees(t, s, src) = Sees(t, s, b)
        BY <1>4, <3>3 DEF Sees
      <4> QED
        BY <3>3, <4>1, <4>2
    <3> QED
      BY <1>2, <2>2, <3>1, <3>2, <3>3
  <2>3. ASSUME NEW q \in Pools, NEW g \in Pools, NEW c \in Backups, Has(R2, q, c, "d"),
               Has(R2, g, c, "d"), Live(pl, q), Live(pl, g)
        PROVE q = g
    BY <1>1, <1>3, <2>3 DEF Consistent, Agree
  <2> QED
    BY <2>1, <2>2, <2>3 DEF Agree
<1>16. Referenced(pl, R2, Pools)
  BY <1>1, <1>2 DEF Consistent, Referenced
<1>17. Alike(t, pl, R2, C \cup {b})
  <2> SUFFICES ASSUME NEW e \in Backups, e \in C \cup {b}, t[e] \in Pools,
                      NEW q \in Pools, NEW c \in Backups, Live(pl, q), Has(R2, q, e, "s"),
                      Has(R2, t[e], c, "d") \/ (c \in C \cup {b} /\ t[c] = t[e])
               PROVE  Has(R2, q, c, "s")
    BY DEF Alike
  <2>1. CASE x = "s"
    <3>1. e # b /\ e \in C /\ Has(R, q, e, "s")
      BY <1>2, <1>5, <2>1, Names
    <3>2. Has(R, t[e], c, "d") \/ (c \in C /\ t[c] = t[e])
      BY <1>1, <1>5, <2>1, Names
    <3>3. Has(R, q, c, "s")
      BY <3>1, <3>2 DEF Consistent, Alike
    <3> QED
      BY <1>2, <3>3
  <2>2. CASE x = "d"
    <3> DEFINE own(k) == IF k = b THEN src ELSE k
    <3>1. \A k \in Backups : t[own(k)] = t[k] /\ own(k) \in Backups
                              /\ (k \in C \cup {b} => own(k) \in C)
      BY <1>4, <2>2
    <3>2. \A k \in Backups : Has(R2, q, k, "s") <=> Has(R, q, own(k), "s")
      BY <1>2, <1>3, <2>2
    <3>3. Has(R, t[e], own(c), "d") \/ (own(c) \in C /\ t[own(c)] = t[e])
      BY <1>1, <1>3, <1>4, <2>2
    <3> HIDE DEF own
    <3>4. own(e) \in C /\ own(e) \in Backups /\ own(c) \in Backups /\ t[own(e)] = t[e]
          /\ Has(R, q, own(e), "s")
      BY <3>1, <3>2
    <3>5. Has(R, q, own(c), "s")
      BY <3>3, <3>4 DEF Consistent, Alike
    <3> QED
      BY <3>2, <3>5
  <2> QED
    BY <1>6, <2>1, <2>2
<1> QED
  BY <1>12, <1>13, <1>14, <1>15, <1>16, <1>17 DEF Consistent

\* The rows of a directory that is about to move into the pool.
LEMMA PoolCommitted ==
    ASSUME NEW t, NEW s, NEW pl, NEW R, NEW R2, NEW ren, NEW C,
           NEW b \in Backups, NEW src \in Backups, NEW x \in XS, NEW p \in Pools,
           Values(t, s, pl), Consistent(t, s, pl, R, ren, C), b # src, pl[p] = "unused",
           \A c \in Backups : ~Has(R, p, c, "d") /\ ~Has(R, p, c, "s"),
           Clean(R, b), Free(t, s, b, x), WithPool(R, R2, src, t[src], b, x, p)
    PROVE  Consistent(t, s, pl, R2, ren, C) /\ PoolRows(R2, src, t[src], b, x, p)
<1>1. \A q \in Pools, c \in Backups :
         Has(R2, q, c, "d") <=> Has(R, q, c, "d") \/ (x = "d" /\ q = p /\ c \in {b, src})
  BY DEF WithPool
<1>2. \A q \in Pools, c \in Backups :
         Has(R2, q, c, "s") <=>
              \/ Has(R, q, c, "s")
              \/ x = "d" /\ c = b /\ Has(R, q, src, "s")
              \/ /\ x = "s" /\ q = p
                 /\ c \in {b, src} \/ (t[src] \in Pools /\ Has(R, t[src], c, "d"))
  BY DEF WithPool
<1>3. \A q \in Pools : ~Has(R, q, b, "d") /\ ~Has(R, q, b, "s")
  BY DEF Clean
<1>4. ~Live(pl, p)
  BY DEF Live
<1>5. s[p] = "none" /\ (\A c \in Backups : t[c] # p) /\ \A c \in Backups \cup Pools : s[c] # p
  BY <1>4 DEF Consistent, Shape
<1>6. x = "d" \/ x = "s"
  BY DEF XS
<1>7. x = "d" => t[b] = "none" /\ s[b] = "none"
  BY Names DEF Free, Consistent, Shape
<1>8. x = "s" => t[b] = "dir" /\ s[b] = "none"
  BY DEF Free, XS
<1>9. Sees(t, s, b) = "none"
  BY <1>6, <1>7, <1>8, Names DEF Sees
<1>10. \A q \in Pools, c \in Backups : q # p => (Has(R2, q, c, "d") <=> Has(R, q, c, "d"))
  BY <1>1
<1>11. \A q \in Pools, c \in Backups : q # p /\ Has(R2, q, c, "s") =>
          \E e \in Backups : Has(R, q, e, "s")
  BY <1>2
<1>12. x = "d" => \A c \in Backups : ~Has(R2, p, c, "s")
  BY <1>2
<1>13. x = "s" => \A c \in Backups : ~Has(R2, p, c, "d")
  BY <1>1
<1>14. Kinds(t, s, R2)
  <2>1. ASSUME NEW c \in Backups, t[c] \in Pools, NEW e \in Backups PROVE ~Has(R2, t[c], e, "s")
    <3>1. t[c] # p
      BY <1>5
    <3>2. \A g \in Backups : ~Has(R, t[c], g, "s")
      BY <2>1 DEF Consistent, Kinds
    <3> QED
      BY <1>11, <2>1, <3>1, <3>2
  <2>2. ASSUME NEW c \in Backups \cup Pools, s[c] \in Pools
        PROVE s[s[c]] = "none" /\ \A e \in Backups : t[e] # s[c] /\ ~Has(R2, s[c], e, "d")
    BY <1>5, <1>10, <2>2 DEF Consistent, Kinds
  <2>3. ASSUME NEW q \in Pools, NEW c \in Backups, Has(R2, q, c, "s")
        PROVE s[q] = "none" /\ \A e \in Backups : ~Has(R2, q, e, "d")
    <3>1. CASE q = p
      BY <1>5, <1>6, <1>12, <1>13, <2>3, <3>1
    <3>2. CASE q # p
      <4>1. PICK e \in Backups : Has(R, q, e, "s")
        BY <1>11, <2>3, <3>2
      <4> QED
        BY <1>10, <3>2, <4>1 DEF Consistent, Kinds
    <3> QED
      BY <3>1, <3>2
  <2> QED
    BY <2>1, <2>2, <2>3 DEF Kinds
<1>15. Counted(t, s, pl, R2, C)
  BY <1>1, <1>2 DEF Consistent, Counted
<1>16. Closed(s, pl, R2)
  <2>1. ASSUME NEW q \in Pools, NEW c \in Backups, Has(R2, q, c, "d"), s[q] \in Pools,
               Live(pl, s[q])
        PROVE Has(R2, s[q], c, "s")
    <3>1. q # p
      BY <1>5, <2>1, Names
    <3>2. Has(R, s[q], c, "s")
      BY <1>10, <2>1, <3>1 DEF Consistent, Closed
    <3> QED
      BY <1>2, <2>1, <3>2
  <2>2. ASSUME NEW q \in Pools, NEW g \in Pools, NEW c \in Backups, NEW e \in Backups,
               Has(R2, q, c, "d"), Has(R2, q, e, "d"), Live(pl, q), Live(pl, g), Has(R2, g, c, "s")
        PROVE Has(R2, g, e, "s")
    <3>1. q # p /\ g # p
      BY <1>4, <2>2
    <3>2. Has(R, q, c, "d") /\ Has(R, q, e, "d") /\ c # b
      BY <1>3, <1>10, <2>2, <3>1
    <3>3. Has(R, g, c, "s")
      BY <1>2, <2>2, <3>1, <3>2
    <3>4. Has(R, g, e, "s")
      BY <2>2, <3>2, <3>3 DEF Consistent, Closed
    <3> QED
      BY <1>2, <3>4
  <2> QED
    BY <2>1, <2>2 DEF Closed
<1>17. Agree(t, s, pl, R2, ren)
  <2>1. ASSUME NEW q \in Pools, NEW c \in Backups \ ren, Has(R2, q, c, "d"), Reached(t, pl, q)
        PROVE t[c] \in {q, "none"}
    <3>1. q # p
      BY <1>4, <1>5, <2>1 DEF Reached
    <3> QED
      BY <1>10, <2>1, <3>1 DEF Consistent, Agree
  <2>2. ASSUME NEW q \in Pools, NEW c \in Backups \ ren, Has(R2, q, c, "s"), Live(pl, q)
        PROVE Sees(t, s, c) \in {q, "none"}
    BY <1>2, <1>4, <1>9, <2>2 DEF Consistent, Agree
  <2>3. ASSUME NEW q \in Pools, NEW g \in Pools, NEW c \in Backups, Has(R2, q, c, "d"),
               Has(R2, g, c, "d"), Live(pl, q), Live(pl, g)
        PROVE q = g
    BY <1>1, <1>4, <2>3 DEF Consistent, Agree
  <2> QED
    BY <2>1, <2>2, <2>3 DEF Agree
<1>18. Referenced(pl, R2, Pools)
  BY <1>1, <1>2 DEF Consistent, Referenced
<1>19. PoolRows(R2, src, t[src], b, x, p)
  <2>1. CASE x = "d"
    <3>1. \A c \in Backups : Has(R2, p, c, "d") <=> c \in {b, src}
      BY <1>1, <2>1
    <3>2. \A q \in Pools : Has(R2, q, b, "d") <=> q = p
      BY <1>1, <1>3, <2>1
    <3>3. \A q \in Pools : Has(R2, q, b, "s") <=> Has(R2, q, src, "s")
      BY <1>2, <1>3, <2>1
    <3> QED
      BY <1>12, <2>1, <3>1, <3>2, <3>3 DEF PoolRows
  <2>2. CASE x = "s"
    <3>1. \A c \in Backups : Has(R2, p, c, "s") <=>
             c \in {b, src} \/ (t[src] \in Pools /\ Has(R, t[src], c, "d"))
      BY <1>2, <2>2
    <3>2. t[src] \in Pools => \A c \in Backups : Has(R2, t[src], c, "d") <=> Has(R, t[src], c, "d")
      BY <1>5, <1>10
    <3>3. \A q \in Pools : ~Has(R2, q, b, "d")
      BY <1>1, <1>3, <2>2
    <3>4. \A q \in Pools : Has(R2, q, b, "s") <=> q = p
      BY <1>2, <1>3, <2>2
    <3> QED
      BY <1>13, <2>2, <3>1, <3>2, <3>3, <3>4 DEF PoolRows
  <2> QED
    BY <1>6, <2>1, <2>2
<1>20. Alike(t, pl, R2, C)
  <2> SUFFICES ASSUME NEW e \in Backups, e \in C, t[e] \in Pools,
                      NEW q \in Pools, NEW c \in Backups, Live(pl, q), Has(R2, q, e, "s"),
                      Has(R2, t[e], c, "d") \/ (c \in C /\ t[c] = t[e])
               PROVE  Has(R2, q, c, "s")
    BY DEF Alike
  <2>1. q # p /\ e # b /\ t[e] # p
    BY <1>4, <1>5, <1>6, <1>7, <1>8, Names
  <2>2. Has(R, q, e, "s")
    BY <1>2, <2>1
  <2>3. Has(R, t[e], c, "d") \/ (c \in C /\ t[c] = t[e])
    BY <1>10, <2>1
  <2>4. Has(R, q, c, "s")
    BY <2>2, <2>3 DEF Consistent, Alike
  <2> QED
    BY <1>2, <2>4
<1> QED
  BY <1>14, <1>15, <1>16, <1>17, <1>18, <1>19, <1>20 DEF Consistent
\* A directory d moves from its place into the pool, and a link takes its place.
LEMMA DirPooled ==
    ASSUME NEW t, NEW s, NEW pl, NEW R, NEW ren, NEW C, NEW t2, NEW s2, NEW pl2,
           NEW b \in Backups, NEW src \in Backups, NEW p \in Pools,
           Values(t, s, pl), Consistent(t, s, pl, R, ren, C), b # src, src \in C, src \notin ren,
           pl[p] = "unused", t[src] = "dir", t[b] = "none", PoolRows(R, src, t[src], b, "d", p),
           t2 = [t EXCEPT ![src] = p],
           s2 = [s EXCEPT ![p] = s[src], ![src] = "none"],
           pl2 = [pl EXCEPT ![p] = "full"]
    PROVE  Consistent(t2, s2, pl2, R, ren, C)
<1>1. t2[src] = p /\ \A c \in Backups : c # src => t2[c] = t[c]
  BY DEF Values
<1>2. /\ s2[p] = s[src] /\ s2[src] = "none"
      /\ \A c \in Backups \cup Pools : c # src /\ c # p => s2[c] = s[c]
  BY Names DEF Values
<1>3. \A q \in Pools : q # p => s2[q] = s[q]
  BY <1>2, Names
<1>4. \A c \in Backups : c # src => s2[c] = s[c]
  BY <1>2, Names
<1>5. ~Live(pl, p) /\ Live(pl2, p) /\ pl2[p] = "full"
      /\ \A q \in Pools : q # p => pl2[q] = pl[q] /\ (Live(pl2, q) <=> Live(pl, q))
  BY DEF Live, Values
<1>6. s[p] = "none" /\ (\A c \in Backups : t[c] # p) /\ \A c \in Backups \cup Pools : s[c] # p
  BY <1>5 DEF Consistent, Shape
<1>7. /\ \A c \in Backups : Has(R, p, c, "d") <=> c \in {b, src}
      /\ \A c \in Backups : ~Has(R, p, c, "s")
      /\ \A q \in Pools : Has(R, q, b, "d") <=> q = p
      /\ \A q \in Pools : Has(R, q, b, "s") <=> Has(R, q, src, "s")
  BY DEF PoolRows
<1>8. Shape(t2, s2, pl2)
  <2>1. \A c \in Backups : t2[c] # "dir" => s2[c] = "none"
    BY <1>1, <1>2, <1>4 DEF Consistent, Shape
  <2>2. \A q \in Pools : ~Live(pl2, q) => s2[q] = "none"
    BY <1>3, <1>5 DEF Consistent, Shape
  <2>3. \A c \in Backups : t2[c] \in Pools => pl2[t2[c]] # "unused"
    BY <1>1, <1>5 DEF Consistent, Shape
  <2>4. ASSUME NEW c \in Backups \cup Pools, s2[c] \in Pools PROVE pl2[s2[c]] # "unused"
    <3>1. PICK e \in Backups \cup Pools : s[e] = s2[c]
      BY <1>2, <2>4, Names
    <3>2. pl[s2[c]] # "unused"
      BY <2>4, <3>1 DEF Consistent, Shape
    <3> QED
      BY <1>5, <2>4, <3>2
  <2> QED
    BY <2>1, <2>2, <2>3, <2>4 DEF Shape
<1>9. Kinds(t2, s2, R)
  <2>1. \A c \in Backups : t2[c] \in Pools => \A e \in Backups : ~Has(R, t2[c], e, "s")
    BY <1>1, <1>7 DEF Consistent, Kinds
  <2>2. ASSUME NEW c \in Backups \cup Pools, s2[c] \in Pools
        PROVE s2[s2[c]] = "none" /\ \A e \in Backups : t2[e] # s2[c] /\ ~Has(R, s2[c], e, "d")
    <3>1. PICK e \in Backups \cup Pools : s[e] = s2[c]
      BY <1>2, <2>2, Names
    <3>2. s[s[e]] = "none" /\ \A g \in Backups : t[g] # s[e] /\ ~Has(R, s[e], g, "d")
      BY <2>2, <3>1 DEF Consistent, Kinds
    <3>3. s[e] # p
      BY <1>6
    <3> QED
      BY <1>1, <1>3, <2>2, <3>1, <3>2, <3>3
  <2>3. \A q \in Pools, c \in Backups : Has(R, q, c, "s") =>
           s2[q] = "none" /\ \A e \in Backups : ~Has(R, q, e, "d")
    BY <1>3, <1>7 DEF Consistent, Kinds
  <2> QED
    BY <2>1, <2>2, <2>3 DEF Kinds
<1>10. Counted(t2, s2, pl2, R, C)
  <2>1. ASSUME NEW c \in Backups, c \in C, t2[c] \in Pools, Live(pl2, t2[c])
        PROVE Has(R, t2[c], c, "d")
    BY <1>1, <1>5, <1>6, <1>7, <2>1 DEF Consistent, Counted
  <2>2. ASSUME NEW c \in Backups, c \in C, t2[c] = "dir", s2[c] \in Pools, Live(pl2, s2[c])
        PROVE Has(R, s2[c], c, "s")
    <3>1. c # src
      BY <1>1, <2>2, Names
    <3> QED
      BY <1>1, <1>4, <1>5, <1>6, <2>2, <3>1 DEF Consistent, Counted
  <2> QED
    BY <2>1, <2>2 DEF Counted
<1>11. Closed(s2, pl2, R)
  <2>1. ASSUME NEW q \in Pools, NEW c \in Backups, Has(R, q, c, "d"), s2[q] \in Pools,
               Live(pl2, s2[q])
        PROVE Has(R, s2[q], c, "s")
    <3>1. CASE q = p
      <4>1. s2[q] = s[src] /\ s[src] # p
        BY <1>2, <1>6, <3>1
      <4>2. Has(R, s[src], src, "s")
        BY <1>5, <2>1, <4>1 DEF Consistent, Counted
      <4> QED
        BY <1>7, <2>1, <3>1, <4>1, <4>2
    <3>2. CASE q # p
      BY <1>3, <1>5, <1>6, <2>1, <3>2 DEF Consistent, Closed
    <3> QED
      BY <3>1, <3>2
  <2>2. ASSUME NEW q \in Pools, NEW g \in Pools, NEW c \in Backups, NEW e \in Backups,
               Has(R, q, c, "d"), Has(R, q, e, "d"), Live(pl2, q), Live(pl2, g), Has(R, g, c, "s")
        PROVE Has(R, g, e, "s")
    <3>1. g # p
      BY <1>7, <2>2
    <3>2. CASE q = p
      BY <1>7, <2>2, <3>2
    <3>3. CASE q # p
      BY <1>5, <2>2, <3>1, <3>3 DEF Consistent, Closed
    <3> QED
      BY <3>2, <3>3
  <2> QED
    BY <2>1, <2>2 DEF Closed
<1>12. Agree(t2, s2, pl2, R, ren)
  <2>1. ASSUME NEW q \in Pools, NEW c \in Backups \ ren, Has(R, q, c, "d"), Reached(t2, pl2, q)
        PROVE t2[c] \in {q, "none"}
    <3>1. CASE q = p
      BY <1>1, <1>7, <2>1, <3>1
    <3>2. CASE q # p
      <4>2. Reached(t, pl, q)
        BY <1>1, <1>5, <2>1, <3>2 DEF Reached
      <4>1. t[c] \in {q, "none"}
        BY <2>1, <4>2 DEF Consistent, Agree
      <4> QED
        BY <1>1, <4>1, Names
    <3> QED
      BY <3>1, <3>2
  <2>2. ASSUME NEW q \in Pools, NEW c \in Backups \ ren, Has(R, q, c, "s"), Live(pl2, q)
        PROVE Sees(t2, s2, c) \in {q, "none"}
    <3>1. q # p
      BY <1>7, <2>2
    <3>2. Sees(t, s, c) \in {q, "none"}
      BY <1>5, <2>2, <3>1 DEF Consistent, Agree
    <3>3. CASE c = src
      BY <1>1, <1>2, <3>2, <3>3, Names DEF Sees
    <3>4. CASE c # src
      <4>1. t2[c] = t[c] /\ t[c] # p /\ s2[c] = s[c]
        BY <1>1, <1>4, <1>6, <3>4
      <4> QED
        BY <1>3, <3>2, <4>1 DEF Sees
    <3> QED
      BY <3>3, <3>4
  <2>3. ASSUME NEW q \in Pools, NEW g \in Pools, NEW c \in Backups, Has(R, q, c, "d"),
               Has(R, g, c, "d"), Live(pl2, q), Live(pl2, g)
        PROVE q = g
    <3>1. ASSUME NEW k \in Pools, k # p, Live(pl2, k), Has(R, k, src, "d") PROVE FALSE
      <4>1. t[src] \in {k, "none"}
        BY <1>5, <3>1 DEF Consistent, Agree, Reached
      <4> QED
        BY <4>1, Names
    <3>2. CASE q = p \/ g = p
      BY <1>7, <2>3, <3>1, <3>2
    <3>3. CASE q # p /\ g # p
      BY <1>5, <2>3, <3>3 DEF Consistent, Agree
    <3> QED
      BY <3>2, <3>3
  <2> QED
    BY <2>1, <2>2, <2>3 DEF Agree
<1>13. Referenced(pl2, R, Pools)
  BY <1>5, <1>7 DEF Consistent, Referenced
<1>14. Alike(t2, pl2, R, C)
  <2> SUFFICES ASSUME NEW e \in Backups, e \in C, t2[e] \in Pools,
                      NEW q \in Pools, NEW c \in Backups, Live(pl2, q), Has(R, q, e, "s"),
                      Has(R, t2[e], c, "d") \/ (c \in C /\ t2[c] = t2[e])
               PROVE  Has(R, q, c, "s")
    BY DEF Alike
  <2>1. CASE e = src
    <3>1. c \in {b, src}
      BY <1>1, <1>6, <1>7, <2>1
    <3> QED
      BY <1>7, <2>1, <3>1
  <2>2. CASE e # src
    <3>1. t2[e] = t[e] /\ t[e] # p /\ q # p /\ Live(pl, q)
      BY <1>1, <1>5, <1>6, <1>7, <2>2
    <3>2. Has(R, t[e], c, "d") \/ (c \in C /\ t[c] = t[e])
      BY <1>1, <3>1
    <3> QED
      BY <3>1, <3>2 DEF Consistent, Alike
  <2> QED
    BY <2>1, <2>2
<1> QED
  BY <1>8, <1>9, <1>10, <1>11, <1>12, <1>13, <1>14 DEF Consistent

\* A directory s moves from its place into the pool, and a link takes its place.
LEMMA SubPooled ==
    ASSUME NEW t, NEW s, NEW pl, NEW R, NEW ren, NEW C, NEW s2, NEW pl2,
           NEW b \in Backups, NEW src \in Backups, NEW p \in Pools, NEW h,
           Values(t, s, pl), Consistent(t, s, pl, R, ren, C), b # src, src \notin ren,
           \A c \in Backups : c \in C => c \notin ren,
           h = (IF t[src] \in Pools THEN t[src] ELSE src),
           pl[p] = "unused", t[src] # "none", s[h] = "dir", t[b] = "dir", s[b] = "none",
           PoolRows(R, src, t[src], b, "s", p),
           s2 = [s EXCEPT ![h] = p],
           pl2 = [pl EXCEPT ![p] = "full"]
    PROVE  Consistent(t, s2, pl2, R, ren, C)
<1>1. h \in Backups \cup Pools /\ (h \in Pools => h = t[src]) /\ (h \notin Pools => h = src)
  BY Names
<1>2. s2[h] = p /\ \A c \in Backups \cup Pools : c # h => s2[c] = s[c]
  BY <1>1 DEF Values
<1>3. h \notin Pools => t[src] = "dir"
  BY <1>1 DEF Values, Places
<1>4. h \in Pools => Live(pl, h)
  BY Names DEF Consistent, Shape
<1>5. ~Live(pl, p) /\ Live(pl2, p) /\ pl2[p] = "full"
      /\ \A q \in Pools : q # p => pl2[q] = pl[q] /\ (Live(pl2, q) <=> Live(pl, q))
  BY DEF Live, Values
<1>6. s[p] = "none" /\ (\A c \in Backups : t[c] # p) /\ \A c \in Backups \cup Pools : s[c] # p
  BY <1>5 DEF Consistent, Shape
<1>7. h # p /\ s2[p] = "none"
  BY <1>2, <1>4, <1>5, <1>6
<1>8. /\ \A c \in Backups : Has(R, p, c, "s") <=>
               c \in {b, src} \/ (t[src] \in Pools /\ Has(R, t[src], c, "d"))
      /\ \A c \in Backups : ~Has(R, p, c, "d")
      /\ \A q \in Pools : ~Has(R, q, b, "d")
  BY DEF PoolRows
<1>9. Shape(t, s2, pl2)
  <2>1. \A c \in Backups : t[c] # "dir" => s2[c] = "none"
    BY <1>1, <1>2, <1>3, Names DEF Consistent, Shape
  <2>2. \A q \in Pools : ~Live(pl2, q) => s2[q] = "none"
    BY <1>2, <1>4, <1>5 DEF Consistent, Shape
  <2>3. \A c \in Backups : t[c] \in Pools => pl2[t[c]] # "unused"
    BY <1>5 DEF Consistent, Shape
  <2>4. \A c \in Backups \cup Pools : s2[c] \in Pools => pl2[s2[c]] # "unused"
    BY <1>2, <1>5 DEF Consistent, Shape
  <2> QED
    BY <2>1, <2>2, <2>3, <2>4 DEF Shape
<1>10. Kinds(t, s2, R)
  <2>1. \A c \in Backups : t[c] \in Pools => \A e \in Backups : ~Has(R, t[c], e, "s")
    BY DEF Consistent, Kinds
  <2>2. ASSUME NEW c \in Backups \cup Pools, s2[c] \in Pools
        PROVE s2[s2[c]] = "none" /\ \A e \in Backups : t[e] # s2[c] /\ ~Has(R, s2[c], e, "d")
    <3>1. CASE c = h
      BY <1>2, <1>6, <1>7, <1>8, <3>1
    <3>2. CASE c # h
      <4>1. s2[c] = s[c] /\ s[s[c]] = "none"
            /\ \A e \in Backups : t[e] # s[c] /\ ~Has(R, s[c], e, "d")
        BY <1>2, <2>2, <3>2 DEF Consistent, Kinds
      <4>2. s[c] # h
        BY <4>1
      <4> QED
        BY <1>2, <2>2, <4>1, <4>2
    <3> QED
      BY <3>1, <3>2
  <2>3. \A q \in Pools, c \in Backups : Has(R, q, c, "s") =>
           s2[q] = "none" /\ \A e \in Backups : ~Has(R, q, e, "d")
    BY <1>2 DEF Consistent, Kinds
  <2> QED
    BY <2>1, <2>2, <2>3 DEF Kinds
<1>11. Counted(t, s2, pl2, R, C)
  <2>1. ASSUME NEW c \in Backups, c \in C, t[c] \in Pools, Live(pl2, t[c])
        PROVE Has(R, t[c], c, "d")
    BY <1>5, <1>6, <2>1 DEF Consistent, Counted
  <2>2. ASSUME NEW c \in Backups, c \in C, t[c] = "dir", s2[c] \in Pools, Live(pl2, s2[c])
        PROVE Has(R, s2[c], c, "s")
    <3>1. CASE c = h
      BY <1>1, <1>2, <1>8, <3>1, Names
    <3>2. CASE c # h
      BY <1>2, <1>5, <1>6, <2>2, <3>2 DEF Consistent, Counted
    <3> QED
      BY <3>1, <3>2
  <2> QED
    BY <2>1, <2>2 DEF Counted
<1>12. Closed(s2, pl2, R)
  <2>1. ASSUME NEW q \in Pools, NEW c \in Backups, Has(R, q, c, "d"), s2[q] \in Pools,
               Live(pl2, s2[q])
        PROVE Has(R, s2[q], c, "s")
    <3>1. CASE q = h
      BY <1>1, <1>2, <1>8, <2>1, <3>1
    <3>2. CASE q # h
      BY <1>2, <1>5, <1>6, <2>1, <3>2 DEF Consistent, Closed
    <3> QED
      BY <3>1, <3>2
  <2>2. ASSUME NEW q \in Pools, NEW g \in Pools, NEW c \in Backups, NEW e \in Backups,
               Has(R, q, c, "d"), Has(R, q, e, "d"), Live(pl2, q), Live(pl2, g), Has(R, g, c, "s")
        PROVE Has(R, g, e, "s")
    <3>1. q # p
      BY <1>8, <2>2
    <3>2. Live(pl, q)
      BY <1>5, <2>2, <3>1
    <3>3. CASE g # p
      BY <1>5, <2>2, <3>1, <3>3 DEF Consistent, Closed
    <3>4. CASE g = p
      <4>1. c # b
        BY <1>8, <2>2
      <4>2. ASSUME c = src PROVE q = t[src]
        <5>1. t[src] \in {q, "none"}
          BY <2>2, <3>2, <4>2 DEF Consistent, Agree, Reached
        <5> QED
          BY <5>1
      <4>3. ASSUME t[src] \in Pools, Has(R, t[src], c, "d") PROVE q = t[src]
        <5>1. Live(pl, t[src])
          BY <1>4, <4>3
        <5> QED
          BY <2>2, <3>2, <4>3, <5>1 DEF Consistent, Agree
      <4>4. q = t[src]
        BY <1>8, <2>2, <3>4, <4>1, <4>2, <4>3
      <4> QED
        BY <1>8, <2>2, <3>4, <4>4
    <3> QED
      BY <3>3, <3>4
  <2> QED
    BY <2>1, <2>2 DEF Closed
<1>13. Agree(t, s2, pl2, R, ren)
  <2>1. ASSUME NEW q \in Pools, NEW c \in Backups \ ren, Has(R, q, c, "d"), Reached(t, pl2, q)
        PROVE t[c] \in {q, "none"}
    <3>1. Reached(t, pl, q)
      BY <1>5, <1>8, <2>1 DEF Reached
    <3> QED
      BY <2>1, <3>1 DEF Consistent, Agree
  <2>2. ASSUME NEW q \in Pools, NEW c \in Backups \ ren, Has(R, q, c, "s"), Live(pl2, q)
        PROVE Sees(t, s2, c) \in {q, "none"}
    <3>1. CASE q # p
      <4>1. Sees(t, s, c) \in {q, "none"}
        BY <1>5, <2>2, <3>1 DEF Consistent, Agree
      <4>2. Sees(t, s2, c) = Sees(t, s, c)
        BY <1>2, <4>1, Names DEF Sees
      <4> QED
        BY <4>1, <4>2
    <3>2. CASE q = p /\ c = b
      <4>1. b # h /\ t[b] \notin Pools
        BY <1>1, Names
      <4> QED
        BY <1>2, <3>2, <4>1 DEF Sees
    <3>3. CASE q = p /\ c = src
      BY <1>2, <3>3 DEF Sees
    <3>4. CASE q = p /\ c \notin {b, src}
      <4>1. t[src] \in Pools /\ Has(R, t[src], c, "d") /\ h = t[src]
        BY <1>8, <2>2, <3>4
      <4>2. t[c] \in {t[src], "none"}
        BY <1>4, <4>1 DEF Consistent, Agree, Reached
      <4>3. CASE t[c] = t[src]
        BY <1>2, <3>4, <4>1, <4>3 DEF Sees
      <4>4. CASE t[c] = "none"
        <5>1. s[c] = "none" /\ c # h
          BY <4>1, <4>4, Names DEF Consistent, Shape
        <5> QED
          BY <1>2, <4>4, <5>1, Names DEF Sees
      <4> QED
        BY <4>2, <4>3, <4>4
    <3> QED
      BY <3>1, <3>2, <3>3, <3>4
  <2>3. ASSUME NEW q \in Pools, NEW g \in Pools, NEW c \in Backups, Has(R, q, c, "d"),
               Has(R, g, c, "d"), Live(pl2, q), Live(pl2, g)
        PROVE q = g
    <3>1. q # p /\ g # p
      BY <1>8, <2>3
    <3>2. Live(pl, q) /\ Live(pl, g)
      BY <1>5, <2>3, <3>1
    <3> QED
      BY <2>3, <3>2 DEF Consistent, Agree
  <2> QED
    BY <2>1, <2>2, <2>3 DEF Agree
<1>14. Referenced(pl2, R, Pools)
  BY <1>5, <1>8 DEF Consistent, Referenced
<1>15. Alike(t, pl2, R, C)
  <2> SUFFICES ASSUME NEW e \in Backups, e \in C, t[e] \in Pools,
                      NEW q \in Pools, NEW c \in Backups, Live(pl2, q), Has(R, q, e, "s"),
                      Has(R, t[e], c, "d") \/ (c \in C /\ t[c] = t[e])
               PROVE  Has(R, q, c, "s")
    BY DEF Alike
  <2>1. CASE q # p
    BY <1>5, <2>1 DEF Consistent, Alike
  <2>2. CASE q = p
    <3>1. e # b
      BY Names
    <3>2. ASSUME e # src PROVE t[src] \in Pools /\ t[e] = t[src]
      <4>1. t[src] \in Pools /\ Has(R, t[src], e, "d") /\ h = t[src]
        BY <1>8, <2>2, <3>1, <3>2
      <4>2. t[e] \in {t[src], "none"}
        BY <1>4, <4>1 DEF Consistent, Agree, Reached
      <4> QED
        BY <4>1, <4>2, Names
    <3>3. t[e] = t[src] /\ t[src] \in Pools /\ Live(pl, t[src])
      BY <1>4, <3>2
    <3>4. Has(R, t[src], c, "d")
      BY <3>3 DEF Consistent, Counted
    <3> QED
      BY <1>8, <2>2, <3>3, <3>4
  <2> QED
    BY <2>1, <2>2
<1> QED
  BY <1>9, <1>10, <1>11, <1>12, <1>13, <1>14, <1>15 DEF Consistent

\* The directory d moves back from the pool.
LEMMA DirBack ==
    ASSUME NEW t, NEW s, NEW pl, NEW R, NEW ren, NEW C, NEW t2, NEW s2, NEW pl2,
           NEW src \in Backups, NEW p \in Pools,
           Values(t, s, pl), Consistent(t, s, pl, R, ren, C), src \notin ren,
           t[src] = p, Has(R, p, src, "d"), \A c \in Backups : c # src => t[c] # p,
           t2 = [t EXCEPT ![src] = "dir"],
           s2 = [s EXCEPT ![src] = s[p], ![p] = "none"],
           pl2 = [pl EXCEPT ![p] = "gone"]
    PROVE  Consistent(t2, s2, pl2, R, ren, C)
<1>1. t2[src] = "dir" /\ \A c \in Backups : c # src => t2[c] = t[c]
  BY DEF Values
<1>2. s2[src] = s[p] /\ s2[p] = "none"
      /\ \A c \in Backups \cup Pools : c # src /\ c # p => s2[c] = s[c]
  BY Names DEF Values
<1>3. \A q \in Pools : q # p => s2[q] = s[q]
  BY <1>2, Names
<1>4. \A c \in Backups : c # src => s2[c] = s[c]
  BY <1>2, Names
<1>5. ~Live(pl2, p) /\ pl2[p] = "gone" /\ \A q \in Pools : q # p => pl2[q] = pl[q]
  BY DEF Live, Values
<1>6. \A q \in Pools : Live(pl2, q) => q # p /\ Live(pl, q)
  BY <1>5 DEF Live
<1>7. Shape(t2, s2, pl2)
  <2>1. \A c \in Backups : t2[c] # "dir" => s2[c] = "none"
    BY <1>1, <1>4 DEF Consistent, Shape
  <2>2. \A q \in Pools : ~Live(pl2, q) => s2[q] = "none"
    BY <1>2, <1>3, <1>5 DEF Consistent, Shape, Live
  <2>3. \A c \in Backups : t2[c] \in Pools => pl2[t2[c]] # "unused"
    BY <1>1, <1>5, Names DEF Consistent, Shape
  <2>4. ASSUME NEW c \in Backups \cup Pools, s2[c] \in Pools PROVE pl2[s2[c]] # "unused"
    <3>1. PICK e \in Backups \cup Pools : s[e] = s2[c]
      BY <1>2, <2>4, Names
    <3>2. pl[s2[c]] # "unused"
      BY <2>4, <3>1 DEF Consistent, Shape
    <3> QED
      BY <1>5, <2>4, <3>2
  <2> QED
    BY <2>1, <2>2, <2>3, <2>4 DEF Shape
<1>8. Kinds(t2, s2, R)
  <2>1. \A c \in Backups : t2[c] \in Pools => \A e \in Backups : ~Has(R, t2[c], e, "s")
    BY <1>1, Names DEF Consistent, Kinds
  <2>2. ASSUME NEW c \in Backups \cup Pools, s2[c] \in Pools
        PROVE s2[s2[c]] = "none" /\ \A e \in Backups : t2[e] # s2[c] /\ ~Has(R, s2[c], e, "d")
    <3>1. PICK e \in Backups \cup Pools : s[e] = s2[c]
      BY <1>2, <2>2, Names
    <3>2. s[s[e]] = "none" /\ \A g \in Backups : t[g] # s[e] /\ ~Has(R, s[e], g, "d")
      BY <2>2, <3>1 DEF Consistent, Kinds
    <3>3. s[e] # p
      BY <3>2
    <3> QED
      BY <1>1, <1>3, <2>2, <3>1, <3>2, <3>3, Names
  <2>3. \A q \in Pools, c \in Backups : Has(R, q, c, "s") =>
           s2[q] = "none" /\ \A e \in Backups : ~Has(R, q, e, "d")
    BY <1>2, <1>3 DEF Consistent, Kinds
  <2> QED
    BY <2>1, <2>2, <2>3 DEF Kinds
<1>9. Counted(t2, s2, pl2, R, C)
  <2>1. ASSUME NEW c \in Backups, c \in C, t2[c] \in Pools, Live(pl2, t2[c])
        PROVE Has(R, t2[c], c, "d")
    BY <1>1, <1>6, <2>1, Names DEF Consistent, Counted
  <2>2. ASSUME NEW c \in Backups, c \in C, t2[c] = "dir", s2[c] \in Pools, Live(pl2, s2[c])
        PROVE Has(R, s2[c], c, "s")
    <3>1. CASE c = src
      BY <1>2, <1>6, <2>2, <3>1 DEF Consistent, Closed
    <3>2. CASE c # src
      BY <1>1, <1>4, <1>6, <2>2, <3>2 DEF Consistent, Counted
    <3> QED
      BY <3>1, <3>2
  <2> QED
    BY <2>1, <2>2 DEF Counted
<1>10. Closed(s2, pl2, R)
  <2>1. \A q \in Pools, c \in Backups :
           Has(R, q, c, "d") /\ s2[q] \in Pools /\ Live(pl2, s2[q]) => Has(R, s2[q], c, "s")
    BY <1>2, <1>3, <1>6, Names DEF Consistent, Closed
  <2> QED
    BY <1>6, <2>1 DEF Consistent, Closed
<1>11. Agree(t2, s2, pl2, R, ren)
  <2>1. ASSUME NEW q \in Pools, NEW c \in Backups \ ren, Has(R, q, c, "d"), Reached(t2, pl2, q)
        PROVE t2[c] \in {q, "none"}
    <3>3. Reached(t, pl, q) /\ q # p
      BY <1>1, <1>6, <2>1, Names DEF Reached
    <3>1. t[c] \in {q, "none"}
      BY <2>1, <3>3 DEF Consistent, Agree
    <3>2. c # src
      BY <3>1, <3>3, Names
    <3> QED
      BY <1>1, <3>1, <3>2
  <2>2. ASSUME NEW q \in Pools, NEW c \in Backups \ ren, Has(R, q, c, "s"), Live(pl2, q)
        PROVE Sees(t2, s2, c) \in {q, "none"}
    <3>1. Sees(t, s, c) \in {q, "none"}
      BY <1>6, <2>2 DEF Consistent, Agree
    <3>2. CASE c = src
      BY <1>1, <1>2, <3>1, <3>2, Names DEF Sees
    <3>3. CASE c # src /\ t[c] = p
      BY <1>1, <1>2, <3>3 DEF Sees
    <3>4. CASE c # src /\ t[c] # p
      <4>1. t2[c] = t[c] /\ s2[c] = s[c] /\ (t[c] \in Pools => s2[t[c]] = s[t[c]])
        BY <1>1, <1>3, <1>4, <3>4
      <4>2. Sees(t2, s2, c) = Sees(t, s, c)
        BY <4>1 DEF Sees
      <4> QED
        BY <3>1, <4>2
    <3> QED
      BY <3>2, <3>3, <3>4
  <2>3. \A q, g \in Pools, c \in Backups :
           Has(R, q, c, "d") /\ Has(R, g, c, "d") /\ Live(pl2, q) /\ Live(pl2, g) => q = g
    BY <1>6 DEF Consistent, Agree
  <2> QED
    BY <2>1, <2>2, <2>3 DEF Agree
<1>12. Referenced(pl2, R, Pools)
  BY <1>6 DEF Consistent, Referenced
<1>13. Alike(t2, pl2, R, C)
  <2>1. \A c \in Backups : t2[c] \in Pools => t2[c] = t[c]
    BY <1>1, Names
  <2> QED
    BY <1>6, <2>1 DEF Consistent, Alike
<1> QED
  BY <1>7, <1>8, <1>9, <1>10, <1>11, <1>12, <1>13 DEF Consistent

\* The directory s moves back from the pool.
LEMMA SubBack ==
    ASSUME NEW t, NEW s, NEW pl, NEW R, NEW ren, NEW C, NEW s2, NEW pl2,
           NEW src \in Backups, NEW p \in Pools, NEW h,
           Values(t, s, pl), Consistent(t, s, pl, R, ren, C), src \notin ren,
           h = (IF t[src] \in Pools THEN t[src] ELSE src), t[src] # "none", s[h] = p,
           s2 = [s EXCEPT ![h] = "dir"],
           pl2 = [pl EXCEPT ![p] = "gone"]
    PROVE  Consistent(t, s2, pl2, R, ren, C)
<1>1. h \in Backups \cup Pools /\ (h \in Pools => h = t[src]) /\ (h \notin Pools => h = src)
  BY Names
<1>2. s2[h] = "dir" /\ \A c \in Backups \cup Pools : c # h => s2[c] = s[c]
  BY <1>1 DEF Values
<1>3. h \notin Pools => t[src] = "dir"
  BY <1>1 DEF Values, Places
<1>4. h \in Pools => Live(pl, h)
  BY Names DEF Consistent, Shape
<1>5. ~Live(pl2, p) /\ pl2[p] = "gone" /\ \A q \in Pools : q # p => pl2[q] = pl[q]
  BY DEF Live, Values
<1>6. \A q \in Pools : Live(pl2, q) => q # p /\ Live(pl, q)
  BY <1>5 DEF Live
<1>7. s[p] = "none" /\ p # h
  BY <1>1, Names DEF Consistent, Kinds
<1>8. Shape(t, s2, pl2)
  <2>1. \A c \in Backups : t[c] # "dir" => s2[c] = "none"
    BY <1>1, <1>2, <1>3, Names DEF Consistent, Shape
  <2>2. \A q \in Pools : ~Live(pl2, q) => s2[q] = "none"
    BY <1>2, <1>4, <1>5, <1>7 DEF Consistent, Shape, Live
  <2>3. \A c \in Backups : t[c] \in Pools => pl2[t[c]] # "unused"
    BY <1>5 DEF Consistent, Shape
  <2>4. \A c \in Backups \cup Pools : s2[c] \in Pools => pl2[s2[c]] # "unused"
    BY <1>2, <1>5, Names DEF Consistent, Shape
  <2> QED
    BY <2>1, <2>2, <2>3, <2>4 DEF Shape
<1>9. Kinds(t, s2, R)
  <2>1. ASSUME NEW c \in Backups \cup Pools, s2[c] \in Pools
        PROVE s2[s2[c]] = "none" /\ \A e \in Backups : t[e] # s2[c] /\ ~Has(R, s2[c], e, "d")
    <3>1. s2[c] = s[c]
      BY <1>2, <2>1, Names
    <3>2. s[s[c]] = "none" /\ \A e \in Backups : t[e] # s[c] /\ ~Has(R, s[c], e, "d")
      BY <2>1, <3>1 DEF Consistent, Kinds
    <3>3. s[c] # h
      BY <3>2, Names
    <3> QED
      BY <1>2, <2>1, <3>1, <3>2, <3>3
  <2>2. \A q \in Pools, c \in Backups : Has(R, q, c, "s") =>
           s2[q] = "none" /\ \A e \in Backups : ~Has(R, q, e, "d")
    BY <1>2, Names DEF Consistent, Kinds
  <2> QED
    BY <2>1, <2>2 DEF Consistent, Kinds
<1>10. Counted(t, s2, pl2, R, C)
  BY <1>2, <1>6, Names DEF Consistent, Counted
<1>11. Closed(s2, pl2, R)
  BY <1>2, <1>6, Names DEF Consistent, Closed
<1>12. Agree(t, s2, pl2, R, ren)
  <2>1. ASSUME NEW q \in Pools, NEW c \in Backups \ ren, Has(R, q, c, "s"), Live(pl2, q)
        PROVE Sees(t, s2, c) \in {q, "none"}
    <3>1. Sees(t, s, c) \in {q, "none"}
      BY <1>6, <2>1 DEF Consistent, Agree
    <3>2. Sees(t, s2, c) = Sees(t, s, c)
      BY <1>2, <1>6, <2>1, <3>1, Names DEF Sees
    <3> QED
      BY <3>1, <3>2
  <2>2. \A q \in Pools : Reached(t, pl2, q) => Reached(t, pl, q)
    BY <1>6 DEF Reached
  <2> QED
    BY <1>6, <2>1, <2>2 DEF Consistent, Agree
<1>13. Referenced(pl2, R, Pools)
  BY <1>6 DEF Consistent, Referenced
<1>14. Alike(t, pl2, R, C)
  BY <1>6 DEF Consistent, Alike
<1> QED
  BY <1>8, <1>9, <1>10, <1>11, <1>12, <1>13, <1>14 DEF Consistent
\* Rows go: of pool directories that are not there, or of paths that lead nowhere.
LEMMA RowsFewer ==
    ASSUME NEW t, NEW s, NEW pl, NEW R, NEW ren, NEW C, NEW R2,
           Consistent(t, s, pl, R, ren, C),
           \A q \in Pools, c \in Backups, x \in XS : Has(R2, q, c, x) => Has(R, q, c, x),
           \A q \in Pools, c \in Backups :
              Has(R, q, c, "d") /\ Live(pl, q) /\ t[c] = q => Has(R2, q, c, "d"),
           \A q \in Pools, c \in Backups :
              Has(R, q, c, "s") /\ Live(pl, q) /\ ~Has(R2, q, c, "s") =>
                 /\ ~(t[c] = "dir" /\ s[c] = q)
                 /\ t[c] \notin Pools
                 /\ \A p \in Pools : Reached(t, pl, p) => ~Has(R2, p, c, "d"),
           Referenced(pl, R2, Pools)
    PROVE  Consistent(t, s, pl, R2, ren, C)
<1>1. /\ \A q \in Pools, c \in Backups : Has(R2, q, c, "d") => Has(R, q, c, "d")
      /\ \A q \in Pools, c \in Backups : Has(R2, q, c, "s") => Has(R, q, c, "s")
  BY DEF XS
<1>2. Kinds(t, s, R2)
  BY <1>1 DEF Consistent, Kinds
<1>3. Counted(t, s, pl, R2, C)
  BY DEF Consistent, Counted
<1>4. Closed(s, pl, R2)
  <2>1. ASSUME NEW p \in Pools, NEW c \in Backups, Has(R2, p, c, "d"), s[p] \in Pools,
               Live(pl, s[p])
        PROVE Has(R2, s[p], c, "s")
    <3>1. Reached(t, pl, p)
      BY <2>1, Names DEF Consistent, Shape, Reached
    <3>2. Has(R, s[p], c, "s")
      BY <1>1, <2>1 DEF Consistent, Closed
    <3> QED
      BY <2>1, <3>1, <3>2
  <2>2. ASSUME NEW p \in Pools, NEW q \in Pools, NEW b \in Backups, NEW c \in Backups,
               Has(R2, p, b, "d"), Has(R2, p, c, "d"), Live(pl, p), Live(pl, q), Has(R2, q, b, "s")
        PROVE Has(R2, q, c, "s")
    <3>1. Has(R, p, b, "d") /\ Has(R, p, c, "d") /\ Has(R, q, b, "s")
      BY <1>1, <2>2
    <3>2. Has(R, q, c, "s")
      BY <2>2, <3>1 DEF Consistent, Closed
    <3>3. Reached(t, pl, p)
      BY <2>2 DEF Reached
    <3> QED
      BY <2>2, <3>2, <3>3
  <2> QED
    BY <2>1, <2>2 DEF Closed
<1>5. Agree(t, s, pl, R2, ren)
  BY <1>1 DEF Consistent, Agree
<1>6. Alike(t, pl, R2, C)
  <2> SUFFICES ASSUME NEW e \in Backups, e \in C, t[e] \in Pools,
                      NEW q \in Pools, NEW c \in Backups, Live(pl, q), Has(R2, q, e, "s"),
                      Has(R2, t[e], c, "d") \/ (c \in C /\ t[c] = t[e])
               PROVE  Has(R2, q, c, "s")
    BY DEF Alike
  <2>1. Has(R, q, c, "s")
    BY <1>1 DEF Consistent, Alike
  <2>2. Reached(t, pl, t[e])
    BY DEF Reached
  <2> QED
    BY <2>1, <2>2
<1> QED
  BY <1>2, <1>3, <1>4, <1>5, <1>6 DEF Consistent

\* The rows that check_symlinks keeps, with those found in the referenced pool directories.
KeptRows(t, s, pl, R, ren, R2, deep) ==
    /\ \A q \in Pools, c \in Backups :
          Has(R2, q, c, "d") <=> Has(R, q, c, "d") /\ Live(pl, q) /\ c \notin ren /\ t[c] = q
    /\ \A q \in Pools, c \in Backups :
          Has(R2, q, c, "s") <=>
             \/ Has(R, q, c, "s") /\ Live(pl, q) /\ c \notin ren /\ Sees(t, s, c) = q
             \/ deep /\ \E p \in Pools : Has(R2, p, c, "d") /\ s[p] = q

\* the pool directories that remove_unknown deletes
Unreferenced(pl, R) ==
    {p \in Pools : Live(pl, p) /\ \A c \in Backups : ~Has(R, p, c, "d") /\ ~Has(R, p, c, "s")}

\* remove_unknown
LEMMA UnknownRemoved ==
    ASSUME NEW t, NEW s, NEW pl, NEW R, NEW ren, NEW C, NEW t2, NEW s2, NEW pl2, NEW R2,
           NEW deep, Values(t, s, pl), Consistent(t, s, pl, R, ren, C),
           \A c \in Backups : c \in C => c \notin ren,
           KeptRows(t, s, pl, R, ren, R2, deep),
           pl2 = [p \in Pools |-> IF p \in Unreferenced(pl, R2) THEN "gone" ELSE pl[p]],
           s2 = [c \in Backups \cup Pools |->
                   IF c \in ren \/ c \in Unreferenced(pl, R2) THEN "none" ELSE s[c]],
           t2 = [b \in Backups |-> IF b \in ren THEN "none" ELSE t[b]]
    PROVE  Consistent(t2, s2, pl2, R2, ren, C)
<1>1. \A q \in Pools, c \in Backups :
         Has(R2, q, c, "d") <=> Has(R, q, c, "d") /\ Live(pl, q) /\ c \notin ren /\ t[c] = q
  BY DEF KeptRows
<1>2. \A q \in Pools, c \in Backups :
         Has(R2, q, c, "s") <=>
            \/ Has(R, q, c, "s") /\ Live(pl, q) /\ c \notin ren /\ Sees(t, s, c) = q
            \/ deep /\ \E p \in Pools : Has(R2, p, c, "d") /\ s[p] = q
  BY DEF KeptRows
<1>3. \A q \in Pools : /\ Live(pl2, q) => Live(pl, q) /\ q \notin Unreferenced(pl, R2)
                       /\ ~Live(pl2, q) => ~Live(pl, q) \/ q \in Unreferenced(pl, R2)
                       /\ pl[q] # "unused" => pl2[q] # "unused"
  BY DEF Live
<1>4. \A c \in Backups : t2[c] \in {t[c], "none"} /\ (c \notin ren => t2[c] = t[c])
                         /\ (c \in ren => t2[c] = "none")
  OBVIOUS
<1>5. \A c \in Backups : c \notin Unreferenced(pl, R2)
  BY Names DEF Unreferenced
<1>6. /\ \A c \in Backups \cup Pools : s2[c] \in {s[c], "none"}
      /\ \A c \in Backups : (c \notin ren => s2[c] = s[c]) /\ (c \in ren => s2[c] = "none")
      /\ \A q \in Pools : q \in Unreferenced(pl, R2) => s2[q] = "none"
  BY <1>5
<1> HIDE DEF KeptRows
<1>7. Shape(t2, s2, pl2)
  <2>1. \A c \in Backups : t2[c] # "dir" => s2[c] = "none"
    BY <1>4, <1>6 DEF Consistent, Shape
  <2>2. \A q \in Pools : ~Live(pl2, q) => s2[q] = "none"
    BY <1>3, <1>6 DEF Consistent, Shape
  <2>3. \A c \in Backups : t2[c] \in Pools => pl2[t2[c]] # "unused"
    BY <1>3, <1>4, Names DEF Consistent, Shape
  <2>4. \A c \in Backups \cup Pools : s2[c] \in Pools => pl2[s2[c]] # "unused"
    BY <1>3, <1>6, Names DEF Consistent, Shape
  <2> QED
    BY <2>1, <2>2, <2>3, <2>4 DEF Shape
<1>8. Kinds(t2, s2, R2)
  <2>1. ASSUME NEW c \in Backups, t2[c] \in Pools, NEW e \in Backups, Has(R2, t2[c], e, "s")
        PROVE FALSE
    <3>1. t2[c] = t[c]
      BY <1>4, <2>1, Names
    <3>2. ~Has(R, t[c], e, "s")
      BY <2>1, <3>1 DEF Consistent, Kinds
    <3>3. \A p \in Pools : s[p] # t[c]
      BY <2>1, <3>1 DEF Consistent, Kinds
    <3> QED
      BY <1>2, <2>1, <3>1, <3>2, <3>3
  <2>2. ASSUME NEW c \in Backups \cup Pools, s2[c] \in Pools
        PROVE s2[s2[c]] = "none" /\ \A e \in Backups : t2[e] # s2[c] /\ ~Has(R2, s2[c], e, "d")
    <3>1. s2[c] = s[c]
      BY <1>6, <2>2, Names
    <3>2. s[s[c]] = "none" /\ \A e \in Backups : t[e] # s[c] /\ ~Has(R, s[c], e, "d")
      BY <2>2, <3>1 DEF Consistent, Kinds
    <3> QED
      BY <1>1, <1>4, <1>6, <2>2, <3>1, <3>2, Names
  <2>3. ASSUME NEW q \in Pools, NEW c \in Backups, Has(R2, q, c, "s")
        PROVE s2[q] = "none" /\ \A e \in Backups : ~Has(R2, q, e, "d")
    <3>1. CASE Has(R, q, c, "s")
      BY <1>1, <1>6, <3>1 DEF Consistent, Kinds
    <3>2. CASE \E p \in Pools : s[p] = q
      <4>1. s[q] = "none" /\ \A e \in Backups : ~Has(R, q, e, "d")
        BY <3>2 DEF Consistent, Kinds
      <4> QED
        BY <1>1, <1>6, <4>1
    <3> QED
      BY <1>2, <2>3, <3>1, <3>2
  <2> QED
    BY <2>1, <2>2, <2>3 DEF Kinds
<1>9. Counted(t2, s2, pl2, R2, C)
  <2>1. ASSUME NEW c \in Backups, c \in C, t2[c] \in Pools, Live(pl2, t2[c])
        PROVE Has(R2, t2[c], c, "d")
    <3>1. c \notin ren /\ t2[c] = t[c] /\ Live(pl, t[c])
      BY <1>3, <1>4, <2>1
    <3>2. Has(R, t[c], c, "d")
      BY <2>1, <3>1 DEF Consistent, Counted
    <3> QED
      BY <1>1, <2>1, <3>1, <3>2
  <2>2. ASSUME NEW c \in Backups, c \in C, t2[c] = "dir", s2[c] \in Pools, Live(pl2, s2[c])
        PROVE Has(R2, s2[c], c, "s")
    <3>1. c \notin ren /\ t2[c] = t[c] /\ s2[c] = s[c] /\ Live(pl, s[c])
      BY <1>3, <1>4, <1>6, <2>2
    <3>2. Has(R, s[c], c, "s")
      BY <2>2, <3>1 DEF Consistent, Counted
    <3>3. Sees(t, s, c) = s[c]
      BY <2>2, <3>1, Names DEF Sees
    <3> QED
      BY <1>2, <2>2, <3>1, <3>2, <3>3
  <2> QED
    BY <2>1, <2>2 DEF Counted
<1>10. Closed(s2, pl2, R2)
  <2>1. ASSUME NEW p \in Pools, NEW c \in Backups, Has(R2, p, c, "d"), s2[p] \in Pools,
               Live(pl2, s2[p])
        PROVE Has(R2, s2[p], c, "s")
    <3>1. s2[p] = s[p] /\ Live(pl, s[p])
      BY <1>3, <1>6, <2>1, Names
    <3>2. Has(R, p, c, "d") /\ c \notin ren /\ t[c] = p
      BY <1>1, <2>1
    <3>3. Has(R, s[p], c, "s")
      BY <2>1, <3>1, <3>2 DEF Consistent, Closed
    <3>4. Sees(t, s, c) = s[p]
      BY <3>2 DEF Sees
    <3> QED
      BY <1>2, <2>1, <3>1, <3>2, <3>3, <3>4
  <2>2. ASSUME NEW p \in Pools, NEW q \in Pools, NEW b \in Backups, NEW c \in Backups,
               Has(R2, p, b, "d"), Has(R2, p, c, "d"), Live(pl2, p), Live(pl2, q),
               Has(R2, q, b, "s")
        PROVE Has(R2, q, c, "s")
    <3>1. /\ Has(R, p, b, "d") /\ t[b] = p
          /\ Has(R, p, c, "d") /\ t[c] = p /\ c \notin ren
          /\ Live(pl, p) /\ Live(pl, q)
      BY <1>1, <1>3, <2>2
    <3>2. CASE Has(R, q, b, "s") /\ Sees(t, s, b) = q
      <4>1. Has(R, q, c, "s")
        BY <3>1, <3>2 DEF Consistent, Closed
      <4>2. Sees(t, s, c) = q
        BY <3>1, <3>2 DEF Sees
      <4> QED
        BY <1>2, <3>1, <4>1, <4>2
    <3>3. CASE deep /\ \E g \in Pools : Has(R2, g, b, "d") /\ s[g] = q
      <4>1. s[p] = q
        BY <1>1, <3>1, <3>3
      <4> QED
        BY <1>2, <2>2, <3>3, <4>1
    <3> QED
      BY <1>2, <2>2, <3>2, <3>3
  <2> QED
    BY <2>1, <2>2 DEF Closed
<1>11. Agree(t2, s2, pl2, R2, ren)
  <2>1. \A q \in Pools, c \in Backups : Has(R2, q, c, "d") => t[c] = q /\ t2[c] = q
    BY <1>1, <1>4
  <2>2. ASSUME NEW q \in Pools, NEW c \in Backups \ ren, Has(R2, q, c, "s"), Live(pl2, q)
        PROVE Sees(t2, s2, c) \in {q, "none"}
    <3>1. Sees(t, s, c) = q
      BY <1>2, <2>1, <2>2 DEF Sees
    <3>2. t2[c] = t[c]
      BY <1>4
    <3>3. Sees(t2, s2, c) \in {Sees(t, s, c), "none"}
      BY <1>6, <3>2 DEF Sees
    <3> QED
      BY <3>1, <3>3
  <2> QED
    BY <2>1, <2>2 DEF Agree
<1>12. Referenced(pl2, R2, Pools)
  BY <1>3 DEF Referenced, Unreferenced
<1>13. Alike(t2, pl2, R2, C)
  <2> SUFFICES ASSUME NEW e \in Backups, e \in C, t2[e] \in Pools,
                      NEW q \in Pools, NEW c \in Backups, Live(pl2, q), Has(R2, q, e, "s"),
                      Has(R2, t2[e], c, "d") \/ (c \in C /\ t2[c] = t2[e])
               PROVE  Has(R2, q, c, "s")
    BY DEF Alike
  <2>1. t2[e] = t[e] /\ e \notin ren /\ Live(pl, q)
    BY <1>3, <1>4
  <2>2. c \notin ren /\ t[c] = t[e]
    BY <1>1, <1>4, <2>1
  <2>3. Has(R, t[e], c, "d") \/ (c \in C /\ t[c] = t[e])
    BY <1>1, <2>1, <2>2
  <2>4. CASE Has(R, q, e, "s") /\ Sees(t, s, e) = q
    <3>1. Has(R, q, c, "s")
      BY <2>1, <2>3, <2>4 DEF Consistent, Alike
    <3>2. Sees(t, s, c) = q
      BY <2>2, <2>4, <2>1 DEF Sees
    <3> QED
      BY <1>2, <2>1, <2>2, <3>1, <3>2
  <2>5. CASE deep /\ \E g \in Pools : Has(R2, g, e, "d") /\ s[g] = q
    <3>1. Has(R2, t[e], e, "d") /\ s[t[e]] = q /\ Live(pl, t[e])
      BY <1>1, <2>1, <2>5
    <3>2. Has(R, t[e], c, "d")
      BY <2>1, <2>2, <2>3, <3>1 DEF Consistent, Counted
    <3>3. Has(R2, t[e], c, "d")
      BY <1>1, <2>1, <2>2, <3>1, <3>2
    <3> QED
      BY <1>2, <2>1, <2>5, <3>1, <3>3
  <2> QED
    BY <1>2, <2>4, <2>5
<1> QED
  BY <1>7, <1>8, <1>9, <1>10, <1>11, <1>12, <1>13 DEF Consistent

-------------------------------------------------------------------------------
(***************************************************************************)
(* Types.                                                                  *)
(***************************************************************************)

\* the backups that have been started
Used == {b \in Backups : status[b] # "unused"}

\* the types, and that only finitely many backups have been started (Newest needs it)
TypeInv == TypeOK /\ IsFiniteSet(Used) /\ renamed \subseteq Used

\* An operation is about backups and pool directories that exist.
JobTypes ==
    /\ job.step \in LinkSteps => job.b \in Backups /\ job.p \in Pools /\ last \in Backups
    /\ job.step \in RemoveSteps => job.b \in Backups
    /\ job.step \in RemoveSteps \ {"scan"} => job.p \in Pools

-------------------------------------------------------------------------------
(***************************************************************************)
(* The state as the replay of the journal would leave it: a directory that *)
(* is in the pool and not yet linked from its place counts as linked.      *)
(***************************************************************************)
HomeOf(t, b) == IF t[b] \in Pools THEN t[b] ELSE b

\* what is at x of b
PlaceOf(t, s, b, x) ==
    IF x = "d" THEN t[b] ELSE IF t[b] = "none" THEN "none" ELSE s[HomeOf(t, b)]

\* Torn, by the journal, the places, the pool directories and the renamed backups
TornOf(j, t, s, pl, ren) ==
    {e \in j : /\ (IF e[1][1] \in ren THEN "none" ELSE PlaceOf(t, s, e[1][1], e[1][2])) # e[2]
               /\ e[2] = "dir" \/ (e[2] \in Pools /\ pl[e[2]] \notin {"unused", "gone"})}

\* the places after the replay of the entries T
ReplayTop(T, t) ==
    [b \in Backups |-> IF \E e \in T : e[1] = <<b, "d">>
                       THEN (CHOOSE e \in T : e[1] = <<b, "d">>)[2] ELSE t[b]]

ReplaySub(T, t, s) ==
    [c \in Backups \cup Pools |->
       IF \E e \in T : e[1][2] = "s" /\ HomeOf(t, e[1][1]) = c
       THEN (CHOOSE e \in T : e[1][2] = "s" /\ HomeOf(t, e[1][1]) = c)[2] ELSE s[c]]

\* the places as the replay would leave them now
seenTop == ReplayTop(TornOf(journal, top, sub, pool, renamed), top)
seenSub == ReplaySub(TornOf(journal, top, sub, pool, renamed), top, sub)

(***************************************************************************)
(* The backups.                                                            *)
(***************************************************************************)
CountedBackups ==
    {b \in Backups \ renamed : Running(b) => up /\ ~(job.step = "end_link" /\ b = job.b)}

\* they are made one after the other, and only what is over is deleted
Ages ==
    /\ \A b, c \in Backups : status[b] # "unused" /\ c < b => status[c] # "unused"
    /\ \A b, c \in Backups : Running(b) /\ b < c => status[c] = "unused"
    /\ \A b \in renamed : status[b] \in {"failed", "gone"}
    /\ \A b \in doomed : status[b] \in {"done", "failed", "gone"}
    /\ \A b \in Backups : status[b] \in {"unused", "gone"} => top[b] = "none"
    /\ \A b \in Backups : status[b] = "unused" => Clean(links, b)
    /\ last # 0 => status[last] \in {"done", "gone"}

\* rows of the running backup are for links it has
RunningRows ==
    up /\ job.step \notin LinkSteps => \A b \in Backups : Running(b) =>
        /\ \A p \in Pools : Has(links, p, b, "d") => top[b] = p
        /\ \A p \in Pools : Has(links, p, b, "s") =>
              top[b] \in Pools \/ (top[b] = "dir" /\ sub[b] = p)

(***************************************************************************)
(* The operations.                                                         *)
(***************************************************************************)
LinkedSteps == {"symlink", "end_link"}
\* the steps of an operation that is given up, and those during which the journal has its entry
UndoSteps == {"undo_parents", "undo_source", "undo_below", "undo_target", "undo_journal"}
DropSteps == {"drop_target", "drop_below"}
JournalSteps == {"commit", "rename", "link_source", "forget"} \cup UndoSteps

\* x of b has nothing yet
Vacant(b, x) == IF x = "d" THEN top[b] = "none" ELSE top[b] = "dir" /\ sub[b] = "none"

\* what link_directory_pool is about
LinkJob ==
    job.step \in LinkSteps =>
        /\ up
        /\ job.b \in Backups /\ job.p \in Pools /\ last \in Backups
        /\ Running(job.b) /\ job.b \notin renamed
        /\ job.step # "end_link" => Vacant(job.b, job.x)

\* the source is a link already: rows wait in the transaction for the link
LinkedJob ==
    job.step \in LinkedSteps =>
        /\ Clean(links, job.b)
        /\ IF job.x = "d" THEN top[last] = job.p ELSE Sees(top, sub, last) = job.p
        /\ status[last] = "done"
        /\ job.step = "symlink" => WithTarget(links, tx, last, job.b, job.x, job.p)
        /\ job.step = "end_link" =>
             \/ /\ WithTarget(links, tx, last, job.b, job.x, job.p)
                /\ IF job.x = "d" THEN top[job.b] = job.p ELSE top[job.b] = "dir" /\ sub[job.b] = job.p
             \/ tx = links /\ Vacant(job.b, job.x)

\* the directory is still at its place
AtSource(x) ==
    IF x = "d" THEN top[last] = "dir"
    ELSE top[last] # "none" /\ Sees(top, sub, last) = "dir"

\* the directory has left its place and no link is there
Moved(x, p) ==
    /\ pool[p] = "full"
    /\ IF x = "d" THEN top[last] = "none" /\ sub[last] = "none"
       ELSE top[last] # "none" /\ Sees(top, sub, last) = "none"

\* a link to it is at its place
AtPool(x, p) ==
    /\ pool[p] = "full"
    /\ IF x = "d" THEN top[last] = p ELSE top[last] # "none" /\ Sees(top, sub, last) = p

\* the source is a directory: where it is at each step
PoolJob ==
    job.step \in LinkSteps \ LinkedSteps =>
        /\ status[last] = "done"
        /\ job.step \in {"commit", "rename"} => AtSource(job.x) /\ pool[job.p] = "unused"
        /\ job.step \in UndoSteps => AtSource(job.x) /\ ~Live(pool, job.p)
        /\ job.step = "link_source" => Moved(job.x, job.p)
        /\ job.step \in {"link_source"} \cup UndoSteps => \A c \in Backups : top[c] # job.p
        /\ job.step \in {"forget", "link_target"} \cup DropSteps => AtPool(job.x, job.p)

\* the rows of an operation whose directory goes into the pool
RowsJob ==
    job.step \in LinkSteps \ LinkedSteps =>
        /\ job.step = "commit" =>
             /\ Clean(links, job.b)
             /\ \A c \in Backups : ~Has(links, job.p, c, "d") /\ ~Has(links, job.p, c, "s")
             /\ WithPool(links, tx, last, top[last], job.b, job.x, job.p)
        /\ job.step \in {"rename", "link_source", "forget", "link_target", "drop_target"} =>
             PoolRows(links, last, top[last], job.b, job.x, job.p)
        /\ job.step = "drop_below" =>
             /\ \A q \in Pools : ~Has(links, q, job.b, "d")
             /\ \A q \in Pools : Has(links, q, job.b, "s") => job.x = "d" /\ Has(links, q, last, "s")
             /\ \A c \in Backups : c # job.b /\ Has(links, job.p, c, job.x) =>
                   c = last \/ (job.x = "s" /\ top[last] \in Pools /\ Has(links, top[last], c, "d"))
             /\ \A c \in Backups : job.x = "s" => ~Has(links, job.p, c, "d")
             /\ \A c \in Backups : job.x = "d" => ~Has(links, job.p, c, "s")

\* the rows of an operation that is undone
UndoJob ==
    job.step \in UndoSteps =>
         /\ \A q \in Pools : Has(links, q, job.b, "d") => job.x = "d" /\ q = job.p
         /\ \A q \in Pools : Has(links, q, job.b, "s") =>
               IF job.x = "d" THEN Has(links, q, last, "s") ELSE q = job.p
         /\ \A c \in Backups : Has(links, job.p, c, "d") => job.x = "d" /\ c \in {job.b, last}
         /\ \A c \in Backups : Has(links, job.p, c, "s") =>
               /\ job.x = "s"
               /\ c \in {job.b, last} \/ (top[last] \in Pools /\ Has(links, top[last], c, "d"))
         /\ job.step # "undo_parents" =>
               \A c \in Backups : Has(links, job.p, c, "s") => c \in {job.b, last}
         /\ job.step \in {"undo_below", "undo_target", "undo_journal"} =>
               \A c \in Backups : Has(links, job.p, c, "s") \/ Has(links, job.p, c, "d") => c = job.b
         /\ job.step \in {"undo_target", "undo_journal"} /\ job.x = "d" =>
               \A q \in Pools : ~Has(links, q, job.b, "s")
         /\ job.step = "undo_journal" => Clean(links, job.b)

\* the journal holds the entry of the operation, or of the one a crash has ended
Journal ==
    /\ up /\ job.step \notin JournalSteps => journal = {}
    /\ job.step \in JournalSteps => journal = {<<<<last, job.x>>, job.p>>}
    /\ journal # {} =>
         /\ last \in Backups /\ last \notin renamed /\ status[last] = "done"
         /\ \E x \in {"d", "s"}, p \in Pools :
               /\ journal = {<<<<last, x>>, p>>}
               /\ Live(pool, p) => Moved(x, p) \/ AtPool(x, p)

\* the link that is being removed
AtLink == IF job.x = "d" THEN top[job.b] = job.p
          ELSE top[job.b] = "dir" /\ sub[job.b] = job.p

\* the steps between the last reference to a pool directory and its end
EmptySteps == {"empty", "nested", "rmdir"}

\* what remove_directory_link is about
RemoveJob ==
    job.step \in RemoveSteps =>
        /\ up
        /\ job.b \in Backups /\ job.b \in doomed /\ status[job.b] \in {"done", "failed"}
        /\ job.step # "scan" => job.p \in Pools
        /\ job.step \in {"row", "unlink"} \cup EmptySteps => AtLink
        /\ job.step = "end_remove" =>
             IF job.x = "d" THEN top[job.b] = "none" ELSE top[job.b] = "dir" /\ sub[job.b] = "none"
        /\ job.step \in EmptySteps => job.b \notin renamed /\ Live(pool, job.p)
        /\ job.step \in {"nested", "rmdir"} => pool[job.p] = "partial"
        /\ job.step = "rmdir" => sub[job.p] = "none"

\* the rows of a link that is being removed
RemoveTx ==
    /\ job.step = "row" => tx = links
    /\ job.step \in RemoveSteps \ {"scan", "row"} =>
         /\ \A q \in Pools, c \in Backups \ {job.b} :
               /\ Has(tx, q, c, "d") <=> Has(links, q, c, "d")
               /\ Has(tx, q, c, "s") <=> Has(links, q, c, "s")
         /\ \A q \in Pools :
               /\ Has(tx, q, job.b, "d") => Has(links, q, job.b, "d")
               /\ Has(tx, q, job.b, "s") => Has(links, q, job.b, "s")
         /\ job.x = "s" => \A q \in Pools : Has(links, q, job.b, "d") => Has(tx, q, job.b, "d")
         /\ tx = links \/ job.b \notin renamed
         /\ job.x = "d" => tx = links \/ \A q \in Pools : ~Has(tx, q, job.b, "d")
    /\ job.step \in EmptySteps =>
         /\ \A c \in Backups : ~Has(tx, job.p, c, "d") /\ ~Has(tx, job.p, c, "s")
         /\ Referenced(pool, tx, Pools \ {job.p})
         /\ \A q \in Pools : ~Has(tx, q, job.b, job.x)
    /\ job.step \in {"unlink", "end_remove"} => Referenced(pool, tx, Pools)

(***************************************************************************)
(* Without a crash the table is exact, but for the rows of an operation.   *)
(***************************************************************************)

\* the steps after the rows are committed; those after the link has no rows any more
PoolSteps == LinkSteps \ (LinkedSteps \cup {"commit"})
ForgottenSteps == {"nested", "rmdir", "unlink", "end_remove"}

\* rows of p, or of b, that an operation under way has ahead of, or behind, the links
Exempt(p, b) ==
    \/ job.step \in PoolSteps /\ (p = job.p \/ b = job.b)
    \/ job.step \in ForgottenSteps /\ b = job.b

\* the link of the row is there
Shown(t, s, p, b, x) == IF x = "d" THEN t[b] = p ELSE Sees(t, s, b) = p

\* what is left in the transaction of the backup whose link is being removed
Forgotten ==
    /\ job.step = "empty" =>
         \A q \in Pools : Has(tx, q, job.b, "s") => Shown(seenTop, seenSub, q, job.b, "s")
    /\ job.step \in ForgottenSteps => Clean(tx, job.b)

\* the rows are those of links that are there, and no renamed backup is left
Exact ==
    ~stale =>
        /\ \A p \in Pools, b \in Backups, x \in XS : Has(links, p, b, x) /\ ~Exempt(p, b) =>
              b \notin renamed /\ Shown(seenTop, seenSub, p, b, x)
        /\ ~up => \A b \in Backups : status[b] \notin {"running", "failed"}
        /\ \A b \in renamed : status[b] = "gone"
        /\ Forgotten

(***************************************************************************)
(* The inductive invariant.  The properties the runs check are not         *)
(* inductive: that a link has its row (LinksCounted) says nothing of the   *)
(* rows in the transaction, of a directory between its place and the pool, *)
(* or of the paths that lead through another backup's pool directory to    *)
(* the same link; each conjunct below is there because a step of another   *)
(* needs it.                                                               *)
(***************************************************************************)
IInv ==
    /\ TypeInv /\ JobTypes
    /\ IsFiniteSet(links) /\ IsFiniteSet(tx)
    /\ ~up => job = NoJob
    /\ Consistent(seenTop, seenSub, pool, links, renamed, CountedBackups)
    /\ Ages
    /\ RunningRows
    /\ LinkJob /\ LinkedJob /\ PoolJob /\ RowsJob /\ UndoJob
    /\ RemoveJob /\ RemoveTx
    /\ Journal
    /\ Exact
-------------------------------------------------------------------------------
\* A finite set of numbers that is not empty has a largest.
LEMMA MaximumExists ==
    ASSUME NEW ids, ids \subseteq Int, IsFiniteSet(ids), ids # {}
    PROVE  \E i \in ids : \A j \in ids : j <= i
<1> DEFINE Above(i) == {j \in ids : i <= j}
           All == {Above(i) : i \in ids}
<1>1. All \subseteq FiniteSubsetsOf(ids) /\ All # {}
  <2>1. \A i \in ids : Above(i) \in SUBSET ids
    OBVIOUS
  <2>2. \A i \in ids : IsFiniteSet(Above(i))
    BY <2>1, FS_Subset
  <2>3. \A i \in ids : Above(i) \in FiniteSubsetsOf(ids)
    BY <2>1, <2>2 DEF FiniteSubsetsOf
  <2> QED
    BY <2>3
<1>2. PICK x \in All : \A y \in All : ~(<<y, x>> \in StrictSubsetOrdering(ids))
  <2> HIDE DEF All
  <2> QED
    BY <1>1, FS_StrictSubsetOrderingWellFounded, WFMin
<1>3. PICK i \in ids : x = Above(i)
  OBVIOUS
<1>4. ASSUME NEW j \in ids, ~(j <= i) PROVE FALSE
  <2>1. i \in Int /\ j \in Int
    OBVIOUS
  <2>2. \A m \in Above(j) : m \in Above(i)
    <3> SUFFICES ASSUME NEW m \in ids, j <= m PROVE i <= m
      OBVIOUS
    <3>1. m \in Int
      OBVIOUS
    <3> QED
      BY <1>4, <2>1, <3>1
  <2>3. i \in Above(i) /\ i \notin Above(j)
    BY <1>4, <2>1
  <2>4. <<Above(j), x>> \in StrictSubsetOrdering(ids)
    BY <1>3, <2>2, <2>3 DEF StrictSubsetOrdering
  <2> QED
    BY <1>2, <2>4
<1> QED
  BY <1>4

\* The newest backup that is done.
LEMMA NewestIs ==
    ASSUME IsFiniteSet(Used)
    PROVE  /\ Newest \in Backups \cup {0}
           /\ Newest # 0 => status[Newest] = "done"
           /\ Newest = 0 => \A c \in Backups : status[c] # "done"
           /\ \A c \in Backups : status[c] = "done" => c <= Newest
<1> DEFINE done == {b \in Backups : status[b] = "done"}
<1>1. IsFiniteSet(done) /\ done \subseteq Backups
  BY FS_Subset DEF Used
<1>2. CASE done = {}
  BY <1>2 DEF Newest
<1>3. CASE done # {}
  <2>1. \E b \in done : \A c \in done : c <= b
    <3> HIDE DEF done
    <3>1. done \subseteq Int
      BY <1>1, BackupsAssumption
    <3> QED
      BY <1>1, <1>3, <3>1, MaximumExists
  <2>2. Newest = CHOOSE b \in done : \A c \in done : c <= b
    BY <1>3 DEF Newest
  <2>3. Newest \in done /\ \A c \in done : c <= Newest
    BY <2>1, <2>2
  <2> QED
    BY <2>3, BackupsAssumption
<1> QED
  BY <1>2, <1>3

\* What a link or a directory put at a place leaves of the types.
LEMMA PlaceType ==
    ASSUME TypeOK, NEW b \in Backups, NEW x \in {"d", "s"}, NEW v \in Places, Place(b, x, v)
    PROVE  top' \in [Backups -> Places] /\ sub' \in [Backups \cup Pools -> Places]
<1>1. Home(b) \in Backups \cup Pools
  BY DEF Home
<1> QED
  BY <1>1 DEF TypeOK, Place

\* The rows added and taken by the operations are rows.
LEMMA RowTypes ==
    ASSUME NEW rows, rows \subseteq Rows, NEW b \in Backups, NEW src, NEW x \in {"d", "s"},
           NEW p \in Pools
    PROVE  /\ SublinkRows(rows, src, x, b) \subseteq Rows
           /\ ParentRows(rows, src, x, p) \subseteq Rows
           /\ <<p, <<b, x>>>> \in Rows
<1>1. SublinkRows(rows, src, x, b) \subseteq Rows
  <2> SUFFICES ASSUME NEW r \in rows PROVE <<r[1], <<b, "s">>>> \in Rows
    BY DEF SublinkRows
  <2> QED
    BY DEF Rows, Paths
<1>2. ParentRows(rows, src, x, p) \subseteq Rows
  <2> SUFFICES ASSUME NEW r \in rows PROVE <<p, <<r[2][1], "s">>>> \in Rows
    BY DEF ParentRows
  <2> QED
    BY DEF Rows, Paths
<1>3. <<p, <<b, x>>>> \in Rows
  BY DEF Rows, Paths
<1> QED
  BY <1>1, <1>2, <1>3

\* What is seen at a place.
LEMMA AtType ==
    ASSUME TypeOK, NEW b \in Backups, NEW x \in {"d", "s"}
    PROVE  At(b, x) \in Places
BY DEF TypeOK, At, Home, Places

\* After a replay of the journal every place has what a place may have.
LEMMA ReplayType ==
    ASSUME TypeOK, Replay
    PROVE  top' \in [Backups -> Places] /\ sub' \in [Backups \cup Pools -> Places]
<1>1. \A e \in Torn : e[2] \in Places
  BY DEF Torn, TypeOK, Places
<1>2. ASSUME NEW b \in Backups, \E e \in Torn : e[1] = <<b, "d">>
      PROVE  (CHOOSE e \in Torn : e[1] = <<b, "d">>)[2] \in Places
  BY <1>1, <1>2
<1>3. ASSUME NEW c \in Backups \cup Pools, \E e \in Torn : e[1][2] = "s" /\ Home(e[1][1]) = c
      PROVE  (CHOOSE e \in Torn : e[1][2] = "s" /\ Home(e[1][1]) = c)[2] \in Places
  BY <1>1, <1>3
<1>4. top \in [Backups -> Places] /\ sub \in [Backups \cup Pools -> Places]
  BY DEF TypeOK
<1>5. top' \in [Backups -> Places]
  BY <1>2, <1>4 DEF Replay
<1>6. sub' \in [Backups \cup Pools -> Places]
  BY <1>3, <1>4 DEF Replay
<1> QED
  BY <1>5, <1>6

\* the types of the variables in groups, as the actions change them
Jobs == [step : {"none"} \cup LinkSteps \cup RemoveSteps,
         b : Backups \cup {0}, x : {"d", "s"}, p : Pools \cup {"none"}]

\* of the file system
Files == /\ top \in [Backups -> Places]
         /\ sub \in [Backups \cup Pools -> Places]
         /\ pool \in [Pools -> {"unused", "full", "partial", "gone"}]

\* of the tables and the journal
Tables == links \subseteq Rows /\ tx \subseteq Rows /\ journal \subseteq Paths \X Pools

\* of the backups and the server
BackupTypes ==
    /\ setting \in Settings
    /\ status \in [Backups -> {"unused", "running", "done", "failed", "gone"}]
    /\ doomed \subseteq Backups
    /\ renamed \subseteq Backups
    /\ last \in Backups \cup {0}
    /\ up \in BOOLEAN
    /\ stale \in BOOLEAN

\* TypeOK in its parts.
LEMMA TypeParts == TypeOK <=> BackupTypes /\ Files /\ Tables /\ job \in Jobs
BY DEF TypeOK, BackupTypes, Files, Tables, Jobs

\* The steps that make, finish or end backups.
LEMMA BackupTypeStep ==
    ASSUME TypeInv, UNCHANGED setting,
           \/ \E b \in Backups :
                 \/ StartBackup(b) \/ FinishBackup(b) \/ FailBackup(b) \/ DeleteBackup(b)
                 \/ \E x \in {"d", "s"} : Copy(b, x)
           \/ Crash
    PROVE  TypeOK'
<1>1. BackupTypes /\ Files /\ Tables /\ job \in Jobs
  BY TypeParts DEF TypeInv
<1>2. NoJob \in Jobs
  BY DEF NoJob, Jobs
<1>3. ASSUME NEW b \in Backups, StartBackup(b) PROVE TypeOK'
  <2>1. last' \in Backups \cup {0}
    BY <1>3, NewestIs DEF StartBackup, TypeInv
  <2>2. BackupTypes'
    BY <1>1, <1>3, <2>1 DEF StartBackup, BackupTypes
  <2>3. Files' /\ Tables' /\ job' \in Jobs
    BY <1>1, <1>3 DEF StartBackup, Files, Tables, files, tables, Jobs
  <2> QED
    BY <2>2, <2>3 DEF TypeOK, BackupTypes, Files, Tables, Jobs
<1>4. ASSUME NEW b \in Backups, FinishBackup(b) \/ FailBackup(b) PROVE TypeOK'
  <2>1. BackupTypes'
    BY <1>1, <1>4 DEF FinishBackup, FailBackup, BackupTypes
  <2>2. Files' /\ Tables' /\ job' \in Jobs
    BY <1>1, <1>4 DEF FinishBackup, FailBackup, Files, Tables, files, tables, Jobs
  <2> QED
    BY <2>1, <2>2 DEF TypeOK, BackupTypes, Files, Tables, Jobs
<1>5. ASSUME NEW b \in Backups, DeleteBackup(b) PROVE TypeOK'
  <2>1. BackupTypes'
    BY <1>1, <1>5 DEF DeleteBackup, BackupTypes
  <2>2. Files' /\ Tables'
    BY <1>1, <1>5 DEF DeleteBackup, Files, Tables, files, tables
  <2>3. job' \in Jobs
    BY <1>5 DEF DeleteBackup, Jobs, RemoveSteps
  <2> QED
    BY <2>1, <2>2, <2>3 DEF TypeOK, BackupTypes, Files, Tables, Jobs
<1>6. ASSUME NEW b \in Backups, NEW x \in {"d", "s"}, Copy(b, x) PROVE TypeOK'
  <2>1. BackupTypes' /\ Tables' /\ job' \in Jobs /\ pool' = pool
    BY <1>1, <1>6 DEF Copy, BackupTypes, backups, Tables, tables, Jobs
  <2>2. "dir" \in Places
    BY DEF Places
  <2>3. Files'
    BY <1>1, <1>6, <2>1, <2>2, PlaceType DEF Copy, Files, TypeInv
  <2> QED
    BY <2>1, <2>3 DEF TypeOK, BackupTypes, Files, Tables, Jobs
<1>7. ASSUME Crash PROVE TypeOK'
  <2>1. BackupTypes' /\ Files' /\ Tables'
    BY <1>1, <1>7 DEF Crash, BackupTypes, Files, Tables, backups, files
  <2>2. job' \in Jobs
    BY <1>2, <1>7 DEF Crash, Jobs
  <2> QED
    BY <2>1, <2>2 DEF TypeOK, BackupTypes, Files, Tables, Jobs
<1> QED
  BY <1>3, <1>4, <1>5, <1>6, <1>7

\* A job that goes on to a step of its operation.
LEMMA GoType ==
    ASSUME job \in Jobs, NEW step \in {"none"} \cup LinkSteps \cup RemoveSteps, Go(step)
    PROVE  job' \in Jobs
BY DEF Jobs, Go

\* The operation that holds the mutex, and what it is about.
LinkStep ==
    \/ \E b \in Backups, x \in {"d", "s"} : LinkLinked(b, x) \/ LinkPlain(b, x)
    \/ LinkTargetInTx \/ EndLink \/ CommitRows \/ Rename \/ RenameFails \/ LinkSource
    \/ LinkSourceFails \/ ForgetJournal \/ LinkTarget \/ Undo \/ UndoJournal \/ DropTarget

\* the steps of remove_directory_link
RemoveStep ==
    \/ ScanFolder \/ RemoveRow \/ EmptyPool \/ UnlinkNested \/ RemovePool \/ Unlink \/ EndRemove

\* the steps of a server that is down
RecoveryStep == Restart \/ ReplayFirst \/ RemoveUnknown

\* The steps of link_directory_pool.
LEMMA LinkTypeStep ==
    ASSUME TypeInv, JobTypes, UNCHANGED setting, LinkStep
    PROVE  TypeOK'
<1>1. BackupTypes /\ Files /\ Tables /\ job \in Jobs
  BY TypeParts DEF TypeInv
<1>2. BackupTypes'
  BY <1>1 DEF LinkStep, LinkLinked, LinkPlain, LinkTargetInTx, EndLink, CommitRows, Rename,
     RenameFails, LinkSource, LinkSourceFails, ForgetJournal, LinkTarget, Undo, UndoJournal,
     DropTarget, BackupTypes, backups
<1> SUFFICES Files' /\ Tables' /\ job' \in Jobs
  BY <1>2 DEF TypeOK, BackupTypes, Files, Tables, Jobs
<1>3. NoJob \in Jobs
  BY DEF NoJob, Jobs
<1>4. ASSUME NEW b \in Backups, NEW x \in {"d", "s"}, LinkLinked(b, x)
      PROVE Files' /\ Tables' /\ job' \in Jobs
  <2>1. At(last, x) \in Pools
    BY <1>4 DEF LinkLinked
  <2>2. tx' \subseteq Rows
    <3>1. SublinkRows(links, last, x, b) \subseteq Rows /\ <<At(last, x), <<b, x>>>> \in Rows
      BY <1>1, <2>1, RowTypes DEF Tables
    <3>2. tx' = links \cup {<<At(last, x), <<b, x>>>>} \cup SublinkRows(links, last, x, b)
      BY <1>4 DEF LinkLinked
    <3> QED
      BY <1>1, <3>1, <3>2 DEF Tables
  <2>3. Files' /\ Tables'
    BY <1>1, <1>4, <2>2 DEF LinkLinked, Files, Tables, files
  <2>4. job' \in Jobs
    BY <1>4, <2>1 DEF LinkLinked, Jobs, LinkSteps
  <2> QED
    BY <2>3, <2>4
<1>5. ASSUME NEW b \in Backups, NEW x \in {"d", "s"}, LinkPlain(b, x)
      PROVE Files' /\ Tables' /\ job' \in Jobs
  <2>1. PICK p \in Pools :
          /\ tx' = links \cup ParentRows(links, last, x, p)
                         \cup {<<p, <<last, x>>>>, <<p, <<b, x>>>>}
                         \cup SublinkRows(links, last, x, b)
          /\ journal' = journal \cup {<<<<last, x>>, p>>}
          /\ job' = [step |-> "commit", b |-> b, x |-> x, p |-> p]
    BY <1>5 DEF LinkPlain
  <2>2. last \in Backups
    BY <1>1, <1>5 DEF LinkPlain, BackupTypes
  <2>3. /\ ParentRows(links, last, x, p) \subseteq Rows
        /\ SublinkRows(links, last, x, b) \subseteq Rows
        /\ <<p, <<last, x>>>> \in Rows /\ <<p, <<b, x>>>> \in Rows
    BY <1>1, <2>2, RowTypes DEF Tables
  <2>4. tx' \subseteq Rows
    BY <1>1, <2>1, <2>3 DEF Tables
  <2>5. <<<<last, x>>, p>> \in Paths \X Pools
    BY <2>2 DEF Paths
  <2>6. Files' /\ Tables'
    BY <1>1, <1>5, <2>1, <2>4, <2>5 DEF LinkPlain, Files, Tables, files
  <2>7. job' \in Jobs
    BY <2>1 DEF Jobs, LinkSteps
  <2> QED
    BY <2>6, <2>7
<1>6. ASSUME job.step \in LinkSteps PROVE job.p \in Places /\ job.x \in {"d", "s"}
  BY <1>1, <1>6 DEF JobTypes, Places, Jobs
<1>7. ASSUME LinkTargetInTx \/ LinkTarget PROVE Files' /\ Tables' /\ job' \in Jobs
  <2>1. job.b \in Backups /\ job.p \in Places /\ job.x \in {"d", "s"}
    BY <1>6, <1>7 DEF LinkTargetInTx, LinkTarget, JobTypes, LinkSteps
  <2>2. top' \in [Backups -> Places] /\ sub' \in [Backups \cup Pools -> Places]
    <3>1. CASE Place(job.b, job.x, job.p)
      BY <2>1, <3>1, PlaceType DEF TypeInv
    <3>2. CASE UNCHANGED <<top, sub>>
      BY <1>1, <3>2 DEF Files
    <3> QED
      BY <1>7, <3>1, <3>2 DEF LinkTargetInTx, LinkTarget
  <2>3. Files' /\ Tables'
    BY <1>1, <1>7, <2>2 DEF LinkTargetInTx, LinkTarget, Files, Tables, tables
  <2>4. job' \in Jobs
    BY <1>1, <1>3, <1>7, GoType DEF LinkTargetInTx, LinkTarget, LinkSteps
  <2> QED
    BY <2>3, <2>4
<1>8. ASSUME EndLink \/ CommitRows \/ RenameFails \/ ForgetJournal \/ UndoJournal
      PROVE Files' /\ Tables' /\ job' \in Jobs
  <2>1. Files' /\ Tables'
    BY <1>1, <1>8 DEF EndLink, CommitRows, RenameFails, ForgetJournal, UndoJournal, Files, Tables,
       files, tables
  <2>2. job' \in Jobs
    BY <1>1, <1>3, <1>8, GoType DEF EndLink, CommitRows, RenameFails, ForgetJournal, UndoJournal,
       LinkSteps
  <2> QED
    BY <2>1, <2>2
<1>9. ASSUME Undo \/ DropTarget PROVE Files' /\ Tables' /\ job' \in Jobs
  <2>1. links' \subseteq links
    BY <1>9 DEF Undo, DropTarget
  <2>2. Files' /\ Tables'
    BY <1>1, <1>9, <2>1 DEF Undo, DropTarget, Files, Tables, files
  <2>3. job' \in Jobs
    BY <1>1, <1>3, <1>9, GoType DEF Undo, DropTarget, AfterUndo, LinkSteps
  <2> QED
    BY <2>2, <2>3
<1>10. ASSUME Rename \/ LinkSource \/ LinkSourceFails PROVE Files' /\ Tables' /\ job' \in Jobs
  <2>1. job.p \in Pools /\ last \in Backups /\ job.x \in {"d", "s"} /\ job.p \in Places
        /\ "none" \in Places /\ "dir" \in Places
    BY <1>6, <1>10 DEF Rename, LinkSource, LinkSourceFails, JobTypes, LinkSteps, Places
  <2>2. top' \in [Backups -> Places] /\ sub' \in [Backups \cup Pools -> Places]
    <3>1. CASE Rename /\ job.x = "d"
      BY <1>1, <2>1, <3>1 DEF Rename, Files
    <3>2. CASE Rename /\ job.x # "d"
      BY <2>1, <3>2, PlaceType DEF Rename, TypeInv
    <3>3. CASE LinkSource
      BY <2>1, <3>3, PlaceType DEF LinkSource, TypeInv
    <3>4. CASE LinkSourceFails /\ job.x = "d"
      BY <1>1, <2>1, <3>4 DEF LinkSourceFails, Files
    <3>5. CASE LinkSourceFails /\ job.x # "d"
      BY <2>1, <3>5, PlaceType DEF LinkSourceFails, TypeInv
    <3> QED
      BY <1>10, <3>1, <3>2, <3>3, <3>4, <3>5
  <2>3. Files' /\ Tables'
    BY <1>1, <1>10, <2>2 DEF Rename, LinkSource, LinkSourceFails, Files, Tables, tables
  <2>4. job' \in Jobs
    BY <1>1, <1>10, GoType DEF Rename, LinkSource, LinkSourceFails, LinkSteps
  <2> QED
    BY <2>3, <2>4
<1> QED
  BY <1>4, <1>5, <1>7, <1>8, <1>9, <1>10 DEF LinkStep

\* The steps of a deletion.
LEMMA RemoveTypeStep ==
    ASSUME TypeInv, JobTypes, UNCHANGED setting, RemoveStep
    PROVE  TypeOK'
<1>1. BackupTypes /\ Files /\ Tables /\ job \in Jobs /\ NoJob \in Jobs
  BY TypeParts DEF TypeInv, NoJob, Jobs
<1> SUFFICES BackupTypes' /\ Files' /\ Tables' /\ job' \in Jobs
  BY DEF TypeOK, BackupTypes, Files, Tables, Jobs
<1>2. ASSUME ScanFolder PROVE BackupTypes' /\ Files' /\ Tables' /\ job' \in Jobs
  <2>1. job.b \in Backups /\ job.step = "scan"
    BY <1>2 DEF ScanFolder, JobTypes, RemoveSteps
  <2>2. CASE \E x \in {"d", "s"} : At(job.b, x) \in Pools /\ RemoveLink(job.b, x)
    <3>1. BackupTypes' /\ Files' /\ Tables'
      BY <1>1, <2>2 DEF RemoveLink, BackupTypes, Files, Tables, backups, files
    <3>2. job' \in Jobs
      BY <1>1, <2>2 DEF RemoveLink, Jobs, RemoveSteps
    <3> QED
      BY <3>1, <3>2
  <2>3. CASE /\ sub' = [sub EXCEPT ![job.b] = "none"]
             /\ top' = IF sub[job.b] = "none" THEN [top EXCEPT ![job.b] = "none"] ELSE top
             /\ UNCHANGED <<backups, pool, tables, job, up, stale>>
    <3>1. Files'
      BY <1>1, <2>3 DEF Files, Places
    <3>2. BackupTypes' /\ Tables' /\ job' \in Jobs
      BY <1>1, <2>3 DEF BackupTypes, Tables, backups, tables, Jobs
    <3> QED
      BY <3>1, <3>2
  <2>4. CASE /\ status' = [status EXCEPT ![job.b] = "gone"]
             /\ job' = NoJob
             /\ UNCHANGED <<doomed, renamed, last, files, tables, up, stale>>
    <3>1. Files' /\ Tables' /\ job' \in Jobs
      BY <1>1, <2>4 DEF Files, Tables, files, tables, Jobs
    <3>2. BackupTypes'
      BY <1>1, <2>4 DEF BackupTypes
    <3> QED
      BY <3>1, <3>2
  <2> QED
    BY <1>2, <2>2, <2>3, <2>4, BackupsAssumption DEF ScanFolder, At, Home
<1>3. ASSUME RemoveRow PROVE BackupTypes' /\ Files' /\ Tables' /\ job' \in Jobs
  <2>1. tx' \subseteq tx
    BY <1>3 DEF RemoveRow
  <2>2. BackupTypes' /\ Files' /\ Tables'
    BY <1>1, <1>3, <2>1 DEF RemoveRow, BackupTypes, Files, Tables, backups, files
  <2>3. job' \in Jobs
    BY <1>1, <1>3, GoType DEF RemoveRow, RemoveSteps
  <2> QED
    BY <2>2, <2>3
<1>4. ASSUME EmptyPool PROVE BackupTypes' /\ Files' /\ Tables' /\ job' \in Jobs
  <2>1. tx' \subseteq tx
    BY <1>4 DEF EmptyPool
  <2>2. pool' \in [Pools -> {"unused", "full", "partial", "gone"}]
    BY <1>1, <1>4 DEF EmptyPool, Files
  <2>3. BackupTypes' /\ Files' /\ Tables'
    BY <1>1, <1>4, <2>1, <2>2 DEF EmptyPool, BackupTypes, Files, Tables, backups
  <2>4. job' \in Jobs
    BY <1>1, <1>4, GoType DEF EmptyPool, RemoveSteps
  <2> QED
    BY <2>3, <2>4
<1>5. ASSUME UnlinkNested \/ RemovePool \/ EndRemove
      PROVE BackupTypes' /\ Files' /\ Tables' /\ job' \in Jobs
  <2>1. BackupTypes' /\ Tables'
    BY <1>1, <1>5 DEF UnlinkNested, RemovePool, EndRemove, BackupTypes, Tables, backups, tables
  <2>2. Files'
    <3>1. CASE UnlinkNested
      BY <1>1, <3>1 DEF UnlinkNested, Files, Places
    <3>2. CASE RemovePool
      BY <1>1, <3>2 DEF RemovePool, Files
    <3>3. CASE EndRemove
      BY <1>1, <3>3 DEF EndRemove, Files, files
    <3> QED
      BY <1>5, <3>1, <3>2, <3>3
  <2>3. job' \in Jobs
    BY <1>1, <1>5, GoType DEF UnlinkNested, RemovePool, EndRemove, RemoveSteps
  <2> QED
    BY <2>1, <2>2, <2>3
<1>6. ASSUME Unlink PROVE BackupTypes' /\ Files' /\ Tables' /\ job' \in Jobs
  <2>1. job.b \in Backups /\ job.x \in {"d", "s"} /\ "none" \in Places
    BY <1>1, <1>6 DEF Unlink, JobTypes, RemoveSteps, Jobs, Places
  <2>2. Files'
    BY <1>1, <1>6, <2>1, PlaceType DEF Unlink, Files, TypeInv
  <2>3. BackupTypes' /\ Tables'
    BY <1>1, <1>6 DEF Unlink, BackupTypes, Tables, backups, tables
  <2>4. job' \in Jobs
    BY <1>1, <1>6, GoType DEF Unlink, RemoveSteps
  <2> QED
    BY <2>2, <2>3, <2>4
<1> QED
  BY <1>2, <1>3, <1>4, <1>5, <1>6 DEF RemoveStep

\* Starting the server, and the removal of what is unknown.
LEMMA RecoveryTypeStep ==
    ASSUME TypeInv, UNCHANGED setting, RecoveryStep
    PROVE  TypeOK'
<1>1. BackupTypes /\ Files /\ Tables /\ job \in Jobs
  BY TypeParts DEF TypeInv
<1> SUFFICES BackupTypes' /\ Files' /\ Tables' /\ job' \in Jobs
  BY DEF TypeOK, BackupTypes, Files, Tables, Jobs
<1>2. ASSUME Restart \/ ReplayFirst PROVE BackupTypes' /\ Files' /\ Tables' /\ job' \in Jobs
  <2>1. BackupTypes'
    BY <1>1, <1>2 DEF Restart, ReplayFirst, BackupTypes, backups
  <2>2. Files'
    BY <1>1, <1>2, ReplayType DEF Restart, ReplayFirst, Files, TypeInv
  <2>3. Tables' /\ job' \in Jobs
    BY <1>1, <1>2 DEF Restart, ReplayFirst, Replay, Tables, Jobs
  <2> QED
    BY <2>1, <2>2, <2>3
<1>3. ASSUME RemoveUnknown PROVE BackupTypes' /\ Files' /\ Tables' /\ job' \in Jobs
  <2>1. BackupTypes' /\ job' \in Jobs
    BY <1>1, <1>3 DEF RemoveUnknown, BackupTypes, Jobs
  <2>2. top' \in [Backups -> Places] /\ sub' \in [Backups \cup Pools -> Places]
    BY <1>1, <1>3 DEF RemoveUnknown, Files, Places
  <2>3. pool' \in [Pools -> {"unused", "full", "partial", "gone"}]
    BY <1>1, <1>3 DEF RemoveUnknown, Files
  <2>4. links' \subseteq Rows
    <3>1. \A r \in Rows : sub[r[1]] \in Pools => <<sub[r[1]], <<r[2][1], "s">>>> \in Rows
      BY DEF Rows, Paths
    <3> QED
      BY <1>1, <1>3, <3>1 DEF RemoveUnknown, Tables
  <2>5. tx' \subseteq Rows /\ journal' \subseteq Paths \X Pools
    BY <1>1, <1>3 DEF RemoveUnknown, Tables
  <2> QED
    BY <2>1, <2>2, <2>3, <2>4, <2>5 DEF Files, Tables
<1> QED
  BY <1>2, <1>3 DEF RecoveryStep
\* The job of a step: kept, gone on with, ended or begun.
LEMMA JobTypesStep ==
    ASSUME TypeInv, JobTypes, [Next]_vars
    PROVE  JobTypes'
<1>1. BackupTypes /\ Files /\ Tables /\ job \in Jobs
  BY TypeParts DEF TypeInv
<1>2. \A step : ~(step \in LinkSteps /\ step \in RemoveSteps)
  BY DEF LinkSteps, RemoveSteps
<1>3. NoJob.step \notin LinkSteps /\ NoJob.step \notin RemoveSteps
  BY DEF NoJob, LinkSteps, RemoveSteps
<1>4. ASSUME job' = job, last' = last PROVE JobTypes'
  BY <1>4 DEF JobTypes
<1>5. ASSUME job' = NoJob PROVE JobTypes'
  BY <1>3, <1>5 DEF JobTypes
<1>6. ASSUME NEW b \in Backups, StartBackup(b) PROVE JobTypes'
  BY <1>2, <1>3, <1>6 DEF StartBackup, BackupThread, JobTypes
<1>7. ASSUME NEW b \in Backups, DeleteBackup(b) PROVE JobTypes'
  BY <1>7 DEF DeleteBackup, JobTypes, LinkSteps, RemoveSteps
<1>8. ASSUME NEW b \in Backups, NEW x \in {"d", "s"}, LinkLinked(b, x) \/ LinkPlain(b, x)
      PROVE JobTypes'
  BY <1>1, <1>8 DEF LinkLinked, LinkPlain, BackupTypes, backups, JobTypes, LinkSteps, RemoveSteps
<1>9. ASSUME NEW step \in LinkSteps, job.step \in LinkSteps, Go(step), last' = last
      PROVE JobTypes'
  BY <1>1, <1>2, <1>9 DEF Go, JobTypes, Jobs
<1>10. ASSUME NEW step \in RemoveSteps, job.step \in RemoveSteps, Go(step),
              step = "scan" \/ job.step # "scan"
       PROVE JobTypes'
  BY <1>1, <1>2, <1>10 DEF Go, JobTypes, Jobs
<1>11. ASSUME LinkTargetInTx \/ CommitRows \/ Rename \/ RenameFails \/ LinkSource
                \/ LinkSourceFails \/ ForgetJournal
       PROVE JobTypes'
  BY <1>9, <1>11 DEF LinkTargetInTx, CommitRows, Rename, RenameFails, LinkSource, LinkSourceFails,
     ForgetJournal, backups, LinkSteps
<1>12. ASSUME LinkTarget \/ Undo \/ DropTarget PROVE JobTypes'
  BY <1>5, <1>9, <1>12 DEF LinkTarget, Undo, AfterUndo, DropTarget, backups, LinkSteps
<1>13. ASSUME ScanFolder PROVE JobTypes'
  <2>1. ASSUME NEW x \in {"d", "s"}, At(job.b, x) \in Pools, RemoveLink(job.b, x)
        PROVE JobTypes'
    BY <1>1, <1>2, <1>13, <2>1 DEF RemoveLink, ScanFolder, JobTypes, Jobs, RemoveSteps
  <2> QED
    BY <1>4, <1>5, <1>13, <2>1, BackupsAssumption DEF ScanFolder, At, Home, backups
<1>14. ASSUME RemoveRow \/ EmptyPool \/ UnlinkNested \/ RemovePool \/ Unlink \/ EndRemove
       PROVE JobTypes'
  BY <1>10, <1>14 DEF RemoveRow, EmptyPool, UnlinkNested, RemovePool, Unlink, EndRemove, RemoveSteps
<1>15. ASSUME NEW b \in Backups, \/ FinishBackup(b) \/ FailBackup(b)
                                 \/ \E x \in {"d", "s"} : Copy(b, x)
       PROVE JobTypes'
  BY <1>4, <1>15 DEF FinishBackup, FailBackup, Copy, backups
<1>16. ASSUME RecoveryStep \/ UNCHANGED vars PROVE JobTypes'
  BY <1>4, <1>16 DEF RecoveryStep, Restart, ReplayFirst, RemoveUnknown, vars, backups
<1>17. ASSUME Crash \/ EndLink \/ UndoJournal PROVE JobTypes'
  BY <1>5, <1>17 DEF Crash, EndLink, UndoJournal
<1> QED
  BY <1>6, <1>7, <1>8, <1>11, <1>12, <1>13, <1>14, <1>15, <1>16, <1>17
     DEF Next, Step, AllGone, RecoveryStep

\* what there is to show of the backups in use
UsedGood == IsFiniteSet(Used) /\ renamed \subseteq Used

\* Only the start of a backup adds to those in use, and none leaves them.
LEMMA UsedStep ==
    ASSUME TypeInv, JobTypes, [Next]_vars
    PROVE  UsedGood'
<1>1. IsFiniteSet(Used) /\ renamed \subseteq Used /\ BackupTypes
  BY TypeParts DEF TypeInv
<1>2. ASSUME NEW b \in Backups, StartBackup(b) PROVE UsedGood'
  <2>1. Used' \in SUBSET (Used \cup {b})
    BY <1>1, <1>2 DEF Used, StartBackup, BackupTypes
  <2>2. IsFiniteSet(Used \cup {b})
    BY <1>1, FS_AddElement
  <2>3. renamed' \subseteq Used'
    BY <1>1, <1>2 DEF Used, StartBackup, BackupTypes
  <2> QED
    BY <2>1, <2>2, <2>3, FS_Subset DEF UsedGood
<1>3. ASSUME \A c \in Backups : status[c] = "unused" <=> status'[c] = "unused",
             renamed' \subseteq Used
      PROVE UsedGood'
  <2>1. Used' = Used
    BY <1>3 DEF Used
  <2> QED
    BY <1>1, <1>3, <2>1 DEF UsedGood
<1>4. ASSUME status' = status, renamed' = renamed PROVE UsedGood'
  BY <1>1, <1>3, <1>4
<1>5. ASSUME NEW b \in Backups, FinishBackup(b) \/ FailBackup(b) PROVE UsedGood'
  BY <1>1, <1>3, <1>5 DEF FinishBackup, FailBackup, Running, BackupTypes
<1>6. ASSUME ScanFolder PROVE UsedGood'
  <2>1. CASE status' = status
    BY <1>4, <1>6, <2>1 DEF ScanFolder, RemoveLink, backups
  <2>2. CASE status' = [status EXCEPT ![job.b] = "gone"]
    <3>1. Used' \in SUBSET (Used \cup {job.b})
      BY <1>1, <2>2 DEF Used, BackupTypes
    <3>2. IsFiniteSet(Used \cup {job.b})
      BY <1>1, FS_AddElement
    <3>3. renamed' \subseteq Used'
      BY <1>1, <1>6, <2>2 DEF Used, BackupTypes, ScanFolder, RemoveLink, backups
    <3> QED
      BY <3>1, <3>2, <3>3, FS_Subset DEF UsedGood
  <2> QED
    BY <1>6, <2>1, <2>2 DEF ScanFolder, RemoveLink, backups
<1>7. ASSUME Restart PROVE UsedGood'
  <2>1. /\ renamed' = renamed \cup {b \in Backups : status[b] \in {"running", "failed"}}
        /\ status' = [b \in Backups |-> IF Running(b) THEN "failed" ELSE status[b]]
    BY <1>7 DEF Restart
  <2> QED
    BY <1>1, <1>3, <2>1 DEF Used, Running, BackupTypes
<1>8. ASSUME RemoveUnknown PROVE UsedGood'
  <2>1. renamed' = renamed
        /\ status' = [b \in Backups |-> IF b \in renamed THEN "gone" ELSE status[b]]
    BY <1>8 DEF RemoveUnknown
  <2> QED
    BY <1>1, <1>3, <2>1 DEF Used, BackupTypes
<1>9. ASSUME NEW b \in Backups, \/ DeleteBackup(b)
                                \/ \E x \in {"d", "s"} : Copy(b, x) \/ LinkLinked(b, x)
                                                          \/ LinkPlain(b, x)
      PROVE UsedGood'
  BY <1>4, <1>9 DEF DeleteBackup, Copy, LinkLinked, LinkPlain, backups
<1>10. ASSUME \/ LinkTargetInTx \/ EndLink \/ CommitRows \/ Rename \/ RenameFails \/ LinkSource
              \/ LinkSourceFails \/ ForgetJournal \/ LinkTarget \/ Undo \/ UndoJournal \/ DropTarget
       PROVE UsedGood'
  BY <1>4, <1>10 DEF LinkTargetInTx, EndLink, CommitRows, Rename, RenameFails, LinkSource,
     LinkSourceFails, ForgetJournal, LinkTarget, Undo, UndoJournal, DropTarget, backups
<1>11. ASSUME \/ RemoveRow \/ EmptyPool \/ UnlinkNested \/ RemovePool \/ Unlink \/ EndRemove
              \/ Crash \/ ReplayFirst \/ UNCHANGED vars
       PROVE UsedGood'
  BY <1>4, <1>11 DEF RemoveRow, EmptyPool, UnlinkNested, RemovePool, Unlink, EndRemove, Crash,
     ReplayFirst, backups, vars
<1> QED
  BY <1>2, <1>5, <1>6, <1>7, <1>8, <1>9, <1>10, <1>11 DEF Next, Step, AllGone

\* The types of the states and of the operations.
LEMMA TypeStep ==
    ASSUME TypeInv, JobTypes, [Next]_vars
    PROVE  TypeInv' /\ JobTypes'
<1>1. ASSUME Step, UNCHANGED setting PROVE TypeOK'
  BY <1>1, BackupTypeStep, LinkTypeStep, RemoveTypeStep, RecoveryTypeStep
     DEF Step, LinkStep, RemoveStep, RecoveryStep
<1>2. ASSUME UNCHANGED vars PROVE TypeOK'
  BY <1>2 DEF TypeInv, TypeOK, vars, backups, files, tables
<1>3. TypeOK'
  BY <1>1, <1>2 DEF Next, AllGone
<1> QED
  BY <1>3, JobTypesStep, UsedStep DEF TypeInv, UsedGood

\* The first state has its types.
LEMMA TypeInit ==
    ASSUME Init
    PROVE  TypeInv /\ JobTypes
<1>1. TypeOK
  BY DEF Init, TypeOK, NoJob, Places
<1>2. Used = {} /\ renamed = {}
  BY DEF Init, Used
<1>3. JobTypes
  BY DEF Init, JobTypes, NoJob, LinkSteps, RemoveSteps
<1> QED
  BY <1>1, <1>2, <1>3, FS_EmptySet DEF TypeInv

\* Every state of the pool, its tables and its operations has its type.
THEOREM TypeCorrect == Spec => []TypeOK
<1>1. Init => TypeInv /\ JobTypes
  BY TypeInit
<1>2. (TypeInv /\ JobTypes) /\ [Next]_vars => (TypeInv /\ JobTypes)'
  BY TypeStep
<1>3. TypeInv => TypeOK
  BY DEF TypeInv
<1> QED
  BY <1>1, <1>2, <1>3, PTL DEF Spec
-------------------------------------------------------------------------------
(***************************************************************************)
(* What the replay of the journal would leave.                             *)
(***************************************************************************)
\* Torn, by the journal, the places and the pool directories.
LEMMA TornIs == Torn = TornOf(journal, top, sub, pool, renamed)
BY DEF Torn, TornOf, AtPath, At, Home, HomeOf, PlaceOf, Exists

\* An entry whose pool directory is not there or is linked has nothing to replay.
LEMMA ViewSame ==
    ASSUME NEW j, NEW t, NEW s, NEW pl, NEW ren, Values(t, s, pl),
           \/ j = {}
           \/ \E l \in Backups, x \in XS, p \in Pools :
                 j = {<<<<l, x>>, p>>} /\ l \notin ren
                 /\ (~Live(pl, p) \/ PlaceOf(t, s, l, x) = p)
    PROVE  /\ TornOf(j, t, s, pl, ren) = {}
           /\ ReplayTop(TornOf(j, t, s, pl, ren), t) = t
           /\ ReplaySub(TornOf(j, t, s, pl, ren), t, s) = s
<1>1. TornOf(j, t, s, pl, ren) = {}
  <2>1. CASE j = {}
    BY <2>1 DEF TornOf
  <2>2. ASSUME NEW l \in Backups, NEW x \in XS, NEW p \in Pools,
               j = {<<<<l, x>>, p>>}, l \notin ren, ~Live(pl, p) \/ PlaceOf(t, s, l, x) = p
        PROVE TornOf(j, t, s, pl, ren) = {}
    <3>1. \A e \in j : e[1][1] = l /\ e[1][2] = x /\ e[2] = p
      BY <2>2
    <3>2. p # "dir"
      BY Names
    <3>3. ~Live(pl, p) => pl[p] \in {"unused", "gone"}
      BY DEF Live, Values
    <3> QED
      BY <2>2, <3>1, <3>2, <3>3 DEF TornOf
  <2> QED
    BY <2>1, <2>2
<1>2. ReplayTop({}, t) = t
  BY DEF ReplayTop, Values
<1>3. ReplaySub({}, t, s) = s
  BY DEF ReplaySub, Values
<1> QED
  BY <1>1, <1>2, <1>3

\* A directory between its place and the pool counts as linked.
LEMMA ViewMoved ==
    ASSUME NEW j, NEW t, NEW s, NEW pl, NEW ren, Values(t, s, pl),
           NEW l \in Backups, NEW x \in XS, NEW p \in Pools, l \notin ren,
           j = {<<<<l, x>>, p>>}, Live(pl, p), PlaceOf(t, s, l, x) # p
    PROVE  /\ x = "d" => /\ ReplayTop(TornOf(j, t, s, pl, ren), t) = [t EXCEPT ![l] = p]
                         /\ ReplaySub(TornOf(j, t, s, pl, ren), t, s) = s
           /\ x = "s" => /\ ReplayTop(TornOf(j, t, s, pl, ren), t) = t
                         /\ ReplaySub(TornOf(j, t, s, pl, ren), t, s) = [s EXCEPT ![HomeOf(t, l)] = p]
<1> DEFINE e0 == <<<<l, x>>, p>>
<1>1. e0[1] = <<l, x>> /\ e0[1][1] = l /\ e0[1][2] = x /\ e0[2] = p
  OBVIOUS
<1>2. TornOf(j, t, s, pl, ren) = {e0}
  <2>1. \A e \in j : e = e0
    OBVIOUS
  <2>2. pl[p] \notin {"unused", "gone"}
    BY DEF Live
  <2>3. e0 \in TornOf(j, t, s, pl, ren)
    BY <1>1, <2>2 DEF TornOf
  <2>4. TornOf(j, t, s, pl, ren) \subseteq {e0}
    BY <2>1 DEF TornOf
  <2> QED
    BY <2>3, <2>4
<1> HIDE DEF e0
<1>3. CASE x = "d"
  <2>1. ReplayTop({e0}, t) = [t EXCEPT ![l] = p]
    <3>1. \A b \in Backups : (\E e \in {e0} : e[1] = <<b, "d">>) <=> b = l
      BY <1>1, <1>3
    <3>2. (CHOOSE e \in {e0} : e[1] = <<l, "d">>) = e0
      BY <1>1, <1>3
    <3>3. \A b \in Backups : ReplayTop({e0}, t)[b] = IF b = l THEN p ELSE t[b]
      BY <1>1, <3>1, <3>2 DEF ReplayTop
    <3>4. DOMAIN ReplayTop({e0}, t) = Backups
      BY DEF ReplayTop
    <3>5. ReplayTop({e0}, t) = [b \in Backups |-> ReplayTop({e0}, t)[b]]
      BY DEF ReplayTop
    <3> QED
      BY <3>3, <3>4, <3>5 DEF Values
  <2>2. ReplaySub({e0}, t, s) = s
    BY <1>1, <1>3 DEF ReplaySub, Values
  <2> QED
    BY <1>2, <1>3, <2>1, <2>2
<1>4. CASE x = "s"
  <2>1. ReplayTop({e0}, t) = t
    BY <1>1, <1>4 DEF ReplayTop, Values
  <2>2. ReplaySub({e0}, t, s) = [s EXCEPT ![HomeOf(t, l)] = p]
    <3> DEFINE Q(c, e) == e[1][2] = "s" /\ HomeOf(t, e[1][1]) = c
    <3>1. \A c \in Backups \cup Pools : (\E e \in {e0} : Q(c, e)) <=> c = HomeOf(t, l)
      BY <1>1, <1>4
    <3>2. (CHOOSE e \in {e0} : Q(HomeOf(t, l), e)) = e0
      BY <1>1, <1>4
    <3>3. \A c \in Backups \cup Pools : ReplaySub({e0}, t, s)[c] =
             IF \E e \in {e0} : Q(c, e) THEN (CHOOSE e \in {e0} : Q(c, e))[2] ELSE s[c]
      BY DEF ReplaySub
    <3> HIDE DEF Q
    <3>4. \A c \in Backups \cup Pools :
             ReplaySub({e0}, t, s)[c] = IF c = HomeOf(t, l) THEN p ELSE s[c]
      BY <1>1, <3>1, <3>2, <3>3
    <3>5. ReplaySub({e0}, t, s) = [c \in Backups \cup Pools |-> ReplaySub({e0}, t, s)[c]]
      BY DEF ReplaySub
    <3> QED
      BY <3>4, <3>5 DEF Values
  <2> QED
    BY <1>2, <1>4, <2>1, <2>2
<1> QED
  BY <1>3, <1>4 DEF XS

\* The places of the replay are places.
LEMMA ViewType ==
    ASSUME TypeOK
    PROVE  Values(seenTop, seenSub, pool)
<1>1. \A e \in TornOf(journal, top, sub, pool, renamed) : e[2] \in Places
  BY DEF TornOf, TypeOK, Places
<1> DEFINE T == TornOf(journal, top, sub, pool, renamed)
<1>2. top \in [Backups -> Places] /\ sub \in [Backups \cup Pools -> Places]
      /\ pool \in [Pools -> {"unused", "full", "partial", "gone"}]
  BY DEF TypeOK
<1> HIDE DEF T
<1>3. \A e \in T : e[2] \in Places
  BY <1>1 DEF T
<1>4. ReplayTop(T, top) \in [Backups -> Places]
  <2>1. ASSUME NEW b \in Backups, \E e \in T : e[1] = <<b, "d">>
        PROVE  (CHOOSE e \in T : e[1] = <<b, "d">>)[2] \in Places
    BY <1>3, <2>1
  <2> QED
    BY <1>2, <2>1 DEF ReplayTop
<1>5. ReplaySub(T, top, sub) \in [Backups \cup Pools -> Places]
  <2>1. ASSUME NEW c \in Backups \cup Pools, \E e \in T : e[1][2] = "s" /\ HomeOf(top, e[1][1]) = c
        PROVE  (CHOOSE e \in T : e[1][2] = "s" /\ HomeOf(top, e[1][1]) = c)[2] \in Places
    BY <1>3, <2>1
  <2> QED
    BY <1>2, <2>1 DEF ReplaySub
<1> QED
  BY <1>2, <1>4, <1>5 DEF Values, seenTop, seenSub, T

\* The replay leaves what was seen.
LEMMA ReplayView ==
    ASSUME Replay
    PROVE  top' = seenTop /\ sub' = seenSub /\ journal' = {}
<1>1. ReplayTop(Torn, top) = top' /\ ReplaySub(Torn, top, sub) = sub' /\ journal' = {}
  BY DEF Replay, ReplayTop, ReplaySub, HomeOf, Home
<1> QED
  BY <1>1, TornIs DEF seenTop, seenSub
-------------------------------------------------------------------------------
(***************************************************************************)
(* The invariant, part by part.                                            *)
(***************************************************************************)
\* Only recovery happens while the server is down.
LEMMA ServerUp ==
    ASSUME IInv, Step, ~RecoveryStep
    PROVE  up
<1>1. up \/ job = NoJob
  BY DEF IInv
<1>2. NoJob.step = "none"
  BY DEF NoJob
<1>3. ASSUME job.step # "none" PROVE up
  BY <1>1, <1>2, <1>3
<1>4. ASSUME NEW b \in Backups,
             \/ StartBackup(b) \/ FinishBackup(b) \/ FailBackup(b) \/ DeleteBackup(b)
             \/ \E x \in {"d", "s"} : Copy(b, x) \/ LinkLinked(b, x) \/ LinkPlain(b, x)
      PROVE up
  BY <1>4 DEF StartBackup, FinishBackup, FailBackup, DeleteBackup, Copy, LinkLinked, LinkPlain,
     BackupThread, Idle
<1>5. ASSUME \/ LinkTargetInTx \/ EndLink \/ CommitRows \/ Rename \/ RenameFails \/ LinkSource
             \/ LinkSourceFails \/ ForgetJournal \/ LinkTarget \/ Undo \/ UndoJournal \/ DropTarget
      PROVE job.step # "none"
  BY <1>5 DEF LinkTargetInTx, EndLink, CommitRows, Rename, RenameFails, LinkSource,
     LinkSourceFails, ForgetJournal, LinkTarget, Undo, UndoJournal, DropTarget, AfterUndo
<1>6. ASSUME RemoveStep PROVE job.step # "none"
  BY <1>6 DEF RemoveStep, ScanFolder, RemoveRow, EmptyPool, UnlinkNested, RemovePool, Unlink,
     EndRemove
<1>7. ASSUME Crash PROVE up
  BY <1>7 DEF Crash
<1> QED
  BY <1>3, <1>4, <1>5, <1>6, <1>7 DEF Step, RecoveryStep, RemoveStep

\* Nothing is under way while the server is down.
LEMMA DownStep ==
    ASSUME IInv, [Next]_vars
    PROVE  ~up' => job' = NoJob
<1>1. ASSUME RecoveryStep PROVE ~up' => job' = NoJob
  BY <1>1 DEF RecoveryStep, Restart, ReplayFirst, RemoveUnknown, IInv
<1>2. ASSUME Crash PROVE ~up' => job' = NoJob
  BY <1>2 DEF Crash
<1>3. ASSUME NEW b \in Backups,
             \/ StartBackup(b) \/ FinishBackup(b) \/ FailBackup(b) \/ DeleteBackup(b)
             \/ \E x \in {"d", "s"} : Copy(b, x) \/ LinkLinked(b, x) \/ LinkPlain(b, x)
      PROVE up' = up
  BY <1>3 DEF StartBackup, FinishBackup, FailBackup, DeleteBackup, Copy, LinkLinked, LinkPlain
<1>4. ASSUME \/ LinkTargetInTx \/ EndLink \/ CommitRows \/ Rename \/ RenameFails \/ LinkSource
             \/ LinkSourceFails \/ ForgetJournal \/ LinkTarget \/ Undo \/ UndoJournal \/ DropTarget
      PROVE up' = up
  BY <1>4 DEF LinkTargetInTx, EndLink, CommitRows, Rename, RenameFails, LinkSource,
     LinkSourceFails, ForgetJournal, LinkTarget, Undo, UndoJournal, DropTarget
<1>5. ASSUME RemoveStep PROVE up' = up
  BY <1>5 DEF RemoveStep, ScanFolder, RemoveLink, RemoveRow, EmptyPool, UnlinkNested, RemovePool,
     Unlink, EndRemove
<1>6. ASSUME Step PROVE ~up' => job' = NoJob
  BY <1>1, <1>2, <1>3, <1>4, <1>5, <1>6, ServerUp DEF Step, RecoveryStep, RemoveStep
<1>7. ASSUME UNCHANGED vars PROVE ~up' => job' = NoJob
  BY <1>7 DEF IInv, vars
<1> QED
  BY <1>6, <1>7 DEF Next, AllGone

\* rows can be counted
FiniteTables == IsFiniteSet(links) /\ IsFiniteSet(tx)

\* The tables stay finite.
LEMMA FiniteStep ==
    ASSUME FiniteTables, [Next]_vars
    PROVE  FiniteTables'
<1>1. IsFiniteSet(links) /\ IsFiniteSet(tx) /\ IsFiniteSet({})
  BY FS_EmptySet DEF FiniteTables
<1>2. ASSUME links' \in (SUBSET links) \cup (SUBSET tx),
             tx' \in (SUBSET links) \cup (SUBSET tx)
      PROVE FiniteTables'
  BY <1>1, <1>2, FS_Subset DEF FiniteTables
<1>3. ASSUME NEW b \in Backups, NEW x \in {"d", "s"}, LinkLinked(b, x) PROVE FiniteTables'
  <2>1. tx' = links \cup {<<At(last, x), <<b, x>>>>} \cup SublinkRows(links, last, x, b)
        /\ links' = links
    BY <1>3 DEF LinkLinked
  <2>2. IsFiniteSet(SublinkRows(links, last, x, b)) /\ IsFiniteSet({<<At(last, x), <<b, x>>>>})
    BY <1>1, FiniteRows, FS_Singleton
  <2>3. IsFiniteSet(links \cup {<<At(last, x), <<b, x>>>>})
    BY <1>1, <2>2, FS_Union
  <2>4. IsFiniteSet(tx')
    BY <2>1, <2>2, <2>3, FS_Union
  <2> QED
    BY <1>1, <2>1, <2>4 DEF FiniteTables
<1>4. ASSUME NEW b \in Backups, NEW x \in {"d", "s"}, LinkPlain(b, x) PROVE FiniteTables'
  <2>1. PICK p \in Pools : tx' = links \cup ParentRows(links, last, x, p)
                                       \cup {<<p, <<last, x>>>>, <<p, <<b, x>>>>}
                                       \cup SublinkRows(links, last, x, b)
    BY <1>4 DEF LinkPlain
  <2> DEFINE two == {<<p, <<last, x>>>>, <<p, <<b, x>>>>}
  <2>2. IsFiniteSet(SublinkRows(links, last, x, b)) /\ IsFiniteSet(ParentRows(links, last, x, p))
    BY <1>1, FiniteRows
  <2>3. IsFiniteSet(two)
    <3>1. IsFiniteSet({<<p, <<last, x>>>>}) /\ IsFiniteSet({<<p, <<b, x>>>>})
      BY FS_Singleton
    <3>2. two = {<<p, <<last, x>>>>} \cup {<<p, <<b, x>>>>}
      OBVIOUS
    <3> QED
      BY <3>1, <3>2, FS_Union
  <2> HIDE DEF two
  <2>4. IsFiniteSet(links \cup ParentRows(links, last, x, p))
    BY <1>1, <2>2, FS_Union
  <2>5. IsFiniteSet(links \cup ParentRows(links, last, x, p) \cup two)
    BY <2>3, <2>4, FS_Union
  <2>6. IsFiniteSet(links \cup ParentRows(links, last, x, p) \cup two \cup SublinkRows(links, last, x, b))
    BY <2>2, <2>5, FS_Union
  <2>7. IsFiniteSet(tx') /\ links' = links
    BY <1>4, <2>1, <2>6 DEF two, LinkPlain
  <2> QED
    BY <1>1, <2>7 DEF FiniteTables
<1>5. ASSUME NEW b \in Backups,
             \/ StartBackup(b) \/ FinishBackup(b) \/ FailBackup(b) \/ DeleteBackup(b)
             \/ \E x \in {"d", "s"} : Copy(b, x)
      PROVE FiniteTables'
  BY <1>2, <1>5 DEF StartBackup, FinishBackup, FailBackup, DeleteBackup, Copy, tables
<1>6. ASSUME \/ LinkTargetInTx \/ EndLink \/ CommitRows \/ Rename \/ RenameFails \/ LinkSource
             \/ LinkSourceFails \/ ForgetJournal \/ LinkTarget \/ Undo \/ UndoJournal \/ DropTarget
      PROVE FiniteTables'
  BY <1>2, <1>6 DEF LinkTargetInTx, EndLink, CommitRows, Rename, RenameFails, LinkSource,
     LinkSourceFails, ForgetJournal, LinkTarget, Undo, UndoJournal, DropTarget, tables
<1>7. ASSUME RemoveStep PROVE FiniteTables'
  <2>1. CASE ScanFolder \/ UnlinkNested \/ RemovePool \/ Unlink \/ EndRemove
    BY <1>2, <2>1 DEF ScanFolder, RemoveLink, UnlinkNested, RemovePool, Unlink, EndRemove, tables
  <2>2. CASE RemoveRow
    BY <1>2, <2>2 DEF RemoveRow
  <2>3. CASE EmptyPool
    BY <1>2, <2>3 DEF EmptyPool
  <2> QED
    BY <1>7, <2>1, <2>2, <2>3 DEF RemoveStep
<1>8. ASSUME Crash \/ Restart \/ ReplayFirst PROVE FiniteTables'
  BY <1>2, <1>8 DEF Crash, Restart, ReplayFirst, Replay
<1>9. ASSUME RemoveUnknown PROVE FiniteTables'
  <2> DEFINE kept == {r \in links : Exists(r[1]) /\ AtPath(r[2]) \in Pools}
             deep == {q \in kept : q[2][2] = "d" /\ sub[q[1]] \in Pools}
             below == {<<sub[r[1]], <<r[2][1], "s">>>> : r \in deep}
             f == [r \in deep |-> <<sub[r[1]], <<r[2][1], "s">>>>]
  <2>1. links' \in {kept, kept \cup below} /\ tx' = tx
    BY <1>9 DEF RemoveUnknown
  <2>2. IsFiniteSet(kept)
    BY <1>1, FS_Subset
  <2>3. IsFiniteSet(deep)
    <3> HIDE DEF kept
    <3> QED
      BY <2>2, FS_Subset
  <2>4. below = {f[r] : r \in deep} /\ f = [r \in deep |-> f[r]]
    OBVIOUS
  <2> HIDE DEF kept, deep, below, f
  <2>5. IsFiniteSet(below)
    BY <2>3, <2>4, ImageFinite
  <2>6. IsFiniteSet(kept \cup below)
    BY <2>2, <2>5, FS_Union
  <2>7. IsFiniteSet(links')
    BY <2>1, <2>2, <2>6
  <2> QED
    BY <1>1, <2>1, <2>7 DEF FiniteTables
<1>10. ASSUME UNCHANGED vars PROVE FiniteTables'
  BY <1>2, <1>10 DEF vars, tables
<1> QED
  BY <1>3, <1>4, <1>5, <1>6, <1>7, <1>8, <1>9, <1>10 DEF Next, Step, AllGone, RemoveStep
-------------------------------------------------------------------------------
(***************************************************************************)
(* What a step does to its operation and to a place, and what is seen.     *)
(***************************************************************************)
\* The job goes on to another step.
LEMMA GoIs ==
    ASSUME TypeOK, NEW step, Go(step)
    PROVE  job'.step = step /\ job'.b = job.b /\ job'.x = job.x /\ job'.p = job.p
BY DEF TypeOK, Go

\* What is put at a place.
LEMMA PlaceIs ==
    ASSUME NEW b, NEW x \in XS, NEW v, Place(b, x, v)
    PROVE  /\ x = "d" => top' = [top EXCEPT ![b] = v] /\ sub' = sub
           /\ x = "s" => top' = top /\ sub' = [sub EXCEPT ![HomeOf(top, b)] = v]
BY DEF Place, Home, HomeOf, XS

\* The types of an operation.
LEMMA JobParts ==
    ASSUME TypeInv, JobTypes
    PROVE  /\ job.x \in XS
           /\ job.step \in LinkSteps => job.b \in Backups /\ job.p \in Pools /\ last \in Backups
           /\ job.step \in RemoveSteps => job.b \in Backups
           /\ job.step \in RemoveSteps \ {"scan"} => job.p \in Pools
           /\ Values(top, sub, pool)
BY DEF TypeInv, JobTypes, TypeOK, XS, Values

\* While the server is up only a directory that has left its place is seen elsewhere.
LEMMA ViewUp ==
    ASSUME TypeOK, Journal, PoolJob, LinkJob, up, job.step # "link_source"
    PROVE  seenTop = top /\ seenSub = sub
<1>1. Values(top, sub, pool) /\ job.x \in XS
  BY DEF TypeOK, Values, XS
<1>2. CASE job.step \notin JournalSteps
  <2>1. journal = {}
    BY <1>2 DEF Journal
  <2> QED
    BY <1>1, <2>1, ViewSame DEF seenTop, seenSub
<1>3. CASE job.step \in JournalSteps
  <2>1. journal = {<<<<last, job.x>>, job.p>>} /\ last \in Backups \ renamed
    BY <1>3 DEF Journal
  <2>2. job.step \in LinkSteps \ LinkedSteps /\ job.p \in Pools
    BY <1>3 DEF JournalSteps, UndoSteps, LinkSteps, LinkedSteps, LinkJob
  <2>3. ~Live(pool, job.p) \/ AtPool(job.x, job.p)
    BY <1>3, <2>2 DEF PoolJob, JournalSteps, Live
  <2>4. AtPool(job.x, job.p) => PlaceOf(top, sub, last, job.x) = job.p
    BY <1>1 DEF AtPool, PlaceOf, Sees, HomeOf
  <2> QED
    BY <1>1, <2>1, <2>2, <2>3, <2>4, ViewSame DEF seenTop, seenSub
<1> QED
  BY <1>2, <1>3

\* The same of the state after a step.
LEMMA ViewUpNext ==
    ASSUME TypeOK', Journal', PoolJob', LinkJob', up', job'.step # "link_source"
    PROVE  seenTop' = top' /\ seenSub' = sub'
<1>1. Values(top', sub', pool') /\ job'.x \in XS
  BY DEF TypeOK, Values, XS
<1>2. CASE job'.step \notin JournalSteps
  <2>1. journal' = {}
    BY <1>2 DEF Journal
  <2> QED
    BY <1>1, <2>1, ViewSame DEF seenTop, seenSub
<1>3. CASE job'.step \in JournalSteps
  <2>1. journal' = {<<<<last', job'.x>>, job'.p>>} /\ last' \in Backups \ renamed'
    BY <1>3 DEF Journal
  <2>2. job'.step \in LinkSteps \ LinkedSteps /\ job'.p \in Pools
    BY <1>3 DEF JournalSteps, UndoSteps, LinkSteps, LinkedSteps, LinkJob
  <2>3. ~Live(pool', job'.p) \/ AtPool(job.x, job.p)'
    BY <1>3, <2>2 DEF PoolJob, JournalSteps, Live
  <2>4. AtPool(job.x, job.p)' => PlaceOf(top', sub', last', job'.x) = job'.p
    BY <1>1 DEF AtPool, PlaceOf, Sees, HomeOf
  <2> QED
    BY <1>1, <2>1, <2>2, <2>3, <2>4, ViewSame DEF seenTop, seenSub
<1> QED
  BY <1>2, <1>3

\* Nothing is left to be replayed when the journal is empty.
LEMMA ViewDone ==
    ASSUME TypeOK', journal' = {}
    PROVE  seenTop' = top' /\ seenSub' = sub'
<1>1. Values(top', sub', pool')
  BY DEF TypeOK, Values
<1> QED
  BY <1>1, ViewSame DEF seenTop, seenSub

\* A step that touches neither the journal nor what it names.
LEMMA ViewKept ==
    ASSUME UNCHANGED <<journal, top, sub, pool, renamed>>
    PROVE  seenTop' = seenTop /\ seenSub' = seenSub
BY DEF seenTop, seenSub, TornOf, ReplayTop, ReplaySub, PlaceOf, HomeOf

\* The directory on its way into the pool is seen as linked.
LEMMA ViewSource ==
    ASSUME TypeOK, Journal, PoolJob, LinkJob, job.step = "link_source"
    PROVE  /\ job.x = "d" => seenTop = [top EXCEPT ![last] = job.p] /\ seenSub = sub
           /\ job.x = "s" => seenTop = top /\ seenSub = [sub EXCEPT ![HomeOf(top, last)] = job.p]
<1>1. Values(top, sub, pool) /\ job.x \in XS
  BY DEF TypeOK, Values, XS
<1>2. journal = {<<<<last, job.x>>, job.p>>} /\ last \in Backups \ renamed
  BY DEF Journal, JournalSteps
<1>3. job.p \in Pools /\ Moved(job.x, job.p)
  BY DEF LinkJob, PoolJob, LinkSteps, LinkedSteps
<1>4. Live(pool, job.p) /\ PlaceOf(top, sub, last, job.x) # job.p
  BY <1>1, <1>3, Names DEF Moved, Live, PlaceOf, Sees, HomeOf, XS
<1> QED
  BY <1>1, <1>2, <1>3, <1>4, ViewMoved DEF seenTop, seenSub

\* And so after the step that moved it.
LEMMA ViewSourceNext ==
    ASSUME TypeOK', Journal', PoolJob', LinkJob', job'.step = "link_source"
    PROVE  /\ job'.x = "d" => seenTop' = [top' EXCEPT ![last'] = job'.p] /\ seenSub' = sub'
           /\ job'.x = "s" =>
                 seenTop' = top' /\ seenSub' = [sub' EXCEPT ![HomeOf(top', last')] = job'.p]
<1>1. Values(top', sub', pool') /\ job'.x \in XS
  BY DEF TypeOK, Values, XS
<1>2. journal' = {<<<<last', job'.x>>, job'.p>>} /\ last' \in Backups \ renamed'
  BY DEF Journal, JournalSteps
<1>3. job'.p \in Pools /\ Moved(job.x, job.p)'
  BY DEF LinkJob, PoolJob, LinkSteps, LinkedSteps
<1>4. Live(pool', job'.p) /\ PlaceOf(top', sub', last', job'.x) # job'.p
  BY <1>1, <1>3, Names DEF Moved, Live, PlaceOf, Sees, HomeOf, XS
<1> QED
  BY <1>1, <1>2, <1>3, <1>4, ViewMoved DEF seenTop, seenSub

\* A replay changes what the last backup shows, and nothing of the others.
LEMMA ViewOthers ==
    ASSUME TypeOK, Journal, NEW b \in Backups, status[b] # "done" \/ b \in renamed
    PROVE  seenTop[b] = top[b]
<1> DEFINE T == TornOf(journal, top, sub, pool, renamed)
<1>1. ASSUME NEW e \in T, e[1] = <<b, "d">> PROVE FALSE
  <2>1. PICK x \in {"d", "s"}, p \in Pools : journal = {<<<<last, x>>, p>>}
    BY <1>1 DEF TornOf, Journal
  <2>2. e = <<<<last, x>>, p>>
    BY <2>1 DEF TornOf
  <2>3. b = last
    BY <1>1, <2>2
  <2> QED
    BY <1>1, <2>3 DEF Journal, TornOf
<1> HIDE DEF T
<1>2. ReplayTop(T, top)[b] = top[b]
  BY <1>1 DEF ReplayTop
<1> QED
  BY <1>2 DEF seenTop, T

\* What remove_unknown makes of the table, the pool and the places.
LEMMA UnknownKept ==
    ASSUME IInv, FiniteTables', RemoveUnknown
    PROVE  /\ seenTop = top /\ seenSub = sub
           /\ \E deep \in BOOLEAN : KeptRows(top, sub, pool, links, renamed, links', deep)
           /\ pool' = [p \in Pools |-> IF p \in Unreferenced(pool, links') THEN "gone" ELSE pool[p]]
           /\ sub' = [c \in Backups \cup Pools |->
                        IF c \in renamed \/ c \in Unreferenced(pool, links') THEN "none" ELSE sub[c]]
           /\ top' = [b \in Backups |-> IF b \in renamed THEN "none" ELSE top[b]]
<1> DEFINE kept == {r \in links : Exists(r[1]) /\ AtPath(r[2]) \in Pools}
           unused(rows) == {p \in Pools : Exists(p) /\ Refcount(rows, p) = 0}
           deeper == {q \in kept : q[2][2] = "d" /\ sub[q[1]] \in Pools}
           below == {<<sub[r[1]], <<r[2][1], "s">>>> : r \in deeper}
           deep == unused(kept) # {}
<1>1. links \subseteq Rows /\ Values(top, sub, pool)
  BY DEF IInv, TypeInv, TypeOK, Values
<1>2. seenTop = top /\ seenSub = sub
  <2>1. TornOf(journal, top, sub, pool, renamed) = {}
    BY TornIs DEF RemoveUnknown
  <2>2. ReplayTop({}, top) = top /\ ReplaySub({}, top, sub) = sub
    BY <1>1 DEF Values, ReplayTop, ReplaySub
  <2> QED
    BY <2>1, <2>2 DEF seenTop, seenSub
<1>3. Shape(top, sub, pool) /\ Agree(top, sub, pool, links, renamed)
  BY <1>2 DEF IInv, Consistent
<1>4. ASSUME NEW p \in Pools PROVE Exists(p) <=> Live(pool, p)
  BY <1>1, Names DEF Exists, Live, Values
<1>5. ASSUME NEW q \in Pools, NEW c \in Backups, NEW x \in XS
      PROVE  Has(kept, q, c, x) <=>
               Has(links, q, c, x) /\ Exists(q) /\ AtPath(<<c, x>>) \in Pools
  BY DEF Has
<1>6. ASSUME NEW q \in Pools, NEW c \in Backups
      PROVE  Has(kept, q, c, "d") <=>
               Has(links, q, c, "d") /\ Live(pool, q) /\ c \notin renamed /\ top[c] = q
  <2>1. AtPath(<<c, "d">>) = IF c \in renamed THEN "none" ELSE top[c]
    BY DEF AtPath, At
  <2>2. Has(links, q, c, "d") /\ Live(pool, q) /\ c \notin renamed => top[c] \in {q, "none"}
    BY <1>3 DEF Agree, Reached
  <2> QED
    BY <1>4, <1>5, <2>1, <2>2, Names DEF XS
<1>7. ASSUME NEW q \in Pools, NEW c \in Backups
      PROVE  Has(kept, q, c, "s") <=>
               Has(links, q, c, "s") /\ Live(pool, q) /\ c \notin renamed /\ Sees(top, sub, c) = q
  <2>1. AtPath(<<c, "s">>) = IF c \in renamed THEN "none" ELSE Sees(top, sub, c)
    BY <1>1, <1>3, Names DEF AtPath, At, Home, Sees, Shape
  <2>2. Has(links, q, c, "s") /\ Live(pool, q) /\ c \notin renamed => Sees(top, sub, c) \in {q, "none"}
    BY <1>3 DEF Agree
  <2> QED
    BY <1>4, <1>5, <2>1, <2>2, Names DEF XS
<1>8. ASSUME NEW q \in Pools, NEW c \in Backups
      PROVE  /\ ~Has(below, q, c, "d")
             /\ Has(below, q, c, "s") <=> \E p \in Pools : Has(kept, p, c, "d") /\ sub[p] = q
  <2>1. ASSUME NEW x \in XS
        PROVE Has(below, q, c, x) <=> \E r \in deeper : <<q, <<c, x>>>> = <<sub[r[1]], <<r[2][1], "s">>>>
    BY DEF Has
  <2>2. ~Has(below, q, c, "d")
    BY <2>1 DEF XS
  <2>3. ASSUME NEW r \in deeper, <<q, <<c, "s">>>> = <<sub[r[1]], <<r[2][1], "s">>>>
        PROVE \E p \in Pools : Has(kept, p, c, "d") /\ sub[p] = q
    <3>1. r \in kept /\ r \in Rows /\ r[2][2] = "d"
      BY <1>1
    <3>2. r = <<r[1], <<c, "d">>>> /\ r[1] \in Pools /\ sub[r[1]] = q
      BY <2>3, <3>1, RowIs
    <3> QED
      BY <3>1, <3>2 DEF Has
  <2>4. ASSUME NEW p \in Pools, Has(kept, p, c, "d"), sub[p] = q
        PROVE \E r \in deeper : <<q, <<c, "s">>>> = <<sub[r[1]], <<r[2][1], "s">>>>
    <3>1. <<p, <<c, "d">>>> \in deeper
      BY <2>4 DEF Has
    <3>2. <<p, <<c, "d">>>>[1] = p /\ <<p, <<c, "d">>>>[2][1] = c
      OBVIOUS
    <3> QED
      BY <2>4, <3>1, <3>2
  <2> QED
    BY <2>1, <2>2, <2>3, <2>4 DEF XS
<1>9. links' = (IF deep THEN kept \cup below ELSE kept)
  BY DEF RemoveUnknown
<1>10. ASSUME NEW q \in Pools, NEW c \in Backups
       PROVE /\ Has(links', q, c, "d") <=> Has(kept, q, c, "d")
             /\ Has(links', q, c, "s") <=> \/ Has(kept, q, c, "s")
                                           \/ deep /\ \E p \in Pools : Has(kept, p, c, "d") /\ sub[p] = q
  <2> HIDE DEF kept, below, deep
  <2> QED
    BY <1>8, <1>9, HasUnion
<1>11. unused(links') = Unreferenced(pool, links')
  <2>1. links' \subseteq Rows
    <3>1. \A r \in Rows : sub[r[1]] \in Pools => <<sub[r[1]], <<r[2][1], "s">>>> \in Rows
      BY DEF Rows, Paths
    <3> QED
      BY <1>1, <1>9, <3>1
  <2>2. IsFiniteSet(links')
    BY DEF FiniteTables
  <2>3. ASSUME NEW p \in Pools
        PROVE Refcount(links', p) = 0 <=> \A c \in Backups : ~Has(links', p, c, "d") /\ ~Has(links', p, c, "s")
    BY <2>1, <2>2, RefcountIs DEF XS
  <2> HIDE DEF kept, below, deep
  <2> QED
    BY <1>4, <2>3 DEF Unreferenced
<1>12. KeptRows(top, sub, pool, links, renamed, links', deep)
  <2> HIDE DEF kept, below, deep
  <2> QED
    BY <1>6, <1>7, <1>10 DEF KeptRows
<1>13. /\ pool' = [p \in Pools |-> IF p \in unused(links') THEN "gone" ELSE pool[p]]
       /\ sub' = [c \in Backups \cup Pools |-> IF c \in renamed \cup unused(links') THEN "none" ELSE sub[c]]
       /\ top' = [b \in Backups |-> IF b \in renamed THEN "none" ELSE top[b]]
  BY <1>9 DEF RemoveUnknown
<1>14. deep \in BOOLEAN
  OBVIOUS
<1> HIDE DEF kept, below, deep, unused
<1> QED
  BY <1>2, <1>11, <1>12, <1>13, <1>14
-------------------------------------------------------------------------------
(***************************************************************************)
(* The backups.                                                            *)
(***************************************************************************)
\* What a step shows that changes no backup: only backups in use change, and get rows.
LEMMA AgesFrame ==
    ASSUME Ages, UNCHANGED backups,
           \A b \in Backups : status[b] \in {"unused", "gone"} => top'[b] = top[b],
           \A b \in Backups : status[b] = "unused" /\ Clean(links, b) => Clean(links', b)
    PROVE  Ages'
<1>1. status' = status /\ doomed' = doomed /\ renamed' = renamed /\ last' = last
  BY DEF backups
<1>2. ASSUME NEW b \in Backups, status[b] \in {"unused", "gone"} PROVE top'[b] = "none"
  BY <1>2 DEF Ages
<1>3. ASSUME NEW b \in Backups, status[b] = "unused" PROVE Clean(links', b)
  BY <1>3 DEF Ages
<1> QED
  BY <1>1, <1>2, <1>3 DEF Ages, Running

\* The backup that is running is one.
LEMMA OneRuns ==
    ASSUME Ages, NEW b \in Backups, NEW c \in Backups, Running(b), Running(c)
    PROVE  b = c
<1>1. b \in Nat /\ c \in Nat
  BY BackupsAssumption
<1>2. b < c \/ c < b \/ b = c
  BY <1>1
<1> QED
  BY <1>2 DEF Ages, Running

\* What is fixed while an operation links a directory.
LEMMA LinkFacts ==
    ASSUME IInv, job.step \in LinkSteps
    PROVE  /\ job.b \in Backups \ renamed /\ job.p \in Pools /\ job.x \in XS /\ up
           /\ Running(job.b) /\ status[job.b] # "unused"
           /\ last \in Backups \ renamed /\ status[last] = "done" /\ job.b # last
           /\ job.step # "end_link" => Vacant(job.b, job.x)
           /\ Values(top, sub, pool) /\ links \subseteq Rows /\ tx \subseteq Rows
<1>1. job.x \in XS /\ Values(top, sub, pool) /\ links \subseteq Rows /\ tx \subseteq Rows
  BY DEF IInv, TypeInv, TypeOK, XS, Values
<1>2. /\ up /\ job.b \in Backups /\ job.p \in Pools /\ last \in Backups /\ Running(job.b)
      /\ job.b \notin renamed /\ (job.step # "end_link" => Vacant(job.b, job.x))
  BY DEF IInv, LinkJob
<1>3. status[last] = "done"
  BY DEF IInv, LinkedJob, PoolJob
<1>4. last \notin renamed
  BY <1>3 DEF IInv, Ages
<1> QED
  BY <1>1, <1>2, <1>3, <1>4 DEF Running

\* Whoever may go on when an operation is at a step.
LEMMA RemoveFacts ==
    ASSUME IInv, job.step \in RemoveSteps
    PROVE  /\ up /\ job.b \in Backups /\ job.b \in doomed /\ status[job.b] \in {"done", "failed"}
           /\ job.x \in XS /\ ~Running(job.b)
           /\ job.step # "scan" => job.p \in Pools
           /\ Values(top, sub, pool) /\ links \subseteq Rows /\ tx \subseteq Rows
<1>1. job.x \in XS /\ Values(top, sub, pool) /\ links \subseteq Rows /\ tx \subseteq Rows
  BY DEF IInv, TypeInv, TypeOK, XS, Values
<1>2. /\ up /\ job.b \in Backups /\ job.b \in doomed /\ status[job.b] \in {"done", "failed"}
      /\ job.step # "scan" => job.p \in Pools
  BY DEF IInv, RemoveJob
<1> QED
  BY <1>1, <1>2 DEF Running

\* Links are at places of the backup that runs or of the last one.
LEMMA LinkAges ==
    ASSUME IInv, LinkStep
    PROVE  Ages'
<1>1. Ages /\ Values(top, sub, pool)
  BY DEF IInv, TypeInv, TypeOK, Values
<1>2. ASSUME UNCHANGED <<backups, top, links>> PROVE Ages'
  BY <1>1, <1>2, AgesFrame
<1>3. ASSUME NEW b \in Backups, NEW x \in {"d", "s"}, LinkLinked(b, x) \/ LinkPlain(b, x)
      PROVE Ages'
  BY <1>2, <1>3 DEF LinkLinked, LinkPlain, files
<1>4. ASSUME RenameFails \/ ForgetJournal \/ UndoJournal PROVE Ages'
  BY <1>2, <1>4 DEF RenameFails, ForgetJournal, UndoJournal, files, tables
<1>5. ASSUME UNCHANGED <<backups, links>>, NEW c \in Backups, status[c] \notin {"unused", "gone"},
             NEW v, top' = top \/ top' = [top EXCEPT ![c] = v]
      PROVE Ages'
  <2>1. \A b \in Backups : status[b] \in {"unused", "gone"} => top'[b] = top[b]
    BY <1>1, <1>5 DEF Values
  <2> QED
    BY <1>1, <1>5, <2>1, AgesFrame
<1>6. ASSUME LinkTargetInTx \/ LinkTarget PROVE Ages'
  <2>1. job.step \in LinkSteps
    BY <1>6 DEF LinkTargetInTx, LinkTarget, LinkSteps
  <2>2. job.b \in Backups /\ status[job.b] \notin {"unused", "gone"} /\ job.x \in XS
    BY <2>1, LinkFacts DEF Running
  <2>3. UNCHANGED <<backups, links>> /\ (Place(job.b, job.x, job.p) \/ top' = top)
    BY <1>6 DEF LinkTargetInTx, LinkTarget, tables
  <2> QED
    BY <1>5, <2>2, <2>3 DEF Place, XS
<1>7. ASSUME Rename \/ LinkSource \/ LinkSourceFails PROVE Ages'
  <2>1. job.step \in LinkSteps
    BY <1>7 DEF Rename, LinkSource, LinkSourceFails, LinkSteps
  <2>2. last \in Backups /\ status[last] \notin {"unused", "gone"} /\ job.x \in XS
    BY <2>1, LinkFacts
  <2>3. UNCHANGED <<backups, links>>
    BY <1>7 DEF Rename, LinkSource, LinkSourceFails, tables
  <2>4. top' = top \/ \E v : top' = [top EXCEPT ![last] = v]
    BY <1>7, <2>2 DEF Rename, LinkSource, LinkSourceFails, Place, XS
  <2> QED
    BY <1>5, <2>2, <2>3, <2>4
<1>8. ASSUME Undo \/ DropTarget PROVE Ages'
  <2>1. links' \subseteq links /\ UNCHANGED backups /\ top' = top
    BY <1>8 DEF Undo, DropTarget, files
  <2> QED
    BY <1>1, <2>1, AgesFrame DEF Clean, Has
<1>9. ASSUME EndLink PROVE Ages'
  <2>1. links' = tx /\ UNCHANGED backups /\ top' = top /\ job.step \in LinkedSteps
        /\ job.step \in LinkSteps /\ job.step = "end_link"
    BY <1>9 DEF EndLink, files, LinkedSteps, LinkSteps
  <2>2. job.b \in Backups /\ status[job.b] # "unused" /\ job.x \in XS /\ last \in Backups
    BY <2>1, LinkFacts
  <2>3. WithTarget(links, tx, last, job.b, job.x, job.p) \/ tx = links
    BY <2>1 DEF IInv, LinkedJob
  <2>4. \A b \in Backups : status[b] = "unused" /\ Clean(links, b) => Clean(links', b)
    BY <2>1, <2>2, <2>3 DEF Clean, WithTarget
  <2> QED
    BY <1>1, <2>1, <2>4, AgesFrame
<1>10. ASSUME CommitRows PROVE Ages'
  <2>1. links' = tx /\ UNCHANGED backups /\ top' = top /\ job.step = "commit"
        /\ job.step \in LinkSteps \ LinkedSteps
    BY <1>10 DEF CommitRows, files, LinkedSteps, LinkSteps
  <2>2. /\ job.b \in Backups /\ status[job.b] # "unused" /\ job.x \in XS
        /\ last \in Backups /\ status[last] = "done"
    BY <2>1, LinkFacts
  <2>3. WithPool(links, tx, last, top[last], job.b, job.x, job.p)
    BY <2>1 DEF IInv, RowsJob
  <2>4. \A b \in Backups : status[b] = "unused" /\ Clean(links, b) => Clean(links', b)
    BY <2>1, <2>2, <2>3 DEF Clean, WithPool
  <2> QED
    BY <1>1, <2>1, <2>4, AgesFrame
<1> QED
  BY <1>3, <1>4, <1>6, <1>7, <1>8, <1>9, <1>10 DEF LinkStep

\* The steps of a deletion, up to its end.
LEMMA RemoveAges ==
    ASSUME IInv, RemoveStep
    PROVE  Ages'
<1>1. Ages /\ Values(top, sub, pool)
  BY DEF IInv, TypeInv, TypeOK, Values
<1>2. job.step \in RemoveSteps
  BY DEF RemoveStep, ScanFolder, RemoveRow, EmptyPool, UnlinkNested, RemovePool, Unlink, EndRemove,
     RemoveSteps
<1>3. job.b \in Backups /\ status[job.b] \in {"done", "failed"} /\ job.x \in XS
  BY <1>2, RemoveFacts
<1>4. ASSUME UNCHANGED <<backups, links>>, top' = top \/ top' = [top EXCEPT ![job.b] = "none"]
      PROVE Ages'
  <2>1. \A b \in Backups : status[b] \in {"unused", "gone"} => top'[b] = top[b]
    BY <1>1, <1>3, <1>4 DEF Values
  <2> QED
    BY <1>1, <1>4, <2>1, AgesFrame
<1>5. ASSUME RemoveRow \/ EmptyPool \/ UnlinkNested \/ RemovePool \/ Unlink PROVE Ages'
  <2>1. UNCHANGED <<backups, links>>
    BY <1>5 DEF RemoveRow, EmptyPool, UnlinkNested, RemovePool, Unlink, tables
  <2>2. top' = top \/ top' = [top EXCEPT ![job.b] = "none"]
    BY <1>3, <1>5 DEF RemoveRow, EmptyPool, UnlinkNested, RemovePool, Unlink, Place, files, XS
  <2> QED
    BY <1>4, <2>1, <2>2
<1>6. ASSUME EndRemove PROVE Ages'
  <2>1. links' = tx /\ UNCHANGED backups /\ top' = top /\ job.step \in RemoveSteps \ {"scan", "row"}
    BY <1>6 DEF EndRemove, files, RemoveSteps
  <2>2. \A b \in Backups : status[b] = "unused" /\ Clean(links, b) => Clean(links', b)
    BY <1>3, <2>1 DEF IInv, RemoveTx, Clean
  <2> QED
    BY <1>1, <2>1, <2>2, AgesFrame
<1>7. ASSUME ScanFolder PROVE Ages'
  <2>1. CASE UNCHANGED <<backups, links>>
    BY <1>4, <1>7, <2>1 DEF ScanFolder, RemoveLink, files
  <2>2. CASE /\ top[job.b] = "none"
             /\ status' = [status EXCEPT ![job.b] = "gone"]
             /\ UNCHANGED <<doomed, renamed, last, files, tables>>
    <3>1. \A b \in Backups : status'[b] = IF b = job.b THEN "gone" ELSE status[b]
      BY <1>3, <2>2 DEF IInv, TypeInv, TypeOK
    <3>2. \A b \in Backups : (status'[b] = "unused" <=> status[b] = "unused")
                              /\ (Running(b)' => Running(b))
      BY <1>3, <3>1 DEF Running
    <3>3. last \in Backups \cup {0}
      BY DEF IInv, TypeInv, TypeOK
    <3>4. last # 0 => status'[last] \in {"done", "gone"}
      BY <1>1, <3>1, <3>3 DEF Ages
    <3>5. renamed \subseteq Backups /\ doomed \subseteq Backups
      BY DEF IInv, TypeInv, TypeOK
    <3>6. top' = top /\ links' = links /\ doomed' = doomed /\ renamed' = renamed /\ last' = last
      BY <2>2 DEF files, tables
    <3> QED
      BY <1>1, <2>2, <3>1, <3>2, <3>4, <3>5, <3>6 DEF Ages
  <2> QED
    BY <1>7, <2>1, <2>2 DEF ScanFolder, RemoveLink, backups, tables, files
<1> QED
  BY <1>5, <1>6, <1>7 DEF RemoveStep

\* The steps of a backup.
LEMMA BackupAges ==
    ASSUME IInv, NEW b \in Backups,
           \/ StartBackup(b) \/ FinishBackup(b) \/ FailBackup(b) \/ DeleteBackup(b)
           \/ \E x \in {"d", "s"} : Copy(b, x)
    PROVE  Ages'
<1>1. Ages /\ Values(top, sub, pool)
      /\ status \in [Backups -> {"unused", "running", "done", "failed", "gone"}]
      /\ renamed \subseteq Backups /\ doomed \subseteq Backups /\ last \in Backups \cup {0}
  BY DEF IInv, TypeInv, TypeOK, Values
<1>2. \A c \in Backups : c \in Nat \ {0}
  BY BackupsAssumption
<1>3. ASSUME StartBackup(b) PROVE Ages'
  <2>1. /\ \A c \in Backups : status'[c] = IF c = b THEN "running" ELSE status[c]
        /\ top' = top /\ links' = links /\ doomed' = doomed /\ renamed' = renamed
        /\ status[b] = "unused"
        /\ \A c \in Backups : ~Running(c) /\ (c < b => status[c] # "unused")
    BY <1>1, <1>3 DEF StartBackup, files, tables
  <2>2. last' # 0 => last' \in Backups /\ status[last'] = "done"
    BY <1>3, NewestIs DEF StartBackup, IInv, TypeInv
  <2>3. \A c, e \in Backups : status'[c] # "unused" /\ e < c => status'[e] # "unused"
    BY <1>1, <2>1 DEF Ages
  <2>4. ASSUME NEW c \in Backups, NEW e \in Backups, Running(c)', c < e PROVE status'[e] = "unused"
    <3>1. c = b
      BY <2>1, <2>4 DEF Running
    <3>2. e # b
      BY <1>2, <2>4, <3>1
    <3>3. status[e] = "unused"
      BY <1>1, <2>1, <2>4, <3>1 DEF Ages
    <3> QED
      BY <2>1, <3>2, <3>3
  <2>5. \A c \in renamed' : status'[c] \in {"failed", "gone"}
    BY <1>1, <2>1 DEF Ages
  <2>6. \A c \in doomed' : status'[c] \in {"done", "failed", "gone"}
    BY <1>1, <2>1 DEF Ages
  <2>7. \A c \in Backups : status'[c] \in {"unused", "gone"} => top'[c] = "none"
    BY <1>1, <2>1 DEF Ages
  <2>8. \A c \in Backups : status'[c] = "unused" => Clean(links', c)
    BY <1>1, <2>1 DEF Ages
  <2>9. last' # 0 => status'[last'] \in {"done", "gone"}
    BY <2>1, <2>2
  <2> QED
    BY <2>3, <2>4, <2>5, <2>6, <2>7, <2>8, <2>9 DEF Ages
<1>4. ASSUME NEW v \in {"done", "failed"}, Running(b), status' = [status EXCEPT ![b] = v],
             UNCHANGED <<doomed, renamed, last, top, links>>
      PROVE Ages'
  <2>1. \A c \in Backups : status'[c] = IF c = b THEN v ELSE status[c]
    BY <1>1, <1>4
  <2>2. \A c \in Backups : (status'[c] = "unused" <=> status[c] = "unused")
                            /\ (Running(c)' => Running(c))
    BY <1>4, <2>1 DEF Running
  <2>3. b \notin renamed
    BY <1>1, <1>4 DEF Ages, Running
  <2>4. last # 0 => status'[last] \in {"done", "gone"}
    BY <1>1, <1>4, <2>1 DEF Ages, Running
  <2> QED
    BY <1>1, <1>4, <2>1, <2>2, <2>3, <2>4 DEF Ages
<1>5. ASSUME FinishBackup(b) \/ FailBackup(b) PROVE Ages'
  BY <1>4, <1>5 DEF FinishBackup, FailBackup, files, tables
<1>6. ASSUME DeleteBackup(b) PROVE Ages'
  <2>1. UNCHANGED <<status, renamed, last, top, links>> /\ doomed' = doomed \cup {b}
        /\ status[b] \in {"done", "failed"}
    BY <1>6 DEF DeleteBackup, files, tables
  <2> QED
    BY <1>1, <2>1 DEF Ages, Running
<1>7. ASSUME NEW x \in {"d", "s"}, Copy(b, x) PROVE Ages'
  <2>1. UNCHANGED <<backups, links>> /\ Running(b) /\ Place(b, x, "dir")
    BY <1>7 DEF Copy, Open, tables
  <2>2. \A c \in Backups : status[c] \in {"unused", "gone"} => top'[c] = top[c]
    BY <1>1, <2>1 DEF Place, Values, Running
  <2> QED
    BY <1>1, <2>1, <2>2, AgesFrame
<1> QED
  BY <1>3, <1>5, <1>6, <1>7

\* A crash and what follows it.
LEMMA RecoveryAges ==
    ASSUME IInv, FiniteTables', RecoveryStep \/ Crash
    PROVE  Ages'
<1>1. /\ Ages /\ Values(top, sub, pool) /\ renamed \subseteq Backups /\ doomed \subseteq Backups
      /\ status \in [Backups -> {"unused", "running", "done", "failed", "gone"}]
      /\ last \in Backups \cup {0}
  BY DEF IInv, TypeInv, TypeOK, Values
<1>2. ASSUME NEW b \in Backups, status[b] # "done" \/ b \in renamed PROVE seenTop[b] = top[b]
  BY <1>2, ViewOthers DEF IInv, TypeInv
<1>3. CASE Crash
  BY <1>1, <1>3, AgesFrame DEF Crash, files
<1>4. CASE ReplayFirst
  <2>1. UNCHANGED <<backups, links>> /\ top' = seenTop
    BY <1>4, ReplayView DEF ReplayFirst
  <2> QED
    BY <1>1, <1>2, <2>1, AgesFrame
<1>5. CASE Restart
  <2>1. top' = seenTop /\ links' = links /\ last' = last
    BY <1>5, ReplayView DEF Restart
  <2>2. /\ status' = [b \in Backups |-> IF Running(b) THEN "failed" ELSE status[b]]
        /\ renamed' = renamed \cup {b \in Backups : status[b] \in {"running", "failed"}}
        /\ doomed' = doomed \cup renamed'
    BY <1>5 DEF Restart
  <2>3. \A b \in Backups : status'[b] = IF status[b] = "running" THEN "failed" ELSE status[b]
    BY <2>2 DEF Running
  <2>4. \A b \in renamed' : b \in Backups /\ status'[b] \in {"failed", "gone"}
    BY <1>1, <2>2, <2>3 DEF Ages
  <2>5. \A b \in Backups : ~Running(b)' /\ (status'[b] = "unused" <=> status[b] = "unused")
    BY <2>3 DEF Running
  <2>6. \A b \in doomed' : status'[b] \in {"done", "failed", "gone"}
    BY <1>1, <2>2, <2>3, <2>4 DEF Ages
  <2>7. \A b \in Backups : status'[b] \in {"unused", "gone"} => top'[b] = "none"
    BY <1>1, <1>2, <2>1, <2>3 DEF Ages
  <2>8. last # 0 => status'[last] \in {"done", "gone"}
    BY <1>1, <2>3 DEF Ages
  <2>9. \A b, c \in Backups : status'[b] # "unused" /\ c < b => status'[c] # "unused"
    BY <1>1, <2>5 DEF Ages
  <2>10. \A b \in Backups : status'[b] = "unused" => Clean(links', b)
    BY <1>1, <2>1, <2>5 DEF Ages
  <2> QED
    BY <2>1, <2>4, <2>5, <2>6, <2>7, <2>8, <2>9, <2>10 DEF Ages
<1>6. CASE RemoveUnknown
  <2>1. /\ top' = [b \in Backups |-> IF b \in renamed THEN "none" ELSE top[b]]
        /\ status' = [b \in Backups |-> IF b \in renamed THEN "gone" ELSE status[b]]
        /\ UNCHANGED <<doomed, renamed, last>>
    BY <1>6 DEF RemoveUnknown
  <2>2. PICK deep \in BOOLEAN : KeptRows(top, sub, pool, links, renamed, links', deep)
    BY <1>6, UnknownKept
  <2>3. \A b \in renamed : b \in Backups /\ status[b] \in {"failed", "gone"}
    BY <1>1 DEF Ages
  <2>4. \A b \in Backups : /\ status'[b] = "unused" <=> status[b] = "unused"
                           /\ Running(b)' <=> Running(b)
                           /\ status'[b] = IF b \in renamed THEN "gone" ELSE status[b]
    BY <2>1, <2>3 DEF Running
  <2>5. ASSUME NEW b \in Backups, status'[b] = "unused" PROVE Clean(links', b)
    <3>1. Clean(links, b)
      BY <1>1, <2>4, <2>5 DEF Ages
    <3>2. \A q \in Pools : ~Has(links', q, b, "d")
      BY <2>2, <3>1 DEF KeptRows, Clean
    <3>3. \A q \in Pools : ~Has(links', q, b, "s")
      BY <2>2, <3>1, <3>2 DEF KeptRows, Clean
    <3> QED
      BY <3>2, <3>3 DEF Clean
  <2>6. \A b \in Backups : status'[b] \in {"unused", "gone"} => top'[b] = "none"
    BY <1>1, <2>1 DEF Ages
  <2>7. \A b \in doomed' : status'[b] \in {"done", "failed", "gone"}
    BY <1>1, <2>1, <2>4 DEF Ages
  <2>8. last' # 0 => status'[last'] \in {"done", "gone"}
    BY <1>1, <2>1, <2>4 DEF Ages
  <2>9. /\ \A b, c \in Backups : status'[b] # "unused" /\ c < b => status'[c] # "unused"
        /\ \A b, c \in Backups : Running(b)' /\ b < c => status'[c] = "unused"
    BY <1>1, <2>4 DEF Ages
  <2>10. \A b \in renamed' : status'[b] \in {"failed", "gone"}
    BY <2>1, <2>3, <2>4
  <2> QED
    BY <2>5, <2>6, <2>7, <2>8, <2>9, <2>10 DEF Ages
<1> QED
  BY <1>3, <1>4, <1>5, <1>6 DEF RecoveryStep

\* Steps of a backup by itself.
BackupStep ==
    \E b \in Backups :
       \/ StartBackup(b) \/ FinishBackup(b) \/ FailBackup(b) \/ DeleteBackup(b)
       \/ \E x \in {"d", "s"} : Copy(b, x)

\* Every step is one of a backup, a link, a deletion, a crash or of the recovery.
LEMMA Steps == Step <=> BackupStep \/ LinkStep \/ RemoveStep \/ Crash \/ RecoveryStep
BY DEF Step, BackupStep, LinkStep, RemoveStep, RecoveryStep

\* What is known of the age and the end of backups stays true.
LEMMA AgesStep ==
    ASSUME IInv, FiniteTables', Step
    PROVE  Ages'
BY Steps, BackupAges, LinkAges, RemoveAges, RecoveryAges DEF BackupStep
-------------------------------------------------------------------------------
(***************************************************************************)
(* The rows of the backup that runs, and the journal.                      *)
(***************************************************************************)
\* A step that changes neither the places nor the rows of the backup that runs.
LEMMA RunningFrame ==
    ASSUME RunningRows, up, job.step \notin LinkSteps,
           \A b \in Backups : Running(b)' =>
              /\ Running(b) /\ top'[b] = top[b] /\ sub'[b] = sub[b]
              /\ \A p \in Pools : /\ Has(links', p, b, "d") => Has(links, p, b, "d")
                                  /\ Has(links', p, b, "s") => Has(links, p, b, "s")
    PROVE  RunningRows'
BY DEF RunningRows

\* Whoever makes or deletes backups finds no directory being linked.
LEMMA NotLinking ==
    ASSUME BackupThread \/ Idle
    PROVE  job.step \notin LinkSteps /\ up
BY DEF BackupThread, Idle, NoJob, LinkSteps, RemoveSteps

\* What the running backup has rows of, it has.
LEMMA BackupRows ==
    ASSUME IInv, BackupStep
    PROVE  RunningRows'
<1>1. RunningRows /\ Values(top, sub, pool) /\ Ages
      /\ status \in [Backups -> {"unused", "running", "done", "failed", "gone"}]
  BY DEF IInv, TypeInv, TypeOK, Values
<1>2. job.step \notin LinkSteps /\ up
  BY NotLinking DEF BackupStep, StartBackup, FinishBackup, FailBackup, DeleteBackup, Copy
<1>3. ASSUME NEW b \in Backups, StartBackup(b) PROVE RunningRows'
  <2>1. /\ \A c \in Backups : status'[c] = IF c = b THEN "running" ELSE status[c]
        /\ top' = top /\ sub' = sub /\ links' = links /\ status[b] = "unused"
        /\ \A c \in Backups : ~Running(c)
    BY <1>1, <1>3 DEF StartBackup, files, tables
  <2>2. Clean(links, b)
    BY <1>1, <2>1 DEF Ages
  <2> QED
    BY <2>1, <2>2 DEF RunningRows, Running, Clean
<1>4. ASSUME NEW b \in Backups, FinishBackup(b) \/ FailBackup(b) \/ DeleteBackup(b)
      PROVE RunningRows'
  <2>1. \A c \in Backups : Running(c)' => Running(c)
    BY <1>1, <1>4 DEF FinishBackup, FailBackup, DeleteBackup, Running
  <2>2. UNCHANGED <<top, sub, links>>
    BY <1>4 DEF FinishBackup, FailBackup, DeleteBackup, files, tables
  <2> QED
    BY <1>1, <1>2, <2>1, <2>2, RunningFrame
<1>5. ASSUME NEW b \in Backups, NEW x \in {"d", "s"}, Copy(b, x) PROVE RunningRows'
  <2>1. status' = status /\ links' = links /\ Running(b) /\ Open(b, x) /\ Place(b, x, "dir")
        /\ x \in XS
    BY <1>5 DEF Copy, Open, backups, tables, XS
  <2>2. Clean(links, b)
    BY <1>1, <1>2, <2>1, Names DEF RunningRows, Open, Clean
  <2>3. ASSUME NEW c \in Backups, Running(c)' PROVE c = b
    BY <1>1, <2>1, <2>3, OneRuns DEF Running
  <2> QED
    BY <2>1, <2>2, <2>3 DEF RunningRows, Clean
<1> QED
  BY <1>3, <1>4, <1>5 DEF BackupStep

\* So it is when an operation that links has ended.
LEMMA LinkRows ==
    ASSUME IInv, LinkStep
    PROVE  RunningRows'
<1>1. RunningRows /\ Values(top, sub, pool) /\ Ages
  BY DEF IInv, TypeInv, TypeOK, Values
<1>2. NoJob.step \notin LinkSteps
  BY DEF NoJob, LinkSteps
<1>3. ASSUME job'.step \in LinkSteps PROVE RunningRows'
  BY <1>3 DEF RunningRows
<1>4. TypeOK
  BY DEF IInv, TypeInv
<1>5. status' = status
  BY DEF LinkStep, LinkLinked, LinkPlain, LinkTargetInTx, EndLink, CommitRows, Rename,
     RenameFails, LinkSource, LinkSourceFails, ForgetJournal, LinkTarget, Undo, UndoJournal,
     DropTarget, backups
<1>6. ASSUME job.step \in LinkSteps, NEW c \in Backups, Running(c)' PROVE c = job.b
  BY <1>1, <1>5, <1>6, LinkFacts, OneRuns DEF Running
<1>7. ASSUME NEW b \in Backups, NEW x \in {"d", "s"}, LinkLinked(b, x) \/ LinkPlain(b, x)
      PROVE RunningRows'
  <2>1. job'.step \in LinkSteps
    BY <1>7 DEF LinkLinked, LinkPlain, LinkSteps
  <2> QED
    BY <1>3, <2>1
<1>8. ASSUME \/ LinkTargetInTx \/ CommitRows \/ Rename \/ RenameFails \/ LinkSource
             \/ LinkSourceFails \/ ForgetJournal
      PROVE RunningRows'
  <2>1. job'.step \in LinkSteps
    BY <1>4, <1>8, GoIs DEF LinkTargetInTx, CommitRows, Rename, RenameFails, LinkSource,
       LinkSourceFails, ForgetJournal, LinkSteps
  <2> QED
    BY <1>3, <2>1
<1>9. ASSUME Undo PROVE RunningRows'
  <2>1. job'.step \in LinkSteps
    BY <1>4, <1>9, GoIs DEF Undo, AfterUndo, LinkSteps
  <2> QED
    BY <1>3, <2>1
<1>10. ASSUME EndLink PROVE RunningRows'
  <2>1. links' = tx /\ top' = top /\ sub' = sub /\ job.step = "end_link"
        /\ job.step \in LinkSteps /\ job.step \in LinkedSteps
    BY <1>10 DEF EndLink, files, LinkedSteps, LinkSteps
  <2>2. job.b \in Backups /\ job.x \in XS /\ last \in Backups /\ job.p \in Pools
    BY <2>1, LinkFacts
  <2>3. /\ Clean(links, job.b)
        /\ \/ /\ WithTarget(links, tx, last, job.b, job.x, job.p)
              /\ IF job.x = "d" THEN top[job.b] = job.p ELSE top[job.b] = "dir" /\ sub[job.b] = job.p
           \/ tx = links
    BY <2>1 DEF IInv, LinkedJob
  <2>4. \A p \in Pools : /\ Has(links', p, job.b, "d") => top'[job.b] = p
                         /\ Has(links', p, job.b, "s") =>
                               top'[job.b] \in Pools \/ (top'[job.b] = "dir" /\ sub'[job.b] = p)
    BY <2>1, <2>2, <2>3 DEF Clean, WithTarget, XS
  <2> QED
    BY <1>6, <2>1, <2>4 DEF RunningRows
<1>11. ASSUME UndoJournal PROVE RunningRows'
  <2>1. links' = links /\ job.step = "undo_journal" /\ job.step \in LinkSteps
    BY <1>11 DEF UndoJournal, LinkSteps
  <2>2. Clean(links, job.b)
    BY <2>1 DEF IInv, UndoJob, UndoSteps
  <2> QED
    BY <1>6, <2>1, <2>2 DEF RunningRows, Clean
<1>12. ASSUME LinkTarget PROVE RunningRows'
  <2>1. links' = links /\ job.step = "link_target" /\ job.step \in LinkSteps \ LinkedSteps
    BY <1>12 DEF LinkTarget, LinkSteps, LinkedSteps, tables
  <2>2. job.b \in Backups /\ job.x \in XS /\ last \in Backups /\ job.p \in Pools
        /\ Vacant(job.b, job.x)
    BY <2>1, LinkFacts
  <2>3. PoolRows(links, last, top[last], job.b, job.x, job.p)
    BY <2>1 DEF IInv, RowsJob
  <2>4. CASE Go("drop_target")
    <3>1. job'.step \in LinkSteps
      BY <1>4, <2>4, GoIs DEF LinkSteps
    <3> QED
      BY <1>3, <3>1
  <2>5. CASE Place(job.b, job.x, job.p)
    <3> DEFINE b == job.b
               x == job.x
               p == job.p
    <3>0. b \in Backups /\ x \in XS /\ Place(b, x, p) /\ Vacant(b, x)
      BY <2>2, <2>5
    <3> HIDE DEF b, x, p
    <3>1. x = "d" => top'[b] = p
      BY <1>1, <3>0 DEF Values, Place
    <3>2. x = "s" => top'[b] = "dir" /\ sub'[b] = p
      BY <1>1, <3>0, Names DEF Values, Vacant, Place, Home, XS
    <3> USE DEF b, x, p
    <3>3. \A q \in Pools : /\ Has(links', q, job.b, "d") => top'[job.b] = q
                           /\ Has(links', q, job.b, "s") =>
                               top'[job.b] \in Pools \/ (top'[job.b] = "dir" /\ sub'[job.b] = q)
      BY <2>1, <2>2, <2>3, <3>1, <3>2 DEF PoolRows, XS
    <3> QED
      BY <1>6, <2>1, <3>3 DEF RunningRows
  <2> QED
    BY <1>12, <2>4, <2>5 DEF LinkTarget
<1>13. ASSUME DropTarget PROVE RunningRows'
  <2>1. CASE job.step = "drop_target"
    <3>1. job'.step \in LinkSteps
      BY <1>4, <1>13, <2>1, GoIs DEF DropTarget, LinkSteps
    <3> QED
      BY <1>3, <3>1
  <2>2. CASE job.step = "drop_below"
    <3>1. links' = links \ RowsAt(job.b, Below(job.x)) /\ job.step \in LinkSteps \ LinkedSteps
      BY <1>13, <2>2 DEF DropTarget, LinkSteps, LinkedSteps
    <3>2. job.b \in Backups /\ job.x \in XS
      BY <3>1, LinkFacts
    <3>3. /\ \A q \in Pools : ~Has(links, q, job.b, "d")
          /\ \A q \in Pools : Has(links, q, job.b, "s") => job.x = "d"
      BY <2>2, <3>1 DEF IInv, RowsJob
    <3>4. Clean(links', job.b)
      BY <3>1, <3>2, <3>3, HasMinus DEF Clean, Below, XS
    <3> QED
      BY <1>6, <3>1, <3>4 DEF RunningRows, Clean
  <2> QED
    BY <1>13, <2>1, <2>2 DEF DropTarget
<1> QED
  BY <1>7, <1>8, <1>9, <1>10, <1>11, <1>12, <1>13 DEF LinkStep

\* A deletion touches places and rows of another backup.
LEMMA RemoveRows ==
    ASSUME IInv, RemoveStep
    PROVE  RunningRows'
<1>1. RunningRows /\ Values(top, sub, pool)
      /\ status \in [Backups -> {"unused", "running", "done", "failed", "gone"}]
  BY DEF IInv, TypeInv, TypeOK, Values
<1>2. job.step \in RemoveSteps /\ job.step \notin LinkSteps
  BY DEF RemoveStep, ScanFolder, RemoveRow, EmptyPool, UnlinkNested, RemovePool, Unlink, EndRemove,
     RemoveSteps, LinkSteps
<1>3. job.b \in Backups /\ ~Running(job.b) /\ up /\ job.x \in XS
      /\ (job.step # "scan" => job.p \in Pools)
  BY <1>2, RemoveFacts
<1>4. ASSUME \A b \in Backups : Running(b)' => Running(b),
             \A b \in Backups : b # job.b =>
                /\ top'[b] = top[b] /\ sub'[b] = sub[b]
                /\ \A p \in Pools : /\ Has(links', p, b, "d") => Has(links, p, b, "d")
                                    /\ Has(links', p, b, "s") => Has(links, p, b, "s")
      PROVE RunningRows'
  BY <1>1, <1>2, <1>3, <1>4, RunningFrame
<1>5. ASSUME ScanFolder PROVE RunningRows'
  <2>1. links' = links
    BY <1>5 DEF ScanFolder, RemoveLink, tables
  <2>2. \A b \in Backups : Running(b)' => Running(b)
    BY <1>1, <1>5 DEF ScanFolder, RemoveLink, backups, Running
  <2>3. \A b \in Backups : b # job.b => top'[b] = top[b] /\ sub'[b] = sub[b]
    BY <1>1, <1>5 DEF ScanFolder, RemoveLink, files, Values
  <2> QED
    BY <1>4, <2>1, <2>2, <2>3
<1>6. ASSUME RemoveRow \/ EmptyPool \/ RemovePool PROVE RunningRows'
  <2>1. UNCHANGED <<status, links, top, sub>>
    BY <1>6 DEF RemoveRow, EmptyPool, RemovePool, backups, files, tables
  <2> QED
    BY <1>4, <2>1 DEF Running
<1>7. ASSUME UnlinkNested PROVE RunningRows'
  <2>1. UNCHANGED <<status, links, top>> /\ sub' = [sub EXCEPT ![job.p] = "none"] /\ job.p \in Pools
    BY <1>3, <1>7 DEF UnlinkNested, backups, tables
  <2> QED
    BY <1>1, <1>4, <2>1, Names DEF Running, Values
<1>8. ASSUME Unlink PROVE RunningRows'
  <2>1. UNCHANGED <<status, links>> /\ Place(job.b, job.x, "none") /\ job.step = "unlink"
    BY <1>8 DEF Unlink, backups, tables
  <2>2. job.x = "s" => top[job.b] = "dir"
    BY <1>2, <2>1 DEF IInv, RemoveJob, AtLink
  <2>3. \A b \in Backups : b # job.b => top'[b] = top[b] /\ sub'[b] = sub[b]
    BY <1>1, <1>3, <2>1, <2>2, PlaceIs, Names DEF Values, HomeOf, XS
  <2> QED
    BY <1>4, <2>1, <2>3 DEF Running
<1>9. ASSUME EndRemove PROVE RunningRows'
  <2>1. UNCHANGED <<status, top, sub>> /\ links' = tx /\ job.step \in RemoveSteps \ {"scan", "row"}
    BY <1>9 DEF EndRemove, backups, files, RemoveSteps
  <2> QED
    BY <1>4, <2>1 DEF Running, IInv, RemoveTx
<1> QED
  BY <1>5, <1>6, <1>7, <1>8, <1>9 DEF RemoveStep

\* After a crash nothing runs.
LEMMA RunningRowsStep ==
    ASSUME IInv, Step
    PROVE  RunningRows'
<1>1. CASE Crash
  BY <1>1 DEF Crash, RunningRows
<1>2. CASE RecoveryStep
  <2>1. CASE Restart
    <3>1. \A b \in Backups : ~Running(b)'
      BY <2>1 DEF Restart, Running
    <3> QED
      BY <3>1 DEF RunningRows
  <2>2. CASE ReplayFirst \/ RemoveUnknown
    BY <2>2 DEF ReplayFirst, RemoveUnknown, RunningRows
  <2> QED
    BY <1>2, <2>1, <2>2 DEF RecoveryStep
<1> QED
  BY <1>1, <1>2, Steps, BackupRows, LinkRows, RemoveRows

\* What the journal names is left alone.
LEMMA JournalFrame ==
    ASSUME Journal, UNCHANGED <<journal, last, renamed, pool, top, sub>>,
           \A b \in Backups : status[b] = "done" => status'[b] = "done",
           up' /\ job'.step \notin JournalSteps => journal = {},
           job'.step \in JournalSteps =>
              job.step \in JournalSteps /\ job'.x = job.x /\ job'.p = job.p
    PROVE  Journal'
BY DEF Journal, Moved, AtPool, Sees

\* The journal is empty.
LEMMA JournalEmpty ==
    ASSUME journal' = {}, job'.step \notin JournalSteps
    PROVE  Journal'
BY DEF Journal

\* The steps that are not of an operation that moves a directory leave the journal empty.
LEMMA JournalOthers ==
    ASSUME IInv, BackupStep \/ RemoveStep
    PROVE  Journal'
<1>1. job.step \in RemoveSteps \/ job = NoJob
  BY DEF BackupStep, StartBackup, FinishBackup, FailBackup, DeleteBackup, Copy, BackupThread, Idle,
     RemoveStep, ScanFolder, RemoveRow, EmptyPool, UnlinkNested, RemovePool, Unlink, EndRemove,
     RemoveSteps
<1>2. up
  BY Steps, ServerUp DEF RecoveryStep, BackupStep, StartBackup, FinishBackup, FailBackup,
     DeleteBackup, Copy, BackupThread, Idle, RemoveStep, ScanFolder, RemoveRow, EmptyPool,
     UnlinkNested, RemovePool, Unlink, EndRemove, IInv, NoJob
<1>3. job.step \notin JournalSteps
  BY <1>1 DEF JournalSteps, UndoSteps, RemoveSteps, NoJob
<1>4. journal = {}
  BY <1>2, <1>3 DEF IInv, Journal
<1>5. journal' = journal
  BY DEF BackupStep, StartBackup, FinishBackup, FailBackup, DeleteBackup, Copy, RemoveStep,
     ScanFolder, RemoveLink, RemoveRow, EmptyPool, UnlinkNested, RemovePool, Unlink, EndRemove,
     tables
<1>6. TypeOK
  BY DEF IInv, TypeInv
<1>7. job'.step \notin JournalSteps
  <2>1. CASE RemoveRow \/ EmptyPool \/ UnlinkNested \/ RemovePool \/ Unlink \/ EndRemove
    BY <1>6, <2>1, GoIs DEF RemoveRow, EmptyPool, UnlinkNested, RemovePool, Unlink, EndRemove,
       JournalSteps, UndoSteps
  <2>2. CASE ScanFolder
    <3>1. ASSUME NEW x, RemoveLink(job.b, x) PROVE job'.step = "row"
      BY <1>6, <3>1 DEF RemoveLink, TypeOK
    <3>2. job' = job \/ job' = NoJob \/ job'.step = "row"
      BY <2>2, <3>1 DEF ScanFolder
    <3> QED
      BY <1>3, <3>2 DEF JournalSteps, UndoSteps, NoJob
  <2>3. CASE BackupStep
    BY <1>3, <2>3 DEF BackupStep, StartBackup, FinishBackup, FailBackup, DeleteBackup, Copy,
       JournalSteps, UndoSteps
  <2> QED
    BY <2>1, <2>2, <2>3 DEF RemoveStep
<1> QED
  BY <1>4, <1>5, <1>7, JournalEmpty

\* The entry of an operation is there until its directory is linked or back.
LEMMA JournalLink ==
    ASSUME IInv, LinkStep
    PROVE  Journal'
<1>1. Journal /\ Values(top, sub, pool) /\ TypeOK
  BY DEF IInv, TypeInv, TypeOK, Values
<1>2. up /\ status' = status
  BY ServerUp, Steps DEF LinkStep, LinkLinked, LinkPlain, LinkTargetInTx, EndLink, CommitRows,
     Rename,
     RenameFails, LinkSource, LinkSourceFails, ForgetJournal, LinkTarget, Undo, UndoJournal,
     DropTarget, backups, RecoveryStep, IInv, NoJob, Idle, AfterUndo
<1>3. NoJob.step \notin JournalSteps
  BY DEF NoJob, JournalSteps, UndoSteps
<1>4. ASSUME NEW b \in Backups, NEW x \in {"d", "s"}, LinkLinked(b, x) PROVE Journal'
  <2>1. journal = {}
    BY <1>1, <1>2, <1>3, <1>4 DEF Journal, LinkLinked, Idle
  <2>2. journal' = journal /\ job'.step \notin JournalSteps
    BY <1>4 DEF LinkLinked, JournalSteps, UndoSteps
  <2> QED
    BY <2>1, <2>2, JournalEmpty
<1>5. ASSUME LinkTargetInTx \/ EndLink \/ LinkTarget \/ DropTarget PROVE Journal'
  <2>1. job.step \notin JournalSteps /\ journal' = journal
    BY <1>5 DEF LinkTargetInTx, EndLink, LinkTarget, DropTarget, JournalSteps, UndoSteps, tables
  <2>2. job'.step \notin JournalSteps
    BY <1>1, <1>3, <1>5, GoIs DEF LinkTargetInTx, EndLink, LinkTarget, DropTarget, JournalSteps,
       UndoSteps
  <2> QED
    BY <1>1, <1>2, <2>1, <2>2, JournalEmpty DEF Journal
<1>6. ASSUME NEW b \in Backups, NEW x \in {"d", "s"}, LinkPlain(b, x) PROVE Journal'
  <2>1. PICK p \in Pools : /\ pool[p] = "unused"
                           /\ journal' = journal \cup {<<<<last, x>>, p>>}
                           /\ job' = [step |-> "commit", b |-> b, x |-> x, p |-> p]
    BY <1>6 DEF LinkPlain
  <2>2. journal = {}
    BY <1>1, <1>2, <1>3, <1>6 DEF Journal, LinkPlain, Idle
  <2>3. UNCHANGED <<backups, top, sub, pool>> /\ last # 0 /\ At(last, x) = "dir"
    BY <1>6 DEF LinkPlain, files
  <2>4. last \in Backups /\ top[last] # "none"
    BY <1>1, <2>3, Names DEF TypeOK, At
  <2>5. status[last] = "done" /\ last \notin renamed
    BY <2>3, <2>4 DEF IInv, Ages
  <2>6. journal' = {<<<<last', job'.x>>, job'.p>>} /\ job'.step \in JournalSteps
        /\ job'.x = x /\ job'.p = p
    BY <2>1, <2>2, <2>3 DEF backups, JournalSteps
  <2>7. ~Live(pool', p)
    BY <2>1, <2>3 DEF Live
  <2> QED
    BY <2>3, <2>4, <2>5, <2>6, <2>7 DEF Journal, backups
<1>7. ASSUME CommitRows \/ RenameFails \/ Undo PROVE Journal'
  <2>1. job.step \in JournalSteps
    BY <1>7 DEF CommitRows, RenameFails, Undo, AfterUndo, JournalSteps, UndoSteps
  <2>2. job'.step \in JournalSteps /\ job'.x = job.x /\ job'.p = job.p
    BY <1>1, <1>7, GoIs DEF CommitRows, RenameFails, Undo, AfterUndo, JournalSteps, UndoSteps
  <2>3. UNCHANGED <<journal, last, renamed, pool, top, sub>>
    BY <1>7 DEF CommitRows, RenameFails, Undo, backups, files, tables
  <2> QED
    BY <1>1, <1>2, <2>1, <2>2, <2>3, JournalFrame
<1>8. ASSUME ForgetJournal \/ UndoJournal PROVE Journal'
  <2>1. job.step \in JournalSteps /\ journal' = journal \ {<<<<last, job.x>>, job.p>>}
    BY <1>8 DEF ForgetJournal, UndoJournal, JournalSteps, UndoSteps
  <2>2. journal' = {}
    BY <1>1, <2>1 DEF Journal
  <2>3. job'.step \notin JournalSteps
    BY <1>1, <1>3, <1>8, GoIs DEF ForgetJournal, UndoJournal, JournalSteps, UndoSteps
  <2> QED
    BY <2>2, <2>3, JournalEmpty
<1>9. ASSUME Rename \/ LinkSource \/ LinkSourceFails PROVE Journal'
  <2>1. job.step \in JournalSteps /\ job.step \in LinkSteps \ LinkedSteps
    BY <1>9 DEF Rename, LinkSource, LinkSourceFails, JournalSteps, LinkSteps, LinkedSteps
  <2>2. job.x \in XS /\ job.p \in Pools /\ last \in Backups \ renamed /\ status[last] = "done"
    BY <2>1, LinkFacts
  <2>3. UNCHANGED <<journal, backups>>
    BY <1>9 DEF Rename, LinkSource, LinkSourceFails, tables
  <2>4. job'.step \in JournalSteps /\ job'.x = job.x /\ job'.p = job.p
    BY <1>1, <1>9, GoIs DEF Rename, LinkSource, LinkSourceFails, JournalSteps, UndoSteps
  <2>5. ASSUME Live(pool', job.p) => Moved(job.x, job.p)' \/ AtPool(job.x, job.p)' PROVE Journal'
    <3>1. journal' = {<<<<last', job'.x>>, job'.p>>}
      BY <1>1, <2>1, <2>3, <2>4 DEF Journal, backups
    <3> QED
      BY <2>2, <2>3, <2>4, <2>5, <3>1 DEF Journal, backups, XS, Moved, AtPool
  <2>6. CASE Rename
    <3>1. AtSource(job.x)
      BY <2>1, <2>6 DEF IInv, PoolJob, Rename
    <3>2. Moved(job.x, job.p)'
      BY <1>1, <2>2, <2>3, <2>4, <2>6, <3>1, Names
         DEF Rename, Place, Home, Moved, AtSource, Sees, Values, XS, backups
    <3> QED
      BY <2>5, <3>2
  <2>7. CASE LinkSource
    <3>1. Moved(job.x, job.p)
      BY <2>1, <2>7 DEF IInv, PoolJob, LinkSource
    <3>2. AtPool(job.x, job.p)'
      BY <1>1, <2>2, <2>3, <2>4, <2>7, <3>1, Names
         DEF LinkSource, Place, Home, Moved, AtPool, Sees, Values, XS, backups
    <3> QED
      BY <2>5, <3>2
  <2>8. CASE LinkSourceFails
    <3>1. pool'[job.p] = "gone"
      BY <1>1, <2>2, <2>8 DEF LinkSourceFails, Values
    <3> QED
      BY <2>5, <3>1 DEF Live
  <2> QED
    BY <1>9, <2>6, <2>7, <2>8
<1> QED
  BY <1>4, <1>5, <1>6, <1>7, <1>8, <1>9 DEF LinkStep

\* A crash leaves the entry to the replay, and the replay leaves none.
LEMMA JournalStep ==
    ASSUME IInv, Step
    PROVE  Journal'
<1>1. NoJob.step \notin JournalSteps
  BY DEF NoJob, JournalSteps, UndoSteps
<1>2. CASE Crash
  <2>1. UNCHANGED <<journal, last, renamed, pool, top, sub, status>> /\ ~up' /\ job' = NoJob
    BY <1>2 DEF Crash, backups, files
  <2> QED
    BY <1>1, <2>1, JournalFrame DEF IInv
<1>3. CASE RecoveryStep
  <2>1. ~up /\ job' = job /\ journal' = {}
    BY <1>3 DEF RecoveryStep, Restart, ReplayFirst, RemoveUnknown, Replay
  <2>2. job = NoJob
    BY <2>1 DEF IInv
  <2> QED
    BY <1>1, <2>1, <2>2, JournalEmpty
<1> QED
  BY <1>2, <1>3, Steps, JournalOthers, JournalLink
-------------------------------------------------------------------------------
(***************************************************************************)
(* The operations.                                                         *)
(***************************************************************************)

\* what is said of a link_directory_pool under way
Linking == LinkJob /\ LinkedJob /\ PoolJob /\ RowsJob /\ UndoJob

\* what is said of a remove_directory_link under way
Removing == RemoveJob /\ RemoveTx

\* No operation is under way.
LEMMA NoOperation ==
    ASSUME job'.step \notin LinkSteps \cup RemoveSteps
    PROVE  Linking' /\ Removing'
BY DEF Linking, Removing, LinkJob, LinkedJob, PoolJob, RowsJob, UndoJob, RemoveJob, RemoveTx,
   LinkSteps, LinkedSteps, UndoSteps, RemoveSteps, EmptySteps

\* A deletion links nothing.
LEMMA NoLinking ==
    ASSUME job'.step \in RemoveSteps
    PROVE  Linking'
BY DEF Linking, LinkJob, LinkedJob, PoolJob, RowsJob, UndoJob, LinkSteps, LinkedSteps, UndoSteps,
   RemoveSteps

\* An operation that links removes nothing.
LEMMA NoRemoving ==
    ASSUME job'.step \in LinkSteps
    PROVE  Removing'
BY DEF Removing, RemoveJob, RemoveTx, LinkSteps, RemoveSteps, EmptySteps

\* Backups go on beside a deletion.
LEMMA BackupOperation ==
    ASSUME IInv, BackupStep
    PROVE  Linking' /\ Removing'
<1>1. /\ TypeOK /\ Values(top, sub, pool) /\ RemoveJob /\ RemoveTx
      /\ status \in [Backups -> {"unused", "running", "done", "failed", "gone"}]
  BY DEF IInv, TypeInv, TypeOK, Values
<1>2. NoJob.step \notin LinkSteps \cup RemoveSteps
  BY DEF NoJob, LinkSteps, RemoveSteps
<1>3. ASSUME NEW b \in Backups, DeleteBackup(b) PROVE Linking' /\ Removing'
  <2>1. /\ job' = [step |-> "scan", b |-> b, x |-> "d", p |-> "none"]
        /\ up /\ up' = up /\ status[b] \in {"done", "failed"} /\ status' = status
        /\ doomed' = doomed \cup {b}
    BY <1>3 DEF DeleteBackup, Idle
  <2>2. RemoveJob'
    BY <2>1 DEF RemoveJob, RemoveSteps, EmptySteps
  <2>3. RemoveTx'
    BY <2>1 DEF RemoveTx, RemoveSteps, EmptySteps
  <2>4. Linking'
    BY <2>1, NoLinking DEF RemoveSteps
  <2> QED
    BY <2>2, <2>3, <2>4 DEF Removing
<1>4. ASSUME NEW b \in Backups, \/ StartBackup(b) \/ FinishBackup(b) \/ FailBackup(b)
                                \/ \E x \in {"d", "s"} : Copy(b, x)
      PROVE Linking' /\ Removing'
  <2>1. UNCHANGED <<doomed, renamed, pool, tables, job, up>>
        /\ (job = NoJob \/ job.step \in RemoveSteps)
    BY <1>4 DEF StartBackup, FinishBackup, FailBackup, Copy, backups, files, BackupThread
  <2>2. CASE job = NoJob
    BY <1>2, <2>1, <2>2, NoOperation
  <2>3. CASE job.step \in RemoveSteps
    <3>1. job.b \in Backups /\ status[job.b] \in {"done", "failed"} /\ (job.step # "scan" => job.p \in Pools)
      BY <2>3, RemoveFacts
    <3>2. status[b] \in {"unused", "running"}
      BY <1>4 DEF StartBackup, FinishBackup, FailBackup, Copy, Open, Running
    <3>3. \A c \in Backups : c # b => status'[c] = status[c] /\ top'[c] = top[c]
      BY <1>1, <1>4 DEF StartBackup, FinishBackup, FailBackup, Copy, Place, files, backups, Values
    <3>4. \A c \in Backups \cup Pools : c # b => sub'[c] = sub[c]
      <4>1. CASE sub' = sub
        BY <4>1
      <4>2. CASE Open(b, "s") /\ Place(b, "s", "dir")
        BY <1>1, <4>2, Names DEF Open, Place, Home, Values
      <4> QED
        BY <1>4, <4>1, <4>2 DEF StartBackup, FinishBackup, FailBackup, Copy, Place, files
    <3>5. RemoveJob'
      BY <1>1, <2>1, <2>3, <3>1, <3>2, <3>3, <3>4, Names DEF RemoveJob, AtLink, EmptySteps, Live
    <3>6. RemoveTx'
      BY <1>1, <2>1 DEF RemoveTx, tables
    <3> QED
      BY <2>1, <2>3, <3>5, <3>6, NoLinking DEF Removing
  <2> QED
    BY <2>1, <2>2, <2>3
<1> QED
  BY <1>3, <1>4 DEF BackupStep

\* A crash ends every operation, and none begins while the server is down.
LEMMA DownOperation ==
    ASSUME IInv, Crash \/ RecoveryStep
    PROVE  Linking' /\ Removing'
<1>1. job' = NoJob
  BY DEF Crash, RecoveryStep, Restart, ReplayFirst, RemoveUnknown, IInv
<1> QED
  BY <1>1, NoOperation DEF NoJob, LinkSteps, RemoveSteps

\* Two tables with the same rows.
LEMMA SameRows ==
    ASSUME NEW R, NEW Q, R \subseteq Rows, Q \subseteq Rows,
           \A p \in Pools, b \in Backups, x \in XS : Has(R, p, b, x) <=> Has(Q, p, b, x)
    PROVE  R = Q
<1>1. ASSUME NEW r \in Rows PROVE r \in R <=> r \in Q
  <2>1. r = <<r[1], <<r[2][1], r[2][2]>>>> /\ r[1] \in Pools /\ r[2][1] \in Backups
        /\ r[2][2] \in XS
    BY RowIs
  <2> QED
    BY <2>1 DEF Has
<1> QED
  BY <1>1

\* The backup that runs has nothing where a place is open.
LEMMA OpenClean ==
    ASSUME IInv, up, job.step \notin LinkSteps, NEW b \in Backups, NEW x \in XS, Open(b, x)
    PROVE  Clean(links, b) /\ Running(b) /\ Vacant(b, x) /\ b \notin renamed
<1>1. RunningRows /\ Running(b)
  BY DEF IInv, Open
<1>2. Clean(links, b)
  BY <1>1, Names DEF RunningRows, Open, Clean
<1>3. b \notin renamed
  BY <1>1 DEF IInv, Ages, Running
<1> QED
  BY <1>1, <1>2, <1>3 DEF Vacant, Open

\* The last backup is done when it shows anything.
LEMMA LastShown ==
    ASSUME IInv, last # 0, NEW x \in XS, At(last, x) # "none"
    PROVE  /\ last \in Backups \ renamed /\ status[last] = "done"
           /\ top[last] # "none" /\ At(last, x) = IF x = "d" THEN top[last] ELSE Sees(top, sub, last)
<1>1. last \in Backups /\ top[last] # "none"
  BY DEF IInv, TypeInv, TypeOK, At, XS
<1>2. status[last] = "done" /\ last \notin renamed
  BY <1>1 DEF IInv, Ages
<1> QED
  BY <1>1, <1>2 DEF At, Home, Sees, XS

\* The rows of a link whose source is a link.
LEMMA LinkedRows ==
    ASSUME NEW R, NEW R2, R \subseteq Rows, last \in Backups, NEW b \in Backups, NEW x \in XS,
           NEW p \in Pools,
           R2 = R \cup {<<p, <<b, x>>>>} \cup SublinkRows(R, last, x, b)
    PROVE  WithTarget(R, R2, last, b, x, p)
<1> SUFFICES ASSUME NEW q \in Pools, NEW c \in Backups
             PROVE  /\ Has(R2, q, c, "d") <=> Has(R, q, c, "d") \/ (x = "d" /\ q = p /\ c = b)
                    /\ Has(R2, q, c, "s") <=> \/ Has(R, q, c, "s")
                                              \/ x = "s" /\ q = p /\ c = b
                                              \/ x = "d" /\ c = b /\ Has(R, q, last, "s")
  BY DEF WithTarget
<1> DEFINE one == {<<p, <<b, x>>>>}
           below == SublinkRows(R, last, x, b)
<1>1. ASSUME NEW y \in XS
      PROVE Has(R2, q, c, y) <=> Has(R, q, c, y) \/ Has(one, q, c, y) \/ Has(below, q, c, y)
  <2> HIDE DEF one, below
  <2>1. R2 = (R \cup one) \cup below
    BY DEF one, below
  <2> QED
    BY <2>1 DEF Has
<1>2. ASSUME NEW y \in XS PROVE Has(one, q, c, y) <=> q = p /\ c = b /\ y = x
  BY DEF Has
<1>3. ASSUME NEW y \in XS
      PROVE Has(below, q, c, y) <=> x = "d" /\ c = b /\ y = "s" /\ Has(R, q, last, "s")
  BY HasSublink
<1> HIDE DEF one, below
<1> QED
  BY <1>1, <1>2, <1>3 DEF XS

\* The rows of a link whose source is a directory.
LEMMA PlainRows ==
    ASSUME NEW R, NEW R2, R \subseteq Rows, last \in Backups, NEW b \in Backups, NEW x \in XS,
           NEW p \in Pools,
           R2 = R \cup ParentRows(R, last, x, p) \cup {<<p, <<last, x>>>>, <<p, <<b, x>>>>}
                       \cup SublinkRows(R, last, x, b)
    PROVE  WithPool(R, R2, last, top[last], b, x, p)
<1> SUFFICES ASSUME NEW q \in Pools, NEW c \in Backups
             PROVE  /\ Has(R2, q, c, "d") <=>
                          Has(R, q, c, "d") \/ (x = "d" /\ q = p /\ c \in {b, last})
                    /\ Has(R2, q, c, "s") <=>
                          \/ Has(R, q, c, "s")
                          \/ x = "d" /\ c = b /\ Has(R, q, last, "s")
                          \/ /\ x = "s" /\ q = p
                             /\ c \in {b, last} \/ (top[last] \in Pools /\ Has(R, top[last], c, "d"))
  BY DEF WithPool
<1> DEFINE two == {<<p, <<last, x>>>>, <<p, <<b, x>>>>}
           below == SublinkRows(R, last, x, b)
           parents == ParentRows(R, last, x, p)
<1>1. ASSUME NEW y \in XS
      PROVE Has(R2, q, c, y) <=> \/ Has(R, q, c, y) \/ Has(parents, q, c, y)
                                  \/ Has(two, q, c, y) \/ Has(below, q, c, y)
  <2> HIDE DEF two, below, parents
  <2>1. R2 = ((R \cup parents) \cup two) \cup below
    BY DEF two, below, parents
  <2> QED
    BY <2>1 DEF Has
<1>2. ASSUME NEW y \in XS PROVE Has(two, q, c, y) <=> q = p /\ c \in {b, last} /\ y = x
  <2>1. Has(two, q, c, y) <=> (q = p /\ c = last /\ y = x) \/ (q = p /\ c = b /\ y = x)
    BY DEF Has
  <2> HIDE DEF two
  <2> QED
    BY <2>1
<1>3. ASSUME NEW y \in XS
      PROVE Has(below, q, c, y) <=> x = "d" /\ c = b /\ y = "s" /\ Has(R, q, last, "s")
  BY HasSublink
<1>4. ASSUME NEW y \in XS
      PROVE Has(parents, q, c, y) <=> /\ x = "s" /\ top[last] \in Pools /\ q = p /\ c # last
                                      /\ y = "s" /\ Has(R, top[last], c, "d")
  BY HasParent
<1> HIDE DEF two, below, parents
<1> QED
  BY <1>1, <1>2, <1>3, <1>4 DEF XS

\* link_directory_pool, whose source is a link.
LEMMA LinkedOperation ==
    ASSUME IInv, \/ \E b \in Backups, x \in {"d", "s"} : LinkLinked(b, x)
                 \/ LinkTargetInTx \/ EndLink
    PROVE  Linking' /\ Removing'
<1>1. TypeOK /\ Values(top, sub, pool) /\ links \subseteq Rows /\ tx \subseteq Rows
  BY DEF IInv, TypeInv, TypeOK, Values
<1>2. ASSUME NEW b \in Backups, NEW x \in {"d", "s"}, LinkLinked(b, x) PROVE Linking' /\ Removing'
  <2> DEFINE p == At(last, x)
  <2>1. /\ last # 0 /\ p \in Pools /\ Open(b, x) /\ up /\ job = NoJob /\ x \in XS
        /\ tx' = links \cup {<<p, <<b, x>>>>} \cup SublinkRows(links, last, x, b)
        /\ job' = [step |-> "symlink", b |-> b, x |-> x, p |-> p]
        /\ UNCHANGED <<backups, files, links, up>>
    BY <1>2 DEF LinkLinked, Idle, XS
  <2>2. Clean(links, b) /\ Running(b) /\ Vacant(b, x) /\ b \notin renamed
    BY <2>1, OpenClean DEF NoJob, LinkSteps
  <2>3. /\ last \in Backups \ renamed /\ status[last] = "done"
        /\ p = IF x = "d" THEN top[last] ELSE Sees(top, sub, last)
    BY <2>1, Names, LastShown
  <2>4. WithTarget(links, tx', last, b, x, p)
    <3> HIDE DEF p
    <3> QED
      BY <1>1, <2>1, <2>3, LinkedRows
  <2> HIDE DEF p
  <2>5. LinkJob'
    BY <2>1, <2>2, <2>3 DEF LinkJob, Vacant, Running, backups, files, LinkSteps
  <2>6. LinkedJob'
    BY <2>1, <2>2, <2>3, <2>4 DEF LinkedJob, LinkedSteps, backups, files, Sees
  <2>7. PoolJob' /\ RowsJob' /\ UndoJob'
    BY <2>1 DEF PoolJob, RowsJob, UndoJob, LinkedSteps, UndoSteps
  <2>8. Removing'
    BY <2>1, NoRemoving DEF LinkSteps
  <2> QED
    BY <2>5, <2>6, <2>7, <2>8 DEF Linking
<1>3. ASSUME LinkTargetInTx PROVE Linking' /\ Removing'
  <2> DEFINE b == job.b
             x == job.x
             p == job.p
  <2>1. /\ job.step = "symlink" /\ job.step \in LinkSteps /\ job.step \in LinkedSteps
        /\ \/ Place(b, x, p) /\ UNCHANGED tx
           \/ tx' = tx \ RowsAt(b, {x} \cup Below(x)) /\ UNCHANGED <<top, sub>>
        /\ Go("end_link") /\ UNCHANGED <<backups, pool, links, up>>
    BY <1>3 DEF LinkTargetInTx, LinkSteps, LinkedSteps
  <2>2. job'.step = "end_link" /\ job'.b = b /\ job'.x = x /\ job'.p = p
    BY <1>1, <2>1, GoIs
  <2>3. /\ b \in Backups \ renamed /\ p \in Pools /\ x \in XS /\ up /\ Running(b) /\ Vacant(b, x)
        /\ last \in Backups \ renamed /\ status[last] = "done" /\ b # last
    BY <2>1, LinkFacts
  <2>4. /\ Clean(links, b)
        /\ IF x = "d" THEN top[last] = p ELSE Sees(top, sub, last) = p
        /\ WithTarget(links, tx, last, b, x, p)
    BY <2>1 DEF IInv, LinkedJob
  <2> HIDE DEF b, x, p
  <2>5. LinkJob'
    BY <2>1, <2>2, <2>3 DEF LinkJob, Running, backups
  <2>6. CASE Place(b, x, p) /\ UNCHANGED tx
    <3>1. x = "d" => top'[b] = p /\ top'[last] = top[last] /\ sub' = sub
      BY <1>1, <2>3, <2>6 DEF Place, Values
    <3>2. x = "s" => /\ top' = top /\ sub'[b] = p /\ top[b] = "dir"
                     /\ Sees(top', sub', last) = Sees(top, sub, last)
      BY <1>1, <2>3, <2>6, Names DEF Place, Home, Values, Vacant, Sees, XS
    <3>3. LinkedJob'
      BY <2>1, <2>2, <2>3, <2>4, <2>6, <3>1, <3>2 DEF LinkedJob, LinkedSteps, backups, XS
    <3> QED
      BY <2>2, <2>5, <3>3, NoRemoving
         DEF Linking, PoolJob, RowsJob, UndoJob, LinkedSteps, UndoSteps, LinkSteps
  <2>7. CASE tx' = tx \ RowsAt(b, {x} \cup Below(x)) /\ UNCHANGED <<top, sub>>
    <3>1. ASSUME NEW q \in Pools, NEW c \in Backups, NEW y \in XS
          PROVE Has(tx', q, c, y) <=> Has(links, q, c, y)
      <4>1. Has(tx', q, c, y) <=> Has(tx, q, c, y) /\ ~(c = b /\ y \in {x} \cup Below(x))
        BY <2>7, HasMinus
      <4>2. CASE c = b
        BY <2>3, <2>4, <4>1, <4>2 DEF WithTarget, Clean, Below, XS
      <4>3. CASE c # b
        BY <2>3, <2>4, <4>1, <4>3 DEF WithTarget, XS
      <4> QED
        BY <4>2, <4>3
    <3>2. tx' = links'
      BY <1>1, <2>1, <2>7, <3>1, SameRows
    <3>3. LinkedJob'
      BY <2>1, <2>2, <2>3, <2>4, <2>7, <3>2 DEF LinkedJob, LinkedSteps, backups, Sees, Vacant
    <3> QED
      BY <2>2, <2>5, <3>3, NoRemoving
         DEF Linking, PoolJob, RowsJob, UndoJob, LinkedSteps, UndoSteps, LinkSteps
  <2> QED
    BY <2>1, <2>6, <2>7
<1>4. ASSUME EndLink PROVE Linking' /\ Removing'
  <2>1. job' = NoJob
    BY <1>4 DEF EndLink
  <2> QED
    BY <2>1, NoOperation DEF NoJob, LinkSteps, RemoveSteps
<1> QED
  BY <1>2, <1>3, <1>4

\* What is fixed while a directory goes into the pool.
LEMMA PoolFacts ==
    ASSUME IInv, job.step \in LinkSteps \ LinkedSteps
    PROVE  /\ job.b \in Backups \ renamed /\ job.p \in Pools /\ job.x \in XS /\ up
           /\ Running(job.b) /\ status[job.b] # "unused" /\ Vacant(job.b, job.x)
           /\ last \in Backups \ renamed /\ status[last] = "done" /\ job.b # last
           /\ Values(top, sub, pool) /\ links \subseteq Rows /\ tx \subseteq Rows /\ TypeOK
           /\ job.step # "link_source" => seenTop = top /\ seenSub = sub
           /\ last \in CountedBackups
<1>1. job.step \in LinkSteps /\ job.step # "end_link"
  BY DEF LinkedSteps
<1>2. TypeOK
  BY DEF IInv, TypeInv
<1>3. up /\ (job.step # "link_source" => seenTop = top /\ seenSub = sub)
  BY <1>1, <1>2, LinkFacts, ViewUp DEF IInv
<1>4. last \in CountedBackups
  BY <1>1, LinkFacts DEF CountedBackups, Running
<1> QED
  BY <1>1, <1>2, <1>3, <1>4, LinkFacts

\* An operation goes on: it is still about the backup that runs.
LEMMA LinkJobFrame ==
    ASSUME IInv, job.step \in LinkSteps \ LinkedSteps, NEW step \in LinkSteps \ LinkedSteps,
           Go(step),
           UNCHANGED <<backups, up>>, top'[job.b] = top[job.b], sub'[job.b] = sub[job.b]
    PROVE  /\ job'.step = step /\ job'.b = job.b /\ job'.x = job.x /\ job'.p = job.p
           /\ LinkJob' /\ LinkedJob' /\ Removing' /\ last' = last /\ status' = status
<1>1. job'.step = step /\ job'.b = job.b /\ job'.x = job.x /\ job'.p = job.p
  BY PoolFacts, GoIs
<1>2. LinkJob'
  BY <1>1, PoolFacts DEF LinkJob, Running, Vacant, backups
<1>3. LinkedJob' /\ Removing'
  BY <1>1, NoRemoving DEF LinkedJob
<1> QED
  BY <1>1, <1>2, <1>3 DEF backups

\* The places of an operation whose directory goes into the pool or comes back.
LEMMA PoolMoves ==
    ASSUME IInv, Rename \/ LinkSource \/ LinkSourceFails
    PROVE  /\ Rename => Moved(job.x, job.p)'
           /\ LinkSource => AtPool(job.x, job.p)'
           /\ LinkSourceFails => AtSource(job.x)' /\ ~Live(pool', job.p)
           /\ Rename \/ LinkSourceFails => \A c \in Backups : top'[c] # job.p
           /\ top'[job.b] = top[job.b] /\ sub'[job.b] = sub[job.b]
           /\ job.x = "s" => top' = top
           /\ job'.x = job.x /\ job'.p = job.p /\ last' = last
<1>1. job.step \in LinkSteps \ LinkedSteps /\ last' = last
  BY DEF Rename, LinkSource, LinkSourceFails, LinkSteps, LinkedSteps, backups
<1>2. /\ job.b \in Backups \ renamed /\ job.p \in Pools /\ job.x \in XS /\ Vacant(job.b, job.x)
      /\ last \in Backups \ renamed /\ job.b # last /\ Values(top, sub, pool) /\ TypeOK
      /\ job.step # "link_source" => seenTop = top /\ seenSub = sub
  BY <1>1, PoolFacts
<1>3. job'.x = job.x /\ job'.p = job.p
  BY <1>2, GoIs DEF Rename, LinkSource, LinkSourceFails
<1>4. job.b \notin Pools /\ last \notin Pools /\ job.p \notin Backups
      /\ job.p # "none" /\ job.p # "dir" /\ "none" \notin Pools /\ "dir" \notin Pools
  BY <1>2, Names
<1>5. CASE Rename
  <2>1. AtSource(job.x) /\ pool[job.p] = "unused"
    BY <1>1, <1>5 DEF IInv, PoolJob, Rename
  <2>2. Shape(top, sub, pool)
    BY <1>2, <1>5 DEF IInv, Consistent, Rename
  <2>3. \A c \in Backups : top[c] # job.p
    BY <1>2, <2>1, <2>2 DEF Shape
  <2>4. CASE job.x = "d"
    <3>1. /\ pool' = [pool EXCEPT ![job.p] = "full"]
          /\ top' = [top EXCEPT ![last] = "none"]
          /\ sub' = [sub EXCEPT ![job.p] = sub[last], ![last] = "none"]
      BY <1>5, <2>4 DEF Rename
    <3> QED
      BY <1>1, <1>2, <1>3, <1>4, <1>5, <2>3, <2>4, <3>1
         DEF Values, Moved, Rename, LinkSource, LinkSourceFails
  <2>5. CASE job.x = "s"
    <3>1. /\ pool' = [pool EXCEPT ![job.p] = "full"] /\ top' = top
          /\ sub' = [sub EXCEPT ![Home(last)] = "none"] /\ Home(last) # job.b
      BY <1>2, <1>4, <1>5, <2>5 DEF Rename, Place, Home
    <3> QED
      BY <1>1, <1>2, <1>3, <1>4, <1>5, <2>1, <2>3, <2>5, <3>1
         DEF Values, Moved, AtSource, Sees, Home, Rename, LinkSource, LinkSourceFails
  <2> QED
    BY <1>2, <2>4, <2>5 DEF XS
<1>6. ASSUME job.step = "link_source"
      PROVE Moved(job.x, job.p) /\ \A c \in Backups : top[c] # job.p
  BY <1>1, <1>6 DEF IInv, PoolJob
<1>7. CASE LinkSource
  <2>1. Moved(job.x, job.p) /\ ~Rename /\ ~LinkSourceFails
    <3>1. LinkSource => job'.step = "forget"
      BY <1>2, GoIs DEF LinkSource
    <3>2. LinkSourceFails => job'.step = "undo_parents"
      BY <1>2, GoIs DEF LinkSourceFails
    <3> QED
      BY <1>6, <1>7, <3>1, <3>2 DEF LinkSource, Rename
  <2>2. CASE job.x = "d"
    <3>1. pool' = pool /\ top' = [top EXCEPT ![last] = job.p] /\ sub' = sub
      BY <1>7, <2>2 DEF LinkSource, Place
    <3> QED
      BY <1>1, <1>2, <1>3, <1>4, <2>1, <2>2, <3>1 DEF Values, Moved, AtPool
  <2>3. CASE job.x = "s"
    <3>1. pool' = pool /\ top' = top /\ sub' = [sub EXCEPT ![Home(last)] = job.p]
          /\ Home(last) # job.b
      BY <1>2, <1>4, <1>7, <2>3 DEF LinkSource, Place, Home
    <3> QED
      BY <1>1, <1>2, <1>3, <1>4, <2>1, <2>3, <3>1 DEF Values, Moved, AtPool, Sees, Home
  <2> QED
    BY <1>2, <2>2, <2>3 DEF XS
<1>8. CASE LinkSourceFails
  <2>1. /\ Moved(job.x, job.p) /\ \A c \in Backups : top[c] # job.p
        /\ ~Rename /\ ~LinkSource /\ pool' = [pool EXCEPT ![job.p] = "gone"]
    <3>1. LinkSource => job'.step = "forget"
      BY <1>2, GoIs DEF LinkSource
    <3>2. LinkSourceFails => job'.step = "undo_parents"
      BY <1>2, GoIs DEF LinkSourceFails
    <3> QED
      BY <1>6, <1>8, <3>1, <3>2 DEF LinkSourceFails, Rename
  <2>2. CASE job.x = "d"
    <3>1. /\ top' = [top EXCEPT ![last] = "dir"]
          /\ sub' = [sub EXCEPT ![last] = sub[job.p], ![job.p] = "none"]
      BY <1>8, <2>2 DEF LinkSourceFails
    <3> QED
      BY <1>1, <1>2, <1>3, <1>4, <2>1, <2>2, <3>1 DEF Values, AtSource, Live
  <2>3. CASE job.x = "s"
    <3>1. top' = top /\ sub' = [sub EXCEPT ![Home(last)] = "dir"] /\ Home(last) # job.b
      BY <1>2, <1>4, <1>8, <2>3 DEF LinkSourceFails, Place, Home
    <3> QED
      BY <1>1, <1>2, <1>3, <1>4, <2>1, <2>3, <3>1 DEF Values, Moved, AtSource, Sees, Home, Live
  <2> QED
    BY <1>2, <2>2, <2>3 DEF XS
<1> QED
  BY <1>5, <1>7, <1>8

\* The rows of an operation that is about to be undone.
LEMMA UndoBegins ==
    ASSUME PoolRows(links', last', top'[last'], job'.b, job'.x, job'.p), job'.step = "undo_parents",
           job'.b \in Backups, job'.x \in XS, job'.p \in Pools
    PROVE  UndoJob'
BY DEF UndoJob, UndoSteps, PoolRows, XS

\* link_directory_pool, whose source is a directory, up to the link at its place.
LEMMA PoolOperation ==
    ASSUME IInv,
           \/ \E b \in Backups, x \in {"d", "s"} : LinkPlain(b, x)
           \/ CommitRows \/ Rename \/ RenameFails \/ LinkSource \/ LinkSourceFails
           \/ ForgetJournal \/ LinkTarget
    PROVE  Linking' /\ Removing'
<1>1. TypeOK /\ Values(top, sub, pool) /\ links \subseteq Rows
  BY DEF IInv, TypeInv, TypeOK, Values
<1>2. ASSUME NEW b \in Backups, NEW x \in {"d", "s"}, LinkPlain(b, x) PROVE Linking' /\ Removing'
  <2>1. /\ last # 0 /\ At(last, x) = "dir" /\ Open(b, x) /\ up /\ job = NoJob /\ x \in XS
        /\ UNCHANGED <<backups, files, links, up>>
    BY <1>2 DEF LinkPlain, Idle, XS
  <2>2. PICK p \in Pools : /\ pool[p] = "unused"
                           /\ \A r \in links : r[1] # p
                           /\ tx' = links \cup ParentRows(links, last, x, p)
                                         \cup {<<p, <<last, x>>>>, <<p, <<b, x>>>>}
                                         \cup SublinkRows(links, last, x, b)
                           /\ job' = [step |-> "commit", b |-> b, x |-> x, p |-> p]
    BY <1>2 DEF LinkPlain
  <2>3. Clean(links, b) /\ Running(b) /\ Vacant(b, x) /\ b \notin renamed
    BY <2>1, OpenClean DEF NoJob, LinkSteps
  <2>4. /\ last \in Backups \ renamed /\ status[last] = "done" /\ top[last] # "none"
        /\ "dir" = IF x = "d" THEN top[last] ELSE Sees(top, sub, last)
    BY <2>1, LastShown
  <2>5. WithPool(links, tx', last, top[last], b, x, p)
    BY <1>1, <2>1, <2>2, <2>4, PlainRows
  <2>6. \A c \in Backups : ~Has(links, p, c, "d") /\ ~Has(links, p, c, "s")
    BY <2>2 DEF Has
  <2>7. LinkJob'
    BY <2>1, <2>2, <2>3, <2>4 DEF LinkJob, Vacant, Running, backups, files, LinkSteps
  <2>8. PoolJob'
    BY <2>1, <2>2, <2>4 DEF PoolJob, LinkedSteps, UndoSteps, DropSteps, AtSource, backups, files,
       Sees
  <2>9. RowsJob'
    BY <2>1, <2>2, <2>3, <2>5, <2>6 DEF RowsJob, LinkedSteps, backups, files
  <2>10. LinkedJob' /\ UndoJob'
    BY <2>2 DEF LinkedJob, UndoJob, LinkedSteps, UndoSteps
  <2>11. Removing'
    BY <2>2, NoRemoving DEF LinkSteps
  <2> QED
    BY <2>7, <2>8, <2>9, <2>10, <2>11 DEF Linking
<1>3. ASSUME CommitRows PROVE Linking' /\ Removing'
  <2>1. /\ job.step = "commit" /\ job.step \in LinkSteps \ LinkedSteps /\ links' = tx
        /\ Go("rename") /\ "rename" \in LinkSteps \ LinkedSteps
        /\ UNCHANGED <<backups, top, sub, pool, up>>
    BY <1>3 DEF CommitRows, LinkSteps, LinkedSteps, files
  <2>2. /\ job'.step = "rename" /\ job'.b = job.b /\ job'.x = job.x /\ job'.p = job.p
        /\ LinkJob' /\ LinkedJob' /\ Removing' /\ last' = last /\ status' = status
    BY <2>1, LinkJobFrame
  <2>3. AtSource(job.x) /\ pool[job.p] = "unused"
    BY <2>1 DEF IInv, PoolJob
  <2>4. /\ Clean(links, job.b)
        /\ \A c \in Backups : ~Has(links, job.p, c, "d") /\ ~Has(links, job.p, c, "s")
        /\ WithPool(links, tx, last, top[last], job.b, job.x, job.p)
    BY <2>1 DEF IInv, RowsJob
  <2>5. Consistent(top, sub, pool, links, renamed, CountedBackups)
    BY <2>1, PoolFacts DEF IInv
  <2>6. Free(top, sub, job.b, job.x)
    BY <2>1, PoolFacts DEF Free, Vacant
  <2>7. PoolRows(links', last, top[last], job.b, job.x, job.p)
    BY <2>1, <2>3, <2>4, <2>5, <2>6, PoolFacts, PoolCommitted
  <2>8. PoolJob'
    BY <2>1, <2>2, <2>3, PoolFacts DEF PoolJob, LinkedSteps, UndoSteps, DropSteps, AtSource, Sees
  <2>9. RowsJob'
    BY <2>1, <2>2, <2>7 DEF RowsJob, LinkedSteps
  <2>10. UndoJob'
    BY <2>2 DEF UndoJob, UndoSteps
  <2> QED
    BY <2>2, <2>8, <2>9, <2>10 DEF Linking
<1>4. ASSUME RenameFails PROVE Linking' /\ Removing'
  <2>1. /\ job.step = "rename" /\ job.step \in LinkSteps \ LinkedSteps
        /\ Go("undo_parents") /\ "undo_parents" \in LinkSteps \ LinkedSteps
        /\ UNCHANGED <<backups, links, top, sub, pool, up>>
    BY <1>4 DEF RenameFails, LinkSteps, LinkedSteps, files, tables
  <2>2. /\ job'.step = "undo_parents" /\ job'.b = job.b /\ job'.x = job.x /\ job'.p = job.p
        /\ LinkJob' /\ LinkedJob' /\ Removing' /\ last' = last /\ status' = status
    BY <2>1, LinkJobFrame
  <2>3. AtSource(job.x) /\ pool[job.p] = "unused"
    BY <2>1 DEF IInv, PoolJob
  <2>4. PoolRows(links, last, top[last], job.b, job.x, job.p)
    BY <2>1 DEF IInv, RowsJob
  <2>5. \A c \in Backups : top[c] # job.p
    <3>1. Shape(top, sub, pool)
      BY <2>1, PoolFacts DEF IInv, Consistent
    <3> QED
      BY <2>1, <2>3, <3>1, PoolFacts DEF Shape
  <2>6. PoolJob'
    BY <2>1, <2>2, <2>3, <2>5, PoolFacts
       DEF PoolJob, LinkedSteps, UndoSteps, DropSteps, AtSource, Sees, Live
  <2>7. UndoJob'
    BY <2>1, <2>2, <2>4, PoolFacts, UndoBegins
  <2>8. RowsJob'
    BY <2>2 DEF RowsJob
  <2> QED
    BY <2>2, <2>6, <2>7, <2>8 DEF Linking
<1>5. ASSUME Rename \/ LinkSource \/ LinkSourceFails PROVE Linking' /\ Removing'
  <2>1. /\ job.step \in {"rename", "link_source"} /\ job.step \in LinkSteps \ LinkedSteps
        /\ UNCHANGED <<backups, links, up>>
    BY <1>5 DEF Rename, LinkSource, LinkSourceFails, LinkSteps, LinkedSteps, tables
  <2>2. PoolRows(links, last, top[last], job.b, job.x, job.p)
    BY <2>1 DEF IInv, RowsJob
  <2>3. /\ top'[job.b] = top[job.b] /\ sub'[job.b] = sub[job.b]
        /\ job.x = "s" => top' = top
    BY <1>5, PoolMoves
  <2>4. ASSUME NEW step \in {"link_source", "forget", "undo_parents"}, Go(step)
        PROVE /\ job'.step = step /\ job'.b = job.b /\ job'.x = job.x /\ job'.p = job.p
              /\ LinkJob' /\ LinkedJob' /\ Removing' /\ last' = last /\ status' = status
    <3>1. step \in LinkSteps \ LinkedSteps
      BY DEF LinkSteps, LinkedSteps
    <3> QED
      BY <2>1, <2>3, <2>4, <3>1, LinkJobFrame
  <2>5. PoolRows(links, last, top'[last], job.b, job.x, job.p)
    BY <2>1, <2>2, <2>3, PoolFacts DEF PoolRows, XS
  <2>6. job.b \in Backups /\ job.p \in Pools /\ job.x \in XS /\ last \in Backups
        /\ status[last] = "done"
    BY <2>1, PoolFacts
  <2>7. CASE Rename
    <3>1. Go("link_source")
      BY <2>7 DEF Rename
    <3>2. Moved(job.x, job.p)' /\ \A c \in Backups : top'[c] # job.p
      BY <2>7, PoolMoves
    <3>3. PoolJob'
      BY <2>4, <2>6, <3>1, <3>2 DEF PoolJob, LinkedSteps, UndoSteps, DropSteps
    <3>4. RowsJob' /\ UndoJob'
      BY <2>1, <2>4, <2>5, <3>1 DEF RowsJob, UndoJob, LinkedSteps, UndoSteps
    <3> QED
      BY <2>4, <3>1, <3>3, <3>4 DEF Linking
  <2>8. CASE LinkSource
    <3>1. Go("forget")
      BY <2>8 DEF LinkSource
    <3>2. AtPool(job.x, job.p)'
      BY <2>8, PoolMoves
    <3>3. PoolJob'
      BY <2>4, <2>6, <3>1, <3>2 DEF PoolJob, LinkedSteps, UndoSteps, DropSteps
    <3>4. RowsJob' /\ UndoJob'
      BY <2>1, <2>4, <2>5, <3>1 DEF RowsJob, UndoJob, LinkedSteps, UndoSteps
    <3> QED
      BY <2>4, <3>1, <3>3, <3>4 DEF Linking
  <2>9. CASE LinkSourceFails
    <3>1. Go("undo_parents")
      BY <2>9 DEF LinkSourceFails
    <3>2. AtSource(job.x)' /\ ~Live(pool', job.p) /\ \A c \in Backups : top'[c] # job.p
      BY <2>9, PoolMoves
    <3>3. PoolJob'
      BY <2>4, <2>6, <3>1, <3>2 DEF PoolJob, LinkedSteps, UndoSteps, DropSteps
    <3>4. UndoJob'
      BY <2>1, <2>4, <2>5, <2>6, <3>1, UndoBegins
    <3>5. RowsJob'
      BY <2>4, <3>1 DEF RowsJob
    <3> QED
      BY <2>4, <3>1, <3>3, <3>4, <3>5 DEF Linking
  <2> QED
    BY <1>5, <2>7, <2>8, <2>9
<1>6. ASSUME ForgetJournal \/ (LinkTarget /\ Go("drop_target") /\ UNCHANGED <<top, sub>>)
      PROVE Linking' /\ Removing'
  <2>1. PICK step \in {"link_target", "drop_target"} : Go(step)
    BY <1>6 DEF ForgetJournal
  <2>2. /\ job.step \in {"forget", "link_target"} /\ job.step \in LinkSteps \ LinkedSteps
        /\ step \in LinkSteps \ LinkedSteps /\ UNCHANGED <<backups, links, top, sub, pool, up>>
    BY <1>6 DEF ForgetJournal, LinkTarget, LinkSteps, LinkedSteps, files, tables
  <2>3. /\ job'.step = step /\ job'.b = job.b /\ job'.x = job.x /\ job'.p = job.p
        /\ LinkJob' /\ LinkedJob' /\ Removing' /\ last' = last /\ status' = status
    BY <2>1, <2>2, LinkJobFrame
  <2>4. PoolRows(links, last, top[last], job.b, job.x, job.p) /\ AtPool(job.x, job.p)
    BY <2>2 DEF IInv, RowsJob, PoolJob
  <2>5. PoolJob' /\ RowsJob' /\ UndoJob'
    BY <2>2, <2>3, <2>4, PoolFacts
       DEF PoolJob, RowsJob, UndoJob, LinkedSteps, UndoSteps, DropSteps, AtPool, Sees
  <2> QED
    BY <2>3, <2>5 DEF Linking
<1>7. ASSUME job' = NoJob PROVE Linking' /\ Removing'
  BY <1>7, NoOperation DEF NoJob, LinkSteps, RemoveSteps
<1> QED
  BY <1>2, <1>3, <1>4, <1>5, <1>6, <1>7 DEF LinkTarget

\* The rows of an operation are taken back one kind after the other.
LEMMA UndoOperation ==
    ASSUME IInv, Undo \/ UndoJournal
    PROVE  Linking' /\ Removing'
<1>1. ASSUME UndoJournal PROVE Linking' /\ Removing'
  <2>1. job' = NoJob
    BY <1>1 DEF UndoJournal
  <2> QED
    BY <2>1, NoOperation DEF NoJob, LinkSteps, RemoveSteps
<1>2. ASSUME Undo PROVE Linking' /\ Removing'
  <2>1. /\ job.step \in UndoSteps \ {"undo_journal"} /\ job.step \in LinkSteps \ LinkedSteps
        /\ AfterUndo[job.step] \in UndoSteps /\ AfterUndo[job.step] \in LinkSteps \ LinkedSteps
        /\ Go(AfterUndo[job.step]) /\ UNCHANGED <<backups, top, sub, pool, up>>
        /\ links' = links \ UndoRows[job.step]
    BY <1>2 DEF Undo, AfterUndo, UndoSteps, LinkSteps, LinkedSteps, files
  <2>2. /\ job'.step = AfterUndo[job.step] /\ job'.b = job.b /\ job'.x = job.x /\ job'.p = job.p
        /\ LinkJob' /\ LinkedJob' /\ Removing' /\ last' = last /\ status' = status
    BY <2>1, LinkJobFrame
  <2>3. /\ job.b \in Backups /\ job.p \in Pools /\ job.x \in XS /\ last \in Backups
        /\ status[last] = "done" /\ job.b # last /\ links \subseteq Rows
    BY <2>1, PoolFacts
  <2>4. PoolJob'
    <3>1. AtSource(job.x) /\ ~Live(pool, job.p) /\ \A c \in Backups : top[c] # job.p
      BY <2>1 DEF IInv, PoolJob
    <3> QED
      BY <2>1, <2>2, <2>3, <3>1 DEF PoolJob, UndoSteps, DropSteps, LinkedSteps, AtSource, Sees
  <2>5. RowsJob'
    BY <2>1, <2>2 DEF RowsJob, UndoSteps
  <2>6. UndoJob
    BY DEF IInv
  <2>7. \A q \in Pools, c \in Backups, y \in XS : Has(links', q, c, y) => Has(links, q, c, y)
    BY <2>1 DEF Has
  <2>8. UndoJob'
    <3>1. CASE job.step = "undo_parents"
      <4>1. links' = links \ ParentRows(links, last, job.x, job.p) /\ job'.step = "undo_source"
        BY <2>1, <2>2, <3>1 DEF UndoRows, AfterUndo
      <4>2. ASSUME NEW q \in Pools, NEW c \in Backups, NEW y \in XS
            PROVE Has(links', q, c, y) <=>
                    /\ Has(links, q, c, y)
                    /\ ~(/\ job.x = "s" /\ top[last] \in Pools /\ q = job.p /\ c # last /\ y = "s"
                         /\ Has(links, top[last], c, "d"))
        <5>1. Has(ParentRows(links, last, job.x, job.p), q, c, y) <=>
                /\ job.x = "s" /\ top[last] \in Pools /\ q = job.p /\ c # last /\ y = "s"
                /\ Has(links, top[last], c, "d")
          BY <2>3, HasParent
        <5>2. Has(links', q, c, y) <=>
                Has(links, q, c, y) /\ ~Has(ParentRows(links, last, job.x, job.p), q, c, y)
          BY <4>1 DEF Has
        <5> QED
          BY <5>1, <5>2
      <4> QED
        BY <2>1, <2>2, <2>3, <2>6, <3>1, <4>1, <4>2 DEF UndoJob, UndoSteps, XS
    <3>2. CASE job.step = "undo_source"
      <4>1. links' = links \ RowsAt(last, {job.x}) /\ job'.step = "undo_below"
        BY <2>1, <2>2, <3>2 DEF UndoRows, AfterUndo
      <4>2. ASSUME NEW q \in Pools, NEW c \in Backups, NEW y \in XS
            PROVE Has(links', q, c, y) <=> Has(links, q, c, y) /\ ~(c = last /\ y = job.x)
        BY <4>1, HasMinus
      <4> QED
        BY <2>1, <2>2, <2>3, <2>6, <3>2, <4>1, <4>2 DEF UndoJob, UndoSteps, XS
    <3>3. CASE job.step = "undo_below"
      <4>1. links' = links \ RowsAt(job.b, Below(job.x)) /\ job'.step = "undo_target"
        BY <2>1, <2>2, <3>3 DEF UndoRows, AfterUndo
      <4>2. ASSUME NEW q \in Pools, NEW c \in Backups, NEW y \in XS
            PROVE Has(links', q, c, y) <=> Has(links, q, c, y) /\ ~(c = job.b /\ job.x = "d" /\ y = "s")
        <5>1. Has(links', q, c, y) <=> Has(links, q, c, y) /\ ~(c = job.b /\ y \in Below(job.x))
          BY <4>1, HasMinus
        <5> QED
          BY <5>1 DEF Below
      <4> QED
        BY <2>1, <2>2, <2>3, <2>6, <3>3, <4>1, <4>2 DEF UndoJob, UndoSteps, XS
    <3>4. CASE job.step = "undo_target"
      <4>1. links' = links \ RowsAt(job.b, {job.x}) /\ job'.step = "undo_journal"
        BY <2>1, <2>2, <3>4 DEF UndoRows, AfterUndo
      <4>2. ASSUME NEW q \in Pools, NEW c \in Backups, NEW y \in XS
            PROVE Has(links', q, c, y) <=> Has(links, q, c, y) /\ ~(c = job.b /\ y = job.x)
        BY <4>1, HasMinus
      <4> QED
        BY <2>1, <2>2, <2>3, <2>6, <3>4, <4>1, <4>2 DEF UndoJob, UndoSteps, XS, Clean
    <3> QED
      BY <2>1, <3>1, <3>2, <3>3, <3>4 DEF UndoSteps
  <2> QED
    BY <2>2, <2>4, <2>5, <2>8 DEF Linking
<1> QED
  BY <1>1, <1>2

\* So are those of a link that could not be made.
LEMMA DropOperation ==
    ASSUME IInv, DropTarget
    PROVE  Linking' /\ Removing'
<1>1. CASE job.step = "drop_below"
  <2>1. job' = NoJob
    BY <1>1 DEF DropTarget
  <2> QED
    BY <2>1, NoOperation DEF NoJob, LinkSteps, RemoveSteps
<1>2. CASE job.step = "drop_target"
  <2>1. /\ job.step \in LinkSteps \ LinkedSteps /\ "drop_below" \in LinkSteps \ LinkedSteps
        /\ Go("drop_below") /\ UNCHANGED <<backups, top, sub, pool, up>>
        /\ links' = links \ RowsAt(job.b, {job.x})
    BY <1>2 DEF DropTarget, LinkSteps, LinkedSteps, files
  <2>2. /\ job'.step = "drop_below" /\ job'.b = job.b /\ job'.x = job.x /\ job'.p = job.p
        /\ LinkJob' /\ LinkedJob' /\ Removing' /\ last' = last /\ status' = status
    BY <2>1, LinkJobFrame
  <2>3. /\ job.b \in Backups /\ job.p \in Pools /\ job.x \in XS /\ last \in Backups
        /\ status[last] = "done" /\ job.b # last /\ links \subseteq Rows
    BY <2>1, PoolFacts
  <2>4. AtPool(job.x, job.p) /\ PoolRows(links, last, top[last], job.b, job.x, job.p)
    BY <1>2, <2>1 DEF IInv, PoolJob, RowsJob, DropSteps
  <2>5. ASSUME NEW q \in Pools, NEW c \in Backups, NEW y \in XS
        PROVE Has(links', q, c, y) <=> Has(links, q, c, y) /\ ~(c = job.b /\ y = job.x)
    BY <2>1, HasMinus
  <2>6. PoolJob'
    BY <2>1, <2>2, <2>3, <2>4 DEF PoolJob, UndoSteps, DropSteps, LinkedSteps, AtPool, Sees
  <2>7. RowsJob'
    BY <2>1, <2>2, <2>3, <2>4, <2>5 DEF RowsJob, PoolRows, XS
  <2>8. UndoJob'
    BY <2>2 DEF UndoJob, UndoSteps
  <2> QED
    BY <2>2, <2>6, <2>7, <2>8 DEF Linking
<1> QED
  BY <1>1, <1>2 DEF DropTarget

\* Every step of link_directory_pool keeps what is known of the operation.
LEMMA LinkOperation ==
    ASSUME IInv, LinkStep
    PROVE  Linking' /\ Removing'
BY LinkedOperation, PoolOperation, UndoOperation, DropOperation DEF LinkStep

\* What is fixed while a backup is deleted.
LEMMA DeleteFacts ==
    ASSUME IInv, job.step \in RemoveSteps
    PROVE  /\ up /\ job.b \in Backups /\ job.x \in XS /\ (job.step # "scan" => job.p \in Pools)
           /\ Values(top, sub, pool) /\ links \subseteq Rows /\ tx \subseteq Rows /\ TypeOK
           /\ seenTop = top /\ seenSub = sub
           /\ Consistent(top, sub, pool, links, renamed, CountedBackups)
           /\ job.b \notin renamed => job.b \in CountedBackups
<1>1. TypeOK /\ job.step # "link_source"
  BY DEF IInv, TypeInv, RemoveSteps
<1>2. seenTop = top /\ seenSub = sub
  BY <1>1, RemoveFacts, ViewUp DEF IInv
<1>3. job.b \notin renamed => job.b \in CountedBackups
  BY RemoveFacts DEF CountedBackups
<1> QED
  BY <1>1, <1>2, <1>3, RemoveFacts DEF IInv

\* A row of the path whose link goes names the pool directory it leads to, if that is there.
LEMMA LinkRow ==
    ASSUME IInv, job.step \in RemoveSteps, AtLink, job.b \notin renamed, job.p \in Pools,
           NEW q \in Pools, Has(links, q, job.b, job.x), Live(pool, q)
    PROVE  q = job.p
<1>1. Agree(top, sub, pool, links, renamed) /\ job.b \in Backups /\ job.x \in XS
  BY DeleteFacts DEF Consistent
<1>2. CASE job.x = "d"
  BY <1>1, <1>2, Names DEF Agree, Reached, AtLink
<1>3. CASE job.x = "s"
  <2>1. Sees(top, sub, job.b) = job.p
    BY <1>3, Names DEF AtLink, Sees
  <2>2. Sees(top, sub, job.b) \in {q, "none"}
    BY <1>1, <1>3 DEF Agree
  <2> QED
    BY <2>1, <2>2, Names
<1> QED
  BY <1>1, <1>2, <1>3 DEF XS

\* The row of the link goes: no other pool directory loses its last reference.
LEMMA RowRemoved ==
    ASSUME IInv, FiniteTables, RemoveRow
    PROVE  Linking' /\ Removing'
<1>1. /\ job.step = "row" /\ job.step \in RemoveSteps
      /\ UNCHANGED <<backups, files, links, up>>
  BY DEF RemoveRow, RemoveSteps
<1>2. /\ job.b \in Backups /\ job.x \in XS /\ job.p \in Pools /\ TypeOK
      /\ Values(top, sub, pool) /\ links \subseteq Rows
      /\ Consistent(top, sub, pool, links, renamed, CountedBackups)
      /\ job.b \notin renamed => job.b \in CountedBackups
  BY <1>1, DeleteFacts
<1>3. RemoveJob /\ AtLink /\ tx = links
  BY <1>1 DEF IInv, RemoveJob, RemoveTx
<1> DEFINE rest == tx \ RowsAt(job.b, {job.x})
<1>4. ASSUME NEW q \in Pools, NEW c \in Backups, NEW y \in XS
      PROVE Has(rest, q, c, y) <=> Has(links, q, c, y) /\ ~(c = job.b /\ y = job.x)
  BY <1>3, HasMinus
<1>5. rest \subseteq Rows /\ IsFiniteSet(rest)
  BY <1>2, <1>3, FS_Subset DEF FiniteTables
<1>6. ASSUME NEW step \in RemoveSteps, Go(step)
      PROVE /\ job'.step = step /\ job'.b = job.b /\ job'.x = job.x /\ job'.p = job.p /\ Linking'
  BY <1>2, <1>6, GoIs, NoLinking
<1> HIDE DEF rest
<1>7. CASE ~Known(job.b, job.x) /\ Go("unlink") /\ UNCHANGED tx
  <2>1. job'.step = "unlink" /\ job'.b = job.b /\ job'.x = job.x /\ job'.p = job.p /\ Linking'
    BY <1>6, <1>7 DEF RemoveSteps
  <2>2. RemoveJob'
    BY <1>1, <1>2, <1>3, <2>1 DEF RemoveJob, AtLink, RemoveSteps, EmptySteps, backups, files
  <2>3. Referenced(pool', tx', Pools)
    BY <1>1, <1>2, <1>3, <1>7 DEF Consistent, files
  <2>4. RemoveTx'
    BY <1>1, <1>3, <1>7, <2>1, <2>3 DEF RemoveTx, EmptySteps
  <2> QED
    BY <2>1, <2>2, <2>4 DEF Removing
<1>8. CASE /\ Known(job.b, job.x) /\ Refcount(rest, job.p) = 0
           /\ tx' = rest
           /\ Go(IF Exists(job.p) THEN "empty" ELSE "unlink")
  <2>1. job.b \notin renamed
    BY <1>8 DEF Known
  <2>2. \A c \in Backups, y \in XS : ~Has(rest, job.p, c, y)
    BY <1>2, <1>5, <1>8, RefcountIs
  <2>3. Exists(job.p) <=> Live(pool, job.p)
    BY <1>2, Names DEF Exists, Live, Values
  <2>4. ASSUME NEW q \in Pools, q # job.p, Live(pool, q)
        PROVE \E c \in Backups : Has(rest, q, c, "d") \/ Has(rest, q, c, "s")
    <3>1. PICK c \in Backups, y \in XS : Has(links, q, c, y)
      BY <1>2, <2>4 DEF Consistent, Referenced, XS
    <3>2. ~(c = job.b /\ y = job.x)
      BY <1>1, <1>2, <1>3, <2>1, <2>4, <3>1, LinkRow
    <3>3. Has(rest, q, c, y)
      BY <1>4, <3>1, <3>2
    <3> QED
      BY <3>3 DEF XS
  <2>5. \A q \in Pools : ~Has(rest, q, job.b, job.x)
    BY <1>2, <1>4
  <2>6. PICK step \in {"empty", "unlink"} : Go(step) /\ (step = "empty" <=> Live(pool, job.p))
    BY <1>8, <2>3
  <2>7. job'.step = step /\ job'.b = job.b /\ job'.x = job.x /\ job'.p = job.p /\ Linking'
    BY <1>6, <2>6 DEF RemoveSteps
  <2>8. RemoveJob'
    BY <1>1, <1>2, <1>3, <2>1, <2>6, <2>7
       DEF RemoveJob, AtLink, RemoveSteps, EmptySteps, backups, files
  <2>9. /\ Referenced(pool, rest, Pools \ {job.p})
        /\ step = "unlink" => Referenced(pool, rest, Pools)
    BY <2>4, <2>6 DEF Referenced
  <2>10. RemoveTx'
    <3>1. /\ \A q \in Pools, c \in Backups \ {job.b} :
               /\ Has(rest, q, c, "d") <=> Has(links, q, c, "d")
               /\ Has(rest, q, c, "s") <=> Has(links, q, c, "s")
          /\ \A q \in Pools :
               /\ Has(rest, q, job.b, "d") => Has(links, q, job.b, "d")
               /\ Has(rest, q, job.b, "s") => Has(links, q, job.b, "s")
          /\ job.x = "s" => \A q \in Pools : Has(links, q, job.b, "d") => Has(rest, q, job.b, "d")
          /\ job.x = "d" => \A q \in Pools : ~Has(rest, q, job.b, "d")
      BY <1>2, <1>4, <2>5 DEF XS
    <3>2. /\ tx' = rest /\ links' = links /\ renamed' = renamed /\ pool' = pool
      BY <1>1, <1>8 DEF backups, files
    <3> QED
      BY <2>1, <2>2, <2>5, <2>6, <2>7, <2>9, <3>1, <3>2 DEF RemoveTx, EmptySteps, XS
  <2> QED
    BY <2>7, <2>8, <2>10 DEF Removing
<1>9. CASE /\ Known(job.b, job.x) /\ Refcount(rest, job.p) > 0
           /\ tx' = rest \ RowsAt(job.b, Below(job.x))
           /\ Go("unlink")
  <2>1. job.b \notin renamed /\ job.b \in CountedBackups
    BY <1>2, <1>9 DEF Known
  <2>2. PICK e \in Backups, z \in XS : Has(rest, job.p, e, z)
    BY <1>2, <1>5, <1>9, RefcountIs
  <2>3. ASSUME NEW q \in Pools, NEW c \in Backups, NEW y \in XS
        PROVE Has(tx', q, c, y) <=> Has(links, q, c, y) /\ ~(c = job.b /\ y \in {job.x} \cup Below(job.x))
    <3>1. Has(tx', q, c, y) <=> Has(rest, q, c, y) /\ ~(c = job.b /\ y \in Below(job.x))
      BY <1>9, HasMinus
    <3> QED
      BY <1>4, <3>1
  <2>4. Has(links, job.p, e, z) /\ ~(e = job.b /\ z = job.x)
    BY <1>2, <1>4, <2>2
  <2>5. job.x = "d" => z = "d" /\ e # job.b /\ top[job.b] = job.p
    <3>1. job.x = "d" => top[job.b] = job.p
      BY <1>3 DEF AtLink
    <3>2. job.x = "d" => ~Has(links, job.p, e, "s")
      BY <1>2, <3>1 DEF Consistent, Kinds
    <3> QED
      BY <2>4, <3>1, <3>2 DEF XS
  <2>6. ASSUME NEW q \in Pools, Live(pool, q)
        PROVE \E c \in Backups : Has(tx', q, c, "d") \/ Has(tx', q, c, "s")
    <3>1. PICK c \in Backups, y \in XS : Has(links, q, c, y)
      BY <1>2, <2>6 DEF Consistent, Referenced, XS
    <3>2. CASE q = job.p
      <4>1. Has(tx', job.p, e, z)
        BY <1>2, <2>3, <2>4, <2>5 DEF Below, XS
      <4> QED
        BY <3>2, <4>1 DEF XS
    <3>3. CASE q # job.p
      <4>1. ~(c = job.b /\ y = job.x)
        BY <1>1, <1>2, <1>3, <2>1, <2>6, <3>1, <3>3, LinkRow
      <4>2. CASE c = job.b /\ y \in Below(job.x)
        <5>1. job.x = "d" /\ y = "s"
          BY <4>2 DEF Below
        <5>2. Has(links, q, e, "s")
          BY <1>2, <2>1, <2>4, <2>5, <2>6, <3>1, <4>2, <5>1 DEF Consistent, Alike
        <5>3. Has(tx', q, e, "s")
          BY <2>3, <2>5, <5>1, <5>2 DEF XS
        <5> QED
          BY <5>3
      <4>3. CASE ~(c = job.b /\ y \in Below(job.x))
        <5>1. Has(tx', q, c, y)
          BY <2>3, <3>1, <4>1, <4>3
        <5> QED
          BY <5>1 DEF XS
      <4> QED
        BY <4>2, <4>3
    <3> QED
      BY <3>2, <3>3
  <2>7. job'.step = "unlink" /\ job'.b = job.b /\ job'.x = job.x /\ job'.p = job.p /\ Linking'
    BY <1>6, <1>9 DEF RemoveSteps
  <2>8. RemoveJob'
    BY <1>1, <1>2, <1>3, <2>7 DEF RemoveJob, AtLink, RemoveSteps, EmptySteps, backups, files
  <2>9. Referenced(pool, tx', Pools)
    BY <2>6 DEF Referenced
  <2>10. RemoveTx'
    <3>1. /\ \A q \in Pools, c \in Backups \ {job.b} :
               /\ Has(tx', q, c, "d") <=> Has(links, q, c, "d")
               /\ Has(tx', q, c, "s") <=> Has(links, q, c, "s")
          /\ \A q \in Pools :
               /\ Has(tx', q, job.b, "d") => Has(links, q, job.b, "d")
               /\ Has(tx', q, job.b, "s") => Has(links, q, job.b, "s")
          /\ job.x = "s" => \A q \in Pools : Has(links, q, job.b, "d") => Has(tx', q, job.b, "d")
          /\ job.x = "d" => \A q \in Pools : ~Has(tx', q, job.b, "d")
      BY <1>2, <2>3 DEF XS, Below
    <3>2. links' = links /\ renamed' = renamed /\ pool' = pool
      BY <1>1 DEF backups, files
    <3> QED
      BY <2>1, <2>7, <2>9, <3>1, <3>2 DEF RemoveTx, EmptySteps, XS
  <2> QED
    BY <2>7, <2>8, <2>10 DEF Removing
<1> QED
  BY <1>7, <1>8, <1>9 DEF RemoveRow, rest

\* What EmptyPool does to the pool directories: the one it empties is half deleted, another may go.
LEMMA PoolEmptied ==
    ASSUME IInv, FiniteTables, EmptyPool
    PROVE  /\ job.b \in Backups /\ job.b \notin renamed /\ job.p \in Pools /\ Live(pool, job.p)
           /\ job.step = "empty" /\ AtLink
           /\ pool'[job.p] = "partial"
           /\ \A r \in Pools : pool'[r] \in {pool[r], "partial", "gone"}
           /\ \A r \in Pools : Live(pool', r) => Live(pool, r)
           /\ \A r \in Pools : Live(pool, r) /\ ~Live(pool', r) => sub[r] = "none" /\ sub[job.p] = r
           /\ \A r \in Pools : Live(pool, r) /\ ~Live(pool', r) =>
                 \A c \in Backups : ~Has(tx', r, c, "d") /\ ~Has(tx', r, c, "s")
           /\ Referenced(pool', tx', Pools \ {job.p})
           /\ \A q \in Pools, c \in Backups, y \in XS : Has(tx', q, c, y) => Has(tx, q, c, y)
           /\ \A q \in Pools, c \in Backups, y \in XS :
                 Has(tx, q, c, y) /\ ~Has(tx', q, c, y) => c = job.b /\ y = "s" /\ job.x = "d"
           /\ \/ tx' = tx /\ (sub[job.p] \notin Pools \/ \A r \in tx : r[2] # <<job.b, "s">>)
              \/ \A q \in Pools : ~Has(tx', q, job.b, "s")
<1>1. job.step = "empty" /\ job.step \in EmptySteps /\ job.step \in RemoveSteps
  BY DEF EmptyPool, EmptySteps, RemoveSteps
<1>2. /\ job.b \in Backups /\ job.x \in XS /\ job.p \in Pools
      /\ Values(top, sub, pool) /\ tx \subseteq Rows
      /\ Consistent(top, sub, pool, links, renamed, CountedBackups)
  BY <1>1, DeleteFacts
<1>3. AtLink /\ job.b \notin renamed /\ Live(pool, job.p)
  BY <1>1 DEF IInv, RemoveJob
<1>4. /\ \A q \in Pools : Has(tx, q, job.b, "s") => Has(links, q, job.b, "s")
      /\ Referenced(pool, tx, Pools \ {job.p})
  BY <1>1 DEF IInv, RemoveTx, EmptySteps, RemoveSteps
<1> DEFINE q == sub[job.p]
           rest == tx \ RowsAt(job.b, {"s"})
<1>5. CASE q \notin Pools \/ ~Known(job.b, "s")
  <2>1. pool' = [pool EXCEPT ![job.p] = "partial"] /\ tx' = tx
    BY <1>5 DEF EmptyPool
  <2>2. \A r \in Pools : Live(pool', r) <=> Live(pool, r)
    BY <1>2, <1>3, <2>1 DEF Live, Values
  <2>3. ~Known(job.b, "s") => \A r \in tx : r[2] # <<job.b, "s">>
    BY <1>3 DEF Known
  <2> HIDE DEF Known
  <2>4. Referenced(pool', tx', Pools \ {job.p})
    BY <1>4, <2>1, <2>2 DEF Referenced
  <2> QED
    BY <1>1, <1>2, <1>3, <1>5, <2>1, <2>2, <2>3, <2>4 DEF Values
<1>6. CASE q \in Pools /\ Known(job.b, "s")
  <2>1. /\ tx' = rest
        /\ pool' = [pool EXCEPT ![job.p] = "partial",
                                ![q] = IF Refcount(rest, q) = 0 THEN "gone" ELSE @]
    BY <1>6 DEF EmptyPool
  <2>2. sub[q] = "none" /\ q # job.p
    <3>1. sub[q] = "none"
      BY <1>2, <1>6 DEF Consistent, Kinds
    <3> QED
      BY <1>6, <3>1, Names
  <2>3. job.x = "d" /\ top[job.b] = job.p
    <3>1. job.x = "s" => sub[job.b] = job.p
      BY <1>3 DEF AtLink
    <3>2. job.x # "s"
      BY <1>2, <1>6, <3>1, Names DEF Consistent, Kinds
    <3> QED
      BY <1>2, <1>3, <3>2 DEF AtLink, XS
  <2>4. ASSUME NEW r \in Pools, NEW c \in Backups, NEW y \in XS
        PROVE Has(rest, r, c, y) <=> Has(tx, r, c, y) /\ ~(c = job.b /\ y = "s")
    BY HasMinus
  <2>5. rest \subseteq Rows /\ IsFiniteSet(rest)
    BY <1>2, FS_Subset DEF FiniteTables
  <2> HIDE DEF rest
  <2>6. Refcount(rest, q) = 0 <=> \A c \in Backups, y \in XS : ~Has(rest, q, c, y)
    BY <1>6, <2>5, RefcountIs
  <2> HIDE DEF Known
  <2>7. ASSUME NEW r \in Pools
        PROVE pool'[r] = IF r = job.p THEN "partial"
                         ELSE IF r = q /\ Refcount(rest, q) = 0 THEN "gone" ELSE pool[r]
    BY <1>2, <1>6, <2>1, <2>2 DEF Values
  <2> HIDE DEF q
  <2>8. \A r \in Pools : Live(pool', r) => Live(pool, r)
    BY <1>3, <2>7 DEF Live
  <2>9. \A r \in Pools : Live(pool, r) /\ ~Live(pool', r) => r = q /\ Refcount(rest, q) = 0
    BY <2>7 DEF Live
  <2>10. ASSUME NEW r \in Pools \ {job.p}, Live(pool', r)
         PROVE \E c \in Backups : Has(rest, r, c, "d") \/ Has(rest, r, c, "s")
    <3>1. CASE r = q
      <4>1. Refcount(rest, q) # 0
        BY <2>7, <2>10, <3>1 DEF Live
      <4> QED
        BY <2>6, <3>1, <4>1 DEF XS
    <3>2. CASE r # q
      <4>1. Live(pool, r)
        BY <2>8, <2>10
      <4>2. PICK c \in Backups, y \in XS : Has(tx, r, c, y)
        BY <1>4, <4>1 DEF Referenced, XS
      <4>3. ~(c = job.b /\ y = "s")
        <5>1. SUFFICES ASSUME c = job.b, y = "s" PROVE FALSE
          OBVIOUS
        <5>2. Has(links, r, job.b, "s")
          BY <1>4, <4>2, <5>1
        <5>3. Sees(top, sub, job.b) \in {r, "none"}
          BY <1>2, <1>3, <4>1, <5>2 DEF Consistent, Agree
        <5>4. Sees(top, sub, job.b) = q
          BY <1>2, <2>3 DEF Sees, q
        <5> QED
          BY <1>6, <3>2, <5>3, <5>4, Names
      <4>4. Has(rest, r, c, y)
        BY <2>4, <4>2, <4>3
      <4> QED
        BY <4>4 DEF XS
    <3> QED
      BY <3>1, <3>2
  <2>11. Referenced(pool', tx', Pools \ {job.p})
    BY <2>1, <2>10 DEF Referenced
  <2>12. \A r \in Pools : Live(pool, r) /\ ~Live(pool', r) =>
            /\ sub[r] = "none" /\ sub[job.p] = r
            /\ \A c \in Backups : ~Has(tx', r, c, "d") /\ ~Has(tx', r, c, "s")
    BY <2>1, <2>2, <2>6, <2>9 DEF XS, q
  <2>13. \A r \in Pools, c \in Backups, y \in XS :
            /\ Has(tx', r, c, y) => Has(tx, r, c, y)
            /\ Has(tx, r, c, y) /\ ~Has(tx', r, c, y) => c = job.b /\ y = "s" /\ job.x = "d"
    BY <2>1, <2>3, <2>4
  <2>14. \A r \in Pools : ~Has(tx', r, job.b, "s")
    BY <1>2, <2>1, <2>4 DEF XS
  <2>15. pool'[job.p] = "partial" /\ \A r \in Pools : pool'[r] \in {pool[r], "partial", "gone"}
    BY <1>2, <2>7
  <2> QED
    BY <1>1, <1>2, <1>3, <2>8, <2>11, <2>12, <2>13, <2>14, <2>15
<1> QED
  BY <1>5, <1>6

\* The last reference is gone: the pool directory is emptied and removed.
LEMMA PoolRemoved ==
    ASSUME IInv, FiniteTables, EmptyPool \/ UnlinkNested \/ RemovePool
    PROVE  Linking' /\ Removing'
<1>1. /\ job.step \in EmptySteps /\ job.step \in RemoveSteps
      /\ UNCHANGED <<backups, top, links, up>>
  BY DEF EmptyPool, UnlinkNested, RemovePool, EmptySteps, RemoveSteps, tables
<1>2. /\ job.b \in Backups /\ job.x \in XS /\ job.p \in Pools /\ TypeOK
      /\ Values(top, sub, pool) /\ tx \subseteq Rows
  BY <1>1, DeleteFacts DEF EmptySteps
<1>3. RemoveJob /\ AtLink /\ job.b \notin renamed /\ Live(pool, job.p)
  BY <1>1 DEF IInv, RemoveJob
<1>4. RemoveTx
  BY DEF IInv
<1>5. ASSUME NEW step \in RemoveSteps, Go(step)
      PROVE /\ job'.step = step /\ job'.b = job.b /\ job'.x = job.x /\ job'.p = job.p /\ Linking'
  BY <1>2, <1>5, GoIs, NoLinking
<1>6. CASE EmptyPool
  <2>1. Go("nested") /\ sub' = sub
    BY <1>6 DEF EmptyPool
  <2>2. job'.step = "nested" /\ job'.b = job.b /\ job'.x = job.x /\ job'.p = job.p /\ Linking'
    BY <1>5, <2>1 DEF RemoveSteps
  <2>3. /\ pool'[job.p] = "partial"
        /\ Referenced(pool', tx', Pools \ {job.p})
        /\ \A q \in Pools, c \in Backups, y \in XS : Has(tx', q, c, y) => Has(tx, q, c, y)
        /\ \A q \in Pools, c \in Backups, y \in XS :
              Has(tx, q, c, y) /\ ~Has(tx', q, c, y) => c = job.b /\ y = "s" /\ job.x = "d"
    BY <1>6, PoolEmptied
  <2>4. RemoveJob'
    BY <1>1, <1>2, <1>3, <2>1, <2>2, <2>3
       DEF RemoveJob, AtLink, RemoveSteps, EmptySteps, backups, Live
  <2>5. RemoveTx'
    <3>1. /\ \A q \in Pools, c \in Backups \ {job.b} :
               /\ Has(tx', q, c, "d") <=> Has(links, q, c, "d")
               /\ Has(tx', q, c, "s") <=> Has(links, q, c, "s")
          /\ \A q \in Pools :
               /\ Has(tx', q, job.b, "d") => Has(links, q, job.b, "d")
               /\ Has(tx', q, job.b, "s") => Has(links, q, job.b, "s")
          /\ job.x = "s" => \A q \in Pools : Has(links, q, job.b, "d") => Has(tx', q, job.b, "d")
      BY <1>1, <1>2, <1>4, <2>3 DEF RemoveTx, EmptySteps, RemoveSteps, XS
    <3>2. /\ job.x = "d" => \A q \in Pools : ~Has(tx', q, job.b, "d")
          /\ \A c \in Backups : ~Has(tx', job.p, c, "d") /\ ~Has(tx', job.p, c, "s")
          /\ \A q \in Pools : ~Has(tx', q, job.b, job.x)
      BY <1>1, <1>2, <1>4, <2>3 DEF RemoveTx, EmptySteps, XS
    <3> QED
      BY <1>1, <1>3, <2>2, <2>3, <3>1, <3>2 DEF RemoveTx, EmptySteps, backups
  <2> QED
    BY <2>2, <2>4, <2>5 DEF Removing
<1>7. CASE UnlinkNested
  <2>1. Go("rmdir") /\ sub' = [sub EXCEPT ![job.p] = "none"] /\ pool' = pool /\ tx' = tx
        /\ job.step = "nested"
    BY <1>7 DEF UnlinkNested, tables
  <2>2. job'.step = "rmdir" /\ job'.b = job.b /\ job'.x = job.x /\ job'.p = job.p /\ Linking'
    BY <1>5, <2>1 DEF RemoveSteps
  <2>3. sub'[job.p] = "none" /\ sub'[job.b] = sub[job.b]
    BY <1>2, <2>1, Names DEF Values
  <2>4. RemoveJob'
    BY <1>1, <1>2, <1>3, <2>1, <2>2, <2>3
       DEF RemoveJob, AtLink, RemoveSteps, EmptySteps, backups
  <2>5. RemoveTx'
    BY <1>1, <1>4, <2>1, <2>2 DEF RemoveTx, RemoveSteps, EmptySteps, backups
  <2> QED
    BY <2>2, <2>4, <2>5 DEF Removing
<1>8. CASE RemovePool
  <2>1. Go("unlink") /\ pool' = [pool EXCEPT ![job.p] = "gone"] /\ sub' = sub /\ tx' = tx
        /\ job.step = "rmdir"
    BY <1>8 DEF RemovePool, tables
  <2>2. job'.step = "unlink" /\ job'.b = job.b /\ job'.x = job.x /\ job'.p = job.p /\ Linking'
    BY <1>5, <2>1 DEF RemoveSteps
  <2>3. RemoveJob'
    BY <1>1, <1>2, <1>3, <2>1, <2>2 DEF RemoveJob, AtLink, RemoveSteps, EmptySteps, backups
  <2>4. \A q \in Pools : Live(pool', q) => q # job.p /\ Live(pool, q)
    BY <1>2, <2>1 DEF Live, Values
  <2>5. Referenced(pool', tx', Pools)
    <3>1. Referenced(pool, tx, Pools \ {job.p})
      BY <1>1, <1>4 DEF RemoveTx
    <3> QED
      BY <2>1, <2>4, <3>1 DEF Referenced
  <2>6. RemoveTx'
    BY <1>1, <1>4, <2>1, <2>2, <2>5 DEF RemoveTx, RemoveSteps, EmptySteps, backups
  <2> QED
    BY <2>2, <2>3, <2>6 DEF Removing
<1> QED
  BY <1>6, <1>7, <1>8

\* The links in the folder are found, go, and are forgotten one by one.
LEMMA FolderScanned ==
    ASSUME IInv, ScanFolder \/ Unlink \/ EndRemove
    PROVE  Linking' /\ Removing'
<1>1. job.step \in RemoveSteps
  BY DEF ScanFolder, Unlink, EndRemove, RemoveSteps
<1>2. /\ job.b \in Backups /\ job.x \in XS /\ (job.step # "scan" => job.p \in Pools) /\ TypeOK
      /\ Values(top, sub, pool) /\ RemoveJob /\ RemoveTx /\ up
  BY <1>1, DeleteFacts DEF IInv
<1>3. CASE ScanFolder
  <2>1. ASSUME NEW x \in XS, At(job.b, x) \in Pools, RemoveLink(job.b, x),
               x = "d" => top[job.b] \in Pools,
               x = "s" => top[job.b] = "dir"
        PROVE Linking' /\ Removing'
    <3>1. /\ job'.step = "row" /\ job'.b = job.b /\ job'.x = x /\ job'.p = At(job.b, x)
          /\ tx' = links /\ UNCHANGED <<backups, files, links, up>>
      BY <1>2, <2>1 DEF RemoveLink, TypeOK
    <3>2. IF x = "d" THEN top[job.b] = At(job.b, x) ELSE top[job.b] = "dir" /\ sub[job.b] = At(job.b, x)
      BY <2>1, Names DEF At, Home, XS
    <3>3. RemoveJob'
      BY <1>1, <1>2, <2>1, <3>1, <3>2 DEF RemoveJob, AtLink, EmptySteps, backups, files
    <3>4. RemoveTx'
      BY <3>1 DEF RemoveTx, EmptySteps
    <3> QED
      BY <3>1, <3>3, <3>4, NoLinking DEF Removing, RemoveSteps
  <2>2. ASSUME UNCHANGED <<backups, pool, tables, job, up>>, job.step = "scan"
        PROVE Linking' /\ Removing'
    BY <1>1, <1>2, <2>2, NoLinking DEF Removing, RemoveJob, RemoveTx, EmptySteps, backups
  <2>3. ASSUME job' = NoJob PROVE Linking' /\ Removing'
    BY <2>3, NoOperation DEF NoJob, LinkSteps, RemoveSteps
  <2>4. ASSUME top[job.b] \in Pools PROVE At(job.b, "d") \in Pools
    BY <2>4 DEF At
  <2>5. ASSUME top[job.b] = "dir", sub[job.b] \in Pools PROVE At(job.b, "s") \in Pools
    BY <2>5, Names DEF At, Home
  <2> QED
    BY <1>3, <2>1, <2>2, <2>3, <2>4, <2>5, Names DEF ScanFolder, XS
<1>4. CASE Unlink
  <2>1. Go("end_remove") /\ Place(job.b, job.x, "none") /\ job.step = "unlink"
        /\ UNCHANGED <<backups, pool, tables, up>>
    BY <1>4 DEF Unlink
  <2>2. job'.step = "end_remove" /\ job'.b = job.b /\ job'.x = job.x /\ job'.p = job.p
    BY <1>2, <2>1, GoIs
  <2>3. AtLink
    BY <1>1, <1>2, <2>1 DEF RemoveJob
  <2>4. IF job.x = "d" THEN top'[job.b] = "none" ELSE top'[job.b] = "dir" /\ sub'[job.b] = "none"
    BY <1>2, <2>1, <2>3, Names DEF Place, Home, AtLink, Values, XS
  <2>5. RemoveJob'
    BY <1>1, <1>2, <2>1, <2>2, <2>4 DEF RemoveJob, EmptySteps, backups
  <2>6. RemoveTx'
    BY <1>1, <1>2, <2>1, <2>2 DEF RemoveTx, RemoveSteps, EmptySteps, backups, tables
  <2> QED
    BY <2>2, <2>5, <2>6, NoLinking DEF Removing, RemoveSteps
<1>5. CASE EndRemove
  <2>1. Go("scan") /\ UNCHANGED <<backups, up>>
    BY <1>5 DEF EndRemove
  <2>2. job'.step = "scan" /\ job'.b = job.b
    BY <1>2, <2>1, GoIs
  <2>3. RemoveJob'
    BY <1>1, <1>2, <2>1, <2>2 DEF RemoveJob, EmptySteps, backups
  <2>4. RemoveTx'
    BY <2>2 DEF RemoveTx, EmptySteps
  <2> QED
    BY <2>2, <2>3, <2>4, NoLinking DEF Removing, RemoveSteps
<1> QED
  BY <1>3, <1>4, <1>5

\* Every step keeps what is known of the operation under way.
LEMMA OperationStep ==
    ASSUME IInv, FiniteTables, Step
    PROVE  Linking' /\ Removing'
<1>1. RemoveStep => Linking' /\ Removing'
  BY RowRemoved, PoolRemoved, FolderScanned DEF RemoveStep
<1> QED
  BY <1>1, Steps, BackupOperation, LinkOperation, DownOperation

\* The places, as the replay of the journal would leave them, agree with the table.
Followed == Consistent(seenTop, seenSub, pool, links, renamed, CountedBackups)

\* A backup counts no sooner than its rows are committed.
LEMMA CountedFrame ==
    ASSUME IInv, Step, ~EndLink
    PROVE  CountedBackups' \subseteq CountedBackups /\ renamed \subseteq renamed'
<1>1. /\ status \in [Backups -> {"unused", "running", "done", "failed", "gone"}]
      /\ renamed \subseteq Backups
  BY DEF IInv, TypeInv, TypeOK
<1>2. CASE RecoveryStep
  <2>1. ~up /\ job = NoJob
    BY <1>2 DEF RecoveryStep, Restart, ReplayFirst, RemoveUnknown, IInv
  <2>2. CASE Restart
    <3>1. /\ status' = [b \in Backups |-> IF Running(b) THEN "failed" ELSE status[b]]
          /\ renamed' = renamed \cup {b \in Backups : status[b] \in {"running", "failed"}}
      BY <2>2 DEF Restart
    <3> QED
      BY <1>1, <3>1 DEF CountedBackups, Running
  <2>3. CASE ReplayFirst
    BY <2>3 DEF ReplayFirst, CountedBackups, Running, backups
  <2>4. CASE RemoveUnknown
    <3>1. /\ status' = [b \in Backups |-> IF b \in renamed THEN "gone" ELSE status[b]]
          /\ renamed' = renamed /\ up' = up
      BY <2>4 DEF RemoveUnknown
    <3> QED
      BY <1>1, <2>1, <3>1 DEF CountedBackups, Running
  <2> QED
    BY <1>2, <2>2, <2>3, <2>4 DEF RecoveryStep
<1>3. CASE Crash
  BY <1>3 DEF Crash, backups, CountedBackups, Running
<1>4. CASE ~RecoveryStep /\ ~Crash
  <2>1. up /\ renamed' = renamed
    BY <1>4, ServerUp, Steps DEF BackupStep, LinkStep, RemoveStep, StartBackup, FinishBackup,
       FailBackup, DeleteBackup, Copy, LinkLinked, LinkPlain, LinkTargetInTx, EndLink, CommitRows,
       Rename, RenameFails, LinkSource, LinkSourceFails, ForgetJournal, LinkTarget, Undo,
       UndoJournal, DropTarget, ScanFolder, RemoveLink, RemoveRow, EmptyPool, UnlinkNested,
       RemovePool, Unlink, EndRemove, backups
  <2>2. job.step # "end_link"
    BY <1>4, Steps, NotLinking DEF BackupStep, LinkStep, RemoveStep, StartBackup, FinishBackup,
       FailBackup, DeleteBackup, Copy, LinkLinked, LinkPlain, LinkTargetInTx, CommitRows,
       Rename, RenameFails, LinkSource, LinkSourceFails, ForgetJournal, LinkTarget, Undo, AfterUndo,
       UndoJournal, DropTarget, ScanFolder, RemoveRow, EmptyPool, UnlinkNested,
       RemovePool, Unlink, EndRemove, Idle, NoJob, LinkSteps
  <2> QED
    BY <2>1, <2>2 DEF CountedBackups
<1> QED
  BY <1>2, <1>3, <1>4

\* What is consistent for more backups stays so for those that count.
LEMMA StillFollowed ==
    ASSUME NEW t, NEW s, NEW C, Consistent(t, s, pool', links', renamed, C),
           seenTop' = t, seenSub' = s, renamed \subseteq renamed', CountedBackups' \subseteq C
    PROVE  Followed'
BY Weaker DEF Followed

\* In a server that runs, and no directory on its way, places are what they seem.
LEMMA NextView ==
    ASSUME TypeOK', Journal', Linking', up', job'.step # "link_source"
    PROVE  seenTop' = top' /\ seenSub' = sub'
BY ViewUpNext DEF Linking

\* The steps of a backup.
LEMMA BackupFollowed ==
    ASSUME IInv, BackupStep, TypeOK', Journal', Linking'
    PROVE  Followed'
<1>1. PICK b \in Backups :
         \/ StartBackup(b) \/ FinishBackup(b) \/ FailBackup(b) \/ DeleteBackup(b)
         \/ \E x \in {"d", "s"} : Copy(b, x)
  BY DEF BackupStep
<1>2. job.step \notin LinkSteps /\ up
  BY <1>1, NotLinking DEF StartBackup, FinishBackup, FailBackup, DeleteBackup, Copy
<1>3. seenTop = top /\ seenSub = sub /\ TypeOK /\ Values(top, sub, pool)
  BY <1>2, ViewUp, ViewType DEF IInv, TypeInv, LinkSteps
<1>4. Consistent(top, sub, pool, links, renamed, CountedBackups)
  BY <1>3 DEF IInv
<1>5. up' = up /\ pool' = pool /\ links' = links /\ job'.step \notin LinkSteps
  <2>1. up' = up /\ pool' = pool /\ links' = links
    BY <1>1 DEF StartBackup, FinishBackup, FailBackup, DeleteBackup, Copy, files, tables
  <2>2. job' = job \/ job'.step = "scan"
    BY <1>1 DEF StartBackup, FinishBackup, FailBackup, DeleteBackup, Copy
  <2> QED
    BY <1>2, <2>1, <2>2 DEF LinkSteps
<1>6. seenTop' = top' /\ seenSub' = sub'
  BY <1>2, <1>5, NextView DEF LinkSteps
<1>7. CountedBackups' \subseteq CountedBackups /\ renamed \subseteq renamed'
  <2>1. Step /\ ~EndLink
    BY <1>2, Steps DEF EndLink, LinkSteps
  <2> QED
    BY <2>1, CountedFrame
<1>8. ASSUME NEW x \in {"d", "s"}, Copy(b, x)
      PROVE Consistent(top', sub', pool, links, renamed, CountedBackups)
  <2>1. Open(b, x) /\ Place(b, x, "dir") /\ x \in XS
    BY <1>8 DEF Copy, XS
  <2>2. Clean(links, b) /\ Free(top, sub, b, x)
    BY <1>2, <2>1, OpenClean DEF Free, Vacant
  <2>3. Put(top, sub, top', sub', b, x, "dir")
    BY <2>1, <2>2, Names DEF Place, Home, Put, Free, XS
  <2> QED
    BY <1>3, <1>4, <2>1, <2>2, <2>3, Placed
<1>9. Consistent(top', sub', pool', links', renamed, CountedBackups)
  <2>1. CASE UNCHANGED <<top, sub>>
    BY <1>4, <1>5, <2>1
  <2> QED
    BY <1>1, <1>5, <1>8, <2>1 DEF StartBackup, FinishBackup, FailBackup, DeleteBackup, files
<1> QED
  BY <1>6, <1>7, <1>9, StillFollowed

\* The steps of link_directory_pool, whose source is a link.
LEMMA LinkedFollowed ==
    ASSUME IInv, \/ \E b \in Backups, x \in {"d", "s"} : LinkLinked(b, x)
                 \/ LinkTargetInTx \/ EndLink,
           TypeOK', Journal', Linking'
    PROVE  Followed'
<1>1. TypeOK /\ Values(top, sub, pool) /\ links \subseteq Rows /\ tx \subseteq Rows
  BY DEF IInv, TypeInv, TypeOK, Values
<1>2. ASSUME NEW b \in Backups, NEW x \in {"d", "s"}, LinkLinked(b, x) PROVE Followed'
  <2>1. /\ up /\ job = NoJob /\ job'.step = "symlink" /\ UNCHANGED <<backups, top, sub, pool, links, up>>
    BY <1>2 DEF LinkLinked, Idle, files
  <2>2. seenTop = top /\ seenSub = sub
    BY <1>1, <2>1, ViewUp DEF IInv, NoJob
  <2>3. seenTop' = top /\ seenSub' = sub
    BY <2>1, NextView
  <2>4. CountedBackups' \subseteq CountedBackups /\ renamed \subseteq renamed'
    <3>1. Step /\ ~EndLink
      BY <1>2, <2>1 DEF Step, EndLink, NoJob
    <3> QED
      BY <3>1, CountedFrame
  <2>5. Consistent(top, sub, pool', links', renamed, CountedBackups)
    BY <2>1, <2>2 DEF IInv
  <2> QED
    BY <2>3, <2>4, <2>5, StillFollowed
<1>3. ASSUME LinkTargetInTx PROVE Followed'
  <2>1. /\ job.step = "symlink" /\ job.step \in LinkSteps
        /\ Place(job.b, job.x, job.p) \/ UNCHANGED <<top, sub>>
        /\ Go("end_link") /\ UNCHANGED <<backups, pool, links, up>>
    BY <1>3 DEF LinkTargetInTx, LinkSteps
  <2>2. job'.step = "end_link" /\ job'.b = job.b
    BY <1>1, <2>1, GoIs
  <2>3. /\ job.b \in Backups \ renamed /\ job.p \in Pools /\ job.x \in XS /\ up /\ Running(job.b)
        /\ Vacant(job.b, job.x) /\ last \in Backups \ renamed /\ job.b # last
    BY <2>1, LinkFacts
  <2>4. /\ Clean(links, job.b)
        /\ IF job.x = "d" THEN top[last] = job.p ELSE Sees(top, sub, last) = job.p
    BY <2>1 DEF IInv, LinkedJob, LinkedSteps
  <2>5. seenTop = top /\ seenSub = sub
    BY <1>1, <2>1, <2>3, ViewUp DEF IInv
  <2>6. seenTop' = top' /\ seenSub' = sub'
    BY <2>1, <2>2, <2>3, NextView
  <2>7. CountedBackups' \subseteq CountedBackups \ {job.b} /\ renamed \subseteq renamed'
    BY <2>1, <2>2, <2>3 DEF CountedBackups, Running, backups
  <2>8. Consistent(top, sub, pool, links, renamed, CountedBackups \ {job.b})
    BY <2>5, Weaker DEF IInv
  <2>9. Consistent(top', sub', pool, links, renamed, CountedBackups \ {job.b})
    <3>1. CASE Place(job.b, job.x, job.p)
      <4>1. Put(top, sub, top', sub', job.b, job.x, job.p) /\ Free(top, sub, job.b, job.x)
        BY <2>3, <3>1, Names DEF Place, Home, Put, Free, Vacant, XS
      <4>2. pool[job.p] # "unused"
        BY <1>1, <2>3, <2>4, <2>8 DEF Consistent, Shape, Sees, XS, Values
      <4>3. Suits(top, sub, links, job.x, job.p)
        BY <1>1, <2>3, <2>4, <2>8 DEF Consistent, Kinds, Suits, Sees, XS
      <4> QED
        BY <1>1, <2>3, <2>4, <2>8, <4>1, <4>2, <4>3, Placed
    <3> QED
      BY <2>1, <2>8, <3>1
  <2> QED
    BY <2>1, <2>6, <2>7, <2>9, StillFollowed
<1>4. ASSUME EndLink PROVE Followed'
  <2>1. /\ job.step = "end_link" /\ job.step \in LinkSteps /\ job.step # "link_source"
        /\ links' = tx /\ job' = NoJob /\ UNCHANGED <<backups, top, sub, pool, up>>
    BY <1>4 DEF EndLink, LinkSteps, files
  <2>2. /\ job.b \in Backups \ renamed /\ job.p \in Pools /\ job.x \in XS /\ up /\ Running(job.b)
        /\ last \in Backups \ renamed /\ job.b # last /\ status[last] = "done"
    BY <2>1, LinkFacts
  <2>3. seenTop = top /\ seenSub = sub
    BY <1>1, <2>1, <2>2, ViewUp DEF IInv
  <2>4. seenTop' = top /\ seenSub' = sub
    BY <2>1, <2>2, NextView DEF NoJob
  <2>5. CountedBackups' \subseteq CountedBackups \cup {job.b} /\ renamed \subseteq renamed'
    BY <2>1, <2>2 DEF CountedBackups, Running, backups
  <2>6. Consistent(top, sub, pool, links, renamed, CountedBackups) /\ last \in CountedBackups
    BY <2>2, <2>3 DEF IInv, CountedBackups, Running
  <2>7. /\ Clean(links, job.b)
        /\ IF job.x = "d" THEN top[last] = job.p ELSE Sees(top, sub, last) = job.p
        /\ \/ /\ WithTarget(links, tx, last, job.b, job.x, job.p)
              /\ IF job.x = "d" THEN top[job.b] = job.p ELSE top[job.b] = "dir" /\ sub[job.b] = job.p
           \/ tx = links /\ Vacant(job.b, job.x)
    BY <2>1 DEF IInv, LinkedJob, LinkedSteps
  <2>8. Consistent(top, sub, pool, tx, renamed, CountedBackups \cup {job.b})
    <3>1. CASE /\ WithTarget(links, tx, last, job.b, job.x, job.p)
               /\ IF job.x = "d" THEN top[job.b] = job.p
                  ELSE top[job.b] = "dir" /\ sub[job.b] = job.p
      BY <1>1, <2>2, <2>6, <2>7, <3>1, TargetCommitted
    <3>2. CASE tx = links /\ Vacant(job.b, job.x)
      <4>1. top[job.b] \notin Pools /\ sub[job.b] \notin Pools
        BY <1>1, <2>2, <2>6, <3>2, Names DEF Vacant, Consistent, Shape, XS
      <4> QED
        BY <2>2, <2>6, <3>2, <4>1 DEF Consistent, Counted, Alike
    <3> QED
      BY <2>7, <3>1, <3>2
  <2> QED
    BY <2>1, <2>4, <2>5, <2>8, StillFollowed
<1> QED
  BY <1>2, <1>3, <1>4

\* Places, pool directories and rows stay.
LEMMA FollowedFrame ==
    ASSUME IInv, Step, ~EndLink, up, up', job.step # "link_source", job'.step # "link_source",
           UNCHANGED <<top, sub, pool, links>>, TypeOK', Journal', Linking'
    PROVE  Followed'
<1>1. seenTop = top /\ seenSub = sub
  BY ViewUp DEF IInv, TypeInv
<1>2. seenTop' = top /\ seenSub' = sub
  BY NextView
<1>3. CountedBackups' \subseteq CountedBackups /\ renamed \subseteq renamed'
  BY CountedFrame
<1>4. Consistent(top, sub, pool', links', renamed, CountedBackups)
  BY <1>1 DEF IInv
<1> QED
  BY <1>2, <1>3, <1>4, StillFollowed

\* The directory goes into the pool, and a link to its place.
LEMMA RenameFollowed ==
    ASSUME IInv, Rename, TypeOK', Journal', Linking'
    PROVE  Followed'
<1>1. /\ job.step = "rename" /\ job.step \in LinkSteps \ LinkedSteps
      /\ Go("link_source") /\ UNCHANGED <<backups, links, up>>
      /\ pool' = [pool EXCEPT ![job.p] = "full"]
  BY DEF Rename, LinkSteps, LinkedSteps, tables
<1>2. /\ job.b \in Backups \ renamed /\ job.p \in Pools /\ job.x \in XS /\ up
      /\ Vacant(job.b, job.x) /\ last \in Backups \ renamed /\ job.b # last
      /\ Values(top, sub, pool) /\ TypeOK /\ seenTop = top /\ seenSub = sub
      /\ last \in CountedBackups
  BY <1>1, PoolFacts
<1>3. job'.step = "link_source" /\ job'.x = job.x /\ job'.p = job.p /\ last' = last
  BY <1>1, <1>2, GoIs DEF backups
<1>4. /\ AtSource(job.x) /\ pool[job.p] = "unused"
      /\ PoolRows(links, last, top[last], job.b, job.x, job.p)
  BY <1>1 DEF IInv, PoolJob, RowsJob
<1>5. Consistent(top, sub, pool, links, renamed, CountedBackups)
  BY <1>2 DEF IInv
<1>6. CountedBackups' \subseteq CountedBackups /\ renamed \subseteq renamed'
  <2>1. Step /\ ~EndLink
    BY <1>1 DEF Step, EndLink
  <2> QED
    BY <2>1, CountedFrame
<1>7. \A c \in Backups : c \in CountedBackups => c \notin renamed
  BY DEF CountedBackups
<1>8. CASE job.x = "d"
  <2>1. /\ top' = [top EXCEPT ![last] = "none"]
        /\ sub' = [sub EXCEPT ![job.p] = sub[last], ![last] = "none"]
    BY <1>8 DEF Rename
  <2>2. seenTop' = [top EXCEPT ![last] = job.p] /\ seenSub' = sub'
    <3>1. seenTop' = [top' EXCEPT ![last] = job.p] /\ seenSub' = sub'
      BY <1>3, <1>8, ViewSourceNext DEF Linking
    <3> QED
      BY <1>2, <2>1, <3>1 DEF Values
  <2>3. top[last] = "dir" /\ top[job.b] = "none"
    BY <1>2, <1>4, <1>8 DEF AtSource, Vacant
  <2>4. Consistent(seenTop', seenSub', pool', links', renamed, CountedBackups)
    BY <1>1, <1>2, <1>4, <1>5, <1>8, <2>1, <2>2, <2>3, DirPooled
  <2> QED
    BY <1>6, <2>4, StillFollowed
<1>9. CASE job.x = "s"
  <2> DEFINE h == HomeOf(top, last)
  <2>1. top' = top /\ sub' = [sub EXCEPT ![h] = "none"]
    BY <1>1, <1>9 DEF Rename, Place, Home, HomeOf
  <2>2. h \in Backups \cup Pools /\ h = (IF top[last] \in Pools THEN top[last] ELSE last)
    BY <1>2 DEF HomeOf
  <2>3. top[last] # "none" /\ sub[h] = "dir" /\ top[job.b] = "dir" /\ sub[job.b] = "none"
    BY <1>2, <1>4, <1>9 DEF AtSource, Vacant, Sees, HomeOf
  <2>4. seenTop' = top /\ seenSub' = [sub' EXCEPT ![h] = job.p]
    BY <1>3, <1>9, <2>1, ViewSourceNext DEF Linking
  <2> HIDE DEF h
  <2>5. seenSub' = [sub EXCEPT ![h] = job.p]
    BY <1>2, <2>1, <2>2, <2>4 DEF Values
  <2>6. Consistent(top, seenSub', pool', links, renamed, CountedBackups)
    <3>1. PoolRows(links, last, top[last], job.b, "s", job.p)
      BY <1>4, <1>9
    <3>2. job.b \in Backups /\ last \in Backups /\ last \notin renamed
      BY <1>2
    <3> QED
      BY <1>1, <1>2, <1>4, <1>5, <1>7, <2>2, <2>3, <2>5, <3>1, <3>2, SubPooled
  <2> QED
    BY <1>1, <1>6, <2>4, <2>6, StillFollowed
<1> QED
  BY <1>2, <1>8, <1>9 DEF XS

\* The link is made, or the directory moves back.
LEMMA SourceFollowed ==
    ASSUME IInv, LinkSource \/ LinkSourceFails, TypeOK', Journal', Linking'
    PROVE  Followed'
<1>1. /\ job.step = "link_source" /\ job.step \in LinkSteps \ LinkedSteps
      /\ UNCHANGED <<backups, links, up>>
  BY DEF LinkSource, LinkSourceFails, LinkSteps, LinkedSteps, tables
<1>2. /\ job.b \in Backups \ renamed /\ job.p \in Pools /\ job.x \in XS /\ up
      /\ last \in Backups \ renamed /\ job.b # last /\ Values(top, sub, pool) /\ TypeOK
  BY <1>1, PoolFacts
<1>3. job'.step \in {"forget", "undo_parents"}
  BY <1>2, GoIs DEF LinkSource, LinkSourceFails
<1>4. seenTop' = top' /\ seenSub' = sub'
  BY <1>1, <1>2, <1>3, NextView
<1>5. Consistent(seenTop, seenSub, pool, links, renamed, CountedBackups)
  BY DEF IInv
<1>6. CountedBackups' \subseteq CountedBackups /\ renamed \subseteq renamed'
  <2>1. Step /\ ~EndLink
    BY <1>1 DEF Step, EndLink
  <2> QED
    BY <2>1, CountedFrame
<1>7. /\ job.x = "d" => seenTop = [top EXCEPT ![last] = job.p] /\ seenSub = sub
      /\ job.x = "s" => seenTop = top /\ seenSub = [sub EXCEPT ![HomeOf(top, last)] = job.p]
  BY <1>1, <1>2, ViewSource DEF IInv
<1>8. Values(seenTop, seenSub, pool)
  BY <1>2, ViewType
<1>9. CASE LinkSource
  <2>1. Place(last, job.x, job.p) /\ pool' = pool
    BY <1>9 DEF LinkSource
  <2>2. top' = seenTop /\ sub' = seenSub
    BY <1>2, <1>7, <2>1 DEF Place, Home, HomeOf, XS
  <2>3. Consistent(seenTop', seenSub', pool', links', renamed, CountedBackups)
    BY <1>1, <1>4, <1>5, <2>1, <2>2
  <2> QED
    BY <1>6, <2>3, StillFollowed
<1>10. CASE LinkSourceFails /\ job.x = "d"
  <2>1. /\ top' = [top EXCEPT ![last] = "dir"]
        /\ sub' = [sub EXCEPT ![last] = sub[job.p], ![job.p] = "none"]
        /\ pool' = [pool EXCEPT ![job.p] = "gone"]
    BY <1>10 DEF LinkSourceFails
  <2>2. /\ top' = [seenTop EXCEPT ![last] = "dir"]
        /\ sub' = [seenSub EXCEPT ![last] = seenSub[job.p], ![job.p] = "none"]
    BY <1>2, <1>7, <1>10, <2>1 DEF Values
  <2>3. Has(links, job.p, last, "d") /\ \A c \in Backups : top[c] # job.p
    BY <1>1, <1>2, <1>10 DEF IInv, RowsJob, PoolJob, PoolRows
  <2>4. seenTop[last] = job.p /\ \A c \in Backups : c # last => seenTop[c] # job.p
    BY <1>2, <1>7, <1>10, <2>3 DEF Values
  <2>5. Consistent(top', sub', pool', links, renamed, CountedBackups)
    <3>1. last \in Backups /\ last \notin renamed
      BY <1>2
    <3>2. job.p \in Pools /\ Has(links, job.p, last, "d") /\ seenTop[last] = job.p
          /\ pool' = [pool EXCEPT ![job.p] = "gone"]
      BY <1>2, <2>1, <2>3, <2>4
    <3>3. \A c \in Backups : c # last => seenTop[c] # job.p
      BY <2>4
    <3> QED
      BY <1>5, <1>8, <2>2, <3>1, <3>2, <3>3, DirBack
  <2> QED
    BY <1>1, <1>4, <1>6, <2>5, StillFollowed
<1>11. CASE LinkSourceFails /\ job.x = "s"
  <2> DEFINE h == HomeOf(top, last)
  <2>1. /\ top' = top /\ sub' = [sub EXCEPT ![h] = "dir"]
        /\ pool' = [pool EXCEPT ![job.p] = "gone"]
    BY <1>11 DEF LinkSourceFails, Place, Home, HomeOf
  <2>2. h \in Backups \cup Pools /\ h = (IF top[last] \in Pools THEN top[last] ELSE last)
    BY <1>2 DEF HomeOf
  <2>3. top[last] # "none"
    BY <1>1, <1>11 DEF IInv, PoolJob, Moved
  <2>4. seenTop = top /\ seenSub = [sub EXCEPT ![h] = job.p]
    BY <1>7, <1>11
  <2> HIDE DEF h
  <2>5. seenSub[h] = job.p /\ sub' = [seenSub EXCEPT ![h] = "dir"]
    BY <1>2, <2>1, <2>2, <2>4 DEF Values
  <2>6. Consistent(seenTop, sub', pool', links, renamed, CountedBackups)
    <3>1. last \in Backups /\ last \notin renamed
      BY <1>2
    <3>2. h = (IF seenTop[last] \in Pools THEN seenTop[last] ELSE last) /\ seenTop[last] # "none"
      BY <2>2, <2>3, <2>4
    <3> QED
      BY <1>2, <1>5, <1>8, <2>1, <2>5, <3>1, <3>2, SubBack
  <2> QED
    BY <1>1, <1>4, <1>6, <2>1, <2>4, <2>6, StillFollowed
<1> QED
  BY <1>2, <1>9, <1>10, <1>11 DEF XS

\* The rows are committed, and at last the backup gets its link.
LEMMA TargetFollowed ==
    ASSUME IInv,
           \/ \E b \in Backups, x \in {"d", "s"} : LinkPlain(b, x)
           \/ CommitRows \/ RenameFails \/ ForgetJournal \/ LinkTarget \/ UndoJournal,
           TypeOK', Journal', Linking'
    PROVE  Followed'
<1>1. ASSUME NEW b \in Backups, NEW x \in {"d", "s"}, LinkPlain(b, x) PROVE Followed'
  <2>1. up /\ job = NoJob /\ job'.step = "commit" /\ UNCHANGED <<top, sub, pool, links, up>>
    BY <1>1 DEF LinkPlain, Idle, files
  <2>2. Step /\ ~EndLink
    BY <1>1, <2>1 DEF Step, EndLink, NoJob
  <2> QED
    BY <2>1, <2>2, FollowedFrame DEF NoJob
<1>2. ASSUME RenameFails \/ ForgetJournal \/ UndoJournal PROVE Followed'
  <2>1. /\ job.step \in {"rename", "forget", "undo_journal"} /\ job.step \in LinkSteps \ LinkedSteps
        /\ UNCHANGED <<top, sub, pool, links, up>>
    BY <1>2 DEF RenameFails, ForgetJournal, UndoJournal, files, tables, LinkSteps, LinkedSteps
  <2>2. up /\ TypeOK
    BY <2>1, PoolFacts
  <2>3. job'.step \in {"undo_parents", "link_target", "none"}
    <3>1. RenameFails => job'.step = "undo_parents"
      BY <2>2, GoIs DEF RenameFails
    <3>2. ForgetJournal => job'.step = "link_target"
      BY <2>2, GoIs DEF ForgetJournal
    <3>3. UndoJournal => job'.step = "none"
      BY DEF UndoJournal, NoJob
    <3> QED
      BY <1>2, <3>1, <3>2, <3>3
  <2>4. Step /\ ~EndLink
    BY <1>2, <2>1 DEF Step, EndLink
  <2> QED
    BY <2>1, <2>2, <2>3, <2>4, FollowedFrame
<1>3. ASSUME CommitRows PROVE Followed'
  <2>1. /\ job.step = "commit" /\ job.step \in LinkSteps \ LinkedSteps /\ links' = tx
        /\ Go("rename") /\ UNCHANGED <<top, sub, pool, up>>
    BY <1>3 DEF CommitRows, LinkSteps, LinkedSteps, files
  <2>2. /\ job.b \in Backups \ renamed /\ job.p \in Pools /\ job.x \in XS /\ up
        /\ Vacant(job.b, job.x) /\ last \in Backups \ renamed /\ job.b # last
        /\ Values(top, sub, pool) /\ TypeOK /\ seenTop = top /\ seenSub = sub
    BY <2>1, PoolFacts
  <2>3. /\ pool[job.p] = "unused" /\ Clean(links, job.b)
        /\ \A c \in Backups : ~Has(links, job.p, c, "d") /\ ~Has(links, job.p, c, "s")
        /\ WithPool(links, tx, last, top[last], job.b, job.x, job.p)
    BY <2>1 DEF IInv, PoolJob, RowsJob
  <2>4. Consistent(top, sub, pool, links, renamed, CountedBackups)
    BY <2>2 DEF IInv
  <2>5. Free(top, sub, job.b, job.x)
    BY <2>2 DEF Free, Vacant
  <2>6. Consistent(top, sub, pool, tx, renamed, CountedBackups)
    BY <2>2, <2>3, <2>4, <2>5, PoolCommitted
  <2>7. seenTop' = top /\ seenSub' = sub
    <3>1. job'.step = "rename"
      BY <2>1, <2>2, GoIs
    <3> QED
      BY <2>1, <2>2, <3>1, NextView
  <2>8. CountedBackups' \subseteq CountedBackups /\ renamed \subseteq renamed'
    <3>1. Step /\ ~EndLink
      BY <1>3, <2>1 DEF Step, EndLink
    <3> QED
      BY <3>1, CountedFrame
  <2> QED
    BY <2>1, <2>6, <2>7, <2>8, StillFollowed
<1>4. ASSUME LinkTarget PROVE Followed'
  <2>1. /\ job.step = "link_target" /\ job.step \in LinkSteps \ LinkedSteps
        /\ UNCHANGED <<pool, links, up>>
        /\ \/ Place(job.b, job.x, job.p) /\ job' = NoJob
           \/ UNCHANGED <<top, sub>> /\ Go("drop_target")
    BY <1>4 DEF LinkTarget, LinkSteps, LinkedSteps, tables
  <2>2. /\ job.b \in Backups \ renamed /\ job.p \in Pools /\ job.x \in XS /\ up
        /\ Vacant(job.b, job.x) /\ last \in Backups \ renamed /\ job.b # last
        /\ Values(top, sub, pool) /\ TypeOK /\ seenTop = top /\ seenSub = sub
        /\ last \in CountedBackups
    BY <2>1, PoolFacts
  <2>3. Step /\ ~EndLink
    BY <1>4, <2>1 DEF Step, EndLink
  <2>4. job'.step \in {"none", "drop_target"}
    BY <2>1, <2>2, GoIs DEF NoJob
  <2>5. CASE UNCHANGED <<top, sub>>
    BY <2>1, <2>2, <2>3, <2>4, <2>5, FollowedFrame
  <2>6. CASE Place(job.b, job.x, job.p)
    <3>1. AtPool(job.x, job.p) /\ PoolRows(links, last, top[last], job.b, job.x, job.p)
      BY <2>1 DEF IInv, PoolJob, RowsJob
    <3>2. Put(top, sub, top', sub', job.b, job.x, job.p) /\ Free(top, sub, job.b, job.x)
      BY <2>2, <2>6, Names DEF Place, Home, Put, Free, Vacant, XS
    <3>3. Consistent(top, sub, pool, links, renamed, CountedBackups)
      BY <2>2 DEF IInv
    <3>4. IF job.x = "d" THEN top[last] = job.p ELSE Sees(top, sub, last) = job.p
      BY <3>1 DEF AtPool
    <3>5. Consistent(top', sub', pool, links, renamed, CountedBackups)
      BY <2>2, <3>1, <3>2, <3>3, <3>4, TargetLinked
    <3>6. seenTop' = top' /\ seenSub' = sub'
      BY <2>1, <2>2, <2>4, NextView
    <3>7. CountedBackups' \subseteq CountedBackups /\ renamed \subseteq renamed'
      BY <2>3, CountedFrame
    <3> QED
      BY <2>1, <3>5, <3>6, <3>7, StillFollowed
  <2> QED
    BY <2>1, <2>5, <2>6
<1> QED
  BY <1>1, <1>2, <1>3, <1>4

\* Rows taken back lead nowhere, or their pool directory keeps another row.
LEMMA RowsBackFollowed ==
    ASSUME IInv, Undo \/ DropTarget, TypeOK', Journal', Linking'
    PROVE  Followed'
<1>1. /\ job.step \in LinkSteps \ LinkedSteps /\ job.step # "link_source"
      /\ UNCHANGED <<backups, top, sub, pool, up>>
  BY DEF Undo, AfterUndo, DropTarget, LinkSteps, LinkedSteps, files
<1>2. /\ job.b \in Backups \ renamed /\ job.p \in Pools /\ job.x \in XS /\ up
      /\ Vacant(job.b, job.x) /\ last \in Backups \ renamed /\ job.b # last
      /\ Values(top, sub, pool) /\ TypeOK /\ seenTop = top /\ seenSub = sub /\ links \subseteq Rows
  BY <1>1, PoolFacts
<1>3. job'.step # "link_source"
  <2>1. Undo => Go(AfterUndo[job.step]) /\ AfterUndo[job.step] # "link_source"
    BY DEF Undo, AfterUndo
  <2>2. DropTarget => Go("drop_below") \/ job' = NoJob
    BY DEF DropTarget
  <2> QED
    BY <1>2, <2>1, <2>2, GoIs DEF NoJob
<1>4. seenTop' = top /\ seenSub' = sub
  BY <1>1, <1>2, <1>3, NextView
<1>5. Consistent(top, sub, pool, links, renamed, CountedBackups)
  BY <1>2 DEF IInv
<1>6. CountedBackups' \subseteq CountedBackups /\ renamed \subseteq renamed'
  <2>1. Step /\ ~EndLink
    BY <1>1 DEF Step, EndLink, LinkedSteps
  <2> QED
    BY <2>1, CountedFrame
<1>7. SUFFICES Consistent(top, sub, pool, links', renamed, CountedBackups)
  BY <1>1, <1>4, <1>6, StillFollowed
<1>8. Shape(top, sub, pool) /\ Agree(top, sub, pool, links, renamed)
      /\ Referenced(pool, links, Pools)
  BY <1>5 DEF Consistent
<1>9. \A q \in Pools, c \in Backups, y \in XS : Has(links', q, c, y) => Has(links, q, c, y)
  BY DEF Undo, DropTarget, Has
<1>10. ASSUME \A q \in Pools, c \in Backups, y \in XS :
                 Has(links, q, c, y) /\ ~Has(links', q, c, y) => ~Live(pool, q)
       PROVE  Consistent(top, sub, pool, links', renamed, CountedBackups)
  <2>1. Referenced(pool, links', Pools)
    BY <1>8, <1>10 DEF Referenced, XS
  <2>2. /\ \A q \in Pools, c \in Backups :
              Has(links, q, c, "d") /\ Live(pool, q) /\ top[c] = q => Has(links', q, c, "d")
        /\ \A q \in Pools, c \in Backups :
              ~(Has(links, q, c, "s") /\ Live(pool, q) /\ ~Has(links', q, c, "s"))
    BY <1>10 DEF XS
  <2> QED
    BY <1>5, <1>9, <2>1, <2>2, RowsFewer
<1>11. ASSUME \A q \in Pools, c \in Backups, y \in XS :
                 Has(links, q, c, y) /\ ~Has(links', q, c, y) =>
                    /\ c = job.b /\ y = "s" => Has(links', q, last, "s")
                    /\ c = job.b /\ (y = "d" => Has(links', q, last, "d")),
              \A q \in Pools, y \in XS : Has(links, q, job.b, y) /\ ~Has(links', q, job.b, y) =>
                 /\ top[job.b] # q
                 /\ y = "s" => /\ ~(top[job.b] = "dir" /\ sub[job.b] = q) /\ top[job.b] \notin Pools
                               /\ \A p \in Pools : Reached(top, pool, p) => ~Has(links', p, job.b, "d")
       PROVE  Consistent(top, sub, pool, links', renamed, CountedBackups)
  <2>1. Referenced(pool, links', Pools)
    <3> SUFFICES ASSUME NEW q \in Pools, Live(pool, q)
                 PROVE \E c \in Backups : Has(links', q, c, "d") \/ Has(links', q, c, "s")
      BY DEF Referenced
    <3>1. PICK c \in Backups : Has(links, q, c, "d") \/ Has(links, q, c, "s")
      BY <1>8 DEF Referenced
    <3>2. CASE Has(links, q, c, "d")
      BY <1>2, <1>11, <3>2 DEF XS
    <3>3. CASE Has(links, q, c, "s")
      BY <1>2, <1>11, <3>3 DEF XS
    <3> QED
      BY <3>1, <3>2, <3>3
  <2>2. \A q \in Pools, c \in Backups :
              Has(links, q, c, "d") /\ Live(pool, q) /\ top[c] = q => Has(links', q, c, "d")
    BY <1>11 DEF XS
  <2>3. \A q \in Pools, c \in Backups :
              Has(links, q, c, "s") /\ Live(pool, q) /\ ~Has(links', q, c, "s") =>
                 /\ ~(top[c] = "dir" /\ sub[c] = q)
                 /\ top[c] \notin Pools
                 /\ \A p \in Pools : Reached(top, pool, p) => ~Has(links', p, c, "d")
    BY <1>11 DEF XS
  <2> QED
    BY <1>5, <1>9, <2>1, <2>2, <2>3, RowsFewer
<1>12. CASE Undo
  <2>1. /\ job.step \in UndoSteps \ {"undo_journal"} /\ links' = links \ UndoRows[job.step]
    BY <1>12 DEF Undo, AfterUndo, UndoSteps
  <2>2. AtSource(job.x) /\ ~Live(pool, job.p) /\ \A c \in Backups : top[c] # job.p
    BY <1>1, <2>1 DEF IInv, PoolJob
  <2>3. /\ \A q \in Pools : Has(links, q, job.b, "d") => job.x = "d" /\ q = job.p
        /\ \A q \in Pools : Has(links, q, job.b, "s") =>
              IF job.x = "d" THEN Has(links, q, last, "s") ELSE q = job.p
    BY <2>1 DEF IInv, UndoJob
  <2>4. CASE job.step = "undo_parents"
    <3>1. links' = links \ ParentRows(links, last, job.x, job.p)
      BY <2>1, <2>4 DEF UndoRows
    <3>2. \A q \in Pools, c \in Backups, y \in XS :
             Has(ParentRows(links, last, job.x, job.p), q, c, y) => q = job.p
      BY <1>2, HasParent
    <3>3. \A q \in Pools, c \in Backups, y \in XS :
             Has(links, q, c, y) /\ ~Has(links', q, c, y) => ~Live(pool, q)
      BY <2>2, <3>1, <3>2 DEF Has
    <3> QED
      BY <1>10, <3>3
  <2>5. CASE job.step = "undo_source"
    <3>1. links' = links \ RowsAt(last, {job.x})
      BY <2>1, <2>5 DEF UndoRows
    <3>2. \A q \in Pools, c \in Backups, y \in XS :
             Has(links', q, c, y) <=> Has(links, q, c, y) /\ ~(c = last /\ y \in {job.x})
      BY <3>1, HasMinus
    <3>3. ASSUME NEW q \in Pools, Has(links, q, last, job.x) PROVE ~Live(pool, q)
      BY <1>2, <1>8, <2>2, <3>3, Names DEF Agree, Reached, AtSource, XS
    <3>4. \A q \in Pools, c \in Backups, y \in XS :
             Has(links, q, c, y) /\ ~Has(links', q, c, y) => ~Live(pool, q)
      BY <3>2, <3>3
    <3> QED
      BY <1>10, <3>4
  <2>6. CASE job.step = "undo_below"
    <3>1. links' = links \ RowsAt(job.b, Below(job.x))
      BY <2>1, <2>6 DEF UndoRows
    <3>2. \A q \in Pools, c \in Backups, y \in XS :
             Has(links', q, c, y) <=> Has(links, q, c, y) /\ ~(c = job.b /\ y \in Below(job.x))
      BY <3>1, HasMinus
    <3>3. \A q \in Pools, c \in Backups, y \in XS :
             Has(links', q, c, y) <=> Has(links, q, c, y) /\ ~(c = job.b /\ job.x = "d" /\ y = "s")
      BY <3>2 DEF Below
    <3>4. job.x = "d" => top[job.b] = "none"
      BY <1>2 DEF Vacant
    <3>5. \A p \in Pools : Reached(top, pool, p) => ~Has(links, p, job.b, "d")
      BY <2>2, <2>3 DEF Reached
    <3> QED
      BY <1>2, <1>9, <1>11, <2>3, <3>3, <3>4, <3>5, Names DEF XS
  <2>7. CASE job.step = "undo_target"
    <3>1. links' = links \ RowsAt(job.b, {job.x})
      BY <2>1, <2>7 DEF UndoRows
    <3>2. \A q \in Pools, c \in Backups, y \in XS :
             Has(links', q, c, y) <=> Has(links, q, c, y) /\ ~(c = job.b /\ y \in {job.x})
      BY <3>1, HasMinus
    <3>3. ASSUME NEW q \in Pools, Has(links, q, job.b, job.x) PROVE q = job.p
      BY <1>2, <2>3, <3>3 DEF XS
    <3>4. \A q \in Pools, c \in Backups, y \in XS :
             Has(links, q, c, y) /\ ~Has(links', q, c, y) => ~Live(pool, q)
      BY <2>2, <3>2, <3>3
    <3> QED
      BY <1>10, <3>4
  <2> QED
    BY <2>1, <2>4, <2>5, <2>6, <2>7 DEF UndoSteps
<1>13. CASE DropTarget /\ job.step = "drop_target"
  <2>1. links' = links \ RowsAt(job.b, {job.x})
    BY <1>13 DEF DropTarget
  <2>2. \A q \in Pools, c \in Backups, y \in XS :
           Has(links', q, c, y) <=> Has(links, q, c, y) /\ ~(c = job.b /\ y \in {job.x})
    BY <2>1, HasMinus
  <2>3. PoolRows(links, last, top[last], job.b, job.x, job.p)
    BY <1>1, <1>13 DEF IInv, RowsJob
  <2>4. /\ \A q \in Pools : Has(links, q, job.b, job.x) => q = job.p
        /\ Has(links, job.p, last, job.x)
        /\ job.x = "s" => \A q \in Pools : ~Has(links, q, job.b, "d")
    BY <1>2, <2>3 DEF PoolRows, XS
  <2>5. IF job.x = "d" THEN top[job.b] = "none" ELSE top[job.b] = "dir" /\ sub[job.b] = "none"
    BY <1>2 DEF Vacant
  <2>6. Has(links', job.p, last, job.x)
    BY <1>2, <2>2, <2>4
  <2>7. ASSUME NEW q \in Pools, NEW c \in Backups, NEW y \in XS, Has(links, q, c, y),
               ~Has(links', q, c, y)
        PROVE  c = job.b /\ y = job.x /\ q = job.p
    BY <2>2, <2>4, <2>7
  <2> QED
    BY <1>2, <1>9, <1>11, <2>4, <2>5, <2>6, <2>7, Names DEF XS
<1>14. CASE DropTarget /\ job.step = "drop_below"
  <2>1. links' = links \ RowsAt(job.b, Below(job.x))
    BY <1>14 DEF DropTarget
  <2>2. \A q \in Pools, c \in Backups, y \in XS :
           Has(links', q, c, y) <=> Has(links, q, c, y) /\ ~(c = job.b /\ y \in Below(job.x))
    BY <2>1, HasMinus
  <2>3. \A q \in Pools, c \in Backups, y \in XS :
           Has(links', q, c, y) <=> Has(links, q, c, y) /\ ~(c = job.b /\ job.x = "d" /\ y = "s")
    BY <2>2 DEF Below
  <2>4. /\ \A q \in Pools : ~Has(links, q, job.b, "d")
        /\ \A q \in Pools : Has(links, q, job.b, "s") => job.x = "d" /\ Has(links, q, last, "s")
    BY <1>1, <1>14 DEF IInv, RowsJob
  <2>5. job.x = "d" => top[job.b] = "none"
    BY <1>2 DEF Vacant
  <2> QED
    BY <1>2, <1>9, <1>11, <2>3, <2>4, <2>5, Names DEF XS
<1> QED
  BY <1>12, <1>13, <1>14 DEF DropTarget

\* Every step of link_directory_pool.
LEMMA LinkFollowed ==
    ASSUME IInv, LinkStep, TypeOK', Journal', Linking'
    PROVE  Followed'
BY LinkedFollowed, RenameFollowed, SourceFollowed, TargetFollowed, RowsBackFollowed DEF LinkStep

\* Every step of a deletion.
LEMMA RemoveFollowed ==
    ASSUME IInv, FiniteTables, RemoveStep, TypeOK', Journal', Linking'
    PROVE  Followed'
<1>1. job.step \in RemoveSteps /\ job.step # "link_source"
  BY DEF RemoveStep, ScanFolder, RemoveRow, EmptyPool, UnlinkNested, RemovePool, Unlink, EndRemove,
         RemoveSteps
<1>2. /\ up /\ job.b \in Backups /\ job.x \in XS /\ (job.step # "scan" => job.p \in Pools)
      /\ Values(top, sub, pool) /\ links \subseteq Rows /\ tx \subseteq Rows /\ TypeOK
      /\ seenTop = top /\ seenSub = sub
      /\ Consistent(top, sub, pool, links, renamed, CountedBackups)
  BY <1>1, DeleteFacts
<1>3. Shape(top, sub, pool) /\ Agree(top, sub, pool, links, renamed) /\ RemoveJob /\ RemoveTx
  BY <1>2 DEF Consistent, IInv
<1>4. Step /\ ~EndLink
  BY <1>1 DEF RemoveStep, Step, EndLink, RemoveSteps
<1>5. CountedBackups' \subseteq CountedBackups /\ renamed \subseteq renamed'
  BY <1>4, CountedFrame
<1>6. up' = up
  BY DEF RemoveStep, ScanFolder, RemoveLink, RemoveRow, EmptyPool, UnlinkNested, RemovePool, Unlink,
         EndRemove
<1>7. job'.step # "link_source"
  <2>1. \A x : RemoveLink(job.b, x) => job'.step = "row"
    BY <1>2 DEF RemoveLink, TypeOK
  <2>2. ScanFolder => job'.step # "link_source"
    BY <2>1 DEF ScanFolder, NoJob
  <2>3. \A step : Go(step) => job'.step = step
    BY <1>2, GoIs
  <2> QED
    BY <2>2, <2>3 DEF RemoveStep, RemoveRow, EmptyPool, UnlinkNested, RemovePool, Unlink, EndRemove
<1>8. seenTop' = top' /\ seenSub' = sub'
  BY <1>2, <1>6, <1>7, NextView
<1>9. ASSUME UNCHANGED <<top, sub, pool, links>> PROVE Followed'
  BY <1>1, <1>2, <1>4, <1>6, <1>7, <1>9, FollowedFrame
<1>10. ASSUME Consistent(top', sub', pool', links', renamed, CountedBackups) PROVE Followed'
  BY <1>5, <1>8, <1>10, StillFollowed
<1>11. Values(top', sub', pool')
  BY DEF Values, TypeOK
<1>12. CASE ScanFolder
  <2>1. CASE /\ sub' = [sub EXCEPT ![job.b] = "none"]
             /\ top' = IF sub[job.b] = "none" THEN [top EXCEPT ![job.b] = "none"] ELSE top
             /\ UNCHANGED <<pool, links>>
    <3>1. \A b \in Backups : top'[b] \in {top[b], "none"}
      BY <1>2, <2>1 DEF Values
    <3>2. \A c \in Backups \cup Pools : sub'[c] \in {sub[c], "none"}
      BY <1>2, <2>1 DEF Values
    <3>3. ASSUME NEW b \in Backups, top'[b] # "dir" PROVE sub'[b] = "none"
      <4>1. CASE b = job.b
        BY <1>2, <2>1, <4>1 DEF Values
      <4>2. CASE b # job.b
        <5>1. top'[b] = top[b]
          BY <1>2, <2>1, <4>2 DEF Values
        <5> QED
          BY <1>3, <3>2, <3>3, <5>1 DEF Shape
      <4> QED
        BY <4>1, <4>2
    <3>4. Consistent(top', sub', pool, links, renamed, CountedBackups)
      <4>1. Values(top', sub', pool)
        BY <1>11, <2>1
      <4>2. \A b \in Backups : top'[b] # "dir" => sub'[b] = "none"
        BY <3>3
      <4> QED
        BY <1>2, <3>1, <3>2, <4>1, <4>2, Unlinked
    <3> QED
      BY <1>10, <2>1, <3>4
  <2>2. UNCHANGED <<top, sub, pool, links>> \/
          /\ sub' = [sub EXCEPT ![job.b] = "none"]
          /\ top' = IF sub[job.b] = "none" THEN [top EXCEPT ![job.b] = "none"] ELSE top
          /\ UNCHANGED <<pool, links>>
    BY <1>12 DEF ScanFolder, RemoveLink, files, tables
  <2> QED
    BY <1>9, <2>1, <2>2
<1>13. CASE RemoveRow
  BY <1>9, <1>13 DEF RemoveRow, files
<1>14. CASE EmptyPool
  <2>1. /\ \A r \in Pools : pool'[r] \in {pool[r], "partial", "gone"}
        /\ \A r \in Pools : Live(pool', r) => Live(pool, r)
        /\ \A r \in Pools : Live(pool, r) /\ ~Live(pool', r) => sub[r] = "none"
    BY <1>14, PoolEmptied
  <2>2. \A r \in Pools : pool'[r] = "unused" => pool[r] = "unused"
    BY <2>1
  <2>3. UNCHANGED <<top, sub, links>>
    BY <1>14 DEF EmptyPool
  <2>4. Consistent(top, sub, pool', links, renamed, CountedBackups)
    BY <1>2, <2>1, <2>2, PoolsGo
  <2> QED
    BY <1>10, <2>3, <2>4
<1>15. CASE UnlinkNested
  <2>1. sub' = [sub EXCEPT ![job.p] = "none"] /\ UNCHANGED <<top, pool, links>> /\ job.p \in Pools
    BY <1>2, <1>15 DEF UnlinkNested, tables
  <2>2. \A c \in Backups \cup Pools : sub'[c] \in {sub[c], "none"}
    BY <1>2, <2>1 DEF Values
  <2>3. \A b \in Backups : top'[b] # "dir" => sub'[b] = "none"
    BY <1>2, <1>3, <2>1, <2>2 DEF Shape
  <2>4. \A b \in Backups : top'[b] \in {top[b], "none"}
    BY <2>1
  <2>5. Consistent(top', sub', pool, links, renamed, CountedBackups)
    BY <1>2, <1>11, <2>1, <2>2, <2>3, <2>4, Unlinked
  <2> QED
    BY <1>10, <2>1, <2>5
<1>16. CASE RemovePool
  <2>1. /\ pool' = [pool EXCEPT ![job.p] = "gone"] /\ UNCHANGED <<top, sub, links>>
        /\ job.p \in Pools /\ job.step = "rmdir"
    BY <1>2, <1>16 DEF RemovePool, tables
  <2>2. sub[job.p] = "none"
    BY <1>1, <1>3, <2>1 DEF RemoveJob
  <2>3. \A r \in Pools : pool'[r] = IF r = job.p THEN "gone" ELSE pool[r]
    BY <1>2, <2>1 DEF Values
  <2>4. /\ \A r \in Pools : Live(pool', r) => Live(pool, r)
        /\ \A r \in Pools : Live(pool, r) /\ ~Live(pool', r) => sub[r] = "none"
        /\ \A r \in Pools : pool'[r] = "unused" => pool[r] = "unused"
    BY <2>2, <2>3 DEF Live
  <2>5. Consistent(top, sub, pool', links, renamed, CountedBackups)
    BY <1>2, <2>4, PoolsGo
  <2> QED
    BY <1>10, <2>1, <2>5
<1>17. CASE Unlink
  <2>1. /\ Place(job.b, job.x, "none") /\ UNCHANGED <<pool, links>> /\ job.step = "unlink"
    BY <1>17 DEF Unlink, tables
  <2>2. AtLink /\ job.p \in Pools
    BY <1>1, <1>2, <1>3, <2>1 DEF RemoveJob
  <2>3. \/ top' = [top EXCEPT ![job.b] = "none"] /\ sub' = sub /\ top[job.b] \in Pools
        \/ top' = top /\ sub' = [sub EXCEPT ![job.b] = "none"]
    BY <1>2, <2>1, <2>2, Names DEF Place, Home, AtLink, XS
  <2>4. \A b \in Backups : top'[b] \in {top[b], "none"}
    BY <1>2, <2>3 DEF Values
  <2>5. \A c \in Backups \cup Pools : sub'[c] \in {sub[c], "none"}
    BY <1>2, <2>3 DEF Values
  <2>6. \A b \in Backups : top'[b] # "dir" => sub'[b] = "none"
    BY <1>2, <1>3, <2>3, Names DEF Values, Shape
  <2>7. Consistent(top', sub', pool, links, renamed, CountedBackups)
    BY <1>2, <1>11, <2>1, <2>4, <2>5, <2>6, Unlinked
  <2> QED
    BY <1>10, <2>1, <2>7
<1>18. CASE EndRemove
  <2>1. links' = tx /\ UNCHANGED <<top, sub, pool>> /\ job.step = "end_remove"
    BY <1>18 DEF EndRemove, files
  <2>2. /\ \A q \in Pools, c \in Backups \ {job.b} :
             /\ Has(tx, q, c, "d") <=> Has(links, q, c, "d")
             /\ Has(tx, q, c, "s") <=> Has(links, q, c, "s")
        /\ \A q \in Pools :
             /\ Has(tx, q, job.b, "d") => Has(links, q, job.b, "d")
             /\ Has(tx, q, job.b, "s") => Has(links, q, job.b, "s")
        /\ job.x = "s" => \A q \in Pools : Has(links, q, job.b, "d") => Has(tx, q, job.b, "d")
        /\ tx = links \/ job.b \notin renamed
        /\ job.x = "d" => tx = links \/ \A q \in Pools : ~Has(tx, q, job.b, "d")
        /\ Referenced(pool, tx, Pools)
    BY <1>1, <1>3, <2>1 DEF RemoveTx
  <2>3. IF job.x = "d" THEN top[job.b] = "none" ELSE top[job.b] = "dir" /\ sub[job.b] = "none"
    BY <1>1, <1>3, <2>1 DEF RemoveJob
  <2>4. CASE tx = links
    BY <1>2, <1>10, <2>1, <2>4
  <2>5. CASE tx # links
    <3>1. \A q \in Pools, c \in Backups, x \in XS : Has(tx, q, c, x) => Has(links, q, c, x)
      BY <2>2 DEF XS
    <3>2. \A q \in Pools, c \in Backups :
             Has(links, q, c, "d") /\ Live(pool, q) /\ top[c] = q => Has(tx, q, c, "d")
      BY <1>2, <2>2, <2>3, Names DEF XS
    <3>3. \A p \in Pools : Reached(top, pool, p) => ~Has(tx, p, job.b, "d")
      BY <1>2, <1>3, <2>2, <2>3, <2>5, Names DEF XS, Agree
    <3>4. \A q \in Pools, c \in Backups :
             Has(links, q, c, "s") /\ Live(pool, q) /\ ~Has(tx, q, c, "s") =>
                /\ ~(top[c] = "dir" /\ sub[c] = q)
                /\ top[c] \notin Pools
                /\ \A p \in Pools : Reached(top, pool, p) => ~Has(tx, p, c, "d")
      BY <1>2, <2>2, <2>3, <3>3, Names DEF XS
    <3>5. Consistent(top, sub, pool, tx, renamed, CountedBackups)
      BY <1>2, <2>2, <3>1, <3>2, <3>4, RowsFewer
    <3> QED
      BY <1>10, <2>1, <3>5
  <2> QED
    BY <2>4, <2>5
<1> QED
  BY <1>12, <1>13, <1>14, <1>15, <1>16, <1>17, <1>18 DEF RemoveStep

\* A crash and what follows it.
LEMMA DownFollowed ==
    ASSUME IInv, FiniteTables', Crash \/ RecoveryStep, TypeOK', Journal'
    PROVE  Followed'
<1>1. Step /\ ~EndLink
  <2>1. up' = FALSE \/ ~up
    BY DEF Crash, RecoveryStep, Restart, ReplayFirst, RemoveUnknown
  <2>2. EndLink => up' = up /\ up
    BY LinkFacts DEF EndLink, LinkSteps
  <2> QED
    BY <2>1, <2>2 DEF Step, RecoveryStep
<1>2. CountedBackups' \subseteq CountedBackups /\ renamed \subseteq renamed'
  BY <1>1, CountedFrame
<1>3. Consistent(seenTop, seenSub, pool, links, renamed, CountedBackups)
      /\ Values(seenTop, seenSub, pool)
  BY ViewType DEF IInv, TypeInv
<1>4. CASE Crash
  <2>1. UNCHANGED <<journal, top, sub, pool, renamed, links>>
    BY <1>4 DEF Crash, files, backups
  <2>2. seenTop' = seenTop /\ seenSub' = seenSub
    BY <2>1, ViewKept
  <2>3. Consistent(seenTop, seenSub, pool', links', renamed, CountedBackups)
    BY <1>3, <2>1
  <2> QED
    BY <1>2, <2>2, <2>3, StillFollowed
<1>5. CASE Restart \/ ReplayFirst
  <2>1. Replay /\ UNCHANGED <<pool, links>>
    BY <1>5 DEF Restart, ReplayFirst
  <2>2. top' = seenTop /\ sub' = seenSub /\ journal' = {}
    BY <2>1, ReplayView
  <2>3. seenTop' = seenTop /\ seenSub' = seenSub
    BY <2>2, ViewDone
  <2>4. Consistent(seenTop, seenSub, pool', links', renamed, CountedBackups)
    BY <1>3, <2>1
  <2> QED
    BY <1>2, <2>3, <2>4, StillFollowed
<1>6. CASE RemoveUnknown
  <2>1. PICK deep \in BOOLEAN : KeptRows(top, sub, pool, links, renamed, links', deep)
    BY <1>6, UnknownKept
  <2>2. /\ seenTop = top /\ seenSub = sub
        /\ pool' = [p \in Pools |-> IF p \in Unreferenced(pool, links') THEN "gone" ELSE pool[p]]
        /\ sub' = [c \in Backups \cup Pools |->
                     IF c \in renamed \/ c \in Unreferenced(pool, links') THEN "none" ELSE sub[c]]
        /\ top' = [b \in Backups |-> IF b \in renamed THEN "none" ELSE top[b]]
    BY <1>6, UnknownKept
  <2>3. \A c \in Backups : c \in CountedBackups => c \notin renamed
    BY DEF CountedBackups
  <2>4. Consistent(top', sub', pool', links', renamed, CountedBackups)
    BY <1>3, <2>1, <2>2, <2>3, UnknownRemoved
  <2>5. seenTop' = top' /\ seenSub' = sub'
    BY <1>6, ViewDone DEF RemoveUnknown
  <2> QED
    BY <1>2, <2>4, <2>5, StillFollowed
<1> QED
  BY <1>4, <1>5, <1>6 DEF RecoveryStep

\* Every step leaves the places and the table in agreement.
LEMMA FollowedStep ==
    ASSUME IInv, FiniteTables, FiniteTables', Step, TypeOK', Journal', Linking'
    PROVE  Followed'
BY Steps, BackupFollowed, LinkFollowed, RemoveFollowed, DownFollowed

\* What the table shows of a step in a server that runs: rows that were exact and whose place is
\* as before, and rows that are exact now.
LEMMA ExactFrame ==
    ASSUME IInv, stale' = stale, renamed' = renamed, up',
           \A b \in Backups : status[b] = "gone" => status'[b] = "gone",
           ~stale => Forgotten',
           ~stale => \A p \in Pools, b \in Backups, x \in XS :
              Has(links', p, b, x) /\ ~Exempt(p, b)' =>
                 \/ /\ Has(links, p, b, x) /\ ~Exempt(p, b)
                    /\ Shown(seenTop, seenSub, p, b, x) => Shown(seenTop', seenSub', p, b, x)
                 \/ b \notin renamed /\ Shown(seenTop', seenSub', p, b, x)
    PROVE  Exact'
<1> SUFFICES ASSUME ~stale
             PROVE /\ \A p \in Pools, b \in Backups, x \in XS :
                         Has(links', p, b, x) /\ ~Exempt(p, b)' =>
                            b \notin renamed' /\ Shown(seenTop', seenSub', p, b, x)
                   /\ \A b \in renamed' : status'[b] = "gone"
  BY DEF Exact
<1>1. /\ \A p \in Pools, b \in Backups, x \in XS : Has(links, p, b, x) /\ ~Exempt(p, b) =>
            b \notin renamed /\ Shown(seenTop, seenSub, p, b, x)
      /\ \A b \in renamed : status[b] = "gone"
      /\ renamed \subseteq Backups
  BY DEF IInv, Exact, TypeInv, TypeOK
<1> QED
  BY <1>1

\* What the table showed before.
LEMMA ExactNow ==
    ASSUME IInv, ~stale, NEW p \in Pools, NEW b \in Backups, NEW x \in XS, Has(links, p, b, x),
           ~Exempt(p, b)
    PROVE  b \notin renamed /\ Shown(seenTop, seenSub, p, b, x)
BY DEF IInv, Exact

\* A step that is neither of a deletion nor of a link.
LEMMA NotForgotten ==
    ASSUME job'.step \notin RemoveSteps \ {"scan", "row"}
    PROVE  Forgotten'
BY DEF Forgotten, ForgottenSteps, RemoveSteps

\* The steps of a backup.
LEMMA BackupExact ==
    ASSUME IInv, BackupStep, TypeOK', Journal', Linking'
    PROVE  Exact'
<1>1. PICK b \in Backups :
         \/ StartBackup(b) \/ FinishBackup(b) \/ FailBackup(b) \/ DeleteBackup(b)
         \/ \E x \in {"d", "s"} : Copy(b, x)
  BY DEF BackupStep
<1>2. job.step \notin LinkSteps /\ up
  BY <1>1, NotLinking DEF StartBackup, FinishBackup, FailBackup, DeleteBackup, Copy
<1>3. /\ seenTop = top /\ seenSub = sub /\ TypeOK /\ Values(top, sub, pool)
      /\ status \in [Backups -> {"unused", "running", "done", "failed", "gone"}]
  BY <1>2, ViewUp, ViewType DEF IInv, TypeInv, TypeOK, LinkSteps
<1>4. UNCHANGED <<pool, links, tx, up, stale, renamed>>
  BY <1>1 DEF StartBackup, FinishBackup, FailBackup, DeleteBackup, Copy, files, tables, backups
<1>5. job' = job \/ (job.step = "none" /\ job'.step = "scan")
  BY <1>1 DEF StartBackup, FinishBackup, FailBackup, DeleteBackup, Copy, Idle, NoJob
<1>6. seenTop' = top' /\ seenSub' = sub'
  BY <1>2, <1>4, <1>5, NextView DEF LinkSteps
<1>7. \A c \in Backups : status[c] = "gone" => status'[c] = "gone"
  BY <1>1, <1>3 DEF StartBackup, FinishBackup, FailBackup, DeleteBackup, Copy, Running, backups
<1>8. \A p \in Pools, c \in Backups : Exempt(p, c)' <=> Exempt(p, c)
  BY <1>5 DEF Exempt, PoolSteps, ForgottenSteps, LinkSteps
<1>9. ASSUME UNCHANGED <<top, sub>> PROVE Exact'
  <2>1. ~stale => Forgotten'
    BY <1>3, <1>4, <1>5, <1>6, <1>9 DEF IInv, Exact, Forgotten, ForgottenSteps, Shown, Clean
  <2> QED
    BY <1>2, <1>3, <1>4, <1>6, <1>7, <1>8, <1>9, <2>1, ExactFrame
<1>10. ASSUME NEW x \in {"d", "s"}, Copy(b, x) PROVE Exact'
  <2>1. Open(b, x) /\ Place(b, x, "dir") /\ job' = job
    BY <1>10 DEF Copy
  <2>2. Clean(links, b) /\ Running(b)
    BY <1>2, <2>1, OpenClean DEF XS
  <2>3. ASSUME NEW c \in Backups \ {b}
        PROVE top'[c] = top[c] /\ Sees(top', sub', c) = Sees(top, sub, c)
    BY <1>3, <2>1, Names DEF Open, Place, Home, Sees, Values
  <2>4. job.step \in RemoveSteps => job.b \in Backups \ {b}
    BY <2>2, RemoveFacts
  <2>5. ~stale => Forgotten'
    BY <1>3, <1>4, <1>6, <2>1, <2>3, <2>4
       DEF IInv, Exact, Forgotten, ForgottenSteps, RemoveSteps, Shown, Clean
  <2>6. \A p \in Pools, c \in Backups, y \in XS :
           Has(links', p, c, y) /\ Shown(seenTop, seenSub, p, c, y) =>
               Shown(seenTop', seenSub', p, c, y)
    BY <1>3, <1>4, <1>6, <2>2, <2>3 DEF Shown, Clean, XS
  <2> QED
    BY <1>2, <1>4, <1>7, <1>8, <2>5, <2>6, ExactFrame
<1> QED
  BY <1>1, <1>9, <1>10 DEF StartBackup, FinishBackup, FailBackup, DeleteBackup, files

\* The steps of link_directory_pool, whose source is a link.
LEMMA LinkedExact ==
    ASSUME IInv, \/ \E b \in Backups, x \in {"d", "s"} : LinkLinked(b, x)
                 \/ LinkTargetInTx \/ EndLink,
           TypeOK', Journal', Linking'
    PROVE  Exact'
<1>1. TypeOK /\ Values(top, sub, pool) /\ links \subseteq Rows /\ tx \subseteq Rows
  BY DEF IInv, TypeInv, TypeOK, Values
<1>2. ASSUME NEW b \in Backups, NEW x \in {"d", "s"}, LinkLinked(b, x) PROVE Exact'
  <2>1. /\ up /\ job = NoJob /\ job'.step = "symlink"
        /\ UNCHANGED <<backups, top, sub, pool, links, up, stale>>
    BY <1>2 DEF LinkLinked, Idle, files
  <2>2. seenTop = top /\ seenSub = sub
    BY <1>1, <2>1, ViewUp DEF IInv, NoJob
  <2>3. seenTop' = top /\ seenSub' = sub
    BY <2>1, NextView
  <2>4. \A p \in Pools, c \in Backups : ~Exempt(p, c)
    BY <2>1 DEF Exempt, NoJob, PoolSteps, ForgottenSteps, LinkSteps
  <2>5. Forgotten'
    BY <2>1, NotForgotten DEF RemoveSteps
  <2> QED
    BY <2>1, <2>2, <2>3, <2>4, <2>5, ExactFrame DEF backups
<1>3. ASSUME LinkTargetInTx PROVE Exact'
  <2>1. /\ job.step = "symlink" /\ job.step \in LinkSteps
        /\ Place(job.b, job.x, job.p) \/ UNCHANGED <<top, sub>>
        /\ Go("end_link") /\ UNCHANGED <<backups, pool, links, up, stale>>
    BY <1>3 DEF LinkTargetInTx, LinkSteps
  <2>2. job'.step = "end_link" /\ job'.b = job.b
    BY <1>1, <2>1, GoIs
  <2>3. /\ job.b \in Backups \ renamed /\ job.p \in Pools /\ job.x \in XS /\ up
        /\ Vacant(job.b, job.x) /\ Clean(links, job.b)
    BY <2>1, LinkFacts DEF IInv, LinkedJob, LinkedSteps
  <2>4. seenTop = top /\ seenSub = sub
    BY <1>1, <2>1, <2>3, ViewUp DEF IInv
  <2>5. seenTop' = top' /\ seenSub' = sub'
    BY <2>1, <2>2, <2>3, NextView
  <2>6. \A p \in Pools, c \in Backups : ~Exempt(p, c)
    BY <2>1 DEF Exempt, PoolSteps, ForgottenSteps, LinkedSteps
  <2>7. Forgotten'
    BY <2>2, NotForgotten DEF RemoveSteps
  <2>8. ASSUME NEW c \in Backups \ {job.b}
        PROVE top'[c] = top[c] /\ Sees(top', sub', c) = Sees(top, sub, c)
    BY <1>1, <2>1, <2>3, Names DEF Vacant, Place, Home, Sees, Values, XS
  <2>9. \A p \in Pools, c \in Backups, y \in XS :
           Has(links', p, c, y) /\ Shown(seenTop, seenSub, p, c, y) =>
               Shown(seenTop', seenSub', p, c, y)
    BY <2>1, <2>3, <2>4, <2>5, <2>8 DEF Shown, Clean, XS
  <2> QED
    BY <2>1, <2>3, <2>6, <2>7, <2>9, ExactFrame DEF backups
<1>4. ASSUME EndLink PROVE Exact'
  <2>1. /\ job.step = "end_link" /\ job.step \in LinkSteps /\ job.step # "link_source"
        /\ links' = tx /\ job' = NoJob /\ UNCHANGED <<backups, top, sub, pool, up, stale>>
    BY <1>4 DEF EndLink, LinkSteps, files
  <2>2. /\ job.b \in Backups \ renamed /\ job.p \in Pools /\ job.x \in XS /\ up
        /\ last \in Backups \ renamed /\ job.b # last
    BY <2>1, LinkFacts
  <2>3. seenTop = top /\ seenSub = sub
    BY <1>1, <2>1, <2>2, ViewUp DEF IInv
  <2>4. seenTop' = top /\ seenSub' = sub
    BY <2>1, <2>2, NextView DEF NoJob
  <2>5. \A p \in Pools, c \in Backups : ~Exempt(p, c)
    BY <2>1 DEF Exempt, PoolSteps, ForgottenSteps, LinkedSteps
  <2>6. Forgotten'
    BY <2>1, NotForgotten DEF RemoveSteps, NoJob
  <2>7. /\ IF job.x = "d" THEN top[last] = job.p ELSE Sees(top, sub, last) = job.p
        /\ \/ /\ WithTarget(links, tx, last, job.b, job.x, job.p)
              /\ IF job.x = "d" THEN top[job.b] = job.p ELSE top[job.b] = "dir" /\ sub[job.b] = job.p
           \/ tx = links
    BY <2>1 DEF IInv, LinkedJob, LinkedSteps
  <2>8. CASE tx = links
    BY <2>1, <2>2, <2>3, <2>4, <2>5, <2>6, <2>8, ExactFrame DEF backups
  <2>9. CASE /\ WithTarget(links, tx, last, job.b, job.x, job.p)
             /\ IF job.x = "d" THEN top[job.b] = job.p ELSE top[job.b] = "dir" /\ sub[job.b] = job.p
    <3>1. ~stale => \A q \in Pools : Has(links, q, last, "s") => Sees(top, sub, last) = q
      BY <2>2, <2>3, <2>5, ExactNow DEF Shown, XS
    <3>2. ASSUME ~stale, NEW q \in Pools, NEW c \in Backups, NEW y \in XS, Has(tx, q, c, y),
                 ~Has(links, q, c, y)
          PROVE  c = job.b /\ Shown(top, sub, q, c, y)
      BY <2>2, <2>7, <2>9, <3>1, <3>2, Names DEF WithTarget, Shown, Sees, XS
    <3> QED
      BY <2>1, <2>2, <2>3, <2>4, <2>5, <2>6, <3>2, ExactFrame DEF backups
  <2> QED
    BY <2>7, <2>8, <2>9
<1> QED
  BY <1>2, <1>3, <1>4

\* An operation whose directory goes into the pool: what it exempts, and that it removes nothing.
LEMMA PoolExempt ==
    ASSUME IInv, job.step \in PoolSteps, job'.step \in PoolSteps \cup {"none"},
           job'.step \in PoolSteps => job'.b = job.b /\ job'.p = job.p
    PROVE  /\ Forgotten'
           /\ job'.step \in PoolSteps => \A p \in Pools, b \in Backups : Exempt(p, b)' <=> Exempt(p, b)
           /\ job'.step = "none" => \A p \in Pools, b \in Backups : ~Exempt(p, b)'
           /\ \A p \in Pools, b \in Backups : Exempt(p, b) <=> p = job.p \/ b = job.b
<1>1. PoolSteps \cap RemoveSteps = {} /\ "none" \notin RemoveSteps /\ "none" \notin PoolSteps
      /\ ForgottenSteps \subseteq RemoveSteps
  BY DEF PoolSteps, LinkSteps, RemoveSteps, ForgottenSteps
<1>2. Forgotten'
  BY <1>1, NotForgotten
<1> QED
  BY <1>1, <1>2 DEF Exempt

\* The rows are committed.
LEMMA CommitExact ==
    ASSUME IInv, \/ \E b \in Backups, x \in {"d", "s"} : LinkPlain(b, x)
                 \/ CommitRows,
           TypeOK', Journal', Linking'
    PROVE  Exact'
<1>1. TypeOK
  BY DEF IInv, TypeInv
<1>2. ASSUME NEW b \in Backups, NEW x \in {"d", "s"}, LinkPlain(b, x) PROVE Exact'
  <2>1. /\ up /\ job = NoJob /\ job'.step = "commit"
        /\ UNCHANGED <<backups, top, sub, pool, links, up, stale>>
    BY <1>2 DEF LinkPlain, Idle, files
  <2>2. seenTop = top /\ seenSub = sub
    BY <1>1, <2>1, ViewUp DEF IInv, NoJob
  <2>3. seenTop' = top /\ seenSub' = sub
    BY <2>1, NextView
  <2>4. \A p \in Pools, c \in Backups : ~Exempt(p, c)
    BY <2>1 DEF Exempt, NoJob, PoolSteps, ForgottenSteps, LinkSteps
  <2>5. Forgotten'
    BY <2>1, NotForgotten DEF RemoveSteps
  <2> QED
    BY <2>1, <2>2, <2>3, <2>4, <2>5, ExactFrame DEF backups
<1>3. ASSUME CommitRows PROVE Exact'
  <2>1. /\ job.step = "commit" /\ job.step \in LinkSteps \ LinkedSteps /\ links' = tx
        /\ Go("rename") /\ UNCHANGED <<backups, top, sub, pool, up, stale>>
    BY <1>3 DEF CommitRows, LinkSteps, LinkedSteps, files
  <2>2. /\ job.b \in Backups \ renamed /\ job.p \in Pools /\ job.x \in XS /\ up
        /\ seenTop = top /\ seenSub = sub
    BY <2>1, PoolFacts
  <2>3. WithPool(links, tx, last, top[last], job.b, job.x, job.p)
    BY <2>1 DEF IInv, RowsJob
  <2>4. job'.step = "rename" /\ job'.b = job.b /\ job'.p = job.p
    BY <1>1, <2>1, GoIs
  <2>5. seenTop' = top /\ seenSub' = sub
    BY <2>1, <2>2, <2>4, NextView
  <2>6. \A p \in Pools, c \in Backups : ~Exempt(p, c)
    BY <2>1 DEF Exempt, PoolSteps, ForgottenSteps
  <2>7. \A p \in Pools, c \in Backups : Exempt(p, c)' <=> p = job.p \/ c = job.b
    BY <2>4 DEF Exempt, PoolSteps, ForgottenSteps, LinkSteps, LinkedSteps
  <2>8. Forgotten'
    BY <2>4, NotForgotten DEF RemoveSteps
  <2>9. \A p \in Pools, c \in Backups, y \in XS :
           Has(links', p, c, y) /\ ~(p = job.p \/ c = job.b) => Has(links, p, c, y)
    BY <2>1, <2>3 DEF WithPool, XS
  <2> QED
    BY <2>1, <2>2, <2>5, <2>6, <2>7, <2>8, <2>9, ExactFrame DEF backups
<1> QED
  BY <1>2, <1>3

\* The directory moves: no row was for a place of it, but those of the operation.
LEMMA MoveExact ==
    ASSUME IInv, Rename \/ LinkSource \/ LinkSourceFails, TypeOK', Journal', Linking'
    PROVE  Exact'
<1>1. /\ job.step \in {"rename", "link_source"} /\ job.step \in LinkSteps \ LinkedSteps
      /\ job.step \in PoolSteps /\ UNCHANGED <<backups, links, up, stale>>
  BY DEF Rename, LinkSource, LinkSourceFails, LinkSteps, LinkedSteps, PoolSteps, tables
<1>2. /\ job.b \in Backups \ renamed /\ job.p \in Pools /\ job.x \in XS /\ up
      /\ Vacant(job.b, job.x) /\ last \in Backups \ renamed /\ job.b # last
      /\ Values(top, sub, pool) /\ TypeOK /\ links \subseteq Rows
      /\ job.step # "link_source" => seenTop = top /\ seenSub = sub
  BY <1>1, PoolFacts
<1>3. /\ job'.step \in {"link_source", "forget", "undo_parents"}
      /\ job'.b = job.b /\ job'.x = job.x /\ job'.p = job.p /\ last' = last
  BY <1>2, GoIs DEF Rename, LinkSource, LinkSourceFails, backups
<1>4. /\ Forgotten'
      /\ \A p \in Pools, b \in Backups : Exempt(p, b)' <=> Exempt(p, b)
      /\ \A p \in Pools, b \in Backups : Exempt(p, b) <=> p = job.p \/ b = job.b
  <2>1. job'.step \in PoolSteps
    BY <1>3 DEF PoolSteps, LinkSteps, LinkedSteps
  <2> QED
    BY <1>1, <1>3, <2>1, PoolExempt
<1>5. SUFFICES ASSUME ~stale, NEW p \in Pools \ {job.p}, NEW b \in Backups \ {job.b}, NEW x \in XS,
                      Shown(seenTop, seenSub, p, b, x)
               PROVE  Shown(seenTop', seenSub', p, b, x)
  BY <1>1, <1>2, <1>4, ExactFrame DEF backups
<1>6. p # "none" /\ p # "dir" /\ job.p # "none" /\ job.p # "dir" /\ last \notin Pools
      /\ b \notin Pools
  BY <1>2, Names
<1>7. job.step = "rename" => AtSource(job.x) /\ pool[job.p] = "unused"
  BY <1>1 DEF IInv, PoolJob
<1>8. /\ job.step = "link_source" /\ job.x = "d" => seenTop = [top EXCEPT ![last] = job.p] /\ seenSub = sub
      /\ job.step = "link_source" /\ job.x = "s" =>
            seenTop = top /\ seenSub = [sub EXCEPT ![HomeOf(top, last)] = job.p]
  BY <1>2, ViewSource DEF IInv
<1>9. CASE Rename
  <2>1. job.step = "rename" /\ job'.step = "link_source"
    BY <1>2, <1>9, GoIs DEF Rename
  <2>2. /\ job.x = "d" => seenTop' = [top' EXCEPT ![last] = job.p] /\ seenSub' = sub'
        /\ job.x = "s" => seenTop' = top' /\ seenSub' = [sub' EXCEPT ![HomeOf(top', last)] = job.p]
    BY <1>3, <2>1, ViewSourceNext DEF Linking
  <2>3. \A c \in Backups : top[c] # job.p
    <3>1. Shape(top, sub, pool)
      BY <1>2, <2>1 DEF IInv, Consistent
    <3> QED
      BY <1>2, <1>7, <2>1, <3>1 DEF Shape
  <2>4. CASE job.x = "d"
    <3>1. /\ top' = [top EXCEPT ![last] = "none"]
          /\ sub' = [sub EXCEPT ![job.p] = sub[last], ![last] = "none"]
      BY <1>9, <2>4 DEF Rename
    <3>2. top[last] = "dir"
      BY <1>7, <2>1, <2>4 DEF AtSource
    <3>3. seenTop'[b] = IF b = last THEN job.p ELSE top[b]
      BY <1>2, <2>2, <2>4, <3>1 DEF Values
    <3>4. \A c \in Backups \cup Pools :
             seenSub'[c] = IF c = last THEN "none" ELSE IF c = job.p THEN sub[last] ELSE sub[c]
      BY <1>2, <1>6, <2>2, <2>4, <3>1 DEF Values
    <3>5. CASE b = last
      BY <1>2, <1>5, <1>6, <2>1, <3>2, <3>3, <3>4, <3>5, Names DEF Shown, Sees, XS
    <3>6. CASE b # last
      BY <1>2, <1>5, <1>6, <2>1, <2>3, <3>3, <3>4, <3>6, Names DEF Shown, Sees, XS
    <3> QED
      BY <3>5, <3>6
  <2>5. CASE job.x = "s"
    <3>1. top' = top /\ sub' = [sub EXCEPT ![HomeOf(top, last)] = "none"]
      BY <1>9, <2>5 DEF Rename, Place, Home, HomeOf
    <3>2. sub[HomeOf(top, last)] = "dir" /\ HomeOf(top, last) \in Backups \cup Pools
      BY <1>2, <1>7, <2>1, <2>5 DEF AtSource, Sees, HomeOf
    <3>3. \A c \in Backups \cup Pools :
             seenSub'[c] = IF c = HomeOf(top, last) THEN job.p ELSE sub[c]
      BY <1>2, <2>2, <2>5, <3>1, <3>2 DEF Values
    <3> QED
      BY <1>2, <1>5, <1>6, <2>1, <2>2, <2>5, <3>1, <3>2, <3>3 DEF Shown, Sees, XS
  <2> QED
    BY <1>2, <2>4, <2>5 DEF XS
<1>10. ASSUME LinkSource \/ LinkSourceFails PROVE seenTop' = top' /\ seenSub' = sub'
              /\ job.step = "link_source"
  <2>1. job'.step # "link_source" /\ job.step = "link_source"
    <3>1. LinkSource => job'.step = "forget" /\ job.step = "link_source"
      BY <1>2, GoIs DEF LinkSource
    <3>2. LinkSourceFails => job'.step = "undo_parents" /\ job.step = "link_source"
      BY <1>2, GoIs DEF LinkSourceFails
    <3> QED
      BY <1>10, <3>1, <3>2
  <2> QED
    BY <1>1, <1>2, <2>1, NextView
<1>11. CASE LinkSource
  <2>1. Place(last, job.x, job.p)
    BY <1>11 DEF LinkSource
  <2>2. top' = seenTop /\ sub' = seenSub
    BY <1>2, <1>8, <1>10, <1>11, <2>1 DEF Place, Home, HomeOf, XS
  <2> QED
    BY <1>5, <1>10, <1>11, <2>2
<1>12. CASE LinkSourceFails /\ job.x = "d"
  <2>1. /\ top' = [top EXCEPT ![last] = "dir"]
        /\ sub' = [sub EXCEPT ![last] = sub[job.p], ![job.p] = "none"]
    BY <1>12 DEF LinkSourceFails
  <2>2. \A c \in Backups : top[c] # job.p
    BY <1>10, <1>12 DEF IInv, PoolJob, LinkSteps, LinkedSteps
  <2>3. /\ top'[b] = IF b = last THEN "dir" ELSE top[b]
        /\ seenTop[b] = IF b = last THEN job.p ELSE top[b]
        /\ seenSub = sub
    BY <1>2, <1>8, <1>10, <1>12, <2>1 DEF Values
  <2>4. \A c \in Backups \cup Pools :
             sub'[c] = IF c = job.p THEN "none" ELSE IF c = last THEN sub[job.p] ELSE sub[c]
    BY <1>2, <1>6, <2>1 DEF Values
  <2>5. CASE b = last
    BY <1>2, <1>5, <1>6, <1>10, <1>12, <2>3, <2>4, <2>5, Names DEF Shown, Sees, XS
  <2>6. CASE b # last
    BY <1>2, <1>5, <1>6, <1>10, <1>12, <2>2, <2>3, <2>4, <2>6, Names DEF Shown, Sees, XS
  <2> QED
    BY <2>5, <2>6
<1>13. CASE LinkSourceFails /\ job.x = "s"
  <2>1. top' = top /\ sub' = [sub EXCEPT ![HomeOf(top, last)] = "dir"]
    BY <1>13 DEF LinkSourceFails, Place, Home, HomeOf
  <2>2. HomeOf(top, last) \in Backups \cup Pools
    BY <1>2 DEF HomeOf
  <2>3. seenTop = top /\ \A c \in Backups \cup Pools :
           /\ seenSub[c] = IF c = HomeOf(top, last) THEN job.p ELSE sub[c]
           /\ sub'[c] = IF c = HomeOf(top, last) THEN "dir" ELSE sub[c]
    BY <1>2, <1>8, <1>10, <1>13, <2>1, <2>2 DEF Values
  <2> QED
    BY <1>2, <1>5, <1>6, <1>10, <1>13, <2>1, <2>2, <2>3 DEF Shown, Sees, XS
<1> QED
  BY <1>2, <1>9, <1>11, <1>12, <1>13 DEF XS

\* Rows of an operation are taken back, or it goes on.
LEMMA GoExact ==
    ASSUME IInv, job.step \in PoolSteps \ {"link_source"}, NEW step \in PoolSteps \ {"link_source"},
           Go(step), UNCHANGED <<backups, top, sub, up, stale>>,
           \A p \in Pools, b \in Backups, x \in XS : Has(links', p, b, x) => Has(links, p, b, x),
           TypeOK', Journal', Linking'
    PROVE  Exact'
<1>1. job.step \in LinkSteps \ LinkedSteps
  BY DEF PoolSteps
<1>2. up /\ TypeOK /\ seenTop = top /\ seenSub = sub
  BY <1>1, PoolFacts
<1>3. job'.step = step /\ job'.b = job.b /\ job'.p = job.p
  BY <1>2, GoIs
<1>4. Forgotten' /\ \A p \in Pools, b \in Backups : Exempt(p, b)' <=> Exempt(p, b)
  BY <1>3, PoolExempt
<1>5. seenTop' = top /\ seenSub' = sub
  BY <1>2, <1>3, NextView
<1> QED
  BY <1>2, <1>4, <1>5, ExactFrame DEF backups

\* The rows of pool directory job.p are for paths that show it, and job.b has no other.
LEMMA EndExact ==
    ASSUME IInv, job.step \in PoolSteps \ {"link_source"}, job' = NoJob,
           UNCHANGED <<backups, up, stale>>,
           \A c \in Backups \ {job.b} : top'[c] = top[c] /\ Sees(top', sub', c) = Sees(top, sub, c),
           \A p \in Pools, b \in Backups, x \in XS : Has(links', p, b, x) => Has(links, p, b, x),
           ~stale => \A p \in Pools, x \in XS :
              Has(links', p, job.b, x) => Shown(top', sub', p, job.b, x),
           ~stale => \A b \in Backups \ {job.b}, x \in XS :
              Has(links', job.p, b, x) => b \notin renamed /\ Shown(top, sub, job.p, b, x),
           TypeOK', Journal', Linking'
    PROVE  Exact'
<1>1. job.step \in LinkSteps \ LinkedSteps
  BY DEF PoolSteps
<1>2. up /\ TypeOK /\ seenTop = top /\ seenSub = sub /\ job.b \in Backups \ renamed
  BY <1>1, PoolFacts
<1>3. job'.step = "none"
  BY DEF NoJob
<1>4. Forgotten' /\ \A p \in Pools, b \in Backups : Exempt(p, b) <=> p = job.p \/ b = job.b
  BY <1>3, PoolExempt DEF PoolSteps, LinkSteps
<1>5. seenTop' = top' /\ seenSub' = sub'
  BY <1>2, <1>3, NextView
<1>6. \A p \in Pools, b \in Backups \ {job.b}, x \in XS :
         Shown(top, sub, p, b, x) => Shown(top', sub', p, b, x)
  BY DEF Shown
<1>7. ASSUME ~stale, NEW p \in Pools, NEW b \in Backups, NEW x \in XS, Has(links', p, b, x)
      PROVE  \/ /\ Has(links, p, b, x) /\ ~Exempt(p, b)
                /\ Shown(seenTop, seenSub, p, b, x) => Shown(seenTop', seenSub', p, b, x)
             \/ b \notin renamed /\ Shown(seenTop', seenSub', p, b, x)
  BY <1>2, <1>4, <1>5, <1>6, <1>7
<1> QED
  BY <1>2, <1>4, <1>7, ExactFrame DEF backups

\* The operation ends with the link in the backup, or with its rows taken back.
LEMMA TargetExact ==
    ASSUME IInv, LinkTarget \/ DropTarget, TypeOK', Journal', Linking'
    PROVE  Exact'
<1>1. /\ job.step \in {"link_target", "drop_target", "drop_below"}
      /\ job.step \in LinkSteps \ LinkedSteps /\ job.step \in PoolSteps \ {"link_source"}
      /\ UNCHANGED <<backups, up, stale>>
  BY DEF LinkTarget, DropTarget, LinkSteps, LinkedSteps, PoolSteps
<1>2. /\ job.b \in Backups \ renamed /\ job.p \in Pools /\ job.x \in XS /\ up
      /\ Vacant(job.b, job.x) /\ last \in Backups \ renamed /\ job.b # last
      /\ Values(top, sub, pool) /\ TypeOK /\ links \subseteq Rows
      /\ seenTop = top /\ seenSub = sub
  BY <1>1, PoolFacts
<1>3. \A p \in Pools, b \in Backups : Exempt(p, b) <=> p = job.p \/ b = job.b
  BY <1>1 DEF Exempt, PoolSteps, LinkSteps, ForgottenSteps
<1>4. \A p \in Pools, b \in Backups, x \in XS : Has(links', p, b, x) => Has(links, p, b, x)
  BY DEF LinkTarget, DropTarget, Has, tables
<1>5. AtPool(job.x, job.p)
  BY <1>1 DEF IInv, PoolJob, DropSteps
<1>6. ASSUME ~stale, NEW c \in Backups \ {job.b}, top[last] \in Pools \ {job.p},
             Has(links, top[last], c, "d")
      PROVE  c \notin renamed /\ Sees(top, sub, c) = Sees(top, sub, last)
  <2>1. c \notin renamed /\ Shown(top, sub, top[last], c, "d")
    BY <1>2, <1>3, <1>6, ExactNow DEF XS
  <2> QED
    BY <1>6, <2>1 DEF Shown, Sees
<1>7. CASE LinkTarget /\ Go("drop_target") /\ UNCHANGED <<top, sub>>
  <2>1. "drop_target" \in PoolSteps \ {"link_source"}
    BY DEF PoolSteps, LinkSteps, LinkedSteps
  <2> QED
    BY <1>1, <1>4, <1>7, <2>1, GoExact
<1>8. CASE LinkTarget /\ Place(job.b, job.x, job.p) /\ job' = NoJob
  <2>1. PoolRows(links, last, top[last], job.b, job.x, job.p) /\ links' = links
    BY <1>1, <1>8 DEF IInv, RowsJob, LinkTarget, tables
  <2>2. ASSUME NEW c \in Backups \ {job.b}
        PROVE top'[c] = top[c] /\ Sees(top', sub', c) = Sees(top, sub, c)
    BY <1>2, <1>8, Names DEF Vacant, Place, Home, Sees, Values, XS
  <2>3. IF job.x = "d" THEN top'[job.b] = job.p /\ sub' = sub
        ELSE top'[job.b] = "dir" /\ sub'[job.b] = job.p
    BY <1>2, <1>8, Names DEF Vacant, Place, Home, Values, XS
  <2>4. ASSUME ~stale, NEW p \in Pools, NEW x \in XS, Has(links, p, job.b, x)
        PROVE  Shown(top', sub', p, job.b, x)
    <3>1. CASE job.x = "d" /\ x = "s"
      <4>1. Has(links, p, last, "s") /\ p # job.p
        BY <1>2, <2>1, <2>4, <3>1 DEF PoolRows
      <4>2. Shown(top, sub, p, last, "s")
        BY <1>2, <1>3, <2>4, <4>1, ExactNow DEF XS
      <4> QED
        BY <1>2, <1>5, <2>3, <3>1, <4>2 DEF Shown, Sees, AtPool
    <3>2. CASE ~(job.x = "d" /\ x = "s")
      BY <1>2, <2>1, <2>3, <2>4, <3>2, Names DEF Shown, Sees, PoolRows, XS
    <3> QED
      BY <3>1, <3>2
  <2>5. ASSUME ~stale, NEW b \in Backups \ {job.b}, NEW x \in XS, Has(links, job.p, b, x)
        PROVE  b \notin renamed /\ Shown(top, sub, job.p, b, x)
    <3>1. CASE b = last
      BY <1>2, <1>5, <2>1, <2>5, <3>1 DEF Shown, AtPool, PoolRows, XS
    <3>2. CASE b # last
      <4>1. /\ job.x = "s" /\ x = "s" /\ top[last] \in Pools /\ Has(links, top[last], b, "d")
            /\ top[last] # job.p
        BY <1>2, <2>1, <2>5, <3>2 DEF PoolRows, XS
      <4> QED
        BY <1>5, <1>6, <2>5, <4>1 DEF Shown, AtPool
    <3> QED
      BY <3>1, <3>2
  <2> QED
    BY <1>1, <1>4, <1>8, <2>1, <2>2, <2>4, <2>5, EndExact
<1>9. CASE DropTarget /\ job.step = "drop_target"
  <2>1. "drop_target" \in PoolSteps \ {"link_source"}
        /\ "drop_below" \in PoolSteps \ {"link_source"}
    BY DEF PoolSteps, LinkSteps, LinkedSteps
  <2>2. Go("drop_below") /\ UNCHANGED <<top, sub>>
    BY <1>9 DEF DropTarget, files
  <2> QED
    BY <1>1, <1>4, <2>1, <2>2, GoExact
<1>10. CASE DropTarget /\ job.step = "drop_below"
  <2>1. links' = links \ RowsAt(job.b, Below(job.x)) /\ job' = NoJob /\ UNCHANGED <<top, sub>>
    BY <1>10 DEF DropTarget, files
  <2>2. /\ \A q \in Pools : ~Has(links, q, job.b, "d")
        /\ \A q \in Pools : Has(links, q, job.b, "s") => job.x = "d"
        /\ \A c \in Backups : c # job.b /\ Has(links, job.p, c, job.x) =>
              c = last \/ (job.x = "s" /\ top[last] \in Pools /\ Has(links, top[last], c, "d"))
        /\ \A c \in Backups : job.x = "s" => ~Has(links, job.p, c, "d")
        /\ \A c \in Backups : job.x = "d" => ~Has(links, job.p, c, "s")
    BY <1>1, <1>10 DEF IInv, RowsJob
  <2>3. \A q \in Pools, c \in Backups, y \in XS :
           Has(links', q, c, y) <=> Has(links, q, c, y) /\ ~(c = job.b /\ y \in Below(job.x))
    BY <2>1, HasMinus
  <2>4. \A p \in Pools, x \in XS : ~Has(links', p, job.b, x)
    BY <1>2, <2>2, <2>3 DEF Below, XS
  <2>5. ASSUME ~stale, NEW b \in Backups \ {job.b}, NEW x \in XS, Has(links, job.p, b, x)
        PROVE  b \notin renamed /\ Shown(top, sub, job.p, b, x)
    <3>1. x = job.x
      BY <1>2, <2>2, <2>5 DEF XS
    <3>2. CASE b = last
      BY <1>2, <1>5, <3>1, <3>2 DEF Shown, AtPool, XS
    <3>3. CASE b # last
      <4>1. job.x = "s" /\ top[last] \in Pools /\ Has(links, top[last], b, "d") /\ top[last] # job.p
        BY <2>2, <2>5, <3>1, <3>3
      <4> QED
        BY <1>5, <1>6, <2>5, <3>1, <4>1 DEF Shown, AtPool
    <3> QED
      BY <3>2, <3>3
  <2>6. \A b \in Backups \ {job.b}, x \in XS :
           ~stale /\ Has(links', job.p, b, x) => b \notin renamed /\ Shown(top, sub, job.p, b, x)
    BY <1>2, <1>4, <2>5
  <2>7. \A c \in Backups : top'[c] = top[c] /\ Sees(top', sub', c) = Sees(top, sub, c)
    BY <2>1
  <2> QED
    BY <1>1, <1>4, <2>1, <2>4, <2>6, <2>7, EndExact
<1> QED
  BY <1>1, <1>7, <1>8, <1>9, <1>10 DEF LinkTarget, DropTarget

\* The operation is given up, or goes on.
LEMMA UndoExact ==
    ASSUME IInv, RenameFails \/ ForgetJournal \/ Undo \/ UndoJournal, TypeOK', Journal', Linking'
    PROVE  Exact'
<1>1. /\ job.step \in PoolSteps \ {"link_source"} /\ job.step \in LinkSteps \ LinkedSteps
      /\ UNCHANGED <<backups, top, sub, up, stale>>
  BY DEF RenameFails, ForgetJournal, Undo, AfterUndo, UndoJournal, PoolSteps, LinkSteps,
     LinkedSteps,
         files
<1>2. \A p \in Pools, b \in Backups, x \in XS : Has(links', p, b, x) => Has(links, p, b, x)
  BY DEF RenameFails, ForgetJournal, Undo, UndoJournal, tables, Has
<1>3. ASSUME RenameFails \/ ForgetJournal \/ Undo PROVE Exact'
  <2>1. \E step \in PoolSteps \ {"link_source"} : Go(step)
    BY <1>3 DEF RenameFails, ForgetJournal, Undo, AfterUndo, PoolSteps, LinkSteps, LinkedSteps
  <2> QED
    BY <1>1, <1>2, <2>1, GoExact
<1>4. CASE UndoJournal
  <2>1. job.step = "undo_journal" /\ job' = NoJob /\ links' = links
    BY <1>4 DEF UndoJournal
  <2>2. job.p \in Pools /\ job.b \in Backups
    BY <1>1, PoolFacts
  <2>3. /\ \A c \in Backups : Has(links, job.p, c, "s") \/ Has(links, job.p, c, "d") => c = job.b
        /\ Clean(links, job.b)
    BY <2>1 DEF IInv, UndoJob, UndoSteps
  <2>4. /\ \A p \in Pools, x \in XS : ~Has(links', p, job.b, x)
        /\ \A b \in Backups \ {job.b}, x \in XS : ~Has(links', job.p, b, x)
    BY <2>1, <2>3 DEF Clean, XS
  <2> QED
    BY <1>1, <1>2, <2>1, <2>4, EndExact
<1> QED
  BY <1>3, <1>4

\* Every step of link_directory_pool.
LEMMA LinkExact ==
    ASSUME IInv, LinkStep, TypeOK', Journal', Linking'
    PROVE  Exact'
BY LinkedExact, CommitExact, MoveExact, TargetExact, UndoExact DEF LinkStep

\* A deletion: rows of other backups stay, and so do their places.
LEMMA OthersExact ==
    ASSUME IInv, job.step \in RemoveSteps, job'.step \in RemoveSteps \cup {"none"},
           UNCHANGED <<renamed, up, stale>>,
           \A b \in Backups : status[b] = "gone" => status'[b] = "gone",
           ~stale => Forgotten',
           ~stale => \A c \in Backups \ {job.b}, p \in Pools, x \in XS : Has(links', p, c, x) =>
              Has(links, p, c, x) /\ (Shown(top, sub, p, c, x) => Shown(top', sub', p, c, x)),
           job'.step \in ForgottenSteps => job'.b = job.b,
           ~stale /\ job'.step \notin ForgottenSteps => \A p \in Pools, x \in XS :
              Has(links', p, job.b, x) =>
                 /\ job.step \notin ForgottenSteps /\ Has(links, p, job.b, x)
                 /\ Shown(top, sub, p, job.b, x) => Shown(top', sub', p, job.b, x),
           TypeOK', Journal', Linking'
    PROVE  Exact'
<1>1. up /\ job.b \in Backups /\ seenTop = top /\ seenSub = sub
  BY DeleteFacts
<1>2. seenTop' = top' /\ seenSub' = sub'
  BY <1>1, NextView DEF RemoveSteps
<1>3. /\ RemoveSteps \cap PoolSteps = {} /\ "none" \notin PoolSteps /\ "none" \notin ForgottenSteps
  BY DEF RemoveSteps, PoolSteps, LinkSteps, ForgottenSteps
<1>4. /\ \A p \in Pools, b \in Backups : Exempt(p, b) <=> job.step \in ForgottenSteps /\ b = job.b
      /\ \A p \in Pools, b \in Backups : Exempt(p, b)' <=> job'.step \in ForgottenSteps /\ b = job.b
  BY <1>3 DEF Exempt
<1>5. ASSUME ~stale, NEW p \in Pools, NEW b \in Backups, NEW x \in XS, Has(links', p, b, x),
             ~Exempt(p, b)'
      PROVE  /\ Has(links, p, b, x) /\ ~Exempt(p, b)
             /\ Shown(seenTop, seenSub, p, b, x) => Shown(seenTop', seenSub', p, b, x)
  <2>1. CASE b = job.b
    BY <1>1, <1>2, <1>4, <1>5, <2>1
  <2>2. CASE b # job.b
    BY <1>1, <1>2, <1>4, <1>5, <2>2
  <2> QED
    BY <2>1, <2>2
<1> QED
  BY <1>1, <1>5, ExactFrame

\* The folder is scanned, and the database forgets the backup.
LEMMA ScanExact ==
    ASSUME IInv, ScanFolder, TypeOK', Journal', Linking'
    PROVE  Exact'
<1>1. job.step = "scan" /\ job.step \in RemoveSteps /\ job.step \notin ForgottenSteps
  BY DEF ScanFolder, RemoveSteps, ForgottenSteps
<1>2. /\ up /\ job.b \in Backups /\ Values(top, sub, pool) /\ TypeOK
      /\ seenTop = top /\ seenSub = sub
      /\ status \in [Backups -> {"unused", "running", "done", "failed", "gone"}]
  BY <1>1, DeleteFacts DEF TypeOK
<1>3. UNCHANGED <<renamed, up, stale, links>>
  BY DEF ScanFolder, RemoveLink, files, tables, backups
<1>4. \A b \in Backups : status[b] = "gone" => status'[b] = "gone"
  BY <1>2 DEF ScanFolder, RemoveLink, backups
<1>5. job'.step \in {"row", "scan", "none"}
  <2>1. \A x : RemoveLink(job.b, x) => job'.step = "row"
    BY <1>2 DEF RemoveLink, TypeOK
  <2> QED
    BY <1>1, <2>1 DEF ScanFolder, NoJob
<1>6. Forgotten' /\ job'.step \in RemoveSteps \cup {"none"} /\ job'.step \notin ForgottenSteps
  BY <1>5, NotForgotten DEF RemoveSteps, ForgottenSteps
<1>7. CASE UNCHANGED <<top, sub>>
  <2>1. \A p \in Pools, b \in Backups, x \in XS :
           Shown(top, sub, p, b, x) => Shown(top', sub', p, b, x)
    BY <1>7
  <2> QED
    BY <1>1, <1>2, <1>3, <1>4, <1>6, <2>1, OthersExact
<1>8. CASE /\ top[job.b] = "dir" /\ sub[job.b] \notin Pools
           /\ sub' = [sub EXCEPT ![job.b] = "none"]
           /\ top' = IF sub[job.b] = "none" THEN [top EXCEPT ![job.b] = "none"] ELSE top
  <2>1. ASSUME NEW c \in Backups \ {job.b}
        PROVE top'[c] = top[c] /\ Sees(top', sub', c) = Sees(top, sub, c)
    BY <1>2, <1>8, Names DEF Sees, Values
  <2>2. \A p \in Pools, c \in Backups \ {job.b}, x \in XS :
           Shown(top, sub, p, c, x) => Shown(top', sub', p, c, x)
    BY <2>1 DEF Shown
  <2>3. \A p \in Pools, x \in XS : ~Shown(top, sub, p, job.b, x)
    BY <1>2, <1>8, Names DEF Shown, Sees
  <2> QED
    BY <1>1, <1>2, <1>3, <1>4, <1>6, <2>2, <2>3, OthersExact
<1> QED
  BY <1>7, <1>8 DEF ScanFolder, RemoveLink, files

\* Where the row of a link is not found, or its pool directory is gone, the backup has no row.
LEMMA RowExact ==
    ASSUME IInv, FiniteTables, RemoveRow, TypeOK', Journal', Linking'
    PROVE  Exact'
<1>1. /\ job.step = "row" /\ job.step \in RemoveSteps /\ job.step \notin ForgottenSteps
      /\ UNCHANGED <<backups, top, sub, links, up, stale>>
  BY DEF RemoveRow, RemoveSteps, ForgottenSteps, files
<1>2. /\ up /\ job.b \in Backups /\ job.x \in XS /\ job.p \in Pools /\ Values(top, sub, pool) /\ TypeOK
      /\ links \subseteq Rows /\ seenTop = top /\ seenSub = sub
      /\ Consistent(top, sub, pool, links, renamed, CountedBackups)
      /\ job.b \notin renamed => job.b \in CountedBackups
  BY <1>1, DeleteFacts
<1>3. AtLink /\ tx = links /\ status[job.b] \in {"done", "failed"}
  BY <1>1 DEF IInv, RemoveJob, RemoveTx
<1>4. job'.step \in {"unlink", "empty"} /\ job'.b = job.b
  <2>1. \E step \in {"unlink", "empty"} : Go(step)
    BY DEF RemoveRow
  <2> QED
    BY <1>2, <2>1, GoIs
<1>5. seenTop' = top /\ seenSub' = sub
  BY <1>1, <1>2, <1>4, NextView
<1>6. SUFFICES ASSUME ~stale PROVE Forgotten'
  <2>1. ~stale => Forgotten'
    BY <1>6
  <2>2. \A p \in Pools, b \in Backups, x \in XS :
           Shown(top, sub, p, b, x) => Shown(top', sub', p, b, x)
    BY <1>1
  <2>3. job'.step \in RemoveSteps \cup {"none"}
    BY <1>4 DEF RemoveSteps
  <2> QED
    BY <1>1, <1>4, <2>1, <2>2, <2>3, OthersExact DEF backups
<1>7. job.b \notin renamed /\ job.b \in CountedBackups
  BY <1>2, <1>3, <1>6 DEF IInv, Exact
<1>8. \A q \in Pools, x \in XS : Has(links, q, job.b, x) => Shown(top, sub, q, job.b, x)
  <2>1. \A q \in Pools : ~Exempt(q, job.b)
    BY <1>1 DEF Exempt, PoolSteps, LinkSteps
  <2> QED
    BY <1>2, <1>6, <2>1, ExactNow
<1>9. \A q \in Pools : Has(links, q, job.b, "d") => job.x = "d" /\ q = job.p
  BY <1>2, <1>3, <1>8, Names DEF Shown, AtLink, XS
<1>10. \A q \in Pools : Has(links, q, job.b, "s") =>
          Shown(top, sub, q, job.b, "s") /\ IF job.x = "d" THEN sub[job.p] = q ELSE q = job.p
  BY <1>2, <1>3, <1>8, Names DEF Shown, Sees, AtLink, XS
<1> DEFINE rest == tx \ RowsAt(job.b, {job.x})
<1>11. \A q \in Pools, c \in Backups, y \in XS :
          Has(rest, q, c, y) <=> Has(links, q, c, y) /\ ~(c = job.b /\ y \in {job.x})
  BY <1>3, HasMinus
<1>12. \A q \in Pools : Has(tx', q, job.b, "s") => Has(links, q, job.b, "s")
  BY <1>3 DEF RemoveRow, Has
<1>13. ASSUME job'.step = "unlink" PROVE Clean(tx', job.b)
  <2>1. CASE ~Known(job.b, job.x) /\ tx' = tx
    <3>1. \A q \in Pools : ~Has(links, q, job.b, job.x)
      BY <1>3, <1>7, <2>1 DEF Known, Has
    <3>2. job.x = "d" => ~Live(pool, job.p)
      BY <1>2, <1>3, <1>7, <3>1 DEF Consistent, Counted, AtLink
    <3>3. job.x = "d" => sub[job.p] = "none"
      BY <1>2, <3>2 DEF Consistent, Shape
    <3> QED
      BY <1>2, <1>3, <1>9, <1>10, <2>1, <3>1, <3>3, Names DEF Clean, XS
  <2>2. CASE Refcount(rest, job.p) = 0 /\ tx' = rest /\ ~Exists(job.p)
    <3>1. ~Live(pool, job.p)
      BY <1>2, <2>2 DEF Exists, Live
    <3>2. sub[job.p] = "none"
      BY <1>2, <3>1 DEF Consistent, Shape
    <3> HIDE DEF rest
    <3> QED
      BY <1>2, <1>9, <1>10, <1>11, <2>2, <3>2, Names DEF Clean, XS
  <2>3. CASE tx' = rest \ RowsAt(job.b, Below(job.x))
    <3> HIDE DEF rest
    <3>1. \A q \in Pools, c \in Backups, y \in XS :
             Has(tx', q, c, y) <=> Has(rest, q, c, y) /\ ~(c = job.b /\ y \in Below(job.x))
      BY <2>3, HasMinus
    <3> QED
      BY <1>2, <1>9, <1>11, <3>1 DEF Clean, Below, XS
  <2>4. Go("empty") => job'.step = "empty"
    BY <1>2, GoIs
  <2> QED
    BY <1>13, <2>1, <2>2, <2>3, <2>4 DEF RemoveRow
<1> QED
  BY <1>2, <1>4, <1>5, <1>10, <1>12, <1>13 DEF Forgotten, ForgottenSteps

\* The pool directory is emptied and removed.
LEMMA EmptyExact ==
    ASSUME IInv, FiniteTables, EmptyPool \/ UnlinkNested \/ RemovePool, TypeOK', Journal', Linking'
    PROVE  Exact'
<1>1. /\ job.step \in EmptySteps /\ job.step \in RemoveSteps
      /\ UNCHANGED <<backups, top, links, up, stale>>
  BY DEF EmptyPool, UnlinkNested, RemovePool, EmptySteps, RemoveSteps, tables
<1>2. /\ up /\ job.b \in Backups /\ job.x \in XS /\ job.p \in Pools /\ Values(top, sub, pool) /\ TypeOK
      /\ links \subseteq Rows /\ seenTop = top /\ seenSub = sub
      /\ Consistent(top, sub, pool, links, renamed, CountedBackups)
  BY <1>1, DeleteFacts DEF EmptySteps
<1>3. RemoveJob /\ RemoveTx /\ AtLink /\ job.b \notin renamed /\ Live(pool, job.p)
  BY <1>1 DEF IInv, RemoveJob
<1>4. job'.step \in ForgottenSteps /\ job'.step \in RemoveSteps /\ job'.b = job.b
      /\ job'.step # "empty"
  <2>1. \E step \in {"nested", "rmdir", "unlink"} : Go(step)
    BY DEF EmptyPool, UnlinkNested, RemovePool
  <2>2. job'.step \in {"nested", "rmdir", "unlink"} /\ job'.b = job.b
    BY <1>2, <2>1, GoIs
  <2> QED
    BY <2>2 DEF ForgottenSteps, RemoveSteps
<1>5. ASSUME ~stale PROVE Forgotten'
  <2>1. CASE EmptyPool
    <3>1. job.step = "empty"
      BY <2>1 DEF EmptyPool
    <3>2. \A q \in Pools : Has(tx, q, job.b, "s") => Shown(top, sub, q, job.b, "s")
      BY <1>2, <1>5, <3>1 DEF IInv, Exact, Forgotten
    <3>3. /\ \A q \in Pools : ~Has(tx, q, job.b, job.x)
          /\ \A q \in Pools : Has(tx, q, job.b, "d") => Has(links, q, job.b, "d")
      BY <1>1, <1>3, <3>1 DEF RemoveTx, EmptySteps, RemoveSteps
    <3>4. \A q \in Pools : ~Has(tx, q, job.b, "d")
      <4>1. \A q \in Pools : ~Exempt(q, job.b)
        BY <3>1 DEF Exempt, PoolSteps, ForgottenSteps, LinkSteps
      <4>2. \A q \in Pools : Has(links, q, job.b, "d") => top[job.b] = q
        BY <1>2, <1>5, <4>1, ExactNow DEF Shown, XS
      <4> QED
        BY <1>2, <1>3, <3>3, <4>2, Names DEF AtLink, XS
    <3>5. /\ \A q \in Pools, c \in Backups, y \in XS : Has(tx', q, c, y) => Has(tx, q, c, y)
          /\ \/ tx' = tx /\ (sub[job.p] \notin Pools \/ \A r \in tx : r[2] # <<job.b, "s">>)
             \/ \A q \in Pools : ~Has(tx', q, job.b, "s")
      BY <2>1, PoolEmptied
    <3>6. job.x = "d" => \A q \in Pools : Has(tx, q, job.b, "s") => sub[job.p] = q
      BY <1>2, <1>3, <3>2 DEF Shown, Sees, AtLink
    <3>7. (\A r \in tx : r[2] # <<job.b, "s">>) => \A q \in Pools : ~Has(tx, q, job.b, "s")
      BY DEF Has
    <3>8. Clean(tx', job.b)
      BY <1>2, <3>3, <3>4, <3>5, <3>6, <3>7 DEF Clean, XS
    <3> QED
      BY <1>4, <3>8 DEF Forgotten
  <2>2. CASE UnlinkNested \/ RemovePool
    <3>1. tx' = tx /\ job.step \in ForgottenSteps
      BY <2>2 DEF UnlinkNested, RemovePool, tables, ForgottenSteps
    <3>2. Clean(tx', job.b)
      BY <1>5, <3>1 DEF IInv, Exact, Forgotten
    <3> QED
      BY <1>4, <3>2 DEF Forgotten
  <2> QED
    BY <2>1, <2>2
<1>6. ASSUME ~stale, NEW c \in Backups \ {job.b}, NEW p \in Pools, NEW x \in XS, Has(links, p, c, x)
      PROVE  Shown(top, sub, p, c, x) => Shown(top', sub', p, c, x)
  <2>1. CASE EmptyPool \/ RemovePool
    <3>1. sub' = sub
      BY <2>1 DEF EmptyPool, RemovePool
    <3> QED
      BY <1>1, <3>1
  <2>2. CASE UnlinkNested
    <3>1. sub' = [sub EXCEPT ![job.p] = "none"]
      BY <2>2 DEF UnlinkNested
    <3>2. c \notin renamed
      <4>1. ~Exempt(p, c)
        BY <1>1, <1>6 DEF Exempt, PoolSteps, LinkSteps, EmptySteps
      <4> QED
        BY <1>6, <4>1, ExactNow
    <3>3. c \in CountedBackups
      BY <1>1, <1>2, <3>2 DEF CountedBackups, EmptySteps
    <3>4. ~Has(links, job.p, c, "d")
      BY <1>1, <1>2, <1>3 DEF RemoveTx, EmptySteps, RemoveSteps
    <3>5. top[c] # job.p
      BY <1>2, <1>3, <3>3, <3>4 DEF Consistent, Counted
    <3>6. Sees(top', sub', c) = Sees(top, sub, c)
      BY <1>1, <1>2, <3>1, <3>5, Names DEF Sees, Values
    <3> QED
      BY <1>1, <3>6 DEF Shown
  <2> QED
    BY <2>1, <2>2
<1> QED
  BY <1>1, <1>4, <1>5, <1>6, OthersExact DEF backups

\* The link goes, and the transaction is committed.
LEMMA EndRemoveExact ==
    ASSUME IInv, Unlink \/ EndRemove, TypeOK', Journal', Linking'
    PROVE  Exact'
<1>1. /\ job.step \in {"unlink", "end_remove"} /\ job.step \in RemoveSteps /\ job.step \in ForgottenSteps
      /\ UNCHANGED <<backups, up, stale>>
  BY DEF Unlink, EndRemove, RemoveSteps, ForgottenSteps
<1>2. /\ up /\ job.b \in Backups /\ job.x \in XS /\ job.p \in Pools /\ Values(top, sub, pool) /\ TypeOK
  BY <1>1, DeleteFacts
<1>3. ~stale => Clean(tx, job.b)
  BY <1>1 DEF IInv, Exact, Forgotten
<1>4. CASE Unlink
  <2>1. Place(job.b, job.x, "none") /\ UNCHANGED <<links, tx>> /\ Go("end_remove") /\ AtLink
    BY <1>1, <1>4 DEF Unlink, tables, IInv, RemoveJob
  <2>2. job'.step = "end_remove" /\ job'.b = job.b
    BY <1>2, <2>1, GoIs
  <2>3. ASSUME NEW c \in Backups \ {job.b}
        PROVE top'[c] = top[c] /\ Sees(top', sub', c) = Sees(top, sub, c)
    BY <1>2, <2>1, Names DEF AtLink, Place, Home, Sees, Values, XS
  <2>4. \A p \in Pools, c \in Backups \ {job.b}, x \in XS :
           Shown(top, sub, p, c, x) => Shown(top', sub', p, c, x)
    BY <2>3 DEF Shown
  <2>5. ~stale => Forgotten'
    BY <1>3, <2>1, <2>2 DEF Forgotten
  <2>6. job'.step \in RemoveSteps \cup {"none"} /\ job'.step \in ForgottenSteps
    BY <2>2 DEF RemoveSteps, ForgottenSteps
  <2> QED
    BY <1>1, <2>1, <2>2, <2>4, <2>5, <2>6, OthersExact DEF backups
<1>5. CASE EndRemove
  <2>1. links' = tx /\ UNCHANGED <<top, sub>> /\ Go("scan") /\ job.step = "end_remove"
    BY <1>5 DEF EndRemove, files
  <2>2. job'.step = "scan"
    BY <1>2, <2>1, GoIs
  <2>3. \A q \in Pools, c \in Backups \ {job.b}, x \in XS : Has(tx, q, c, x) => Has(links, q, c, x)
    BY <1>1, <2>1 DEF IInv, RemoveTx, XS
  <2>4. ~stale => \A p \in Pools, x \in XS : ~Has(tx, p, job.b, x)
    BY <1>3 DEF Clean, XS
  <2>5. Forgotten' /\ job'.step \in RemoveSteps \cup {"none"} /\ job'.step \notin ForgottenSteps
    BY <2>2, NotForgotten DEF RemoveSteps, ForgottenSteps
  <2> QED
    BY <1>1, <2>1, <2>3, <2>4, <2>5, OthersExact DEF backups
<1> QED
  BY <1>4, <1>5

\* What follows a crash; a crash itself leaves the table in doubt.
LEMMA DownExact ==
    ASSUME IInv, FiniteTables', Crash \/ RecoveryStep, TypeOK', Journal'
    PROVE  Exact'
<1>1. CASE Crash
  BY <1>1 DEF Crash, Exact
<1>2. ASSUME RecoveryStep PROVE job = NoJob /\ job' = NoJob /\ ~up
  BY <1>2 DEF RecoveryStep, Restart, ReplayFirst, RemoveUnknown, IInv
<1>3. ASSUME RecoveryStep
      PROVE /\ Forgotten' /\ \A p \in Pools, b \in Backups : ~Exempt(p, b) /\ ~Exempt(p, b)'
  BY <1>2, <1>3, NotForgotten DEF NoJob, Exempt, PoolSteps, ForgottenSteps, LinkSteps, RemoveSteps
<1>4. CASE Restart \/ ReplayFirst
  <2>1. Replay /\ UNCHANGED <<links, stale>>
    BY <1>4 DEF Restart, ReplayFirst
  <2>2. seenTop' = seenTop /\ seenSub' = seenSub
    <3>1. top' = seenTop /\ sub' = seenSub /\ journal' = {}
      BY <2>1, ReplayView
    <3> QED
      BY <3>1, ViewDone
  <2> SUFFICES ASSUME ~stale PROVE Exact'
    BY <2>1 DEF Exact
  <2>3. \A b \in Backups : status[b] \notin {"running", "failed"}
    BY <1>2, <1>4 DEF RecoveryStep, IInv, Exact
  <2>4. renamed' = renamed /\ status' = status
    <3>1. status \in [Backups -> {"unused", "running", "done", "failed", "gone"}]
      BY DEF IInv, TypeInv, TypeOK
    <3>2. Restart => /\ status' = [b \in Backups |-> IF Running(b) THEN "failed" ELSE status[b]]
                     /\ renamed' = renamed \cup {b \in Backups : status[b] \in {"running", "failed"}}
      BY DEF Restart
    <3> QED
      BY <1>4, <2>3, <3>1, <3>2 DEF ReplayFirst, backups, Running
  <2>5. \A p \in Pools, b \in Backups, x \in XS : Has(links', p, b, x) =>
           b \notin renamed' /\ Shown(seenTop', seenSub', p, b, x)
    BY <1>3, <1>4, <2>1, <2>2, <2>4, ExactNow DEF RecoveryStep
  <2>6. \A b \in renamed' : status'[b] = "gone"
    BY <2>4 DEF IInv, Exact
  <2> QED
    BY <1>3, <1>4, <2>3, <2>4, <2>5, <2>6 DEF RecoveryStep, Exact
<1>5. CASE RemoveUnknown
  <2>1. PICK deep \in BOOLEAN : KeptRows(top, sub, pool, links, renamed, links', deep)
    BY <1>5, UnknownKept
  <2>2. /\ seenTop = top /\ seenSub = sub
        /\ sub' = [c \in Backups \cup Pools |->
                     IF c \in renamed \/ c \in Unreferenced(pool, links') THEN "none" ELSE sub[c]]
        /\ top' = [b \in Backups |-> IF b \in renamed THEN "none" ELSE top[b]]
    BY <1>5, UnknownKept
  <2>3. seenTop' = top' /\ seenSub' = sub'
    BY <1>5, ViewDone DEF RemoveUnknown
  <2>4. /\ status' = [b \in Backups |-> IF b \in renamed THEN "gone" ELSE status[b]]
        /\ renamed' = renamed /\ up' = up
        /\ stale' = \E b \in Backups : status'[b] \in {"running", "failed"}
    BY <1>5 DEF RemoveUnknown
  <2>5. /\ Consistent(top, sub, pool, links, renamed, CountedBackups) /\ Values(top, sub, pool)
        /\ renamed \subseteq Backups
    BY <2>2 DEF IInv, TypeInv, TypeOK, Values
  <2> SUFFICES ASSUME ~stale' PROVE Exact'
    BY DEF Exact
  <2>6. \A b \in Backups : status'[b] \notin {"running", "failed"}
    BY <2>4
  <2>7. \A b \in Backups : b \notin renamed => b \in CountedBackups
    BY <2>4, <2>6 DEF CountedBackups, Running
  <2>8. ASSUME NEW p \in Pools, NEW b \in Backups, Has(links', p, b, "d")
        PROVE  b \notin renamed /\ top[b] = p /\ top'[b] = p
    BY <2>1, <2>2, <2>8 DEF KeptRows
  <2>9. ASSUME NEW p \in Pools, NEW b \in Backups, Has(links', p, b, "s")
        PROVE  b \notin renamed /\ Sees(top', sub', b) = p
    <3>1. b \notin renamed /\ Sees(top, sub, b) = p
      <4>1. CASE Has(links, p, b, "s") /\ Live(pool, p) /\ b \notin renamed /\ Sees(top, sub, b) = p
        BY <4>1
      <4>2. CASE \E q \in Pools : Has(links', q, b, "d") /\ sub[q] = p
        BY <2>8, <4>2 DEF Sees
      <4> QED
        BY <2>1, <2>9, <4>1, <4>2 DEF KeptRows
    <3>2. top'[b] = top[b]
      BY <2>2, <3>1
    <3>3. CASE top[b] \in Pools
      <4>1. sub[top[b]] = p
        BY <3>1, <3>3 DEF Sees
      <4>2. Live(pool, top[b])
        BY <2>5, <3>3, <4>1, Names DEF Consistent, Shape
      <4>3. Has(links, top[b], b, "d")
        BY <2>5, <2>7, <3>1, <3>3, <4>2 DEF Consistent, Counted
      <4>4. Has(links', top[b], b, "d")
        BY <2>1, <3>1, <3>3, <4>2, <4>3 DEF KeptRows
      <4>5. top[b] \notin Unreferenced(pool, links') /\ top[b] \notin renamed
        BY <2>5, <3>3, <4>4, Names DEF Unreferenced
      <4> QED
        BY <2>2, <3>1, <3>2, <3>3, <4>1, <4>5 DEF Sees
    <3>4. CASE top[b] \notin Pools
      <4>1. b \notin Unreferenced(pool, links')
        BY Names DEF Unreferenced
      <4> QED
        BY <2>2, <3>1, <3>2, <3>4, <4>1 DEF Sees
    <3> QED
      BY <3>3, <3>4
  <2>10. \A p \in Pools, b \in Backups, x \in XS : Has(links', p, b, x) =>
            b \notin renamed' /\ Shown(seenTop', seenSub', p, b, x)
    BY <2>3, <2>4, <2>8, <2>9 DEF Shown, XS
  <2>11. \A b \in renamed' : status'[b] = "gone"
    BY <2>4, <2>5
  <2> QED
    BY <1>3, <1>5, <2>6, <2>10, <2>11 DEF RecoveryStep, Exact
<1> QED
  BY <1>1, <1>4, <1>5 DEF RecoveryStep

\* Without a crash, and after remove_unknown, the table stays exact.
LEMMA ExactStep ==
    ASSUME IInv, FiniteTables, FiniteTables', Step, TypeOK', Journal', Linking'
    PROVE  Exact'
<1>1. RemoveStep => Exact'
  BY ScanExact, RowExact, EmptyExact, EndRemoveExact DEF RemoveStep
<1> QED
  BY <1>1, Steps, BackupExact, LinkExact, DownExact

\* The first state.
LEMMA InvInit ==
    ASSUME Init
    PROVE  IInv
<1>1. TypeInv /\ JobTypes /\ Values(top, sub, pool)
  BY TypeInit DEF TypeInv, TypeOK, Values
<1>2. seenTop = top /\ seenSub = sub
  BY <1>1, ViewSame DEF Init, seenTop, seenSub
<1>3. /\ \A b \in Backups : top[b] = "none" /\ status[b] = "unused"
      /\ \A c \in Backups \cup Pools : sub[c] = "none"
      /\ \A p \in Pools : pool[p] = "unused"
      /\ \A p, b, x : ~Has(links, p, b, x)
  BY DEF Init, Has
<1>4. Consistent(top, sub, pool, links, renamed, CountedBackups)
  BY <1>3, Names DEF Consistent, Shape, Kinds, Counted, Closed, Alike, Agree, Referenced, Live
<1>5. job.step = "none" /\ up /\ ~stale /\ journal = {} /\ renamed = {} /\ doomed = {} /\ last = 0
      /\ links = {} /\ tx = {}
  BY DEF Init, NoJob
<1>6. Ages
  BY <1>3, <1>5 DEF Ages, Running, Clean
<1>7. RunningRows
  BY <1>3 DEF RunningRows, Running
<1>8. /\ LinkJob /\ LinkedJob /\ PoolJob /\ RowsJob /\ UndoJob /\ RemoveJob /\ RemoveTx
      /\ Journal /\ Forgotten
  BY <1>5 DEF LinkJob, LinkedJob, PoolJob, RowsJob, UndoJob, RemoveJob, RemoveTx, Journal,
     Forgotten,
     LinkSteps, LinkedSteps, UndoSteps, RemoveSteps, EmptySteps, JournalSteps, ForgottenSteps
<1>9. Exact
  BY <1>3, <1>5, <1>8 DEF Exact
<1> QED
  BY <1>1, <1>2, <1>4, <1>5, <1>6, <1>7, <1>8, <1>9, FS_EmptySet DEF IInv

\* Nothing happens.
LEMMA InvStutter ==
    ASSUME IInv, UNCHANGED vars
    PROVE  IInv'
<1>1. /\ UNCHANGED <<status, doomed, renamed, last, top, sub, pool, links, tx, journal>>
      /\ UNCHANGED <<job, up, stale, setting>>
  BY DEF vars, files, tables, backups
<1>2. seenTop' = seenTop /\ seenSub' = seenSub
  BY <1>1, ViewKept
<1>3. CountedBackups' = CountedBackups
  BY <1>1 DEF CountedBackups, Running
<1>4. TypeInv' /\ JobTypes' /\ IsFiniteSet(links') /\ IsFiniteSet(tx') /\ (~up' => job' = NoJob)
  BY <1>1 DEF IInv, TypeInv, TypeOK, JobTypes, Used
<1>5. Consistent(seenTop', seenSub', pool', links', renamed', CountedBackups')
  BY <1>1, <1>2, <1>3 DEF IInv
<1>6. Ages' /\ RunningRows'
  BY <1>1 DEF IInv, Ages, RunningRows, Running
<1>7. LinkJob' /\ LinkedJob' /\ RemoveJob' /\ RemoveTx'
  BY <1>1 DEF IInv, LinkJob, LinkedJob, RemoveJob, RemoveTx, Running, Vacant, AtLink
<1>8. PoolJob' /\ RowsJob' /\ UndoJob' /\ Journal'
  BY <1>1 DEF IInv, PoolJob, RowsJob, UndoJob, Journal, AtSource, AtPool, Moved
<1>9. Exact'
  BY <1>1, <1>2 DEF IInv, Exact, Exempt, Forgotten
<1> QED
  BY <1>4, <1>5, <1>6, <1>7, <1>8, <1>9 DEF IInv

\* A step keeps all of it.
LEMMA InvStep ==
    ASSUME IInv, [Next]_vars
    PROVE  IInv'
<1>1. CASE UNCHANGED vars
  BY <1>1, InvStutter
<1>2. CASE Step
  <2>1. TypeInv' /\ JobTypes' /\ TypeOK'
    BY TypeStep DEF IInv, TypeInv
  <2>2. FiniteTables /\ FiniteTables'
    BY FiniteStep DEF IInv, FiniteTables
  <2>3. ~up' => job' = NoJob
    BY DownStep
  <2>4. Ages' /\ RunningRows' /\ Journal' /\ Linking' /\ Removing'
    BY <1>2, <2>2, AgesStep, RunningRowsStep, JournalStep, OperationStep
  <2>5. Followed' /\ Exact'
    BY <1>2, <2>1, <2>2, <2>4, FollowedStep, ExactStep
  <2> QED
    BY <2>1, <2>2, <2>3, <2>4, <2>5 DEF IInv, FiniteTables, Linking, Removing, Followed
<1> QED
  BY <1>1, <1>2 DEF Next, AllGone

\* The inductive invariant of the directory pool holds in every state.
THEOREM Inductive == Spec => []IInv
<1>1. Init => IInv
  BY InvInit
<1>2. IInv /\ [Next]_vars => IInv'
  BY InvStep
<1> QED
  BY <1>1, <1>2, PTL DEF Spec

-------------------------------------------------------------------------------
(***************************************************************************)
(* The properties.                                                         *)
(***************************************************************************)
\* A link that is there is where the replay of the journal leaves it.
LEMMA ViewPools ==
    ASSUME IInv, NEW b \in Backups
    PROVE  /\ top[b] \in Pools => seenTop[b] = top[b]
           /\ At(b, "s") \in Pools => Sees(seenTop, seenSub, b) = At(b, "s")
<1>1. Values(top, sub, pool) /\ TypeOK /\ Journal
  BY DEF IInv, TypeInv, TypeOK, Values
<1>2. At(b, "s") \in Pools => Sees(top, sub, b) = At(b, "s") /\ top[b] # "none"
  BY <1>1, Names DEF At, Home, Sees
<1>3. CASE seenTop = top /\ seenSub = sub
  BY <1>2, <1>3
<1>4. CASE journal = {}
  <2>1. seenTop = top /\ seenSub = sub
    BY <1>1, <1>4, ViewSame DEF seenTop, seenSub
  <2> QED
    BY <1>3, <2>1
<1>5. CASE journal # {}
  <2>1. PICK x \in {"d", "s"}, p \in Pools :
           journal = {<<<<last, x>>, p>>} /\ (Live(pool, p) => Moved(x, p) \/ AtPool(x, p))
    BY <1>1, <1>5 DEF Journal
  <2>2. last \in Backups /\ last \notin renamed /\ x \in XS
    BY <1>1, <1>5 DEF Journal, XS
  <2>3. CASE ~Live(pool, p) \/ PlaceOf(top, sub, last, x) = p
    <3>1. seenTop = top /\ seenSub = sub
      BY <1>1, <2>1, <2>2, <2>3, ViewSame DEF seenTop, seenSub
    <3> QED
      BY <1>3, <3>1
  <2>4. CASE Live(pool, p) /\ PlaceOf(top, sub, last, x) # p
    <3>1. Moved(x, p)
      BY <1>1, <2>1, <2>2, <2>4, Names DEF AtPool, PlaceOf, HomeOf, Sees, XS
    <3>2. CASE x = "d"
      <4>1. seenTop = [top EXCEPT ![last] = p] /\ seenSub = sub
        BY <1>1, <2>1, <2>2, <2>4, <3>2, ViewMoved DEF seenTop, seenSub
      <4>2. top[last] = "none"
        BY <3>1, <3>2 DEF Moved
      <4>3. b # last => seenTop[b] = top[b]
        BY <1>1, <4>1 DEF Values
      <4> QED
        BY <1>2, <4>1, <4>2, <4>3, Names DEF Sees, At
    <3>3. CASE x = "s"
      <4>1. seenTop = top /\ seenSub = [sub EXCEPT ![HomeOf(top, last)] = p]
        BY <1>1, <2>1, <2>2, <2>4, <3>3, ViewMoved DEF seenTop, seenSub
      <4>2. sub[HomeOf(top, last)] = "none" /\ HomeOf(top, last) \in Backups \cup Pools
        BY <2>2, <3>1, <3>3 DEF Moved, Sees, HomeOf
      <4>3. \A c \in Backups \cup Pools : sub[c] \in Pools => seenSub[c] = sub[c]
        BY <1>1, <4>1, <4>2, Names DEF Values
      <4> QED
        BY <1>2, <4>1, <4>3 DEF Sees
    <3> QED
      BY <2>1, <3>2, <3>3
  <2> QED
    BY <2>3, <2>4
<1> QED
  BY <1>4, <1>5

\* What the inductive invariant says of the table.
LEMMA AgreeingRows ==
    ASSUME IInv
    PROVE  RowsAgree
<1>1. links \subseteq Rows /\ Values(top, sub, pool)
      /\ Agree(seenTop, seenSub, pool, links, renamed)
  BY DEF IInv, TypeInv, TypeOK, Values, Consistent
<1> SUFFICES ASSUME NEW r \in links, Exists(r[1]), AtPath(r[2]) \in Pools
             PROVE  AtPath(r[2]) = r[1]
  BY DEF RowsAgree
<1> DEFINE p == r[1]
           b == r[2][1]
           x == r[2][2]
<1>2. p \in Pools /\ b \in Backups /\ x \in XS /\ Has(links, p, b, x)
  BY <1>1, RowIs DEF Has
<1>3. b \notin renamed /\ AtPath(r[2]) = At(b, x) /\ Live(pool, p)
  BY <1>1, <1>2, Names DEF AtPath, Exists, Live, Values
<1> HIDE DEF p, b, x
<1>4. CASE x = "d"
  <2>1. AtPath(r[2]) = top[b] /\ seenTop[b] = top[b]
    BY <1>2, <1>3, <1>4, ViewPools DEF At
  <2>2. seenTop[b] \in {p, "none"}
    BY <1>1, <1>2, <1>3, <1>4 DEF Agree, Reached
  <2> QED
    BY <2>1, <2>2, Names DEF p
<1>5. CASE x = "s"
  <2>1. Sees(seenTop, seenSub, b) = AtPath(r[2])
    BY <1>2, <1>3, <1>5, ViewPools
  <2>2. Sees(seenTop, seenSub, b) \in {p, "none"}
    BY <1>1, <1>2, <1>3, <1>5 DEF Agree
  <2> QED
    BY <2>1, <2>2, Names DEF p
<1> QED
  BY <1>2, <1>4, <1>5 DEF XS

\* With no operation under way, what is seen is there and every backup counts.
LEMMA IdleFacts ==
    ASSUME IInv, Idle
    PROVE  /\ Consistent(top, sub, pool, links, renamed, Backups \ renamed)
           /\ Values(top, sub, pool) /\ links \subseteq Rows /\ IsFiniteSet(links)
           /\ seenTop = top /\ seenSub = sub
           /\ \A b \in Backups : At(b, "s") = IF top[b] = "none" THEN "none" ELSE Sees(top, sub, b)
           /\ \A p \in Pools, b \in Backups : ~Exempt(p, b)
           /\ \A p \in Pools : Exists(p) <=> Live(pool, p)
<1>1. job.step = "none" /\ up
  BY DEF Idle, NoJob
<1>2. seenTop = top /\ seenSub = sub /\ Values(top, sub, pool)
  BY <1>1, ViewUp, ViewType DEF IInv, TypeInv
<1>3. CountedBackups = Backups \ renamed
  BY <1>1 DEF CountedBackups
<1>4. \A p \in Pools, b \in Backups : ~Exempt(p, b)
  BY <1>1 DEF Exempt, PoolSteps, ForgottenSteps, LinkSteps
<1>5. links \subseteq Rows /\ IsFiniteSet(links)
  BY DEF IInv, TypeInv, TypeOK
<1>6. \A b \in Backups : At(b, "s") = IF top[b] = "none" THEN "none" ELSE Sees(top, sub, b)
  BY <1>2 DEF At, Home, Sees
<1>7. \A p \in Pools : Exists(p) <=> Live(pool, p)
  BY <1>2, Names DEF Exists, Live, Values
<1> QED
  BY <1>2, <1>3, <1>4, <1>5, <1>6, <1>7 DEF IInv

\* Every link that is there has its row.
LEMMA CountedLinks ==
    ASSUME IInv
    PROVE  LinksCounted
<1> SUFFICES ASSUME Idle, NEW r \in Paths, AtPath(r) \in Pools, Exists(AtPath(r))
             PROVE  <<AtPath(r), r>> \in links
  BY DEF LinksCounted
<1> DEFINE b == r[1]
           q == AtPath(r)
<1>1. /\ Consistent(top, sub, pool, links, renamed, Backups \ renamed) /\ Values(top, sub, pool)
      /\ \A c \in Backups : At(c, "s") = IF top[c] = "none" THEN "none" ELSE Sees(top, sub, c)
      /\ \A p \in Pools : Exists(p) <=> Live(pool, p)
  BY IdleFacts
<1>2. b \in Backups /\ r[2] \in XS /\ r = <<b, r[2]>>
  BY DEF Paths, XS
<1>3. b \notin renamed /\ q = At(b, r[2])
  BY Names DEF AtPath
<1>4. q \in Pools /\ Live(pool, q)
  BY <1>1
<1> HIDE DEF b, q
<1>5. CASE r[2] = "d"
  <2>1. Has(links, q, b, "d")
    BY <1>1, <1>2, <1>3, <1>4, <1>5 DEF Consistent, Counted, At
  <2> QED
    BY <1>2, <1>5, <2>1 DEF Has, q
<1>6. CASE r[2] = "s"
  <2>1. q = Sees(top, sub, b) /\ top[b] # "none"
    BY <1>1, <1>2, <1>3, <1>4, <1>6, Names
  <2>2. CASE top[b] = "dir"
    <3>1. Has(links, q, b, "s")
      BY <1>1, <1>2, <1>3, <1>4, <2>1, <2>2, Names DEF Consistent, Counted, Sees
    <3> QED
      BY <1>2, <1>6, <3>1 DEF Has, q
  <2>3. CASE top[b] \in Pools
    <3>1. sub[top[b]] = q
      BY <2>1, <2>3 DEF Sees
    <3>2. Live(pool, top[b])
      BY <1>1, <1>4, <2>3, <3>1, Names DEF Consistent, Shape
    <3>3. Has(links, top[b], b, "d")
      BY <1>1, <1>2, <1>3, <2>3, <3>2 DEF Consistent, Counted
    <3>4. Has(links, q, b, "s")
      BY <1>1, <1>2, <1>4, <2>3, <3>1, <3>3 DEF Consistent, Closed
    <3> QED
      BY <1>2, <1>6, <3>4 DEF Has, q
  <2> QED
    BY <1>1, <1>2, <2>1, <2>2, <2>3 DEF Values, Places
<1> QED
  BY <1>2, <1>5, <1>6 DEF XS

\* Every pool directory has a row.
LEMMA ReferencedPools ==
    ASSUME IInv
    PROVE  PoolsReferenced
<1> SUFFICES ASSUME Idle, NEW p \in Pools, Exists(p) PROVE Refcount(links, p) > 0
  BY DEF PoolsReferenced
<1>1. /\ Consistent(top, sub, pool, links, renamed, Backups \ renamed)
      /\ links \subseteq Rows /\ IsFiniteSet(links) /\ Live(pool, p)
  BY IdleFacts
<1>2. \E b \in Backups, x \in XS : Has(links, p, b, x)
  BY <1>1 DEF Consistent, Referenced, XS
<1> QED
  BY <1>1, <1>2, RefcountIs

\* Without a crash every row is of a link that is there.
LEMMA ShownRows ==
    ASSUME IInv, Idle, ~stale, NEW r \in links
    PROVE  AtPath(r[2]) = r[1]
<1> DEFINE p == r[1]
           b == r[2][1]
           x == r[2][2]
<1>1. /\ Consistent(top, sub, pool, links, renamed, Backups \ renamed)
      /\ links \subseteq Rows /\ seenTop = top /\ seenSub = sub
      /\ \A c \in Backups : At(c, "s") = IF top[c] = "none" THEN "none" ELSE Sees(top, sub, c)
      /\ \A q \in Pools, c \in Backups : ~Exempt(q, c)
  BY IdleFacts
<1>2. p \in Pools /\ b \in Backups /\ x \in XS /\ Has(links, p, b, x)
  BY <1>1, RowIs DEF Has
<1>3. b \notin renamed => AtPath(r[2]) = At(b, x)
  BY DEF AtPath
<1> HIDE DEF p, b, x
<1>4. b \notin renamed /\ Shown(top, sub, p, b, x)
  BY <1>1, <1>2, ExactNow
<1>5. CASE x = "d"
  BY <1>3, <1>4, <1>5 DEF Shown, At, p
<1>6. CASE x = "s"
  <2>1. Sees(top, sub, b) = p
    BY <1>4, <1>6 DEF Shown
  <2>2. top[b] # "none"
    BY <1>1, <1>2, <2>1, Names DEF Consistent, Shape, Sees
  <2> QED
    BY <1>1, <1>2, <1>3, <1>4, <1>6, <2>1, <2>2 DEF p
<1> QED
  BY <1>2, <1>5, <1>6 DEF XS

\* Every path that refers to the parent of the source shows the source.
LEMMA VisibleParents ==
    ASSUME IInv
    PROVE  ParentsVisible
<1> SUFFICES ASSUME ~stale, NEW b \in Backups, Idle, Open(b, "s"), last # 0, At(last, "s") = "dir",
                    NEW r \in links, r[1] = top[last], r[2][2] = "d"
             PROVE  AtPath(<<r[2][1], "s">>) # "none"
  BY DEF ParentsVisible, ParentsExist
<1> DEFINE c == r[2][1]
<1>1. /\ links \subseteq Rows /\ seenTop = top /\ seenSub = sub /\ last \in Backups
      /\ \A p \in Pools, e \in Backups : ~Exempt(p, e)
      /\ \A e \in Backups : At(e, "s") = IF top[e] = "none" THEN "none" ELSE Sees(top, sub, e)
  BY IdleFacts DEF IInv, TypeInv, TypeOK
<1>2. top[last] \in Pools /\ c \in Backups /\ Has(links, top[last], c, "d")
  BY <1>1, RowIs DEF Has
<1> HIDE DEF c
<1>3. c \notin renamed /\ top[c] = top[last]
  BY <1>1, <1>2, ExactNow DEF Shown, XS
<1>4. At(c, "s") = "dir"
  BY <1>1, <1>2, <1>3 DEF Sees
<1>5. AtPath(<<c, "s">>) = At(c, "s")
  BY <1>3 DEF AtPath
<1> QED
  BY <1>4, <1>5 DEF c
===============================================================================
