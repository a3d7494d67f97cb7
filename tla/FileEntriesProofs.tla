-------------------------- MODULE FileEntriesProofs --------------------------
(***************************************************************************)
(* Theorems about FileEntries, for any contents, clients, backups and      *)
(* number of entries: unless the index is deleted by defrag_database, the  *)
(* lists stay linked, what the index names is flagged, and a client is     *)
(* charged for the lists it has; unless links fail, it has one list for a  *)
(* content, with one flag, and a search goes through all of it.            *)
(*                                                                         *)
(* Double linking alone is not inductive: of two entries that name each    *)
(* other on both sides a deletion would leave one that names itself.  The  *)
(* invariant adds that no list runs in a circle, and speaks of the rows    *)
(* that live as the corrections held back by a removal will make them.     *)
(* That lists begin and end is what counting them rests on, and that an    *)
(* entry without neighbours is the last one of its key.                    *)
(***************************************************************************)
EXTENDS FileEntries, FiniteSetTheorems, WellFoundedInduction, TLAPS

(***************************************************************************)
(* Doubly linked lists: the entries in L, with the key K, the previous     *)
(* entry P and the next entry N of each.  None runs in a circle.           *)
(***************************************************************************)
Lists(L, K, P, N) ==
    /\ \A i \in L : N[i] # 0 => N[i] \in L \ {i} /\ K[N[i]] = K[i] /\ P[N[i]] = i
    /\ \A i \in L : P[i] # 0 => P[i] \in L \ {i} /\ K[P[i]] = K[i] /\ N[P[i]] = i
    /\ \A S \in SUBSET L : S # {} => \E i \in S : N[i] \notin S

\* A field of the rows as the corrections held back for it will make it
Field(table, fix, field) ==
    [i \in DOMAIN table |->
        IF <<field, i>> \in DOMAIN fix THEN fix[<<field, i>>] ELSE table[i][field]]

KeyOf(row) == <<Client[row.backup], row.content>>
KeysOf(table) == [i \in DOMAIN table |-> KeyOf(table[i])]

Row == [backup : Backups, content : Contents, prev : Ids \cup {0}, next : Ids \cup {0},
        pointed_to : 0..1]

(***************************************************************************)
(* A table with what is held back for it, the index, and the entries that  *)
(* live: they are linked, and what the index names is flagged.             *)
(***************************************************************************)
Good(table, fix, names, L) ==
    /\ DOMAIN table \subseteq Ids
    /\ table \in [DOMAIN table -> Row]
    /\ L \subseteq DOMAIN table
    /\ Lists(L, KeysOf(table), Field(table, fix, "prev"), Field(table, fix, "next"))
    /\ \A i \in L : Field(table, fix, "pointed_to")[i] \in 0..1
    /\ DOMAIN names = Keys /\ names = [key \in Keys |-> names[key]]
    /\ \A k \in Keys : names[k] # 0 =>
          /\ names[k] \in L
          /\ KeysOf(table)[names[k]] = k
          /\ Field(table, fix, "pointed_to")[names[k]] = 1

\* The rows that have not been removed by the removal that goes on
Live == {i \in DOMAIN rows : rows[i].backup = removal.backup => i \in removal.todo}

\* A file being added: there is room for it, and the row it would follow is as it was read.
JobFields == {"step", "backup", "content", "way", "state", "seen", "orig", "others", "tried"}

IsJob ==
    /\ job = [field \in JobFields |-> job[field]]
    /\ job.step \in {"find", "link", "store"}
    /\ job.backup \in Backups
    /\ job.content \in Contents
    /\ job.tried \in BOOLEAN
    /\ \A i \in DOMAIN rows : i < MaxEntries
    /\ job.step \in {"find", "link"} => removal = NoRemoval
    /\ job.step = "link" =>
          /\ job.seen.id \in DOMAIN rows
          /\ rows[job.seen.id].content = job.content
          /\ rows[job.seen.id].prev = job.seen.prev
          /\ rows[job.seen.id].next = job.seen.next

\* The rows within the range of a removal are still what they were when its cursor was opened,
\* and only of these is anything held back.
IsRemoval ==
    /\ removal = [field \in {"backup", "todo", "range", "fix", "before"} |-> removal[field]]
    /\ removal.backup \in Backups
    /\ removal.todo \subseteq removal.range \cap DOMAIN rows
    /\ \A i \in removal.todo : rows[i].backup = removal.backup
    /\ \A i \in removal.range \cap DOMAIN rows, field \in Fields :
          i \in DOMAIN removal.before /\ removal.before[i][field] = rows[i][field]
    /\ DOMAIN removal.fix \subseteq Fields \X removal.range

\* Before the index is made each row is linked to its neighbours in the order of the rebuild,
\* or not at all.
Upgraded ==
    /\ DOMAIN rows \subseteq Ids
    /\ rows \in [DOMAIN rows -> Row]
    /\ \A i \in DOMAIN rows : rows[i].prev \in {0, Older(i)} /\ rows[i].next \in {0, Newer(i)}
    /\ index \in [Keys -> Ids \cup {0}]
    /\ removal = NoRemoval

\* The table while it has an index, in every state of a removal
InOrder ==
    /\ job = NoJob \/ IsJob
    /\ removal = NoRemoval \/ IsRemoval
    /\ Good(rows, removal.fix, index, Live)

ListInv == setting \in SettingType /\ (~setting.defrag => (job = NoIndex /\ Upgraded) \/ InOrder)
-------------------------------------------------------------------------------
(* The largest of some ids *)

\* A finite set of integers has a largest element.
LEMMA MaximumExists ==
    ASSUME NEW ids, ids \subseteq Int, IsFiniteSet(ids), ids # {}
    PROVE  \E i \in ids : \A j \in ids : j <= i
<1> DEFINE Above(i) == {j \in ids : i <= j}
           All == {Above(i) : i \in ids}
<1>1. All \subseteq FiniteSubsetsOf(ids) /\ All # {}
  <2>1. \A i \in ids : Above(i) \in SUBSET ids
    OBVIOUS
  <2>2. \A i \in ids : IsFiniteSet(Above(i))
    BY <2>1, FS_Subset
  <2>3. \A i \in ids : Above(i) \in FiniteSubsetsOf(ids)
    BY <2>1, <2>2 DEF FiniteSubsetsOf
  <2> QED
    BY <2>3
<1>2. PICK x \in All : \A y \in All : ~(<<y, x>> \in StrictSubsetOrdering(ids))
  <2> HIDE DEF All
  <2> QED
    BY <1>1, FS_StrictSubsetOrderingWellFounded, WFMin
<1>3. PICK i \in ids : x = Above(i)
  OBVIOUS
<1>4. ASSUME NEW j \in ids, ~(j <= i) PROVE FALSE
  <2>1. i \in Int /\ j \in Int
    OBVIOUS
  <2>2. \A m \in Above(j) : m \in Above(i)
    <3> SUFFICES ASSUME NEW m \in ids, j <= m PROVE i <= m
      OBVIOUS
    <3>1. m \in Int
      OBVIOUS
    <3> QED
      BY <1>4, <2>1, <3>1
  <2>3. i \in Above(i) /\ i \notin Above(j)
    BY <1>4, <2>1
  <2>4. <<Above(j), x>> \in StrictSubsetOrdering(ids)
    BY <1>3, <2>2, <2>3 DEF StrictSubsetOrdering
  <2> QED
    BY <1>2, <2>4
<1> QED
  BY <1>4

\* What Largest returns
LEMMA LargestIs ==
    ASSUME NEW ids, ids \subseteq Ids
    PROVE  /\ ids = {} => Largest(ids) = 0
           /\ ids # {} => Largest(ids) \in ids /\ \A j \in ids : j <= Largest(ids)
<1>1. IsFiniteSet(ids)
  <2>1. IsFiniteSet(Ids)
    BY EntriesAssumption, FS_Interval DEF Ids
  <2> QED
    BY <2>1, FS_Subset
<1>2. ids \subseteq Int
  BY EntriesAssumption DEF Ids
<1>3. ids # {} => \E i \in ids : \A j \in ids : j <= i
  BY <1>1, <1>2, MaximumExists
<1>4. ids # {} => Largest(ids) \in ids /\ \A j \in ids : j <= Largest(ids)
  BY <1>3 DEF Largest
<1> QED
  BY <1>4 DEF Largest

\* Some ids have a least one.
LEMMA LeastExists ==
    ASSUME NEW ids, ids \subseteq Ids, ids # {}
    PROVE  \E i \in ids : \A j \in ids : i <= j
<1> DEFINE mirror == {MaxEntries + 1 - j : j \in ids}
<1>1. mirror \subseteq Ids /\ mirror # {}
  <2>1. \A j \in ids : MaxEntries + 1 - j \in Ids
    BY EntriesAssumption DEF Ids
  <2> QED
    BY <2>1
<1>2. Largest(mirror) \in mirror /\ \A m \in mirror : m <= Largest(mirror)
  <2> HIDE DEF mirror
  <2> QED
    BY <1>1, LargestIs
<1>3. PICK i \in ids : Largest(mirror) = MaxEntries + 1 - i
  BY <1>2
<1>4. ASSUME NEW j \in ids PROVE i <= j
  <2>1. MaxEntries + 1 - j <= MaxEntries + 1 - i
    BY <1>2, <1>3
  <2>2. i \in Int /\ j \in Int
    BY EntriesAssumption DEF Ids
  <2> QED
    BY EntriesAssumption, <2>1, <2>2
<1> QED
  BY <1>4

\* A new id is larger than every id in use.
LEMMA NewIdIs ==
    ASSUME DOMAIN rows \subseteq Ids
    PROVE  /\ NewId \in Nat \ {0} /\ NewId \notin DOMAIN rows
           /\ \A i \in DOMAIN rows : i < NewId
           /\ (\A i \in DOMAIN rows : i < MaxEntries) => NewId \in Ids
<1>1. \/ DOMAIN rows = {} /\ NewId = 1
      \/ NewId = Largest(DOMAIN rows) + 1 /\ Largest(DOMAIN rows) \in DOMAIN rows
         /\ \A i \in DOMAIN rows : i <= Largest(DOMAIN rows)
  BY LargestIs DEF NewId
<1> QED
  BY <1>1, EntriesAssumption DEF Ids

-------------------------------------------------------------------------------
\* An entry leaves its list.
LEMMA Left ==
    ASSUME NEW L, NEW K, NEW P, NEW N, NEW K2, NEW P2, NEW N2, NEW e \in L,
           Lists(L, K, P, N), 0 \notin L,
           \A j \in L \ {e} : /\ K2[j] = K[j]
                              /\ P2[j] = IF j = N[e] THEN P[e] ELSE P[j]
                              /\ N2[j] = IF j = P[e] THEN N[e] ELSE N[j]
    PROVE  Lists(L \ {e}, K2, P2, N2)
<1>1. N[e] # P[e] \/ N[e] = 0
  <2> SUFFICES ASSUME N[e] = P[e], N[e] # 0 PROVE FALSE
    OBVIOUS
  <2>1. {e, N[e]} \in SUBSET L
    BY DEF Lists
  <2>2. PICK i \in {e, N[e]} : N[i] \notin {e, N[e]}
    BY <2>1 DEF Lists
  <2>3. N[N[e]] = e
    BY DEF Lists
  <2> QED
    BY <2>2, <2>3
<1>2. ASSUME NEW i \in L \ {e}, N2[i] # 0
      PROVE  N2[i] \in (L \ {e}) \ {i} /\ K2[N2[i]] = K2[i] /\ P2[N2[i]] = i
  <2>1. CASE i = P[e]
    BY <1>1, <1>2, <2>1 DEF Lists
  <2>2. CASE i # P[e]
    BY <1>2, <2>2 DEF Lists
  <2> QED
    BY <2>1, <2>2
<1>3. ASSUME NEW i \in L \ {e}, P2[i] # 0
      PROVE  P2[i] \in (L \ {e}) \ {i} /\ K2[P2[i]] = K2[i] /\ N2[P2[i]] = i
  <2>1. CASE i = N[e]
    BY <1>1, <1>3, <2>1 DEF Lists
  <2>2. CASE i # N[e]
    BY <1>3, <2>2 DEF Lists
  <2> QED
    BY <2>1, <2>2
<1>4. ASSUME NEW S \in SUBSET (L \ {e}), S # {}, \A i \in S : N2[i] \in S
      PROVE  FALSE
  <2>1. CASE P[e] \in S
    <3>1. S \cup {e} \in SUBSET L
      OBVIOUS
    <3>2. PICK i \in S \cup {e} : N[i] \notin S \cup {e}
      BY <3>1 DEF Lists
    <3>3. N[e] \in S
      BY <1>4, <2>1
    <3>4. i \in S
      BY <3>2, <3>3
    <3>5. N[i] # e
      BY <3>2
    <3>6. i # P[e]
      BY <2>1, <3>2, <3>3 DEF Lists
    <3>7. N2[i] = N[i]
      BY <3>4, <3>6
    <3> QED
      BY <1>4, <3>2, <3>4, <3>7
  <2>2. CASE P[e] \notin S
    <3>1. PICK i \in S : N[i] \notin S
      BY <1>4 DEF Lists
    <3> QED
      BY <1>4, <2>2, <3>1
  <2> QED
    BY <2>1, <2>2
<1> QED
  BY <1>2, <1>3, <1>4 DEF Lists

\* An entry comes behind p, or begins a list.
LEMMA Entered ==
    ASSUME NEW L, NEW K, NEW P, NEW N, NEW K2, NEW P2, NEW N2, NEW i, NEW p,
           Lists(L, K, P, N), 0 \notin L, i \notin L, i # 0,
           p = 0 \/ (p \in L /\ K[p] = K2[i]),
           P2[i] = p, N2[i] = IF p = 0 THEN 0 ELSE N[p],
           \A j \in L : /\ K2[j] = K[j]
                        /\ P2[j] = IF j = N2[i] THEN i ELSE P[j]
                        /\ N2[j] = IF j = p THEN i ELSE N[j]
    PROVE  Lists(L \cup {i}, K2, P2, N2)
<1>1. ASSUME NEW j \in L \cup {i}, N2[j] # 0
      PROVE  N2[j] \in (L \cup {i}) \ {j} /\ K2[N2[j]] = K2[j] /\ P2[N2[j]] = j
  <2>1. CASE j = i
    BY <1>1, <2>1 DEF Lists
  <2>2. CASE j = p
    BY <1>1, <2>2 DEF Lists
  <2>3. CASE j \notin {i, p}
    BY <1>1, <2>3 DEF Lists
  <2> QED
    BY <2>1, <2>2, <2>3
<1>2. ASSUME NEW j \in L \cup {i}, P2[j] # 0
      PROVE  P2[j] \in (L \cup {i}) \ {j} /\ K2[P2[j]] = K2[j] /\ N2[P2[j]] = j
  <2>1. CASE j = i
    BY <1>2, <2>1 DEF Lists
  <2>2. CASE j = N2[i] /\ j # i
    BY <1>2, <2>2 DEF Lists
  <2>3. CASE j \notin {i, N2[i]}
    BY <1>2, <2>3 DEF Lists
  <2> QED
    BY <2>1, <2>2, <2>3
<1>3. ASSUME NEW S \in SUBSET (L \cup {i}), S # {}, \A j \in S : N2[j] \in S
      PROVE  FALSE
  <2>1. CASE i \in S
    <3>1. N2[i] \in S /\ N2[i] # i
      BY <1>1, <1>3, <2>1
    <3>2. S \ {i} \in SUBSET L /\ S \ {i} # {} /\ p # 0
      BY <3>1
    <3>3. PICK j \in S \ {i} : N[j] \notin S \ {i}
      BY <3>2 DEF Lists
    <3>4. N[j] # i
      BY <3>2, <3>3 DEF Lists
    <3> QED
      BY <1>3, <3>1, <3>2, <3>3, <3>4
  <2>2. CASE i \notin S
    <3>1. S \in SUBSET L
      BY <2>2
    <3>2. PICK j \in S : N[j] \notin S
      BY <1>3, <3>1 DEF Lists
    <3> QED
      BY <1>3, <2>2, <3>1, <3>2
  <2> QED
    BY <2>1, <2>2
<1> QED
  BY <1>1, <1>2, <1>3 DEF Lists

\* The lists depend on nothing else.
LEMMA Same ==
    ASSUME NEW L, NEW K, NEW P, NEW N, NEW K2, NEW P2, NEW N2, Lists(L, K, P, N),
           \A j \in L : K2[j] = K[j] /\ P2[j] = P[j] /\ N2[j] = N[j]
    PROVE  Lists(L, K2, P2, N2)
BY DEF Lists

-------------------------------------------------------------------------------
(* What a change of one field leaves alone: Set, Store *)

\* The key of a row is a client and a content.
LEMMA KeysAre ==
    ASSUME NEW table, table \in [DOMAIN table -> Row], NEW i \in DOMAIN table
    PROVE  /\ KeysOf(table)[i] = <<Client[table[i].backup], table[i].content>>
           /\ KeysOf(table)[i] \in Keys
           /\ \E l \in Clients, c \in Contents : KeysOf(table)[i] = <<l, c>>
<1>1. KeysOf(table)[i] = <<Client[table[i].backup], table[i].content>>
  BY DEF KeysOf, KeyOf
<1>2. table[i].backup \in Backups /\ table[i].content \in Contents
  BY DEF Row
<1>3. Client[table[i].backup] \in Clients
  BY <1>2 DEF Clients
<1> QED
  BY <1>1, <1>2, <1>3 DEF Keys

\* A value for a field of a row
Fits(field, value) ==
    \/ field \in {"prev", "next"} /\ value \in Ids \cup {0}
    \/ field = "pointed_to" /\ value \in 0..1

\* An UPDATE of one field changes no other field and no key.
LEMMA SetIs ==
    ASSUME NEW table, table \in [DOMAIN table -> Row], NEW i, NEW field, NEW value,
           Fits(field, value), NEW new, new = Set(table, i, field, value)
    PROVE  /\ new \in [DOMAIN table -> Row]
           /\ KeysOf(new) = KeysOf(table)
           /\ \A j \in DOMAIN table : /\ new[j].backup = table[j].backup
                                      /\ j # i => new[j] = table[j]
           /\ \A j \in DOMAIN table, g \in Fields :
                 new[j][g] = IF j = i /\ g = field THEN value ELSE table[j][g]
<1>1. new \in [DOMAIN table -> Row]
  BY DEF Set, Row, Fits
<1>2. \A j \in DOMAIN table : new[j].backup = table[j].backup /\ new[j].content = table[j].content
  BY DEF Set, Row, Fits
<1>3. \A j \in DOMAIN table, g \in Fields :
         new[j][g] = IF j = i /\ g = field THEN value ELSE table[j][g]
  BY DEF Set, Row, Fits, Fields
<1>4. \A j \in DOMAIN table : j # i => new[j] = table[j]
  BY DEF Set
<1>5. KeysOf(new) = KeysOf(table)
  <2>1. DOMAIN new = DOMAIN table
    BY <1>1
  <2> QED
    BY <1>2, <2>1 DEF KeysOf, KeyOf
<1> QED
  BY <1>1, <1>2, <1>3, <1>4, <1>5

\* What every step of a deletion makes of the table and of what is held back for it
Kept(db, new, range) ==
    /\ new = [rows |-> new.rows, index |-> new.index, charged |-> new.charged, fix |-> new.fix]
    /\ DOMAIN new.rows = DOMAIN db.rows
    /\ new.rows \in [DOMAIN db.rows -> Row]
    /\ KeysOf(new.rows) = KeysOf(db.rows)
    /\ \A j \in DOMAIN db.rows : new.rows[j].backup = db.rows[j].backup
    /\ \A j \in range \cap DOMAIN db.rows : new.rows[j] = db.rows[j]
    /\ DOMAIN new.fix \subseteq Fields \X range

\* A change of one field, made or held back, is what the corrected row shows from then on; the
\* rows within range stay as they are.
LEMMA StoreIs ==
    ASSUME NEW db, NEW range, Kept(db, db, range), NEW i \in DOMAIN db.rows,
           NEW field, NEW value, Fits(field, value),
           NEW new, new = Store(db, range, i, field, value)
    PROVE  /\ Kept(db, new, range)
           /\ new.index = db.index /\ new.charged = db.charged
           /\ \A j \in DOMAIN db.rows, g \in Fields :
                 Field(new.rows, new.fix, g)[j] =
                     IF j = i /\ g = field THEN value ELSE Field(db.rows, db.fix, g)[j]
<1>0. field \in Fields
  BY DEF Fits, Fields
<1>1. CASE i \in range
  <2>1. new = [rows |-> db.rows, index |-> db.index, charged |-> db.charged,
               fix |-> With(db.fix, <<field, i>>, value)]
    BY <1>1 DEF Store, Kept
  <2>2. \A j \in DOMAIN db.rows, g \in Fields :
           <<g, j>> = <<field, i>> <=> (j = i /\ g = field)
    OBVIOUS
  <2>3. \A j \in DOMAIN db.rows, g \in Fields :
           /\ <<g, j>> \in DOMAIN new.fix <=> (<<g, j>> \in DOMAIN db.fix \/ (j = i /\ g = field))
           /\ <<g, j>> \in DOMAIN new.fix =>
                 new.fix[<<g, j>>] = IF j = i /\ g = field THEN value ELSE db.fix[<<g, j>>]
    BY <2>1, <2>2 DEF With
  <2>4. DOMAIN new.fix \subseteq Fields \X range
    BY <1>0, <1>1, <2>1 DEF With, Kept
  <2>5. Kept(db, new, range) /\ new.index = db.index /\ new.charged = db.charged
    BY <2>1, <2>4 DEF Kept
  <2> QED
    BY <2>1, <2>3, <2>5 DEF Field
<1>2. CASE i \notin range
  <2>1. new = [rows |-> Set(db.rows, i, field, value), index |-> db.index,
               charged |-> db.charged, fix |-> db.fix]
    BY <1>2 DEF Store, Kept
  <2>2. <<field, i>> \notin DOMAIN db.fix
    BY <1>2 DEF Kept
  <2>3. db.rows \in [DOMAIN db.rows -> Row]
    BY DEF Kept
  <2>4. /\ new.rows \in [DOMAIN db.rows -> Row]
        /\ KeysOf(new.rows) = KeysOf(db.rows)
        /\ \A j \in DOMAIN db.rows : /\ new.rows[j].backup = db.rows[j].backup
                                     /\ j # i => new.rows[j] = db.rows[j]
        /\ \A j \in DOMAIN db.rows, g \in Fields :
              new.rows[j][g] = IF j = i /\ g = field THEN value ELSE db.rows[j][g]
    BY <2>1, <2>3, SetIs
  <2>5. Kept(db, new, range) /\ new.index = db.index /\ new.charged = db.charged
    BY <1>2, <2>1, <2>4 DEF Kept
  <2> QED
    BY <2>1, <2>2, <2>4, <2>5 DEF Field
<1> QED
  BY <1>1, <1>2

\* Steps that keep the table keep it together.
LEMMA KeptOn ==
    ASSUME NEW db, NEW mid, NEW new, NEW range, Kept(db, mid, range)
    PROVE  /\ Kept(mid, mid, range)
           /\ Kept(mid, new, range) => Kept(db, new, range)
BY DEF Kept

-------------------------------------------------------------------------------
(* Deletion: the entry e leaves the lists. *)

\* The neighbours of the entry are linked to each other.
LEMMA UnlinkIs ==
    ASSUME NEW db, NEW range, Kept(db, db, range), DOMAIN db.rows \subseteq Ids,
           NEW e, e.prev \in DOMAIN db.rows \cup {0}, e.next \in DOMAIN db.rows \cup {0},
           NEW new, new = Unlink(db, e, range)
    PROVE  /\ Kept(db, new, range)
           /\ new.index = db.index /\ new.charged = db.charged
           /\ \A j \in DOMAIN db.rows :
                 /\ Field(new.rows, new.fix, "prev")[j] =
                       IF j = e.next THEN e.prev ELSE Field(db.rows, db.fix, "prev")[j]
                 /\ Field(new.rows, new.fix, "next")[j] =
                       IF j = e.prev THEN e.next ELSE Field(db.rows, db.fix, "next")[j]
                 /\ Field(new.rows, new.fix, "pointed_to")[j] =
                       Field(db.rows, db.fix, "pointed_to")[j]
<1> DEFINE mid == IF e.next = 0 THEN db ELSE Store(db, range, e.next, "prev", e.prev)
<1>0. /\ 0 \notin DOMAIN db.rows
      /\ Fits("prev", e.prev) /\ Fits("next", e.next)
      /\ "prev" \in Fields /\ "next" \in Fields /\ "pointed_to" \in Fields
  BY EntriesAssumption DEF Fits, Ids, Fields
<1>1. /\ Kept(db, mid, range)
      /\ mid.index = db.index /\ mid.charged = db.charged
      /\ \A j \in DOMAIN db.rows, g \in Fields :
            Field(mid.rows, mid.fix, g)[j] =
                IF j = e.next /\ g = "prev" THEN e.prev ELSE Field(db.rows, db.fix, g)[j]
  <2>1. CASE e.next = 0
    BY <1>0, <2>1
  <2>2. CASE e.next # 0
    <3>1. mid = Store(db, range, e.next, "prev", e.prev)
      BY <2>2
    <3> HIDE DEF mid
    <3> QED
      BY <1>0, <2>2, <3>1, StoreIs
  <2> QED
    BY <2>1, <2>2
<1>2. new = IF e.prev = 0 THEN mid ELSE Store(mid, range, e.prev, "next", e.next)
  BY DEF Unlink
<1> HIDE DEF mid
<1>3. DOMAIN mid.rows = DOMAIN db.rows /\ Kept(mid, mid, range)
  BY <1>1, KeptOn DEF Kept
<1>4. /\ Kept(mid, new, range)
      /\ new.index = mid.index /\ new.charged = mid.charged
      /\ \A j \in DOMAIN db.rows, g \in Fields :
            Field(new.rows, new.fix, g)[j] =
                IF j = e.prev /\ g = "next" THEN e.next ELSE Field(mid.rows, mid.fix, g)[j]
  <2>1. CASE e.prev = 0
    BY <1>0, <1>2, <1>3, <2>1
  <2>2. CASE e.prev # 0
    BY <1>0, <1>2, <1>3, <2>2, StoreIs
  <2> QED
    BY <2>1, <2>2
<1>5. Kept(db, new, range)
  BY <1>1, <1>4, KeptOn
<1> QED
  BY <1>0, <1>1, <1>4, <1>5

\* The entry to be deleted as its reader saw it, the rows with the corrections fix; from here on
\* none of these is used for it.
Seen(db, fix, L, e) ==
    /\ Good(db.rows, fix, db.index, L)
    /\ e.id \in L
    /\ e.key = KeysOf(db.rows)[e.id]
    /\ e.prev = Field(db.rows, fix, "prev")[e.id]
    /\ e.next = Field(db.rows, fix, "next")[e.id]
    /\ e.pointed_to = Field(db.rows, fix, "pointed_to")[e.id]
    /\ \A j \in L \ {e.id}, g \in Fields :
          Field(db.rows, db.fix, g)[j] = Field(db.rows, fix, g)[j]

\* The index and the flags when the entry e has lost its own
Disowned(db, fix, L, e, range) ==
    IF e.prev = 0 /\ e.next = 0 THEN LastEntry(db, e)
    ELSE IF e.pointed_to = 1 THEN PassFlag(db, e, range)
    ELSE db

\* Before the entry is unlinked no index names it, and what the index names of its list is
\* flagged (deleteFileSQL, server_hash.cpp:508, 517).
LEMMA DisownedIs ==
    ASSUME NEW db, NEW range, Kept(db, db, range), NEW fix, NEW L, NEW e, Seen(db, fix, L, e),
           NEW new, new = Disowned(db, fix, L, e, range)
    PROVE  /\ Kept(db, new, range)
           /\ \A j \in L \ {e.id}, g \in {"prev", "next"} :
                 Field(new.rows, new.fix, g)[j] = Field(db.rows, fix, g)[j]
           /\ \A j \in L \ {e.id} : Field(new.rows, new.fix, "pointed_to")[j] \in 0..1
           /\ DOMAIN new.index = Keys /\ new.index = [key \in Keys |-> new.index[key]]
           /\ \A k \in Keys : new.index[k] # 0 =>
                 /\ new.index[k] \in L \ {e.id}
                 /\ KeysOf(new.rows)[new.index[k]] = k
                 /\ Field(new.rows, new.fix, "pointed_to")[new.index[k]] = 1
<1>0. /\ "prev" \in Fields /\ "next" \in Fields /\ "pointed_to" \in Fields
      /\ L \subseteq DOMAIN db.rows /\ 0 \notin DOMAIN db.rows
  BY EntriesAssumption DEF Seen, Good, Ids, Fields
<1>1. /\ e.key \in Keys
      /\ \E l \in Clients, c \in Contents : e.key = <<l, c>>
  BY KeysAre DEF Seen, Good
<1>2. \A k \in Keys : db.index[k] = e.id => k = e.key /\ e.pointed_to = 1
  BY <1>0 DEF Seen, Good
<1>3. \A k \in Keys : db.index[k] # 0 =>
         /\ db.index[k] \in L
         /\ KeysOf(db.rows)[db.index[k]] = k
         /\ db.index[k] # e.id => Field(db.rows, db.fix, "pointed_to")[db.index[k]] = 1
  BY <1>0 DEF Seen, Good
<1>4. /\ \A j \in L \ {e.id}, g \in Fields :
            Field(db.rows, db.fix, g)[j] = Field(db.rows, fix, g)[j]
      /\ \A j \in L \ {e.id} : Field(db.rows, db.fix, "pointed_to")[j] \in 0..1
      /\ DOMAIN db.index = Keys /\ db.index = [key \in Keys |-> db.index[key]]
  BY <1>0 DEF Seen, Good
<1>5. CASE e.prev = 0 /\ e.next = 0
  <2>1. /\ new = [rows |-> db.rows, index |-> new.index, charged |-> new.charged, fix |-> db.fix]
        /\ new.index = [db.index EXCEPT ![e.key] =
              IF /\ e.pointed_to = 1
                 /\ \E l \in Clients : db.index[<<l, e.key[2]>>] # 0
                 /\ @ \in {0, e.id}
              THEN 0 ELSE @]
    BY <1>5 DEF Disowned, LastEntry, Kept
  <2>2. \A k \in Keys : new.index[k] # 0 => new.index[k] = db.index[k] /\ new.index[k] # e.id
    <3> SUFFICES ASSUME NEW k \in Keys, db.index[k] # 0, new.index[k] # 0
                 PROVE  new.index[k] = db.index[k] /\ db.index[k] # e.id
      BY <1>1, <1>4, <2>1
    <3>1. CASE k # e.key
      BY <1>2, <1>4, <2>1, <3>1
    <3>2. CASE k = e.key
      BY <1>1, <1>2, <1>4, <2>1, <3>2
    <3> QED
      BY <3>1, <3>2
  <2>3. Kept(db, new, range)
    <3>1. /\ new = [rows |-> new.rows, index |-> new.index, charged |-> new.charged,
                    fix |-> new.fix]
          /\ new.rows = db.rows /\ new.fix = db.fix
      BY <2>1
    <3> QED
      BY <3>1 DEF Kept
  <2>4. PICK value : new.index = [db.index EXCEPT ![e.key] = value]
    BY <2>1
  <2>5. DOMAIN new.index = Keys /\ new.index = [key \in Keys |-> new.index[key]]
    BY <1>4, <2>4
  <2>6. new.rows = db.rows /\ new.fix = db.fix
    BY <2>1
  <2> QED
    BY <1>0, <1>3, <1>4, <2>2, <2>3, <2>5, <2>6
<1>6. CASE ~(e.prev = 0 /\ e.next = 0) /\ e.pointed_to = 1
  <2> DEFINE heir == IF e.next \notin {0, e.id} THEN e.next ELSE e.prev
             mid == Store(db, range, heir, "pointed_to", 1)
  <2>1. heir \in L \ {e.id} /\ KeysOf(db.rows)[heir] = e.key
    BY <1>6 DEF Seen, Good, Lists
  <2>2. new = [mid EXCEPT !.index[e.key] = heir]
    BY <1>6, <2>1 DEF Disowned, PassFlag
  <2> HIDE DEF heir
  <2>3. /\ Kept(db, mid, range)
        /\ mid.index = db.index
        /\ \A j \in DOMAIN db.rows, g \in Fields :
              Field(mid.rows, mid.fix, g)[j] =
                  IF j = heir /\ g = "pointed_to" THEN 1 ELSE Field(db.rows, db.fix, g)[j]
    <3>1. heir \in DOMAIN db.rows /\ Fits("pointed_to", 1)
      BY <1>0, <2>1 DEF Fits
    <3> QED
      BY <3>1, StoreIs
  <2> HIDE DEF mid
  <2>4. /\ new = [rows |-> mid.rows, index |-> new.index, charged |-> mid.charged, fix |-> mid.fix]
        /\ new.index = [db.index EXCEPT ![e.key] = heir]
    BY <2>2, <2>3 DEF Kept
  <2>5. Kept(db, new, range)
    BY <2>3, <2>4 DEF Kept
  <2>6. KeysOf(new.rows) = KeysOf(db.rows)
    BY <2>5 DEF Kept
  <2>7. ASSUME NEW k \in Keys, new.index[k] # 0
        PROVE  /\ new.index[k] \in L \ {e.id}
               /\ KeysOf(new.rows)[new.index[k]] = k
               /\ Field(new.rows, new.fix, "pointed_to")[new.index[k]] = 1
    <3>1. CASE k = e.key
      <4>1. new.index[k] = heir
        BY <1>1, <1>4, <2>4, <3>1
      <4> QED
        BY <1>0, <2>1, <2>3, <2>4, <2>6, <3>1, <4>1
    <3>2. CASE k # e.key
      <4>1. new.index[k] = db.index[k] /\ db.index[k] # e.id
        BY <1>2, <1>4, <2>4, <3>2
      <4> QED
        BY <1>0, <1>3, <2>3, <2>4, <2>6, <2>7, <4>1
    <3> QED
      BY <3>1, <3>2
  <2>8. DOMAIN new.index = Keys /\ new.index = [key \in Keys |-> new.index[key]]
    BY <1>4, <2>4
  <2> QED
    BY <1>0, <1>4, <2>3, <2>4, <2>5, <2>7, <2>8
<1>7. CASE ~(e.prev = 0 /\ e.next = 0) /\ e.pointed_to # 1
  <2>1. new = db
    BY <1>7 DEF Disowned
  <2> QED
    BY <1>0, <1>2, <1>3, <1>4, <1>7, <2>1
<1> QED
  BY <1>5, <1>6, <1>7

\* deleteFileSQL leaves the other entries in order, whatever part of what it changes is held back.
LEMMA DeleteEntryIs ==
    ASSUME NEW db, NEW range, Kept(db, db, range), NEW fix, NEW L, NEW e, Seen(db, fix, L, e),
           NEW new, new = DeleteEntry(db, e, range)
    PROVE  Kept(db, new, range) /\ Good(new.rows, new.fix, new.index, L \ {e.id})
<1> DEFINE mid == Disowned(db, fix, L, e, range)
<1>1. new = Unlink(mid, e, range)
  BY DEF DeleteEntry, Disowned
<1> HIDE DEF mid
<1>2. mid = Disowned(db, fix, L, e, range)
  BY DEF mid
<1>3. /\ Kept(db, mid, range)
      /\ \A j \in L \ {e.id}, g \in {"prev", "next"} :
            Field(mid.rows, mid.fix, g)[j] = Field(db.rows, fix, g)[j]
      /\ \A j \in L \ {e.id} : Field(mid.rows, mid.fix, "pointed_to")[j] \in 0..1
      /\ DOMAIN mid.index = Keys /\ mid.index = [key \in Keys |-> mid.index[key]]
      /\ \A k \in Keys : mid.index[k] # 0 =>
            /\ mid.index[k] \in L \ {e.id}
            /\ KeysOf(mid.rows)[mid.index[k]] = k
            /\ Field(mid.rows, mid.fix, "pointed_to")[mid.index[k]] = 1
  BY <1>2, DisownedIs
<1>4. /\ Kept(mid, mid, range)
      /\ DOMAIN mid.rows = DOMAIN db.rows
      /\ KeysOf(mid.rows) = KeysOf(db.rows)
  BY <1>3, KeptOn DEF Kept
<1>5. /\ L \subseteq DOMAIN db.rows
      /\ DOMAIN db.rows \subseteq Ids
      /\ e.prev \in L \cup {0} /\ e.next \in L \cup {0}
  BY DEF Seen, Good, Lists
<1>6. /\ Kept(mid, new, range)
      /\ new.index = mid.index
      /\ \A j \in DOMAIN db.rows :
            /\ Field(new.rows, new.fix, "prev")[j] =
                  IF j = e.next THEN e.prev ELSE Field(mid.rows, mid.fix, "prev")[j]
            /\ Field(new.rows, new.fix, "next")[j] =
                  IF j = e.prev THEN e.next ELSE Field(mid.rows, mid.fix, "next")[j]
            /\ Field(new.rows, new.fix, "pointed_to")[j] =
                  Field(mid.rows, mid.fix, "pointed_to")[j]
  BY <1>1, <1>4, <1>5, UnlinkIs
<1>7. /\ Kept(db, new, range)
      /\ KeysOf(new.rows) = KeysOf(db.rows)
      /\ DOMAIN new.rows = DOMAIN db.rows
      /\ new.rows \in [DOMAIN new.rows -> Row]
  BY <1>3, <1>6, KeptOn DEF Kept
<1>8. Lists(L \ {e.id}, KeysOf(new.rows), Field(new.rows, new.fix, "prev"),
            Field(new.rows, new.fix, "next"))
  <2> DEFINE K == KeysOf(db.rows)
             P == Field(db.rows, fix, "prev")
             N == Field(db.rows, fix, "next")
             P2 == Field(new.rows, new.fix, "prev")
             N2 == Field(new.rows, new.fix, "next")
  <2>1. Lists(L, K, P, N) /\ e.id \in L /\ 0 \notin L /\ e.prev = P[e.id] /\ e.next = N[e.id]
    BY EntriesAssumption DEF Seen, Good, Ids
  <2>2. \A j \in L \ {e.id} : /\ P2[j] = IF j = N[e.id] THEN P[e.id] ELSE P[j]
                              /\ N2[j] = IF j = P[e.id] THEN N[e.id] ELSE N[j]
    BY <1>3, <1>5, <1>6, <2>1
  <2> HIDE DEF K, P, N, P2, N2
  <2>3. Lists(L \ {e.id}, K, P2, N2)
    BY <2>1, <2>2, Left
  <2> QED
    BY <1>7, <2>3 DEF K, P2, N2
<1> QED
  BY <1>3, <1>4, <1>5, <1>6, <1>7, <1>8 DEF Good

-------------------------------------------------------------------------------
(* Addition: a new entry comes behind another one, or begins a list. *)

\* With nothing held back a field is what the table has.
LEMMA NoFixIs ==
    ASSUME NEW table, NEW field, NEW i \in DOMAIN table
    PROVE  Field(table, NoFix, field)[i] = table[i][field]
BY DEF Field, NoFix

\* What it may follow, as addFileSQL is called: nothing, or a row with its content.
Behind(c, prev, owner, next) ==
    \/ prev = 0 /\ owner = 0 /\ next = 0
    \/ /\ prev \in DOMAIN rows
       /\ rows[prev].content = c
       /\ owner = Client[rows[prev].backup]
       /\ next = rows[prev].next

\* Taking the flag away changes no list and no flag of another list; the one it is taken from is
\* p, or the entry of the index if p has none.
LEMMA UnflagIs ==
    ASSUME Good(rows, NoFix, index, DOMAIN rows), NEW k \in Keys, NEW p,
           p # 0 => p \in DOMAIN rows /\ KeysOf(rows)[p] = k,
           NEW table, table = Unflag(k, p)
    PROVE  /\ table \in [DOMAIN rows -> Row]
           /\ KeysOf(table) = KeysOf(rows)
           /\ \A j \in DOMAIN rows :
                 /\ table[j].prev = rows[j].prev /\ table[j].next = rows[j].next
                 /\ KeysOf(rows)[j] # k => table[j].pointed_to = rows[j].pointed_to
                 /\ table[j].pointed_to = 1 =>
                       /\ rows[j].pointed_to = 1
                       /\ p # 0 => j # IF rows[p].pointed_to = 1 THEN p ELSE index[k]
<1>1. /\ rows \in [DOMAIN rows -> Row]
      /\ "prev" \in Fields /\ "next" \in Fields /\ "pointed_to" \in Fields
      /\ Fits("pointed_to", 0)
  BY DEF Good, Fields, Fits
<1>2. index[k] # 0 => KeysOf(rows)[index[k]] = k
  BY DEF Good
<1>3. 0 \notin DOMAIN rows
  BY EntriesAssumption DEF Good, Ids
<1>4. CASE p = 0
  <2>1. table = rows
    BY <1>4 DEF Unflag
  <2> QED
    BY <1>1, <1>4, <2>1
<1>5. CASE p # 0 /\ rows[p].pointed_to = 1
  <2>1. table = Set(rows, p, "pointed_to", 0)
    BY <1>5 DEF Unflag
  <2> QED
    BY <1>1, <1>5, <2>1, SetIs
<1>6. CASE p # 0 /\ rows[p].pointed_to # 1
  <2>1. table = Set(rows, index[k], "pointed_to", 0)
    BY <1>6 DEF Unflag
  <2> QED
    BY <1>1, <1>2, <1>3, <1>6, <2>1, SetIs
<1> QED
  BY <1>4, <1>5, <1>6

\* new is the table with the row at i between its neighbours.
Inserted(table, i, row, new) ==
    /\ DOMAIN new = DOMAIN table \cup {i}
    /\ new \in [DOMAIN new -> Row]
    /\ KeysOf(new)[i] = KeyOf(row)
    /\ new[i].prev = row.prev /\ new[i].next = row.next
    /\ new[i].pointed_to = row.pointed_to
    /\ \A j \in DOMAIN table :
          /\ KeysOf(new)[j] = KeysOf(table)[j]
          /\ new[j].prev = IF j = row.next THEN i ELSE table[j].prev
          /\ new[j].next = IF j = row.prev THEN i ELSE table[j].next
          /\ new[j].pointed_to = table[j].pointed_to

\* addFileEntryExternal links the new row in between its neighbours.
LEMMA InsertIs ==
    ASSUME NEW table, table \in [DOMAIN table -> Row], NEW i \in Ids \ DOMAIN table,
           NEW row \in Row, row.prev # i, row.next # i,
           NEW new, new = Insert(table, i, row)
    PROVE  Inserted(table, i, row, new)
<1>0. /\ "prev" \in Fields /\ "next" \in Fields /\ "pointed_to" \in Fields
      /\ Fits("prev", i) /\ Fits("next", i)
  BY DEF Fields, Fits
<1> DEFINE t1 == With(table, i, row)
           t2 == Set(t1, row.prev, "next", i)
<1>1. /\ t1 \in [DOMAIN table \cup {i} -> Row]
      /\ t1[i] = row
      /\ \A j \in DOMAIN table : t1[j] = table[j]
  BY DEF With
<1>2. /\ KeysOf(t1)[i] = KeyOf(row)
      /\ \A j \in DOMAIN table : KeysOf(t1)[j] = KeysOf(table)[j]
  <2> HIDE DEF t1
  <2> QED
    BY <1>1 DEF KeysOf
<1> HIDE DEF t1
<1>3. DOMAIN t1 = DOMAIN table \cup {i}
  BY <1>1
<1>4. /\ t2 \in [DOMAIN table \cup {i} -> Row]
      /\ KeysOf(t2) = KeysOf(t1)
      /\ \A j \in DOMAIN table \cup {i}, g \in Fields :
            t2[j][g] = IF j = row.prev /\ g = "next" THEN i ELSE t1[j][g]
  BY <1>0, <1>1, <1>3, SetIs
<1>5. new = Set(t2, row.next, "prev", i)
  BY DEF Insert, t1
<1> HIDE DEF t2
<1>6. DOMAIN t2 = DOMAIN table \cup {i}
  BY <1>4
<1>7. /\ new \in [DOMAIN table \cup {i} -> Row]
      /\ KeysOf(new) = KeysOf(t2)
      /\ \A j \in DOMAIN table \cup {i}, g \in Fields :
            new[j][g] = IF j = row.next /\ g = "prev" THEN i ELSE t2[j][g]
  BY <1>0, <1>4, <1>5, <1>6, SetIs
<1> QED
  BY <1>0, <1>1, <1>2, <1>4, <1>7 DEF Inserted

\* The new row has come behind p, or begins a list of its own; the client is charged for a list.
Comes(k, p) ==
    /\ p # 0 => p \in DOMAIN rows /\ KeysOf(rows)[p] = k
    /\ DOMAIN rows' = DOMAIN rows \cup {NewId}
    /\ rows' \in [DOMAIN rows' -> Row]
    /\ KeysOf(rows')[NewId] = k
    /\ rows'[NewId].prev = p
    /\ rows'[NewId].next = IF p = 0 THEN 0 ELSE rows[p].next
    /\ \A j \in DOMAIN rows :
          /\ KeysOf(rows')[j] = KeysOf(rows)[j]
          /\ rows'[j].prev = IF j = rows'[NewId].next THEN NewId ELSE rows[j].prev
          /\ rows'[j].next = IF j = p THEN NewId ELSE rows[j].next
    /\ charged' = IF p = 0 THEN [charged EXCEPT ![k] = @ + 1] ELSE charged

\* It has the flag, taken from another one if its list had it, and the index, or neither.
Flags(k, p) ==
    /\ \A j \in DOMAIN rows : KeysOf(rows)[j] # k => rows'[j].pointed_to = rows[j].pointed_to
    /\ \/ /\ index' = [index EXCEPT ![k] = NewId]
          /\ rows'[NewId].pointed_to = 1
          /\ p # 0 => \A j \in DOMAIN rows : rows'[j].pointed_to = 1 =>
                          /\ rows[j].pointed_to = 1
                          /\ j # IF rows[p].pointed_to = 1 THEN p ELSE index[k]
       \/ /\ index' = index
          /\ p # 0
          /\ rows'[NewId].pointed_to = 0
          /\ \A j \in DOMAIN rows : rows'[j].pointed_to = rows[j].pointed_to

\* What addFileSQL makes of what it was told to follow: it begins a list only where the index of
\* the client has none, or where it was told nothing.
LEMMA AddEntryMakes ==
    ASSUME Good(rows, NoFix, index, DOMAIN rows), \A j \in DOMAIN rows : j < MaxEntries,
           NEW b \in Backups, NEW c \in Contents, NEW prev, NEW owner, NEW next,
           Behind(c, prev, owner, next), NEW update \in BOOLEAN,
           AddEntry(b, c, prev, owner, next, update)
    PROVE  \E p \in DOMAIN rows \cup {0} :
              /\ Comes(<<Client[b], c>>, p)
              /\ Flags(<<Client[b], c>>, p)
              /\ p = 0 => owner = 0 \/ index[<<Client[b], c>>] = 0
<1> DEFINE k == <<Client[b], c>>
           new == owner # Client[b] \/ prev = 0
           own == IF new THEN OwnEntry(k, owner) ELSE prev
           p == IF new /\ own \notin DOMAIN rows THEN 0 ELSE own
           n == IF ~new THEN next ELSE IF p = 0 THEN 0 ELSE rows[p].next
           flagged == update \/ (new /\ p # 0 /\ rows[p].pointed_to = 1)
           i == NewId
           table == IF flagged THEN Unflag(k, p) ELSE rows
           row == [backup |-> b, content |-> c, prev |-> p, next |-> n,
                   pointed_to |-> IF new \/ flagged THEN 1 ELSE 0]
<1>1. /\ rows' = Insert(table, i, row)
      /\ index' = IF new \/ flagged THEN [index EXCEPT ![k] = i] ELSE index
      /\ charged' = IF new /\ own = 0 THEN [charged EXCEPT ![k] = @ + 1] ELSE charged
  BY DEF AddEntry
<1>2. /\ DOMAIN rows \subseteq Ids
      /\ 0 \notin DOMAIN rows
      /\ rows \in [DOMAIN rows -> Row]
      /\ DOMAIN index = Keys /\ index = [key \in Keys |-> index[key]]
      /\ k \in Keys
  BY EntriesAssumption DEF Good, Ids, Keys, Clients
<1>3. i \in Ids \ DOMAIN rows /\ i # 0
  BY <1>2, NewIdIs
<1>4. /\ p # 0 => p \in DOMAIN rows /\ KeysOf(rows)[p] = k
      /\ n = IF p = 0 THEN 0 ELSE rows[p].next
      /\ new /\ own = 0 <=> p = 0
      /\ p = 0 => owner = 0 \/ index[k] = 0
      /\ new /\ p # 0 => p = index[k]
  <2>1. CASE new
    <3>1. own = IF owner = 0 THEN 0 ELSE index[k]
      BY <2>1 DEF OwnEntry
    <3>2. own # 0 => own \in DOMAIN rows /\ KeysOf(rows)[own] = k
      BY <1>2, <3>1 DEF Good
    <3> QED
      BY <1>2, <2>1, <3>1, <3>2
  <2>2. CASE ~new
    <3>1. prev \in DOMAIN rows /\ rows[prev].content = c /\ next = rows[prev].next
          /\ Client[rows[prev].backup] = Client[b]
      BY <2>2 DEF Behind
    <3>2. KeysOf(rows)[prev] = k
      BY <3>1 DEF KeysOf, KeyOf
    <3>3. p = prev /\ n = next
      BY <2>2
    <3> QED
      BY <1>2, <2>2, <3>1, <3>2, <3>3
  <2> QED
    BY <2>1, <2>2
<1>5. n \in DOMAIN rows \cup {0}
  <2>1. CASE p = 0
    BY <1>4, <2>1
  <2>2. CASE p # 0
    <3>1. Field(rows, NoFix, "next")[p] \in DOMAIN rows \cup {0}
      BY <1>4, <2>2 DEF Good, Lists
    <3> QED
      BY <1>4, <2>2, <3>1, NoFixIs
  <2> QED
    BY <2>1, <2>2
<1> HIDE DEF p, n
<1>6. /\ table \in [DOMAIN rows -> Row]
      /\ KeysOf(table) = KeysOf(rows)
      /\ \A j \in DOMAIN rows :
            /\ table[j].prev = rows[j].prev /\ table[j].next = rows[j].next
            /\ KeysOf(rows)[j] # k => table[j].pointed_to = rows[j].pointed_to
            /\ flagged /\ p # 0 /\ table[j].pointed_to = 1 =>
                  /\ rows[j].pointed_to = 1
                  /\ j # IF rows[p].pointed_to = 1 THEN p ELSE index[k]
            /\ ~flagged => table[j].pointed_to = rows[j].pointed_to
  <2>1. CASE flagged
    <3>1. table = Unflag(k, p)
      BY <2>1
    <3> HIDE DEF table, k, flagged
    <3> QED
      BY <1>2, <1>4, <2>1, <3>1, UnflagIs
  <2>2. CASE ~flagged
    <3>1. table = rows
      BY <2>2
    <3> HIDE DEF table, flagged
    <3> QED
      BY <1>2, <2>2, <3>1
  <2> QED
    BY <2>1, <2>2
<1>7. new /\ p # 0 => flagged
  <2>1. index[k] # 0 => rows[index[k]].pointed_to = 1
    BY <1>2, NoFixIs DEF Good
  <2> QED
    BY <1>2, <1>4, <2>1
<1> HIDE DEF table
<1>8. row \in Row /\ row.prev = p /\ row.next = n /\ row.prev # i /\ row.next # i
      /\ KeyOf(row) = k /\ row.pointed_to = IF new \/ flagged THEN 1 ELSE 0
  BY <1>2, <1>3, <1>4, <1>5 DEF Row, KeyOf
<1> HIDE DEF row, i, flagged, new, own
<1>9. DOMAIN table = DOMAIN rows
  BY <1>6
<1>10. /\ DOMAIN rows' = DOMAIN rows \cup {i}
       /\ rows' \in [DOMAIN rows' -> Row]
       /\ KeysOf(rows')[i] = k
       /\ rows'[i].prev = p /\ rows'[i].next = n
       /\ rows'[i].pointed_to = IF new \/ flagged THEN 1 ELSE 0
       /\ \A j \in DOMAIN rows :
             /\ KeysOf(rows')[j] = KeysOf(rows)[j]
             /\ rows'[j].prev = IF j = n THEN i ELSE rows[j].prev
             /\ rows'[j].next = IF j = p THEN i ELSE rows[j].next
             /\ rows'[j].pointed_to = table[j].pointed_to
  <2>1. /\ table \in [DOMAIN table -> Row] /\ i \in Ids \ DOMAIN table
        /\ row \in Row /\ row.prev # i /\ row.next # i
        /\ rows' = Insert(table, i, row)
    BY <1>1, <1>3, <1>6, <1>8, <1>9
  <2>2. Inserted(table, i, row, rows')
    BY <2>1, InsertIs
  <2>3. rows'[i].pointed_to = IF new \/ flagged THEN 1 ELSE 0
    BY <1>8, <2>2 DEF Inserted
  <2>4. /\ DOMAIN rows' = DOMAIN rows \cup {i} /\ rows' \in [DOMAIN rows' -> Row]
        /\ KeysOf(rows')[i] = k
        /\ rows'[i].prev = p /\ rows'[i].next = n
    BY <1>8, <1>9, <2>2 DEF Inserted
  <2>5. \A j \in DOMAIN rows :
           /\ KeysOf(rows')[j] = KeysOf(rows)[j]
           /\ rows'[j].prev = IF j = n THEN i ELSE rows[j].prev
           /\ rows'[j].next = IF j = p THEN i ELSE rows[j].next
           /\ rows'[j].pointed_to = table[j].pointed_to
    BY <1>6, <1>8, <1>9, <2>2 DEF Inserted
  <2> QED
    BY <2>3, <2>4, <2>5
<1>11. Comes(k, p)
  BY <1>1, <1>4, <1>10 DEF Comes, i
<1>12. Flags(k, p)
  <2>1. CASE new \/ flagged
    <3>1. p # 0 => \A j \in DOMAIN rows : rows'[j].pointed_to = 1 =>
                      /\ rows[j].pointed_to = 1
                      /\ j # IF rows[p].pointed_to = 1 THEN p ELSE index[k]
      BY <1>6, <1>7, <1>10, <2>1
    <3>2. index' = [index EXCEPT ![k] = i] /\ rows'[i].pointed_to = 1
      BY <1>1, <1>10, <2>1
    <3>3. \A j \in DOMAIN rows :
             KeysOf(rows)[j] # k => rows'[j].pointed_to = rows[j].pointed_to
      BY <1>6, <1>10
    <3> QED
      BY <3>1, <3>2, <3>3 DEF Flags, i
  <2>2. CASE ~(new \/ flagged)
    <3>1. index' = index /\ rows'[i].pointed_to = 0 /\ p # 0
      BY <1>1, <1>4, <1>10, <2>2
    <3>2. \A j \in DOMAIN rows : rows'[j].pointed_to = rows[j].pointed_to
      BY <1>6, <1>10, <2>2
    <3> QED
      BY <3>1, <3>2 DEF Flags, i
  <2> QED
    BY <2>1, <2>2
<1> QED
  BY <1>4, <1>11, <1>12

\* addFileSQL leaves the lists and the index in order, whatever it was told to follow, and whether
\* or not the flag is taken from the entry that had it.
LEMMA AddEntryIs ==
    ASSUME Good(rows, NoFix, index, DOMAIN rows), \A j \in DOMAIN rows : j < MaxEntries,
           NEW k \in Keys, NEW p, Comes(k, p), Flags(k, p)
    PROVE  Good(rows', NoFix, index', DOMAIN rows')
<1> DEFINE i == NewId
<1>1. /\ DOMAIN rows \subseteq Ids
      /\ 0 \notin DOMAIN rows
      /\ rows \in [DOMAIN rows -> Row]
      /\ DOMAIN index = Keys /\ index = [key \in Keys |-> index[key]]
  BY EntriesAssumption DEF Good, Ids
<1>2. i \in Ids \ DOMAIN rows /\ i # 0
  BY <1>1, NewIdIs
<1>3. /\ p # 0 => p \in DOMAIN rows /\ KeysOf(rows)[p] = k
      /\ DOMAIN rows' = DOMAIN rows \cup {i}
      /\ rows' \in [DOMAIN rows' -> Row]
      /\ KeysOf(rows')[i] = k
      /\ rows'[i].prev = p
      /\ rows'[i].next = IF p = 0 THEN 0 ELSE rows[p].next
      /\ \A j \in DOMAIN rows :
            /\ KeysOf(rows')[j] = KeysOf(rows)[j]
            /\ rows'[j].prev = IF j = rows'[i].next THEN i ELSE rows[j].prev
            /\ rows'[j].next = IF j = p THEN i ELSE rows[j].next
  BY DEF Comes
<1> HIDE DEF i
<1>4. Lists(DOMAIN rows', KeysOf(rows'), Field(rows', NoFix, "prev"), Field(rows', NoFix, "next"))
  <2> DEFINE L == DOMAIN rows
             K == KeysOf(rows)
             P == Field(rows, NoFix, "prev")
             N == Field(rows, NoFix, "next")
             K2 == KeysOf(rows')
             P2 == Field(rows', NoFix, "prev")
             N2 == Field(rows', NoFix, "next")
  <2>1. Lists(L, K, P, N) /\ 0 \notin L /\ i \notin L /\ i # 0
    BY <1>1, <1>2 DEF Good
  <2>2. /\ \A j \in L : P[j] = rows[j].prev /\ N[j] = rows[j].next
        /\ \A j \in L \cup {i} : P2[j] = rows'[j].prev /\ N2[j] = rows'[j].next
    BY <1>3, NoFixIs
  <2>3. p = 0 \/ (p \in L /\ K[p] = K2[i])
    BY <1>3
  <2>4. P2[i] = p /\ N2[i] = IF p = 0 THEN 0 ELSE N[p]
    BY <1>3, <2>2
  <2>5. \A j \in L : /\ K2[j] = K[j]
                     /\ P2[j] = IF j = N2[i] THEN i ELSE P[j]
                     /\ N2[j] = IF j = p THEN i ELSE N[j]
    BY <1>3, <2>2
  <2> HIDE DEF L, K, P, N, K2, P2, N2
  <2>6. Lists(L \cup {i}, K2, P2, N2)
    BY <2>1, <2>3, <2>4, <2>5, Entered
  <2> QED
    BY <1>3, <2>6 DEF L, K2, P2, N2
<1>5. \A j \in DOMAIN rows' : Field(rows', NoFix, "pointed_to")[j] \in 0..1
  <2>1. \A j \in DOMAIN rows' : rows'[j].pointed_to \in 0..1
    BY <1>3 DEF Row
  <2> QED
    BY <2>1, NoFixIs
<1>6. /\ \A j \in DOMAIN rows :
            KeysOf(rows)[j] # k => rows'[j].pointed_to = rows[j].pointed_to
      /\ \/ /\ index' = [index EXCEPT ![k] = i]
            /\ rows'[i].pointed_to = 1
         \/ /\ index' = index
            /\ \A j \in DOMAIN rows : rows'[j].pointed_to = rows[j].pointed_to
  BY DEF Flags, i
<1>7. DOMAIN index' = Keys /\ index' = [key \in Keys |-> index'[key]]
  BY <1>1, <1>6
<1>8. ASSUME NEW q \in Keys, index'[q] # 0
      PROVE  /\ index'[q] \in DOMAIN rows'
             /\ KeysOf(rows')[index'[q]] = q
             /\ Field(rows', NoFix, "pointed_to")[index'[q]] = 1
  <2>1. CASE q = k /\ index' # index
    <3>1. index'[q] = i /\ rows'[i].pointed_to = 1
      BY <1>1, <1>6, <2>1
    <3>2. Field(rows', NoFix, "pointed_to")[i] = 1
      BY <1>3, <3>1, NoFixIs
    <3> QED
      BY <1>3, <2>1, <3>1, <3>2
  <2>2. CASE q # k \/ index' = index
    <3>1. index'[q] = index[q]
      BY <1>1, <1>6, <2>2
    <3>2. index[q] \in DOMAIN rows /\ KeysOf(rows)[index[q]] = q
      BY <1>8, <3>1 DEF Good
    <3>3. rows[index[q]].pointed_to = 1
      <4>1. Field(rows, NoFix, "pointed_to")[index[q]] = 1
        BY <1>8, <3>1 DEF Good
      <4> QED
        BY <3>2, <4>1, NoFixIs
    <3>4. rows'[index[q]].pointed_to = rows[index[q]].pointed_to
      BY <1>1, <1>2, <1>6, <2>2, <3>2
    <3>5. Field(rows', NoFix, "pointed_to")[index[q]] = 1
      BY <1>3, <3>2, <3>3, <3>4, NoFixIs
    <3> QED
      BY <1>3, <3>1, <3>2, <3>5
  <2> QED
    BY <2>1, <2>2
<1> QED
  BY <1>1, <1>2, <1>3, <1>4, <1>5, <1>7, <1>8 DEF Good

-------------------------------------------------------------------------------
(* The index made anew: each row between the older and the newer one of its key *)

\* The older entry is the largest of its key below this one.
LEMMA OlderIs ==
    ASSUME DOMAIN rows \subseteq Ids, NEW i \in DOMAIN rows
    PROVE  /\ Older(i) = 0 => \A j \in Entries(Key(i)) : ~(j < i)
           /\ Older(i) # 0 => /\ Older(i) \in Entries(Key(i))
                              /\ Older(i) < i
                              /\ \A j \in Entries(Key(i)) : j < i => j <= Older(i)
<1> DEFINE S == {j \in Entries(Key(i)) : j < i}
<1>1. S \subseteq Ids /\ 0 \notin S
  BY EntriesAssumption DEF Entries, Ids
<1>2. /\ S = {} => Older(i) = 0
      /\ S # {} => Older(i) \in S /\ \A j \in S : j <= Older(i)
  BY <1>1, LargestIs DEF Older
<1> QED
  BY <1>1, <1>2

\* The newer entry is the one whose older entry this is.
LEMMA NewerIs ==
    ASSUME DOMAIN rows \subseteq Ids, NEW i \in DOMAIN rows
    PROVE  /\ Newer(i) # 0 => /\ Newer(i) \in Entries(Key(i))
                              /\ Older(Newer(i)) = i
                              /\ i < Newer(i)
           /\ Older(i) # 0 => Newer(Older(i)) = i
           /\ Newer(i) = 0 => \A j \in Entries(Key(i)) : Older(j) # i
<1>0. DOMAIN rows \subseteq Nat \ {0} /\ i \in Nat \ {0}
  BY EntriesAssumption DEF Ids
<1>1. ASSUME NEW m \in DOMAIN rows
      PROVE  \/ Newer(m) = 0 /\ \A j \in Entries(Key(m)) : Older(j) # m
             \/ Newer(m) \in Entries(Key(m)) /\ Older(Newer(m)) = m
  <2> DEFINE S == {j \in Entries(Key(m)) : Older(j) = m}
  <2>1. S \subseteq Ids
    BY DEF Entries
  <2>2. /\ S = {} => Newer(m) = 0
        /\ S # {} => Newer(m) \in S
    BY <2>1, LargestIs DEF Newer
  <2> QED
    BY <2>2
<1>2. \A j \in DOMAIN rows : Older(j) = i => i < j
  BY <1>0, OlderIs
<1>3. ASSUME Older(i) # 0 PROVE Newer(Older(i)) = i
  <2> DEFINE o == Older(i)
  <2>1. o \in DOMAIN rows /\ Key(o) = Key(i) /\ i \in Entries(Key(o))
    BY <1>3, OlderIs DEF Entries
  <2> HIDE DEF o
  <2>2. Newer(o) \in Entries(Key(o)) /\ Older(Newer(o)) = o
    BY <1>1, <2>1 DEF o
  <2>3. Newer(o) \in DOMAIN rows /\ Key(Newer(o)) = Key(i)
    BY <2>1, <2>2 DEF Entries
  <2>4. i \in Entries(Key(i)) /\ Newer(o) \in Entries(Key(i)) /\ Newer(o) \in Nat /\ o \in Nat
    BY <1>0, <2>1, <2>3 DEF Entries
  <2>5. o # 0 /\ o < i /\ \A j \in Entries(Key(i)) : j < i => j <= o
    BY <1>3, OlderIs DEF o
  <2>6. o < Newer(o) /\ \A j \in Entries(Key(i)) : j < Newer(o) => j <= o
    BY <1>3, <2>2, <2>3, OlderIs DEF o
  <2>7. ~(Newer(o) < i) /\ ~(i < Newer(o))
    BY <1>0, <2>4, <2>5, <2>6
  <2> QED
    BY <1>0, <2>4, <2>7 DEF o
<1>4. Newer(i) # 0 => Newer(i) \in Entries(Key(i)) /\ Older(Newer(i)) = i /\ i < Newer(i)
  BY <1>1, <1>2 DEF Entries
<1>5. Newer(i) = 0 => \A j \in Entries(Key(i)) : Older(j) # i
  <2>1. \A j \in Entries(Key(i)) : j # 0
    BY <1>0 DEF Entries
  <2> QED
    BY <1>1, <2>1
<1> QED
  BY <1>3, <1>4, <1>5

\* The rows that the index is made for: each has a link to both its neighbours after that, and the
\* newest one has the flag.
LEMMA RebuiltRows ==
    ASSUME Upgraded, Rebuild
    PROVE  /\ DOMAIN rows' = DOMAIN rows
           /\ rows' \in [DOMAIN rows -> Row]
           /\ \A i \in DOMAIN rows :
                 /\ rows'[i].backup = rows[i].backup /\ rows'[i].content = rows[i].content
                 /\ rows'[i].prev = Older(i) /\ rows'[i].next = Newer(i)
                 /\ rows'[i].pointed_to = IF Newer(i) = 0 THEN 1 ELSE 0
<1>0. /\ DOMAIN rows \subseteq Ids /\ 0 \notin DOMAIN rows /\ DOMAIN rows \subseteq Nat
      /\ rows \in [DOMAIN rows -> Row]
  BY EntriesAssumption DEF Upgraded, Ids
<1> QED
  <2>1. ASSUME NEW i \in DOMAIN rows
        PROVE  /\ Older(i) \in Ids \cup {0} /\ Newer(i) \in Ids \cup {0}
               /\ rows[i].prev \in {0, Older(i)} /\ rows[i].next \in {0, Newer(i)}
               /\ Newer(i) # 0 => rows[Newer(i)].prev \in {0, i}
    <3>1. Older(i) \in Ids \cup {0}
      BY <1>0, OlderIs DEF Entries
    <3>2. /\ Newer(i) \in Ids \cup {0}
          /\ Newer(i) # 0 => Newer(i) \in DOMAIN rows /\ Older(Newer(i)) = i
      BY <1>0, NewerIs DEF Entries
    <3> QED
      BY <3>1, <3>2 DEF Upgraded
  <2>2. ASSUME NEW i \in DOMAIN rows
        PROVE  /\ Rebuilt[i] = [backup |-> rows[i].backup, content |-> rows[i].content,
                                prev |-> Older(i), next |-> Newer(i),
                                pointed_to |-> IF Newer(i) = 0 THEN 1 ELSE 0]
               /\ rows[i].backup \in Backups /\ rows[i].content \in Contents
    <3>1. Rebuilt[i] = [rows[i] EXCEPT !.prev = Older(i), !.next = Newer(i),
                                       !.pointed_to = IF Newer(i) = 0 THEN 1 ELSE 0]
      BY <1>0, <2>1 DEF Rebuilt, Row
    <3>2. rows[i] \in Row
      BY <1>0
    <3> QED
      BY <3>1, <3>2 DEF Row
  <2>3. rows' = Rebuilt /\ DOMAIN Rebuilt = DOMAIN rows
    BY DEF Rebuild, Rebuilt
  <2>4. ASSUME NEW i \in DOMAIN rows
        PROVE  /\ Rebuilt[i] \in Row
               /\ Rebuilt[i].backup = rows[i].backup /\ Rebuilt[i].content = rows[i].content
               /\ Rebuilt[i].prev = Older(i) /\ Rebuilt[i].next = Newer(i)
               /\ Rebuilt[i].pointed_to = IF Newer(i) = 0 THEN 1 ELSE 0
    <3> DEFINE flag == IF Newer(i) = 0 THEN 1 ELSE 0
    <3>1. Rebuilt[i] = [backup |-> rows[i].backup, content |-> rows[i].content,
                        prev |-> Older(i), next |-> Newer(i), pointed_to |-> flag]
      BY <2>2
    <3>2. flag \in 0..1 /\ flag = IF Newer(i) = 0 THEN 1 ELSE 0
      OBVIOUS
    <3>3. /\ Older(i) \in Ids \cup {0} /\ Newer(i) \in Ids \cup {0}
          /\ rows[i].backup \in Backups /\ rows[i].content \in Contents
      BY <2>1, <2>2
    <3> HIDE DEF flag
    <3>4. Rebuilt[i] \in Row
      BY <3>1, <3>2, <3>3 DEF Row
    <3> QED
      BY <3>1, <3>2, <3>4
  <2>5. Rebuilt \in [DOMAIN rows -> Row]
    <3>1. Rebuilt = [i \in DOMAIN rows |-> Rebuilt[i]]
      BY DEF Rebuilt
    <3> QED
      BY <2>4, <3>1
  <2> QED
    BY <2>3, <2>4, <2>5

\* The index made for a table without links, or with some, links each row to both its neighbours,
\* and a crash leaves a table for which it can be made again.
LEMMA RebuildIs ==
    ASSUME Upgraded, Rebuild
    PROVE  Good(rows', NoFix, index', DOMAIN rows') /\ (job' = NoIndex => Upgraded')
<1>0. /\ DOMAIN rows \subseteq Ids /\ 0 \notin DOMAIN rows /\ DOMAIN rows \subseteq Nat
      /\ rows \in [DOMAIN rows -> Row]
  BY EntriesAssumption DEF Upgraded, Ids
<1>1. /\ DOMAIN rows' = DOMAIN rows
      /\ rows' \in [DOMAIN rows -> Row]
      /\ \A i \in DOMAIN rows :
            /\ rows'[i].backup = rows[i].backup /\ rows'[i].content = rows[i].content
            /\ rows'[i].prev = Older(i) /\ rows'[i].next = Newer(i)
            /\ rows'[i].pointed_to = IF Newer(i) = 0 THEN 1 ELSE 0
  BY RebuiltRows
<1>2. /\ \A i \in DOMAIN rows : KeysOf(rows')[i] = Key(i) /\ Key(i) \in Keys
      /\ \A i \in DOMAIN rows, g \in {"prev", "next", "pointed_to"} :
            Field(rows', NoFix, g)[i] = rows'[i][g]
  <2>1. \A i \in DOMAIN rows : Key(i) = KeyOf(rows[i]) /\ KeyOf(rows'[i]) = KeyOf(rows[i])
    BY <1>1 DEF Key, KeyOf
  <2>2. \A i \in DOMAIN rows : KeysOf(rows')[i] = Key(i)
    BY <1>1, <2>1 DEF KeysOf
  <2>3. \A i \in DOMAIN rows : KeysOf(rows)[i] = KeyOf(rows[i]) /\ KeysOf(rows)[i] \in Keys
    BY <1>0, KeysAre DEF KeysOf
  <2> QED
    BY <1>1, <2>1, <2>2, <2>3, NoFixIs
<1>3. Lists(DOMAIN rows', KeysOf(rows'), Field(rows', NoFix, "prev"), Field(rows', NoFix, "next"))
  <2>1. \A i \in DOMAIN rows : Older(i) # 0 =>
           /\ Older(i) \in DOMAIN rows \ {i} /\ Key(Older(i)) = Key(i) /\ Newer(Older(i)) = i
    BY <1>0, OlderIs, NewerIs DEF Entries
  <2>2. \A i \in DOMAIN rows : Newer(i) # 0 =>
           /\ Newer(i) \in DOMAIN rows \ {i} /\ Key(Newer(i)) = Key(i) /\ Older(Newer(i)) = i
    BY <1>0, NewerIs DEF Entries
  <2>3. ASSUME NEW S \in SUBSET DOMAIN rows, S # {} PROVE \E i \in S : Newer(i) \notin S
    <3>1. S \subseteq Ids
      BY <1>0
    <3>2. PICK i \in S : \A j \in S : j <= i
      BY <2>3, <3>1, LargestIs
    <3>3. Newer(i) # 0 => Newer(i) \in Nat /\ i < Newer(i)
      BY <1>0, <2>2, NewerIs
    <3> QED
      BY <1>0, <3>2, <3>3
  <2>4. \A i \in DOMAIN rows : /\ Field(rows', NoFix, "prev")[i] = Older(i)
                               /\ Field(rows', NoFix, "next")[i] = Newer(i)
    BY <1>1, <1>2
  <2> QED
    BY <1>1, <1>2, <2>1, <2>2, <2>3, <2>4 DEF Lists
<1>4. ASSUME NEW k \in Keys, index'[k] # 0
      PROVE  /\ index'[k] \in DOMAIN rows
             /\ KeysOf(rows')[index'[k]] = k
             /\ Field(rows', NoFix, "pointed_to")[index'[k]] = 1
  <2> DEFINE m == Largest(Entries(k))
  <2>1. index'[k] = m
    BY DEF Rebuild
  <2>2. Entries(k) \subseteq Ids
    BY <1>0 DEF Entries
  <2>3. m \in Entries(k) /\ \A j \in Entries(k) : j <= m
    BY <1>4, <2>1, <2>2, LargestIs
  <2>4. m \in DOMAIN rows /\ Key(m) = k
    BY <2>3 DEF Entries
  <2> HIDE DEF m
  <2>5. Newer(m) = 0
    <3>1. Newer(m) # 0 => Newer(m) \in Entries(k) /\ m < Newer(m) /\ Newer(m) \in DOMAIN rows
      BY <1>0, <2>4, NewerIs DEF Entries
    <3> QED
      BY <1>0, <2>3, <2>4, <3>1
  <2> QED
    BY <1>1, <1>2, <2>1, <2>4, <2>5
<1>5. DOMAIN index' = Keys /\ index' = [key \in Keys |-> index'[key]]
  BY DEF Rebuild
<1>6. Good(rows', NoFix, index', DOMAIN rows')
  <2>1. \A i \in DOMAIN rows : Field(rows', NoFix, "pointed_to")[i] \in 0..1
    BY <1>1, <1>2
  <2> QED
    BY <1>0, <1>1, <1>3, <1>4, <1>5, <2>1 DEF Good
<1>7. Upgraded'
  <2>1. \A i \in DOMAIN rows : Key(i)' = Key(i)
    BY <1>1 DEF Key
  <2>2. \A k : Entries(k)' = Entries(k)
    BY <1>1, <2>1 DEF Entries
  <2>3. \A i \in DOMAIN rows : Older(i)' = Older(i)
    BY <2>1, <2>2 DEF Older
  <2>4. \A i \in DOMAIN rows : Newer(i)' = Newer(i)
    <3>1. ASSUME NEW i \in DOMAIN rows
          PROVE  {j \in Entries(Key(i)) : Older(j) = i}' = {j \in Entries(Key(i)) : Older(j) = i}
      <4>1. \A j \in Entries(Key(i)) : j \in DOMAIN rows
        BY DEF Entries
      <4> QED
        BY <2>1, <2>2, <2>3, <4>1
    <3> QED
      BY <3>1 DEF Newer
  <2>5. removal' = NoRemoval
    BY DEF Rebuild, Upgraded
  <2>6. index' \in [Keys -> Ids \cup {0}]
    BY <1>0, <1>1, <1>4, <1>5
  <2> QED
    BY <1>0, <1>1, <2>3, <2>4, <2>5, <2>6 DEF Upgraded
<1> QED
  BY <1>6, <1>7

-------------------------------------------------------------------------------
(* The steps of the table *)

\* When no removal goes on, all rows live and nothing is held back.
LEMMA QuietIs ==
    ASSUME rows \in [DOMAIN rows -> Row]
    PROVE  /\ removal = NoRemoval => Live = DOMAIN rows /\ removal.fix = NoFix
           /\ ~(removal = NoRemoval /\ IsRemoval)
           /\ NoRemoval.backup = 0
           /\ 0 \notin Backups
<1>1. 0 \notin Backups
  BY EntriesAssumption DEF Backups
<1>2. \A i \in DOMAIN rows : rows[i].backup \in Backups
  BY DEF Row
<1>3. NoRemoval.backup = 0 /\ NoRemoval.fix = NoFix
  BY DEF NoRemoval
<1>4. ASSUME removal = NoRemoval PROVE Live = DOMAIN rows
  <2>1. removal.backup = 0
    BY <1>3, <1>4
  <2> QED
    BY <1>1, <1>2, <2>1 DEF Live
<1>5. IsRemoval => removal.backup # 0
  BY <1>1 DEF IsRemoval
<1> QED
  BY <1>1, <1>3, <1>4, <1>5

\* So it is in the next state.
LEMMA QuietNext ==
    ASSUME rows' \in [DOMAIN rows' -> Row], removal' = NoRemoval
    PROVE  Live' = DOMAIN rows' /\ removal'.fix = NoFix
<1>1. \A i \in DOMAIN rows' : rows'[i].backup \in Backups
  BY DEF Row
<1>2. 0 \notin Backups
  BY EntriesAssumption DEF Backups
<1> QED
  BY <1>1, <1>2 DEF Live, NoRemoval

\* The job moves on, the table does not change.
LEMMA JobOnly ==
    ASSUME InOrder, UNCHANGED <<rows, index, removal>>, job' = NoJob \/ IsJob'
    PROVE  InOrder'
<1>1. Live' = Live
  BY DEF Live
<1>2. IsRemoval' <=> IsRemoval
  BY DEF IsRemoval
<1>3. Good(rows, removal.fix, index, Live)' = Good(rows, removal.fix, index, Live)
  BY <1>1
<1> QED
  BY <1>2, <1>3 DEF InOrder

\* The entry the search has read is one to link to, or a copy is to be stored.
LEMMA ReadIs ==
    ASSUME IsJob, job.step = "find", UNCHANGED <<rows, removal>>,
           NEW i, NEW state, NEW orig, NEW others, Read(i, state, orig, others)
    PROVE  IsJob'
<1>0. job = [field \in JobFields |-> job[field]] /\ removal = NoRemoval
  BY DEF IsJob
<1>1. CASE i \in DOMAIN rows /\ rows[i].content = job.content
  <2>1. job' = [job EXCEPT !.step = "link", !.state = state, !.others = others,
                           !.seen = [id |-> i, prev |-> rows[i].prev, next |-> rows[i].next],
                           !.orig = IF orig THEN rows[i].prev ELSE @,
                           !.tried = TRUE]
    BY <1>1 DEF Read
  <2>2. /\ job' = [field \in JobFields |-> job'[field]]
        /\ job'.step = "link" /\ job'.backup = job.backup /\ job'.content = job.content
        /\ job'.tried = TRUE
        /\ job'.seen.id = i
        /\ job'.seen.prev = rows[i].prev /\ job'.seen.next = rows[i].next
    BY <1>0, <2>1 DEF JobFields
  <2>3. /\ job'.backup \in Backups /\ job'.content \in Contents
        /\ \A j \in DOMAIN rows : j < MaxEntries
    BY <2>2 DEF IsJob
  <2>4. rows' = rows /\ removal' = NoRemoval
    BY <1>0
  <2> QED
    BY <1>1, <2>2, <2>3, <2>4 DEF IsJob
<1>2. CASE ~(i \in DOMAIN rows /\ rows[i].content = job.content)
  <2>1. job' = [job EXCEPT !.step = "store", !.state = state]
    BY <1>2 DEF Read
  <2>2. /\ job' = [field \in JobFields |-> job'[field]]
        /\ job'.step = "store" /\ job'.backup = job.backup /\ job'.content = job.content
        /\ job'.tried = job.tried
    BY <1>0, <2>1 DEF JobFields
  <2> QED
    BY <1>0, <2>2 DEF IsJob
<1> QED
  BY <1>1, <1>2

\* An addition of any kind, with no removal under way
Adds(b, c, prev, owner, next, update) ==
    /\ b \in Backups /\ c \in Contents /\ update \in BOOLEAN
    /\ removal = NoRemoval /\ removal' = NoRemoval /\ job' = NoJob
    /\ \A j \in DOMAIN rows : j < MaxEntries
    /\ Behind(c, prev, owner, next)
    /\ AddEntry(b, c, prev, owner, next, update)

\* What it makes of a table in order
LEMMA AddsMakes ==
    ASSUME InOrder, NEW b, NEW c, NEW prev, NEW owner, NEW next, NEW update,
           Adds(b, c, prev, owner, next, update)
    PROVE  /\ <<Client[b], c>> \in Keys
           /\ Good(rows, NoFix, index, DOMAIN rows)
           /\ Good(rows', NoFix, index', DOMAIN rows')
           /\ Live = DOMAIN rows /\ removal.fix = NoFix
           /\ Live' = DOMAIN rows' /\ removal'.fix = NoFix
           /\ \E p \in DOMAIN rows \cup {0} :
                 /\ Comes(<<Client[b], c>>, p)
                 /\ Flags(<<Client[b], c>>, p)
                 /\ p = 0 => owner = 0 \/ index[<<Client[b], c>>] = 0
<1>1. Good(rows, NoFix, index, DOMAIN rows) /\ Live = DOMAIN rows /\ removal.fix = NoFix
  <2>1. rows \in [DOMAIN rows -> Row]
    BY DEF InOrder, Good
  <2> QED
    BY <2>1, QuietIs DEF InOrder, Adds
<1>2. <<Client[b], c>> \in Keys
  BY DEF Keys, Clients, Adds
<1>3. \E p \in DOMAIN rows \cup {0} :
         /\ Comes(<<Client[b], c>>, p)
         /\ Flags(<<Client[b], c>>, p)
         /\ p = 0 => owner = 0 \/ index[<<Client[b], c>>] = 0
  BY <1>1, AddEntryMakes DEF Adds
<1>4. Good(rows', NoFix, index', DOMAIN rows')
  BY <1>1, <1>2, <1>3, AddEntryIs DEF Adds
<1>5. Live' = DOMAIN rows' /\ removal'.fix = NoFix
  <2>1. rows' \in [DOMAIN rows' -> Row]
    BY <1>4 DEF Good
  <2> QED
    BY <2>1, QuietNext DEF Adds
<1> QED
  BY <1>1, <1>2, <1>3, <1>4, <1>5

\* It leaves the table in order.
LEMMA AddsKeeps ==
    ASSUME InOrder, NEW b, NEW c, NEW prev, NEW owner, NEW next, NEW update,
           Adds(b, c, prev, owner, next, update)
    PROVE  InOrder'
BY AddsMakes DEF InOrder, Adds

\* There is room for another entry.
LEMMA RoomIs ==
    ASSUME setting \in SettingType, DOMAIN rows \subseteq Ids, NewId <= setting.room
    PROVE  \A i \in DOMAIN rows : i < MaxEntries
<1>1. setting.room \in 1..MaxEntries
  BY DEF SettingType
<1>2. NewId \in Nat /\ \A i \in DOMAIN rows : i < NewId
  BY NewIdIs
<1> QED
  BY <1>1, <1>2, EntriesAssumption DEF Ids

\* A file is stored with an entry of its own, or without one.
Stored == StoreFile /\ AddEntry(job.backup, job.content, 0, 0, 0, job.tried)
\* Storing failed, or the file was not to have an entry.
NotStored == StoreFile /\ UNCHANGED <<rows, index, charged>>

\* Storing a file does one of the two.
LEMMA StoredOrNot == StoreFile => Stored \/ NotStored
BY DEF StoreFile, Stored, NotStored

\* The steps that add an entry follow a row with the content; they follow nothing where the index of
\* the client has nothing, or at the end of a search.
LEMMA AddingSteps ==
    ASSUME InOrder, setting \in SettingType,
           \/ \E b \in Backups, c \in Contents : AddExisting(b, c)
           \/ LinkFile
           \/ CopyFile
           \/ Stored
    PROVE  \E b, c, prev, owner, next, update :
              /\ Adds(b, c, prev, owner, next, update)
              /\ owner = 0 => \/ index[<<Client[b], c>>] = 0
                              \/ job.step = "store" /\ b = job.backup /\ c = job.content
<1>1. /\ job = NoJob \/ IsJob
      /\ rows \in [DOMAIN rows -> Row] /\ DOMAIN rows \subseteq Ids
  BY DEF InOrder, Good
<1>2. \A i \in DOMAIN rows : Client[rows[i].backup] # 0
  BY <1>1, EntriesAssumption DEF Row, Backups
<1> DEFINE Done == \E b, c, prev, owner, next, update :
                      /\ Adds(b, c, prev, owner, next, update)
                      /\ owner = 0 => \/ index[<<Client[b], c>>] = 0
                                      \/ job.step = "store" /\ b = job.backup /\ c = job.content
<1>3. ASSUME NEW b \in Backups, NEW c \in Contents, AddExisting(b, c)
      PROVE  Done
  <2>1. /\ job = NoJob /\ job' = NoJob /\ removal = NoRemoval /\ removal' = NoRemoval
        /\ \A j \in DOMAIN rows : j < MaxEntries
    BY <1>1, <1>3, RoomIs DEF AddExisting
  <2>2. PICK i \in PreferClient(<<Client[b], c>>) :
           IF i \in DOMAIN rows
           THEN AddEntry(b, c, i, Client[rows[i].backup], rows[i].next,
                         index[<<Client[b], c>>] = 0)
           ELSE AddEntry(b, c, 0, 0, 0, TRUE)
    BY <1>3 DEF AddExisting
  <2>3. /\ Good(rows, NoFix, index, DOMAIN rows)
        /\ <<Client[b], c>> \in Keys /\ \A l \in Clients : <<l, c>> \in Keys
        /\ Client[b] \in Clients
    BY <1>1, <2>1, QuietIs DEF InOrder, Keys, Clients
  <2>4. CASE i \in DOMAIN rows
    <3>1. rows[i].content = c
      <4>1. i # 0
        BY <1>1, <2>4, EntriesAssumption DEF Ids
      <4>2. PICK l \in Clients : i = index[<<l, c>>]
        BY <2>2, <2>3, <4>1 DEF PreferClient, ClientsWith
      <4>3. KeysOf(rows)[i] = <<l, c>>
        BY <2>3, <4>1, <4>2 DEF Good
      <4> QED
        BY <2>4, <4>3 DEF KeysOf, KeyOf
    <3>2. Behind(c, i, Client[rows[i].backup], rows[i].next)
      BY <2>4, <3>1 DEF Behind
    <3>3. Adds(b, c, i, Client[rows[i].backup], rows[i].next, index[<<Client[b], c>>] = 0)
      BY <2>1, <2>2, <2>4, <3>2 DEF Adds
    <3> QED
      BY <1>2, <2>4, <3>3
  <2>5. CASE i \notin DOMAIN rows
    <3>1. Behind(c, 0, 0, 0) /\ AddEntry(b, c, 0, 0, 0, TRUE)
      BY <2>2, <2>5 DEF Behind
    <3>2. Adds(b, c, 0, 0, 0, TRUE)
      BY <2>1, <3>1 DEF Adds
    <3>3. index[<<Client[b], c>>] = 0
      BY <2>2, <2>3, <2>5 DEF PreferClient, Good
    <3> QED
      BY <3>2, <3>3
  <2> QED
    BY <2>4, <2>5
<1>4. CASE LinkFile \/ CopyFile
  <2>1. PICK update \in BOOLEAN : job.step = "link" /\ Add(update)
    BY <1>4 DEF LinkFile, CopyFile
  <2>2. IsJob /\ removal = NoRemoval
    BY <1>1, <2>1 DEF NoJob, IsJob
  <2>3. Behind(job.content, job.seen.id, Client[Found.backup], job.seen.next)
    BY <2>1, <2>2 DEF IsJob, Behind, Found
  <2>4. /\ AddEntry(job.backup, job.content, job.seen.id, Client[Found.backup], job.seen.next,
                    update)
        /\ job' = NoJob /\ removal' = removal
    BY <2>1 DEF Add
  <2>5. /\ job.backup \in Backups /\ job.content \in Contents
        /\ \A j \in DOMAIN rows : j < MaxEntries
    BY <2>2 DEF IsJob
  <2>6. Adds(job.backup, job.content, job.seen.id, Client[Found.backup], job.seen.next, update)
    BY <2>2, <2>3, <2>4, <2>5 DEF Adds
  <2>7. Client[Found.backup] # 0
    BY <1>2, <2>1, <2>2 DEF IsJob, Found
  <2> QED
    BY <2>6, <2>7
<1>5. CASE Stored
  <2>1. /\ job.step = "store" /\ removal = NoRemoval /\ removal' = removal /\ job' = NoJob
        /\ AddEntry(job.backup, job.content, 0, 0, 0, job.tried)
    BY <1>5 DEF Stored, StoreFile
  <2>2. /\ job.backup \in Backups /\ job.content \in Contents /\ job.tried \in BOOLEAN
        /\ \A j \in DOMAIN rows : j < MaxEntries
    BY <1>1, <2>1 DEF NoJob, IsJob
  <2>3. Adds(job.backup, job.content, 0, 0, 0, job.tried)
    BY <2>1, <2>2 DEF Adds, Behind
  <2> QED
    BY <2>1, <2>3
<1> QED
  BY <1>3, <1>4, <1>5

\* The step deletes the entry e, as it was read, from db, which is the database but for what is
\* still held back for e; what lives is left as in new.
Deletes(db, range, e, new) ==
    /\ db.rows = rows /\ db.index = index /\ db.charged = charged
    /\ Kept(db, db, range)
    /\ Seen(db, removal.fix, Live, e)
    /\ new = DeleteEntry(db, e, range)
    /\ index' = new.index /\ charged' = new.charged
    /\ Live' = Live \ {e.id}
    /\ \A j \in Live \ {e.id} : KeysOf(rows')[j] = KeysOf(new.rows)[j]
    /\ \A j \in Live \ {e.id}, g \in Fields :
          Field(rows', removal'.fix, g)[j] = Field(new.rows, new.fix, g)[j]

\* Then the rest is in order.
LEMMA DeletesKeeps ==
    ASSUME NEW db, NEW range, NEW e, NEW new, Deletes(db, range, e, new),
           DOMAIN rows' \subseteq Ids, rows' \in [DOMAIN rows' -> Row],
           Live \ {e.id} \subseteq DOMAIN rows'
    PROVE  Good(rows', removal'.fix, index', Live')
<1> DEFINE L == Live \ {e.id}
<1>1. Good(new.rows, new.fix, new.index, L)
  BY DeleteEntryIs DEF Deletes
<1>2. /\ Live' = L /\ index' = new.index
      /\ \A j \in L : KeysOf(rows')[j] = KeysOf(new.rows)[j]
      /\ \A j \in L, g \in {"prev", "next", "pointed_to"} :
            Field(rows', removal'.fix, g)[j] = Field(new.rows, new.fix, g)[j]
  BY DEF Deletes, Fields
<1> HIDE DEF L
<1>3. Lists(L, KeysOf(rows'), Field(rows', removal'.fix, "prev"),
            Field(rows', removal'.fix, "next"))
  BY <1>1, <1>2, Same DEF Good
<1>4. \A i \in L : Field(rows', removal'.fix, "pointed_to")[i] \in 0..1
  BY <1>1, <1>2 DEF Good
<1>5. DOMAIN index' = Keys /\ index' = [key \in Keys |-> index'[key]]
  BY <1>1, <1>2 DEF Good
<1>6. ASSUME NEW k \in Keys, index'[k] # 0
      PROVE  /\ index'[k] \in L
             /\ KeysOf(rows')[index'[k]] = k
             /\ Field(rows', removal'.fix, "pointed_to")[index'[k]] = 1
  <2>1. /\ index'[k] = new.index[k] /\ index'[k] \in L
        /\ KeysOf(new.rows)[index'[k]] = k
        /\ Field(new.rows, new.fix, "pointed_to")[index'[k]] = 1
    BY <1>1, <1>2, <1>6 DEF Good
  <2> QED
    BY <1>2, <2>1
<1>7. L \subseteq DOMAIN rows'
  BY DEF L
<1> QED
  BY <1>2, <1>3, <1>4, <1>5, <1>6, <1>7 DEF Good

\* The entry whose file is missing
Missing == [id |-> job.seen.id, key |-> Key(job.seen.id), prev |-> job.seen.prev,
            next |-> job.seen.next, pointed_to |-> Found.pointed_to]

\* It is read as it is, and its row goes at once.
LEMMA FileMissingDeletes ==
    ASSUME InOrder, FileMissing
    PROVE  /\ IsJob /\ job.step = "link" /\ removal = NoRemoval /\ removal' = NoRemoval
           /\ DOMAIN rows \subseteq Ids
           /\ Live = DOMAIN rows /\ removal.fix = NoFix
           /\ DOMAIN rows' = DOMAIN rows \ {job.seen.id}
           /\ rows' \in [DOMAIN rows' -> Row]
           /\ \E new : Deletes(Database, {}, Missing, new)
<1>1. IsJob /\ job.step = "link" /\ removal = NoRemoval /\ removal' = NoRemoval
  BY DEF InOrder, FileMissing, IsJob, NoJob
<1>2. /\ Good(rows, NoFix, index, DOMAIN rows)
      /\ Live = DOMAIN rows /\ removal.fix = NoFix
  <2>1. rows \in [DOMAIN rows -> Row]
    BY DEF InOrder, Good
  <2> QED
    BY <1>1, <2>1, QuietIs DEF InOrder
<1> DEFINE e == Missing
           db == DeleteEntry(Database, e, {})
           L == DOMAIN rows \ {e.id}
<1>3. rows' = Drop(db.rows, {e.id}) /\ index' = db.index /\ charged' = db.charged
  BY DEF FileMissing, Missing
<1>4. Database = [rows |-> rows, index |-> index, charged |-> charged, fix |-> NoFix]
  BY <1>1 DEF Database, NoRemoval
<1>5. Kept(Database, Database, {})
  BY <1>2, <1>4 DEF Kept, Good, NoFix
<1>6. Seen(Database, NoFix, DOMAIN rows, e)
  <2>1. /\ job.seen.id \in DOMAIN rows
        /\ rows[job.seen.id].prev = job.seen.prev
        /\ rows[job.seen.id].next = job.seen.next
    BY <1>1 DEF IsJob
  <2>2. Key(job.seen.id) = KeysOf(rows)[job.seen.id]
    BY <2>1 DEF Key, KeysOf, KeyOf
  <2>3. /\ Field(rows, NoFix, "prev")[job.seen.id] = job.seen.prev
        /\ Field(rows, NoFix, "next")[job.seen.id] = job.seen.next
        /\ Field(rows, NoFix, "pointed_to")[job.seen.id] = Found.pointed_to
    BY <2>1, NoFixIs DEF Found
  <2> QED
    BY <1>2, <1>4, <2>1, <2>2, <2>3 DEF Seen, Missing
<1>7. Kept(Database, db, {})
  <2> HIDE DEF e
  <2> QED
    BY <1>5, <1>6, DeleteEntryIs
<1>8. db = DeleteEntry(Database, e, {})
  OBVIOUS
<1> HIDE DEF db
<1>9. /\ DOMAIN db.rows = DOMAIN rows
      /\ db.rows \in [DOMAIN rows -> Row]
      /\ \A i, g : <<g, i>> \notin DOMAIN db.fix
  BY <1>4, <1>7 DEF Kept
<1>10. /\ DOMAIN rows' = L
       /\ rows' \in [L -> Row]
       /\ \A i \in L : rows'[i] = db.rows[i]
  BY <1>3, <1>9 DEF Drop
<1>11. \A i \in L : KeysOf(rows')[i] = KeysOf(db.rows)[i]
  BY <1>9, <1>10 DEF KeysOf
<1>12. Live' = L /\ removal'.fix = NoFix
  BY <1>1, <1>10, QuietNext
<1>13. \A i \in L, g \in Fields : Field(rows', NoFix, g)[i] = Field(db.rows, db.fix, g)[i]
  <2>1. ASSUME NEW i \in L, NEW g
        PROVE  /\ Field(rows', NoFix, g)[i] = rows'[i][g]
               /\ Field(db.rows, db.fix, g)[i] = db.rows[i][g]
    BY <1>9, <1>10, NoFixIs DEF Field
  <2> QED
    BY <1>10, <2>1
<1>14. Deletes(Database, {}, e, db)
  <2>1. Database.rows = rows /\ Database.index = index /\ Database.charged = charged
    BY <1>4
  <2>2. Seen(Database, removal.fix, Live, e)
    BY <1>2, <1>6
  <2>3. /\ Live' = Live \ {e.id}
        /\ \A j \in Live \ {e.id} : KeysOf(rows')[j] = KeysOf(db.rows)[j]
        /\ \A j \in Live \ {e.id}, g \in Fields :
              Field(rows', removal'.fix, g)[j] = Field(db.rows, db.fix, g)[j]
    BY <1>2, <1>11, <1>12, <1>13
  <2> HIDE DEF e, L
  <2> QED
    BY <1>3, <1>5, <1>8, <2>1, <2>2, <2>3 DEF Deletes
<1>15. e.id = job.seen.id /\ DOMAIN rows \subseteq Ids
  BY <1>2 DEF Missing, Good
<1> QED
  BY <1>1, <1>2, <1>10, <1>14, <1>15

\* The search goes on.
LEMMA FileMissingKeeps ==
    ASSUME InOrder, FileMissing
    PROVE  InOrder'
<1>1. /\ IsJob /\ job.step = "link" /\ removal = NoRemoval /\ removal' = NoRemoval
      /\ DOMAIN rows \subseteq Ids /\ Live = DOMAIN rows
      /\ DOMAIN rows' = DOMAIN rows \ {job.seen.id}
      /\ rows' \in [DOMAIN rows' -> Row]
  BY FileMissingDeletes
<1>2. PICK new : Deletes(Database, {}, Missing, new)
  BY FileMissingDeletes
<1>3. Missing.id = job.seen.id
  BY DEF Missing
<1>4. Good(rows', removal'.fix, index', Live')
  BY <1>1, <1>2, <1>3, DeletesKeeps
<1>5. IsJob'
  <2>1. job' = [job EXCEPT !.step = "find"]
    BY DEF FileMissing
  <2>2. /\ job' = [field \in JobFields |-> job'[field]]
        /\ job'.step = "find" /\ job'.backup = job.backup /\ job'.content = job.content
        /\ job'.tried = job.tried
    BY <1>1, <2>1 DEF IsJob, JobFields
  <2>3. DOMAIN rows' \subseteq DOMAIN rows
    BY <1>1
  <2> QED
    BY <1>1, <2>2, <2>3 DEF IsJob
<1> QED
  BY <1>1, <1>4, <1>5 DEF InOrder

\* All rows live when a removal begins.
LEMMA BeginRemoveKeeps ==
    ASSUME InOrder, NEW b \in Backups, BeginRemove(b)
    PROVE  InOrder'
<1>1. /\ Good(rows, NoFix, index, DOMAIN rows)
      /\ rows \in [DOMAIN rows -> Row]
      /\ DOMAIN rows \subseteq Ids /\ DOMAIN rows \subseteq Int
  <2>1. rows \in [DOMAIN rows -> Row]
    BY DEF InOrder, Good
  <2>2. removal = NoRemoval
    BY DEF BeginRemove
  <2> QED
    BY <2>1, <2>2, QuietIs, EntriesAssumption DEF InOrder, Good, Ids
<1>2. /\ UNCHANGED <<rows, index, job>>
      /\ job.step \in {"none", "store"}
      /\ removal' = [backup |-> b, todo |-> EntriesOf(b), fix |-> NoFix, before |-> rows,
            range |-> {i \in Ids : /\ \E j \in EntriesOf(b) : j <= i
                                   /\ \E j \in EntriesOf(b) : i <= j}]
  BY DEF BeginRemove
<1>3. /\ removal' = [field \in {"backup", "todo", "range", "fix", "before"} |-> removal'[field]]
      /\ removal'.backup = b /\ removal'.todo = EntriesOf(b)
      /\ removal'.fix = NoFix /\ removal'.before = rows
      /\ removal'.range = {i \in Ids : /\ \E j \in EntriesOf(b) : j <= i
                                       /\ \E j \in EntriesOf(b) : i <= j}
  BY <1>2
<1>4. IsRemoval'
  <2>1. EntriesOf(b) \subseteq removal'.range \cap DOMAIN rows
    <3>1. \A i \in EntriesOf(b) : i \in DOMAIN rows /\ i \in Ids /\ i <= i
      BY <1>1 DEF EntriesOf
    <3> QED
      BY <1>3, <3>1
  <2>2. \A i \in EntriesOf(b) : rows[i].backup = b
    BY DEF EntriesOf
  <2>3. DOMAIN removal'.fix = {}
    BY <1>3 DEF NoFix
  <2>4. rows' = rows
    BY <1>2
  <2> QED
    BY <1>3, <2>1, <2>2, <2>3, <2>4 DEF IsRemoval
<1>5. job' = NoJob \/ IsJob'
  <2>1. job' = job /\ rows' = rows
    BY <1>2
  <2> QED
    BY <1>2, <2>1 DEF InOrder, IsJob
<1>6. Live' = DOMAIN rows
  BY <1>2, <1>3 DEF Live, EntriesOf
<1>7. Good(rows', removal'.fix, index', Live')
  BY <1>1, <1>2, <1>3, <1>6
<1> QED
  BY <1>4, <1>5, <1>7 DEF InOrder

\* One entry of a removal: what the cursor shows of it, corrected, is what it is.
LEMMA RemoveEntryDeletes ==
    ASSUME InOrder, RemoveEntry
    PROVE  \E db, e, new :
              /\ Deletes(db, removal.range, e, new)
              /\ db.rows = rows
              /\ rows' = new.rows
              /\ e.id \in removal.todo
              /\ removal' = [removal EXCEPT !.todo = @ \ {e.id}, !.fix = new.fix]
<1>0. removal.todo # {} /\ removal # NoRemoval /\ IsRemoval /\ UNCHANGED job
  BY DEF RemoveEntry, InOrder, NoRemoval
<1>1. /\ Good(rows, removal.fix, index, Live)
      /\ rows \in [DOMAIN rows -> Row] /\ DOMAIN rows \subseteq Ids /\ DOMAIN rows \subseteq Nat
  BY EntriesAssumption DEF InOrder, Good, Ids
<1> DEFINE i == CHOOSE i \in removal.todo : \A j \in removal.todo : i <= j
           db0 == [Database EXCEPT !.fix = Drop(@, Fields \X {i})]
           entry(table) == [id |-> i, key |-> Key(i), prev |-> Corrected(table, i, "prev"),
                            next |-> Corrected(table, i, "next"),
                            pointed_to |-> Corrected(table, i, "pointed_to")]
           after(table) == DeleteEntry(db0, entry(table), removal.range)
<1>2. PICK table \in {removal.before, rows} :
         /\ rows' = after(table).rows
         /\ index' = after(table).index /\ charged' = after(table).charged
         /\ removal' = [removal EXCEPT !.todo = @ \ {i}, !.fix = after(table).fix]
  BY DEF RemoveEntry
<1>3. /\ i \in removal.todo /\ i \in removal.range /\ i \in DOMAIN rows
      /\ rows[i].backup = removal.backup /\ i \in Live
  <2>1. removal.todo \subseteq Ids
    BY <1>0, <1>1 DEF IsRemoval
  <2>2. i \in removal.todo
    BY <1>0, <2>1, LeastExists
  <2> HIDE DEF i
  <2> QED
    BY <1>0, <2>2 DEF IsRemoval, Live
<1> DEFINE e == entry(table)
           db == after(table)
<1>4. db = DeleteEntry(db0, e, removal.range)
  OBVIOUS
<1> HIDE DEF i
<1>5. db0 = [rows |-> rows, index |-> index, charged |-> charged,
             fix |-> Drop(removal.fix, Fields \X {i})]
  BY DEF Database
<1>6. Kept(db0, db0, removal.range)
  <2>1. DOMAIN Drop(removal.fix, Fields \X {i}) \subseteq Fields \X removal.range
    BY <1>0 DEF Drop, IsRemoval
  <2> QED
    BY <1>1, <1>5, <2>1 DEF Kept
<1>7. Seen(db0, removal.fix, Live, e)
  <2>1. \A g \in Fields : Corrected(table, i, g) = Field(rows, removal.fix, g)[i]
    <3>1. \A g \in Fields : table[i][g] = rows[i][g]
      BY <1>0, <1>3 DEF IsRemoval
    <3> QED
      BY <1>3, <3>1 DEF Corrected, Field
  <2>2. /\ e.id = i /\ e.key = Key(i)
        /\ e.prev = Field(rows, removal.fix, "prev")[i]
        /\ e.next = Field(rows, removal.fix, "next")[i]
        /\ e.pointed_to = Field(rows, removal.fix, "pointed_to")[i]
    BY <2>1 DEF Fields
  <2>3. Key(i) = KeysOf(rows)[i]
    BY <1>3 DEF Key, KeysOf, KeyOf
  <2>4. ASSUME NEW j \in Live \ {i}, NEW g \in Fields
        PROVE  Field(rows, Drop(removal.fix, Fields \X {i}), g)[j] = Field(rows, removal.fix, g)[j]
    <3>1. j \in DOMAIN rows /\ <<g, j>> \notin Fields \X {i}
      BY <2>4 DEF Live
    <3>2. <<g, j>> \in DOMAIN Drop(removal.fix, Fields \X {i}) <=> <<g, j>> \in DOMAIN removal.fix
      BY <3>1 DEF Drop
    <3>3. <<g, j>> \in DOMAIN removal.fix =>
             Drop(removal.fix, Fields \X {i})[<<g, j>>] = removal.fix[<<g, j>>]
      BY <3>1 DEF Drop
    <3> QED
      BY <3>1, <3>2, <3>3 DEF Field
  <2> DEFINE fix0 == Drop(removal.fix, Fields \X {i})
  <2>5. db0.rows = rows /\ db0.index = index /\ db0.fix = fix0
    BY <1>5
  <2> HIDE DEF e, db0, fix0
  <2>6. Good(db0.rows, removal.fix, db0.index, Live) /\ e.id \in Live
    BY <1>1, <1>3, <2>2, <2>5
  <2>7. /\ e.key = KeysOf(db0.rows)[e.id]
        /\ e.prev = Field(db0.rows, removal.fix, "prev")[e.id]
        /\ e.next = Field(db0.rows, removal.fix, "next")[e.id]
        /\ e.pointed_to = Field(db0.rows, removal.fix, "pointed_to")[e.id]
    BY <2>2, <2>3, <2>5
  <2>8. \A j \in Live \ {e.id}, g \in Fields :
           Field(db0.rows, db0.fix, g)[j] = Field(db0.rows, removal.fix, g)[j]
    <3>1. \A j \in Live \ {i}, g \in Fields :
             Field(rows, fix0, g)[j] = Field(rows, removal.fix, g)[j]
      BY <2>4 DEF fix0
    <3> QED
      BY <2>2, <2>5, <3>1
  <2> QED
    BY <2>6, <2>7, <2>8 DEF Seen
<1>8. e.id = i /\ db = DeleteEntry(db0, e, removal.range)
  OBVIOUS
<1>9. /\ rows' = db.rows /\ index' = db.index /\ charged' = db.charged
      /\ removal' = [removal EXCEPT !.todo = @ \ {i}, !.fix = db.fix]
  BY <1>2 DEF i
<1>10. db0.rows = rows /\ db0.index = index /\ db0.charged = charged
  BY <1>5
<1> HIDE DEF db, db0, e
<1>11. Kept(db0, db, removal.range)
  BY <1>6, <1>7, <1>8, DeleteEntryIs
<1>12. /\ removal'.backup = removal.backup
       /\ removal'.todo = removal.todo \ {i} /\ removal'.fix = db.fix
  BY <1>0, <1>9 DEF IsRemoval
<1>13. Live' = Live \ {i}
  <2>1. DOMAIN rows' = DOMAIN rows /\ \A j \in DOMAIN rows : rows'[j].backup = rows[j].backup
    BY <1>9, <1>10, <1>11 DEF Kept
  <2> QED
    BY <1>3, <1>12, <2>1 DEF Live
<1>14. Deletes(db0, removal.range, e, db)
  BY <1>6, <1>7, <1>8, <1>9, <1>10, <1>12, <1>13 DEF Deletes
<1> QED
  BY <1>3, <1>8, <1>9, <1>10, <1>14

\* The entry leaves its list as it should.
LEMMA RemoveEntryKeeps ==
    ASSUME InOrder, RemoveEntry
    PROVE  InOrder'
<1>1. removal.todo # {} /\ removal # NoRemoval /\ IsRemoval /\ UNCHANGED job
  BY DEF RemoveEntry, InOrder, NoRemoval
<1>2. PICK db, e, new :
         /\ Deletes(db, removal.range, e, new)
         /\ db.rows = rows
         /\ rows' = new.rows
         /\ e.id \in removal.todo
         /\ removal' = [removal EXCEPT !.todo = @ \ {e.id}, !.fix = new.fix]
  BY RemoveEntryDeletes
<1>3. Kept(db, new, removal.range)
  BY <1>2, DeleteEntryIs DEF Deletes
<1>4. /\ DOMAIN rows' = DOMAIN rows /\ rows' \in [DOMAIN rows' -> Row]
      /\ \A j \in DOMAIN rows : rows'[j].backup = rows[j].backup
      /\ \A j \in removal.range \cap DOMAIN rows : rows'[j] = rows[j]
      /\ DOMAIN new.fix \subseteq Fields \X removal.range
  BY <1>2, <1>3 DEF Kept
<1>5. /\ removal' = [field \in {"backup", "todo", "range", "fix", "before"} |-> removal'[field]]
      /\ removal'.backup = removal.backup /\ removal'.range = removal.range
      /\ removal'.before = removal.before
      /\ removal'.todo = removal.todo \ {e.id} /\ removal'.fix = new.fix
  BY <1>1, <1>2 DEF IsRemoval
<1>6. IsRemoval'
  <2>1. /\ removal.backup \in Backups
        /\ removal.todo \subseteq removal.range \cap DOMAIN rows
        /\ \A j \in removal.todo : rows[j].backup = removal.backup
        /\ \A j \in removal.range \cap DOMAIN rows, field \in Fields :
              j \in DOMAIN removal.before /\ removal.before[j][field] = rows[j][field]
    BY <1>1 DEF IsRemoval
  <2>2. /\ removal'.todo \subseteq removal'.range \cap DOMAIN rows'
        /\ \A j \in removal'.todo : rows'[j].backup = removal'.backup
    BY <1>4, <1>5, <2>1
  <2>3. \A j \in removal'.range \cap DOMAIN rows', field \in Fields :
           j \in DOMAIN removal'.before /\ removal'.before[j][field] = rows'[j][field]
    BY <1>4, <1>5, <2>1
  <2> QED
    BY <1>4, <1>5, <2>1, <2>2, <2>3 DEF IsRemoval
<1>7. job' = NoJob \/ IsJob'
  <2>1. job = NoJob \/ (IsJob /\ job.step = "store")
    BY <1>1 DEF InOrder, IsJob
  <2>2. job' = job /\ DOMAIN rows' = DOMAIN rows
    BY <1>1, <1>4
  <2> QED
    BY <2>1, <2>2 DEF IsJob
<1>8. Good(rows', removal'.fix, index', Live')
  <2>1. DOMAIN rows \subseteq Ids /\ Live \ {e.id} \subseteq DOMAIN rows'
    BY <1>4 DEF InOrder, Good, Live
  <2> QED
    BY <1>2, <1>4, <2>1, DeletesKeeps
<1> QED
  BY <1>6, <1>7, <1>8 DEF InOrder

\* What lives is as before.
Alike ==
    /\ Live' = Live
    /\ UNCHANGED <<index, charged>>
    /\ \A j \in Live : KeysOf(rows')[j] = KeysOf(rows)[j]
    /\ \A j \in Live, g \in Fields :
          Field(rows', removal'.fix, g)[j] = Field(rows, removal.fix, g)[j]

\* The corrections are written and the entries of the backup deleted.
LEMMA EndRemoveAlike ==
    ASSUME InOrder, EndRemove
    PROVE  Alike /\ DOMAIN rows' = Live /\ rows' \in [Live -> Row]
<1>0. /\ removal.backup # 0 /\ removal.todo = {} /\ removal' = NoRemoval
      /\ removal # NoRemoval /\ IsRemoval
      /\ UNCHANGED <<index, charged, job>>
  BY DEF EndRemove, InOrder, NoRemoval
<1>1. /\ Good(rows, removal.fix, index, Live)
      /\ rows \in [DOMAIN rows -> Row] /\ DOMAIN rows \subseteq Ids
      /\ 0 \notin DOMAIN rows
  BY EntriesAssumption DEF InOrder, Good, Ids
<1>2. Live = DOMAIN rows \ EntriesOf(removal.backup)
  BY <1>0 DEF Live, EntriesOf
<1>3. rows' = [i \in Live |-> [field \in DOMAIN rows[i] |->
                 IF field \in Fields THEN Corrected(rows, i, field) ELSE rows[i][field]]]
  BY <1>2 DEF EndRemove
<1>4. ASSUME NEW i \in Live
      PROVE  /\ rows'[i] \in Row
             /\ rows'[i].backup = rows[i].backup /\ rows'[i].content = rows[i].content
             /\ \A g \in {"prev", "next", "pointed_to"} :
                   rows'[i][g] = Field(rows, removal.fix, g)[i]
  <2>1. i \in DOMAIN rows /\ rows[i] \in Row
    BY <1>1 DEF Live
  <2>2. \A g \in Fields : Corrected(rows, i, g) = Field(rows, removal.fix, g)[i]
    BY <2>1 DEF Corrected, Field
  <2>3. DOMAIN rows[i] = {"backup", "content", "prev", "next", "pointed_to"}
    BY <2>1 DEF Row
  <2> DEFINE p == Field(rows, removal.fix, "prev")[i]
             n == Field(rows, removal.fix, "next")[i]
             f == Field(rows, removal.fix, "pointed_to")[i]
  <2>4. rows'[i] = [backup |-> rows[i].backup, content |-> rows[i].content,
                    prev |-> p, next |-> n, pointed_to |-> f]
    <3>1. rows'[i] = [field \in {"backup", "content", "prev", "next", "pointed_to"} |->
                        IF field \in Fields THEN Corrected(rows, i, field) ELSE rows[i][field]]
      BY <1>3, <2>3
    <3>2. p = Corrected(rows, i, "prev") /\ n = Corrected(rows, i, "next")
          /\ f = Corrected(rows, i, "pointed_to")
      BY <2>2 DEF Fields
    <3> HIDE DEF p, n, f
    <3> QED
      BY <3>1, <3>2 DEF Fields
  <2>5. p \in Ids \cup {0} /\ n \in Ids \cup {0} /\ f \in 0..1
    <3>1. p \in Live \cup {0} /\ n \in Live \cup {0} /\ f \in 0..1
      BY <1>1 DEF Good, Lists
    <3>2. Live \subseteq Ids
      BY <1>1 DEF Live
    <3> QED
      BY <3>1, <3>2
  <2> HIDE DEF p, n, f
  <2>6. rows'[i] \in Row
    BY <2>1, <2>4, <2>5 DEF Row
  <2>7. rows'[i].prev = p /\ rows'[i].next = n /\ rows'[i].pointed_to = f
        /\ rows'[i].backup = rows[i].backup /\ rows'[i].content = rows[i].content
    BY <2>4
  <2> QED
    BY <2>6, <2>7 DEF p, n, f
<1>5. DOMAIN rows' = Live /\ rows' \in [Live -> Row]
  <2>1. rows' = [i \in Live |-> rows'[i]]
    BY <1>3
  <2> QED
    BY <1>4, <2>1
<1>6. /\ \A i \in Live : KeysOf(rows')[i] = KeysOf(rows)[i]
      /\ \A i \in Live, g \in Fields :
            Field(rows', NoFix, g)[i] = Field(rows, removal.fix, g)[i]
  <2>1. \A i \in Live : KeysOf(rows')[i] = KeysOf(rows)[i]
    <3>1. Live \subseteq DOMAIN rows
      BY DEF Live
    <3> QED
      BY <1>4, <1>5, <3>1 DEF KeysOf, KeyOf
  <2> QED
    BY <1>4, <1>5, <2>1, NoFixIs DEF Fields
<1>7. Live' = Live /\ removal'.fix = NoFix
  BY <1>0, <1>5, QuietNext
<1> QED
  BY <1>0, <1>5, <1>6, <1>7 DEF Alike

\* They stay in order.
LEMMA AlikeKeeps ==
    ASSUME Good(rows, removal.fix, index, Live), Alike,
           DOMAIN rows' \subseteq Ids, rows' \in [DOMAIN rows' -> Row], Live \subseteq DOMAIN rows'
    PROVE  Good(rows', removal'.fix, index', Live')
<1>1. /\ Live' = Live /\ UNCHANGED index
      /\ \A j \in Live : KeysOf(rows')[j] = KeysOf(rows)[j]
      /\ \A j \in Live, g \in {"prev", "next", "pointed_to"} :
            Field(rows', removal'.fix, g)[j] = Field(rows, removal.fix, g)[j]
  BY DEF Alike, Fields
<1>2. Lists(Live, KeysOf(rows'), Field(rows', removal'.fix, "prev"),
            Field(rows', removal'.fix, "next"))
  BY <1>1, Same DEF Good
<1>3. \A i \in Live : Field(rows', removal'.fix, "pointed_to")[i] \in 0..1
  BY <1>1 DEF Good
<1>4. DOMAIN index' = Keys /\ index' = [key \in Keys |-> index'[key]]
  BY <1>1 DEF Good
<1>5. ASSUME NEW k \in Keys, index'[k] # 0
      PROVE  /\ index'[k] \in Live
             /\ KeysOf(rows')[index'[k]] = k
             /\ Field(rows', removal'.fix, "pointed_to")[index'[k]] = 1
  <2>1. /\ index'[k] = index[k] /\ index[k] \in Live
        /\ KeysOf(rows)[index[k]] = k
        /\ Field(rows, removal.fix, "pointed_to")[index[k]] = 1
    BY <1>1, <1>5 DEF Good
  <2> QED
    BY <1>1, <2>1
<1> QED
  BY <1>1, <1>2, <1>3, <1>4, <1>5 DEF Good

\* The removal ends in order.
LEMMA EndRemoveKeeps ==
    ASSUME InOrder, EndRemove
    PROVE  InOrder'
<1>1. /\ removal' = NoRemoval /\ removal # NoRemoval /\ IsRemoval /\ UNCHANGED job
      /\ removal.backup # 0
  BY DEF EndRemove, InOrder, NoRemoval
<1>2. Alike /\ DOMAIN rows' = Live /\ rows' \in [Live -> Row]
  BY EndRemoveAlike
<1>3. DOMAIN rows' \subseteq DOMAIN rows /\ DOMAIN rows \subseteq Ids
  BY <1>2 DEF InOrder, Good, Live
<1>4. Good(rows', removal'.fix, index', Live')
  BY <1>2, <1>3, AlikeKeeps DEF InOrder
<1>5. job' = NoJob \/ IsJob'
  <2>1. job = NoJob \/ (IsJob /\ job.step = "store")
    BY <1>1 DEF InOrder, IsJob
  <2> QED
    BY <1>1, <1>3, <2>1 DEF IsJob
<1> QED
  BY <1>1, <1>4, <1>5 DEF InOrder

-------------------------------------------------------------------------------
(* The invariant *)

\* A new table is in order, one from before the lists is ready for the index to be made.
LEMMA InitImpliesListInv == Init => ListInv
<1> SUFFICES ASSUME Init, ~setting.defrag
             PROVE  (job = NoIndex /\ Upgraded) \/ InOrder
  BY EntriesAssumption DEF Init, ListInv
<1>1. /\ removal = NoRemoval
      /\ DOMAIN index = Keys /\ index = [key \in Keys |-> index[key]]
      /\ \A k \in Keys : index[k] = 0
  BY DEF Init
<1>2. CASE setting.upgrade
  <2>1. job = NoIndex
    BY <1>2 DEF Init, UpgradeInit
  <2>2. PICK n \in 0..setting.room :
           /\ DOMAIN rows = 1..n
           /\ rows \in [1..n -> Row]
           /\ \A i \in 1..n : rows[i].prev = 0 /\ rows[i].next = 0
    <3>1. PICK n \in 0..setting.room, done \in SUBSET Backups :
             rows \in [1..n -> [backup : done, content : Contents,
                                prev : {0}, next : {0}, pointed_to : {0}]]
      BY <1>2 DEF Init, UpgradeInit
    <3>2. \A i \in 1..n : rows[i] \in Row /\ rows[i].prev = 0 /\ rows[i].next = 0
      BY <3>1 DEF Row
    <3>3. DOMAIN rows = 1..n /\ rows = [i \in 1..n |-> rows[i]]
      BY <3>1
    <3> QED
      BY <3>2, <3>3
  <2>3. DOMAIN rows \subseteq Ids
    <3>1. setting.room \in 1..MaxEntries
      BY EntriesAssumption DEF Init, SettingType
    <3> QED
      BY <2>2, <3>1, EntriesAssumption DEF Ids
  <2> QED
    BY <1>1, <2>1, <2>2, <2>3 DEF Upgraded
<1>3. CASE ~setting.upgrade
  <2>1. DOMAIN rows = {} /\ rows \in [{} -> Row] /\ job = NoJob
    BY <1>3 DEF Init, NewInit
  <2>2. Live = {}
    BY <2>1 DEF Live
  <2>3. Good(rows, removal.fix, index, Live)
    BY <1>1, <2>1, <2>2 DEF Good, Lists
  <2> QED
    BY <1>1, <2>1, <2>3 DEF InOrder
<1> QED
  BY <1>2, <1>3

\* Nothing of the table changes while it waits for the index.
LEMMA UpgradedOnly ==
    ASSUME Upgraded, UNCHANGED <<rows, index, removal>>
    PROVE  Upgraded'
<1>1. \A k : Entries(k)' = Entries(k)
  BY DEF Entries, Key
<1>2. \A i : Key(i)' = Key(i)
  BY DEF Key
<1>3. \A i : Older(i)' = Older(i)
  BY <1>1, <1>2 DEF Older
<1>4. \A i : Newer(i)' = Newer(i)
  BY <1>1, <1>2, <1>3 DEF Newer
<1> QED
  BY <1>3, <1>4 DEF Upgraded

\* A step of the table before the index is made
LEMMA UpgradedStep ==
    ASSUME job = NoIndex, Upgraded, ~setting.defrag, Step
    PROVE  (job' = NoIndex /\ Upgraded') \/ InOrder'
<1>1. CASE Rebuild
  <2>1. Good(rows', NoFix, index', DOMAIN rows') /\ (job' = NoIndex => Upgraded')
    BY <1>1, RebuildIs
  <2>2. job' \in {NoJob, NoIndex} /\ removal' = NoRemoval
    BY <1>1 DEF Rebuild, Upgraded
  <2>3. Live' = DOMAIN rows' /\ removal'.fix = NoFix
    BY <2>1, <2>2, QuietNext DEF Good
  <2> QED
    BY <2>1, <2>2, <2>3 DEF InOrder
<1>2. CASE \E b \in Backups : FinishBackup(b)
  <2>1. UNCHANGED <<rows, index, job, removal>>
    BY <1>2 DEF FinishBackup
  <2> QED
    BY <2>1, UpgradedOnly
<1>3. job.step = "rebuild" /\ job # NoJob /\ removal.todo = {} /\ removal.backup = 0
  BY DEF NoIndex, NoJob, Upgraded, NoRemoval
<1>4. ASSUME NEW b \in Backups
      PROVE  /\ ~StartBackup(b) /\ ~DeleteFolder(b) /\ ~BeginRemove(b)
             /\ \A c \in Contents : ~StartAdd(b, c, "hash") /\ ~StartAdd(b, c, "local")
                                    /\ ~AddExisting(b, c)
  BY <1>3 DEF StartBackup, DeleteFolder, BeginRemove, StartAdd, AddExisting
<1>5. ~FindFirst /\ ~FindInList /\ ~FindOtherClients /\ ~FindNextClient
  BY <1>3 DEF FindFirst, FindInList, FindOtherClients, FindNextClient
<1>6. ~LinkFile /\ ~FileMissing /\ ~CopyFile /\ ~LinkRefused /\ ~StoreFile
  BY <1>3 DEF LinkFile, FileMissing, CopyFile, LinkRefused, StoreFile
<1>7. ~RemoveEntry /\ ~EndRemove /\ ~Defrag
  BY <1>3 DEF RemoveEntry, EndRemove, Defrag
<1> QED
  BY <1>1, <1>2, <1>4, <1>5, <1>6, <1>7 DEF Step

\* A step of the table in order
LEMMA InOrderStep ==
    ASSUME InOrder, setting \in SettingType, ~setting.defrag, Step
    PROVE  InOrder'
<1>1. /\ job = NoJob \/ IsJob
      /\ rows \in [DOMAIN rows -> Row] /\ DOMAIN rows \subseteq Ids
  BY DEF InOrder, Good
<1>2. NewId <= setting.room => \A i \in DOMAIN rows : i < MaxEntries
  BY <1>1, RoomIs
<1>3. ASSUME NEW b \in Backups, StartBackup(b) \/ FinishBackup(b) \/ DeleteFolder(b)
      PROVE  InOrder'
  <2>1. UNCHANGED <<rows, index, job, removal>>
    BY <1>3 DEF StartBackup, FinishBackup, DeleteFolder
  <2>2. job' = NoJob \/ IsJob'
    BY <1>1, <2>1 DEF IsJob
  <2> QED
    BY <2>1, <2>2, JobOnly
<1>4. ASSUME NEW b \in Backups, BeginRemove(b)
      PROVE  InOrder'
  BY <1>4, BeginRemoveKeeps
<1>5. ASSUME NEW b \in Backups, NEW c \in Contents, NEW way \in {"hash", "local"},
             StartAdd(b, c, way)
      PROVE  InOrder'
  <2>1. /\ UNCHANGED <<rows, index, removal>> /\ removal = NoRemoval /\ NewId <= setting.room
        /\ job' = [step |-> "find", backup |-> b, content |-> c, way |-> way, state |-> 0,
                   seen |-> NothingSeen, orig |-> 0, others |-> {}, tried |-> FALSE]
    BY <1>5 DEF StartAdd
  <2>2. /\ job' = [field \in JobFields |-> job'[field]]
        /\ job'.step = "find" /\ job'.backup = b /\ job'.content = c /\ job'.tried = FALSE
    BY <2>1 DEF JobFields
  <2>3. IsJob'
    BY <1>2, <2>1, <2>2 DEF IsJob
  <2> QED
    BY <2>1, <2>3, JobOnly
<1>6. CASE \/ \E b \in Backups, c \in Contents : AddExisting(b, c)
           \/ LinkFile
           \/ CopyFile
           \/ Stored
  BY <1>6, AddingSteps, AddsKeeps
<1>7. CASE FindFirst \/ FindInList \/ FindOtherClients \/ FindNextClient
  <2>1. /\ UNCHANGED <<rows, index, removal>>
        /\ job.step = "find"
        /\ \E i, state, orig, others : Read(i, state, orig, others)
    BY <1>7 DEF FindFirst, FindInList, FindOtherClients, FindNextClient
  <2>2. IsJob
    BY <1>1, <2>1 DEF NoJob
  <2>3. IsJob'
    BY <2>1, <2>2, ReadIs
  <2> QED
    BY <2>1, <2>3, JobOnly
<1>8. CASE FileMissing
  BY <1>8, FileMissingKeeps
<1>9. CASE LinkRefused
  <2>1. /\ UNCHANGED <<rows, index, removal>> /\ job.step = "link"
        /\ job' = [job EXCEPT !.step = "store"]
    BY <1>9 DEF LinkRefused
  <2>2. IsJob
    BY <1>1, <2>1 DEF NoJob
  <2>3. /\ job' = [field \in JobFields |-> job'[field]]
        /\ job'.step = "store" /\ job'.backup = job.backup /\ job'.content = job.content
        /\ job'.tried = job.tried
    BY <2>1, <2>2 DEF IsJob, JobFields
  <2>4. IsJob'
    BY <2>1, <2>2, <2>3 DEF IsJob
  <2> QED
    BY <2>1, <2>4, JobOnly
<1>10. CASE NotStored
  <2>1. UNCHANGED <<rows, index, removal>> /\ job' = NoJob
    BY <1>10 DEF NotStored, StoreFile
  <2> QED
    BY <2>1, JobOnly
<1>11. CASE RemoveEntry
  BY <1>11, RemoveEntryKeeps
<1>12. CASE EndRemove
  BY <1>12, EndRemoveKeeps
<1>13. ~Defrag
  BY DEF Defrag
<1>14. ~Rebuild
  <2>1. job.step # "rebuild"
    BY <1>1 DEF NoJob, IsJob
  <2> QED
    BY <2>1 DEF Rebuild, NoIndex
<1> QED
  BY <1>3, <1>4, <1>5, <1>6, <1>7, <1>8, <1>9, <1>10, <1>11, <1>12, <1>13, <1>14,
     StoredOrNot DEF Step

\* The invariant is inductive.
LEMMA ListInvInductive == ListInv /\ [Next]_vars => ListInv'
<1> SUFFICES ASSUME ListInv, [Next]_vars, ~setting.defrag
             PROVE  /\ setting' = setting
                    /\ (job' = NoIndex /\ Upgraded') \/ InOrder'
  BY DEF ListInv, Next, AllGone, vars
<1>1. CASE UNCHANGED vars
  <2>1. UNCHANGED <<rows, index, job, removal, setting>>
    BY <1>1 DEF vars
  <2>2. CASE job = NoIndex /\ Upgraded
    BY <2>1, <2>2, UpgradedOnly
  <2>3. CASE InOrder
    <3>1. job' = NoJob \/ IsJob'
      BY <2>1, <2>3 DEF InOrder, IsJob
    <3> QED
      BY <2>1, <2>3, <3>1, JobOnly
  <2> QED
    BY <2>1, <2>2, <2>3 DEF ListInv
<1>2. CASE Step /\ UNCHANGED setting
  BY <1>2, UpgradedStep, InOrderStep DEF ListInv
<1> QED
  BY <1>1, <1>2 DEF Next, AllGone

(***************************************************************************)
(* As long as no index is created anew over lists that are in use, the     *)
(* table is in order in every state, also between the entries of a removal *)
(* (addFileSQL, deleteFileSQL, removeFileBackupSql, create).               *)
(***************************************************************************)
THEOREM ListsInOrder == Spec => []ListInv
<1> QED
  BY InitImpliesListInv, ListInvInductive, PTL DEF Spec

-------------------------------------------------------------------------------
\* What the invariant says between two removals
LEMMA ListInvQuiet ==
    ASSUME ListInv, Quiet, ~setting.defrag
    PROVE  /\ Good(rows, NoFix, index, DOMAIN rows)
           /\ \A i \in DOMAIN rows : KeysOf(rows)[i] = Key(i)
<1>1. InOrder /\ removal = NoRemoval
  BY DEF ListInv, Quiet
<1>2. rows \in [DOMAIN rows -> Row]
  BY <1>1 DEF InOrder, Good
<1>3. Good(rows, NoFix, index, DOMAIN rows)
  BY <1>1, <1>2, QuietIs DEF InOrder
<1> QED
  BY <1>3 DEF KeysOf, KeyOf, Key

(***************************************************************************)
(* The lists stay doubly linked, each within one content and client,       *)
(* whatever is added, linked elsewhere, found missing and removed          *)
(* (addFileSQL, deleteFileSQL, removeFileBackupSql).                       *)
(***************************************************************************)
THEOREM AlwaysLinked == Spec => []StayLinked
<1>1. ListInv => StayLinked
  <2> SUFFICES ASSUME ListInv, Quiet, ~setting.defrag, NEW i \in DOMAIN rows
               PROVE  /\ LET n == rows[i].next
                         IN  n # 0 => n \in Entries(Key(i)) \ {i} /\ rows[n].prev = i
                      /\ LET p == rows[i].prev
                         IN  p # 0 => p \in Entries(Key(i)) \ {i} /\ rows[p].next = i
    BY DEF StayLinked, Linked
  <2>1. /\ Good(rows, NoFix, index, DOMAIN rows)
        /\ \A j \in DOMAIN rows : KeysOf(rows)[j] = Key(j)
    BY ListInvQuiet
  <2>2. \A j \in DOMAIN rows : /\ Field(rows, NoFix, "prev")[j] = rows[j].prev
                               /\ Field(rows, NoFix, "next")[j] = rows[j].next
    BY NoFixIs
  <2> QED
    BY <2>1, <2>2 DEF Good, Lists, Entries
<1> QED
  BY <1>1, ListsInOrder, PTL

(***************************************************************************)
(* What the index names is an entry of its content and client that carries *)
(* the flag, so that deleting it moves or deletes what names it            *)
(* (server_hash.cpp:508, 517).                                             *)
(***************************************************************************)
THEOREM AlwaysFlagged == Spec => []IndexFlagged
<1>1. ListInv => IndexFlagged
  <2> SUFFICES ASSUME ListInv, Quiet, ~setting.defrag, NEW k \in Keys, index[k] # 0
               PROVE  index[k] \in Entries(k) /\ rows[index[k]].pointed_to = 1
    BY DEF IndexFlagged
  <2>1. /\ Good(rows, NoFix, index, DOMAIN rows)
        /\ \A j \in DOMAIN rows : KeysOf(rows)[j] = Key(j)
    BY ListInvQuiet
  <2>2. \A j \in DOMAIN rows : Field(rows, NoFix, "pointed_to")[j] = rows[j].pointed_to
    BY NoFixIs
  <2> QED
    BY <2>1, <2>2 DEF Good, Entries
<1> QED
  BY <1>1, ListsInOrder, PTL
-------------------------------------------------------------------------------
(***************************************************************************)
(* Whole lists: what is counted, found and named.                          *)
(***************************************************************************)
\* The first entries of the lists with key k
Heads(L, K, P, k) == {i \in L : K[i] = k /\ P[i] = 0}

\* Whoever goes back in a list leaves every set of entries: lists begin.
LEMMA Begins ==
    ASSUME NEW L, NEW K, NEW P, NEW N, Lists(L, K, P, N), 0 \notin L, IsFiniteSet(L),
           NEW S \in SUBSET L, S # {}
    PROVE  \E i \in S : P[i] \notin S
<1> SUFFICES ASSUME \A i \in S : P[i] \in S PROVE FALSE
  OBVIOUS
<1>1. IsFiniteSet(S)
  BY FS_Subset
<1> DEFINE f == [i \in S |-> P[i]]
<1>2. f \in Injection(S, S)
  <2>1. f \in [S -> S]
    OBVIOUS
  <2>2. ASSUME NEW i \in S, NEW j \in S, f[i] = f[j] PROVE i = j
    <3>1. P[i] = P[j] /\ P[i] # 0 /\ i \in L /\ j \in L
      BY <2>2
    <3>2. N[P[i]] = i /\ N[P[j]] = j
      BY <3>1 DEF Lists
    <3> QED
      BY <3>1, <3>2
  <2> HIDE DEF f
  <2> QED
    BY <2>1, <2>2 DEF Injection, IsInjective
<1>3. f \in Surjection(S, S)
  <2> HIDE DEF f
  <2> QED
    BY <1>1, <1>2, FS_Injection
<1>4. \A i \in S : \E j \in S : P[j] = i
  <2>1. \A i \in S : \E j \in S : f[j] = i
    <3> HIDE DEF f
    <3> QED
      BY <1>3 DEF Surjection
  <2> QED
    BY <2>1
<1>5. PICK i \in S : N[i] \notin S
  BY DEF Lists
<1>6. PICK j \in S : P[j] = i
  BY <1>4
<1>7. N[i] = j
  <2>1. j \in L /\ P[j] # 0
    BY <1>6
  <2> QED
    BY <1>6, <2>1 DEF Lists
<1> QED
  BY <1>5, <1>7

\* From the only head of a key the next entries lead to all of them.
LEMMA Reaches ==
    ASSUME NEW L, NEW K, NEW P, NEW N, Lists(L, K, P, N), 0 \notin L, IsFiniteSet(L),
           NEW h \in L, \A j \in L : K[j] = K[h] /\ P[j] = 0 => j = h,
           NEW X, h \in X, \A i \in X : N[i] # 0 => N[i] \in X
    PROVE  \A j \in L : K[j] = K[h] => j \in X
<1> DEFINE S == {j \in L : K[j] = K[h] /\ j \notin X}
<1>1. ASSUME S # {} PROVE FALSE
  <2>1. PICK i \in S : P[i] \notin S
    <3>1. S \in SUBSET L
      OBVIOUS
    <3> HIDE DEF S
    <3> QED
      BY <1>1, <3>1, Begins
  <2>2. P[i] # 0
    OBVIOUS
  <2>3. P[i] \in L /\ K[P[i]] = K[i] /\ N[P[i]] = i
    BY <2>2 DEF Lists
  <2>4. P[i] \in X
    BY <2>1, <2>3
  <2>5. i # 0 /\ N[P[i]] \in X
    BY <2>3, <2>4
  <2> QED
    BY <2>3, <2>5
<1> QED
  BY <1>1

\* The entry e has left: its key and previous entry are all that changed.
Unlinked(L, K, P, N, e, K2, P2) ==
    \A j \in L \ {e} : K2[j] = K[j] /\ P2[j] = IF j = N[e] THEN P[e] ELSE P[j]

\* How many lists of key k there are then
LEMMA HeadsLeft ==
    ASSUME NEW L, NEW K, NEW P, NEW N, NEW K2, NEW P2, NEW e \in L, NEW k,
           Lists(L, K, P, N), 0 \notin L, IsFiniteSet(L),
           Unlinked(L, K, P, N, e, K2, P2)
    PROVE  /\ Cardinality(Heads(L, K, P, k)) \in Nat
           /\ Cardinality(Heads(L \ {e}, K2, P2, k)) =
                IF k = K[e] /\ P[e] = 0 /\ N[e] = 0 THEN Cardinality(Heads(L, K, P, k)) - 1
                ELSE Cardinality(Heads(L, K, P, k))
<1> USE DEF Unlinked
<1> DEFINE H == Heads(L, K, P, k)
           H2 == Heads(L \ {e}, K2, P2, k)
<1>1. IsFiniteSet(H) /\ Cardinality(H) \in Nat
  <2>1. H \in SUBSET L
    BY DEF Heads
  <2> HIDE DEF H
  <2> QED
    BY <2>1, FS_Subset, FS_CardinalityType
<1>2. N[e] # 0 => N[e] \in L \ {e} /\ K[N[e]] = K[e] /\ P[N[e]] = e /\ e # 0
  BY DEF Lists
<1>3. CASE k # K[e]
  <2>1. H2 = H
    BY <1>2, <1>3 DEF Heads
  <2> QED
    BY <1>1, <1>3, <2>1
<1>4. CASE k = K[e] /\ P[e] # 0
  <2>1. H2 = H
    BY <1>2, <1>4 DEF Heads
  <2> QED
    BY <1>1, <1>4, <2>1
<1>5. CASE k = K[e] /\ P[e] = 0 /\ N[e] = 0
  <2>1. H2 = H \ {e} /\ e \in H
    BY <1>5 DEF Heads
  <2> HIDE DEF H, H2
  <2>2. Cardinality(H \ {e}) = Cardinality(H) - 1
    BY <1>1, <2>1, FS_RemoveElement
  <2> QED
    BY <1>1, <1>5, <2>1, <2>2 DEF H, H2
<1>6. CASE k = K[e] /\ P[e] = 0 /\ N[e] # 0
  <2>1. H2 = (H \ {e}) \cup {N[e]} /\ e \in H /\ N[e] \notin H
    BY <1>2, <1>6 DEF Heads
  <2> HIDE DEF H, H2
  <2>2. IsFiniteSet(H \ {e}) /\ Cardinality(H \ {e}) = Cardinality(H) - 1
    BY <1>1, <2>1, FS_RemoveElement
  <2>3. Cardinality((H \ {e}) \cup {N[e]}) = Cardinality(H \ {e}) + 1
    <3>1. N[e] \notin H \ {e}
      BY <2>1
    <3> QED
      BY <2>2, <3>1, FS_AddElement
  <2>4. Cardinality(H2) = Cardinality(H)
    BY <1>1, <2>1, <2>2, <2>3
  <2> QED
    BY <1>1, <1>6, <2>4 DEF H, H2
<1> QED
  BY <1>3, <1>4, <1>5, <1>6

\* The entry i has come behind p, or begins a list; its own key is new.
Joined(L, K, P, N, i, p, K2, P2, N2) ==
    /\ p = 0 \/ p \in L
    /\ P2[i] = p
    /\ N2[i] = IF p = 0 THEN 0 ELSE N[p]
    /\ \A j \in L : K2[j] = K[j] /\ P2[j] = IF j = N2[i] THEN i ELSE P[j]

\* How many lists there are then
LEMMA HeadsEntered ==
    ASSUME NEW L, NEW K, NEW P, NEW N, NEW K2, NEW P2, NEW N2, NEW i, NEW p, NEW k,
           Lists(L, K, P, N), 0 \notin L, IsFiniteSet(L), i \notin L, i # 0,
           Joined(L, K, P, N, i, p, K2, P2, N2)
    PROVE  /\ Cardinality(Heads(L, K, P, k)) \in Nat
           /\ Cardinality(Heads(L \cup {i}, K2, P2, k)) =
                IF k = K2[i] /\ p = 0 THEN Cardinality(Heads(L, K, P, k)) + 1
                ELSE Cardinality(Heads(L, K, P, k))
<1> USE DEF Joined
<1> DEFINE H == Heads(L, K, P, k)
           H2 == Heads(L \cup {i}, K2, P2, k)
<1>1. IsFiniteSet(H) /\ Cardinality(H) \in Nat
  <2>1. H \in SUBSET L
    BY DEF Heads
  <2> HIDE DEF H
  <2> QED
    BY <2>1, FS_Subset, FS_CardinalityType
<1>2. N2[i] # 0 => N2[i] \in L /\ P[N2[i]] # 0
  BY DEF Lists
<1>3. CASE k = K2[i] /\ p = 0
  <2>1. H2 = H \cup {i} /\ i \notin H
    BY <1>2, <1>3 DEF Heads
  <2> HIDE DEF H, H2
  <2>2. Cardinality(H \cup {i}) = Cardinality(H) + 1
    BY <1>1, <2>1, FS_AddElement
  <2> QED
    BY <1>1, <1>3, <2>1, <2>2 DEF H, H2
<1>4. CASE ~(k = K2[i] /\ p = 0)
  <2>1. H2 = H
    BY <1>2, <1>4 DEF Heads
  <2> QED
    BY <1>1, <1>4, <2>1
<1> QED
  BY <1>3, <1>4

(***************************************************************************)
(* Where links do not fail: one list for a key, the index names an entry   *)
(* of it, and no other has the flag F.                                     *)
(***************************************************************************)
One(L, K, P, F, names) ==
    /\ \A i \in L : names[K[i]] # 0
    /\ \A i \in L : F[i] = 1 => names[K[i]] = i
    /\ \A i, j \in L : K[i] = K[j] /\ P[i] = 0 /\ P[j] = 0 => i = j

\* An entry that is alone in its list is alone with its key.
LEMMA Alone ==
    ASSUME NEW L, NEW K, NEW P, NEW N, NEW F, NEW names, Lists(L, K, P, N), 0 \notin L,
           IsFiniteSet(L), One(L, K, P, F, names), NEW e \in L, P[e] = 0, N[e] = 0
    PROVE  \A j \in L \ {e} : K[j] # K[e]
<1> DEFINE X == {e}
<1>1. \A j \in L : K[j] = K[e] /\ P[j] = 0 => j = e
  BY DEF One
<1>2. e \in X /\ \A i \in X : N[i] # 0 => N[i] \in X
  OBVIOUS
<1> HIDE DEF X
<1>3. \A j \in L : K[j] = K[e] => j \in X
  BY <1>1, <1>2, Reaches
<1> QED
  BY <1>3 DEF X

\* The entry e leaves, and the index and the flag pass to an heir if it had them.
Leaves(L, K, P, N, F, names, e, K2, P2, F2, names2) ==
    /\ Unlinked(L, K, P, N, e, K2, P2)
    /\ \A j \in L : K[j] # K[e] => names2[K[j]] = names[K[j]]
    /\ \/ /\ P[e] = 0 /\ N[e] = 0
          /\ \A j \in L \ {e} : F2[j] = F[j]
       \/ \E heir \in L \ {e} :
             /\ F[e] = 1 /\ names2[K[e]] = heir /\ K[heir] = K[e]
             /\ \A j \in L \ {e} : F2[j] = IF j = heir THEN 1 ELSE F[j]
       \/ /\ F[e] # 1 /\ names2[K[e]] = names[K[e]]
          /\ \A j \in L \ {e} : F2[j] = F[j]

\* One list without the entry is one list still, or none.
LEMMA OneLeft ==
    ASSUME NEW L, NEW K, NEW P, NEW N, NEW F, NEW names, Lists(L, K, P, N), 0 \notin L,
           IsFiniteSet(L), One(L, K, P, F, names), NEW e \in L,
           NEW K2, NEW P2, NEW F2, NEW names2,
           Leaves(L, K, P, N, F, names, e, K2, P2, F2, names2)
    PROVE  One(L \ {e}, K2, P2, F2, names2)
<1> USE DEF Leaves, Unlinked
<1>1. ASSUME NEW i \in L \ {e}, NEW j \in L \ {e}, K2[i] = K2[j], P2[i] = 0, P2[j] = 0
      PROVE  i = j
  <2>1. K[i] = K[j]
    BY <1>1
  <2>2. P[i] = 0 /\ P[j] = 0 => i = j
    BY <2>1 DEF One
  <2>3. ASSUME NEW m \in L \ {e}, P2[m] = 0, P[m] # 0
        PROVE  m = N[e] /\ P[e] = 0 /\ K[m] = K[e]
    BY <2>3 DEF Lists
  <2>4. ASSUME NEW m \in L \ {e}, P[m] = 0 PROVE ~(P[e] = 0 /\ K[m] = K[e])
    BY <2>4 DEF One
  <2>5. CASE P[i] = 0 /\ P[j] # 0
    BY <1>1, <2>1, <2>3, <2>4, <2>5
  <2>6. CASE P[i] # 0 /\ P[j] = 0
    BY <1>1, <2>1, <2>3, <2>4, <2>6
  <2>7. CASE P[i] # 0 /\ P[j] # 0
    BY <1>1, <2>3, <2>7
  <2> QED
    BY <2>2, <2>5, <2>6, <2>7
<1>2. ASSUME NEW i \in L \ {e}
      PROVE  names2[K2[i]] # 0 /\ (F2[i] = 1 => names2[K2[i]] = i)
  <2>1. names[K[i]] # 0 /\ (F[i] = 1 => names[K[i]] = i) /\ K2[i] = K[i]
        /\ (F[e] = 1 => names[K[e]] = e)
    BY DEF One
  <2>2. CASE /\ P[e] = 0 /\ N[e] = 0
             /\ \A j \in L \ {e} : F2[j] = F[j]
    <3>1. K[i] # K[e]
      BY <2>2, Alone
    <3> QED
      BY <2>1, <2>2, <3>1
  <2>3. ASSUME NEW heir \in L \ {e}, F[e] = 1, names2[K[e]] = heir, K[heir] = K[e],
               \A j \in L \ {e} : F2[j] = IF j = heir THEN 1 ELSE F[j]
        PROVE  names2[K2[i]] # 0 /\ (F2[i] = 1 => names2[K2[i]] = i)
    BY <2>1, <2>3
  <2>4. CASE /\ F[e] # 1 /\ names2[K[e]] = names[K[e]]
             /\ \A j \in L \ {e} : F2[j] = F[j]
    BY <2>1, <2>4
  <2> QED
    BY <2>2, <2>3, <2>4
<1> QED
  BY <1>1, <1>2 DEF One

\* The entry i comes behind p, or is the first of its key; its key has the flag nowhere else, or it
\* has none itself.
Joins(L, K, P, N, F, names, i, p, K2, P2, N2, F2, names2) ==
    /\ Joined(L, K, P, N, i, p, K2, P2, N2)
    /\ IF p = 0 THEN \A j \in L : K[j] # K2[i] ELSE K[p] = K2[i]
    /\ \A j \in L : K[j] # K2[i] => names2[K[j]] = names[K[j]] /\ F2[j] = F[j]
    /\ \/ /\ names2[K2[i]] = i
          /\ \A j \in L : K[j] = K2[i] => F2[j] # 1
       \/ /\ names2[K2[i]] = names[K2[i]] /\ p # 0 /\ F2[i] # 1
          /\ \A j \in L : F2[j] = F[j]

\* One list with another entry, or the first entry of a key, is one list.
LEMMA OneEntered ==
    ASSUME NEW L, NEW K, NEW P, NEW N, NEW F, NEW names, Lists(L, K, P, N), 0 \notin L,
           One(L, K, P, F, names), NEW i, i \notin L, i # 0, NEW p,
           NEW K2, NEW P2, NEW N2, NEW F2, NEW names2,
           Joins(L, K, P, N, F, names, i, p, K2, P2, N2, F2, names2)
    PROVE  One(L \cup {i}, K2, P2, F2, names2)
<1> USE DEF Joins, Joined
<1>1. ASSUME NEW m \in L \cup {i}, NEW j \in L \cup {i}, K2[m] = K2[j], P2[m] = 0, P2[j] = 0
      PROVE  m = j
  <2>1. ASSUME NEW a \in L, P2[a] = 0 PROVE P[a] = 0
    BY <2>1
  <2>2. CASE m \in L /\ j \in L
    BY <1>1, <2>1, <2>2 DEF One
  <2>3. CASE m = i \/ j = i
    BY <1>1, <2>3
  <2> QED
    BY <2>2, <2>3
<1>2. ASSUME NEW j \in L \cup {i}
      PROVE  names2[K2[j]] # 0 /\ (F2[j] = 1 => names2[K2[j]] = j)
  <2>1. \A m \in L : names[K[m]] # 0 /\ (F[m] = 1 => names[K[m]] = m) /\ K2[m] = K[m]
    BY DEF One
  <2>2. CASE j \in L /\ K[j] # K2[i]
    BY <2>1, <2>2
  <2>3. CASE j \in L /\ K[j] = K2[i]
    BY <2>1, <2>3
  <2>4. CASE j = i
    BY <2>1, <2>4
  <2> QED
    BY <2>2, <2>3, <2>4
<1> QED
  BY <1>1, <1>2 DEF One

\* Nothing else matters.
LEMMA OneSame ==
    ASSUME NEW L, NEW K, NEW P, NEW F, NEW names, NEW K2, NEW P2, NEW F2,
           One(L, K, P, F, names),
           \A j \in L : K2[j] = K[j] /\ P2[j] = P[j] /\ F2[j] = F[j]
    PROVE  One(L, K2, P2, F2, names)
BY DEF One

-------------------------------------------------------------------------------
(* A deletion: what becomes of the counts, the flags and the index *)

\* What the index, the flags and the charges become when e goes: its list has gone, the index and
\* the flag pass to an heir, or e had neither.
Passed(db, fix, L, e, new) ==
    /\ new.charged = IF e.prev = 0 /\ e.next = 0 THEN [db.charged EXCEPT ![e.key] = @ - 1]
                     ELSE db.charged
    /\ \A k \in Keys : k # e.key => new.index[k] = db.index[k]
    /\ \/ /\ e.prev = 0 /\ e.next = 0
          /\ \A j \in L \ {e.id} :
                Field(new.rows, new.fix, "pointed_to")[j] = Field(db.rows, fix, "pointed_to")[j]
       \/ \E heir \in L \ {e.id} :
             /\ e.pointed_to = 1 /\ new.index[e.key] = heir /\ KeysOf(db.rows)[heir] = e.key
             /\ \A j \in L \ {e.id} :
                   Field(new.rows, new.fix, "pointed_to")[j] =
                       IF j = heir THEN 1 ELSE Field(db.rows, fix, "pointed_to")[j]
       \/ /\ e.pointed_to # 1 /\ new.index[e.key] = db.index[e.key]
          /\ \A j \in L \ {e.id} :
                Field(new.rows, new.fix, "pointed_to")[j] = Field(db.rows, fix, "pointed_to")[j]

\* The three ways of deleteFileSQL
LEMMA DisownedPasses ==
    ASSUME NEW db, NEW range, Kept(db, db, range), NEW fix, NEW L, NEW e, Seen(db, fix, L, e),
           NEW new, new = Disowned(db, fix, L, e, range)
    PROVE  Passed(db, fix, L, e, new)
<1>0. /\ "pointed_to" \in Fields /\ L \subseteq DOMAIN db.rows /\ DOMAIN db.index = Keys
      /\ \A j \in L \ {e.id} :
            Field(db.rows, db.fix, "pointed_to")[j] = Field(db.rows, fix, "pointed_to")[j]
  BY DEF Seen, Good, Fields
<1>1. e.key \in Keys
  BY KeysAre DEF Seen, Good
<1>2. db = [rows |-> db.rows, index |-> db.index, charged |-> db.charged, fix |-> db.fix]
  BY DEF Kept
<1>3. CASE e.prev = 0 /\ e.next = 0
  <2> DEFINE value == IF /\ e.pointed_to = 1
                         /\ \E l \in Clients : db.index[<<l, e.key[2]>>] # 0
                         /\ db.index[e.key] \in {0, e.id}
                      THEN 0 ELSE db.index[e.key]
  <2>1. new = [db EXCEPT !.charged[e.key] = @ - 1, !.index[e.key] = value]
    BY <1>3 DEF Disowned, LastEntry
  <2> HIDE DEF value
  <2>2. /\ new.rows = db.rows /\ new.fix = db.fix
        /\ new.charged = [db.charged EXCEPT ![e.key] = @ - 1]
        /\ new.index = [db.index EXCEPT ![e.key] = value]
    BY <1>2, <2>1
  <2>3. \A k \in Keys : k # e.key => new.index[k] = db.index[k]
    BY <1>0, <2>2
  <2> QED
    BY <1>0, <1>3, <2>2, <2>3 DEF Passed
<1>4. CASE ~(e.prev = 0 /\ e.next = 0) /\ e.pointed_to = 1
  <2> DEFINE heir == IF e.next \notin {0, e.id} THEN e.next ELSE e.prev
             mid == Store(db, range, heir, "pointed_to", 1)
  <2>1. heir \in L \ {e.id} /\ KeysOf(db.rows)[heir] = e.key
    BY <1>4 DEF Seen, Good, Lists
  <2>2. new = [mid EXCEPT !.index[e.key] = heir]
    BY <1>4, <2>1 DEF Disowned, PassFlag
  <2> HIDE DEF heir
  <2>3. /\ Kept(db, mid, range)
        /\ mid.index = db.index /\ mid.charged = db.charged
        /\ \A j \in DOMAIN db.rows, g \in Fields :
              Field(mid.rows, mid.fix, g)[j] =
                  IF j = heir /\ g = "pointed_to" THEN 1 ELSE Field(db.rows, db.fix, g)[j]
    <3>1. heir \in DOMAIN db.rows /\ Fits("pointed_to", 1)
      BY <1>0, <2>1 DEF Fits
    <3> QED
      BY <3>1, StoreIs
  <2> HIDE DEF mid
  <2>4. /\ new.rows = mid.rows /\ new.fix = mid.fix /\ new.charged = db.charged
        /\ new.index = [db.index EXCEPT ![e.key] = heir]
    BY <2>2, <2>3 DEF Kept
  <2>5. /\ new.index[e.key] = heir
        /\ \A k \in Keys : k # e.key => new.index[k] = db.index[k]
    BY <1>0, <1>1, <2>4
  <2>6. \A j \in L \ {e.id} :
           Field(new.rows, new.fix, "pointed_to")[j] =
               IF j = heir THEN 1 ELSE Field(db.rows, fix, "pointed_to")[j]
    BY <1>0, <2>3, <2>4
  <2> QED
    BY <1>4, <2>1, <2>4, <2>5, <2>6 DEF Passed
<1>5. CASE ~(e.prev = 0 /\ e.next = 0) /\ e.pointed_to # 1
  <2>1. new = db
    BY <1>5 DEF Disowned
  <2> QED
    BY <1>0, <1>5, <2>1 DEF Passed
<1> QED
  BY <1>3, <1>4, <1>5

\* Unlinking changes none of this.
LEMMA DeleteEntryPasses ==
    ASSUME NEW db, NEW range, Kept(db, db, range), NEW fix, NEW L, NEW e, Seen(db, fix, L, e),
           NEW new, new = DeleteEntry(db, e, range)
    PROVE  /\ Passed(db, fix, L, e, new)
           /\ KeysOf(new.rows) = KeysOf(db.rows)
           /\ \A j \in L \ {e.id} :
                 Field(new.rows, new.fix, "prev")[j] =
                     IF j = e.next THEN e.prev ELSE Field(db.rows, fix, "prev")[j]
           /\ \A j \in L \ {e.id} :
                 Field(new.rows, new.fix, "next")[j] =
                     IF j = e.prev THEN e.next ELSE Field(db.rows, fix, "next")[j]
<1> DEFINE mid == Disowned(db, fix, L, e, range)
<1>1. new = Unlink(mid, e, range)
  BY DEF DeleteEntry, Disowned
<1> HIDE DEF mid
<1>2. mid = Disowned(db, fix, L, e, range)
  BY DEF mid
<1>3. /\ Kept(db, mid, range)
      /\ \A j \in L \ {e.id}, g \in {"prev", "next"} :
            Field(mid.rows, mid.fix, g)[j] = Field(db.rows, fix, g)[j]
      /\ \A j \in L \ {e.id} : Field(mid.rows, mid.fix, "pointed_to")[j] \in 0..1
      /\ DOMAIN mid.index = Keys /\ mid.index = [key \in Keys |-> mid.index[key]]
      /\ \A k \in Keys : mid.index[k] # 0 =>
            /\ mid.index[k] \in L \ {e.id}
            /\ KeysOf(mid.rows)[mid.index[k]] = k
            /\ Field(mid.rows, mid.fix, "pointed_to")[mid.index[k]] = 1
  BY <1>2, DisownedIs
<1>4. Passed(db, fix, L, e, mid)
  BY <1>2, DisownedPasses
<1>5. /\ Kept(mid, mid, range)
      /\ DOMAIN mid.rows = DOMAIN db.rows
      /\ KeysOf(mid.rows) = KeysOf(db.rows)
  BY <1>3, KeptOn DEF Kept
<1>6. /\ L \subseteq DOMAIN db.rows
      /\ DOMAIN db.rows \subseteq Ids
      /\ e.prev \in L \cup {0} /\ e.next \in L \cup {0}
  BY DEF Seen, Good, Lists
<1>7. /\ Kept(mid, new, range)
      /\ new.index = mid.index /\ new.charged = mid.charged
      /\ \A j \in DOMAIN db.rows :
            /\ Field(new.rows, new.fix, "prev")[j] =
                  IF j = e.next THEN e.prev ELSE Field(mid.rows, mid.fix, "prev")[j]
            /\ Field(new.rows, new.fix, "next")[j] =
                  IF j = e.prev THEN e.next ELSE Field(mid.rows, mid.fix, "next")[j]
            /\ Field(new.rows, new.fix, "pointed_to")[j] =
                  Field(mid.rows, mid.fix, "pointed_to")[j]
  BY <1>1, <1>5, <1>6, UnlinkIs
<1>8. KeysOf(new.rows) = KeysOf(db.rows)
  BY <1>5, <1>7 DEF Kept
<1>9. Passed(db, fix, L, e, new)
  <2>1. \A j \in L \ {e.id} : Field(new.rows, new.fix, "pointed_to")[j] =
                                 Field(mid.rows, mid.fix, "pointed_to")[j]
    BY <1>6, <1>7
  <2> QED
    BY <1>4, <1>7, <2>1 DEF Passed
<1> QED
  BY <1>3, <1>6, <1>7, <1>8, <1>9

\* One list for a key stays one, or goes.
LEMMA OnePassed ==
    ASSUME NEW db, NEW range, Kept(db, db, range), NEW fix, NEW L, NEW e, Seen(db, fix, L, e),
           NEW new, new = DeleteEntry(db, e, range),
           One(L, KeysOf(db.rows), Field(db.rows, fix, "prev"),
               Field(db.rows, fix, "pointed_to"), db.index)
    PROVE  One(L \ {e.id}, KeysOf(new.rows), Field(new.rows, new.fix, "prev"),
               Field(new.rows, new.fix, "pointed_to"), new.index)
<1> DEFINE K == KeysOf(db.rows)
           P == Field(db.rows, fix, "prev")
           N == Field(db.rows, fix, "next")
           F == Field(db.rows, fix, "pointed_to")
           K2 == KeysOf(new.rows)
           P2 == Field(new.rows, new.fix, "prev")
           F2 == Field(new.rows, new.fix, "pointed_to")
           names == db.index
           names2 == new.index
           i == e.id
<1>1. /\ Lists(L, K, P, N) /\ 0 \notin L /\ IsFiniteSet(L) /\ i \in L
      /\ One(L, K, P, F, names)
      /\ P[i] = e.prev /\ N[i] = e.next /\ F[i] = e.pointed_to /\ K[i] = e.key
      /\ \A j \in L : K[j] \in Keys
  <2>1. L \subseteq Ids /\ IsFiniteSet(Ids) /\ 0 \notin Ids
    BY EntriesAssumption, FS_Interval DEF Seen, Good, Ids
  <2>2. \A j \in L : K[j] \in Keys
    BY KeysAre DEF Seen, Good
  <2> QED
    BY <2>1, <2>2, FS_Subset DEF Seen, Good
<1>2. /\ Passed(db, fix, L, e, new)
      /\ K2 = K
      /\ \A j \in L \ {i} : P2[j] = IF j = N[i] THEN P[i] ELSE P[j]
  BY <1>1, DeleteEntryPasses
<1>3. \A j \in L \ {i} : K2[j] = K[j] /\ P2[j] = IF j = N[i] THEN P[i] ELSE P[j]
  BY <1>2
<1>4. \A j \in L : K[j] # K[i] => names2[K[j]] = names[K[j]]
  BY <1>1, <1>2 DEF Passed
<1>5. \/ /\ P[i] = 0 /\ N[i] = 0
         /\ \A j \in L \ {i} : F2[j] = F[j]
      \/ \E heir \in L \ {i} :
            /\ F[i] = 1 /\ names2[K[i]] = heir /\ K[heir] = K[i]
            /\ \A j \in L \ {i} : F2[j] = IF j = heir THEN 1 ELSE F[j]
      \/ /\ F[i] # 1 /\ names2[K[i]] = names[K[i]]
         /\ \A j \in L \ {i} : F2[j] = F[j]
  BY <1>1, <1>2 DEF Passed
<1> HIDE DEF K, P, N, F, K2, P2, F2, i, names, names2
<1>6. Leaves(L, K, P, N, F, names, i, K2, P2, F2, names2)
  BY <1>3, <1>4, <1>5 DEF Leaves, Unlinked
<1>7. One(L \ {i}, K2, P2, F2, names2)
  BY <1>1, <1>6, OneLeft
<1> QED
  BY <1>7 DEF K2, P2, F2, i, names2

-------------------------------------------------------------------------------
(***************************************************************************)
(* The lists of a client are charged for, but for one that was there       *)
(* before an upgrade; where links do not fail there is one for a content.  *)
(***************************************************************************)
ListsOf(k) == Heads(Live, KeysOf(rows), Field(rows, removal.fix, "prev"), k)

\* The client of k is charged n times, or once less.
Counts(k, n) == charged[k] = n \/ (setting.upgrade /\ charged[k] = n - 1)

\* Every list is charged for.
Counted ==
    /\ DOMAIN charged = Keys
    /\ charged = [k \in Keys |-> charged[k]]
    /\ \A k \in Keys : Counts(k, Cardinality(ListsOf(k)))

\* There is one list for every key.
Single ==
    One(Live, KeysOf(rows), Field(rows, removal.fix, "prev"),
        Field(rows, removal.fix, "pointed_to"), index)

\* What the table in order says of the rows that live
LEMMA LiveIs ==
    ASSUME Good(rows, removal.fix, index, Live)
    PROVE  /\ Lists(Live, KeysOf(rows), Field(rows, removal.fix, "prev"),
                    Field(rows, removal.fix, "next"))
           /\ 0 \notin Live /\ IsFiniteSet(Live) /\ Live \subseteq Ids
           /\ \A j \in Live : KeysOf(rows)[j] \in Keys
<1>1. Live \subseteq Ids /\ IsFiniteSet(Ids) /\ 0 \notin Ids
  BY EntriesAssumption, FS_Interval DEF Good, Ids
<1>2. \A j \in Live : KeysOf(rows)[j] \in Keys
  BY KeysAre DEF Good
<1> QED
  BY <1>1, <1>2, FS_Subset DEF Good

\* A step that leaves what lives as it is changes neither.
LEMMA AlikeCounted ==
    ASSUME Alike, UNCHANGED setting
    PROVE  (Counted => Counted') /\ (Single => Single')
<1>1. /\ Live' = Live /\ UNCHANGED <<index, charged>>
      /\ \A j \in Live : KeysOf(rows')[j] = KeysOf(rows)[j]
      /\ \A j \in Live : /\ Field(rows', removal'.fix, "prev")[j] =
                               Field(rows, removal.fix, "prev")[j]
                         /\ Field(rows', removal'.fix, "pointed_to")[j] =
                               Field(rows, removal.fix, "pointed_to")[j]
  BY DEF Alike, Fields
<1>2. \A k : ListsOf(k)' = ListsOf(k)
  BY <1>1 DEF ListsOf, Heads
<1>3. Counted => Counted'
  BY <1>1, <1>2 DEF Counted, Counts
<1>4. Single => Single'
  <2>1. ASSUME Single
        PROVE  One(Live, KeysOf(rows'), Field(rows', removal'.fix, "prev"),
                   Field(rows', removal'.fix, "pointed_to"), index)
    BY <1>1, <2>1, OneSame DEF Single
  <2> QED
    BY <1>1, <2>1 DEF Single
<1> QED
  BY <1>3, <1>4

\* A deletion takes back the charge with the list.
LEMMA DeletesCounted ==
    ASSUME Good(rows, removal.fix, index, Live), UNCHANGED setting,
           NEW db, NEW range, NEW e, NEW new, Deletes(db, range, e, new), Counted
    PROVE  Counted'
<1> DEFINE L == Live
           K == KeysOf(rows)
           P == Field(rows, removal.fix, "prev")
           N == Field(rows, removal.fix, "next")
           K2 == KeysOf(rows')
           P2 == Field(rows', removal'.fix, "prev")
           i == e.id
<1>1. /\ db.rows = rows /\ db.index = index /\ db.charged = charged
      /\ charged' = new.charged
      /\ Live' = L \ {i}
      /\ \A j \in L \ {i} : K2[j] = KeysOf(new.rows)[j]
      /\ \A j \in L \ {i} : P2[j] = Field(new.rows, new.fix, "prev")[j]
  BY DEF Deletes, Fields
<1>2. /\ Passed(db, removal.fix, L, e, new)
      /\ KeysOf(new.rows) = KeysOf(db.rows)
      /\ \A j \in L \ {i} : Field(new.rows, new.fix, "prev")[j] =
                               IF j = e.next THEN e.prev ELSE Field(db.rows, removal.fix, "prev")[j]
  BY DeleteEntryPasses DEF Deletes
<1>3. i \in L /\ e.prev = P[i] /\ e.next = N[i] /\ e.key = K[i]
  BY <1>1 DEF Deletes, Seen
<1>4. Lists(L, K, P, N) /\ 0 \notin L /\ IsFiniteSet(L)
  BY LiveIs
<1>5. K[i] \in Keys
  BY <1>3, LiveIs
<1>6. Unlinked(L, K, P, N, i, K2, P2)
  BY <1>1, <1>2, <1>3 DEF Unlinked
<1>7. charged' = IF P[i] = 0 /\ N[i] = 0 THEN [charged EXCEPT ![K[i]] = @ - 1] ELSE charged
  BY <1>1, <1>2, <1>3 DEF Passed
<1>8. DOMAIN charged' = Keys /\ charged' = [k \in Keys |-> charged'[k]]
  BY <1>7 DEF Counted
<1>9. ASSUME NEW k \in Keys PROVE Counts(k, Cardinality(ListsOf(k)))'
  <2>1. ListsOf(k) = Heads(L, K, P, k) /\ ListsOf(k)' = Heads(L \ {i}, K2, P2, k)
    BY <1>1 DEF ListsOf
  <2>2. Counts(k, Cardinality(ListsOf(k)))
    BY DEF Counted
  <2>3. charged'[k] = IF k = K[i] /\ P[i] = 0 /\ N[i] = 0 THEN charged[k] - 1 ELSE charged[k]
    BY <1>5, <1>7 DEF Counted
  <2> HIDE DEF L, K, P, N, K2, P2, i
  <2>4. /\ Cardinality(Heads(L, K, P, k)) \in Nat
        /\ Cardinality(Heads(L \ {i}, K2, P2, k)) =
             IF k = K[i] /\ P[i] = 0 /\ N[i] = 0 THEN Cardinality(Heads(L, K, P, k)) - 1
             ELSE Cardinality(Heads(L, K, P, k))
    BY <1>3, <1>4, <1>6, HeadsLeft
  <2> QED
    BY <2>1, <2>2, <2>3, <2>4 DEF Counts
<1> QED
  BY <1>8, <1>9 DEF Counted

\* One list stays one, or goes.
LEMMA DeletesSingle ==
    ASSUME NEW db, NEW range, NEW e, NEW new, Deletes(db, range, e, new), Single
    PROVE  Single'
<1>1. One(Live \ {e.id}, KeysOf(new.rows), Field(new.rows, new.fix, "prev"),
          Field(new.rows, new.fix, "pointed_to"), new.index)
  BY OnePassed DEF Deletes, Single
<1>2. /\ Live' = Live \ {e.id} /\ index' = new.index
      /\ \A j \in Live \ {e.id} :
            /\ KeysOf(rows')[j] = KeysOf(new.rows)[j]
            /\ Field(rows', removal'.fix, "prev")[j] = Field(new.rows, new.fix, "prev")[j]
            /\ Field(rows', removal'.fix, "pointed_to")[j] =
                  Field(new.rows, new.fix, "pointed_to")[j]
  BY DEF Deletes, Fields
<1>3. One(Live \ {e.id}, KeysOf(rows'), Field(rows', removal'.fix, "prev"),
          Field(rows', removal'.fix, "pointed_to"), new.index)
  BY <1>1, <1>2, OneSame
<1> QED
  BY <1>2, <1>3 DEF Single

\* The new entry and its neighbours, as the lemmas about lists see them
LEMMA ComesJoined ==
    ASSUME Good(rows, NoFix, index, DOMAIN rows), \A j \in DOMAIN rows : j < MaxEntries,
           NEW k \in Keys, NEW p, Comes(k, p)
    PROVE  /\ Joined(DOMAIN rows, KeysOf(rows), Field(rows, NoFix, "prev"),
                     Field(rows, NoFix, "next"), NewId, p, KeysOf(rows'),
                     Field(rows', NoFix, "prev"), Field(rows', NoFix, "next"))
           /\ NewId \notin DOMAIN rows /\ NewId # 0 /\ KeysOf(rows')[NewId] = k
           /\ DOMAIN rows' = DOMAIN rows \cup {NewId}
           /\ p # 0 => KeysOf(rows)[p] = k
<1> DEFINE i == NewId
<1>1. DOMAIN rows \subseteq Ids
  BY DEF Good
<1>2. i \notin DOMAIN rows /\ i # 0
  BY <1>1, NewIdIs
<1>3. /\ p # 0 => p \in DOMAIN rows /\ KeysOf(rows)[p] = k
      /\ DOMAIN rows' = DOMAIN rows \cup {i}
      /\ KeysOf(rows')[i] = k
      /\ rows'[i].prev = p
      /\ rows'[i].next = IF p = 0 THEN 0 ELSE rows[p].next
      /\ \A j \in DOMAIN rows :
            /\ KeysOf(rows')[j] = KeysOf(rows)[j]
            /\ rows'[j].prev = IF j = rows'[i].next THEN i ELSE rows[j].prev
  BY DEF Comes
<1> HIDE DEF i
<1>4. /\ \A j \in DOMAIN rows : /\ Field(rows, NoFix, "prev")[j] = rows[j].prev
                                /\ Field(rows, NoFix, "next")[j] = rows[j].next
      /\ \A j \in DOMAIN rows \cup {i} : /\ Field(rows', NoFix, "prev")[j] = rows'[j].prev
                                         /\ Field(rows', NoFix, "next")[j] = rows'[j].next
  BY <1>3, NoFixIs
<1>5. Joined(DOMAIN rows, KeysOf(rows), Field(rows, NoFix, "prev"), Field(rows, NoFix, "next"),
             i, p, KeysOf(rows'), Field(rows', NoFix, "prev"), Field(rows', NoFix, "next"))
  BY <1>3, <1>4 DEF Joined
<1> QED
  BY <1>2, <1>3, <1>5 DEF i

\* All that lives are the rows, before and after.
AllLive ==
    /\ Live = DOMAIN rows /\ removal.fix = NoFix
    /\ Live' = DOMAIN rows' /\ removal'.fix = NoFix

\* A new list is charged for.
LEMMA AddedCounted ==
    ASSUME Good(rows, NoFix, index, DOMAIN rows), \A j \in DOMAIN rows : j < MaxEntries,
           NEW k \in Keys, NEW p, Comes(k, p), AllLive, UNCHANGED setting, Counted
    PROVE  Counted'
<1> DEFINE L == DOMAIN rows
           K == KeysOf(rows)
           P == Field(rows, NoFix, "prev")
           N == Field(rows, NoFix, "next")
           K2 == KeysOf(rows')
           P2 == Field(rows', NoFix, "prev")
           N2 == Field(rows', NoFix, "next")
           i == NewId
<1>1. /\ Joined(L, K, P, N, i, p, K2, P2, N2)
      /\ i \notin L /\ i # 0 /\ K2[i] = k
      /\ DOMAIN rows' = L \cup {i}
  BY ComesJoined
<1>2. Lists(L, K, P, N) /\ 0 \notin L /\ IsFiniteSet(L)
  BY LiveIs DEF AllLive
<1>3. charged' = IF p = 0 THEN [charged EXCEPT ![k] = @ + 1] ELSE charged
  BY DEF Comes
<1>4. DOMAIN charged' = Keys /\ charged' = [q \in Keys |-> charged'[q]]
  BY <1>3 DEF Counted
<1>5. ASSUME NEW q \in Keys PROVE Counts(q, Cardinality(ListsOf(q)))'
  <2>1. ListsOf(q) = Heads(L, K, P, q) /\ ListsOf(q)' = Heads(L \cup {i}, K2, P2, q)
    BY <1>1 DEF ListsOf, AllLive
  <2>2. Counts(q, Cardinality(ListsOf(q)))
    BY DEF Counted
  <2>3. charged'[q] = IF q = k /\ p = 0 THEN charged[q] + 1 ELSE charged[q]
    BY <1>3 DEF Counted
  <2> HIDE DEF L, K, P, N, K2, P2, N2, i
  <2>4. /\ Cardinality(Heads(L, K, P, q)) \in Nat
        /\ Cardinality(Heads(L \cup {i}, K2, P2, q)) =
             IF q = K2[i] /\ p = 0 THEN Cardinality(Heads(L, K, P, q)) + 1
             ELSE Cardinality(Heads(L, K, P, q))
    BY <1>1, <1>2, HeadsEntered
  <2> QED
    BY <1>1, <2>1, <2>2, <2>3, <2>4 DEF Counts
<1> QED
  BY <1>4, <1>5 DEF Counted

\* An entry added behind another one of its client, or as the first of it, leaves one list with one
\* flag.
LEMMA AddedSingle ==
    ASSUME Good(rows, NoFix, index, DOMAIN rows), \A j \in DOMAIN rows : j < MaxEntries,
           NEW k \in Keys, NEW p, Comes(k, p), Flags(k, p), AllLive, Single,
           p = 0 => \A j \in DOMAIN rows : KeysOf(rows)[j] # k
    PROVE  Single'
<1> DEFINE L == DOMAIN rows
           K == KeysOf(rows)
           P == Field(rows, NoFix, "prev")
           N == Field(rows, NoFix, "next")
           F == Field(rows, NoFix, "pointed_to")
           K2 == KeysOf(rows')
           P2 == Field(rows', NoFix, "prev")
           N2 == Field(rows', NoFix, "next")
           F2 == Field(rows', NoFix, "pointed_to")
           names == index
           names2 == index'
           i == NewId
<1>1. /\ Joined(L, K, P, N, i, p, K2, P2, N2)
      /\ i \notin L /\ i # 0 /\ K2[i] = k
      /\ DOMAIN rows' = L \cup {i}
      /\ p # 0 => K[p] = k
  BY ComesJoined
<1>2. /\ Lists(L, K, P, N) /\ 0 \notin L
      /\ One(L, K, P, F, names)
      /\ \A j \in L : K[j] \in Keys
      /\ DOMAIN index = Keys
  BY LiveIs DEF AllLive, Single, Good
<1>3. /\ \A j \in L : F[j] = rows[j].pointed_to
      /\ \A j \in L \cup {i} : F2[j] = rows'[j].pointed_to
  BY <1>1, NoFixIs
<1>4. IF p = 0 THEN \A j \in L : K[j] # K2[i] ELSE K[p] = K2[i]
  BY <1>1
<1>5. \A j \in L : K[j] # K2[i] => names2[K[j]] = names[K[j]] /\ F2[j] = F[j]
  BY <1>1, <1>2, <1>3 DEF Flags
<1>6. \/ /\ names2[K2[i]] = i
         /\ \A j \in L : K[j] = K2[i] => F2[j] # 1
      \/ /\ names2[K2[i]] = names[K2[i]] /\ p # 0 /\ F2[i] # 1
         /\ \A j \in L : F2[j] = F[j]
  <2>1. CASE index' = index /\ p # 0 /\ rows'[i].pointed_to = 0
             /\ \A j \in L : rows'[j].pointed_to = rows[j].pointed_to
    BY <1>3, <2>1
  <2>2. CASE /\ index' = [index EXCEPT ![k] = i]
             /\ p # 0 => \A j \in L : rows'[j].pointed_to = 1 =>
                            /\ rows[j].pointed_to = 1
                            /\ j # IF rows[p].pointed_to = 1 THEN p ELSE index[k]
    <3>1. names2[K2[i]] = i
      BY <1>1, <1>2, <2>2
    <3>2. ASSUME NEW j \in L, K[j] = k, rows'[j].pointed_to = 1 PROVE FALSE
      <4>1. p # 0 /\ p \in L /\ K[p] = k
        BY <1>1, <1>4, <3>2 DEF Joined
      <4>2. rows[j].pointed_to = 1 /\ j # IF rows[p].pointed_to = 1 THEN p ELSE index[k]
        BY <2>2, <3>2, <4>1
      <4>3. \A m \in L : F[m] = 1 => names[K[m]] = m
        BY <1>2 DEF One
      <4> HIDE DEF K
      <4>4. index[k] = j /\ (rows[p].pointed_to = 1 => index[k] = p)
        BY <1>3, <3>2, <4>1, <4>2, <4>3
      <4> QED
        BY <4>2, <4>4
    <3> QED
      BY <1>1, <1>3, <3>1, <3>2
  <2> QED
    BY <2>1, <2>2 DEF Flags
<1> HIDE DEF L, K, P, N, F, K2, P2, N2, F2, names, names2, i
<1>7. Joins(L, K, P, N, F, names, i, p, K2, P2, N2, F2, names2)
  BY <1>1, <1>4, <1>5, <1>6 DEF Joins
<1>8. One(L \cup {i}, K2, P2, F2, names2)
  BY <1>1, <1>2, <1>7, OneEntered
<1> QED
  BY <1>1, <1>8 DEF L, K2, P2, F2, names2, i, Single, AllLive

-------------------------------------------------------------------------------
(***************************************************************************)
(* Where the search stands, as long as the client has entries E with the   *)
(* content: it has not begun, or it goes along their list, forward from    *)
(* the first one found, then backward from it; what it has seen has gone.  *)
(***************************************************************************)
Ahead(E) ==
    \/ E = {}
    \/ job.step = "find" /\ job.state = 0
    \/ /\ job.step = "find" /\ job.state = 1
       /\ IF job.seen.next # 0 THEN job.seen.next \in E /\ rows[job.seen.next].prev = job.orig
          ELSE job.orig \in E /\ rows[job.orig].next = 0
    \/ /\ job.step = "find" /\ job.state = 2
       /\ job.seen.prev \in E /\ rows[job.seen.prev].next = 0
    \/ /\ job.step = "link" /\ job.state = 1
       /\ job.seen.id \in E /\ job.seen.prev = job.orig
    \/ /\ job.step = "link" /\ job.state = 2
       /\ job.seen.id \in E /\ job.seen.next = 0

\* A search has not passed any entry by.
Searched ==
    job.step \in {"find", "link", "store"} =>
        Ahead(Entries(<<Client[job.backup], job.content>>))

\* What the search knows when it has read the entry i
LEMMA ReadMakes ==
    ASSUME IsJob, NEW i, NEW state, NEW orig, NEW others, Read(i, state, orig, others)
    PROVE  /\ job'.backup = job.backup /\ job'.content = job.content
           /\ i \in DOMAIN rows /\ rows[i].content = job.content =>
                 /\ job'.step = "link" /\ job'.state = state
                 /\ job'.seen.id = i
                 /\ job'.seen.prev = rows[i].prev /\ job'.seen.next = rows[i].next
                 /\ job'.orig = IF orig THEN rows[i].prev ELSE job.orig
<1>0. job = [field \in JobFields |-> job[field]]
  BY DEF IsJob
<1>1. CASE i \in DOMAIN rows /\ rows[i].content = job.content
  <2>1. job' = [job EXCEPT !.step = "link", !.state = state, !.others = others,
                           !.seen = [id |-> i, prev |-> rows[i].prev, next |-> rows[i].next],
                           !.orig = IF orig THEN rows[i].prev ELSE @,
                           !.tried = TRUE]
    BY <1>1 DEF Read
  <2> QED
    BY <1>0, <2>1 DEF JobFields
<1>2. CASE ~(i \in DOMAIN rows /\ rows[i].content = job.content)
  <2>1. job' = [job EXCEPT !.step = "store", !.state = state]
    BY <1>2 DEF Read
  <2> QED
    BY <1>0, <1>2, <2>1 DEF JobFields
<1> QED
  BY <1>1, <1>2

\* The entries of a content and a client are rows with the content.
LEMMA EntriesAre ==
    ASSUME rows \in [DOMAIN rows -> Row], DOMAIN rows \subseteq Ids,
           NEW k, NEW i \in Entries(k)
    PROVE  i \in DOMAIN rows /\ i # 0 /\ KeysOf(rows)[i] = k /\ rows[i].content = k[2]
<1>1. i \in DOMAIN rows /\ Key(i) = k
  BY DEF Entries
<1>2. i # 0
  BY <1>1, EntriesAssumption DEF Ids
<1>3. KeysOf(rows)[i] = k
  BY <1>1 DEF Key, KeysOf, KeyOf
<1>4. k[2] = rows[i].content
  BY <1>1 DEF Key
<1> QED
  BY <1>1, <1>2, <1>3, <1>4

\* A step of the search
LEMMA FindSearched ==
    ASSUME InOrder, Single, Searched,
           FindFirst \/ FindInList \/ FindOtherClients \/ FindNextClient
    PROVE  Searched'
<1> DEFINE k == <<Client[job.backup], job.content>>
           E == Entries(k)
<1>1. /\ rows' = rows /\ job.step = "find"
      /\ \E i, state, orig, others : Read(i, state, orig, others)
  BY DEF FindFirst, FindInList, FindOtherClients, FindNextClient
<1>2. IsJob /\ removal = NoRemoval
  BY <1>1 DEF InOrder, NoJob, IsJob
<1>3. /\ rows \in [DOMAIN rows -> Row] /\ DOMAIN rows \subseteq Ids
      /\ Good(rows, NoFix, index, DOMAIN rows)
      /\ Live = DOMAIN rows
  <2>1. rows \in [DOMAIN rows -> Row]
    BY DEF InOrder, Good
  <2> QED
    BY <1>2, <2>1, QuietIs DEF InOrder, Good
<1>4. job'.backup = job.backup /\ job'.content = job.content
  BY <1>1, <1>2, ReadMakes
<1>5. Entries(<<Client[job.backup], job.content>>)' = E
  BY <1>1, <1>4 DEF Entries, Key
<1>6. Ahead(E)
  BY <1>1 DEF Searched
<1>7. \A i \in E : i \in DOMAIN rows /\ i # 0 /\ rows[i].content = job.content
                  /\ KeysOf(rows)[i] = k
  BY <1>3, EntriesAre
<1>8. k \in Keys
  BY <1>2 DEF IsJob, Keys, Clients
<1> HIDE DEF E, k
<1>9. SUFFICES ASSUME NEW CONSTANT S, S = E, S # {} PROVE Ahead(S)'
  BY <1>5 DEF Searched, Ahead
<1>10. job.state \in {0, 1, 2}
  BY <1>1, <1>6, <1>9 DEF Ahead
<1>11. CASE FindFirst
  <2>1. PICK i \in PreferClient(k) : Read(i, 1, TRUE, {})
    BY <1>11 DEF FindFirst, k
  <2>2. index[k] # 0
    BY <1>3, <1>7, <1>9 DEF Single, One
  <2>3. i = index[k] /\ i \in DOMAIN rows /\ KeysOf(rows)[i] = k
    BY <1>3, <1>8, <2>1, <2>2 DEF PreferClient, Good
  <2>4. i \in E
    BY <2>3 DEF E, Entries, KeysOf, KeyOf, Key
  <2>5. job'.step = "link" /\ job'.state = 1 /\ job'.seen.id = i /\ job'.seen.prev = job'.orig
    BY <1>2, <1>7, <2>1, <2>4, ReadMakes
  <2> QED
    BY <1>9, <2>4, <2>5 DEF Ahead
<1>12. CASE FindInList
  <2>1. CASE job.state \in {1, 3} /\ job.seen.next # 0
             /\ Read(job.seen.next, job.state, FALSE, job.others)
    <3>1. job.state = 1 /\ job.seen.next \in E /\ rows[job.seen.next].prev = job.orig
      BY <1>1, <1>6, <1>9, <2>1 DEF Ahead
    <3>2. /\ job'.step = "link" /\ job'.state = 1 /\ job'.seen.id = job.seen.next
          /\ job'.seen.prev = rows[job.seen.next].prev /\ job'.orig = job.orig
      BY <1>2, <1>7, <2>1, <3>1, ReadMakes
    <3> QED
      BY <1>1, <1>9, <3>1, <3>2 DEF Ahead
  <2>2. CASE job.state \in {1, 3} /\ job.seen.next = 0 /\ job.orig # 0
             /\ Read(job.orig, job.state + 1, FALSE, job.others)
    <3>1. job.state = 1 /\ job.orig \in E /\ rows[job.orig].next = 0
      BY <1>1, <1>6, <1>9, <2>2 DEF Ahead
    <3>2. /\ job'.step = "link" /\ job'.state = job.state + 1 /\ job'.seen.id = job.orig
          /\ job'.seen.next = rows[job.orig].next
      BY <1>2, <1>7, <2>2, <3>1, ReadMakes
    <3>3. job'.state = 2
      BY <3>1, <3>2
    <3> QED
      BY <1>9, <3>1, <3>2, <3>3 DEF Ahead
  <2>3. CASE job.state \in {2, 4} /\ job.seen.prev # 0
             /\ Read(job.seen.prev, job.state, FALSE, job.others)
    <3>1. job.state = 2 /\ job.seen.prev \in E /\ rows[job.seen.prev].next = 0
      BY <1>1, <1>6, <1>9, <2>3 DEF Ahead
    <3>2. /\ job'.step = "link" /\ job'.state = 2 /\ job'.seen.id = job.seen.prev
          /\ job'.seen.next = rows[job.seen.prev].next
      BY <1>2, <1>7, <2>3, <3>1, ReadMakes
    <3> QED
      BY <1>1, <1>9, <3>1, <3>2 DEF Ahead
  <2> QED
    BY <1>12, <2>1, <2>2, <2>3 DEF FindInList
<1>13. CASE FindOtherClients \/ FindNextClient
  <2>1. ListDone /\ job.state \in {1, 2}
    <3>1. ASSUME FindNextClient PROVE FALSE
      <4>1. job.state \in {3, 4}
        BY <3>1 DEF FindNextClient
      <4> QED
        BY <1>10, <4>1
    <3> QED
      BY <1>13, <3>1 DEF FindOtherClients
  <2>2. CASE job.state = 1
    BY <1>1, <1>6, <1>7, <1>9, <2>1, <2>2 DEF Ahead, ListDone
  <2>3. CASE job.state = 2
    BY <1>1, <1>6, <1>7, <1>9, <2>1, <2>3 DEF Ahead, ListDone
  <2> QED
    BY <2>1, <2>2, <2>3
<1> QED
  BY <1>11, <1>12, <1>13

\* The entry found missing goes; what follows it, or what was before the first one, is next.
LEMMA FileMissingSearched ==
    ASSUME InOrder, Single, Searched, FileMissing
    PROVE  Searched'
<1> DEFINE k == <<Client[job.backup], job.content>>
           E == Entries(k)
           i == job.seen.id
           L == DOMAIN rows
           K == KeysOf(rows)
           P == Field(rows, NoFix, "prev")
           N == Field(rows, NoFix, "next")
           F == Field(rows, NoFix, "pointed_to")
<1>1. /\ IsJob /\ job.step = "link" /\ removal' = NoRemoval
      /\ L \subseteq Ids
      /\ Live = L /\ removal.fix = NoFix
      /\ DOMAIN rows' = L \ {i}
      /\ rows' \in [DOMAIN rows' -> Row]
  BY FileMissingDeletes
<1>2. PICK new : Deletes(Database, {}, Missing, new)
  BY FileMissingDeletes
<1>3. /\ Missing.id = i /\ Missing.prev = job.seen.prev /\ Missing.next = job.seen.next
      /\ Database.rows = rows
  BY <1>2 DEF Missing, Deletes
<1>4. /\ i \in L /\ P[i] = job.seen.prev /\ N[i] = job.seen.next
      /\ rows \in [L -> Row]
      /\ Lists(L, K, P, N) /\ 0 \notin L /\ IsFiniteSet(L)
      /\ One(L, K, P, F, index)
  <2>1. Seen(Database, NoFix, L, Missing)
    BY <1>1, <1>2 DEF Deletes
  <2>2. Lists(L, K, P, N) /\ 0 \notin L /\ IsFiniteSet(L) /\ One(L, K, P, F, index)
    BY <1>1, LiveIs DEF InOrder, Single
  <2> QED
    BY <1>3, <2>1, <2>2 DEF Seen, Good
<1>5. \A j \in L \ {i} : /\ rows'[j].prev = IF j = N[i] THEN P[i] ELSE P[j]
                         /\ rows'[j].next = IF j = P[i] THEN N[i] ELSE N[j]
                         /\ KeysOf(rows')[j] = K[j]
  <2>1. /\ KeysOf(new.rows) = KeysOf(Database.rows)
        /\ \A j \in L \ {i} :
              Field(new.rows, new.fix, "prev")[j] =
                  IF j = Missing.next THEN Missing.prev ELSE Field(Database.rows, NoFix, "prev")[j]
        /\ \A j \in L \ {i} :
              Field(new.rows, new.fix, "next")[j] =
                  IF j = Missing.prev THEN Missing.next ELSE Field(Database.rows, NoFix, "next")[j]
    BY <1>1, <1>2, <1>3, DeleteEntryPasses DEF Deletes
  <2>2. \A j \in L \ {i} :
           /\ KeysOf(rows')[j] = KeysOf(new.rows)[j]
           /\ Field(rows', removal'.fix, "prev")[j] = Field(new.rows, new.fix, "prev")[j]
           /\ Field(rows', removal'.fix, "next")[j] = Field(new.rows, new.fix, "next")[j]
    BY <1>1, <1>2, <1>3 DEF Deletes, Fields
  <2>3. \A j \in L \ {i} : /\ Field(rows', removal'.fix, "prev")[j] = rows'[j].prev
                           /\ Field(rows', removal'.fix, "next")[j] = rows'[j].next
    BY <1>1, NoFixIs DEF NoRemoval
  <2> QED
    BY <1>3, <1>4, <2>1, <2>2, <2>3
<1>6. E = {j \in L : K[j] = k}
  BY DEF Entries, Key, KeysOf, KeyOf
<1>7. /\ job'.step = "find" /\ job'.state = job.state /\ job'.seen = job.seen
      /\ job'.orig = job.orig /\ job'.backup = job.backup /\ job'.content = job.content
  <2>1. job' = [job EXCEPT !.step = "find"] /\ job = [field \in JobFields |-> job[field]]
    BY <1>1 DEF FileMissing, IsJob
  <2> QED
    BY <2>1 DEF JobFields
<1>8. Entries(<<Client[job.backup], job.content>>)' = E \ {i}
  <2>1. \A j \in L \ {i} : Key(j)' = KeysOf(rows')[j]
    BY <1>1 DEF Key, KeysOf, KeyOf
  <2> QED
    BY <1>1, <1>5, <1>6, <1>7, <2>1 DEF Entries
<1>9. Ahead(E)
  BY <1>1 DEF Searched
<1> HIDE DEF E, k, i, L, K, P, N, F
<1>10. SUFFICES ASSUME NEW CONSTANT S, S = E \ {i}, S # {} PROVE Ahead(S)'
  BY <1>8 DEF Searched, Ahead
<1>11. i \in E /\ \/ job.state = 1 /\ job.seen.prev = job.orig
                  \/ job.state = 2 /\ job.seen.next = 0
  BY <1>1, <1>9, <1>10 DEF Ahead, i
<1>12. K[i] = k /\ \E j \in L \ {i} : K[j] = K[i]
  BY <1>6, <1>10, <1>11
<1>13. ~(P[i] = 0 /\ N[i] = 0)
  BY <1>4, <1>12, Alone
<1>14. N[i] # 0 => N[i] \in E \ {i} /\ rows'[N[i]].prev = P[i]
  <2> SUFFICES ASSUME N[i] # 0 PROVE N[i] \in L \ {i} /\ K[N[i]] = k
    BY <1>5, <1>6
  <2> QED
    BY <1>4, <1>12 DEF Lists
<1>15. P[i] # 0 => P[i] \in E \ {i} /\ rows'[P[i]].next = N[i]
  <2> SUFFICES ASSUME P[i] # 0 PROVE P[i] \in L \ {i} /\ K[P[i]] = k
    BY <1>5, <1>6
  <2> QED
    BY <1>4, <1>12 DEF Lists
<1>16. CASE job.state = 1 /\ job.seen.prev = job.orig
  <2>1. job'.seen.next = N[i] /\ job'.orig = P[i] /\ job'.step = "find" /\ job'.state = 1
    BY <1>4, <1>7, <1>16
  <2>2. N[i] # 0 => N[i] \in S /\ rows'[N[i]].prev = job'.orig
    BY <1>10, <1>14, <2>1
  <2>3. N[i] = 0 => P[i] \in S /\ rows'[P[i]].next = 0
    BY <1>10, <1>13, <1>15
  <2> QED
    BY <2>1, <2>2, <2>3 DEF Ahead
<1>17. CASE job.state = 2 /\ job.seen.next = 0
  <2>1. job'.seen.prev = P[i] /\ N[i] = 0 /\ job'.step = "find" /\ job'.state = 2
    BY <1>4, <1>7, <1>17
  <2> QED
    BY <1>10, <1>13, <1>15, <2>1 DEF Ahead
<1> QED
  BY <1>11, <1>16, <1>17

-------------------------------------------------------------------------------
(***************************************************************************)
(* The index made after an upgrade: one list for every key that has        *)
(* entries, for none of which the client was charged.                      *)
(***************************************************************************)
\* The newest entry of a key is the only one that no other follows.
LEMMA NewestIs ==
    ASSUME DOMAIN rows \subseteq Ids, NEW i \in DOMAIN rows, Newer(i) = 0
    PROVE  i = Largest(Entries(Key(i)))
<1> DEFINE E == Entries(Key(i))
           m == Largest(E)
           later == {j \in E : i < j}
<1>1. E \subseteq DOMAIN rows /\ E \subseteq Ids /\ i \in E /\ \A j \in E : Key(j) = Key(i)
  BY DEF Entries
<1>2. \A j \in E : j \in Int
  BY <1>1, EntriesAssumption DEF Ids
<1>3. m \in E /\ \A j \in E : j <= m
  <2> HIDE DEF E
  <2> QED
    BY <1>1, LargestIs
<1>4. \A j \in E : Older(j) # i
  BY NewerIs
<1> HIDE DEF E, m
<1>5. later = {}
  <2> SUFFICES ASSUME later # {} PROVE FALSE
    OBVIOUS
  <2>1. PICK j \in later : \A l \in later : j <= l
    <3> HIDE DEF later
    <3>1. later \subseteq Ids
      BY <1>1 DEF later
    <3> QED
      BY <3>1, LeastExists
  <2>2. j \in E /\ i < j /\ Key(j) = Key(i) /\ j \in DOMAIN rows /\ Entries(Key(j)) = E
    BY <1>1, <2>1 DEF E
  <2>3. Older(j) \in E /\ Older(j) < j /\ i <= Older(j)
    BY <1>1, <2>2, OlderIs
  <2>4. i < Older(j)
    BY <1>1, <1>2, <1>4, <2>2, <2>3
  <2> QED
    BY <1>2, <2>1, <2>2, <2>3, <2>4
<1>6. ~(i < m)
  BY <1>3, <1>5
<1> QED
  BY <1>1, <1>2, <1>3, <1>6 DEF m, E

\* The rows of a key become one list, from the oldest to the newest, which the index names.
LEMMA RebuildSingle ==
    ASSUME Upgraded, Rebuild
    PROVE  One(DOMAIN rows', KeysOf(rows'), Field(rows', NoFix, "prev"),
               Field(rows', NoFix, "pointed_to"), index')
<1>1. /\ DOMAIN rows \subseteq Ids /\ DOMAIN rows \subseteq Int /\ 0 \notin DOMAIN rows
      /\ DOMAIN rows' = DOMAIN rows
      /\ \A i \in DOMAIN rows :
            /\ KeysOf(rows')[i] = Key(i) /\ Key(i) \in Keys
            /\ Field(rows', NoFix, "prev")[i] = Older(i)
            /\ Field(rows', NoFix, "pointed_to")[i] = IF Newer(i) = 0 THEN 1 ELSE 0
  <2>1. /\ DOMAIN rows' = DOMAIN rows
        /\ \A i \in DOMAIN rows :
              /\ rows'[i].backup = rows[i].backup /\ rows'[i].content = rows[i].content
              /\ rows'[i].prev = Older(i)
              /\ rows'[i].pointed_to = IF Newer(i) = 0 THEN 1 ELSE 0
    BY RebuiltRows
  <2>2. \A i \in DOMAIN rows : KeysOf(rows')[i] = Key(i) /\ KeysOf(rows)[i] = Key(i)
    BY <2>1 DEF KeysOf, KeyOf, Key
  <2>3. \A i \in DOMAIN rows : Key(i) \in Keys
    BY <2>2, KeysAre DEF Upgraded
  <2>4. \A i \in DOMAIN rows, g \in {"prev", "pointed_to"} :
           Field(rows', NoFix, g)[i] = rows'[i][g]
    BY <2>1, NoFixIs
  <2> QED
    BY <2>1, <2>2, <2>3, <2>4, EntriesAssumption DEF Upgraded, Ids
<1>2. \A k \in Keys : index'[k] = Largest(Entries(k))
  BY DEF Rebuild
<1>3. ASSUME NEW i \in DOMAIN rows PROVE index'[Key(i)] # 0
  <2>1. Entries(Key(i)) \subseteq DOMAIN rows /\ Entries(Key(i)) \subseteq Ids
        /\ Entries(Key(i)) # {}
    BY <1>1 DEF Entries
  <2>2. Largest(Entries(Key(i))) \in Entries(Key(i))
    BY <2>1, LargestIs
  <2> QED
    BY <1>1, <1>2, <2>1, <2>2
<1>4. ASSUME NEW i \in DOMAIN rows, Newer(i) = 0 PROVE index'[Key(i)] = i
  BY <1>1, <1>2, <1>4, NewestIs
<1>5. ASSUME NEW i \in DOMAIN rows, NEW j \in DOMAIN rows, Key(i) = Key(j),
             Older(i) = 0, Older(j) = 0
      PROVE  i = j
  <2>1. i \in Entries(Key(i)) /\ j \in Entries(Key(i))
    BY <1>5 DEF Entries
  <2>2. ~(i < j) /\ ~(j < i)
    BY <1>1, <1>5, <2>1, OlderIs
  <2> QED
    BY <1>1, <2>2
<1> QED
  BY <1>1, <1>3, <1>4, <1>5 DEF One

\* Where there is one list for a key, there are at most one.
LEMMA OneHead ==
    ASSUME NEW L, NEW K, NEW P, NEW F, NEW names, One(L, K, P, F, names), NEW k
    PROVE  Cardinality(Heads(L, K, P, k)) \in {0, 1}
<1>1. CASE Heads(L, K, P, k) = {}
  BY <1>1, FS_EmptySet
<1>2. CASE Heads(L, K, P, k) # {}
  <2>1. PICK i : i \in Heads(L, K, P, k)
    BY <1>2
  <2>2. Heads(L, K, P, k) = {i}
    BY <2>1 DEF Heads, One
  <2> QED
    BY <2>2, FS_Singleton
<1> QED
  BY <1>1, <1>2

\* Nobody was charged before the upgrade
Uncharged == setting.upgrade /\ charged = [k \in Keys |-> 0]

\* Each of these lists is one that was there before the upgrade.
LEMMA RebuildCounted ==
    ASSUME Upgraded, Rebuild, Uncharged, UNCHANGED setting
    PROVE  Counted' /\ Single'
<1>1. Good(rows', NoFix, index', DOMAIN rows')
  BY RebuildIs
<1>2. Live' = DOMAIN rows' /\ removal'.fix = NoFix
  <2>1. removal' = NoRemoval
    BY DEF Rebuild, Upgraded
  <2> QED
    BY <1>1, <2>1, QuietNext DEF Good
<1>3. One(DOMAIN rows', KeysOf(rows'), Field(rows', NoFix, "prev"),
          Field(rows', NoFix, "pointed_to"), index')
  BY RebuildSingle
<1>4. Single'
  BY <1>2, <1>3 DEF Single
<1>5. ASSUME NEW k \in Keys PROVE Counts(k, Cardinality(ListsOf(k)))'
  <2>1. Cardinality(ListsOf(k)') \in {0, 1}
    BY <1>2, <1>3, OneHead DEF ListsOf
  <2>2. charged'[k] = 0 /\ setting'.upgrade
    BY DEF Rebuild, Uncharged
  <2> QED
    BY <2>1, <2>2 DEF Counts
<1>6. DOMAIN charged' = Keys /\ charged' = [k \in Keys |-> charged'[k]]
  BY DEF Rebuild, Uncharged
<1> QED
  BY <1>4, <1>5, <1>6 DEF Counted

-------------------------------------------------------------------------------
(***************************************************************************)
(* The steps of the table in order                                         *)
(***************************************************************************)
Charges == Counted /\ (~setting.links_fail => Single /\ Searched)

\* A step that changes nothing of the table
LEMMA AsideKeeps ==
    ASSUME UNCHANGED <<rows, index, charged, removal, setting>>
    PROVE  (Counted => Counted') /\ (Single => Single')
<1>1. Alike
  BY DEF Alike, Live
<1> QED
  BY <1>1, AlikeCounted

\* At the end of a search the client has no entry with the content.
LEMMA StoreAhead ==
    ASSUME Searched, job.step = "store"
    PROVE  Entries(<<Client[job.backup], job.content>>) = {}
BY DEF Searched, Ahead

\* It has none as long as the table only loses entries.
LEMMA StoreKeeps ==
    ASSUME Searched, UNCHANGED job, job.step \notin {"find", "link"},
           DOMAIN rows' \subseteq DOMAIN rows,
           \A i \in DOMAIN rows' : KeysOf(rows')[i] = KeysOf(rows)[i]
    PROVE  Searched'
<1>1. \A i \in DOMAIN rows' : Key(i)' = Key(i)
  BY DEF KeysOf, KeyOf, Key
<1>2. \A k : Entries(k)' \subseteq Entries(k)
  BY <1>1 DEF Entries
<1>3. job.step = "store" => Entries(<<Client[job.backup], job.content>>)' = {}
  BY <1>2, StoreAhead
<1> QED
  BY <1>3 DEF Searched, Ahead

\* An addition
LEMMA AddsCharges ==
    ASSUME InOrder, Charges, UNCHANGED setting,
           NEW b, NEW c, NEW prev, NEW owner, NEW next, NEW update,
           Adds(b, c, prev, owner, next, update),
           owner = 0 => \/ index[<<Client[b], c>>] = 0
                        \/ job.step = "store" /\ b = job.backup /\ c = job.content
    PROVE  Charges'
<1> DEFINE k == <<Client[b], c>>
<1>1. /\ k \in Keys
      /\ Good(rows, NoFix, index, DOMAIN rows)
      /\ Live = DOMAIN rows /\ removal.fix = NoFix
      /\ Live' = DOMAIN rows' /\ removal'.fix = NoFix
      /\ \E p \in DOMAIN rows \cup {0} :
            Comes(k, p) /\ Flags(k, p) /\ (p = 0 => owner = 0 \/ index[k] = 0)
  BY AddsMakes
<1> HIDE DEF k
<1>2. PICK p \in DOMAIN rows \cup {0} :
         Comes(k, p) /\ Flags(k, p) /\ (p = 0 => owner = 0 \/ index[k] = 0)
  BY <1>1
<1>3. AllLive /\ \A j \in DOMAIN rows : j < MaxEntries
  BY <1>1 DEF AllLive, Adds
<1>4. Counted'
  BY <1>1, <1>2, <1>3, AddedCounted DEF Charges
<1>5. ASSUME ~setting.links_fail PROVE Single'
  <2>1. Single /\ Searched
    BY <1>5 DEF Charges
  <2>2. ASSUME p = 0, NEW j \in DOMAIN rows, KeysOf(rows)[j] = k PROVE FALSE
    <3>1. CASE index[k] = 0
      BY <1>1, <2>1, <2>2, <3>1 DEF Single, One
    <3>2. CASE job.step = "store" /\ b = job.backup /\ c = job.content
      <4>1. Entries(k) = {}
        BY <2>1, <3>2, StoreAhead DEF k
      <4> QED
        BY <2>2, <4>1 DEF Entries, KeysOf, KeyOf, Key
    <3> QED
      BY <1>2, <2>2, <3>1, <3>2 DEF k
  <2> QED
    BY <1>1, <1>2, <1>3, <2>1, <2>2, AddedSingle
<1>6. Searched'
  BY DEF Adds, Searched, NoJob
<1> QED
  BY <1>4, <1>5, <1>6 DEF Charges

\* A file that is found missing
LEMMA FileMissingCharges ==
    ASSUME InOrder, Charges, UNCHANGED setting, FileMissing
    PROVE  Charges'
<1>1. PICK new : Deletes(Database, {}, Missing, new)
  BY FileMissingDeletes
<1>2. Counted'
  BY <1>1, DeletesCounted DEF InOrder, Charges
<1>3. ~setting.links_fail => Single' /\ Searched'
  BY <1>1, DeletesSingle, FileMissingSearched DEF Charges
<1> QED
  BY <1>2, <1>3 DEF Charges

\* An entry of a removal
LEMMA RemoveEntryCharges ==
    ASSUME InOrder, Charges, UNCHANGED setting, RemoveEntry
    PROVE  Charges'
<1>1. PICK db, e, new :
         /\ Deletes(db, removal.range, e, new)
         /\ db.rows = rows
         /\ rows' = new.rows
  BY RemoveEntryDeletes
<1>2. Counted'
  BY <1>1, DeletesCounted DEF InOrder, Charges
<1>3. ASSUME ~setting.links_fail PROVE Single' /\ Searched'
  <2>1. Single'
    BY <1>1, <1>3, DeletesSingle DEF Charges
  <2>2. Kept(db, new, removal.range)
    BY <1>1, DeleteEntryIs DEF Deletes
  <2>3. DOMAIN rows' = DOMAIN rows /\ KeysOf(rows') = KeysOf(rows)
    BY <1>1, <2>2 DEF Kept
  <2>4. UNCHANGED job /\ job.step \notin {"find", "link"}
    <3>1. removal # NoRemoval /\ UNCHANGED job
      BY DEF RemoveEntry, NoRemoval
    <3> QED
      BY <3>1 DEF InOrder, IsJob, NoJob
  <2> QED
    BY <1>3, <2>1, <2>3, <2>4, StoreKeeps DEF Charges
<1> QED
  BY <1>2, <1>3 DEF Charges

\* The end of a removal, and its beginning
LEMMA EndRemoveCharges ==
    ASSUME InOrder, Charges, UNCHANGED setting, EndRemove
    PROVE  Charges'
<1>1. Alike /\ DOMAIN rows' = Live
  BY EndRemoveAlike
<1>2. (Counted => Counted') /\ (Single => Single')
  BY <1>1, AlikeCounted
<1>3. UNCHANGED job /\ job.step \notin {"find", "link"}
  <2>1. removal # NoRemoval /\ UNCHANGED job
    <3>1. removal.backup # 0 /\ UNCHANGED job
      BY DEF EndRemove
    <3> QED
      BY <3>1 DEF NoRemoval
  <2> QED
    BY <2>1 DEF InOrder, IsJob, NoJob
<1>4. Searched => Searched'
  <2>1. Live \subseteq DOMAIN rows /\ \A i \in Live : KeysOf(rows')[i] = KeysOf(rows)[i]
    BY <1>1 DEF Live, Alike
  <2> QED
    BY <1>1, <1>3, <2>1, StoreKeeps
<1> QED
  BY <1>2, <1>4 DEF Charges

\* The cursor is opened: every row still lives.
LEMMA BeginRemoveCharges ==
    ASSUME InOrder, Charges, UNCHANGED setting, NEW b \in Backups, BeginRemove(b)
    PROVE  Charges'
<1>1. /\ UNCHANGED <<rows, index, charged, job>>
      /\ removal = NoRemoval
      /\ job.step \in {"none", "store"}
      /\ removal'.backup = b /\ removal'.todo = EntriesOf(b) /\ removal'.fix = NoFix
  BY DEF BeginRemove
<1>2. Live = DOMAIN rows /\ removal.fix = NoFix
  <2>1. rows \in [DOMAIN rows -> Row]
    BY DEF InOrder, Good
  <2> QED
    BY <1>1, <2>1, QuietIs
<1>3. Live' = DOMAIN rows
  BY <1>1 DEF Live, EntriesOf
<1>4. Alike
  BY <1>1, <1>2, <1>3 DEF Alike
<1>5. Searched => Searched'
  BY <1>1, StoreKeeps
<1> QED
  BY <1>4, <1>5, AlikeCounted DEF Charges

-------------------------------------------------------------------------------
\* What TypeOK needs besides
Typed ==
    /\ status \in [Backups -> {"unused", "running", "done", "doomed", "gone"}]
    /\ removal.range \subseteq Ids

\* The table in order, with its charges once it has an index
EntriesInv ==
    /\ ListInv
    /\ ~setting.defrag => Typed /\ IF job = NoIndex THEN Uncharged ELSE Charges

\* The invariant holds at first, of a new server and of one that was upgraded.
LEMMA InitImpliesEntriesInv == Init => EntriesInv
<1> SUFFICES ASSUME Init PROVE Typed /\ IF job = NoIndex THEN Uncharged ELSE Charges
  BY InitImpliesListInv DEF EntriesInv
<1>1. removal = NoRemoval /\ charged = [k \in Keys |-> 0]
  BY DEF Init
<1>2. Typed
  BY <1>1 DEF Init, NewInit, UpgradeInit, Typed, NoRemoval
<1>3. CASE setting.upgrade
  BY <1>1, <1>2, <1>3 DEF Init, UpgradeInit, Uncharged
<1>4. CASE ~setting.upgrade
  <2>1. DOMAIN rows = {} /\ job = NoJob
    BY <1>4 DEF Init, NewInit
  <2>2. Live = {}
    BY <2>1 DEF Live
  <2>3. \A k : Cardinality(ListsOf(k)) = 0
    BY <2>2, FS_EmptySet DEF ListsOf, Heads
  <2>4. Counted
    BY <1>1, <2>3 DEF Counted, Counts
  <2>5. Single
    BY <2>2 DEF Single, One
  <2>6. Searched /\ job # NoIndex
    BY <2>1 DEF Searched, NoJob, NoIndex
  <2> QED
    BY <1>2, <2>4, <2>5, <2>6 DEF Charges
<1> QED
  BY <1>3, <1>4

\* No step changes the type of a status or widens the range of a removal.
LEMMA TypedStep ==
    ASSUME Typed, removal = NoRemoval \/ InOrder, ~setting.defrag, Step
    PROVE  Typed'
<1>1. status' \in [Backups -> {"unused", "running", "done", "doomed", "gone"}]
  BY DEF Typed, Step, StartBackup, FinishBackup, DeleteFolder, BeginRemove, StartAdd, AddExisting,
         FindFirst, FindInList, FindOtherClients, FindNextClient, LinkFile, CopyFile, Add,
         FileMissing, LinkRefused, StoreFile, RemoveEntry, EndRemove, Defrag, Rebuild
<1>2. removal'.range \subseteq Ids
  <2>1. CASE \E b \in Backups : BeginRemove(b)
    <3>1. PICK b \in Backups : BeginRemove(b)
      BY <2>1
    <3>2. removal'.range = {i \in Ids : /\ \E j \in EntriesOf(b) : j <= i
                                       /\ \E j \in EntriesOf(b) : i <= j}
      BY <3>1 DEF BeginRemove
    <3> QED
      BY <3>2
  <2>2. CASE RemoveEntry
    <3>1. removal # NoRemoval
      BY <2>2 DEF RemoveEntry, NoRemoval
    <3>2. \E x, y : removal' = [removal EXCEPT !.todo = x, !.fix = y]
      BY <2>2, <3>1, RemoveEntryDeletes
    <3> QED
      BY <3>1, <3>2 DEF InOrder, IsRemoval, Typed
  <2>3. CASE EndRemove
    BY <2>3 DEF EndRemove, NoRemoval
  <2>4. CASE UNCHANGED removal
    BY <2>4 DEF Typed
  <2> QED
    BY <2>1, <2>2, <2>3, <2>4
    DEF Step, StartBackup, FinishBackup, DeleteFolder, StartAdd, AddExisting,
        FindFirst, FindInList, FindOtherClients, FindNextClient, LinkFile, CopyFile, Add,
        FileMissing, LinkRefused, StoreFile, Defrag, Rebuild
<1> QED
  BY <1>1, <1>2 DEF Typed

\* While the table waits for the index, and when it is made
LEMMA UnchargedStep ==
    ASSUME job = NoIndex, Upgraded, Uncharged, UNCHANGED setting, ~setting.defrag, Step
    PROVE  IF job' = NoIndex THEN Uncharged' ELSE Charges'
<1>1. CASE Rebuild
  <2>1. Counted' /\ Single'
    BY <1>1, RebuildCounted
  <2>2. job' \in {NoJob, NoIndex} /\ UNCHANGED charged
    BY <1>1 DEF Rebuild
  <2>3. job' = NoJob => Searched'
    BY DEF Searched, NoJob
  <2> QED
    BY <2>1, <2>2, <2>3 DEF Uncharged, Charges
<1>2. CASE \E b \in Backups : FinishBackup(b)
  <2>1. UNCHANGED <<charged, job>>
    BY <1>2 DEF FinishBackup
  <2> QED
    BY <2>1 DEF Uncharged
<1>3. CASE ~Rebuild /\ ~\E b \in Backups : FinishBackup(b)
  <2>1. job.step = "rebuild" /\ job # NoJob /\ removal.todo = {} /\ removal.backup = 0
    BY DEF NoIndex, NoJob, Upgraded, NoRemoval
  <2> QED
    BY <1>3, <2>1
    DEF Step, StartBackup, DeleteFolder, BeginRemove, StartAdd, AddExisting, FindFirst,
        FindInList, FindOtherClients, FindNextClient, LinkFile, FileMissing, CopyFile,
        LinkRefused, StoreFile, RemoveEntry, EndRemove, Defrag
<1> QED
  BY <1>1, <1>2, <1>3

\* Every step of the table in order
LEMMA ChargesStep ==
    ASSUME InOrder, Charges, UNCHANGED setting, setting \in SettingType, ~setting.defrag, Step
    PROVE  Charges'
<1>1. ASSUME NEW b \in Backups, StartBackup(b) \/ FinishBackup(b) \/ DeleteFolder(b)
      PROVE  Charges'
  <2>1. UNCHANGED <<rows, index, charged, job, removal>>
    BY <1>1 DEF StartBackup, FinishBackup, DeleteFolder
  <2>2. Searched => Searched'
    BY <2>1 DEF Searched, Ahead, Entries, Key
  <2> QED
    BY <2>1, <2>2, AsideKeeps DEF Charges
<1>2. ASSUME NEW b \in Backups, BeginRemove(b)
      PROVE  Charges'
  BY <1>2, BeginRemoveCharges
<1>3. ASSUME NEW b \in Backups, NEW c \in Contents, NEW way, StartAdd(b, c, way)
      PROVE  Charges'
  <2>1. UNCHANGED <<rows, index, charged, removal>> /\ job'.step = "find" /\ job'.state = 0
    BY <1>3 DEF StartAdd
  <2>2. Searched'
    BY <2>1 DEF Searched, Ahead
  <2> QED
    BY <2>1, <2>2, AsideKeeps DEF Charges
<1>4. CASE \/ \E b \in Backups, c \in Contents : AddExisting(b, c)
           \/ LinkFile
           \/ CopyFile
           \/ Stored
  BY <1>4, AddingSteps, AddsCharges
<1>5. CASE FindFirst \/ FindInList \/ FindOtherClients \/ FindNextClient
  <2>1. UNCHANGED <<rows, index, charged, removal>>
    BY <1>5 DEF FindFirst, FindInList, FindOtherClients, FindNextClient
  <2>2. Single /\ Searched => Searched'
    BY <1>5, FindSearched
  <2> QED
    BY <2>1, <2>2, AsideKeeps DEF Charges
<1>6. CASE FileMissing
  BY <1>6, FileMissingCharges
<1>7. CASE LinkRefused
  <2>1. UNCHANGED <<rows, index, charged, removal>> /\ setting.links_fail
    BY <1>7 DEF LinkRefused
  <2> QED
    BY <2>1, AsideKeeps DEF Charges
<1>8. CASE NotStored
  <2>1. UNCHANGED <<rows, index, charged, removal>> /\ job' = NoJob
    BY <1>8 DEF NotStored, StoreFile
  <2>2. Searched'
    BY <2>1 DEF Searched, NoJob
  <2> QED
    BY <2>1, <2>2, AsideKeeps DEF Charges
<1>9. CASE RemoveEntry
  BY <1>9, RemoveEntryCharges
<1>10. CASE EndRemove
  BY <1>10, EndRemoveCharges
<1>11. ~Defrag /\ ~Rebuild
  <2>1. job.step # "rebuild"
    BY DEF InOrder, NoJob, IsJob
  <2> QED
    BY <2>1 DEF Defrag, Rebuild, NoIndex
<1> QED
  BY <1>1, <1>2, <1>3, <1>4, <1>5, <1>6, <1>7, <1>8, <1>9, <1>10, <1>11,
     StoredOrNot DEF Step

\* A table in order is not waiting for its index.
LEMMA InOrderIndexed ==
    ASSUME InOrder
    PROVE  job # NoIndex
<1>1. job.step # "rebuild"
  BY DEF InOrder, NoJob, IsJob
<1> QED
  BY <1>1 DEF NoIndex

\* The invariant is inductive.
LEMMA EntriesInvInductive == EntriesInv /\ [Next]_vars => EntriesInv'
<1> SUFFICES ASSUME EntriesInv, [Next]_vars, ~setting'.defrag
             PROVE  Typed' /\ IF job' = NoIndex THEN Uncharged' ELSE Charges'
  BY ListInvInductive DEF EntriesInv
<1>1. UNCHANGED setting /\ ~setting.defrag /\ setting \in SettingType
  BY DEF Next, AllGone, vars, EntriesInv, ListInv
<1>2. /\ ListInv'
      /\ (job = NoIndex /\ Upgraded) \/ InOrder
      /\ Typed /\ IF job = NoIndex THEN Uncharged ELSE Charges
  BY <1>1, ListInvInductive DEF EntriesInv, ListInv
<1>3. CASE UNCHANGED vars
  <2>1. UNCHANGED <<rows, index, charged, status, job, removal, setting>>
    BY <1>3 DEF vars
  <2>2. Searched => Searched'
    BY <2>1 DEF Searched, Ahead, Entries, Key
  <2> QED
    BY <1>2, <2>1, <2>2, AsideKeeps DEF Charges, Uncharged, Typed
<1>4. CASE Step
  <2>1. removal = NoRemoval \/ InOrder
    BY <1>2 DEF Upgraded
  <2>2. Typed'
    BY <1>1, <1>2, <1>4, <2>1, TypedStep
  <2>3. CASE job = NoIndex
    <3>1. Upgraded /\ Uncharged
      BY <1>2, <2>3, InOrderIndexed
    <3> QED
      BY <1>1, <1>4, <2>2, <2>3, <3>1, UnchargedStep
  <2>4. CASE job # NoIndex
    <3>1. InOrder /\ Charges
      BY <1>2, <2>4
    <3>2. Charges'
      BY <1>1, <1>4, <3>1, ChargesStep
    <3>3. InOrder'
      BY <1>1, <1>4, <3>1, InOrderStep
    <3>4. job'.step # "rebuild"
      BY <3>3 DEF InOrder, NoJob, IsJob
    <3> QED
      BY <2>2, <3>2, <3>4 DEF NoIndex
  <2> QED
    BY <2>3, <2>4
<1> QED
  BY <1>3, <1>4 DEF Next, AllGone

(***************************************************************************)
(* Unless an index is made anew over lists that are in use, what is        *)
(* charged is the number of lists, and where links do not fail there is    *)
(* one for every key, with one flag, and a search has tried all of it:     *)
(* in every state, also between the entries of a removal.                  *)
(***************************************************************************)
THEOREM ListsCharged == Spec => []EntriesInv
<1> QED
  BY InitImpliesEntriesInv, EntriesInvInductive, PTL DEF Spec

\* What the table says of the entries of a key when it is quiet
LEMMA QuietLists ==
    ASSUME EntriesInv, Quiet, ~setting.defrag
    PROVE  /\ Charges
           /\ Lists(DOMAIN rows, KeysOf(rows), Field(rows, NoFix, "prev"),
                    Field(rows, NoFix, "next"))
           /\ 0 \notin DOMAIN rows /\ IsFiniteSet(DOMAIN rows)
           /\ ~setting.links_fail =>
                 One(DOMAIN rows, KeysOf(rows), Field(rows, NoFix, "prev"),
                     Field(rows, NoFix, "pointed_to"), index)
           /\ \A k : Entries(k) = {i \in DOMAIN rows : KeysOf(rows)[i] = k}
           /\ \A k : ListsOf(k) = {i \in Entries(k) : rows[i].prev = 0}
           /\ \A i \in DOMAIN rows, g \in Fields : Field(rows, NoFix, g)[i] = rows[i][g]
<1>1. /\ Good(rows, NoFix, index, DOMAIN rows)
      /\ \A i \in DOMAIN rows : KeysOf(rows)[i] = Key(i)
  BY ListInvQuiet DEF EntriesInv
<1>2. Live = DOMAIN rows /\ removal.fix = NoFix
  BY <1>1, QuietIs DEF Good, Quiet
<1>3. Charges
  BY DEF EntriesInv, Quiet
<1>4. \A i \in DOMAIN rows, g \in Fields : Field(rows, NoFix, g)[i] = rows[i][g]
  BY NoFixIs
<1>5. \A k : Entries(k) = {i \in DOMAIN rows : KeysOf(rows)[i] = k}
  BY <1>1 DEF Entries
<1>6. \A k : ListsOf(k) = {i \in Entries(k) : rows[i].prev = 0}
  BY <1>2, <1>4, <1>5 DEF ListsOf, Heads, Fields
<1> QED
  BY <1>1, <1>2, <1>3, <1>4, <1>5, <1>6, LiveIs DEF Charges, Single

(***************************************************************************)
(* What a client is charged for is what it has, one copy for every list:   *)
(* nothing is charged twice or taken back twice, and no copy is forgotten  *)
(* (addFileSQL, deleteFileSQL).                                            *)
(***************************************************************************)
THEOREM AlwaysCharged == Spec => []Charged
<1>1. EntriesInv => Charged
  <2> SUFFICES ASSUME EntriesInv, Quiet, ~setting.upgrade, ~setting.defrag, NEW k \in Keys
               PROVE  charged[k] = Cardinality({i \in Entries(k) : rows[i].prev = 0})
    BY DEF Charged
  <2> QED
    BY QuietLists DEF Charges, Counted, Counts
<1> QED
  BY <1>1, ListsCharged, PTL

(***************************************************************************)
(* A search that ends with a new copy has tried every entry the client has *)
(* with the content, whatever was found missing on its way (findFileHash). *)
(***************************************************************************)
THEOREM SearchComplete == Spec => [](~setting.defrag => SearchExhausted)
<1>1. EntriesInv => (~setting.defrag => SearchExhausted)
  <2> SUFFICES ASSUME EntriesInv, ~setting.defrag, job.step = "store", ~setting.links_fail
               PROVE  Entries(<<Client[job.backup], job.content>>) = {}
    BY DEF SearchExhausted
  <2>1. job # NoIndex
    BY DEF NoIndex
  <2>2. Searched
    BY <2>1 DEF EntriesInv, Charges
  <2> QED
    BY <2>2, StoreAhead
<1> QED
  BY <1>1, ListsCharged, PTL

(***************************************************************************)
(* Of the entries of a content and client one at most carries the flag:    *)
(* addFileSQL never leaves it at an entry the index has turned from, and   *)
(* deleteFileSQL passes it on to one.                                      *)
(***************************************************************************)
THEOREM AlwaysOneFlag == Spec => [](~setting.defrag => OneFlag)
<1>1. EntriesInv => (~setting.defrag => OneFlag)
  <2> SUFFICES ASSUME EntriesInv, ~setting.defrag, Quiet, ~setting.links_fail, NEW k \in Keys
               PROVE  Cardinality({i \in Entries(k) : rows[i].pointed_to = 1}) <= 1
    BY DEF OneFlag
  <2> DEFINE flagged == {i \in Entries(k) : rows[i].pointed_to = 1}
  <2>1. \A i \in flagged : i = index[k]
    <3>1. /\ Entries(k) = {i \in DOMAIN rows : KeysOf(rows)[i] = k}
          /\ \A i \in DOMAIN rows :
                Field(rows, NoFix, "pointed_to")[i] = rows[i].pointed_to
          /\ One(DOMAIN rows, KeysOf(rows), Field(rows, NoFix, "prev"),
                 Field(rows, NoFix, "pointed_to"), index)
      BY QuietLists DEF Fields
    <3> QED
      BY <3>1 DEF One
  <2> HIDE DEF flagged
  <2>2. ASSUME flagged = {} PROVE Cardinality(flagged) <= 1
    BY <2>2, FS_EmptySet
  <2>3. ASSUME flagged # {} PROVE Cardinality(flagged) <= 1
    <3>1. flagged = {index[k]}
      BY <2>1, <2>3
    <3>2. Cardinality({index[k]}) = 1
      BY FS_Singleton
    <3> QED
      BY <3>1, <3>2
  <2> QED
    BY <2>2, <2>3 DEF flagged
<1> QED
  BY <1>1, ListsCharged, PTL

(***************************************************************************)
(* All entries of a content and client are one list that leads from its    *)
(* first entry to all others, and the index names one of them (addFileSQL, *)
(* deleteFileSQL, removeFileBackupSql).                                    *)
(***************************************************************************)
THEOREM AlwaysOneList == Spec => []OneList
<1>1. EntriesInv => OneList
  <2> SUFFICES ASSUME EntriesInv, Quiet, ~setting.links_fail, ~setting.defrag,
                      NEW k \in Keys, Entries(k) # {}
               PROVE  /\ index[k] # 0
                      /\ \E i \in Entries(k) :
                            /\ rows[i].prev = 0
                            /\ \A S \in SUBSET Entries(k) : i \in S /\ S # Entries(k) =>
                                  \E j \in S : rows[j].next \in Entries(k) \ S
    BY DEF OneList
  <2> DEFINE L == DOMAIN rows
             K == KeysOf(rows)
             P == Field(rows, NoFix, "prev")
             N == Field(rows, NoFix, "next")
             E == Entries(k)
  <2>1. /\ Lists(L, K, P, N) /\ 0 \notin L /\ IsFiniteSet(L)
        /\ One(L, K, P, Field(rows, NoFix, "pointed_to"), index)
        /\ E = {i \in L : K[i] = k}
        /\ \A i \in L : P[i] = rows[i].prev /\ N[i] = rows[i].next
    BY QuietLists DEF Fields
  <2> HIDE DEF L, K, P, N
  <2>2. index[k] # 0
    BY <2>1 DEF One
  <2>3. PICK i \in E : P[i] \notin E
    BY <2>1, Begins
  <2>4. i \in L /\ K[i] = k /\ P[i] = 0
    BY <2>1, <2>3 DEF Lists
  <2>5. ASSUME NEW S \in SUBSET E, i \in S, \A j \in S : N[j] \notin E \ S
        PROVE  S = E
    <3> DEFINE X == S \cup (L \ E)
    <3>1. \A j \in X : N[j] # 0 => N[j] \in X
      BY <2>1, <2>5 DEF Lists
    <3>2. i \in X /\ \A j \in L : K[j] = K[i] /\ P[j] = 0 => j = i
      BY <2>1, <2>4, <2>5 DEF One
    <3> HIDE DEF X
    <3>3. \A j \in L : K[j] = K[i] => j \in X
      BY <2>1, <2>4, <3>1, <3>2, Reaches
    <3> QED
      BY <2>1, <2>4, <3>3 DEF X
  <2> QED
    BY <2>1, <2>2, <2>3, <2>4, <2>5
<1> QED
  BY <1>1, ListsCharged, PTL

(***************************************************************************)
(* The table, the index and the charges keep their types: there is room    *)
(* for every row, and a client is charged at most once for each.           *)
(***************************************************************************)
THEOREM AlwaysTyped == Spec => [](~setting.defrag => TypeOK)
<1>1. ASSUME EntriesInv, ~setting.defrag PROVE TypeOK
  <2>1. /\ (job = NoIndex /\ Upgraded) \/ InOrder
        /\ Typed
        /\ IF job = NoIndex THEN Uncharged ELSE Charges
    BY <1>1 DEF EntriesInv, ListInv
  <2>2. DOMAIN rows \subseteq Ids /\ rows \in [DOMAIN rows -> Row] /\ DOMAIN index = Keys
    BY <2>1 DEF Upgraded, InOrder, Good
  <2>3. \A i \in DOMAIN rows :
           rows[i] \in [backup : Backups, content : Contents,
                        prev : Ids \cup {0}, next : Ids \cup {0}, pointed_to : 0..1]
    BY <2>2 DEF Row
  <2>4. job.step \in {"none", "find", "link", "store", "rebuild"}
    BY <2>1 DEF InOrder, NoJob, IsJob, NoIndex
  <2>5. /\ removal.backup \in Backups \cup {0}
        /\ removal.fix = NoFix \/ DOMAIN removal.fix \subseteq Fields \X Ids
    <3>1. CASE removal = NoRemoval
      BY <3>1 DEF NoRemoval
    <3>2. CASE IsRemoval
      BY <2>1, <3>2 DEF IsRemoval, Typed
    <3> QED
      BY <2>1, <3>1, <3>2 DEF InOrder, Upgraded
  <2>6. index \in [Keys -> Ids \cup {0}]
    <3>1. index = [k \in Keys |-> index[k]]
      BY <2>1 DEF Upgraded, InOrder, Good
    <3>2. \A k \in Keys : index[k] \in Ids \cup {0}
      BY <2>1, <2>2 DEF Upgraded, InOrder, Good
    <3> QED
      BY <3>1, <3>2
  <2>7. charged \in [Keys -> (-MaxEntries)..MaxEntries]
    <3>1. MaxEntries \in Nat \ {0}
      BY EntriesAssumption
    <3>2. CASE job = NoIndex
      BY <2>1, <3>1, <3>2 DEF Uncharged
    <3>3. CASE job # NoIndex
      <4>1. Good(rows, removal.fix, index, Live) /\ Counted
        BY <2>1, <3>3 DEF InOrder, Charges
      <4>2. ASSUME NEW k \in Keys PROVE charged[k] \in (-MaxEntries)..MaxEntries
        <5>1. Cardinality(ListsOf(k)) \in 0..MaxEntries
          <6>1. ListsOf(k) \subseteq 1..MaxEntries
            BY <4>1, LiveIs DEF ListsOf, Heads, Ids
          <6>2. IsFiniteSet(1..MaxEntries) /\ Cardinality(1..MaxEntries) = MaxEntries
            BY <3>1, FS_Interval
          <6>3. /\ IsFiniteSet(ListsOf(k))
                /\ Cardinality(ListsOf(k)) <= Cardinality(1..MaxEntries)
            BY <6>1, <6>2, FS_Subset
          <6>4. Cardinality(ListsOf(k)) \in Nat
            BY <6>3, FS_CardinalityType
          <6> QED
            BY <3>1, <6>2, <6>3, <6>4
        <5>2. Counts(k, Cardinality(ListsOf(k)))
          BY <4>1 DEF Counted
        <5> QED
          BY <3>1, <5>1, <5>2 DEF Counts
      <4> QED
        BY <4>1, <4>2 DEF Counted
    <3> QED
      BY <3>2, <3>3
  <2> QED
    BY <2>1, <2>2, <2>3, <2>4, <2>5, <2>6, <2>7 DEF TypeOK, Typed
<1> QED
  BY <1>1, ListsCharged, PTL
===============================================================================
