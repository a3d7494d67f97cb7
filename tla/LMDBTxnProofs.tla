---------------------------- MODULE LMDBTxnProofs ----------------------------
(***************************************************************************)
(* Growing the map and repeating the transaction from its log loses        *)
(* nothing: for any keys, entries, readers and sizes, whoever opened the   *)
(* environment and however LMDB fails, a database whose writer has had no  *)
(* error holds every batch as a whole.  And it succeeds: a writer that     *)
(* opened the environment itself never runs out of room in the map, so     *)
(* only LMDB's own failures lead to the error state.                       *)
(***************************************************************************)
EXTENDS LMDBTxn, FiniteSetTheorems, WellFoundedInduction, TLAPS

Txns == [open : BOOLEAN, map : Map, dirty : Nat, bad : BOOLEAN]

DataTypes ==
    /\ db \in Map
    /\ txn \in Txns
    /\ todo \in Changes
    /\ transaction_log \in Changes

(***************************************************************************)
(* Without an error, the log over the database is what the transaction has *)
(* or is to have again, and the rest of the batch over that is what is     *)
(* wanted.  The error state is never left, so nothing is said of it.       *)
(***************************************************************************)
Sound ==
    /\ ~txn.bad
    /\ wpc \in {"top", "start"} => transaction_log = NoChanges
    /\ wpc \in {"change", "recommit"} => txn.map = Over(transaction_log, db)
    /\ wpc = "top" => want = db
    /\ wpc \in {"start", "change", "grow", "replay", "recommit"} =>
          want = Over(todo, Over(transaction_log, db))
    /\ wpc \in {"grow", "replay"} => retry \in {"change", "recommit"}
    /\ wpc \in {"grow", "replay"} /\ retry = "recommit" => todo = NoChanges
    /\ wpc = "recommit" => todo = NoChanges
    /\ wpc # "fresh"

BatchInv == DataTypes /\ (~has_error => Sound)

-------------------------------------------------------------------------------
(* Changes laid over a map. *)

LEMMA ChangesType ==
    ASSUME NEW b
    PROVE  b \in Changes <=> /\ b = [k \in DOMAIN b |-> b[k]]
                             /\ DOMAIN b \subseteq Keys
                             /\ \A k \in DOMAIN b : b[k] \in EntryIds \cup {0}
BY DEF Changes

LEMMA OverType ==
    ASSUME NEW b \in Changes, NEW m \in Map
    PROVE  Over(b, m) \in Map
BY ChangesType DEF Over, Map

LEMMA OverNothing ==
    ASSUME NEW m \in Map
    PROVE  NoChanges \in Changes /\ Over(NoChanges, m) = m
<1>1. DOMAIN NoChanges = {}
  BY DEF NoChanges
<1>2. NoChanges \in Changes
  BY <1>1, ChangesType DEF NoChanges
<1>3. Over(NoChanges, m) = m
  BY <1>1 DEF Over, Map
<1> QED BY <1>2, <1>3

\* no changes are left when none has a key
LEMMA NoneLeft ==
    ASSUME NEW b \in Changes, DOMAIN b = {}
    PROVE  b = NoChanges
BY ChangesType DEF NoChanges

\* making one of the changes first
LEMMA OverRest ==
    ASSUME NEW b \in Changes, NEW m \in Map, NEW k \in DOMAIN b
    PROVE  /\ Restrict(b, DOMAIN b \ {k}) \in Changes
           /\ Over(b, m) = Over(Restrict(b, DOMAIN b \ {k}), [m EXCEPT ![k] = b[k]])
<1> DEFINE r == Restrict(b, DOMAIN b \ {k})
<1>1. DOMAIN r = DOMAIN b \ {k} /\ \A j \in DOMAIN r : r[j] = b[j]
  BY DEF Restrict
<1>2. r \in Changes
  <2>1. r = [j \in DOMAIN r |-> r[j]]
    BY DEF Restrict
  <2> QED BY <1>1, <2>1, ChangesType
<1>3. k \in Keys
  BY ChangesType
<1>4. Over(b, m) = Over(r, [m EXCEPT ![k] = b[k]])
  BY <1>1, <1>3 DEF Over, Map
<1> QED BY <1>2, <1>4

\* making one change last
LEMMA OverOneMore ==
    ASSUME NEW b \in Changes, NEW m \in Map, NEW k \in Keys, NEW v \in EntryIds \cup {0}
    PROVE  LET c == [j \in DOMAIN b \cup {k} |-> IF j = k THEN v ELSE b[j]]
           IN  c \in Changes /\ Over(c, m) = [Over(b, m) EXCEPT ![k] = v]
<1> DEFINE c == [j \in DOMAIN b \cup {k} |-> IF j = k THEN v ELSE b[j]]
<1>1. c \in Changes
  BY ChangesType
<1>2. Over(c, m) = [Over(b, m) EXCEPT ![k] = v]
  BY DEF Over
<1> QED BY <1>1, <1>2

\* a batch with changes left has a next one
LEMMA KeyExists ==
    ASSUME todo \in Changes, DOMAIN todo # {}
    PROVE  Key \in DOMAIN todo /\ Key \in Keys /\ todo[Key] \in EntryIds \cup {0}
<1>1. DOMAIN todo \subseteq Keys /\ \A k \in DOMAIN todo : todo[k] \in EntryIds \cup {0}
  BY ChangesType
<1>2. DOMAIN todo \subseteq Nat
  BY <1>1, ConstantsAssumption
<1>3. OpToRel(<, Nat) = {ss \in Nat \X Nat : ss[1] < ss[2]}
  BY DEF OpToRel
<1>4. \E x \in DOMAIN todo : \A y \in DOMAIN todo : x <= y
  <2>1. PICK x \in DOMAIN todo :
            \A y \in DOMAIN todo : ~(<<y, x>> \in {ss \in Nat \X Nat : ss[1] < ss[2]})
    BY <1>2, <1>3, NatLessThanWellFounded, WFMin
  <2>2. \A y \in DOMAIN todo : ~(y < x)
    BY <1>2, <2>1
  <2> QED BY <1>2, <2>2
<1> QED BY <1>1, <1>4 DEF Key

\* the pages changes need are a number
LEMMA DirtyType ==
    ASSUME NEW b \in Changes
    PROVE  Dirty(b) \in Nat
<1>1. {k \in DOMAIN b : b[k] # 0 \/ db[k] # 0} \subseteq Keys
  BY ChangesType
<1>2. IsFiniteSet({k \in DOMAIN b : b[k] # 0 \/ db[k] # 0})
  BY <1>1, ConstantsAssumption, FS_Subset
<1> QED BY <1>2, FS_CardinalityType DEF Dirty

-------------------------------------------------------------------------------
(* The invariant. *)

\* it holds of a fresh process
LEMMA InitInv == Init => BatchInv
<1> SUFFICES ASSUME Init PROVE BatchInv
  OBVIOUS
<1> USE DEF Init
<1>1. NoTxn \in Txns
  BY DEF NoTxn, Txns, Map
<1>2. DataTypes
  BY <1>1, OverNothing DEF DataTypes
<1>3. Sound
  BY <1>1 DEF Sound, NoTxn
<1> QED BY <1>2, <1>3 DEF BatchInv

\* every transaction the writer begins, closes or extends is one
LEMMA TxnsMade ==
    ASSUME DataTypes
    PROVE  /\ NoTxn \in Txns /\ NewTxn \in Txns /\ Replayed \in Txns
           /\ \A k \in Keys, v \in EntryIds \cup {0}, n \in Nat :
                 [txn EXCEPT !.map = [@ EXCEPT ![k] = v], !.dirty = @ + n] \in Txns
           /\ [txn EXCEPT !.bad = TRUE] \in Txns
<1> USE DEF DataTypes
<1>1. NoTxn \in Txns /\ NewTxn \in Txns
  BY DEF NoTxn, NewTxn, Txns, Map
<1>2. Replayed \in Txns
  <2>1. Over(transaction_log, db) \in Map
    BY OverType
  <2>2. Dirty(transaction_log) \in Nat
    BY DirtyType
  <2>3. (Needed(Dirty(transaction_log)) > env) \in BOOLEAN
    OBVIOUS
  <2> QED BY <2>1, <2>2, <2>3 DEF Replayed, Txns
<1>3. ASSUME NEW k \in Keys, NEW v \in EntryIds \cup {0}, NEW n \in Nat
      PROVE  [txn EXCEPT !.map = [@ EXCEPT ![k] = v], !.dirty = @ + n] \in Txns
  <2>1. [txn.map EXCEPT ![k] = v] \in Map
    BY DEF Txns, Map
  <2>2. \A m \in Map, d \in Nat : [txn EXCEPT !.map = m, !.dirty = d] \in Txns
    BY DEF Txns
  <2>3. txn.dirty + n \in Nat
    BY DEF Txns
  <2> QED BY <2>1, <2>2, <2>3
<1>4. [txn EXCEPT !.bad = TRUE] \in Txns
  BY DEF Txns
<1> QED BY <1>1, <1>2, <1>3, <1>4

\* what ChangeDone does to the changes left and to the log
LEMMA ChangeMade ==
    ASSUME DataTypes, Changing, Advance
    PROVE  /\ todo' \in Changes
           /\ Logged => transaction_log' \in Changes
           /\ \A m \in Map : Over(todo, m) = Over(todo', [m EXCEPT ![Key] = todo[Key]])
           /\ ~has_error' /\ Logged =>
                 Over(transaction_log', db) = [Over(transaction_log, db) EXCEPT ![Key] = todo[Key]]
<1> USE DEF DataTypes
<1>1. Key \in DOMAIN todo /\ Key \in Keys /\ todo[Key] \in EntryIds \cup {0}
  BY KeyExists DEF Changing
<1>2. todo' = Restrict(todo, DOMAIN todo \ {Key})
  BY DEF Advance
<1>3. /\ todo' \in Changes
      /\ \A m \in Map : Over(todo, m) = Over(todo', [m EXCEPT ![Key] = todo[Key]])
  BY <1>1, <1>2, OverRest
<1> DEFINE more == [k \in DOMAIN transaction_log \cup {Key} |->
                       IF k = Key THEN todo[Key] ELSE transaction_log[k]]
<1>4. more \in Changes /\ Over(more, db) = [Over(transaction_log, db) EXCEPT ![Key] = todo[Key]]
  BY <1>1, OverOneMore
<1>5. Logged => transaction_log' \in {more, transaction_log}
  BY DEF Logged
<1>6. ~has_error' /\ Logged => transaction_log' = more
  BY DEF Logged
<1> HIDE DEF more
<1> QED BY <1>3, <1>4, <1>5, <1>6

\* a step keeps the types
LEMMA TypesKept == DataTypes /\ [Next]_vars => DataTypes'
<1> SUFFICES ASSUME DataTypes, [Next]_vars PROVE DataTypes'
  OBVIOUS
<1> USE DEF DataTypes, dataVars, envVars, lockVars, batchVars
<1>1. CASE Take
  BY <1>1 DEF Take
<1>2. CASE Start
  BY <1>2, TxnsMade DEF Start, Begin
<1>3. CASE ChangeDone
  <2>1. Touches \in Nat
    BY DEF Touches
  <2>2. txn' \in Txns
    BY <1>3, <2>1, KeyExists, TxnsMade DEF ChangeDone, Changing
  <2> QED BY <1>3, <2>2, ChangeMade DEF ChangeDone
<1>4. CASE ChangeFails
  BY <1>4, TxnsMade, ChangeMade DEF ChangeFails
<1>5. CASE ChangeFull \/ CommitFull
  BY <1>5, TxnsMade DEF ChangeFull, CommitFull, WaitToGrow
<1>6. CASE ChangeLost
  BY <1>6, TxnsMade, ChangeMade DEF ChangeLost, Changing
<1>7. CASE Fresh \/ Replay
  BY <1>7, TxnsMade DEF Fresh, Replay, Begin
<1>8. CASE Grow \/ GrowFails
  BY <1>8 DEF Grow, GrowFails
<1>9. CASE Commit
  BY <1>9, TxnsMade, OverNothing DEF Commit, Written, Closed, Txns
<1>10. CASE CommitLeft
  BY <1>10, TxnsMade DEF CommitLeft
<1>11. CASE CommitFails
  BY <1>11, TxnsMade, OverNothing DEF CommitFails, Closed
<1>12. CASE \E r \in Readers : Construct(r) \/ Call(r) \/ ReaderNext(r)
  BY <1>12 DEF Construct, Call, ReaderNext, Constructed, Read, Return, writerVars
<1>13. CASE UNCHANGED vars
  BY <1>13 DEF vars
<1> QED
  BY <1>1, <1>2, <1>3, <1>4, <1>5, <1>6, <1>7, <1>8, <1>9, <1>10, <1>11, <1>12, <1>13
     DEF Next, WriterNext

\* a step without an error keeps the log, the transaction and the batch in agreement
LEMMA SoundKept == BatchInv /\ [Next]_vars /\ ~has_error' => Sound'
<1> SUFFICES ASSUME BatchInv, [Next]_vars, ~has_error' PROVE Sound'
  OBVIOUS
<1>0. DataTypes
  BY DEF BatchInv
<1> USE DEF DataTypes, dataVars, envVars, lockVars, batchVars
<1>h. ~has_error
  BY DEF Next, WriterNext, Take, Start, ChangeDone, ChangeFails, ChangeFull, ChangeLost, Fresh,
         Grow, GrowFails, Replay, Commit, CommitFull, CommitLeft, CommitFails, Construct, Call,
         ReaderNext, Constructed, Read, Return, writerVars, vars
<1>s. Sound
  BY <1>h DEF BatchInv
<1>1. CASE Take
  <2>1. wpc = "top" /\ wpc' = "start" /\ want = db /\ transaction_log = NoChanges
    BY <1>1, <1>s DEF Take, WriterAt, Sound
  <2>2. Over(transaction_log, db) = db
    BY <1>0, <2>1, OverNothing
  <2>3. want' = Over(todo', want) /\ UNCHANGED <<db, txn, transaction_log>>
    BY <1>1 DEF Take
  <2>4. want' = Over(todo', Over(transaction_log', db'))
    BY <2>1, <2>2, <2>3
  <2>5. ~txn'.bad /\ transaction_log' = NoChanges
    BY <1>s, <2>1, <2>3 DEF Sound
  <2> QED BY <2>1, <2>4, <2>5 DEF Sound
<1>2. CASE Start
  <2>1. CASE txn.open
    BY <1>2, <1>s, <2>1 DEF Start, Begin, Sound
  <2>2. CASE ~txn.open
    <3>1. txn' = NewTxn /\ wpc = "start" /\ wpc' = "change"
      BY <1>2, <2>2 DEF Start, Begin
    <3>2. transaction_log = NoChanges /\ want = Over(todo, Over(transaction_log, db))
      BY <3>1, <1>s DEF Sound
    <3>3. db = Over(transaction_log, db)
      BY <1>0, <3>2, OverNothing
    <3>4. txn'.map = db /\ ~txn'.bad
      BY <3>1 DEF NewTxn
    <3>5. UNCHANGED <<db, transaction_log, todo, want>>
      BY <1>2 DEF Start
    <3>6. txn'.map = Over(transaction_log', db') /\ want' = Over(todo', Over(transaction_log', db'))
      BY <3>2, <3>3, <3>4, <3>5
    <3> QED BY <3>1, <3>4, <3>6 DEF Sound
  <2> QED BY <2>1, <2>2
<1>3. CASE ChangeDone
  <2>1. /\ Changing /\ Advance /\ Logged /\ wpc = "change" /\ wpc' = "change"
        /\ UNCHANGED <<db, want>>
        /\ txn' = [txn EXCEPT !.map = [@ EXCEPT ![Key] = todo[Key]], !.dirty = @ + Touches]
    BY <1>3 DEF ChangeDone, Changing
  <2>2. txn.map = Over(transaction_log, db) /\ want = Over(todo, txn.map) /\ ~txn.bad
    BY <1>s, <2>1 DEF Sound
  <2>3. txn'.map = [txn.map EXCEPT ![Key] = todo[Key]] /\ ~txn'.bad
    BY <1>0, <2>1, <2>2 DEF Txns
  <2>4. txn'.map = Over(transaction_log', db)
    BY <1>0, <2>1, <2>2, <2>3, ChangeMade
  <2>5. want = Over(todo', txn'.map)
    BY <1>0, <2>1, <2>2, <2>3, ChangeMade DEF Txns
  <2> QED BY <2>1, <2>3, <2>4, <2>5 DEF Sound
<1>4. CASE ChangeFull
  <2>1. wpc = "change" /\ wpc' = "grow" /\ retry' = "change" /\ txn' = NoTxn
    BY <1>4 DEF ChangeFull, Changing, WaitToGrow
  <2> QED BY <1>4, <1>s, <2>1 DEF ChangeFull, Sound, NoTxn
<1>5. CASE CommitFull
  <2>1. wpc = "change" /\ wpc' = "grow" /\ retry' = "recommit" /\ txn' = NoTxn
    BY <1>5 DEF CommitFull, Committing, WaitToGrow
  <2>2. todo = NoChanges
    BY <1>0, <1>5, NoneLeft DEF CommitFull, Committing
  <2> QED BY <1>5, <1>s, <2>1, <2>2 DEF CommitFull, Sound, NoTxn
<1>6. CASE Fresh
  BY <1>6, <1>s DEF Fresh, WriterAt, Sound
<1>7. CASE Grow
  BY <1>7, <1>s DEF Grow, WriterAt, Sound
<1>8. CASE Replay
  <2>1. wpc = "replay" /\ wpc' = retry /\ txn' = Replayed /\ retry' = retry /\ ~Replayed.bad
    BY <1>8 DEF Replay, WriterAt, Begin
  <2>2. txn'.map = Over(transaction_log, db) /\ ~txn'.bad
    BY <2>1 DEF Replayed
  <2>3. /\ retry \in {"change", "recommit"}
        /\ retry = "recommit" => todo = NoChanges
        /\ want = Over(todo, Over(transaction_log, db))
    BY <1>s, <2>1 DEF Sound
  <2>4. UNCHANGED <<db, transaction_log, todo, want>>
    BY <1>8 DEF Replay
  <2> QED BY <2>1, <2>2, <2>3, <2>4 DEF Sound
<1>9. CASE Commit
  <2>1. /\ wpc \in {"change", "recommit"} /\ wpc' = "top" /\ db' = txn.map /\ txn' = NoTxn
        /\ transaction_log' = NoChanges /\ want' = want
    BY <1>9 DEF Commit, Committing, Written, Closed
  <2>2. todo = NoChanges
    BY <1>0, <1>9, <1>s, NoneLeft DEF Commit, Committing, Sound
  <2>3. want = Over(todo, txn.map)
    BY <1>s, <2>1 DEF Sound
  <2>4. want' = db'
    BY <1>0, <2>1, <2>2, <2>3, OverNothing DEF Txns
  <2> QED BY <2>1, <2>4 DEF Sound, NoTxn
<1>10. CASE ChangeFails \/ ChangeLost \/ GrowFails \/ CommitLeft \/ CommitFails
  BY <1>10, <1>h DEF ChangeFails, ChangeLost, GrowFails, CommitLeft, CommitFails
<1>11. CASE \E r \in Readers : Construct(r) \/ Call(r) \/ ReaderNext(r)
  BY <1>11, <1>s DEF Construct, Call, ReaderNext, Constructed, Read, Return, writerVars, Sound
<1>12. CASE UNCHANGED vars
  BY <1>12, <1>s DEF vars, Sound
<1> QED
  BY <1>1, <1>2, <1>3, <1>4, <1>5, <1>6, <1>7, <1>8, <1>9, <1>10, <1>11, <1>12
     DEF Next, WriterNext

(***************************************************************************)
(* The log, the transaction and the rest of the batch agree in every state *)
(* without an error: what LMDBFileIndex.cpp repeats after growing the map  *)
(* is what was thrown away.                                                *)
(***************************************************************************)
THEOREM LogAgrees == Spec => []BatchInv
<1>1. BatchInv /\ [Next]_vars => BatchInv'
  BY TypesKept, SoundKept DEF BatchInv
<1> QED BY <1>1, InitInv, PTL DEF Spec

(***************************************************************************)
(* Between two batches, and without an error so far, the database is what  *)
(* all batches taken make of it: commit_transaction never commits a part.  *)
(***************************************************************************)
THEOREM BatchesWhole == Spec => []WholeBatches
<1>1. BatchInv => WholeBatches
  BY DEF BatchInv, Sound, WholeBatches
<1> QED BY <1>1, LogAgrees, PTL

-------------------------------------------------------------------------------
(* Powers of two, which the size of the map goes through. *)

\* 2^n is the number of subsets of 1..n.
LEMMA PowerIs ==
    ASSUME NEW n \in Nat
    PROVE  /\ IsFiniteSet(SUBSET (1..n)) /\ Cardinality(SUBSET (1..n)) = 2^n
           /\ 2^n \in Nat /\ n + 1 <= 2^n
<1>1. IsFiniteSet(1..n) /\ Cardinality(1..n) = n
  BY FS_Interval
<1>2. IsFiniteSet(SUBSET (1..n)) /\ Cardinality(SUBSET (1..n)) = 2^n
  BY <1>1, FS_SUBSET
<1>3. 2^n \in Nat
  BY <1>2, FS_CardinalityType
<1>4. n + 1 <= 2^n
  <2> DEFINE f == [i \in 0..n |-> (1..n) \cap {i}]
  <2>1. f \in Injection(0..n, SUBSET (1..n))
    <3>1. f \in [0..n -> SUBSET (1..n)]
      OBVIOUS
    <3>2. ASSUME NEW i \in 0..n, NEW j \in 0..n, f[i] = f[j] PROVE i = j
      <4>1. (1..n) \cap {i} = (1..n) \cap {j}
        BY <3>2
      <4>2. i \in 1..n => i = j
        BY <4>1
      <4>3. j \in 1..n => i = j
        BY <4>1
      <4> QED
        BY <4>2, <4>3
    <3> HIDE DEF f
    <3> QED
      BY <3>1, <3>2 DEF Injection, IsInjective
  <2>2. Cardinality(0..n) <= Cardinality(SUBSET (1..n))
    BY <1>2, <2>1, FS_Injection
  <2>3. Cardinality(0..n) = n + 1
    BY FS_Interval
  <2> QED
    BY <1>2, <2>2, <2>3
<1> QED
  BY <1>2, <1>3, <1>4

\* A set with one more element has twice as many subsets.
LEMMA PowerNext ==
    ASSUME NEW n \in Nat
    PROVE  2^(n + 1) = 2 * 2^n
<1> DEFINE A == SUBSET (1..n)
           B == {T \cup {n + 1} : T \in A}
           f == [T \in A |-> T \cup {n + 1}]
<1>1. IsFiniteSet(A) /\ Cardinality(A) = 2^n /\ 2^n \in Nat
  BY PowerIs
<1>2. ExistsBijection(A, B)
  <2>1. \A T \in A : n + 1 \notin T
    OBVIOUS
  <2>2. f \in Bijection(A, B)
    <3>1. f \in [A -> B]
      OBVIOUS
    <3>2. \A T, U \in A : f[T] = f[U] => T = U
      BY <2>1
    <3>3. \A V \in B : \E T \in A : f[T] = V
      OBVIOUS
    <3> HIDE DEF f, A, B
    <3> QED
      BY <3>1, <3>2, <3>3 DEF Bijection, Injection, IsInjective, Surjection
  <2> QED
    BY <2>2 DEF ExistsBijection
<1>3. IsFiniteSet(B) /\ Cardinality(B) = 2^n
  BY <1>1, <1>2, FS_Bijection
<1>4. A \cap B = {}
  OBVIOUS
<1>5. A \cup B = SUBSET (1..(n + 1))
  <2>1. ASSUME NEW T \in SUBSET (1..(n + 1)), n + 1 \in T PROVE T \in B
    <3>1. T \ {n + 1} \in A /\ T = (T \ {n + 1}) \cup {n + 1}
      BY <2>1
    <3> QED
      BY <3>1
  <2>2. ASSUME NEW T \in SUBSET (1..(n + 1)), n + 1 \notin T PROVE T \in A
    BY <2>2
  <2>3. \A T \in A \cup B : T \in SUBSET (1..(n + 1))
    OBVIOUS
  <2> QED
    BY <2>1, <2>2, <2>3
<1>6. Cardinality(A \cup B) = 2^n + 2^n
  <2>1. Cardinality(A \cap B) = 0
    BY <1>4, FS_EmptySet
  <2> HIDE DEF A, B
  <2> QED
    BY <1>1, <1>3, <2>1, FS_Union
<1>7. Cardinality(SUBSET (1..(n + 1))) = 2^(n + 1)
  <2>1. n + 1 \in Nat
    OBVIOUS
  <2> QED
    BY <2>1, PowerIs
<1>8. 2^(n + 1) = 2^n + 2^n
  BY <1>5, <1>6, <1>7
<1>9. \A m \in Nat : m + m = 2 * m
  OBVIOUS
<1> QED
  BY <1>1, <1>8, <1>9

\* The doublings of a size that hold the file have a least one.
LEMMA MapForIs ==
    ASSUME NEW size \in Nat \ {0}, pages \in Nat
    PROVE  /\ \E i \in 0..pages : MapFor(size) = size * 2^i
           /\ MapFor(size) \in Nat /\ pages <= MapFor(size) /\ size <= MapFor(size)
           /\ \A i \in 0..pages : pages <= size * 2^i => MapFor(size) <= size * 2^i
<1> DEFINE S == {size * 2^i : i \in 0..pages}
           D == {s \in S : s >= pages}
<1>1. ASSUME NEW i \in 0..pages PROVE 2^i \in Nat /\ i + 1 <= 2^i
  <2>1. i \in Nat
    OBVIOUS
  <2> QED
    BY <2>1, PowerIs
<1>2. \A i \in 0..pages : size * 2^i \in Nat /\ size <= size * 2^i /\ 2^i <= size * 2^i
  <2> SUFFICES ASSUME NEW i \in 0..pages
               PROVE  size * 2^i \in Nat /\ size <= size * 2^i /\ 2^i <= size * 2^i
    OBVIOUS
  <2>1. \A m \in Nat \ {0} : size * m \in Nat /\ size <= size * m /\ m <= size * m
    OBVIOUS
  <2>2. 2^i \in Nat \ {0}
    BY <1>1
  <2> QED
    BY <2>1, <2>2
<1>3. S \subseteq Nat
  BY <1>2
<1>4. size * 2^pages \in D
  <2>1. pages \in 0..pages
    OBVIOUS
  <2>2. pages + 1 <= 2^pages /\ 2^pages \in Nat /\ 2^pages <= size * 2^pages
        /\ size * 2^pages \in Nat
    BY <1>1, <1>2, <2>1
  <2> QED
    BY <2>1, <2>2
<1>5. \E s \in D : \A t \in D : s <= t
  <2>1. OpToRel(<, Nat) = {ss \in Nat \X Nat : ss[1] < ss[2]}
    BY DEF OpToRel
  <2>2. D \subseteq Nat /\ D # {}
    BY <1>3, <1>4
  <2> HIDE DEF D, S
  <2>3. PICK x \in D : \A y \in D : ~(<<y, x>> \in {ss \in Nat \X Nat : ss[1] < ss[2]})
    BY <2>1, <2>2, NatLessThanWellFounded, WFMin
  <2>4. \A y \in D : ~(y < x)
    BY <2>2, <2>3
  <2> QED
    BY <2>2, <2>4
<1> DEFINE Best(s) == s >= pages /\ \A i \in 0..pages : size * 2^i >= pages => s <= size * 2^i
<1>6. \E s \in S : Best(s)
  BY <1>5
<1>7. MapFor(size) = CHOOSE s \in S : Best(s)
  BY DEF MapFor
<1>8. MapFor(size) \in S /\ Best(MapFor(size))
  <2> HIDE DEF Best, S
  <2> QED
    BY <1>6, <1>7
<1>9. PICK i \in 0..pages : MapFor(size) = size * 2^i
  BY <1>8
<1> QED
  BY <1>2, <1>3, <1>8, <1>9
-------------------------------------------------------------------------------
(***************************************************************************)
(* Room in the map.  The sizes: the file fits into the map, and what the   *)
(* writer takes the size to be is right, but for an environment that was   *)
(* open before, which has the least size that holds the file.              *)
(***************************************************************************)
Sizes ==
    /\ pages \in Nat /\ env \in Nat /\ map_size \in Nat \ {0}
    /\ Cardinality(Stored(db)) + 1 <= pages
    /\ wpc # "gone" => pages <= env
    /\ wpc # "gone" /\ map_size # env =>
          /\ CreatedHere /\ map_size = c_initial_map_size
          /\ \A i \in Nat : pages <= 2^i => env <= 2^i

\* Where the writer is, and what it holds there.
Flow ==
    /\ want \in Map /\ has_error \in BOOLEAN /\ failed \in BOOLEAN /\ locked \in BOOLEAN
    /\ wpc \in {"top", "start", "change", "grow", "replay", "recommit", "fresh", "stuck", "gone"}
    /\ retry \in {"top", "change", "recommit"}
    /\ wpc \in {"change", "recommit"} => txn.open /\ locked
    /\ wpc \in {"grow", "replay"} => txn = NoTxn /\ ~has_error
    /\ txn.dirty <= env
    /\ wpc \in {"change", "recommit"} =>
          Cardinality(Stored(txn.map)) <= Cardinality(Stored(db)) + txn.dirty
    /\ waiting \subseteq Readers \cup {Writer}
    /\ rpc \in [Readers -> {"new", "constructing", "ready", "called", "reading"}]

(***************************************************************************)
(* Without an error the log needs as many pages as the transaction has     *)
(* taken, because a batch changes a key once, and the map has room for     *)
(* them; after growing, for one more.                                      *)
(***************************************************************************)
Fits ==
    /\ wpc \in {"start", "change", "grow", "replay", "recommit"} =>
          DOMAIN todo \cap DOMAIN transaction_log = {}
    /\ wpc \in {"change", "recommit"} => txn.dirty = Dirty(transaction_log)
    /\ wpc \in {"change", "grow", "replay", "recommit"} => Needed(Dirty(transaction_log)) <= env
    /\ ~CreatedHere /\ (wpc = "recommit" \/ (wpc = "replay" /\ retry = "recommit")) =>
          Needed(Dirty(transaction_log) + 1) <= env

\* The two together, and what they are for.
RoomInv ==
    /\ BatchInv /\ Sizes /\ Flow
    /\ ~has_error => Fits
    /\ ~CreatedHere => RoomAfterGrowth

(* Pages. *)

\* what is stored can be counted
LEMMA StoredType ==
    ASSUME NEW m \in Map
    PROVE  /\ IsFiniteSet(Stored(m)) /\ Cardinality(Stored(m)) \in Nat
           /\ \A k \in Keys : IsFiniteSet(Stored(m) \cup {k})
                              /\ Cardinality(Stored(m) \cup {k}) \in Nat
                              /\ Cardinality(Stored(m) \cup {k}) <= Cardinality(Stored(m)) + 1
<1>1. Stored(m) \in SUBSET Keys
  BY DEF Stored
<1>2. IsFiniteSet(Stored(m)) /\ Cardinality(Stored(m)) \in Nat
  BY <1>1, ConstantsAssumption, FS_Subset, FS_CardinalityType
<1>3. ASSUME NEW k \in Keys
      PROVE  /\ IsFiniteSet(Stored(m) \cup {k})
             /\ Cardinality(Stored(m) \cup {k}) \in Nat
             /\ Cardinality(Stored(m) \cup {k}) <= Cardinality(Stored(m)) + 1
  <2> DEFINE S == Stored(m)
  <2> HIDE DEF S
  <2>1. IsFiniteSet(S) => /\ IsFiniteSet(S \cup {k})
                          /\ Cardinality(S \cup {k}) =
                               IF k \in S THEN Cardinality(S) ELSE Cardinality(S) + 1
    BY FS_AddElement
  <2> QED
    BY <1>2, <2>1 DEF S
<1> QED
  BY <1>2, <1>3

\* a number of pages is one
LEMMA NeededType ==
    ASSUME db \in Map, NEW n \in Nat
    PROVE  Needed(n) = Cardinality(Stored(db)) + n /\ Needed(n) \in Nat
BY StoredType DEF Needed

\* a change that needs no page stores nothing
LEMMA StoredMore ==
    ASSUME NEW m \in Map, NEW k \in Keys, NEW v \in EntryIds \cup {0}
    PROVE  /\ [m EXCEPT ![k] = v] \in Map
           /\ Cardinality(Stored([m EXCEPT ![k] = v]))
                <= Cardinality(Stored(m)) + (IF v # 0 \/ m[k] # 0 THEN 1 ELSE 0)
<1> DEFINE m2 == [m EXCEPT ![k] = v]
<1>1. m2 \in Map
  BY DEF Map
<1>2. CASE v # 0
  <2>1. Stored(m2) \in SUBSET (Stored(m) \cup {k})
    BY DEF Stored, Map
  <2>2. Cardinality(Stored(m2)) <= Cardinality(Stored(m) \cup {k})
    BY <2>1, StoredType, FS_Subset
  <2>3. /\ Cardinality(Stored(m2)) \in Nat /\ Cardinality(Stored(m)) \in Nat
        /\ Cardinality(Stored(m) \cup {k}) \in Nat
    BY <1>1, StoredType
  <2>4. Cardinality(Stored(m) \cup {k}) <= Cardinality(Stored(m)) + 1
    BY StoredType
  <2>5. Cardinality(Stored(m2)) <= Cardinality(Stored(m)) + 1
    BY <2>2, <2>3, <2>4
  <2> QED
    BY <1>1, <1>2, <2>5
<1>3. CASE v = 0
  <2>1. Stored(m2) \in SUBSET Stored(m)
    BY <1>3 DEF Stored, Map
  <2>2. Cardinality(Stored(m2)) <= Cardinality(Stored(m))
    BY <2>1, StoredType, FS_Subset
  <2>3. Cardinality(Stored(m2)) \in Nat /\ Cardinality(Stored(m)) \in Nat
    BY <1>1, StoredType
  <2> QED
    BY <1>1, <2>2, <2>3
<1> QED
  BY <1>2, <1>3

\* what a log adds to the database is paid for
LEMMA StoredOver ==
    ASSUME db \in Map, NEW b \in Changes
    PROVE  Cardinality(Stored(Over(b, db))) <= Cardinality(Stored(db)) + Dirty(b)
<1> DEFINE D == {k \in DOMAIN b : b[k] # 0 \/ db[k] # 0}
<1>1. D \in SUBSET Keys /\ Dirty(b) = Cardinality(D)
  BY ChangesType DEF Dirty
<1>2. IsFiniteSet(D) /\ Cardinality(D) \in Nat
  BY <1>1, ConstantsAssumption, FS_Subset, FS_CardinalityType
<1>3. Stored(Over(b, db)) \in SUBSET (Stored(db) \cup D)
  BY ChangesType DEF Stored, Over, Map
<1> HIDE DEF D
<1>4. /\ IsFiniteSet(Stored(db) \cup D) /\ Cardinality(Stored(db) \cap D) \in Nat
      /\ Cardinality(Stored(db) \cup D)
           = Cardinality(Stored(db)) + Cardinality(D) - Cardinality(Stored(db) \cap D)
  BY <1>2, StoredType, FS_Union, FS_Intersection, FS_CardinalityType
<1>5. Cardinality(Stored(Over(b, db))) <= Cardinality(Stored(db) \cup D)
  BY <1>3, <1>4, FS_Subset
<1>6. /\ Cardinality(Stored(Over(b, db))) \in Nat /\ Cardinality(Stored(db)) \in Nat
      /\ Cardinality(Stored(db) \cup D) \in Nat
  BY <1>4, OverType, StoredType, FS_CardinalityType
<1> QED
  BY <1>1, <1>2, <1>4, <1>5, <1>6

\* a change that is the first of its key adds its page to the log
LEMMA DirtyMore ==
    ASSUME db \in Map, NEW b \in Changes, NEW k \in Keys, k \notin DOMAIN b,
           NEW v \in EntryIds \cup {0}, NEW c,
           c = [j \in DOMAIN b \cup {k} |-> IF j = k THEN v ELSE b[j]]
    PROVE  Dirty(c) = Dirty(b) + (IF v # 0 \/ db[k] # 0 THEN 1 ELSE 0)
<1> DEFINE D == {j \in DOMAIN b : b[j] # 0 \/ db[j] # 0}
           E == {j \in DOMAIN c : c[j] # 0 \/ db[j] # 0}
<1>1. D \in SUBSET Keys /\ Dirty(b) = Cardinality(D) /\ Dirty(c) = Cardinality(E)
  BY ChangesType DEF Dirty
<1>2. IsFiniteSet(D) /\ Cardinality(D) \in Nat
  BY <1>1, ConstantsAssumption, FS_Subset, FS_CardinalityType
<1>3. E = IF v # 0 \/ db[k] # 0 THEN D \cup {k} ELSE D
  OBVIOUS
<1>4. k \notin D
  OBVIOUS
<1> HIDE DEF D, E
<1>5. Cardinality(D \cup {k}) = Cardinality(D) + 1
  BY <1>2, <1>4, FS_AddElement
<1>6. CASE v # 0 \/ db[k] # 0
  BY <1>1, <1>3, <1>5, <1>6
<1>7. CASE ~(v # 0 \/ db[k] # 0)
  BY <1>1, <1>2, <1>3, <1>7
<1> QED
  BY <1>6, <1>7

\* an empty log needs nothing
LEMMA DirtyNothing == Dirty(NoChanges) = 0
<1>1. {k \in DOMAIN NoChanges : NoChanges[k] # 0 \/ db[k] # 0} = {}
  BY DEF NoChanges
<1> QED
  BY <1>1, FS_EmptySet DEF Dirty

(* The steps. *)

\* growing makes room
LEMMA GrownIs ==
    ASSUME Sizes, wpc # "gone"
    PROVE  /\ Grown \in Nat \ {0} /\ pages <= Grown /\ env <= Grown
           /\ map_size = env => 2 * env <= Grown
<1>1. /\ pages \in Nat /\ env \in Nat /\ map_size \in Nat \ {0}
      /\ pages <= env
      /\ map_size # env =>
          /\ map_size = 1
          /\ \A i \in Nat : pages <= 2^i => env <= 2^i
  BY DEF Sizes, c_initial_map_size
<1>2. 2 * map_size \in Nat \ {0}
  BY <1>1
<1>3. /\ \E i \in 0..pages : Grown = (2 * map_size) * 2^i
      /\ Grown \in Nat /\ pages <= Grown /\ 2 * map_size <= Grown
  BY <1>1, <1>2, MapForIs DEF Grown
<1>4. map_size = env => 2 * env <= Grown
  BY <1>3
<1>5. CASE map_size = env
  BY <1>1, <1>3, <1>4, <1>5
<1>6. CASE map_size # env
  <2>1. PICK i \in 0..pages : Grown = (2 * map_size) * 2^i
    BY <1>3
  <2>2. i \in Nat /\ i + 1 \in Nat /\ 2 * map_size = 2
    BY <1>1, <1>6
  <2>3. 2^(i + 1) = 2 * 2^i
    BY <2>2, PowerNext
  <2>4. Grown = 2^(i + 1)
    BY <2>1, <2>2, <2>3
  <2>5. env <= Grown
    BY <1>1, <1>3, <1>6, <2>2, <2>4
  <2> QED
    BY <1>1, <1>2, <1>3, <1>6, <2>5
<1> QED
  BY <1>5, <1>6

\* the sizes
LEMMA SizesKept ==
    ASSUME RoomInv, [Next]_vars
    PROVE  Sizes'
<1> USE DEF dataVars, envVars, lockVars, batchVars
<1>1. Sizes /\ Flow /\ DataTypes
  BY DEF RoomInv, BatchInv
<1>2. ASSUME UNCHANGED <<db, pages, env, map_size>>, wpc = "gone" => wpc' = "gone"
      PROVE  Sizes'
  BY <1>1, <1>2 DEF Sizes, Stored
<1>3. CASE Grow
  <2>1. wpc = "grow" /\ wpc' = "replay" /\ UNCHANGED <<db, pages>>
        /\ env' = Grown /\ map_size' = Grown
    BY <1>3 DEF Grow, WriterAt
  <2>2. Grown \in Nat \ {0} /\ pages <= Grown
    BY <1>1, <2>1, GrownIs
  <2> QED
    BY <1>1, <2>1, <2>2 DEF Sizes, Stored
<1>4. CASE GrowFails
  <2>1. wpc' = "gone" /\ UNCHANGED <<db, pages>> /\ env' = 0 /\ map_size' = 2 * map_size
    BY <1>4 DEF GrowFails, WriterAt
  <2>2. 2 * map_size \in Nat \ {0}
    BY <1>1 DEF Sizes
  <2> QED
    BY <1>1, <2>1, <2>2 DEF Sizes, Stored
<1>5. CASE Commit
  <2>1. /\ wpc \in {"change", "recommit"} /\ wpc' = "top" /\ UNCHANGED <<env, map_size>>
        /\ db' = txn.map /\ CommitFits
        /\ pages' = IF txn.dirty = 0 \/ Needed(txn.dirty + 1) <= pages
                    THEN pages ELSE Needed(txn.dirty + 1)
    BY <1>5 DEF Commit, Committing, Written, Closed
  <2>2. txn.dirty \in Nat /\ txn.map \in Map /\ db \in Map
    BY <1>1 DEF DataTypes, Txns
  <2>3. /\ Needed(txn.dirty + 1) = Cardinality(Stored(db)) + txn.dirty + 1
        /\ Cardinality(Stored(db)) \in Nat /\ Cardinality(Stored(txn.map)) \in Nat
    <3>1. txn.dirty + 1 \in Nat
      BY <2>2
    <3> QED
      BY <2>2, <3>1, NeededType, StoredType
  <2>4. Cardinality(Stored(txn.map)) <= Cardinality(Stored(db)) + txn.dirty
    BY <1>1, <2>1 DEF Flow
  <2>5. /\ pages \in Nat /\ env \in Nat /\ Cardinality(Stored(db)) + 1 <= pages /\ pages <= env
    BY <1>1, <2>1 DEF Sizes
  <2>6. pages' \in Nat /\ pages <= pages' /\ pages' <= env
        /\ Cardinality(Stored(txn.map)) + 1 <= pages'
    BY <2>1, <2>2, <2>3, <2>4, <2>5 DEF CommitFits
  <2>7. Stored(db)' = Stored(txn.map)
    BY <2>1 DEF Stored
  <2>8. map_size # env => CreatedHere /\ map_size = c_initial_map_size
                          /\ \A i \in Nat : pages <= 2^i => env <= 2^i
    BY <1>1, <2>1 DEF Sizes
  <2>9. ASSUME map_size # env, NEW i \in Nat, pages' <= 2^i PROVE env <= 2^i
    <3>1. 2^i \in Nat
      BY PowerIs
    <3>2. pages <= 2^i
      BY <2>5, <2>6, <2>9, <3>1
    <3> QED
      BY <2>8, <2>9, <3>2
  <2> QED
    BY <1>1, <2>1, <2>5, <2>6, <2>7, <2>8, <2>9 DEF Sizes, c_initial_map_size
<1>6. CASE \/ Take \/ Start \/ ChangeDone \/ ChangeFails \/ ChangeFull \/ ChangeLost \/ Fresh
           \/ Replay \/ CommitFull \/ CommitLeft \/ CommitFails
  BY <1>2, <1>6 DEF Take, Start, ChangeDone, ChangeFails, ChangeFull, ChangeLost, Fresh, Replay,
     CommitFull, CommitLeft, CommitFails, WriterAt, Changing, Committing
<1>7. CASE \/ \E r \in Readers : Construct(r) \/ Call(r) \/ ReaderNext(r)
           \/ UNCHANGED vars
  BY <1>2, <1>7 DEF Construct, Call, ReaderNext, Constructed, Read, Return, writerVars, vars
<1> QED
  BY <1>3, <1>4, <1>5, <1>6, <1>7 DEF Next, WriterNext

\* where the writer is
LEMMA FlowKept ==
    ASSUME RoomInv, [Next]_vars
    PROVE  Flow'
<1> USE DEF dataVars, envVars, lockVars, batchVars
<1>1. Sizes /\ Flow /\ DataTypes /\ (~has_error => Sound /\ Fits)
  BY DEF RoomInv, BatchInv
<1>2. /\ env \in Nat /\ db \in Map /\ txn.dirty \in Nat /\ txn.dirty <= env /\ txn.map \in Map
      /\ Cardinality(Stored(db)) \in Nat
  BY <1>1, StoredType DEF Sizes, DataTypes, Txns, Flow
<1>3. /\ NoTxn.dirty = 0 /\ NewTxn.dirty = 0 /\ NewTxn.map = db /\ NewTxn.open
  BY DEF NoTxn, NewTxn
<1>4. CASE Take
  <2>1. want' \in Map
    BY <1>1, <1>4, OverType DEF Take, Flow, DataTypes
  <2> QED
    BY <1>1, <1>4, <2>1 DEF Take, WriterAt, Flow
<1>5. CASE Start
  <2>1. CASE txn.open
    BY <1>1, <1>5, <2>1 DEF Start, Begin, Flow
  <2>2. CASE ~txn.open
    <3>1. txn' = NewTxn /\ locked' = TRUE /\ wpc' = "change"
      BY <1>5, <2>2 DEF Start, Begin
    <3>2. Stored(txn'.map) = Stored(db) /\ Stored(db)' = Stored(db) /\ txn'.dirty = 0 /\ txn'.open
      BY <1>3, <1>5, <3>1 DEF Start, Stored
    <3>3. Cardinality(Stored(txn'.map)) <= Cardinality(Stored(db)) + txn'.dirty
      BY <1>2, <3>2
    <3> QED
      BY <1>1, <1>2, <1>5, <3>1, <3>2, <3>3 DEF Start, Flow, Stored
  <2> QED
    BY <2>1, <2>2
<1>6. CASE ChangeDone
  <2>1. /\ Changing /\ ~txn.bad /\ ChangeFits /\ wpc = "change" /\ wpc' = "change"
        /\ txn' = [txn EXCEPT !.map = [@ EXCEPT ![Key] = todo[Key]], !.dirty = @ + Touches]
        /\ UNCHANGED <<db, env, has_error, retry, want, locked, waiting, rpc, failed>>
    BY <1>6 DEF ChangeDone, Changing
  <2>2. Key \in Keys /\ todo[Key] \in EntryIds \cup {0}
    BY <1>1, <2>1, KeyExists DEF Changing, DataTypes
  <2>3. txn'.map = [txn.map EXCEPT ![Key] = todo[Key]] /\ txn'.dirty = txn.dirty + Touches
        /\ txn'.open = txn.open
    BY <1>1, <2>1 DEF DataTypes, Txns
  <2>4. Touches \in {0, 1}
    BY DEF Touches
  <2>5. txn'.dirty <= env
    <3>1. Touches = 0 \/ Cardinality(Stored(db)) + (txn.dirty + 1) <= env
      BY <2>1 DEF ChangeFits, Needed
    <3> QED
      BY <1>2, <2>3, <2>4, <3>1
  <2>6. /\ Cardinality(Stored(txn'.map)) <= Cardinality(Stored(txn.map)) + Touches
        /\ Cardinality(Stored(txn'.map)) \in Nat /\ Cardinality(Stored(txn.map)) \in Nat
    BY <1>2, <2>2, <2>3, StoredMore, StoredType DEF Touches
  <2>7. Cardinality(Stored(txn.map)) <= Cardinality(Stored(db)) + txn.dirty
    BY <1>1, <2>1 DEF Flow
  <2>8. Cardinality(Stored(txn'.map)) <= Cardinality(Stored(db)) + txn'.dirty
    BY <1>2, <2>3, <2>4, <2>6, <2>7
  <2>9. Cardinality(Stored(txn.map))' <= Cardinality(Stored(db))' + txn'.dirty
    BY <2>1, <2>8 DEF Stored
  <2> QED
    BY <1>1, <2>1, <2>3, <2>5, <2>9 DEF Flow
<1>7. CASE ChangeFails
  <2>1. txn'.open = txn.open /\ txn'.map = txn.map /\ txn'.dirty = txn.dirty
    BY <1>1, <1>7 DEF ChangeFails, DataTypes, Txns
  <2> QED
    BY <1>1, <1>7, <2>1 DEF ChangeFails, Changing, Flow, Stored
<1>8. CASE ChangeFull \/ CommitFull
  <2>1. /\ wpc' = "grow" /\ retry' \in {"change", "recommit"} /\ txn' = NoTxn /\ locked' = FALSE
        /\ waiting' = waiting \cup {Writer} /\ ~has_error
        /\ UNCHANGED <<env, has_error, want, rpc, failed>>
    BY <1>8 DEF ChangeFull, CommitFull, WaitToGrow
  <2>2. txn'.dirty <= env' /\ ~has_error' /\ has_error' \in BOOLEAN
        /\ waiting' \subseteq Readers \cup {Writer}
    BY <1>1, <1>2, <1>3, <2>1 DEF Flow
  <2>3. want' \in Map /\ failed' \in BOOLEAN
        /\ rpc' \in [Readers -> {"new", "constructing", "ready", "called", "reading"}]
    BY <1>1, <2>1 DEF Flow
  <2> QED
    BY <2>1, <2>2, <2>3 DEF Flow
<1>9. CASE ChangeLost \/ CommitLeft
  <2>1. /\ wpc' = "fresh" /\ retry' \in {"change", "top"} /\ txn' = NoTxn
        /\ UNCHANGED <<env, has_error, want, locked, waiting, rpc, failed>>
    BY <1>9 DEF ChangeLost, CommitLeft
  <2> QED
    BY <1>1, <1>2, <1>3, <2>1 DEF Flow
<1>10. CASE Fresh
  <2>1. /\ wpc' = retry /\ txn' = NewTxn /\ locked' = TRUE
        /\ UNCHANGED <<db, env, has_error, retry, want, waiting, rpc, failed>>
    BY <1>10 DEF Fresh, WriterAt, Begin
  <2>2. Stored(txn'.map) = Stored(db) /\ Stored(db)' = Stored(db) /\ txn'.dirty = 0 /\ txn'.open
    BY <1>3, <2>1 DEF Stored
  <2>3. Cardinality(Stored(txn'.map)) <= Cardinality(Stored(db)) + txn'.dirty
    BY <1>2, <2>2
  <2> QED
    BY <1>1, <1>2, <2>1, <2>2, <2>3 DEF Flow, Stored
<1>11. CASE Grow
  <2>1. /\ wpc = "grow" /\ wpc' = "replay" /\ env' = Grown /\ waiting' = waiting \ {Writer}
        /\ UNCHANGED <<txn, has_error, retry, want, locked, rpc, failed>>
    BY <1>11 DEF Grow, WriterAt
  <2>2. Grown \in Nat /\ txn.dirty = 0
    BY <1>1, <1>3, <2>1, GrownIs DEF Flow
  <2> QED
    BY <1>1, <2>1, <2>2 DEF Flow
<1>12. CASE GrowFails
  <2>1. /\ wpc = "grow" /\ wpc' = "gone" /\ env' = 0 /\ has_error' = TRUE /\ failed' = TRUE
        /\ UNCHANGED <<txn, retry, want, locked, waiting, rpc>>
    BY <1>12 DEF GrowFails, WriterAt
  <2>2. txn.dirty = 0
    BY <1>1, <1>3, <2>1 DEF Flow
  <2> QED
    BY <1>1, <2>1, <2>2 DEF Flow
<1>13. CASE Replay
  <2>1. /\ wpc = "replay" /\ wpc' = retry /\ txn' = Replayed /\ locked' = TRUE
        /\ has_error' = (has_error \/ Replayed.bad)
        /\ UNCHANGED <<db, env, transaction_log, retry, want, waiting, rpc, failed>>
    BY <1>13 DEF Replay, WriterAt, Begin
  <2>2. ~has_error /\ transaction_log \in Changes
    BY <1>1, <2>1 DEF Flow, DataTypes
  <2>3. Needed(Dirty(transaction_log)) <= env /\ Dirty(transaction_log) \in Nat
    BY <1>1, <2>1, <2>2, DirtyType DEF Fits
  <2>4. Dirty(transaction_log) <= env
    BY <1>2, <2>3, NeededType
  <2>5. /\ txn'.open /\ txn'.dirty = Dirty(transaction_log)
        /\ txn'.map = Over(transaction_log, db) /\ Replayed.bad \in BOOLEAN
    BY <2>1 DEF Replayed
  <2>6. Cardinality(Stored(txn'.map)) <= Cardinality(Stored(db)) + txn'.dirty
    BY <1>2, <2>2, <2>5, StoredOver
  <2>7. Cardinality(Stored(txn.map))' <= Cardinality(Stored(db))' + txn'.dirty
    BY <2>1, <2>6 DEF Stored
  <2>8. retry \in {"change", "recommit"}
    BY <1>1, <2>1, <2>2 DEF Sound
  <2>9. has_error' \in BOOLEAN
    BY <2>1, <2>2, <2>5
  <2> QED
    BY <1>1, <2>1, <2>4, <2>5, <2>7, <2>8, <2>9 DEF Flow
<1>14. CASE Commit \/ CommitFails
  <2>1. /\ wpc' = "top" /\ txn' = NoTxn /\ locked' = FALSE /\ has_error' \in {has_error, TRUE}
        /\ failed' \in {failed, TRUE} /\ UNCHANGED <<env, retry, want, waiting, rpc>>
    BY <1>14 DEF Commit, CommitFails, Closed
  <2>2. txn'.dirty <= env'
    BY <1>2, <1>3, <2>1
  <2>3. has_error' \in BOOLEAN /\ failed' \in BOOLEAN
    BY <1>1, <2>1 DEF Flow
  <2> QED
    BY <1>1, <2>1, <2>2, <2>3 DEF Flow
<1>15. CASE \E r \in Readers : Construct(r) \/ Call(r) \/ ReaderNext(r)
  <2>1. UNCHANGED writerVars /\ waiting' \subseteq Readers \cup {Writer}
        /\ rpc' \in [Readers -> {"new", "constructing", "ready", "called", "reading"}]
    BY <1>1, <1>15 DEF Construct, Call, ReaderNext, Constructed, Read, Return, ReaderStep, Flow
  <2> QED
    BY <1>1, <2>1 DEF Flow, Stored, writerVars
<1>16. CASE UNCHANGED vars
  BY <1>1, <1>16 DEF Flow, Stored, vars
<1> QED
  BY <1>4, <1>5, <1>6, <1>7, <1>8, <1>9, <1>10, <1>11, <1>12, <1>13, <1>14, <1>15, <1>16
     DEF Next, WriterNext

\* The log, its pages and the room for them.
LEMMA FitsKept ==
    ASSUME RoomInv, [Next]_vars, ~has_error'
    PROVE  Fits'
<1> USE DEF dataVars, envVars, lockVars, batchVars
<1>0. ~has_error
  BY DEF Next, WriterNext, Take, Start, ChangeDone, ChangeFails, ChangeFull, ChangeLost, Fresh,
         Grow, GrowFails, Replay, Commit, CommitFull, CommitLeft, CommitFails, Construct, Call,
         ReaderNext, Constructed, Read, Return, writerVars, vars
<1>1. Sizes /\ Flow /\ DataTypes /\ Sound /\ Fits
  BY <1>0 DEF RoomInv, BatchInv
<1>2. /\ env \in Nat /\ db \in Map /\ txn \in Txns /\ txn.dirty \in Nat
      /\ Cardinality(Stored(db)) \in Nat /\ pages \in Nat
      /\ todo \in Changes /\ transaction_log \in Changes
      /\ Dirty(transaction_log) \in Nat
  BY <1>1, StoredType, DirtyType DEF Sizes, DataTypes, Txns
<1>3. \A n \in Nat : Needed(n) = Cardinality(Stored(db)) + n /\ Needed(n) \in Nat
  BY <1>2, NeededType
<1>4. wpc # "gone" => Cardinality(Stored(db)) + 1 <= env
  BY <1>1, <1>2 DEF Sizes
<1>5. ASSUME UNCHANGED <<db, transaction_log>>
      PROVE  /\ Dirty(transaction_log)' = Dirty(transaction_log)
             /\ Needed(Dirty(transaction_log))' = Needed(Dirty(transaction_log))
             /\ Needed(Dirty(transaction_log) + 1)' = Needed(Dirty(transaction_log) + 1)
  BY <1>5 DEF Dirty, Needed, Stored
<1>6. CASE Take \/ Start
  <2>1. /\ UNCHANGED <<db, env, transaction_log>> /\ wpc \in {"top", "start"}
        /\ wpc' \in {"start", "stuck", "change"} /\ (wpc' = "change" => txn' = NewTxn)
    BY <1>6 DEF Take, Start, WriterAt, Begin
  <2>2. transaction_log = NoChanges
    BY <1>1, <2>1 DEF Sound
  <2>3. Dirty(transaction_log) = 0 /\ DOMAIN transaction_log = {}
    BY <2>2, DirtyNothing DEF NoChanges
  <2>4. Dirty(transaction_log)' = 0 /\ Needed(Dirty(transaction_log))' = Needed(0)
        /\ DOMAIN transaction_log' = {}
    BY <1>5, <2>1, <2>3
  <2>5. Needed(0) <= env
    <3>1. Needed(0) = Cardinality(Stored(db)) + 0
      BY <1>3
    <3> QED
      BY <1>2, <1>4, <2>1, <3>1
  <2> QED
    BY <2>1, <2>4, <2>5 DEF Fits, NewTxn
<1>7. CASE ChangeDone
  <2>1. /\ Changing /\ Advance /\ Logged /\ ChangeFits /\ wpc = "change" /\ wpc' = "change"
        /\ txn' = [txn EXCEPT !.map = [@ EXCEPT ![Key] = todo[Key]], !.dirty = @ + Touches]
        /\ UNCHANGED <<db, env>>
    BY <1>7 DEF ChangeDone, Changing
  <2>2. Key \in DOMAIN todo /\ Key \in Keys /\ todo[Key] \in EntryIds \cup {0}
    BY <1>2, <2>1, KeyExists DEF Changing
  <2>3. /\ DOMAIN todo \cap DOMAIN transaction_log = {}
        /\ txn.dirty = Dirty(transaction_log) /\ Needed(Dirty(transaction_log)) <= env
        /\ txn.map = Over(transaction_log, db)
    BY <1>1, <2>1 DEF Fits, Sound
  <2>4. Key \notin DOMAIN transaction_log
    BY <2>2, <2>3
  <2>5. transaction_log' = [k \in DOMAIN transaction_log \cup {Key} |->
                              IF k = Key THEN todo[Key] ELSE transaction_log[k]]
    BY <2>1 DEF Logged
  <2>6. DOMAIN todo' = DOMAIN todo \ {Key}
    BY <2>1 DEF Advance, Restrict
  <2>7. DOMAIN todo' \cap DOMAIN transaction_log' = {}
    BY <2>3, <2>5, <2>6
  <2>8. txn.map[Key] = db[Key]
    BY <2>2, <2>3, <2>4 DEF Over
  <2>9. Dirty(transaction_log') = Dirty(transaction_log) + Touches
    BY <1>2, <2>2, <2>4, <2>5, <2>8, DirtyMore DEF Touches
  <2>10. Dirty(transaction_log)' = Dirty(transaction_log') /\ Touches \in {0, 1}
    BY <2>1 DEF Dirty, Touches
  <2>11. txn'.dirty = Dirty(transaction_log)'
    BY <1>2, <2>1, <2>3, <2>9, <2>10 DEF Txns
  <2>12. Cardinality(Stored(db)) + (txn.dirty + Touches) <= env
    <3>1. Touches = 0 \/ Cardinality(Stored(db)) + (txn.dirty + 1) <= env
      BY <2>1 DEF ChangeFits, Needed
    <3>2. Cardinality(Stored(db)) + txn.dirty <= env
      BY <1>2, <1>3, <2>3
    <3> QED
      BY <1>2, <2>10, <3>1, <3>2
  <2>13. Needed(Dirty(transaction_log))' = Cardinality(Stored(db)) + (txn.dirty + Touches)
    BY <2>1, <2>3, <2>9, <2>10 DEF Needed, Stored
  <2> QED
    BY <2>1, <2>7, <2>11, <2>12, <2>13 DEF Fits
<1>8. CASE ChangeFull \/ CommitFull
  <2>1. /\ wpc = "change" /\ wpc' = "grow"
        /\ UNCHANGED <<db, env, transaction_log, todo>>
    BY <1>8 DEF ChangeFull, CommitFull, WaitToGrow, Changing, Committing
  <2> QED
    BY <1>1, <1>5, <2>1 DEF Fits
<1>9. CASE Grow
  <2>1. /\ wpc = "grow" /\ wpc' = "replay" /\ env' = Grown
        /\ UNCHANGED <<db, transaction_log, todo, retry>>
    BY <1>9 DEF Grow, WriterAt
  <2>2. /\ Grown \in Nat /\ env <= Grown /\ (map_size = env => 2 * env <= Grown)
        /\ (~CreatedHere => map_size = env)
    BY <1>1, <2>1, GrownIs DEF Sizes
  <2>3. Needed(Dirty(transaction_log)) <= env
    BY <1>1, <2>1 DEF Fits
  <2>4. Needed(Dirty(transaction_log)) <= Grown
    BY <1>2, <1>3, <2>2, <2>3
  <2>5. ~CreatedHere => Needed(Dirty(transaction_log) + 1) <= Grown
    <3>1. Needed(Dirty(transaction_log) + 1) = Cardinality(Stored(db)) + Dirty(transaction_log) + 1
          /\ Needed(Dirty(transaction_log)) = Cardinality(Stored(db)) + Dirty(transaction_log)
      BY <1>2, <1>3
    <3>2. 1 <= env
      BY <1>2, <1>4, <2>1
    <3> QED
      BY <1>2, <2>2, <2>3, <3>1, <3>2
  <2> QED
    BY <1>1, <1>5, <2>1, <2>4, <2>5 DEF Fits
<1>10. CASE Replay
  <2>1. /\ wpc = "replay" /\ wpc' = retry /\ txn' = Replayed
        /\ UNCHANGED <<db, env, transaction_log, todo, retry>>
    BY <1>10 DEF Replay, WriterAt, Begin
  <2>2. txn'.dirty = Dirty(transaction_log)
    BY <2>1 DEF Replayed
  <2>3. retry \in {"change", "recommit"}
    BY <1>1, <2>1 DEF Sound
  <2> QED
    BY <1>1, <1>5, <2>1, <2>2, <2>3 DEF Fits
<1>11. CASE ChangeFails \/ ChangeLost \/ GrowFails \/ CommitLeft \/ CommitFails
  BY <1>0, <1>11 DEF ChangeFails, ChangeLost, GrowFails, CommitLeft, CommitFails
<1>12. CASE Fresh
  BY <1>1, <1>12 DEF Fresh, WriterAt, Sound
<1>13. CASE Commit
  BY <1>13 DEF Commit, Closed, Fits
<1>14. CASE \/ \E r \in Readers : Construct(r) \/ Call(r) \/ ReaderNext(r)
            \/ UNCHANGED vars
  <2>1. UNCHANGED <<db, env, transaction_log, todo, retry, wpc, txn>>
    BY <1>14 DEF Construct, Call, ReaderNext, Constructed, Read, Return, writerVars, vars
  <2> QED
    BY <1>1, <1>5, <2>1 DEF Fits
<1> QED
  BY <1>6, <1>7, <1>8, <1>9, <1>10, <1>11, <1>12, <1>13, <1>14 DEF Next, WriterNext

\* An error is a failure of LMDB, when the map grows with the file.
LEMMA ErrorKept ==
    ASSUME RoomInv, [Next]_vars, ~CreatedHere
    PROVE  RoomAfterGrowth'
<1> USE DEF dataVars, envVars, lockVars, batchVars
<1>1. Flow /\ DataTypes /\ RoomAfterGrowth /\ (~has_error => Sound /\ Fits)
  BY DEF RoomInv, BatchInv
<1>2. ASSUME UNCHANGED <<has_error, failed>> PROVE RoomAfterGrowth'
  BY <1>1, <1>2 DEF RoomAfterGrowth
<1>3. CASE Replay
  <2>1. wpc = "replay" /\ has_error' = (has_error \/ Replayed.bad)
    BY <1>3 DEF Replay, WriterAt
  <2>2. ~has_error
    BY <1>1, <2>1 DEF Flow
  <2>3. Needed(Dirty(transaction_log)) <= env
    BY <1>1, <2>1, <2>2 DEF Fits
  <2>4. Needed(Dirty(transaction_log)) \in Nat /\ env \in Nat
    BY <1>1, NeededType, DirtyType DEF RoomInv, Sizes, DataTypes
  <2>5. ~(Needed(Dirty(transaction_log)) > env)
    BY <2>3, <2>4
  <2>6. Replayed.bad = (Needed(Dirty(transaction_log)) > env)
    BY DEF Replayed
  <2> QED
    BY <2>1, <2>2, <2>5, <2>6 DEF RoomAfterGrowth
<1>4. CASE CommitFails
  <2>1. CASE failed' = TRUE
    BY <2>1 DEF RoomAfterGrowth
  <2>2. CASE wpc = "recommit" /\ (txn.bad \/ ~CommitFits) /\ UNCHANGED failed
    <3>1. ASSUME ~has_error PROVE FALSE
      <4>1. ~txn.bad /\ txn.dirty = Dirty(transaction_log)
            /\ Needed(Dirty(transaction_log) + 1) <= env
        BY <1>1, <2>2, <3>1 DEF Sound, Fits
      <4> QED
        BY <2>2, <4>1 DEF CommitFits
    <3> QED
      BY <1>1, <2>2, <3>1 DEF RoomAfterGrowth
  <2> QED
    BY <1>4, <2>1, <2>2 DEF CommitFails
<1>5. CASE ChangeFails \/ GrowFails
  BY <1>5 DEF ChangeFails, GrowFails, RoomAfterGrowth
<1>6. CASE \/ Take \/ Start \/ ChangeDone \/ ChangeFull \/ ChangeLost \/ Fresh \/ Grow
           \/ Commit \/ CommitFull \/ CommitLeft
  BY <1>2, <1>6 DEF Take, Start, ChangeDone, ChangeFull, ChangeLost, Fresh, Grow, Commit,
     CommitFull, CommitLeft
<1>7. CASE \/ \E r \in Readers : Construct(r) \/ Call(r) \/ ReaderNext(r)
           \/ UNCHANGED vars
  BY <1>2, <1>7 DEF Construct, Call, ReaderNext, Constructed, Read, Return, writerVars, vars
<1> QED
  BY <1>3, <1>4, <1>5, <1>6, <1>7 DEF Next, WriterNext

\* What a fresh process has.
LEMMA RoomInit ==
    ASSUME Init
    PROVE  RoomInv
<1> USE DEF Init
<1>1. BatchInv
  BY InitInv
<1>2. /\ db \in Map /\ Cardinality(Stored(db)) \in Nat /\ pages = Cardinality(Stored(db)) + 1
      /\ c_initial_map_size \in Nat \ {0} /\ c_initial_map_size = 1
  BY StoredType DEF c_initial_map_size
<1>3. pages \in Nat
  BY <1>2
<1>4. /\ MapFor(c_initial_map_size) \in Nat /\ pages <= MapFor(c_initial_map_size)
      /\ c_initial_map_size <= MapFor(c_initial_map_size)
      /\ \A i \in 0..pages : pages <= c_initial_map_size * 2^i =>
            MapFor(c_initial_map_size) <= c_initial_map_size * 2^i
      /\ \E i \in 0..pages : MapFor(c_initial_map_size) = c_initial_map_size * 2^i
  BY <1>2, <1>3, MapForIs
<1>5. env = MapFor(c_initial_map_size) /\ env \in Nat
  BY <1>4
<1>6. ASSUME NEW i \in Nat, pages <= 2^i PROVE env <= 2^i
  <2>1. 2^i \in Nat
    BY PowerIs
  <2>2. CASE i \in 0..pages
    BY <1>2, <1>4, <1>5, <1>6, <2>1, <2>2
  <2>3. CASE i \notin 0..pages
    <3>1. pages \in 0..pages /\ pages < i
      BY <1>3, <2>3
    <3>2. 2^pages \in Nat /\ pages + 1 <= 2^pages
      BY <1>3, PowerIs
    <3>3. env <= 2^pages
      BY <1>2, <1>3, <1>4, <1>5, <3>1, <3>2
    <3>4. 2^pages <= 2^i
      <4>1. SUBSET (1..pages) \in SUBSET (SUBSET (1..i))
        BY <1>3, <3>1
      <4>2. /\ IsFiniteSet(SUBSET (1..i)) /\ Cardinality(SUBSET (1..i)) = 2^i
            /\ Cardinality(SUBSET (1..pages)) = 2^pages
        BY <1>3, PowerIs
      <4> QED
        BY <4>1, <4>2, FS_Subset
    <3> QED
      BY <1>5, <2>1, <3>2, <3>3, <3>4
  <2> QED
    BY <2>2, <2>3
<1>7. Sizes
  <2>1. map_size \in Nat \ {0} /\ (map_size # env => CreatedHere /\ map_size = c_initial_map_size)
    BY <1>2, <1>4, <1>5
  <2> QED
    BY <1>2, <1>3, <1>4, <1>5, <1>6, <2>1 DEF Sizes
<1>8. Flow
  <2>1. txn.dirty <= env
    BY <1>5 DEF NoTxn
  <2> QED
    BY <2>1 DEF Flow
<1>9. Fits /\ RoomAfterGrowth
  BY DEF Fits, RoomAfterGrowth
<1> QED
  BY <1>1, <1>7, <1>8, <1>9 DEF RoomInv

(***************************************************************************)
(* The map always holds the file, and while no error has occurred the log  *)
(* and the transaction fit into it: LMDBFileIndex.cpp doubles the map      *)
(* before it repeats either.                                               *)
(***************************************************************************)
THEOREM RoomInductive == Spec => []RoomInv
<1>1. ASSUME RoomInv, [Next]_vars PROVE RoomInv'
  <2>1. BatchInv'
    BY <1>1, TypesKept, SoundKept DEF BatchInv, RoomInv
  <2>2. Sizes' /\ Flow' /\ (~has_error' => Fits') /\ (~CreatedHere => RoomAfterGrowth')
    BY <1>1, SizesKept, FlowKept, FitsKept, ErrorKept
  <2> QED
    BY <2>1, <2>2 DEF RoomInv
<1>2. Init => RoomInv
  BY RoomInit
<1> QED
  BY <1>1, <1>2, PTL DEF Spec

\* Every variable of the writer and of the readers has its type, however the map was opened.
THEOREM TypeCorrect == Spec => []TypeOK
<1>1. ASSUME RoomInv PROVE TypeOK
  <2>1. DataTypes /\ Flow /\ Sizes
    BY <1>1 DEF RoomInv, BatchInv
  <2>2. txn.open \in BOOLEAN /\ txn.bad \in BOOLEAN /\ txn.map \in Map /\ txn.dirty \in 0..env
    BY <2>1 DEF DataTypes, Txns, Flow, Sizes
  <2> QED
    BY <2>1, <2>2 DEF TypeOK, DataTypes, Flow, Sizes
<1> QED
  BY <1>1, RoomInductive, PTL

(***************************************************************************)
(* Lack of room in the map alone never leads to the error state            *)
(* (RoomAfterGrowth), for a writer that opened the environment itself.     *)
(* (One that found it open is the case the run created shows: it takes the *)
(* map to be smaller than it is, and growing it leaves it as it was.)      *)
(***************************************************************************)
THEOREM GrowthMakesRoom == Spec => [](~CreatedHere => RoomAfterGrowth)
<1>1. RoomInv => (~CreatedHere => RoomAfterGrowth)
  BY DEF RoomInv
<1> QED
  BY <1>1, RoomInductive, PTL
===============================================================================
