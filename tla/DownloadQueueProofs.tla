------------------------- MODULE DownloadQueueProofs -------------------------
(***************************************************************************)
(* The queue of the download thread and the requests made ahead of it stay *)
(* in step, for every file list, every length of the queue, all limits and *)
(* any number of lost connections.                                         *)
(*                                                                         *)
(* First what the operations on dl_queue do, for a queue of any length:    *)
(* where each item goes (Became, Moved), and from that what is left of the *)
(* order of the requests and of the ends of snapshots (QueueOK).  Then the *)
(* inductive invariant Inv, one lemma for each action of DownloadQueue     *)
(* (...Keeps), and the properties of the module as theorems.               *)
(*                                                                         *)
(* Which items were asked for is told by a list of their places in the     *)
(* queue (Enumerates, FullsAsked, DiffsAsked): it grows at its end with    *)
(* every request and loses its first place when that item is taken.        *)
(* ItemsListed ties it to ItemsAt, by which InStep is stated.              *)
(***************************************************************************)
EXTENDS DownloadQueue, FiniteSetTheorems, WellFoundedInduction, TLAPS

-------------------------------------------------------------------------------
(***************************************************************************)
(* Sets of places in their order.                                          *)
(***************************************************************************)

\* f lists the places of P, n of them, from the first to the last.
Enumerates(f, n, P) ==
    /\ f \in [1..n -> P]
    /\ \A k, l \in 1..n : k < l => f[k] < f[l]
    /\ \A i \in P : \E k \in 1..n : f[k] = i

\* nothing is listed only when there is nothing
LEMMA EnumeratesNone ==
    ASSUME NEW P, NEW n \in Nat, NEW f, Enumerates(f, n, P)
    PROVE  n = 0 <=> P = {}
<1>1. n # 0 => 1 \in 1..n
  OBVIOUS
<1> QED
  BY <1>1 DEF Enumerates

\* a place behind all others is listed last
LEMMA EnumeratesNext ==
    ASSUME NEW P \in SUBSET Nat, NEW n \in Nat, NEW f, Enumerates(f, n, P),
           NEW x \in Nat, \A i \in P : i < x
    PROVE  Enumerates([k \in 1..(n + 1) |-> IF k = n + 1 THEN x ELSE f[k]], n + 1, P \cup {x})
<1> DEFINE g == [k \in 1..(n + 1) |-> IF k = n + 1 THEN x ELSE f[k]]
<1>1. g \in [1..(n + 1) -> P \cup {x}]
  BY DEF Enumerates
<1>2. \A k, l \in 1..(n + 1) : k < l => g[k] < g[l]
  <2> SUFFICES ASSUME NEW k \in 1..(n + 1), NEW l \in 1..(n + 1), k < l
               PROVE  g[k] < g[l]
    OBVIOUS
  <2>1. k \in 1..n /\ g[k] = f[k] /\ f[k] \in P
    BY DEF Enumerates
  <2>2. CASE l = n + 1
    BY <2>1, <2>2
  <2>3. CASE l # n + 1
    BY <2>1, <2>3 DEF Enumerates
  <2> QED BY <2>2, <2>3
<1>3. \A i \in P \cup {x} : \E k \in 1..(n + 1) : g[k] = i
  <2> SUFFICES ASSUME NEW i \in P \cup {x}
               PROVE  \E k \in 1..(n + 1) : g[k] = i
    OBVIOUS
  <2>1. CASE i = x
    <3>1. n + 1 \in 1..(n + 1) /\ g[n + 1] = x
      OBVIOUS
    <3> QED BY <2>1, <3>1
  <2>2. CASE i # x
    <3>1. PICK k \in 1..n : f[k] = i
      BY <2>2 DEF Enumerates
    <3>2. k \in 1..(n + 1) /\ g[k] = i
      BY <3>1
    <3> QED BY <3>2
  <2> QED BY <2>1, <2>2
<1> QED
  BY <1>1, <1>2, <1>3 DEF Enumerates

\* the first of the places is listed first; the list without it
LEMMA EnumeratesFirst ==
    ASSUME NEW P \in SUBSET Nat, NEW n \in Nat, NEW f, Enumerates(f, n, P),
           NEW x \in P, \A i \in P : x <= i
    PROVE  /\ n > 0 /\ f[1] = x
           /\ Enumerates([k \in 1..(n - 1) |-> f[k + 1]], n - 1, P \ {x})
<1> DEFINE g == [k \in 1..(n - 1) |-> f[k + 1]]
<1>1. PICK m \in 1..n : f[m] = x
  BY DEF Enumerates
<1>2. 1 \in 1..n /\ f[1] \in P /\ (1 < m => f[1] < f[m])
  BY DEF Enumerates
<1>3. n > 0 /\ f[1] = x
  <2>1. f[1] \in Nat /\ x \in Nat /\ x <= f[1] /\ (1 < m => f[1] < x)
    BY <1>1, <1>2
  <2> QED BY <1>1, <2>1
<1>4. \A k \in 1..(n - 1) : k + 1 \in 1..n /\ 1 < k + 1 /\ f[1] < f[k + 1] /\ f[k + 1] \in P
  BY <1>2 DEF Enumerates
<1>5. g \in [1..(n - 1) -> P \ {x}]
  BY <1>3, <1>4
<1>6. \A k, l \in 1..(n - 1) : k < l => g[k] < g[l]
  BY <1>4 DEF Enumerates
<1>7. \A i \in P \ {x} : \E k \in 1..(n - 1) : g[k] = i
  <2> SUFFICES ASSUME NEW i \in P \ {x}
               PROVE  \E k \in 1..(n - 1) : g[k] = i
    OBVIOUS
  <2>1. PICK k \in 1..n : f[k] = i
    BY DEF Enumerates
  <2>2. k # 1
    BY <1>3, <2>1
  <2>3. k - 1 \in 1..(n - 1) /\ g[k - 1] = i
    BY <2>1, <2>2
  <2> QED BY <2>3
<1> QED
  BY <1>3, <1>5, <1>6, <1>7 DEF Enumerates

\* places that move and keep their order
LEMMA EnumeratesMoved ==
    ASSUME NEW P \in SUBSET Nat, NEW n \in Nat, NEW f, Enumerates(f, n, P),
           NEW R \in SUBSET Nat, NEW g, \A i \in P : g[i] \in R,
           \A i, j \in P : i < j => g[i] < g[j],
           \A k \in R : \E i \in P : k = g[i]
    PROVE  Enumerates([k \in 1..n |-> g[f[k]]], n, R)
<1> DEFINE h == [k \in 1..n |-> g[f[k]]]
<1>1. \A k \in 1..n : f[k] \in P
  BY DEF Enumerates
<1>2. h \in [1..n -> R]
  BY <1>1
<1>3. \A k, l \in 1..n : k < l => h[k] < h[l]
  BY <1>1 DEF Enumerates
<1>4. \A i \in R : \E k \in 1..n : h[k] = i
  BY DEF Enumerates
<1> QED
  BY <1>2, <1>3, <1>4 DEF Enumerates

\* As many places as there are, each listed at its rank.
LEMMA Ranks ==
    ASSUME NEW P \in SUBSET Nat, NEW n \in Nat, NEW f, Enumerates(f, n, P)
    PROVE  /\ IsFiniteSet(P) /\ Cardinality(P) = n
           /\ \A k \in 1..n : Cardinality({h \in P : h <= f[k]}) = k
<1>1. /\ \A k \in 1..n : f[k] \in P /\ f[k] \in Nat
      /\ \A k, l \in 1..n : k < l => f[k] < f[l]
      /\ \A i \in P : \E k \in 1..n : f[k] = i
  BY DEF Enumerates
<1>2. ASSUME NEW k \in 1..n
      PROVE  Cardinality({h \in P : h <= f[k]}) = k
  <2> DEFINE U == {h \in P : h <= f[k]}
             g == [j \in 1..k |-> f[j]]
  <2>1. \A j \in 1..k : j \in 1..n /\ j <= k
    OBVIOUS
  <2>2. ASSUME NEW j \in 1..k
        PROVE  f[j] \in U
    <3>1. j \in 1..n /\ (j = k \/ j < k)
      OBVIOUS
    <3>2. f[j] \in P /\ f[j] \in Nat /\ f[k] \in Nat /\ (j = k \/ f[j] < f[k])
      BY <1>1, <3>1
    <3> QED BY <3>2
  <2>3. g \in [1..k -> U]
    BY <2>2
  <2>4. ASSUME NEW i \in 1..k, NEW j \in 1..k, i < j
        PROVE  f[i] # f[j]
    <3>1. f[i] < f[j] /\ f[i] \in Nat /\ f[j] \in Nat
      BY <1>1, <2>1, <2>4
    <3> QED BY <3>1
  <2>5. \A i, j \in 1..k : g[i] = g[j] => i = j
    <3> SUFFICES ASSUME NEW i \in 1..k, NEW j \in 1..k, i # j
                 PROVE  f[i] # f[j]
      OBVIOUS
    <3>1. i < j \/ j < i
      OBVIOUS
    <3> QED BY <2>4, <3>1
  <2>6. ASSUME NEW h \in U
        PROVE  \E j \in 1..k : g[j] = h
    <3>1. PICK j \in 1..n : f[j] = h
      BY <1>1
    <3>2. f[k] \in Nat /\ f[j] \in Nat /\ f[j] <= f[k] /\ (k < j => f[k] < f[j])
      BY <1>1, <3>1
    <3>3. j \in 1..k /\ g[j] = h
      BY <3>1, <3>2
    <3> QED BY <3>3
  <2> HIDE DEF g, U
  <2>7. g \in Bijection(1..k, U)
    BY <2>3, <2>5, <2>6 DEF Bijection, Injection, Surjection, IsInjective
  <2>8. ExistsBijection(1..k, U)
    BY <2>7 DEF ExistsBijection
  <2>9. IsFiniteSet(1..k) /\ Cardinality(1..k) = k
    BY FS_Interval
  <2> QED BY <2>8, <2>9, FS_Bijection DEF U
<1>3. IsFiniteSet(P) /\ Cardinality(P) = n
  <2>1. \A k, l \in 1..n : f[k] = f[l] => k = l
    <3> SUFFICES ASSUME NEW k \in 1..n, NEW l \in 1..n, k < l
                 PROVE  f[k] # f[l]
      OBVIOUS
    <3>1. f[k] < f[l] /\ f[k] \in Nat /\ f[l] \in Nat
      BY <1>1 DEF Enumerates
    <3> QED BY <3>1
  <2>2. f \in Bijection(1..n, P)
    BY <2>1 DEF Bijection, Injection, Surjection, IsInjective, Enumerates
  <2>3. ExistsBijection(1..n, P)
    BY <2>2 DEF ExistsBijection
  <2>4. IsFiniteSet(1..n) /\ Cardinality(1..n) = n
    BY FS_Interval
  <2> QED BY <2>3, <2>4, FS_Bijection
<1> QED
  BY <1>2, <1>3

\* the items at these places, by any list of them
LEMMA ItemsListed ==
    ASSUME NEW q, NEW P \in SUBSET Nat, NEW n \in Nat, NEW f, Enumerates(f, n, P)
    PROVE  ItemsAt(q, P) = [k \in 1..n |-> q[f[k]]]
<1>1. Cardinality(P) = n /\ \A k \in 1..n : Cardinality({h \in P : h <= f[k]}) = k
  BY Ranks
<1>2. ASSUME NEW k \in 1..n
      PROVE  (CHOOSE i \in P : Cardinality({h \in P : h <= i}) = k) = f[k]
  <2>1. f[k] \in P /\ Cardinality({h \in P : h <= f[k]}) = k
    BY <1>1 DEF Enumerates
  <2>2. ASSUME NEW i \in P, Cardinality({h \in P : h <= i}) = k
        PROVE  i = f[k]
    <3>1. PICK l \in 1..n : f[l] = i
      BY DEF Enumerates
    <3>2. Cardinality({h \in P : h <= f[l]}) = l
      BY <1>1
    <3> QED BY <2>2, <3>1, <3>2
  <2> QED BY <2>1, <2>2
<1>3. ItemsAt(q, P) = [k \in 1..n |-> q[CHOOSE i \in P : Cardinality({h \in P : h <= i}) = k]]
  BY <1>1 DEF ItemsAt
<1> QED
  BY <1>2, <1>3

\* There is a list of the places of any part of the queue.
LEMMA Enumerable ==
    ASSUME NEW m \in Nat, NEW P \in SUBSET (1..m)
    PROVE  \E n \in Nat : \E f : Enumerates(f, n, P)
<1> DEFINE Countable(S) == \E n \in Nat : \E f : Enumerates(f, n, S)
           Bad == {b \in Nat : \E S \in SUBSET (1..b) : ~Countable(S)}
<1> SUFFICES ASSUME Bad # {}
             PROVE  FALSE
  <2>1. m \notin Bad => Countable(P)
    OBVIOUS
  <2> QED BY <2>1
<1>1. PICK b \in Bad : \A c \in Bad : ~(c < b)
  <2>1. OpToRel(<, Nat) = {ss \in Nat \X Nat : ss[1] < ss[2]}
    BY DEF OpToRel
  <2>2. Bad \subseteq Nat
    OBVIOUS
  <2> HIDE DEF Bad
  <2>3. PICK x \in Bad : \A y \in Bad : ~(<<y, x>> \in {ss \in Nat \X Nat : ss[1] < ss[2]})
    BY <2>1, <2>2, NatLessThanWellFounded, WFMin, ZenonT(30)
  <2>4. \A y \in Bad : ~(y < x)
    BY <2>2, <2>3
  <2> QED BY <2>4
<1>2. PICK S \in SUBSET (1..b) : ~Countable(S)
  OBVIOUS
<1>3. CASE b = 0
  <2>1. S = {}
    BY <1>3
  <2>2. Enumerates(<<>>, 0, S)
    BY <2>1 DEF Enumerates
  <2> QED BY <1>2, <2>2
<1>4. CASE b # 0 /\ b \notin S
  <2>1. b - 1 \in Nat /\ S \in SUBSET (1..(b - 1))
    BY <1>4
  <2> QED BY <1>1, <1>2, <2>1
<1>5. CASE b # 0 /\ b \in S
  <2>1. b - 1 \in Nat /\ S \ {b} \in SUBSET (1..(b - 1)) /\ b - 1 < b
    BY <1>5
  <2>2. Countable(S \ {b})
    BY <1>1, <2>1
  <2>3. PICK n \in Nat : \E f : Enumerates(f, n, S \ {b})
    BY <2>2
  <2>4. PICK f : Enumerates(f, n, S \ {b})
    BY <2>3
  <2>5. \A i \in S \ {b} : i < b
    BY <2>1
  <2> DEFINE g == [k \in 1..(n + 1) |-> IF k = n + 1 THEN b ELSE f[k]]
  <2>6. Enumerates(g, n + 1, (S \ {b}) \cup {b})
    BY <2>1, <2>4, <2>5, EnumeratesNext
  <2> HIDE DEF g, Countable
  <2>7. (S \ {b}) \cup {b} = S
    BY <1>5
  <2>8. Enumerates(g, n + 1, S)
    BY <2>6, <2>7
  <2>9. Countable(S)
    <3>1. \E h : Enumerates(h, n + 1, S)
      BY <2>8
    <3>2. n + 1 \in Nat
      OBVIOUS
    <3> QED BY <3>1, <3>2 DEF Countable
  <2> QED BY <1>2, <2>9
<1> QED
  BY <1>3, <1>4, <1>5

-------------------------------------------------------------------------------
(***************************************************************************)
(* Items and queues.                                                       *)
(***************************************************************************)

\* what an item is (an item that is not in the queue may also be "none", no item at all)
Items == [action : {"file", "start", "stop", "quit", "skip", "none"}, id : Nat, full : BOOLEAN,
          meta : BOOLEAN, script : BOOLEAN, script_end : BOOLEAN, queued : BOOLEAN,
          switched : BOOLEAN, prepared : {"no", "yes", "error"}]

\* the whole files in a queue
Fulls(q) == {j \in 1..Len(q) : IsFull(q[j])}
\* the whole files that were asked for
Requested(q) == {j \in Fulls(q) : q[j].queued}
\* the differences in a queue
Diffs(q) == {j \in 1..Len(q) : IsDiff(q[j])}
\* the differences that were asked for
AskedDiffs(q) == {j \in Diffs(q) : q[j].queued}

\* No whole file that was not asked for comes before one that was.
FullsInOrder(q) == \A i \in Fulls(q), j \in Requested(q) : i < j => i \in Requested(q)

\* The same of differences, except for those that could not be prepared.
DiffsInOrder(q) ==
    \A i \in Diffs(q), j \in AskedDiffs(q) :
        i < j => i \in AskedDiffs(q) \/ q[i].prepared = "error"

\* Only a prepared difference is asked for.
DiffsReady(q) == \A j \in AskedDiffs(q) : q[j].prepared = "yes"

\* The whole files asked for are s, in this order.
FullsAsked(q, s) ==
    \E f : /\ Enumerates(f, Len(s), Requested(q))
           /\ \A k \in 1..Len(s) : s[k] = Request(q[f[k]])
\* The differences asked for are t, in this order.
DiffsAsked(q, t) ==
    \E f : /\ Enumerates(f, Len(t), AskedDiffs(q))
           /\ \A k \in 1..Len(t) : t[k] = q[f[k]].id

\* the same file, start, end, mark
SameItem(a, b) ==
    /\ a.action = b.action /\ a.id = b.id /\ a.meta = b.meta
    /\ a.script = b.script /\ a.script_end = b.script_end

\* How the queue q became r: the items at the places of D went to the places given by g, in
\* their order except for barriers, which may have come later; those at the places of N are new.
Became(q, r, D, g, N) ==
    /\ D \subseteq 1..Len(q) /\ N \subseteq 1..Len(r)
    /\ \A i \in D : g[i] \in 1..Len(r) /\ g[i] \notin N /\ SameItem(q[i], r[g[i]])
    /\ \A i, j \in D : (i # j => g[i] # g[j]) /\ (i < j /\ ~IsBarrier(q[i]) => g[i] < g[j])
    /\ \A k \in 1..Len(r) : k \in N \/ \E i \in D : k = g[i]

\* ... and nothing about whole files changed on the way
FullsKept(q, r, D, g) ==
    \A i \in D : /\ IsFull(q[i]) <=> IsFull(r[g[i]])
                 /\ IsFull(q[i]) => q[i].queued = r[g[i]].queued
\* ... nor about differences, but that one nobody has asked for may have been prepared
DiffsKept(q, r, D, g) ==
    \A i \in D :
        /\ IsDiff(q[i]) <=> IsDiff(r[g[i]])
        /\ IsDiff(q[i]) =>
              /\ q[i].queued = r[g[i]].queued
              /\ \/ r[g[i]].prepared = q[i].prepared
                 \/ ~q[i].queued /\ q[i].prepared # "error"

\* a whole file that is new has not been asked for and comes after all that were
FullsLast(q, r, D, g, N) ==
    \A n \in N : IsFull(r[n]) =>
        ~r[n].queued /\ \A i \in Requested(q) : g[i] < n
\* the same of differences
DiffsLast(q, r, D, g, N) ==
    \A n \in N : IsDiff(r[n]) =>
        ~r[n].queued /\ \A i \in AskedDiffs(q) : g[i] < n

\* what stays of the order of whole files
LEMMA FullsStay ==
    ASSUME NEW q \in Seq(Items), NEW r \in Seq(Items), NEW D, NEW g, NEW N,
           Became(q, r, D, g, N), FullsKept(q, r, D, g), FullsLast(q, r, D, g, N),
           Requested(q) \subseteq D
    PROVE  /\ FullsInOrder(q) => FullsInOrder(r)
           /\ \A k \in Requested(r) : \E i \in Requested(q) : k = g[i]
           /\ \A i \in Requested(q) : g[i] \in Requested(r)
           /\ \A i, j \in Requested(q) : i < j => g[i] < g[j]
<1>1. \A k \in Requested(r) : \E i \in Requested(q) : k = g[i]
  <2> SUFFICES ASSUME NEW k \in Requested(r)
               PROVE  \E i \in Requested(q) : k = g[i]
    OBVIOUS
  <2>1. k \notin N
    BY DEF FullsLast, Requested, Fulls
  <2>2. PICK i \in D : k = g[i]
    BY <2>1 DEF Became, Requested, Fulls
  <2>3. i \in Requested(q)
    BY <2>2 DEF Became, FullsKept, Requested, Fulls
  <2> QED BY <2>2, <2>3
<1>2. \A i \in Requested(q) : g[i] \in Requested(r)
  BY DEF Became, FullsKept, Requested, Fulls
<1>3. \A i \in Fulls(q) : ~IsBarrier(q[i])
  BY DEF Fulls, IsFull, IsBarrier
<1>4. \A i, j \in Requested(q) : i < j => g[i] < g[j]
  BY <1>3 DEF Became, Requested
<1>5. ASSUME FullsInOrder(q), NEW a \in Fulls(r), NEW b \in Requested(r), a < b
      PROVE  a \in Requested(r)
  <2>1. PICK j \in Requested(q) : b = g[j]
    BY <1>1
  <2>2. a \notin N
    BY <1>5, <2>1 DEF FullsLast, Fulls, Became, Requested
  <2>3. PICK i \in D : a = g[i]
    BY <2>2 DEF Became, Fulls
  <2>4. i \in Fulls(q)
    BY <2>3 DEF Became, FullsKept, Fulls
  <2>5. i \in Nat /\ j \in Nat /\ j \in D /\ a \in Nat /\ b \in Nat /\ ~IsBarrier(q[j])
    BY <1>3, <2>1, <2>4 DEF Fulls, Requested
  <2>6. i < j
    BY <1>5, <2>1, <2>3, <2>5 DEF Became
  <2>7. i \in Requested(q)
    BY <1>5, <2>4, <2>6, <2>1 DEF FullsInOrder
  <2> QED BY <1>2, <2>3, <2>7
<1> QED
  BY <1>1, <1>2, <1>4, <1>5 DEF FullsInOrder

\* what stays of the order of differences
LEMMA DiffsStay ==
    ASSUME NEW q \in Seq(Items), NEW r \in Seq(Items), NEW D, NEW g, NEW N,
           Became(q, r, D, g, N), DiffsKept(q, r, D, g), DiffsLast(q, r, D, g, N),
           AskedDiffs(q) \subseteq D
    PROVE  /\ DiffsInOrder(q) => DiffsInOrder(r)
           /\ DiffsReady(q) => DiffsReady(r)
           /\ \A k \in AskedDiffs(r) : \E i \in AskedDiffs(q) : k = g[i]
           /\ \A i \in AskedDiffs(q) : g[i] \in AskedDiffs(r)
           /\ \A i, j \in AskedDiffs(q) : i < j => g[i] < g[j]
<1>1. \A k \in AskedDiffs(r) : \E i \in AskedDiffs(q) : k = g[i]
  <2> SUFFICES ASSUME NEW k \in AskedDiffs(r)
               PROVE  \E i \in AskedDiffs(q) : k = g[i]
    OBVIOUS
  <2>1. k \notin N
    BY DEF DiffsLast, AskedDiffs, Diffs
  <2>2. PICK i \in D : k = g[i]
    BY <2>1 DEF Became, AskedDiffs, Diffs
  <2>3. i \in AskedDiffs(q)
    BY <2>2 DEF Became, DiffsKept, AskedDiffs, Diffs
  <2> QED BY <2>2, <2>3
<1>2. \A i \in AskedDiffs(q) : g[i] \in AskedDiffs(r)
  BY DEF Became, DiffsKept, AskedDiffs, Diffs
<1>3. \A i \in Diffs(q) : ~IsBarrier(q[i])
  BY DEF Diffs, IsDiff, IsBarrier
<1>4. \A i, j \in AskedDiffs(q) : i < j => g[i] < g[j]
  BY <1>3 DEF Became, AskedDiffs
<1>5. ASSUME DiffsInOrder(q), NEW a \in Diffs(r), NEW b \in AskedDiffs(r), a < b
      PROVE  a \in AskedDiffs(r) \/ r[a].prepared = "error"
  <2>1. PICK j \in AskedDiffs(q) : b = g[j]
    BY <1>1
  <2>2. a \notin N
    BY <1>5, <2>1 DEF DiffsLast, Diffs, Became, AskedDiffs
  <2>3. PICK i \in D : a = g[i]
    BY <2>2 DEF Became, Diffs
  <2>4. i \in Diffs(q)
    BY <2>3 DEF Became, DiffsKept, Diffs
  <2>5. i \in Nat /\ j \in Nat /\ j \in D /\ a \in Nat /\ b \in Nat /\ ~IsBarrier(q[j])
    BY <1>3, <2>1, <2>4 DEF Diffs, AskedDiffs
  <2>6. i < j
    BY <1>5, <2>1, <2>3, <2>5 DEF Became
  <2>7. i \in AskedDiffs(q) \/ q[i].prepared = "error"
    BY <1>5, <2>4, <2>6, <2>1 DEF DiffsInOrder
  <2>8. CASE i \in AskedDiffs(q)
    BY <1>2, <2>3, <2>8
  <2>9. CASE q[i].prepared = "error"
    BY <2>3, <2>4, <2>9 DEF DiffsKept, Diffs
  <2> QED BY <2>7, <2>8, <2>9
<1>6. ASSUME DiffsReady(q), NEW b \in AskedDiffs(r)
      PROVE  r[b].prepared = "yes"
  <2>1. PICK j \in AskedDiffs(q) : b = g[j]
    BY <1>1
  <2> QED BY <1>6, <2>1 DEF DiffsReady, DiffsKept, AskedDiffs, Diffs
<1> QED
  BY <1>1, <1>2, <1>4, <1>5, <1>6 DEF DiffsInOrder, DiffsReady

\* what was asked for is still asked for, in the same order
LEMMA FullsAskedStay ==
    ASSUME NEW q \in Seq(Items), NEW r \in Seq(Items), NEW D, NEW g, NEW N,
           Became(q, r, D, g, N), FullsKept(q, r, D, g), FullsLast(q, r, D, g, N),
           Requested(q) \subseteq D, NEW S, NEW s \in Seq(S), FullsAsked(q, s)
    PROVE  FullsAsked(r, s)
<1>1. PICK f : /\ Enumerates(f, Len(s), Requested(q))
               /\ \A k \in 1..Len(s) : s[k] = Request(q[f[k]])
  BY DEF FullsAsked
<1>2. /\ \A k \in Requested(r) : \E i \in Requested(q) : k = g[i]
      /\ \A i \in Requested(q) : g[i] \in Requested(r)
      /\ \A i, j \in Requested(q) : i < j => g[i] < g[j]
  BY FullsStay
<1> DEFINE h == [k \in 1..Len(s) |-> g[f[k]]]
<1>3. Requested(q) \in SUBSET Nat /\ Requested(r) \in SUBSET Nat /\ Len(s) \in Nat
  BY DEF Requested, Fulls
<1>4. Enumerates(h, Len(s), Requested(r))
  BY <1>1, <1>2, <1>3, EnumeratesMoved
<1>5. \A k \in 1..Len(s) : s[k] = Request(r[h[k]])
  <2> SUFFICES ASSUME NEW k \in 1..Len(s)
               PROVE  s[k] = Request(r[h[k]])
    OBVIOUS
  <2>1. f[k] \in Requested(q) /\ h[k] = g[f[k]]
    BY <1>1 DEF Enumerates
  <2>2. SameItem(q[f[k]], r[h[k]])
    BY <2>1 DEF Became
  <2> QED BY <1>1, <2>2 DEF SameItem, Request
<1> QED
  BY <1>4, <1>5 DEF FullsAsked

\* the same of differences
LEMMA DiffsAskedStay ==
    ASSUME NEW q \in Seq(Items), NEW r \in Seq(Items), NEW D, NEW g, NEW N,
           Became(q, r, D, g, N), DiffsKept(q, r, D, g), DiffsLast(q, r, D, g, N),
           AskedDiffs(q) \subseteq D, NEW S, NEW t \in Seq(S), DiffsAsked(q, t)
    PROVE  DiffsAsked(r, t)
<1>1. PICK f : /\ Enumerates(f, Len(t), AskedDiffs(q))
               /\ \A k \in 1..Len(t) : t[k] = q[f[k]].id
  BY DEF DiffsAsked
<1>2. /\ \A k \in AskedDiffs(r) : \E i \in AskedDiffs(q) : k = g[i]
      /\ \A i \in AskedDiffs(q) : g[i] \in AskedDiffs(r)
      /\ \A i, j \in AskedDiffs(q) : i < j => g[i] < g[j]
  BY DiffsStay
<1> DEFINE h == [k \in 1..Len(t) |-> g[f[k]]]
<1>3. AskedDiffs(q) \in SUBSET Nat /\ AskedDiffs(r) \in SUBSET Nat /\ Len(t) \in Nat
  BY DEF AskedDiffs, Diffs
<1>4. Enumerates(h, Len(t), AskedDiffs(r))
  BY <1>1, <1>2, <1>3, EnumeratesMoved
<1>5. \A k \in 1..Len(t) : t[k] = r[h[k]].id
  <2> SUFFICES ASSUME NEW k \in 1..Len(t)
               PROVE  t[k] = r[h[k]].id
    OBVIOUS
  <2>1. f[k] \in AskedDiffs(q) /\ h[k] = g[f[k]]
    BY <1>1 DEF Enumerates
  <2>2. SameItem(q[f[k]], r[h[k]])
    BY <2>1 DEF Became
  <2> QED BY <1>1, <2>2 DEF SameItem
<1> QED
  BY <1>4, <1>5 DEF DiffsAsked

-------------------------------------------------------------------------------
(***************************************************************************)
(* Where the operations on sequences leave the items.                      *)
(***************************************************************************)

\* nothing about an item changed on the way
Moved(q, r, D, g, N) ==
    /\ q \in Seq(Items) /\ r \in Seq(Items)
    /\ Became(q, r, D, g, N)
    /\ \A i \in D : r[g[i]] = q[i]

\* the items of two sequences in one
LEMMA Joined ==
    ASSUME NEW S, NEW a \in Seq(S), NEW b \in Seq(S)
    PROVE  /\ a \o b \in Seq(S) /\ Len(a \o b) = Len(a) + Len(b)
           /\ \A k \in 1..(Len(a) + Len(b)) :
                 (a \o b)[k] = IF k <= Len(a) THEN a[k] ELSE b[k - Len(a)]
OBVIOUS

\* an item put into the queue
LEMMA Inserted ==
    ASSUME NEW q \in Seq(Items), NEW p \in 1..(Len(q) + 1), NEW x \in Items
    PROVE  /\ Len(InsertAt(q, p, x)) = Len(q) + 1 /\ InsertAt(q, p, x)[p] = x
           /\ Moved(q, InsertAt(q, p, x), 1..Len(q),
                    [i \in 1..Len(q) |-> IF i < p THEN i ELSE i + 1], {p})
<1> DEFINE r == InsertAt(q, p, x)
           g == [i \in 1..Len(q) |-> IF i < p THEN i ELSE i + 1]
<1>1. /\ r \in Seq(Items) /\ Len(r) = Len(q) + 1
      /\ \A k \in 1..Len(r) : r[k] = IF k < p THEN q[k] ELSE IF k = p THEN x ELSE q[k - 1]
  <2>1. /\ SubSeq(q, 1, p - 1) \in Seq(Items) /\ Len(SubSeq(q, 1, p - 1)) = p - 1
        /\ \A k \in 1..(p - 1) : SubSeq(q, 1, p - 1)[k] = q[k]
    OBVIOUS
  <2>2. /\ SubSeq(q, p, Len(q)) \in Seq(Items) /\ Len(SubSeq(q, p, Len(q))) = Len(q) - p + 1
        /\ \A k \in 1..(Len(q) - p + 1) : SubSeq(q, p, Len(q))[k] = q[k + p - 1]
    OBVIOUS
  <2> DEFINE a == SubSeq(q, 1, p - 1)
             b == SubSeq(q, p, Len(q))
  <2>3. r = a \o <<x>> \o b
    BY DEF InsertAt
  <2> HIDE DEF a, b, r
  <2>4. a \in Seq(Items) /\ b \in Seq(Items) /\ <<x>> \in Seq(Items) /\ Len(<<x>>) = 1
    BY <2>1, <2>2 DEF a, b
  <2>5. /\ a \o <<x>> \in Seq(Items) /\ Len(a \o <<x>>) = p
        /\ \A k \in 1..p : (a \o <<x>>)[k] = IF k < p THEN q[k] ELSE x
    BY <2>1, <2>4, Joined DEF a
  <2>6. /\ r \in Seq(Items) /\ Len(r) = p + Len(b)
        /\ \A k \in 1..(p + Len(b)) : r[k] = IF k <= p THEN (a \o <<x>>)[k] ELSE b[k - p]
    <3> DEFINE c == a \o <<x>>
    <3>1. c \in Seq(Items) /\ Len(c) = p /\ r = c \o b
      BY <2>3, <2>5
    <3> HIDE DEF c
    <3>2. /\ c \o b \in Seq(Items) /\ Len(c \o b) = Len(c) + Len(b)
          /\ \A k \in 1..(Len(c) + Len(b)) :
                (c \o b)[k] = IF k <= Len(c) THEN c[k] ELSE b[k - Len(c)]
      BY <2>4, <3>1, Joined
    <3>3. /\ r \in Seq(Items) /\ Len(r) = p + Len(b)
          /\ \A k \in 1..(p + Len(b)) : r[k] = IF k <= p THEN c[k] ELSE b[k - p]
      BY <3>1, <3>2
    <3> QED BY <3>3 DEF c
  <2>7. Len(b) = Len(q) - p + 1 /\ \A k \in 1..(Len(q) - p + 1) : b[k] = q[k + p - 1]
    BY <2>2 DEF b
  <2>8. Len(r) = Len(q) + 1
    BY <2>6, <2>7
  <2>9. ASSUME NEW k \in 1..Len(r)
        PROVE  r[k] = IF k < p THEN q[k] ELSE IF k = p THEN x ELSE q[k - 1]
    <3>1. CASE k <= p
      BY <2>5, <2>6, <2>8, <3>1, SMTT(30)
    <3>2. CASE k > p
      <4>1. k - p \in 1..(Len(q) - p + 1) /\ r[k] = b[k - p] /\ (k - p) + p - 1 = k - 1
        BY <2>6, <2>8, <3>2
      <4> QED BY <2>7, <3>2, <4>1
    <3> QED BY <3>1, <3>2
  <2>10. r \in Seq(Items)
    BY <2>6
  <2> QED BY <2>8, <2>9, <2>10
<1> HIDE DEF r
<1>2. \A i \in 1..Len(q) : g[i] \in 1..Len(r) /\ g[i] # p /\ r[g[i]] = q[i]
  <2> SUFFICES ASSUME NEW i \in 1..Len(q)
               PROVE  g[i] \in 1..Len(r) /\ g[i] # p /\ r[g[i]] = q[i]
    OBVIOUS
  <2>1. CASE i < p
    <3>1. g[i] = i /\ i \in 1..Len(r)
      BY <1>1, <2>1
    <3> QED BY <1>1, <2>1, <3>1
  <2>2. CASE i >= p
    <3>1. g[i] = i + 1 /\ i + 1 \in 1..Len(r) /\ i + 1 > p /\ (i + 1) - 1 = i
      BY <1>1, <2>2
    <3>2. r[i + 1] = q[(i + 1) - 1]
      BY <1>1, <3>1
    <3> QED BY <3>1, <3>2
  <2> QED BY <2>1, <2>2
<1>3. \A i, j \in 1..Len(q) : i < j => g[i] < g[j]
  OBVIOUS
<1>4. \A k \in 1..Len(r) : k = p \/ \E i \in 1..Len(q) : k = g[i]
  <2> SUFFICES ASSUME NEW k \in 1..Len(r), k # p
               PROVE  \E i \in 1..Len(q) : k = g[i]
    OBVIOUS
  <2>1. CASE k < p
    <3>1. k \in 1..Len(q) /\ k = g[k]
      BY <1>1, <2>1
    <3> QED BY <3>1
  <2>2. CASE k > p
    <3>1. k - 1 \in 1..Len(q) /\ k = g[k - 1]
      BY <1>1, <2>2
    <3> QED BY <3>1
  <2> QED BY <2>1, <2>2
<1> HIDE DEF g
<1>5. r[p] = x /\ {p} \subseteq 1..Len(r)
  BY <1>1
<1>6. Became(q, r, 1..Len(q), g, {p})
  <2>1. \A i \in 1..Len(q) : g[i] \in 1..Len(r) /\ g[i] \notin {p} /\ SameItem(q[i], r[g[i]])
    BY <1>2 DEF SameItem
  <2>2. ASSUME NEW i \in 1..Len(q), NEW j \in 1..Len(q), i # j
        PROVE  g[i] # g[j]
    <3>1. i < j \/ j < i
      BY <2>2
    <3>2. g[i] \in Int /\ g[j] \in Int
      BY <1>2
    <3> QED BY <1>3, <3>1, <3>2
  <2>3. \A k \in 1..Len(r) : k \in {p} \/ \E i \in 1..Len(q) : k = g[i]
    BY <1>4
  <2> QED BY <1>3, <1>5, <2>1, <2>2, <2>3 DEF Became
<1> QED
  BY <1>1, <1>2, <1>5, <1>6 DEF Moved, r, g

\* an item put at the end
LEMMA Appended ==
    ASSUME NEW q \in Seq(Items), NEW x \in Items
    PROVE  /\ Len(Append(q, x)) = Len(q) + 1 /\ Append(q, x)[Len(q) + 1] = x
           /\ Moved(q, Append(q, x), 1..Len(q), [i \in 1..Len(q) |-> i], {Len(q) + 1})
<1> DEFINE r == Append(q, x)
           g == [i \in 1..Len(q) |-> i]
<1>1. /\ r \in Seq(Items) /\ Len(r) = Len(q) + 1 /\ r[Len(q) + 1] = x
      /\ \A k \in 1..Len(q) : r[k] = q[k]
  OBVIOUS
<1> HIDE DEF r
<1>2. \A i \in 1..Len(q) : g[i] \in 1..Len(r) /\ g[i] # Len(q) + 1 /\ r[g[i]] = q[i]
  BY <1>1
<1>3. \A i, j \in 1..Len(q) : i < j => g[i] < g[j]
  OBVIOUS
<1>4. \A k \in 1..Len(r) : k = Len(q) + 1 \/ \E i \in 1..Len(q) : k = g[i]
  BY <1>1
<1> HIDE DEF g
<1>5. {Len(q) + 1} \subseteq 1..Len(r)
  BY <1>1
<1>6. Became(q, r, 1..Len(q), g, {Len(q) + 1})
  BY <1>2, <1>3, <1>4, <1>5 DEF Became, SameItem
<1> QED
  BY <1>1, <1>2, <1>6 DEF Moved, r, g

\* an item put at the front
LEMMA Prepended ==
    ASSUME NEW q \in Seq(Items), NEW x \in Items
    PROVE  /\ Len(<<x>> \o q) = Len(q) + 1 /\ (<<x>> \o q)[1] = x
           /\ Moved(q, <<x>> \o q, 1..Len(q), [i \in 1..Len(q) |-> i + 1], {1})
<1> DEFINE r == <<x>> \o q
           g == [i \in 1..Len(q) |-> i + 1]
<1>1. /\ r \in Seq(Items) /\ Len(r) = Len(q) + 1 /\ r[1] = x
      /\ \A k \in 1..Len(q) : r[k + 1] = q[k]
  OBVIOUS
<1> HIDE DEF r
<1>2. \A i \in 1..Len(q) : g[i] \in 1..Len(r) /\ g[i] # 1 /\ r[g[i]] = q[i]
  BY <1>1
<1>3. \A i, j \in 1..Len(q) : i < j => g[i] < g[j]
  OBVIOUS
<1>4. \A k \in 1..Len(r) : k = 1 \/ \E i \in 1..Len(q) : k = g[i]
  <2> SUFFICES ASSUME NEW k \in 1..Len(r), k # 1
               PROVE  \E i \in 1..Len(q) : k = g[i]
    OBVIOUS
  <2>1. k - 1 \in 1..Len(q) /\ k = g[k - 1]
    BY <1>1
  <2> QED BY <2>1
<1> HIDE DEF g
<1>5. {1} \subseteq 1..Len(r)
  BY <1>1
<1>6. Became(q, r, 1..Len(q), g, {1})
  BY <1>2, <1>3, <1>4, <1>5 DEF Became, SameItem
<1> QED
  BY <1>1, <1>2, <1>6 DEF Moved, r, g

\* the first item taken
LEMMA TailMoved ==
    ASSUME NEW q \in Seq(Items), q # <<>>
    PROVE  Moved(q, Tail(q), 2..Len(q), [i \in 2..Len(q) |-> i - 1], {})
<1> DEFINE r == Tail(q)
           g == [i \in 2..Len(q) |-> i - 1]
<1>1. r \in Seq(Items) /\ Len(r) = Len(q) - 1 /\ \A k \in 1..Len(r) : r[k] = q[k + 1]
  OBVIOUS
<1> HIDE DEF r
<1>2. \A i \in 2..Len(q) : g[i] \in 1..Len(r) /\ r[g[i]] = q[i]
  BY <1>1
<1>3. \A i, j \in 2..Len(q) : i < j => g[i] < g[j]
  OBVIOUS
<1>4. \A k \in 1..Len(r) : \E i \in 2..Len(q) : k = g[i]
  <2> SUFFICES ASSUME NEW k \in 1..Len(r)
               PROVE  \E i \in 2..Len(q) : k = g[i]
    OBVIOUS
  <2>1. k + 1 \in 2..Len(q) /\ k = g[k + 1]
    BY <1>1
  <2> QED BY <2>1
<1> HIDE DEF g
<1>5. 2..Len(q) \subseteq 1..Len(q)
  OBVIOUS
<1>6. Became(q, r, 2..Len(q), g, {})
  BY <1>2, <1>3, <1>4, <1>5 DEF Became, SameItem
<1> QED
  BY <1>1, <1>2, <1>6 DEF Moved, r, g

\* an item taken out
LEMMA Removed ==
    ASSUME NEW q \in Seq(Items), NEW p \in 1..Len(q)
    PROVE  /\ Len(RemoveAt(q, p)) = Len(q) - 1
           /\ Moved(q, RemoveAt(q, p), (1..Len(q)) \ {p},
                    [i \in (1..Len(q)) \ {p} |-> IF i < p THEN i ELSE i - 1], {})
<1> DEFINE r == RemoveAt(q, p)
           D == (1..Len(q)) \ {p}
           g == [i \in D |-> IF i < p THEN i ELSE i - 1]
<1>1. /\ r \in Seq(Items) /\ Len(r) = Len(q) - 1
      /\ \A k \in 1..Len(r) : r[k] = IF k < p THEN q[k] ELSE q[k + 1]
  <2> DEFINE a == SubSeq(q, 1, p - 1)
             b == SubSeq(q, p + 1, Len(q))
  <2>1. a \in Seq(Items) /\ Len(a) = p - 1 /\ \A k \in 1..(p - 1) : a[k] = q[k]
    OBVIOUS
  <2>2. b \in Seq(Items) /\ Len(b) = Len(q) - p /\ \A k \in 1..(Len(q) - p) : b[k] = q[k + p]
    OBVIOUS
  <2>3. r = a \o b
    BY DEF RemoveAt
  <2> HIDE DEF a, b, r
  <2>4. r \in Seq(Items) /\ Len(r) = Len(a) + Len(b)
        /\ \A k \in 1..Len(r) : r[k] = IF k <= Len(a) THEN a[k] ELSE b[k - Len(a)]
    <3>1. /\ a \o b \in Seq(Items) /\ Len(a \o b) = Len(a) + Len(b)
          /\ \A k \in 1..(Len(a) + Len(b)) :
                (a \o b)[k] = IF k <= Len(a) THEN a[k] ELSE b[k - Len(a)]
      BY <2>1, <2>2, Joined
    <3> QED BY <2>3, <3>1
  <2> QED BY <2>1, <2>2, <2>4
<1> HIDE DEF r
<1>2. \A i \in D : g[i] \in 1..Len(r) /\ r[g[i]] = q[i]
  BY <1>1
<1>3. \A i, j \in D : i < j => g[i] < g[j]
  OBVIOUS
<1>4. \A k \in 1..Len(r) : \E i \in D : k = g[i]
  <2> SUFFICES ASSUME NEW k \in 1..Len(r)
               PROVE  \E i \in D : k = g[i]
    OBVIOUS
  <2>1. CASE k < p
    <3>1. k \in D /\ k = g[k]
      BY <1>1, <2>1
    <3> QED BY <3>1
  <2>2. CASE k >= p
    <3>1. k + 1 \in D /\ k = g[k + 1]
      BY <1>1, <2>2
    <3> QED BY <3>1
  <2> QED BY <2>1, <2>2
<1>5. D \subseteq 1..Len(q)
  OBVIOUS
<1> HIDE DEF g, D
<1>6. Became(q, r, D, g, {})
  BY <1>2, <1>3, <1>4, <1>5 DEF Became, SameItem
<1>7. Len(r) = Len(q) - 1 /\ Moved(q, r, D, g, {})
  BY <1>1, <1>2, <1>6 DEF Moved
<1> QED
  BY <1>7 DEF r, g, D

\* one move after the other: nothing is taken by the second
LEMMA MovedTwice ==
    ASSUME NEW q, NEW r, NEW s, NEW D, NEW g, NEW N, NEW h, NEW M,
           Moved(q, r, D, g, N), Moved(r, s, 1..Len(r), h, M)
    PROVE  Moved(q, s, D, [i \in D |-> h[g[i]]], {h[n] : n \in N} \cup M)
<1> DEFINE f == [i \in D |-> h[g[i]]]
           K == {h[n] : n \in N} \cup M
<1>1. /\ D \subseteq 1..Len(q) /\ N \subseteq 1..Len(r) /\ M \subseteq 1..Len(s)
      /\ q \in Seq(Items) /\ r \in Seq(Items) /\ s \in Seq(Items)
  BY DEF Moved, Became
<1>2. \A i \in D : g[i] \in 1..Len(r) /\ g[i] \notin N /\ r[g[i]] = q[i]
  BY DEF Moved, Became
<1>3. \A k \in 1..Len(r) : h[k] \in 1..Len(s) /\ h[k] \notin M /\ s[h[k]] = r[k]
  BY DEF Moved, Became
<1>4. \A i, j \in D : (i # j => g[i] # g[j]) /\ (i < j /\ ~IsBarrier(q[i]) => g[i] < g[j])
  BY DEF Moved, Became
<1>5. \A i, j \in 1..Len(r) :
         (i # j => h[i] # h[j]) /\ (i < j /\ ~IsBarrier(r[i]) => h[i] < h[j])
  BY DEF Moved, Became
<1>6. \A i \in D : f[i] \in 1..Len(s) /\ s[f[i]] = q[i]
  BY <1>2, <1>3
<1>7. \A i, j \in D : (i # j => f[i] # f[j]) /\ (i < j /\ ~IsBarrier(q[i]) => f[i] < f[j])
  <2>1. \A i, j \in D : i # j => f[i] # f[j]
    BY <1>2, <1>3, <1>4, <1>5
  <2>2. \A i, j \in D : i < j /\ ~IsBarrier(q[i]) => f[i] < f[j]
    BY <1>2, <1>4, <1>5
  <2> QED BY <2>1, <2>2
<1>8. \A i \in D : f[i] \notin K
  BY <1>1, <1>2, <1>3, <1>5
<1>9. \A k \in 1..Len(s) : k \in K \/ \E i \in D : k = f[i]
  <2> SUFFICES ASSUME NEW k \in 1..Len(s), k \notin K
               PROVE  \E i \in D : k = f[i]
    OBVIOUS
  <2>1. PICK n \in 1..Len(r) : k = h[n]
    BY DEF Moved, Became
  <2>2. n \notin N
    BY <2>1
  <2>3. PICK i \in D : n = g[i]
    BY <2>2 DEF Moved, Became
  <2> QED BY <2>1, <2>3
<1>10. K \subseteq 1..Len(s)
  BY <1>1, <1>3
<1> HIDE DEF f, K
<1>11. Became(q, s, D, f, K)
  BY <1>1, <1>6, <1>7, <1>8, <1>9, <1>10 DEF Became, SameItem
<1>12. Moved(q, s, D, f, K)
  BY <1>1, <1>6, <1>11 DEF Moved
<1> QED
  BY <1>12 DEF f, K

\* The queue r has the items of q in another order; the one at place k comes from from[k].
Reordered(q, r, from) ==
    /\ Len(r) = Len(q)
    /\ \A k \in 1..Len(q) : from[k] \in 1..Len(q) /\ r[k] = q[from[k]]
    /\ \A k, l \in 1..Len(q) : from[k] = from[l] => k = l
    /\ \A i \in 1..Len(q) : \E k \in 1..Len(q) : from[k] = i
    /\ \A k, l \in 1..Len(q) : from[k] < from[l] /\ ~IsBarrier(q[from[k]]) => k < l

\* where the items went when it is known where they come from
LEMMA ReorderedMoved ==
    ASSUME NEW q \in Seq(Items), NEW r \in Seq(Items), NEW from, Reordered(q, r, from)
    PROVE  \E g : /\ Moved(q, r, 1..Len(q), g, {})
                  /\ \A k \in 1..Len(q) : g[from[k]] = k
<1> DEFINE g == [i \in 1..Len(q) |-> CHOOSE k \in 1..Len(q) : from[k] = i]
<1>1. \A i \in 1..Len(q) : g[i] \in 1..Len(q) /\ from[g[i]] = i
  BY DEF Reordered
<1> HIDE DEF g
<1>2. ASSUME NEW k \in 1..Len(q)
      PROVE  g[from[k]] = k
  <2>1. from[k] \in 1..Len(q)
    BY DEF Reordered
  <2>2. g[from[k]] \in 1..Len(q) /\ from[g[from[k]]] = from[k]
    BY <1>1, <2>1
  <2> QED BY <2>2 DEF Reordered
<1>3. ASSUME NEW i \in 1..Len(q), NEW j \in 1..Len(q)
      PROVE  (i # j => g[i] # g[j]) /\ (i < j /\ ~IsBarrier(q[i]) => g[i] < g[j])
  <2>1. /\ g[i] \in 1..Len(q) /\ g[j] \in 1..Len(q)
        /\ from[g[i]] = i /\ from[g[j]] = j
    BY <1>1
  <2>2. from[g[i]] < from[g[j]] /\ ~IsBarrier(q[from[g[i]]]) => g[i] < g[j]
    BY <2>1 DEF Reordered
  <2> QED BY <2>1, <2>2
<1>4. Len(r) = Len(q)
  BY DEF Reordered
<1>5. ASSUME NEW i \in 1..Len(q)
      PROVE  g[i] \in 1..Len(r) /\ r[g[i]] = q[i]
  <2>1. g[i] \in 1..Len(q) /\ from[g[i]] = i
    BY <1>1
  <2>2. r[g[i]] = q[from[g[i]]]
    BY <2>1 DEF Reordered
  <2> QED BY <1>4, <2>1, <2>2
<1>6. ASSUME NEW k \in 1..Len(r)
      PROVE  \E i \in 1..Len(q) : k = g[i]
  <2>1. k \in 1..Len(q)
    BY <1>4
  <2>2. from[k] \in 1..Len(q)
    BY <2>1 DEF Reordered
  <2> QED BY <1>2, <2>1, <2>2
<1>7. Became(q, r, 1..Len(q), g, {})
  BY <1>3, <1>5, <1>6 DEF Became, SameItem
<1>8. Moved(q, r, 1..Len(q), g, {})
  BY <1>5, <1>7 DEF Moved
<1> QED
  BY <1>2, <1>8

\* the ends of snapshots, and of the queue, come after the item at place p; the rest keeps its order
LEMMA Postponed ==
    ASSUME NEW q \in Seq(Items), NEW p \in 1..Len(q), ~IsBarrier(q[p])
    PROVE  \E g : /\ Moved(q, PostponeQuitStop(q, p), 1..Len(q), g, {})
                  /\ \A j \in 1..Len(q) : IsBarrier(q[j]) => g[p] < g[j]
<1> DEFINE B == {i \in 1..(p - 1) : IsBarrier(q[i])}
           S == (1..p) \ B
           A == ItemsAt(q, S)
           M == IF p = Len(q) THEN ItemsAt(q, B) ELSE Reverse(ItemsAt(q, B))
           C == SubSeq(q, p + 1, Len(q))
           r == PostponeQuitStop(q, p)
           L == Len(q)
<1>1. r = A \o M \o C
  BY DEF PostponeQuitStop
<1>2. /\ B \in SUBSET (1..p) /\ S \in SUBSET (1..p) /\ B \in SUBSET Nat /\ S \in SUBSET Nat
      /\ p \in S /\ L \in Nat /\ p \in Nat /\ p <= L
  OBVIOUS
<1>3. /\ \A i \in B : i \in 1..L
      /\ \A i \in S : i \in 1..L
      /\ \A i \in 1..p : i \in B \/ i \in S
      /\ \A i \in B : i \notin S /\ IsBarrier(q[i])
      /\ \A i \in S : ~IsBarrier(q[i])
  OBVIOUS
<1>4. S = (1..p) \ B
  OBVIOUS
<1> HIDE DEF B, S
<1>5. PICK ns \in Nat : \E f : Enumerates(f, ns, S)
  BY <1>2, Enumerable
<1>6. PICK fs : Enumerates(fs, ns, S)
  BY <1>5
<1>7. PICK nb \in Nat : \E f : Enumerates(f, nb, B)
  BY <1>2, Enumerable
<1>8. PICK fb : Enumerates(fb, nb, B)
  BY <1>7
<1>9. ns + nb = p
  <2>1. /\ IsFiniteSet(S) /\ Cardinality(S) = ns
        /\ IsFiniteSet(B) /\ Cardinality(B) = nb
    BY <1>2, <1>6, <1>8, Ranks
  <2>2. IsFiniteSet(1..p) /\ Cardinality(1..p) = p
    BY FS_Interval
  <2>3. Cardinality((1..p) \ B) = Cardinality(1..p) - Cardinality((1..p) \cap B)
    BY <2>2, FS_Difference
  <2>4. (1..p) \cap B = B
    BY <1>2
  <2>5. ns = p - nb
    BY <1>4, <2>1, <2>2, <2>3, <2>4
  <2> QED BY <2>5
<1>10. A = [k \in 1..ns |-> q[fs[k]]] /\ \A k \in 1..ns : fs[k] \in S
  <2>1. ItemsAt(q, S) = [k \in 1..ns |-> q[fs[k]]]
    BY <1>2, <1>6, ItemsListed
  <2> QED BY <1>6, <2>1 DEF Enumerates
<1>11. ItemsAt(q, B) = [k \in 1..nb |-> q[fb[k]]] /\ \A k \in 1..nb : fb[k] \in B
  <2>1. ItemsAt(q, B) = [k \in 1..nb |-> q[fb[k]]]
    BY <1>2, <1>8, ItemsListed
  <2> QED BY <1>8, <2>1 DEF Enumerates
<1> DEFINE ev == IF p = Len(q) THEN fb ELSE [k \in 1..nb |-> fb[nb - k + 1]]
<1>12. /\ M = [k \in 1..nb |-> q[ev[k]]]
       /\ \A k \in 1..nb : ev[k] \in B
       /\ \A k, l \in 1..nb : ev[k] = ev[l] => k = l
       /\ \A i \in B : \E k \in 1..nb : ev[k] = i
  <2>1. /\ \A k, l \in 1..nb : fb[k] = fb[l] => k = l
        /\ \A i \in B : \E k \in 1..nb : fb[k] = i
    <3>1. \A k, l \in 1..nb : (k < l => fb[k] < fb[l]) /\ fb[k] \in Nat /\ fb[l] \in Nat
      BY <1>2, <1>8, <1>11 DEF Enumerates
    <3>2. \A k, l \in 1..nb : fb[k] = fb[l] => k = l
      BY <3>1
    <3> QED BY <1>8, <3>2 DEF Enumerates
  <2>2. CASE p = Len(q)
    BY <1>11, <2>1, <2>2
  <2>3. CASE p # Len(q)
    <3>1. ev = [k \in 1..nb |-> fb[nb - k + 1]] /\ M = Reverse(ItemsAt(q, B))
      BY <2>3
    <3>2. \A k \in 1..nb : nb - k + 1 \in 1..nb /\ ev[k] = fb[nb - k + 1]
      BY <3>1
    <3> HIDE DEF ev
    <3>3. M = [k \in 1..nb |-> q[ev[k]]]
      <4>1. Len(ItemsAt(q, B)) = nb
        BY <1>11
      <4>2. M = [k \in 1..nb |-> ItemsAt(q, B)[nb - k + 1]]
        BY <3>1, <4>1 DEF Reverse
      <4>3. \A k \in 1..nb : ItemsAt(q, B)[nb - k + 1] = q[ev[k]]
        BY <1>11, <3>2
      <4> QED BY <4>2, <4>3
    <3>4. \A k \in 1..nb : ev[k] \in B
      BY <1>11, <3>2
    <3>5. \A k, l \in 1..nb : ev[k] = ev[l] => k = l
      BY <2>1, <3>2
    <3>6. ASSUME NEW i \in B
          PROVE  \E k \in 1..nb : ev[k] = i
      <4>1. PICK k \in 1..nb : fb[k] = i
        BY <2>1
      <4>2. nb - k + 1 \in 1..nb /\ nb - (nb - k + 1) + 1 = k
        OBVIOUS
      <4>3. ev[nb - k + 1] = i
        BY <3>2, <4>1, <4>2
      <4> QED BY <4>2, <4>3
    <3> QED BY <3>3, <3>4, <3>5, <3>6
  <2> QED BY <2>2, <2>3
<1> HIDE DEF ev, M, A, C, r
<1> DEFINE from == [k \in 1..L |-> IF k <= ns THEN fs[k] ELSE IF k <= p THEN ev[k - ns] ELSE k]
<1>13. \A i \in 1..L : q[i] \in Items
  OBVIOUS
<1>14. ASSUME NEW k \in 1..L
       PROVE  /\ k <= ns => from[k] = fs[k] /\ from[k] \in S
              /\ ns < k /\ k <= p => from[k] = ev[k - ns] /\ from[k] \in B /\ k - ns \in 1..nb
              /\ p < k => from[k] = k
              /\ from[k] \in 1..L
  <2>1. from[k] = IF k <= ns THEN fs[k] ELSE IF k <= p THEN ev[k - ns] ELSE k
    OBVIOUS
  <2> HIDE DEF from
  <2>2. CASE k <= ns
    <3>1. from[k] = fs[k] /\ fs[k] \in S
      BY <1>10, <2>1, <2>2
    <3> QED BY <1>3, <1>9, <2>2, <3>1
  <2>3. CASE ns < k /\ k <= p
    <3>1. k - ns \in 1..nb
      BY <1>9, <2>3
    <3>2. from[k] = ev[k - ns] /\ ev[k - ns] \in B
      BY <1>12, <2>1, <2>3, <3>1
    <3> QED BY <1>3, <1>9, <2>3, <3>1, <3>2
  <2>4. CASE p < k
    BY <1>9, <2>1, <2>4
  <2> QED BY <2>2, <2>3, <2>4
<1>15. r \in Seq(Items) /\ Len(r) = L /\ \A k \in 1..L : r[k] = q[from[k]]
  <2>1. A \in Seq(Items) /\ Len(A) = ns /\ \A k \in 1..ns : A[k] = q[fs[k]]
    <3>1. ASSUME NEW k \in 1..ns
          PROVE  q[fs[k]] \in Items
      <4>1. fs[k] \in S
        BY <1>10
      <4>2. \A i \in S : i \in 1..L
        BY <1>3
      <4> QED BY <1>13, <4>1, <4>2
    <3> QED BY <1>10, <3>1
  <2>2. M \in Seq(Items) /\ Len(M) = nb /\ \A k \in 1..nb : M[k] = q[ev[k]]
    <3>1. ASSUME NEW k \in 1..nb
          PROVE  q[ev[k]] \in Items
      <4>1. ev[k] \in B
        BY <1>12
      <4>2. \A i \in B : i \in 1..L
        BY <1>3
      <4> QED BY <1>13, <4>1, <4>2
    <3> QED BY <1>12, <3>1
  <2>3. C \in Seq(Items) /\ Len(C) = L - p /\ \A k \in 1..(L - p) : C[k] = q[k + p]
    BY DEF C
  <2> DEFINE AM == A \o M
  <2>4. AM \in Seq(Items) /\ Len(AM) = p
        /\ \A k \in 1..p : AM[k] = IF k <= ns THEN A[k] ELSE M[k - ns]
    <3>1. /\ A \o M \in Seq(Items) /\ Len(A \o M) = Len(A) + Len(M)
          /\ \A k \in 1..(Len(A) + Len(M)) :
                (A \o M)[k] = IF k <= Len(A) THEN A[k] ELSE M[k - Len(A)]
      BY <2>1, <2>2, Joined, ZenonT(30)
    <3> QED BY <1>9, <2>1, <2>2, <3>1
  <2>5. r = AM \o C
    BY <1>1
  <2> HIDE DEF AM
  <2>6. AM \o C \in Seq(Items) /\ Len(AM \o C) = L
        /\ \A k \in 1..L : (AM \o C)[k] = IF k <= p THEN AM[k] ELSE C[k - p]
    <3>1. /\ AM \o C \in Seq(Items) /\ Len(AM \o C) = Len(AM) + Len(C)
          /\ \A k \in 1..(Len(AM) + Len(C)) :
                (AM \o C)[k] = IF k <= Len(AM) THEN AM[k] ELSE C[k - Len(AM)]
      <4>1. AM \in Seq(Items) /\ C \in Seq(Items)
        BY <2>3, <2>4
      <4> QED BY <4>1, Joined
    <3>2. Len(AM) + Len(C) = L
      BY <2>3, <2>4
    <3> QED BY <2>4, <3>1, <3>2
  <2>7. ASSUME NEW k \in 1..L
        PROVE  r[k] = q[from[k]]
    <3>1. CASE k <= ns
      <4>1. k \in 1..p /\ k \in 1..ns
        BY <1>9, <3>1
      <4> QED BY <1>14, <2>1, <2>4, <2>5, <2>6, <3>1, <4>1
    <3>2. CASE ns < k /\ k <= p
      <4>1. k \in 1..p /\ k - ns \in 1..nb /\ from[k] = ev[k - ns] /\ ~(k <= ns)
        BY <1>14, <3>2
      <4>2. r[k] = M[k - ns]
        BY <2>4, <2>5, <2>6, <3>2, <4>1
      <4> QED BY <2>2, <4>1, <4>2
    <3>3. CASE p < k
      <4>1. k - p \in 1..(L - p) /\ (k - p) + p = k /\ ~(k <= p)
        BY <3>3
      <4>2. r[k] = C[k - p]
        BY <2>5, <2>6, <4>1
      <4> QED BY <1>14, <2>3, <3>3, <4>1, <4>2
    <3> QED BY <3>1, <3>2, <3>3
  <2> QED BY <2>5, <2>6, <2>7
<1> HIDE DEF from
<1>16. \A k, l \in 1..ns : k < l => fs[k] < fs[l]
  BY <1>6 DEF Enumerates
<1>17. ASSUME NEW k \in 1..L, NEW l \in 1..L, from[k] = from[l]
       PROVE  k = l
  <2>1. CASE k <= ns
    <3>1. l <= ns
      BY <1>2, <1>3, <1>14, <1>17, <2>1
    <3>2. fs[k] = fs[l] /\ fs[k] \in Nat /\ fs[l] \in Nat /\ k \in 1..ns /\ l \in 1..ns
      BY <1>2, <1>10, <1>14, <1>17, <2>1, <3>1
    <3> QED BY <1>16, <3>2
  <2>2. CASE ns < k /\ k <= p
    <3>1. ns < l /\ l <= p
      BY <1>2, <1>3, <1>14, <1>17, <2>2
    <3>2. ev[k - ns] = ev[l - ns] /\ k - ns \in 1..nb /\ l - ns \in 1..nb
      BY <1>14, <1>17, <2>2, <3>1
    <3>3. k - ns = l - ns
      BY <1>12, <3>2
    <3> QED BY <3>3
  <2>3. CASE p < k
    BY <1>2, <1>14, <1>17, <2>3
  <2> QED BY <2>1, <2>2, <2>3
<1>18. ASSUME NEW i \in 1..L
       PROVE  \E k \in 1..L : from[k] = i
  <2>1. CASE i \in S
    <3>1. PICK k \in 1..ns : fs[k] = i
      BY <1>6, <2>1 DEF Enumerates
    <3>2. k \in 1..L /\ k <= ns
      BY <1>9
    <3> QED BY <1>14, <3>1, <3>2
  <2>2. CASE i \in B
    <3>1. PICK k \in 1..nb : ev[k] = i
      BY <1>12, <2>2
    <3>2. k + ns \in 1..L /\ ns < k + ns /\ k + ns <= p /\ (k + ns) - ns = k
      BY <1>9
    <3> QED BY <1>14, <3>1, <3>2
  <2>3. CASE i > p
    BY <1>14, <2>3
  <2> QED BY <1>3, <2>1, <2>2, <2>3
<1>19. ASSUME NEW k \in 1..L, NEW l \in 1..L, from[k] < from[l], ~IsBarrier(q[from[k]])
       PROVE  k < l
  <2>1. ~(ns < k /\ k <= p)
    BY <1>3, <1>14, <1>19
  <2>2. CASE k <= ns
    <3>1. CASE l <= ns
      <4>1. fs[k] < fs[l] /\ fs[k] \in Nat /\ fs[l] \in Nat /\ k \in 1..ns /\ l \in 1..ns
        BY <1>2, <1>10, <1>14, <1>19, <2>2, <3>1
      <4>2. ~(l < k) /\ k # l
        BY <1>16, <4>1
      <4> QED BY <4>2
    <3> QED BY <2>2, <3>1
  <2>3. CASE p < k
    <3>1. from[k] = k /\ k < from[l] /\ from[l] \in Nat
      BY <1>14, <1>19, <2>3
    <3>2. CASE l <= p
      <4>1. from[l] \in 1..p
        BY <1>2, <1>14, <3>2
      <4> QED BY <2>3, <3>1, <4>1
    <3>3. CASE l > p
      BY <1>14, <3>1, <3>3
    <3> QED BY <3>2, <3>3
  <2> QED BY <2>1, <2>2, <2>3
<1>20. PICK g : /\ Moved(q, r, 1..L, g, {})
                /\ \A k \in 1..L : g[from[k]] = k
  <2>1. \A k \in 1..L : from[k] \in 1..L
    BY <1>14
  <2>2. Reordered(q, r, from)
    BY <1>15, <1>17, <1>18, <1>19, <2>1 DEF Reordered
  <2> QED BY <1>15, <2>2, ReorderedMoved
<1>21. ASSUME NEW j \in 1..L, IsBarrier(q[j])
       PROVE  g[p] < g[j]
  <2>1. PICK a \in 1..L : from[a] = p
    BY <1>18
  <2>2. PICK b \in 1..L : from[b] = j
    BY <1>18
  <2>3. a <= ns
    BY <1>2, <1>3, <1>14, <2>1
  <2>4. ns < b
    BY <1>3, <1>14, <1>21, <2>2
  <2>5. g[p] = a /\ g[j] = b
    BY <1>20, <2>1, <2>2
  <2> QED BY <2>3, <2>4, <2>5
<1> QED
  BY <1>20, <1>21 DEF r

-------------------------------------------------------------------------------
(***************************************************************************)
(* Latecomers.                                                             *)
(***************************************************************************)

\* the least and the greatest of a set of places
LEMMA LeastOf ==
    ASSUME NEW S \in SUBSET Nat, S # {}
    PROVE  Min(S) \in S /\ \A i \in S : Min(S) <= i
<1>1. OpToRel(<, Nat) = {ss \in Nat \X Nat : ss[1] < ss[2]}
  BY DEF OpToRel
<1>2. PICK x \in S : \A y \in S : ~(<<y, x>> \in {ss \in Nat \X Nat : ss[1] < ss[2]})
  BY <1>1, NatLessThanWellFounded, WFMin, ZenonT(30)
<1>3. \A y \in S : ~(y < x)
  BY <1>2
<1>4. \A y \in S : x <= y
  BY <1>3
<1> QED
  BY <1>4 DEF Min

\* A set of numbers with a bound has a greatest.
LEMMA GreatestOf ==
    ASSUME NEW m \in Nat, NEW S \in SUBSET (1..m), S # {}
    PROVE  Max(S) \in S /\ \A i \in S : i <= Max(S)
<1> DEFINE T == {j \in 0..m : m - j \in S}
<1>1. T \in SUBSET Nat
  OBVIOUS
<1>2. T # {}
  <2>1. PICK i \in S : TRUE
    OBVIOUS
  <2>2. i \in Nat /\ i <= m
    OBVIOUS
  <2>3. m - i \in 0..m /\ m - (m - i) = i
    BY <2>2
  <2>4. m - i \in T
    BY <2>3
  <2> QED BY <2>4
<1>3. Min(T) \in T /\ \A j \in T : Min(T) <= j
  BY <1>1, <1>2, LeastOf
<1>4. m - Min(T) \in S
  BY <1>3
<1>5. \A i \in S : i <= m - Min(T)
  <2> SUFFICES ASSUME NEW i \in S
               PROVE  i <= m - Min(T)
    OBVIOUS
  <2>1. m - i \in T
    <3>1. i \in Nat /\ i <= m
      OBVIOUS
    <3>2. m - i \in 0..m /\ m - (m - i) = i
      BY <3>1
    <3> QED BY <3>2
  <2>2. Min(T) <= m - i /\ Min(T) \in Nat /\ i \in Nat
    BY <1>1, <1>3, <2>1
  <2> QED BY <2>2
<1>6. \E x \in S : \A y \in S : x >= y
  <2>1. \A y \in S : y \in Nat
    OBVIOUS
  <2> HIDE DEF T
  <2>2. PICK x \in S : x = m - Min(T)
    BY <1>4
  <2>3. \A y \in S : x >= y
    BY <1>5, <2>1, <2>2
  <2> QED BY <2>3
<1> QED
  <2>1. Max(S) \in S /\ \A y \in S : Max(S) >= y
    BY <1>6 DEF Max
  <2>2. \A y \in S : y \in Nat
    OBVIOUS
  <2> QED BY <2>1, <2>2

\* Whatever was asked for stays before the place for a whole file.
LEMMA PlaceBehindRequests ==
    ASSUME NEW q \in Seq(Items), NEW afterSwitched \in BOOLEAN, FullsInOrder(q)
    PROVE  /\ EarliestPlace(q, afterSwitched) \in 1..(Len(q) + 1)
           /\ \A i \in Requested(q) : i < EarliestPlace(q, afterSwitched)
<1> DEFINE T == {i \in 1..Len(q) : /\ IsFull(q[i]) /\ ~q[i].queued
                                   /\ ~(afterSwitched /\ q[i].switched)}
           target == IF T # {} THEN Min(T) ELSE 0
           F == {i \in 1..(target - 1) : IsFull(q[i])}
           p == EarliestPlace(q, afterSwitched)
<1>1. SelectInSeq(q, LAMBDA it : /\ IsFull(it) /\ ~it.queued
                                 /\ ~(afterSwitched /\ it.switched)) = target
  BY DEF SelectInSeq
<1>2. SelectInSeq(q, LAMBDA it : IsFull(it) /\ it.queued)
         = IF Requested(q) # {} THEN Min(Requested(q)) ELSE 0
  <2>1. {i \in 1..Len(q) : IsFull(q[i]) /\ q[i].queued} = Requested(q)
    BY DEF Requested, Fulls
  <2> QED BY <2>1 DEF SelectInSeq
<1>3. SelectLastInSubSeq(q, 1, target - 1, IsFull) = IF F # {} THEN Max(F) ELSE 0
  BY DEF SelectLastInSubSeq
<1> DEFINE lf == IF F # {} THEN Max(F) ELSE 0
           fr == IF Requested(q) # {} THEN Min(Requested(q)) ELSE 0
<1>4. p = CASE target > 0 -> 1 + lf
            [] target = 0 /\ fr = 0 -> 1
            [] OTHER -> Len(q) + 1
  BY <1>1, <1>2, <1>3 DEF EarliestPlace
<1> SUFFICES p \in 1..(Len(q) + 1) /\ \A i \in Requested(q) : i < p
  OBVIOUS
<1> HIDE DEF p
<1>5. /\ target > 0 => p = 1 + lf
      /\ target = 0 /\ fr = 0 => p = 1
      /\ target = 0 /\ fr # 0 => p = Len(q) + 1
  <2> HIDE DEF target, lf, fr
  <2> QED BY <1>4
<1>6. Requested(q) \subseteq 1..Len(q) /\ Len(q) \in Nat
  BY DEF Requested, Fulls
<1>7. CASE T # {}
  <2>1. target \in T /\ \A i \in T : target <= i
    <3>1. T \in SUBSET Nat /\ target = Min(T)
      BY <1>7
    <3> HIDE DEF T, target
    <3> QED BY <1>7, <3>1, LeastOf
  <2>2. target \in 1..Len(q) /\ target \in Fulls(q) /\ target \notin Requested(q)
    BY <2>1 DEF Fulls, Requested
  <2>3. \A i \in Requested(q) : i < target
    BY <1>6, <2>2 DEF FullsInOrder
  <2>4. \A i \in Requested(q) : i \in F
    BY <1>6, <2>2, <2>3 DEF Requested, Fulls
  <2> HIDE DEF T
  <2>5. p = 1 + (IF F # {} THEN Max(F) ELSE 0)
    BY <1>5, <2>2
  <2>6. CASE F # {}
    <3>1. F \in SUBSET (1..(target - 1)) /\ target - 1 \in Nat
      BY <2>2
    <3> HIDE DEF F, target
    <3>2. Max(F) \in F /\ \A i \in F : i <= Max(F)
      BY <2>6, <3>1, GreatestOf
    <3>3. Max(F) \in 1..(target - 1) /\ target \in 1..Len(q)
      BY <2>2, <3>1, <3>2
    <3>4. Max(F) \in 1..Len(q)
      BY <1>6, <3>3
    <3>5. p = 1 + Max(F)
      BY <2>5, <2>6
    <3>6. ASSUME NEW i \in Requested(q)
          PROVE  i < p
      <4>1. i <= Max(F) /\ i \in 1..Len(q)
        BY <1>6, <2>4, <3>2
      <4> QED BY <3>4, <3>5, <4>1
    <3>7. p \in 1..(Len(q) + 1)
      BY <1>6, <3>4, <3>5
    <3> QED BY <3>6, <3>7
  <2>7. CASE F = {}
    <3> HIDE DEF F, target
    <3>1. p = 1
      BY <2>5, <2>7
    <3> QED BY <1>6, <2>4, <2>7, <3>1
  <2> QED BY <2>6, <2>7
<1>8. CASE T = {} /\ Requested(q) = {}
  <2>1. target = 0
    BY <1>8
  <2>2. p = 1
    BY <1>8, <1>5, <2>1
  <2> QED BY <1>6, <1>8, <2>2
<1>9. CASE T = {} /\ Requested(q) # {}
  <2>1. target = 0
    BY <1>9
  <2>2. Min(Requested(q)) \in Requested(q)
    BY <1>6, <1>9, LeastOf
  <2>3. p = Len(q) + 1
    BY <1>6, <1>9, <1>5, <2>1, <2>2
  <2> QED BY <1>6, <2>3
<1> QED
  BY <1>7, <1>8, <1>9

\* A latecomer: behind all that was asked for, and before all ends of snapshots.
LEMMA InsertedLate ==
    ASSUME NEW q \in Seq(Items), NEW item \in Items, item.action = "file", FullsInOrder(q)
    PROVE  \E g : \E n \in 1..Len(InsertLate(q, item)) :
              /\ Moved(q, InsertLate(q, item), 1..Len(q), g, {n})
              /\ InsertLate(q, item)[n] = [item EXCEPT !.full = TRUE, !.switched = TRUE]
              /\ \A i \in Requested(q) : g[i] < n
              /\ \A k \in 1..Len(InsertLate(q, item)) :
                    IsBarrier(InsertLate(q, item)[k]) => n < k
<1> DEFINE p == EarliestPlace(q, TRUE)
           x == [item EXCEPT !.full = TRUE, !.switched = TRUE]
           s == InsertAt(q, p, x)
           r == PostponeQuitStop(s, p)
           g1 == [i \in 1..Len(q) |-> IF i < p THEN i ELSE i + 1]
<1>1. InsertLate(q, item) = r
  BY DEF InsertLate
<1>2. p \in 1..(Len(q) + 1) /\ \A i \in Requested(q) : i < p
  BY PlaceBehindRequests
<1>3. x \in Items /\ x.action = "file"
  BY DEF Items
<1> HIDE DEF p, x
<1>4. Len(s) = Len(q) + 1 /\ s[p] = x /\ Moved(q, s, 1..Len(q), g1, {p})
  BY <1>2, <1>3, Inserted
<1>5. \A i \in Requested(q) : i \in 1..Len(q) /\ g1[i] = i
  BY <1>2 DEF Requested, Fulls
<1> HIDE DEF s, g1, r
<1>6. s \in Seq(Items) /\ p \in 1..Len(s) /\ ~IsBarrier(s[p])
  BY <1>2, <1>3, <1>4 DEF Moved, IsBarrier
<1>7. PICK h : /\ Moved(s, r, 1..Len(s), h, {})
               /\ \A j \in 1..Len(s) : IsBarrier(s[j]) => h[p] < h[j]
  BY <1>6, Postponed DEF r
<1> DEFINE g == [i \in 1..Len(q) |-> h[g1[i]]]
<1>8. Moved(q, r, 1..Len(q), g, {h[n] : n \in {p}} \cup {})
  BY <1>4, <1>7, MovedTwice
<1>9. {h[n] : n \in {p}} \cup {} = {h[p]}
  OBVIOUS
<1>10. Moved(q, r, 1..Len(q), g, {h[p]})
  BY <1>8, <1>9
<1>11. h[p] \in 1..Len(r) /\ r[h[p]] = x
  BY <1>4, <1>6, <1>7 DEF Moved, Became
<1>12. ASSUME NEW i \in Requested(q)
       PROVE  g[i] < h[p]
  <2>1. i \in 1..Len(q) /\ g1[i] = i /\ i < p /\ g[i] = h[i]
    BY <1>2, <1>5
  <2>2. s[i] = q[i] /\ IsFull(q[i])
    BY <1>4, <2>1 DEF Moved, Requested, Fulls
  <2>3. i \in 1..Len(s) /\ ~IsBarrier(s[i])
    BY <1>4, <2>1, <2>2 DEF IsFull, IsBarrier
  <2> QED BY <1>6, <1>7, <2>1, <2>3 DEF Moved, Became
<1>13. ASSUME NEW k \in 1..Len(r), IsBarrier(r[k])
       PROVE  h[p] < k
  <2>1. PICK j \in 1..Len(s) : k = h[j]
    BY <1>7 DEF Moved, Became
  <2>2. IsBarrier(s[j])
    BY <1>7, <1>13, <2>1 DEF Moved
  <2> QED BY <1>7, <2>1, <2>2
<1> HIDE DEF g
<1>14. /\ Moved(q, r, 1..Len(q), g, {h[p]})
       /\ r[h[p]] = [item EXCEPT !.full = TRUE, !.switched = TRUE]
       /\ \A i \in Requested(q) : g[i] < h[p]
       /\ \A k \in 1..Len(r) : IsBarrier(r[k]) => h[p] < k
  BY <1>10, <1>11, <1>12, <1>13 DEF x
<1> QED
  BY <1>1, <1>11, <1>14

\* The difference at place p becomes a whole file.
LEMMA SwitchedToFull ==
    ASSUME NEW q \in Seq(Items), NEW p \in 1..Len(q), IsDiff(q[p]), ~q[p].queued,
           FullsInOrder(q)
    PROVE  \E g : \E n \in 1..Len(SwitchToFull(q, p)) :
              /\ Moved(q, SwitchToFull(q, p), (1..Len(q)) \ {p}, g, {n})
              /\ SwitchToFull(q, p)[n] = [q[p] EXCEPT !.full = TRUE, !.switched = TRUE]
              /\ \A i \in Requested(q) : g[i] < n
              /\ \A k \in 1..Len(SwitchToFull(q, p)) :
                    k < n /\ IsBarrier(SwitchToFull(q, p)[k])
                       => \E i \in 1..Len(q) : i < p /\ k = g[i]
<1> DEFINE D == (1..Len(q)) \ {p}
           x == [q[p] EXCEPT !.full = TRUE, !.switched = TRUE]
           r == SwitchToFull(q, p)
<1>1. q[p] \in Items /\ x \in Items /\ q[p].action = "file"
  <2>1. q[p] \in Items
    OBVIOUS
  <2> QED BY <2>1 DEF Items, IsDiff
<1>2. \A i \in Requested(q) : i \in D
  BY DEF Requested, Fulls, IsFull, IsDiff
<1>3. CASE \E j \in p..Len(q) : IsFull(q[j]) /\ q[j].queued
  <2> DEFINE s == RemoveAt(q, p)
             f == [i \in D |-> IF i < p THEN i ELSE i - 1]
  <2>1. r = InsertLate(s, q[p])
    BY <1>3 DEF SwitchToFull
  <2>2. Moved(q, s, D, f, {})
    BY Removed
  <2> HIDE DEF s, f, D, x, r
  <2>3. s \in Seq(Items) /\ Became(q, s, D, f, {})
    BY <2>2 DEF Moved
  <2>4. FullsKept(q, s, D, f) /\ FullsLast(q, s, D, f, {}) /\ Requested(q) \subseteq D
    BY <1>2, <2>2 DEF Moved, FullsKept, FullsLast
  <2>5. FullsInOrder(s) /\ \A i \in Requested(q) : f[i] \in Requested(s)
    BY <2>3, <2>4, FullsStay
  <2>6. PICK h, n : /\ n \in 1..Len(r)
                    /\ Moved(s, r, 1..Len(s), h, {n})
                    /\ r[n] = x
                    /\ \A i \in Requested(s) : h[i] < n
                    /\ \A k \in 1..Len(r) : IsBarrier(r[k]) => n < k
    BY <1>1, <2>1, <2>3, <2>5, InsertedLate DEF x
  <2> DEFINE g == [i \in D |-> h[f[i]]]
  <2>7. Moved(q, r, D, g, {h[m] : m \in {}} \cup {n})
    BY <2>2, <2>6, MovedTwice
  <2>8. {h[m] : m \in {}} \cup {n} = {n}
    OBVIOUS
  <2>9. Moved(q, r, D, g, {n})
    BY <2>7, <2>8
  <2>10. \A i \in Requested(q) : g[i] < n
    BY <1>2, <2>5, <2>6
  <2>11. \A k \in 1..Len(r) : k < n /\ IsBarrier(r[k]) => \E i \in 1..Len(q) : i < p /\ k = g[i]
    <3>1. \A k \in 1..Len(r) : n < k => ~(k < n)
      BY <2>6
    <3> QED BY <2>6, <3>1
  <2> HIDE DEF g
  <2> QED BY <2>6, <2>9, <2>10, <2>11 DEF D, x, r
<1>4. CASE ~ \E j \in p..Len(q) : IsFull(q[j]) /\ q[j].queued
  <2> DEFINE g == [i \in D |-> i]
  <2>1. r = [q EXCEPT ![p].full = TRUE, ![p].switched = TRUE]
    BY <1>4 DEF SwitchToFull
  <2>2. r = [q EXCEPT ![p] = x]
    BY <2>1
  <2> HIDE DEF x, r
  <2>3. r \in Seq(Items) /\ Len(r) = Len(q) /\ r[p] = x /\ \A i \in D : r[i] = q[i]
    BY <1>1, <2>2
  <2>4. Became(q, r, D, g, {p})
    BY <2>3 DEF Became, SameItem
  <2>5. Moved(q, r, D, g, {p})
    BY <2>3, <2>4 DEF Moved
  <2>6. \A i \in Requested(q) : g[i] < p
    <3> SUFFICES ASSUME NEW i \in Requested(q)
                 PROVE  i < p
      BY <1>2
    <3>1. i \in 1..Len(q) /\ IsFull(q[i]) /\ q[i].queued
      BY DEF Requested, Fulls
    <3> QED BY <1>4, <3>1
  <2>7. \A k \in 1..Len(r) : k < p /\ IsBarrier(r[k]) => \E i \in 1..Len(q) : i < p /\ k = g[i]
    BY <2>3
  <2>8. p \in 1..Len(r)
    BY <2>3
  <2> HIDE DEF g, D
  <2> QED BY <2>3, <2>5, <2>6, <2>7, <2>8 DEF x, r, D
<1> QED
  BY <1>3, <1>4

-------------------------------------------------------------------------------
(***************************************************************************)
(* What holds of the queue at all times, whatever fails: ls is the list of *)
(* files, its lines before n were added, rel are the shares whose snapshot *)
(* was given back.                                                         *)
(***************************************************************************)

\* a request of the file client
Requests == [id : Nat, end : BOOLEAN]

\* LineOf, of a list given
LineIn(ls, id) == ls[IF id > Len(ls) THEN id - Len(ls) ELSE id]

\* the lines items come from: those of files of file items, stop lines of stop items
Known(ls, n, item) ==
    /\ item.action = "file" =>
          /\ item.id \in 1..(2 * Len(ls))
          /\ LineIn(ls, item.id).kind \in {"full", "diff", "meta"}
          /\ item.script = LineIn(ls, item.id).script
          /\ item.script_end => item.script
    /\ item.action = "stop" => item.id \in 1..(n - 1) /\ ls[item.id].kind = "stop"

\* The item is read from a snapshot.
Reads(item) == item.action = "file" /\ ~item.script
\* The snapshot of its share has not been given back.
Held(ls, rel, item) == Reads(item) => LineIn(ls, item.id).share \notin rel

\* The end of a snapshot comes after all items that are read from it.
StopsLast(ls, q) ==
    \A i, j \in 1..Len(q) :
        i < j /\ q[i].action = "stop" /\ Reads(q[j])
          => LineIn(ls, q[j].id).share # ls[q[i].id].share

\* all items are known, and held
AllKnown(ls, n, rel, q) == \A j \in 1..Len(q) : Known(ls, n, q[j]) /\ Held(ls, rel, q[j])

\* all of this of a queue
QueueOK(ls, n, rel, q) ==
    /\ q \in Seq(Items)
    /\ FullsInOrder(q) /\ DiffsInOrder(q) /\ DiffsReady(q)
    /\ AllKnown(ls, n, rel, q) /\ StopsLast(ls, q)

\* The content of file i is to be loaded for the item.
Loads(item, i) == item.action = "file" /\ item.id = i /\ ~item.script_end /\ ~item.meta
\* There is an item in the queue for it.
InQueue(q, i) == \E j \in 1..Len(q) : Loads(q[j], i)

\* The mark of the end is in the queue.
HasQuit(q) == \E j \in 1..Len(q) : q[j].action = "quit"

\* All requests in q and all files to load are in r.
Carries(q, r) ==
    /\ \A s \in Seq(Requests) : FullsAsked(q, s) => FullsAsked(r, s)
    /\ \A t \in Seq(Nat) : DiffsAsked(q, t) => DiffsAsked(r, t)
    /\ \A i : InQueue(q, i) => InQueue(r, i)

\* A new item at place k of r is known, held, and on the right side of the ends of snapshots.
NewOK(ls, n, rel, r, k) ==
    /\ Known(ls, n, r[k]) /\ Held(ls, rel, r[k])
    /\ r[k].action = "stop" =>
          \A j \in 1..Len(r) : k < j /\ Reads(r[j]) => LineIn(ls, r[j].id).share # ls[r[k].id].share
    /\ Reads(r[k]) =>
          \A i \in 1..Len(r) :
              i < k /\ r[i].action = "stop" => LineIn(ls, r[k].id).share # ls[r[i].id].share

\* two items that agree on what the rules above look at
LEMMA SameKnown ==
    ASSUME NEW ls, NEW n, NEW rel, NEW a, NEW b, SameItem(a, b)
    PROVE  /\ Known(ls, n, a) <=> Known(ls, n, b)
           /\ Held(ls, rel, a) <=> Held(ls, rel, b)
           /\ Reads(a) <=> Reads(b)
           /\ \A i : Loads(a, i) <=> Loads(b, i)
BY DEF SameItem, Known, Held, Reads, Loads

\* What was in the queue and moved keeps its place before or after the ends of snapshots.
LEMMA StopsStay ==
    ASSUME NEW ls, NEW n, NEW rel, NEW q \in Seq(Items), NEW r \in Seq(Items), NEW D, NEW g, NEW N,
           Became(q, r, D, g, N), AllKnown(ls, n, rel, q), StopsLast(ls, q),
           \A k \in N : NewOK(ls, n, rel, r, k)
    PROVE  AllKnown(ls, n, rel, r) /\ StopsLast(ls, r)
<1>1. ASSUME NEW k \in 1..Len(r)
      PROVE  Known(ls, n, r[k]) /\ Held(ls, rel, r[k])
  <2>1. CASE k \in N
    BY <2>1 DEF NewOK
  <2>2. CASE k \notin N
    <3>1. PICK i \in D : k = g[i]
      BY <2>2 DEF Became
    <3>2. i \in 1..Len(q) /\ SameItem(q[i], r[k])
      BY <3>1 DEF Became
    <3>3. Known(ls, n, q[i]) /\ Held(ls, rel, q[i])
      BY <3>2 DEF AllKnown
    <3> QED BY <3>2, <3>3, SameKnown
  <2> QED BY <2>1, <2>2
<1>2. ASSUME NEW a \in 1..Len(r), NEW b \in 1..Len(r), a < b, r[a].action = "stop", Reads(r[b])
      PROVE  LineIn(ls, r[b].id).share # ls[r[a].id].share
  <2>1. CASE a \in N
    BY <1>2, <2>1 DEF NewOK
  <2>2. CASE b \in N
    BY <1>2, <2>2 DEF NewOK
  <2>3. CASE a \notin N /\ b \notin N
    <3>1. PICK i \in D : a = g[i]
      BY <2>3 DEF Became
    <3>2. PICK j \in D : b = g[j]
      BY <2>3 DEF Became
    <3>3. /\ i \in 1..Len(q) /\ j \in 1..Len(q)
          /\ SameItem(q[i], r[a]) /\ SameItem(q[j], r[b])
      BY <3>1, <3>2 DEF Became
    <3>4. q[i].action = "stop" /\ Reads(q[j]) /\ q[i].id = r[a].id /\ q[j].id = r[b].id
      BY <1>2, <3>3, SameKnown DEF SameItem
    <3>5. ~IsBarrier(q[j])
      BY <3>4 DEF Reads, IsBarrier
    <3>6. ~(j < i)
      BY <1>2, <3>1, <3>2, <3>5 DEF Became
    <3>7. i # j
      BY <1>2, <3>1, <3>2
    <3>8. i < j
      BY <3>3, <3>6, <3>7
    <3> QED BY <3>3, <3>4, <3>8 DEF StopsLast
  <2> QED BY <2>1, <2>2, <2>3
<1>3. AllKnown(ls, n, rel, r)
  BY <1>1 DEF AllKnown
<1>4. StopsLast(ls, r)
  BY <1>2 DEF StopsLast
<1> QED
  BY <1>3, <1>4

\* An operation that withdraws no request keeps all that holds of the queue.
LEMMA QueueStays ==
    ASSUME NEW ls, NEW n, NEW rel, NEW q, NEW r, NEW D, NEW g, NEW N,
           QueueOK(ls, n, rel, q), r \in Seq(Items), Became(q, r, D, g, N),
           FullsKept(q, r, D, g), FullsLast(q, r, D, g, N), Requested(q) \subseteq D,
           DiffsKept(q, r, D, g), DiffsLast(q, r, D, g, N), AskedDiffs(q) \subseteq D,
           \A k \in N : NewOK(ls, n, rel, r, k)
    PROVE  /\ QueueOK(ls, n, rel, r)
           /\ \A s \in Seq(Requests) : FullsAsked(q, s) => FullsAsked(r, s)
           /\ \A t \in Seq(Nat) : DiffsAsked(q, t) => DiffsAsked(r, t)
<1>1. q \in Seq(Items) /\ r \in Seq(Items)
  BY DEF QueueOK
<1>2. FullsInOrder(r)
  BY <1>1, FullsStay DEF QueueOK
<1>3. DiffsInOrder(r) /\ DiffsReady(r)
  BY <1>1, DiffsStay DEF QueueOK
<1>4. AllKnown(ls, n, rel, q) /\ StopsLast(ls, q)
  BY DEF QueueOK
<1>5. AllKnown(ls, n, rel, r) /\ StopsLast(ls, r)
  BY <1>1, <1>4, StopsStay
<1>6. ASSUME NEW s \in Seq(Requests), FullsAsked(q, s)
      PROVE  FullsAsked(r, s)
  BY <1>1, <1>6, FullsAskedStay
<1>7. ASSUME NEW t \in Seq(Nat), DiffsAsked(q, t)
      PROVE  DiffsAsked(r, t)
  BY <1>1, <1>7, DiffsAskedStay
<1> QED
  BY <1>1, <1>2, <1>3, <1>5, <1>6, <1>7 DEF QueueOK

\* The files to load, and the mark, stay when nothing is taken out.
LEMMA NothingTaken ==
    ASSUME NEW q, NEW r, NEW D, NEW g, NEW N, Became(q, r, D, g, N),
           \A i \in (1..Len(q)) \ D : \E k \in N : SameItem(q[i], r[k])
    PROVE  /\ \A i : InQueue(q, i) => InQueue(r, i)
           /\ (\A k \in N : r[k].action # "quit") /\ HasQuit(r) => HasQuit(q)
<1>1. ASSUME NEW i, InQueue(q, i)
      PROVE  InQueue(r, i)
  <2>1. PICK j \in 1..Len(q) : Loads(q[j], i)
    BY <1>1 DEF InQueue
  <2>2. \E k \in 1..Len(r) : SameItem(q[j], r[k])
    BY <2>1 DEF Became
  <2>3. PICK k \in 1..Len(r) : SameItem(q[j], r[k])
    BY <2>2
  <2>4. Loads(r[k], i)
    BY <2>1, <2>3, SameKnown
  <2> QED BY <2>4 DEF InQueue
<1>2. ASSUME \A k \in N : r[k].action # "quit", HasQuit(r)
      PROVE  HasQuit(q)
  <2>1. PICK k \in 1..Len(r) : r[k].action = "quit"
    BY <1>2 DEF HasQuit
  <2>2. PICK i \in D : k = g[i]
    BY <1>2, <2>1 DEF Became
  <2>3. i \in 1..Len(q) /\ q[i].action = "quit"
    BY <2>1, <2>2 DEF Became, SameItem
  <2> QED BY <2>3 DEF HasQuit
<1> QED
  BY <1>1, <1>2

-------------------------------------------------------------------------------
(***************************************************************************)
(* What the operations on the queue keep.                                  *)
(***************************************************************************)

\* an operation that puts one item into the queue, or changes one nobody has asked for
LEMMA Changed ==
    ASSUME NEW ls, NEW n, NEW rel, NEW q, NEW r, NEW D, NEW g, NEW m,
           QueueOK(ls, n, rel, q), Moved(q, r, D, g, {m}), r[m].action = "file" => ~r[m].queued,
           \A i \in (1..Len(q)) \ D : ~q[i].queued /\ SameItem(q[i], r[m]),
           IsFull(r[m]) => \A i \in Requested(q) : g[i] < m,
           IsDiff(r[m]) => \A i \in AskedDiffs(q) : g[i] < m,
           NewOK(ls, n, rel, r, m)
    PROVE  /\ QueueOK(ls, n, rel, r) /\ Carries(q, r)
           /\ r[m].action # "quit" /\ HasQuit(r) => HasQuit(q)
<1>1. q \in Seq(Items) /\ r \in Seq(Items) /\ Became(q, r, D, g, {m})
  BY DEF Moved
<1>2. Requested(q) \subseteq D /\ AskedDiffs(q) \subseteq D
  BY DEF Requested, Fulls, AskedDiffs, Diffs
<1>3. FullsKept(q, r, D, g) /\ DiffsKept(q, r, D, g)
  BY DEF FullsKept, DiffsKept, Moved
<1>4. FullsLast(q, r, D, g, {m}) /\ DiffsLast(q, r, D, g, {m})
  BY DEF FullsLast, DiffsLast, IsFull, IsDiff
<1>5. /\ QueueOK(ls, n, rel, r)
      /\ \A s \in Seq(Requests) : FullsAsked(q, s) => FullsAsked(r, s)
      /\ \A t \in Seq(Nat) : DiffsAsked(q, t) => DiffsAsked(r, t)
  BY <1>1, <1>2, <1>3, <1>4, QueueStays
<1>6. /\ \A i : InQueue(q, i) => InQueue(r, i)
      /\ (\A k \in {m} : r[k].action # "quit") /\ HasQuit(r) => HasQuit(q)
  <2>1. \A i \in (1..Len(q)) \ D : \E k \in {m} : SameItem(q[i], r[k])
    OBVIOUS
  <2> QED BY <1>1, <2>1, NothingTaken
<1> QED
  BY <1>5, <1>6 DEF Carries

\* an item put at the end
LEMMA PutLast ==
    ASSUME NEW ls, NEW n, NEW rel, NEW q, NEW x \in Items,
           QueueOK(ls, n, rel, q), x.action = "file" => ~x.queued,
           Known(ls, n, x), Held(ls, rel, x),
           Reads(x) => \A i \in 1..Len(q) :
                          q[i].action = "stop" => LineIn(ls, x.id).share # ls[q[i].id].share
    PROVE  /\ QueueOK(ls, n, rel, Append(q, x)) /\ Carries(q, Append(q, x))
           /\ x.action # "quit" /\ HasQuit(Append(q, x)) => HasQuit(q)
           /\ \A i : Loads(x, i) => InQueue(Append(q, x), i)
<1> DEFINE r == Append(q, x)
           g == [i \in 1..Len(q) |-> i]
           m == Len(q) + 1
<1>1. q \in Seq(Items)
  BY DEF QueueOK
<1>2. Len(r) = m /\ r[m] = x /\ Moved(q, r, 1..Len(q), g, {m})
  BY <1>1, Appended
<1>3. \A i \in 1..Len(q) : r[i] = q[i] /\ g[i] < m
  BY <1>1
<1>4. Requested(q) \subseteq 1..Len(q) /\ AskedDiffs(q) \subseteq 1..Len(q) /\ Len(q) \in Nat
  BY <1>1 DEF Requested, Fulls, AskedDiffs, Diffs
<1> HIDE DEF r, g
<1>5. NewOK(ls, n, rel, r, m)
  <2>1. \A i \in 1..Len(r) : ~(m < i)
    BY <1>2, <1>4
  <2>2. \A i \in 1..Len(r) : i < m => i \in 1..Len(q)
    BY <1>2, <1>4
  <2> HIDE DEF m
  <2> QED BY <1>2, <1>3, <2>1, <2>2 DEF NewOK
<1>6. \A i \in (1..Len(q)) \ (1..Len(q)) : ~q[i].queued /\ SameItem(q[i], r[m])
  OBVIOUS
<1> HIDE DEF m
<1>7. /\ QueueOK(ls, n, rel, r) /\ Carries(q, r)
      /\ r[m].action # "quit" /\ HasQuit(r) => HasQuit(q)
  <2>1. /\ r[m].action = "file" => ~r[m].queued
        /\ IsFull(r[m]) => \A i \in Requested(q) : g[i] < m
        /\ IsDiff(r[m]) => \A i \in AskedDiffs(q) : g[i] < m
    BY <1>2, <1>3, <1>4
  <2> QED BY <1>2, <1>5, <1>6, <2>1, Changed
<1>8. \A i : Loads(x, i) => InQueue(r, i)
  <2>1. m \in 1..Len(r)
    BY <1>2, <1>4 DEF m
  <2> QED BY <1>2, <2>1 DEF InQueue
<1> QED
  BY <1>2, <1>7, <1>8 DEF r

\* the mark that the backup was stopped, at the front
LEMMA PutSkip ==
    ASSUME NEW ls, NEW n, NEW rel, NEW q, NEW x \in Items,
           QueueOK(ls, n, rel, q), x.action = "skip"
    PROVE  /\ QueueOK(ls, n, rel, <<x>> \o q) /\ Carries(q, <<x>> \o q)
           /\ HasQuit(<<x>> \o q) => HasQuit(q)
<1> DEFINE r == <<x>> \o q
           g == [i \in 1..Len(q) |-> i + 1]
<1>1. q \in Seq(Items)
  BY DEF QueueOK
<1>2. Len(r) = Len(q) + 1 /\ r[1] = x /\ Moved(q, r, 1..Len(q), g, {1})
  BY <1>1, Prepended
<1> HIDE DEF r, g
<1>3. NewOK(ls, n, rel, r, 1)
  BY <1>2 DEF NewOK, Known, Held, Reads
<1>4. \A i \in (1..Len(q)) \ (1..Len(q)) : ~q[i].queued /\ SameItem(q[i], r[1])
  OBVIOUS
<1>5. r[1].action # "file" /\ ~IsFull(r[1]) /\ ~IsDiff(r[1]) /\ r[1].action # "quit"
  BY <1>2 DEF IsFull, IsDiff
<1>6. /\ QueueOK(ls, n, rel, r) /\ Carries(q, r)
      /\ r[1].action # "quit" /\ HasQuit(r) => HasQuit(q)
  BY <1>2, <1>3, <1>4, <1>5, Changed
<1> QED
  BY <1>5, <1>6 DEF r

\* the end of a script, put in behind the requests
LEMMA PutScriptEnd ==
    ASSUME NEW ls, NEW n, NEW rel, NEW q, NEW x \in Items, QueueOK(ls, n, rel, q),
           Known(ls, n, x), IsFull(x), x.script, ~x.queued
    PROVE  LET r == InsertAt(q, EarliestPlace(q, FALSE), x)
           IN /\ QueueOK(ls, n, rel, r) /\ Carries(q, r)
              /\ HasQuit(r) => HasQuit(q)
<1> DEFINE p == EarliestPlace(q, FALSE)
           r == InsertAt(q, p, x)
           g == [i \in 1..Len(q) |-> IF i < p THEN i ELSE i + 1]
<1>1. q \in Seq(Items) /\ FullsInOrder(q)
  BY DEF QueueOK
<1>2. p \in 1..(Len(q) + 1) /\ \A i \in Requested(q) : i < p
  BY <1>1, PlaceBehindRequests
<1> HIDE DEF p
<1>3. Len(r) = Len(q) + 1 /\ r[p] = x /\ Moved(q, r, 1..Len(q), g, {p})
  BY <1>1, <1>2, Inserted
<1>4. \A i \in Requested(q) : g[i] < p
  BY <1>2 DEF Requested, Fulls
<1> HIDE DEF r, g
<1>5. NewOK(ls, n, rel, r, p)
  BY <1>3 DEF NewOK, Held, Reads, IsFull
<1>6. \A i \in (1..Len(q)) \ (1..Len(q)) : ~q[i].queued /\ SameItem(q[i], r[p])
  OBVIOUS
<1>7. ~r[p].queued /\ ~IsDiff(r[p]) /\ r[p].action # "quit"
  BY <1>3 DEF IsFull, IsDiff
<1>8. /\ QueueOK(ls, n, rel, r) /\ Carries(q, r)
      /\ r[p].action # "quit" /\ HasQuit(r) => HasQuit(q)
  BY <1>3, <1>4, <1>5, <1>6, <1>7, Changed
<1> QED
  BY <1>7, <1>8 DEF r, p

\* a difference that comes back as a whole file
LEMMA PutLate ==
    ASSUME NEW ls, NEW n, NEW rel, NEW q, NEW x \in Items, QueueOK(ls, n, rel, q),
           Known(ls, n, x), Held(ls, rel, x), IsDiff(x), ~x.queued
    PROVE  /\ QueueOK(ls, n, rel, InsertLate(q, x)) /\ Carries(q, InsertLate(q, x))
           /\ HasQuit(InsertLate(q, x)) => HasQuit(q)
           /\ \A i : Loads(x, i) => InQueue(InsertLate(q, x), i)
<1> DEFINE r == InsertLate(q, x)
           y == [x EXCEPT !.full = TRUE, !.switched = TRUE]
<1>1. q \in Seq(Items) /\ FullsInOrder(q) /\ x.action = "file"
  BY DEF QueueOK, IsDiff
<1>2. PICK g, m : /\ m \in 1..Len(r)
                  /\ Moved(q, r, 1..Len(q), g, {m})
                  /\ r[m] = y
                  /\ \A i \in Requested(q) : g[i] < m
                  /\ \A k \in 1..Len(r) : IsBarrier(r[k]) => m < k
  BY <1>1, InsertedLate
<1>3. y.action = "file" /\ y.full /\ ~y.queued /\ SameItem(x, y)
  BY <1>1 DEF Items, SameItem
<1> HIDE DEF y, r
<1>4. Known(ls, n, y) /\ Held(ls, rel, y) /\ \A i : Loads(x, i) <=> Loads(y, i)
  BY <1>3, SameKnown
<1>5. NewOK(ls, n, rel, r, m)
  <2>1. \A i \in 1..Len(r) : r[i].action = "stop" => ~(i < m)
    <3>1. \A i \in 1..Len(r) : m < i => ~(i < m)
      BY <1>2
    <3> QED BY <1>2, <3>1 DEF IsBarrier
  <2> QED BY <1>2, <1>3, <1>4, <2>1 DEF NewOK
<1>6. \A i \in (1..Len(q)) \ (1..Len(q)) : ~q[i].queued /\ SameItem(q[i], r[m])
  OBVIOUS
<1>7. ~r[m].queued /\ ~IsDiff(r[m]) /\ r[m].action # "quit"
  BY <1>2, <1>3 DEF IsDiff
<1>8. /\ QueueOK(ls, n, rel, r) /\ Carries(q, r)
      /\ r[m].action # "quit" /\ HasQuit(r) => HasQuit(q)
  BY <1>2, <1>5, <1>6, <1>7, Changed
<1>9. \A i : Loads(x, i) => InQueue(r, i)
  BY <1>2, <1>4 DEF InQueue
<1> QED
  BY <1>7, <1>8, <1>9 DEF r

\* What preparing the difference at place p makes of the queue.
Prepared(q, p, found) ==
    IF found = "none" THEN SwitchToFull(q, p) ELSE [q EXCEPT ![p].prepared = found]

\* The difference at place p of q is at place m of r: it is a whole file, behind all that were
\* asked for, or a difference that was prepared, in its old place; nothing else changed.
PreparedTo(q, p, r, g, m) ==
    /\ m \in 1..Len(r)
    /\ Moved(q, r, (1..Len(q)) \ {p}, g, {m})
    /\ SameItem(q[p], r[m]) /\ ~r[m].queued /\ ~Unprepared(r[m])
    /\ IsFull(r[m]) => \A i \in Requested(q) : g[i] < m
    /\ IsDiff(r[m]) => m = p /\ \A i \in (1..Len(q)) \ {p} : g[i] = i
    /\ \A k \in 1..Len(r) :
          k < m /\ IsBarrier(r[k]) => \E i \in (1..Len(q)) \ {p} : i < p /\ k = g[i]

\* where preparing leaves the difference
LEMMA PreparedMoved ==
    ASSUME NEW q \in Seq(Items), NEW p \in 1..Len(q), Unprepared(q[p]), FullsInOrder(q),
           NEW found \in {"none", "yes", "error"}
    PROVE  \E g, m : PreparedTo(q, p, Prepared(q, p, found), g, m)
<1> DEFINE D == (1..Len(q)) \ {p}
           r == Prepared(q, p, found)
<1>1. q[p] \in Items /\ IsDiff(q[p]) /\ ~q[p].queued /\ q[p].prepared = "no" /\ q[p].action = "file"
  BY DEF Unprepared, IsDiff
<1>2. CASE found = "none"
  <2> DEFINE x == [q[p] EXCEPT !.full = TRUE, !.switched = TRUE]
  <2>1. r = SwitchToFull(q, p)
    BY <1>2 DEF Prepared
  <2> DEFINE z == SwitchToFull(q, p)
  <2>2. \E g : \E m \in 1..Len(z) :
           /\ Moved(q, z, D, g, {m})
           /\ z[m] = x
           /\ \A i \in Requested(q) : g[i] < m
           /\ \A k \in 1..Len(z) :
                 k < m /\ IsBarrier(z[k]) => \E i \in 1..Len(q) : i < p /\ k = g[i]
    BY <1>1, SwitchedToFull
  <2> HIDE DEF x, r, z, D
  <2>3. PICK g, m : /\ m \in 1..Len(r)
                    /\ Moved(q, r, D, g, {m})
                    /\ r[m] = x
                    /\ \A i \in Requested(q) : g[i] < m
                    /\ \A k \in 1..Len(r) :
                          k < m /\ IsBarrier(r[k]) => \E i \in 1..Len(q) : i < p /\ k = g[i]
    BY <2>1, <2>2 DEF z
  <2> USE DEF D
  <2>4. SameItem(q[p], x) /\ ~x.queued /\ x.full
    BY <1>1 DEF Items, SameItem, x
  <2>5. ~Unprepared(x) /\ ~IsDiff(x)
    BY <2>4 DEF Unprepared, IsDiff
  <2>6. ASSUME NEW k \in 1..Len(r), k < m, IsBarrier(r[k])
        PROVE  \E i \in D : i < p /\ k = g[i]
    <3>1. PICK i \in 1..Len(q) : i < p /\ k = g[i]
      BY <2>3, <2>6
    <3>2. i # p
      BY <3>1
    <3> QED BY <3>1, <3>2
  <2> HIDE DEF D
  <2>7. /\ m \in 1..Len(r)
        /\ Moved(q, r, D, g, {m})
        /\ SameItem(q[p], r[m]) /\ ~r[m].queued /\ ~Unprepared(r[m])
        /\ IsFull(r[m]) => \A i \in Requested(q) : g[i] < m
        /\ IsDiff(r[m]) => m = p /\ \A i \in D : g[i] = i
        /\ \A k \in 1..Len(r) :
              k < m /\ IsBarrier(r[k]) => \E i \in D : i < p /\ k = g[i]
    BY <2>3, <2>4, <2>5, <2>6
  <2> QED BY <2>7 DEF D, r, PreparedTo
<1>3. CASE found # "none"
  <2> DEFINE g == [i \in D |-> i]
             x == [q[p] EXCEPT !.prepared = found]
  <2>1. r = [q EXCEPT ![p] = x]
    BY <1>3 DEF Prepared
  <2>2. x \in Items /\ SameItem(q[p], x) /\ ~x.queued /\ ~x.full /\ x.prepared = found
    <3>1. found \in {"no", "yes", "error"} /\ q[p] \in Items /\ ~q[p].full
      BY <1>1, <1>3 DEF IsDiff
    <3>2. x \in Items
      BY <3>1 DEF Items
    <3> QED BY <1>1, <3>1, <3>2 DEF Items, SameItem
  <2> HIDE DEF x, r
  <2>3. r \in Seq(Items) /\ Len(r) = Len(q) /\ r[p] = x /\ \A i \in D : r[i] = q[i]
    BY <2>1, <2>2
  <2>4. Became(q, r, D, g, {p})
    BY <2>3 DEF Became, SameItem
  <2>5. Moved(q, r, D, g, {p})
    BY <2>3, <2>4 DEF Moved
  <2>6. ~IsFull(r[p]) /\ ~Unprepared(r[p])
    BY <1>3, <2>2, <2>3 DEF IsFull, Unprepared
  <2>7. ASSUME NEW k \in 1..Len(r), k < p
        PROVE  \E i \in D : i < p /\ k = g[i]
    BY <2>3, <2>7
  <2>8. p \in 1..Len(r) /\ \A i \in D : g[i] = i
    BY <2>3
  <2> HIDE DEF g, D
  <2>9. /\ p \in 1..Len(r)
        /\ Moved(q, r, D, g, {p})
        /\ SameItem(q[p], r[p]) /\ ~r[p].queued /\ ~Unprepared(r[p])
        /\ IsFull(r[p]) => \A i \in Requested(q) : g[i] < p
        /\ IsDiff(r[p]) => p = p /\ \A i \in D : g[i] = i
        /\ \A k \in 1..Len(r) :
              k < p /\ IsBarrier(r[k]) => \E i \in D : i < p /\ k = g[i]
    BY <2>2, <2>3, <2>5, <2>6, <2>7, <2>8
  <2> QED BY <2>9 DEF D, r, PreparedTo
<1> QED
  BY <1>2, <1>3

\* Preparing a difference keeps the queue in order.
LEMMA PreparedOK ==
    ASSUME NEW ls, NEW n, NEW rel, NEW q, QueueOK(ls, n, rel, q), NEW p \in 1..Len(q),
           Unprepared(q[p]), NEW found \in {"none", "yes", "error"}
    PROVE  /\ QueueOK(ls, n, rel, Prepared(q, p, found)) /\ Carries(q, Prepared(q, p, found))
           /\ HasQuit(Prepared(q, p, found)) => HasQuit(q)
<1> DEFINE D == (1..Len(q)) \ {p}
           r == Prepared(q, p, found)
<1>1. q \in Seq(Items) /\ FullsInOrder(q) /\ DiffsInOrder(q) /\ DiffsReady(q)
  BY DEF QueueOK
<1>2. \E g, m : PreparedTo(q, p, r, g, m)
  BY <1>1, PreparedMoved
<1> HIDE DEF r
<1>3. PICK g, m : /\ m \in 1..Len(r)
                  /\ Moved(q, r, D, g, {m})
                  /\ SameItem(q[p], r[m]) /\ ~r[m].queued /\ ~Unprepared(r[m])
                  /\ IsFull(r[m]) => \A i \in Requested(q) : g[i] < m
                  /\ IsDiff(r[m]) => m = p /\ \A i \in D : g[i] = i
                  /\ \A k \in 1..Len(r) :
                        k < m /\ IsBarrier(r[k]) => \E i \in D : i < p /\ k = g[i]
  BY <1>2 DEF PreparedTo
<1>4. \A i \in (1..Len(q)) \ D : ~q[i].queued /\ SameItem(q[i], r[m])
  BY <1>3 DEF Unprepared
<1>5. ASSUME IsDiff(r[m]), NEW i \in AskedDiffs(q)
      PROVE  g[i] < m
  <2>1. i \in 1..Len(q) /\ IsDiff(q[i]) /\ q[i].queued
    BY DEF AskedDiffs, Diffs
  <2>2. i # p /\ p \in Diffs(q) /\ p \notin AskedDiffs(q) /\ q[p].prepared # "error"
    BY <2>1 DEF AskedDiffs, Diffs, Unprepared
  <2>3. ~(p < i)
    BY <1>1, <2>2 DEF DiffsInOrder
  <2>4. i < p
    BY <2>1, <2>2, <2>3
  <2> QED BY <1>3, <1>5, <2>1, <2>2, <2>4
<1>6. NewOK(ls, n, rel, r, m)
  <2>1. Known(ls, n, q[p]) /\ Held(ls, rel, q[p])
    BY DEF QueueOK, AllKnown
  <2>2. Known(ls, n, r[m]) /\ Held(ls, rel, r[m]) /\ r[m].action # "stop" /\ r[m].id = q[p].id
    BY <1>3, <2>1, SameKnown DEF SameItem, Unprepared, IsDiff
  <2>3. ASSUME Reads(r[m]), NEW k \in 1..Len(r), k < m, r[k].action = "stop"
        PROVE  LineIn(ls, r[m].id).share # ls[r[k].id].share
    <3>1. PICK i \in D : i < p /\ k = g[i]
      BY <1>3, <2>3 DEF IsBarrier
    <3>2. r[k] = q[i]
      BY <1>3, <3>1 DEF Moved
    <3>3. Reads(q[p])
      BY <1>3, <2>3, SameKnown
    <3> QED BY <2>2, <2>3, <3>1, <3>2, <3>3 DEF QueueOK, StopsLast
  <2> QED BY <2>2, <2>3 DEF NewOK
<1>7. /\ QueueOK(ls, n, rel, r) /\ Carries(q, r)
      /\ r[m].action # "quit" /\ HasQuit(r) => HasQuit(q)
  <2> HIDE DEF D
  <2> QED BY <1>3, <1>4, <1>5, <1>6, Changed
<1>8. r[m].action # "quit"
  BY <1>3 DEF SameItem, Unprepared, IsDiff
<1> QED
  BY <1>7, <1>8 DEF r

-------------------------------------------------------------------------------
(***************************************************************************)
(* Preparing differences, one and all that it takes.                       *)
(***************************************************************************)

\* the first difference to prepare, the first whole file and the first difference to ask for
LEMMA FirstUnprepared ==
    ASSUME NEW q \in Seq(Items), NEW d, d = SelectInSeq(q, Unprepared)
    PROVE  /\ d # 0 => d \in 1..Len(q) /\ Unprepared(q[d])
           /\ d = 0 => \A i \in 1..Len(q) : ~Unprepared(q[i])
<1> DEFINE T == {i \in 1..Len(q) : Unprepared(q[i])}
<1>1. d = IF T # {} THEN Min(T) ELSE 0
  BY DEF SelectInSeq
<1>2. T # {} => Min(T) \in T
  <2>1. T \in SUBSET Nat
    OBVIOUS
  <2> QED BY <2>1, LeastOf
<1>3. 0 \notin T
  OBVIOUS
<1>4. T # {} => d \in T /\ d # 0
  <2> HIDE DEF T
  <2> QED BY <1>1, <1>2, <1>3
<1>5. T = {} => d = 0
  BY <1>1
<1>6. d = 0 => T = {}
  BY <1>4
<1>7. ASSUME d # 0
      PROVE  d \in 1..Len(q) /\ Unprepared(q[d])
  <2>1. d \in T
    <3> HIDE DEF T
    <3> QED BY <1>4, <1>5, <1>7
  <2> QED BY <2>1
<1>8. ASSUME d = 0, NEW i \in 1..Len(q)
      PROVE  ~Unprepared(q[i])
  <2>1. i \notin T
    <3> HIDE DEF T
    <3> QED BY <1>6, <1>8
  <2> QED BY <2>1
<1> QED
  BY <1>7, <1>8

\* the first whole file to ask for: all before it were asked for
LEMMA FirstAskable ==
    ASSUME NEW q \in Seq(Items), NEW d, d = SelectInSeq(q, Askable), d > 0
    PROVE  d \in 1..Len(q) /\ Askable(q[d]) /\ \A i \in 1..Len(q) : Askable(q[i]) => d <= i
<1> DEFINE T == {i \in 1..Len(q) : Askable(q[i])}
<1>1. d = IF T # {} THEN Min(T) ELSE 0
  BY DEF SelectInSeq
<1>2. T \in SUBSET Nat /\ T # {} /\ d = Min(T)
  BY <1>1
<1>3. d \in T /\ \A i \in T : d <= i
  <2> HIDE DEF T
  <2> QED BY <1>2, LeastOf
<1> QED
  BY <1>3

\* the first difference to ask for, or none
LEMMA FirstAskableDiff ==
    ASSUME NEW q \in Seq(Items), NEW d, d = SelectInSeq(q, AskableDiff)
    PROVE  d = 0 \/ /\ d \in 1..Len(q) /\ AskableDiff(q[d])
                    /\ \A i \in 1..Len(q) : AskableDiff(q[i]) => d <= i
<1> DEFINE T == {i \in 1..Len(q) : AskableDiff(q[i])}
<1>1. d = IF T # {} THEN Min(T) ELSE 0
  BY DEF SelectInSeq
<1>2. ASSUME d # 0
      PROVE  T \in SUBSET Nat /\ T # {} /\ d = Min(T)
  BY <1>1, <1>2
<1>3. ASSUME d # 0
      PROVE  d \in T /\ \A i \in T : d <= i
  <2> HIDE DEF T
  <2> QED BY <1>2, <1>3, LeastOf
<1> QED
  BY <1>3

\* What preparing finds is one of three.
LEMMA FoundSome ==
    ASSUME NEW item
    PROVE  Found(item) \in {"none", "yes", "error"}
BY DEF Found

\* A queue carries itself, and what is carried on is carried.
LEMMA Carried ==
    ASSUME NEW q, NEW r, NEW s, Carries(q, r), Carries(r, s)
    PROVE  Carries(q, q) /\ Carries(q, s)
BY DEF Carries

\* nothing done
LEMMA CarriesItself ==
    ASSUME NEW q
    PROVE  Carries(q, q)
BY DEF Carries

\* What fillQueue prepares for the connection for whole files keeps the queue in order.
LEMMA FullPreparedOK ==
    ASSUME NEW n, NEW rel, QueueOK(list, n, rel, dl_queue)
    PROVE  /\ QueueOK(list, n, rel, FullPrepared[1]) /\ Carries(dl_queue, FullPrepared[1])
           /\ HasQuit(FullPrepared[1]) => HasQuit(dl_queue)
<1> DEFINE d == SelectInSeq(dl_queue, Unprepared)
           f == SelectInSeq(dl_queue, Askable)
<1>1. CASE d = 0 \/ (f > 0 /\ f < d)
  <2>1. FullPrepared[1] = dl_queue
    BY <1>1 DEF FullPrepared, queue
  <2> QED BY <2>1, CarriesItself
<1>2. CASE ~(d = 0 \/ (f > 0 /\ f < d))
  <2>1. FullPrepared[1] = Prepared(dl_queue, d, Found(dl_queue[d]))
    <3>1. CASE Found(dl_queue[d]) = "none"
      BY <1>2, <3>1 DEF FullPrepared, Prepared
    <3>2. CASE Found(dl_queue[d]) # "none"
      BY <1>2, <3>2 DEF FullPrepared, Prepared
    <3> QED BY <3>1, <3>2
  <2>2. dl_queue \in Seq(Items)
    BY DEF QueueOK
  <2>3. d \in 1..Len(dl_queue) /\ Unprepared(dl_queue[d])
    BY <1>2, <2>2, FirstUnprepared
  <2> HIDE DEF d
  <2> QED BY <2>1, <2>3, FoundSome, PreparedOK
<1> QED
  BY <1>1, <1>2

\* the differences still to prepare
ToPrepare(q) == {i \in 1..Len(q) : Unprepared(q[i])}

\* Nothing is left to prepare before the next difference is asked for.
Settled(q) ==
    LET d == SelectInSeq(q, AskableDiff) IN d = 0 \/ q[d].prepared = "yes"

\* Preparing leaves one less.
LEMMA PreparedFewer ==
    ASSUME NEW q \in Seq(Items), NEW p \in 1..Len(q), Unprepared(q[p]), FullsInOrder(q),
           NEW found \in {"none", "yes", "error"}
    PROVE  /\ IsFiniteSet(ToPrepare(q)) /\ IsFiniteSet(ToPrepare(Prepared(q, p, found)))
           /\ Cardinality(ToPrepare(Prepared(q, p, found))) \in Nat
           /\ Cardinality(ToPrepare(Prepared(q, p, found))) <= Cardinality(ToPrepare(q)) - 1
<1> DEFINE r == Prepared(q, p, found)
           D == (1..Len(q)) \ {p}
           U == ToPrepare(q) \ {p}
<1>1. PICK g, m : PreparedTo(q, p, r, g, m)
  BY PreparedMoved
<1> HIDE DEF r
<1> DEFINE V == {g[i] : i \in U}
<1>2. IsFiniteSet(ToPrepare(q)) /\ p \in ToPrepare(q)
  <2>1. ToPrepare(q) \subseteq 1..Len(q) /\ Len(q) \in Nat
    BY DEF ToPrepare
  <2>2. IsFiniteSet(1..Len(q))
    BY <2>1, FS_Interval
  <2>3. IsFiniteSet(ToPrepare(q))
    BY <2>1, <2>2, FS_Subset
  <2> QED BY <2>3 DEF ToPrepare
<1>3. IsFiniteSet(U) /\ Cardinality(U) = Cardinality(ToPrepare(q)) - 1
  BY <1>2, FS_RemoveElement
<1>4. IsFiniteSet(V) /\ Cardinality(V) <= Cardinality(U)
  <2> DEFINE f == [i \in U |-> g[i]]
  <2> HIDE DEF U
  <2>1. f \in Surjection(U, V)
    BY DEF Surjection
  <2> HIDE DEF V, f
  <2> QED BY <1>3, <2>1, FS_Surjection
<1>5. ToPrepare(r) \subseteq V
  <2> SUFFICES ASSUME NEW k \in ToPrepare(r)
               PROVE  k \in V
    OBVIOUS
  <2>1. k \in 1..Len(r) /\ Unprepared(r[k])
    BY DEF ToPrepare
  <2>2. Became(q, r, D, g, {m}) /\ (\A i \in D : r[g[i]] = q[i]) /\ ~Unprepared(r[m])
    BY <1>1 DEF PreparedTo, Moved
  <2>3. PICK i \in D : k = g[i]
    BY <2>1, <2>2 DEF Became
  <2>4. Unprepared(q[i])
    BY <2>1, <2>2, <2>3
  <2> QED BY <2>3, <2>4 DEF ToPrepare
<1>6. IsFiniteSet(ToPrepare(r)) /\ Cardinality(ToPrepare(r)) <= Cardinality(V)
  <2> HIDE DEF V
  <2> QED BY <1>4, <1>5, FS_Subset
<1>7. /\ Cardinality(ToPrepare(q)) \in Nat /\ Cardinality(ToPrepare(r)) \in Nat
      /\ Cardinality(U) \in Nat /\ Cardinality(V) \in Nat
  <2> HIDE DEF U, V
  <2> QED BY <1>2, <1>3, <1>4, <1>6, FS_CardinalityType
<1>8. Cardinality(ToPrepare(r)) <= Cardinality(ToPrepare(q)) - 1
  <2> HIDE DEF U, V
  <2> QED BY <1>3, <1>4, <1>6, <1>7
<1> QED
  BY <1>2, <1>6, <1>7, <1>8 DEF r

\* how far preparing has got after k rounds, of L, from q to r
Round(n, rel, q, r, k, L) ==
    /\ QueueOK(list, n, rel, r) /\ Carries(q, r)
    /\ HasQuit(r) => HasQuit(q)
    /\ IsFiniteSet(ToPrepare(r)) /\ Cardinality(ToPrepare(r)) \in Nat
    /\ Settled(r) \/ Cardinality(ToPrepare(r)) <= L - k

\* one round
LEMMA RoundNext ==
    ASSUME NEW n, NEW rel, NEW q, NEW qs, NEW k \in Nat, NEW L \in Nat,
           Round(n, rel, q, qs[1], k, L)
    PROVE  Round(n, rel, q, PrepareNext(qs)[1], k + 1, L)
<1> DEFINE u == qs[1]
           d == SelectInSeq(u, AskableDiff)
<1>1. u \in Seq(Items) /\ FullsInOrder(u)
  BY DEF Round, QueueOK
<1>2. CASE d = 0 \/ u[d].prepared = "yes"
  <2>1. PrepareNext(qs) = qs /\ Settled(u)
    BY <1>2 DEF PrepareNext, Settled
  <2> QED BY <2>1 DEF Round
<1>3. CASE ~(d = 0 \/ u[d].prepared = "yes")
  <2> DEFINE r == Prepared(u, d, Found(u[d]))
  <2>1. PrepareNext(qs)[1] = r
    <3>1. CASE Found(u[d]) = "none"
      BY <1>3, <3>1 DEF PrepareNext, Prepared
    <3>2. CASE Found(u[d]) # "none"
      BY <1>3, <3>2 DEF PrepareNext, Prepared
    <3> QED BY <3>1, <3>2
  <2>2. d \in 1..Len(u) /\ AskableDiff(u[d])
    BY <1>1, <1>3, FirstAskableDiff
  <2>3. Unprepared(u[d])
    <3>1. u[d] \in Items
      BY <1>1, <2>2
    <3> QED BY <1>3, <2>2, <3>1 DEF Unprepared, AskableDiff, Items
  <2>4. ~Settled(u)
    BY <1>3 DEF Settled
  <2> HIDE DEF d, u
  <2>5. QueueOK(list, n, rel, u) /\ Carries(q, u) /\ (HasQuit(u) => HasQuit(q))
    BY DEF Round, u
  <2>6. /\ QueueOK(list, n, rel, r) /\ Carries(u, r)
        /\ HasQuit(r) => HasQuit(u)
    BY <2>2, <2>3, <2>5, FoundSome, PreparedOK
  <2>7. /\ IsFiniteSet(ToPrepare(r)) /\ Cardinality(ToPrepare(r)) \in Nat
        /\ Cardinality(ToPrepare(r)) <= Cardinality(ToPrepare(u)) - 1
    BY <1>1, <2>2, <2>3, FoundSome, PreparedFewer
  <2>8. Cardinality(ToPrepare(u)) \in Nat /\ Cardinality(ToPrepare(u)) <= L - k
    BY <2>4 DEF Round, u
  <2>9. Cardinality(ToPrepare(r)) <= L - (k + 1)
    BY <2>7, <2>8
  <2>10. Carries(q, r)
    BY <2>5, <2>6, Carried
  <2> QED BY <2>1, <2>5, <2>6, <2>7, <2>9, <2>10 DEF Round
<1> QED
  BY <1>2, <1>3

\* The least of a set of numbers that is not empty.
LEMMA LeastBad ==
    ASSUME NEW Bad \in SUBSET Nat, Bad # {}
    PROVE  \E b \in Bad : \A c \in Bad : ~(c < b)
<1>1. Min(Bad) \in Bad /\ \A i \in Bad : Min(Bad) <= i
  BY LeastOf
<1>2. ASSUME NEW c \in Bad
      PROVE  ~(c < Min(Bad))
  <2>1. c \in Nat /\ Min(Bad) \in Nat /\ Min(Bad) <= c
    BY <1>1
  <2> QED BY <2>1
<1> QED
  BY <1>1, <1>2

\* h is what L rounds of preparing make of x.
Rounds(h, L, x) == h = [k \in 0..L |-> IF k = 0 THEN x ELSE PrepareNext(h[k - 1])]

\* The rounds of preparing are a function of their number.
LEMMA RoundsExist ==
    ASSUME NEW L \in Nat, NEW x
    PROVE  \E h : Rounds(h, L, x)
<1> DEFINE Bad == {m \in Nat : ~ \E h : Rounds(h, m, x)}
<1> SUFFICES ASSUME Bad # {}
             PROVE  FALSE
  OBVIOUS
<1>1. PICK m \in Bad : \A c \in Bad : ~(c < m)
  <2>1. Bad \in SUBSET Nat
    OBVIOUS
  <2> HIDE DEF Bad
  <2> QED BY <2>1, LeastBad
<1>2. m # 0
  <2> SUFFICES ASSUME m = 0
               PROVE  FALSE
    OBVIOUS
  <2> DEFINE h == [k \in 0..0 |-> x]
  <2>1. h = [k \in 0..0 |-> IF k = 0 THEN x ELSE PrepareNext(h[k - 1])]
    OBVIOUS
  <2>2. Rounds(h, 0, x)
    BY <2>1 DEF Rounds
  <2> QED BY <2>2
<1>3. m - 1 \in Nat /\ m - 1 < m
  BY <1>2
<1>4. PICK h : Rounds(h, m - 1, x)
  BY <1>1, <1>3
<1> DEFINE g == [k \in 0..m |-> IF k = m THEN PrepareNext(h[m - 1]) ELSE h[k]]
<1>5. g = [k \in 0..m |-> IF k = 0 THEN x ELSE PrepareNext(g[k - 1])]
  <2> SUFFICES ASSUME NEW k \in 0..m
               PROVE  g[k] = IF k = 0 THEN x ELSE PrepareNext(g[k - 1])
    OBVIOUS
  <2>1. CASE k = 0
    <3>1. 0 \in 0..(m - 1)
      BY <1>3
    <3>2. h[0] = x
      BY <1>4, <3>1 DEF Rounds
    <3>3. g[k] = h[0]
      BY <1>2, <2>1
    <3> QED BY <2>1, <3>2, <3>3
  <2>2. CASE k = m
    <3>1. g[k] = PrepareNext(h[m - 1])
      BY <2>2
    <3>2. m - 1 \in 0..m /\ m - 1 # m
      BY <1>3
    <3>3. g[m - 1] = h[m - 1]
      BY <3>2
    <3> QED BY <1>2, <2>2, <3>1, <3>3
  <2>3. CASE k # 0 /\ k # m
    <3>1. k \in 0..(m - 1) /\ k - 1 \in 0..m /\ k - 1 # m
      BY <2>3
    <3>2. h[k] = PrepareNext(h[k - 1])
      BY <1>4, <2>3, <3>1 DEF Rounds
    <3>3. g[k] = h[k] /\ g[k - 1] = h[k - 1]
      BY <2>3, <3>1
    <3> QED BY <2>3, <3>2, <3>3
  <2> QED BY <2>1, <2>2, <2>3
<1>6. Rounds(g, m, x)
  BY <1>5 DEF Rounds
<1> QED
  BY <1>6

\* getQueuedFileChunked: once all rounds are over, the next difference was prepared.
LEMMA DiffPreparedOK ==
    ASSUME NEW n, NEW rel, QueueOK(list, n, rel, dl_queue)
    PROVE  /\ QueueOK(list, n, rel, DiffPrepared[1]) /\ Carries(dl_queue, DiffPrepared[1])
           /\ HasQuit(DiffPrepared[1]) => HasQuit(dl_queue)
           /\ LET d == SelectInSeq(DiffPrepared[1], AskableDiff)
              IN d = 0 \/ DiffPrepared[1][d].prepared = "yes"
<1> DEFINE L == Len(dl_queue)
           after == CHOOSE h : h = [k \in 0..L |-> IF k = 0 THEN queue ELSE PrepareNext(h[k - 1])]
<1>1. DiffPrepared = after[L]
  BY DEF DiffPrepared
<1>2. dl_queue \in Seq(Items) /\ L \in Nat
  BY DEF QueueOK
<1>3. after = [k \in 0..L |-> IF k = 0 THEN queue ELSE PrepareNext(after[k - 1])]
  <2>1. PICK h : Rounds(h, L, queue)
    <3> HIDE DEF L
    <3> QED BY <1>2, RoundsExist
  <2>2. h = [k \in 0..L |-> IF k = 0 THEN queue ELSE PrepareNext(h[k - 1])]
    BY <2>1 DEF Rounds
  <2> QED BY <2>2
<1> HIDE DEF after
<1>4. after[0] = queue
  BY <1>2, <1>3
<1>5. \A k \in 1..L : after[k] = PrepareNext(after[k - 1])
  <2> SUFFICES ASSUME NEW k \in 1..L
               PROVE  after[k] = PrepareNext(after[k - 1])
    OBVIOUS
  <2>1. k \in 0..L /\ k # 0
    BY <1>2
  <2> QED BY <1>3, <2>1
<1>6. Round(n, rel, dl_queue, after[0][1], 0, L)
  <2>1. after[0][1] = dl_queue
    BY <1>4 DEF queue
  <2>2. ToPrepare(dl_queue) \subseteq 1..L
    BY DEF ToPrepare
  <2>3. IsFiniteSet(1..L) /\ Cardinality(1..L) = L
    <3>1. 1 \in Int /\ L \in Int
      BY <1>2
    <3>2. IsFiniteSet(1..L) /\ Cardinality(1..L) = IF 1 > L THEN 0 ELSE L - 1 + 1
      BY <3>1, FS_Interval
    <3> QED BY <1>2, <3>2
  <2>4. IsFiniteSet(ToPrepare(dl_queue)) /\ Cardinality(ToPrepare(dl_queue)) <= L
    BY <2>2, <2>3, FS_Subset
  <2>5. Cardinality(ToPrepare(dl_queue)) \in Nat
    BY <2>4, FS_CardinalityType
  <2>6. Cardinality(ToPrepare(dl_queue)) <= L - 0
    BY <1>2, <2>4, <2>5
  <2> QED BY <2>1, <2>4, <2>5, <2>6, CarriesItself DEF Round
<1> DEFINE Bad == {k \in 0..L : ~Round(n, rel, dl_queue, after[k][1], k, L)}
<1>7. Bad = {}
  <2> SUFFICES ASSUME Bad # {}
               PROVE  FALSE
    OBVIOUS
  <2>1. PICK b \in Bad : \A c \in Bad : ~(c < b)
    <3>1. Bad \in SUBSET Nat
      BY <1>2
    <3> HIDE DEF Bad
    <3> QED BY <3>1, LeastBad
  <2>2. b # 0 /\ b \in 1..L /\ b - 1 \in 0..L /\ b - 1 < b /\ b - 1 \in Nat
    BY <1>2, <1>6, <2>1
  <2>3. Round(n, rel, dl_queue, after[b - 1][1], b - 1, L)
    BY <2>1, <2>2
  <2>4. Round(n, rel, dl_queue, PrepareNext(after[b - 1])[1], (b - 1) + 1, L)
    <3> HIDE DEF L, Bad
    <3> QED BY <1>2, <2>2, <2>3, RoundNext
  <2>5. (b - 1) + 1 = b
    BY <2>2
  <2> QED BY <1>5, <2>1, <2>2, <2>4, <2>5
<1>8. Round(n, rel, dl_queue, after[L][1], L, L)
  BY <1>2, <1>7
<1> DEFINE r == after[L][1]
<1>9. Settled(r)
  <2> DEFINE d == SelectInSeq(r, AskableDiff)
  <2>1. r \in Seq(Items)
    BY <1>8 DEF Round, QueueOK
  <2> HIDE DEF r, L
  <2>2. ASSUME d # 0, r[d].prepared # "yes"
        PROVE  ~(Cardinality(ToPrepare(r)) <= L - L)
    <3>1. d \in 1..Len(r) /\ AskableDiff(r[d])
      BY <2>1, <2>2, FirstAskableDiff
    <3>2. r[d] \in Items
      BY <2>1, <3>1
    <3>3. Unprepared(r[d])
      BY <2>2, <3>1, <3>2 DEF Unprepared, AskableDiff, Items
    <3>4. ToPrepare(r) # {}
      BY <3>1, <3>3 DEF ToPrepare
    <3>5. IsFiniteSet(ToPrepare(r)) /\ Cardinality(ToPrepare(r)) \in Nat
      BY <1>8 DEF Round, r
    <3>6. Cardinality(ToPrepare(r)) # 0
      BY <3>4, <3>5, FS_EmptySet
    <3> QED BY <1>2, <3>5, <3>6
  <2>3. Settled(r) \/ Cardinality(ToPrepare(r)) <= L - L
    BY <1>8 DEF Round, r
  <2> QED BY <2>2, <2>3 DEF Settled
<1> QED
  BY <1>1, <1>8, <1>9 DEF Round, Settled

-------------------------------------------------------------------------------
(***************************************************************************)
(* Marking what was asked for, forgetting it, and taking the first item.   *)
(***************************************************************************)

\* Only marks of requests differ.
Remarked(q, r) ==
    /\ r \in Seq(Items) /\ Len(r) = Len(q)
    /\ \A i \in 1..Len(q) :
          SameItem(q[i], r[i]) /\ r[i].full = q[i].full /\ r[i].prepared = q[i].prepared

\* The marks change nothing else that holds of the queue.
LEMMA RemarkedRest ==
    ASSUME NEW ls, NEW n, NEW rel, NEW q, NEW r, QueueOK(ls, n, rel, q), Remarked(q, r)
    PROVE  /\ AllKnown(ls, n, rel, r) /\ StopsLast(ls, r)
           /\ Fulls(r) = Fulls(q) /\ Diffs(r) = Diffs(q)
           /\ \A i : InQueue(q, i) => InQueue(r, i)
           /\ HasQuit(r) => HasQuit(q)
<1> DEFINE g == [i \in 1..Len(q) |-> i]
<1>1. q \in Seq(Items) /\ r \in Seq(Items) /\ Len(r) = Len(q) /\ Len(q) \in Nat
  BY DEF QueueOK, Remarked
<1>2. \A i \in 1..Len(q) : SameItem(q[i], r[i])
  BY DEF Remarked
<1>3. Became(q, r, 1..Len(q), g, {})
  BY <1>1, <1>2 DEF Became
<1> HIDE DEF g
<1>4. AllKnown(ls, n, rel, r) /\ StopsLast(ls, r)
  <2>1. AllKnown(ls, n, rel, q) /\ StopsLast(ls, q)
    BY DEF QueueOK
  <2>2. \A k \in {} : NewOK(ls, n, rel, r, k)
    OBVIOUS
  <2> QED BY <1>1, <1>3, <2>1, <2>2, StopsStay
<1>5. /\ \A i : InQueue(q, i) => InQueue(r, i)
      /\ HasQuit(r) => HasQuit(q)
  <2>1. \A i \in (1..Len(q)) \ (1..Len(q)) : \E k \in {} : SameItem(q[i], r[k])
    OBVIOUS
  <2> QED BY <1>3, <2>1, NothingTaken
<1>6. Fulls(r) = Fulls(q) /\ Diffs(r) = Diffs(q)
  BY <1>1, <1>2 DEF Remarked, Fulls, Diffs, IsFull, IsDiff, SameItem
<1> QED
  BY <1>4, <1>5, <1>6

\* The same whole files are asked for, or the same differences.
LEMMA RemarkedFulls ==
    ASSUME NEW q \in Seq(Items), NEW r, Remarked(q, r), Fulls(r) = Fulls(q),
           Requested(r) = Requested(q)
    PROVE  /\ FullsInOrder(q) => FullsInOrder(r)
           /\ \A s : FullsAsked(q, s) => FullsAsked(r, s)
<1>1. FullsInOrder(q) => FullsInOrder(r)
  BY DEF FullsInOrder
<1>2. ASSUME NEW s, FullsAsked(q, s)
      PROVE  FullsAsked(r, s)
  <2>1. PICK f : /\ Enumerates(f, Len(s), Requested(q))
                 /\ \A k \in 1..Len(s) : s[k] = Request(q[f[k]])
    BY <1>2 DEF FullsAsked
  <2>2. ASSUME NEW k \in 1..Len(s)
        PROVE  s[k] = Request(r[f[k]])
    <3>1. f[k] \in 1..Len(q)
      BY <2>1 DEF Enumerates, Requested, Fulls
    <3>2. SameItem(q[f[k]], r[f[k]])
      BY <3>1 DEF Remarked
    <3> QED BY <2>1, <3>2 DEF SameItem, Request
  <2> QED BY <2>1, <2>2 DEF FullsAsked
<1> QED
  BY <1>1, <1>2

\* the same of differences
LEMMA RemarkedDiffs ==
    ASSUME NEW q \in Seq(Items), NEW r, Remarked(q, r), Diffs(r) = Diffs(q),
           AskedDiffs(r) = AskedDiffs(q)
    PROVE  /\ DiffsInOrder(q) => DiffsInOrder(r)
           /\ DiffsReady(q) => DiffsReady(r)
           /\ \A t : DiffsAsked(q, t) => DiffsAsked(r, t)
<1>1. \A i \in Diffs(q) : i \in 1..Len(q) /\ r[i].prepared = q[i].prepared
  BY DEF Diffs, Remarked
<1>2. DiffsInOrder(q) => DiffsInOrder(r)
  BY <1>1 DEF DiffsInOrder
<1>3. DiffsReady(q) => DiffsReady(r)
  BY <1>1 DEF DiffsReady, AskedDiffs
<1>4. ASSUME NEW t, DiffsAsked(q, t)
      PROVE  DiffsAsked(r, t)
  <2>1. PICK f : /\ Enumerates(f, Len(t), AskedDiffs(q))
                 /\ \A k \in 1..Len(t) : t[k] = q[f[k]].id
    BY <1>4 DEF DiffsAsked
  <2>2. ASSUME NEW k \in 1..Len(t)
        PROVE  t[k] = r[f[k]].id
    <3>1. f[k] \in 1..Len(q)
      BY <2>1 DEF Enumerates, AskedDiffs, Diffs
    <3>2. SameItem(q[f[k]], r[f[k]])
      BY <3>1 DEF Remarked
    <3> QED BY <2>1, <3>2 DEF SameItem
  <2> QED BY <2>1, <2>2 DEF DiffsAsked
<1> QED
  BY <1>2, <1>3, <1>4

\* The mark of the item at place f is set.
LEMMA MarkSet ==
    ASSUME NEW q \in Seq(Items), NEW f \in 1..Len(q)
    PROVE  LET r == [q EXCEPT ![f].queued = TRUE]
           IN  /\ Remarked(q, r) /\ r[f].queued
               /\ \A i \in 1..Len(q) : i # f => r[i] = q[i]
<1> DEFINE x == [q[f] EXCEPT !.queued = TRUE]
           r == [q EXCEPT ![f].queued = TRUE]
<1>1. q[f] \in Items
  OBVIOUS
<1>2. x \in Items /\ SameItem(q[f], x) /\ x.full = q[f].full /\ x.prepared = q[f].prepared
      /\ x.queued
  BY <1>1 DEF Items, SameItem
<1>3. r = [q EXCEPT ![f] = x]
  OBVIOUS
<1> HIDE DEF x, r
<1>4. /\ r \in Seq(Items) /\ Len(r) = Len(q) /\ r[f] = x
      /\ \A i \in 1..Len(q) : i # f => r[i] = q[i]
  BY <1>2, <1>3
<1>5. Remarked(q, r)
  BY <1>2, <1>4 DEF Remarked, SameItem
<1> QED
  BY <1>2, <1>4, <1>5 DEF r

\* A whole file is asked for: it is the last of them.
LEMMA FullMarked ==
    ASSUME NEW ls, NEW n, NEW rel, NEW q, QueueOK(ls, n, rel, q),
           NEW f, f = SelectInSeq(q, Askable), f > 0
    PROVE  LET r == [q EXCEPT ![f].queued = TRUE]
           IN  /\ f \in 1..Len(q)
               /\ QueueOK(ls, n, rel, r)
               /\ \A s \in Seq(Requests) :
                     FullsAsked(q, s) => FullsAsked(r, Append(s, Request(q[f])))
               /\ \A t : DiffsAsked(q, t) => DiffsAsked(r, t)
               /\ \A i : InQueue(q, i) => InQueue(r, i)
               /\ HasQuit(r) => HasQuit(q)
<1> DEFINE r == [q EXCEPT ![f].queued = TRUE]
<1>1. q \in Seq(Items) /\ Len(q) \in Nat
  BY DEF QueueOK
<1>2. f \in 1..Len(q) /\ Askable(q[f]) /\ \A i \in 1..Len(q) : Askable(q[i]) => f <= i
  BY <1>1, FirstAskable
<1>3. /\ Remarked(q, r) /\ r[f].queued
      /\ \A i \in 1..Len(q) : i # f => r[i] = q[i]
  BY <1>1, <1>2, MarkSet
<1> HIDE DEF r
<1>4. /\ AllKnown(ls, n, rel, r) /\ StopsLast(ls, r)
      /\ Fulls(r) = Fulls(q) /\ Diffs(r) = Diffs(q)
      /\ \A i : InQueue(q, i) => InQueue(r, i)
      /\ HasQuit(r) => HasQuit(q)
  BY <1>3, RemarkedRest
<1>5. Requested(r) = Requested(q) \cup {f}
  <2>1. f \in Fulls(q)
    BY <1>2 DEF Fulls, Askable
  <2> QED BY <1>3, <1>4, <2>1 DEF Requested, Fulls
<1>6. AskedDiffs(r) = AskedDiffs(q)
  <2>1. f \notin Diffs(q)
    BY <1>2 DEF Diffs, Askable, IsFull, IsDiff
  <2> QED BY <1>3, <1>4, <2>1 DEF AskedDiffs, Diffs
<1>7. \A i \in Requested(q) : i < f
  <2> SUFFICES ASSUME NEW i \in Requested(q)
               PROVE  i < f
    OBVIOUS
  <2>1. f \in Fulls(q) /\ f \notin Requested(q) /\ i \in 1..Len(q) /\ i # f
    BY <1>2 DEF Fulls, Requested, Askable
  <2>2. ~(f < i)
    BY <2>1 DEF QueueOK, FullsInOrder
  <2> QED BY <1>1, <1>2, <2>1, <2>2
<1>8. FullsInOrder(r)
  <2> SUFFICES ASSUME NEW i \in Fulls(q), NEW j \in Requested(r), i < j
               PROVE  i \in Requested(r)
    BY <1>4 DEF FullsInOrder
  <2>1. i \in 1..Len(q) /\ IsFull(q[i]) /\ j \in 1..Len(q) /\ j <= f
    <3>1. \A k \in Requested(q) : k \in 1..Len(q)
      BY DEF Requested, Fulls
    <3> QED BY <1>2, <1>5, <1>7, <3>1 DEF Fulls
  <2>2. i < f
    BY <1>2, <2>1
  <2>3. ~Askable(q[i])
    <3>1. ~(f <= i) /\ i \in 1..Len(q)
      BY <1>2, <2>1, <2>2
    <3>2. \A k \in 1..Len(q) : Askable(q[k]) => f <= k
      BY <1>2
    <3> HIDE DEF Askable
    <3> QED BY <3>1, <3>2
  <2>4. i \in Requested(q)
    BY <2>1, <2>3 DEF Askable, Requested, Fulls
  <2> QED BY <1>5, <2>4
<1>9. DiffsInOrder(r) /\ DiffsReady(r) /\ \A t : DiffsAsked(q, t) => DiffsAsked(r, t)
  <2>1. DiffsInOrder(q) /\ DiffsReady(q)
    BY DEF QueueOK
  <2> QED BY <1>1, <1>3, <1>4, <1>6, <2>1, RemarkedDiffs
<1>10. QueueOK(ls, n, rel, r)
  <2>1. r \in Seq(Items)
    BY <1>3 DEF Remarked
  <2> QED BY <1>4, <1>8, <1>9, <2>1 DEF QueueOK
<1>11. ASSUME NEW s \in Seq(Requests), FullsAsked(q, s)
       PROVE  FullsAsked(r, Append(s, Request(q[f])))
  <2> DEFINE u == Append(s, Request(q[f]))
  <2>1. PICK h : /\ Enumerates(h, Len(s), Requested(q))
                 /\ \A k \in 1..Len(s) : s[k] = Request(q[h[k]])
    BY <1>11 DEF FullsAsked
  <2> DEFINE g == [k \in 1..(Len(s) + 1) |-> IF k = Len(s) + 1 THEN f ELSE h[k]]
  <2>2. /\ Len(s) \in Nat /\ Len(u) = Len(s) + 1 /\ u[Len(s) + 1] = Request(q[f])
        /\ \A k \in 1..Len(s) : u[k] = s[k]
    OBVIOUS
  <2> HIDE DEF u
  <2>3. Enumerates(g, Len(s) + 1, Requested(r))
    <3>1. Requested(q) \in SUBSET Nat /\ f \in Nat
      BY <1>2 DEF Requested, Fulls
    <3>2. Enumerates(g, Len(s) + 1, Requested(q) \cup {f})
      BY <1>7, <2>1, <2>2, <3>1, EnumeratesNext
    <3> QED BY <1>5, <3>2
  <2>4. ASSUME NEW k \in 1..(Len(s) + 1)
        PROVE  u[k] = Request(r[g[k]])
    <3>1. CASE k = Len(s) + 1
      <4>1. g[k] = f /\ SameItem(q[f], r[f])
        BY <1>2, <1>3, <3>1 DEF Remarked
      <4> QED BY <2>2, <3>1, <4>1 DEF SameItem, Request
    <3>2. CASE k # Len(s) + 1
      <4>1. k \in 1..Len(s) /\ g[k] = h[k]
        BY <2>2, <3>2
      <4>2. h[k] \in 1..Len(q)
        BY <2>1, <4>1 DEF Enumerates, Requested, Fulls
      <4>3. SameItem(q[h[k]], r[h[k]])
        BY <1>3, <4>2 DEF Remarked
      <4> QED BY <2>1, <2>2, <4>1, <4>3 DEF SameItem, Request
    <3> QED BY <3>1, <3>2
  <2> HIDE DEF g
  <2> QED BY <2>2, <2>3, <2>4 DEF FullsAsked, u
<1> QED
  BY <1>2, <1>4, <1>9, <1>10, <1>11 DEF r

\* A difference is asked for: it is the last of them.
LEMMA DiffMarked ==
    ASSUME NEW ls, NEW n, NEW rel, NEW q, QueueOK(ls, n, rel, q),
           NEW f, f = SelectInSeq(q, AskableDiff), f > 0, q[f].prepared = "yes"
    PROVE  LET r == [q EXCEPT ![f].queued = TRUE]
           IN  /\ f \in 1..Len(q)
               /\ QueueOK(ls, n, rel, r)
               /\ \A s : FullsAsked(q, s) => FullsAsked(r, s)
               /\ \A t \in Seq(Nat) : DiffsAsked(q, t) => DiffsAsked(r, Append(t, q[f].id))
               /\ \A i : InQueue(q, i) => InQueue(r, i)
               /\ HasQuit(r) => HasQuit(q)
<1> DEFINE r == [q EXCEPT ![f].queued = TRUE]
<1>1. q \in Seq(Items) /\ Len(q) \in Nat
  BY DEF QueueOK
<1>2. /\ f \in 1..Len(q) /\ AskableDiff(q[f])
      /\ \A i \in 1..Len(q) : AskableDiff(q[i]) => f <= i
  <2>1. f # 0
    OBVIOUS
  <2> QED BY <1>1, <2>1, FirstAskableDiff
<1>3. /\ Remarked(q, r) /\ r[f].queued
      /\ \A i \in 1..Len(q) : i # f => r[i] = q[i]
  BY <1>1, <1>2, MarkSet
<1> HIDE DEF r
<1>4. /\ AllKnown(ls, n, rel, r) /\ StopsLast(ls, r)
      /\ Fulls(r) = Fulls(q) /\ Diffs(r) = Diffs(q)
      /\ \A i : InQueue(q, i) => InQueue(r, i)
      /\ HasQuit(r) => HasQuit(q)
  BY <1>3, RemarkedRest
<1>5. AskedDiffs(r) = AskedDiffs(q) \cup {f}
  <2>1. f \in Diffs(q)
    BY <1>2 DEF Diffs, AskableDiff
  <2> QED BY <1>3, <1>4, <2>1 DEF AskedDiffs, Diffs
<1>6. Requested(r) = Requested(q)
  <2>1. f \notin Fulls(q)
    BY <1>2 DEF Fulls, AskableDiff, IsFull, IsDiff
  <2> QED BY <1>3, <1>4, <2>1 DEF Requested, Fulls
<1>7. \A i \in AskedDiffs(q) : i < f
  <2> SUFFICES ASSUME NEW i \in AskedDiffs(q)
               PROVE  i < f
    OBVIOUS
  <2>1. /\ f \in Diffs(q) /\ f \notin AskedDiffs(q) /\ i \in 1..Len(q) /\ i # f
        /\ q[f].prepared # "error"
    BY <1>2 DEF Diffs, AskedDiffs, AskableDiff
  <2>2. ~(f < i)
    BY <2>1 DEF QueueOK, DiffsInOrder
  <2> QED BY <1>1, <1>2, <2>1, <2>2
<1>8. DiffsInOrder(r)
  <2> SUFFICES ASSUME NEW i \in Diffs(q), NEW j \in AskedDiffs(r), i < j
               PROVE  i \in AskedDiffs(r) \/ r[i].prepared = "error"
    BY <1>4 DEF DiffsInOrder
  <2>1. i \in 1..Len(q) /\ IsDiff(q[i]) /\ j \in 1..Len(q) /\ j <= f
    <3>1. \A k \in AskedDiffs(q) : k \in 1..Len(q)
      BY DEF AskedDiffs, Diffs
    <3> QED BY <1>2, <1>5, <1>7, <3>1 DEF Diffs
  <2>2. i < f /\ i # f
    BY <1>2, <2>1
  <2>3. ~AskableDiff(q[i])
    <3>1. ~(f <= i) /\ i \in 1..Len(q)
      BY <1>2, <2>1, <2>2
    <3>2. \A k \in 1..Len(q) : AskableDiff(q[k]) => f <= k
      BY <1>2
    <3> HIDE DEF AskableDiff
    <3> QED BY <3>1, <3>2
  <2>4. i \in AskedDiffs(q) \/ q[i].prepared = "error"
    BY <2>1, <2>3 DEF AskableDiff, AskedDiffs, Diffs
  <2> QED BY <1>3, <1>5, <2>1, <2>2, <2>4
<1>9. DiffsReady(r)
  <2>1. r[f].prepared = "yes"
    BY <1>2, <1>3 DEF Remarked
  <2>2. ASSUME NEW i \in AskedDiffs(q)
        PROVE  r[i].prepared = "yes"
    <3>1. i \in 1..Len(q) /\ q[i].prepared = "yes"
      BY DEF QueueOK, DiffsReady, AskedDiffs, Diffs
    <3> QED BY <1>3, <3>1 DEF Remarked
  <2> QED BY <1>5, <2>1, <2>2 DEF DiffsReady
<1>10. FullsInOrder(r) /\ \A s : FullsAsked(q, s) => FullsAsked(r, s)
  <2>1. FullsInOrder(q)
    BY DEF QueueOK
  <2> QED BY <1>1, <1>3, <1>4, <1>6, <2>1, RemarkedFulls
<1>11. QueueOK(ls, n, rel, r)
  <2>1. r \in Seq(Items)
    BY <1>3 DEF Remarked
  <2> QED BY <1>4, <1>8, <1>9, <1>10, <2>1 DEF QueueOK
<1>12. ASSUME NEW t \in Seq(Nat), DiffsAsked(q, t)
       PROVE  DiffsAsked(r, Append(t, q[f].id))
  <2> DEFINE u == Append(t, q[f].id)
  <2>1. PICK h : /\ Enumerates(h, Len(t), AskedDiffs(q))
                 /\ \A k \in 1..Len(t) : t[k] = q[h[k]].id
    BY <1>12 DEF DiffsAsked
  <2> DEFINE g == [k \in 1..(Len(t) + 1) |-> IF k = Len(t) + 1 THEN f ELSE h[k]]
  <2>2. /\ Len(t) \in Nat /\ Len(u) = Len(t) + 1 /\ u[Len(t) + 1] = q[f].id
        /\ \A k \in 1..Len(t) : u[k] = t[k]
    OBVIOUS
  <2> HIDE DEF u
  <2>3. Enumerates(g, Len(t) + 1, AskedDiffs(r))
    <3>1. AskedDiffs(q) \in SUBSET Nat /\ f \in Nat
      BY <1>2 DEF AskedDiffs, Diffs
    <3>2. Enumerates(g, Len(t) + 1, AskedDiffs(q) \cup {f})
      BY <1>7, <2>1, <2>2, <3>1, EnumeratesNext
    <3> QED BY <1>5, <3>2
  <2>4. ASSUME NEW k \in 1..(Len(t) + 1)
        PROVE  u[k] = r[g[k]].id
    <3>1. CASE k = Len(t) + 1
      <4>1. g[k] = f /\ SameItem(q[f], r[f])
        BY <1>2, <1>3, <3>1 DEF Remarked
      <4> QED BY <2>2, <3>1, <4>1 DEF SameItem
    <3>2. CASE k # Len(t) + 1
      <4>1. k \in 1..Len(t) /\ g[k] = h[k]
        BY <2>2, <3>2
      <4>2. h[k] \in 1..Len(q)
        BY <2>1, <4>1 DEF Enumerates, AskedDiffs, Diffs
      <4>3. SameItem(q[h[k]], r[h[k]])
        BY <1>3, <4>2 DEF Remarked
      <4> QED BY <2>1, <2>2, <4>1, <4>3 DEF SameItem
    <3> QED BY <3>1, <3>2
  <2> HIDE DEF g
  <2> QED BY <2>2, <2>3, <2>4 DEF DiffsAsked, u
<1> QED
  BY <1>2, <1>4, <1>10, <1>11, <1>12 DEF r

\* Nothing was asked for.
LEMMA NothingAsked ==
    ASSUME NEW q
    PROVE  /\ Requested(q) = {} => FullsAsked(q, <<>>)
           /\ AskedDiffs(q) = {} => DiffsAsked(q, <<>>)
           /\ \A s \in Seq(Requests) : FullsAsked(q, s) => (s = <<>> <=> Requested(q) = {})
           /\ \A t \in Seq(Nat) : DiffsAsked(q, t) => (t = <<>> <=> AskedDiffs(q) = {})
<1> DEFINE f == [k \in {} |-> 0]
<1>1. Enumerates(f, 0, {}) /\ Len(<<>>) = 0
  BY DEF Enumerates
<1> HIDE DEF f
<1>2. Requested(q) = {} => FullsAsked(q, <<>>)
  BY <1>1 DEF FullsAsked
<1>3. AskedDiffs(q) = {} => DiffsAsked(q, <<>>)
  BY <1>1 DEF DiffsAsked
<1>4. ASSUME NEW s \in Seq(Requests), FullsAsked(q, s)
      PROVE  s = <<>> <=> Requested(q) = {}
  <2>1. PICK h : Enumerates(h, Len(s), Requested(q))
    BY <1>4 DEF FullsAsked
  <2>2. Len(s) \in Nat /\ (Len(s) = 0 <=> s = <<>>)
    OBVIOUS
  <2> QED BY <2>1, <2>2, EnumeratesNone
<1>5. ASSUME NEW t \in Seq(Nat), DiffsAsked(q, t)
      PROVE  t = <<>> <=> AskedDiffs(q) = {}
  <2>1. PICK h : Enumerates(h, Len(t), AskedDiffs(q))
    BY <1>5 DEF DiffsAsked
  <2>2. Len(t) \in Nat /\ (Len(t) = 0 <=> t = <<>>)
    OBVIOUS
  <2> QED BY <2>1, <2>2, EnumeratesNone
<1> QED
  BY <1>2, <1>3, <1>4, <1>5

\* resetQueueFull
LEMMA FullsReset ==
    ASSUME NEW ls, NEW n, NEW rel, NEW q, QueueOK(ls, n, rel, q)
    PROVE  LET r == ResetFull(q)
           IN  /\ QueueOK(ls, n, rel, r)
               /\ FullsAsked(r, <<>>)
               /\ \A t : DiffsAsked(q, t) => DiffsAsked(r, t)
               /\ \A i : InQueue(q, i) => InQueue(r, i)
               /\ HasQuit(r) => HasQuit(q)
<1> DEFINE r == ResetFull(q)
<1>1. q \in Seq(Items) /\ Len(q) \in Nat /\ DOMAIN q = 1..Len(q)
  BY DEF QueueOK
<1>2. ASSUME NEW i \in 1..Len(q)
      PROVE  /\ r[i] \in Items /\ SameItem(q[i], r[i])
             /\ r[i].full = q[i].full /\ r[i].prepared = q[i].prepared
             /\ IsFull(q[i]) => ~r[i].queued
             /\ ~IsFull(q[i]) => r[i].queued = q[i].queued
  <2>1. q[i] \in Items
    BY <1>1
  <2>2. r[i] = IF IsFull(q[i]) THEN [q[i] EXCEPT !.queued = FALSE] ELSE q[i]
    BY <1>1 DEF ResetFull
  <2>3. CASE IsFull(q[i])
    <3>1. r[i] = [q[i] EXCEPT !.queued = FALSE]
      BY <2>2, <2>3
    <3> HIDE DEF r
    <3> QED BY <2>1, <2>3, <3>1 DEF Items, SameItem
  <2>4. CASE ~IsFull(q[i])
    BY <2>1, <2>2, <2>4 DEF SameItem
  <2> QED BY <2>3, <2>4
<1>3. r \in Seq(Items) /\ Len(r) = Len(q)
  <2>1. \A i \in 1..Len(q) : r[i] \in Items
    BY <1>2
  <2>2. r = [i \in 1..Len(q) |-> r[i]]
    BY <1>1 DEF ResetFull
  <2> HIDE DEF r
  <2> QED BY <1>1, <2>1, <2>2
<1> HIDE DEF r
<1>4. Remarked(q, r)
  BY <1>2, <1>3 DEF Remarked
<1>5. /\ AllKnown(ls, n, rel, r) /\ StopsLast(ls, r)
      /\ Fulls(r) = Fulls(q) /\ Diffs(r) = Diffs(q)
      /\ \A i : InQueue(q, i) => InQueue(r, i)
      /\ HasQuit(r) => HasQuit(q)
  BY <1>4, RemarkedRest
<1>6. Requested(r) = {}
  BY <1>2, <1>5 DEF Requested, Fulls
<1>7. AskedDiffs(r) = AskedDiffs(q)
  BY <1>2, <1>5 DEF AskedDiffs, Diffs, IsFull, IsDiff
<1>8. FullsInOrder(r) /\ FullsAsked(r, <<>>)
  BY <1>6, NothingAsked DEF FullsInOrder
<1>9. DiffsInOrder(r) /\ DiffsReady(r) /\ \A t : DiffsAsked(q, t) => DiffsAsked(r, t)
  <2>1. DiffsInOrder(q) /\ DiffsReady(q)
    BY DEF QueueOK
  <2> QED BY <1>1, <1>4, <1>5, <1>7, <2>1, RemarkedDiffs
<1> QED
  BY <1>3, <1>5, <1>8, <1>9 DEF QueueOK, r

\* resetQueueChunked
LEMMA DiffsReset ==
    ASSUME NEW ls, NEW n, NEW rel, NEW q, QueueOK(ls, n, rel, q)
    PROVE  LET r == ResetDiffs(q)
           IN  /\ QueueOK(ls, n, rel, r)
               /\ DiffsAsked(r, <<>>)
               /\ \A s : FullsAsked(q, s) => FullsAsked(r, s)
               /\ \A i : InQueue(q, i) => InQueue(r, i)
               /\ HasQuit(r) => HasQuit(q)
<1> DEFINE r == ResetDiffs(q)
<1>1. q \in Seq(Items) /\ Len(q) \in Nat /\ DOMAIN q = 1..Len(q)
  BY DEF QueueOK
<1>2. ASSUME NEW i \in 1..Len(q)
      PROVE  /\ r[i] \in Items /\ SameItem(q[i], r[i])
             /\ r[i].full = q[i].full /\ r[i].prepared = q[i].prepared
             /\ IsDiff(q[i]) => ~r[i].queued
             /\ ~IsDiff(q[i]) => r[i].queued = q[i].queued
  <2>1. q[i] \in Items
    BY <1>1
  <2>2. r[i] = IF IsDiff(q[i]) THEN [q[i] EXCEPT !.queued = FALSE] ELSE q[i]
    BY <1>1 DEF ResetDiffs
  <2>3. CASE IsDiff(q[i])
    <3>1. r[i] = [q[i] EXCEPT !.queued = FALSE]
      BY <2>2, <2>3
    <3> HIDE DEF r
    <3> QED BY <2>1, <2>3, <3>1 DEF Items, SameItem
  <2>4. CASE ~IsDiff(q[i])
    BY <2>1, <2>2, <2>4 DEF SameItem
  <2> QED BY <2>3, <2>4
<1>3. r \in Seq(Items) /\ Len(r) = Len(q)
  <2>1. \A i \in 1..Len(q) : r[i] \in Items
    BY <1>2
  <2>2. r = [i \in 1..Len(q) |-> r[i]]
    BY <1>1 DEF ResetDiffs
  <2> HIDE DEF r
  <2> QED BY <1>1, <2>1, <2>2
<1> HIDE DEF r
<1>4. Remarked(q, r)
  BY <1>2, <1>3 DEF Remarked
<1>5. /\ AllKnown(ls, n, rel, r) /\ StopsLast(ls, r)
      /\ Fulls(r) = Fulls(q) /\ Diffs(r) = Diffs(q)
      /\ \A i : InQueue(q, i) => InQueue(r, i)
      /\ HasQuit(r) => HasQuit(q)
  BY <1>4, RemarkedRest
<1>6. AskedDiffs(r) = {}
  BY <1>2, <1>5 DEF AskedDiffs, Diffs
<1>7. Requested(r) = Requested(q)
  BY <1>2, <1>5 DEF Requested, Fulls, IsFull, IsDiff
<1>8. DiffsInOrder(r) /\ DiffsReady(r) /\ DiffsAsked(r, <<>>)
  BY <1>6, NothingAsked DEF DiffsInOrder, DiffsReady
<1>9. FullsInOrder(r) /\ \A s : FullsAsked(q, s) => FullsAsked(r, s)
  <2>1. FullsInOrder(q)
    BY DEF QueueOK
  <2> QED BY <1>1, <1>4, <1>5, <1>7, <2>1, RemarkedFulls
<1> QED
  BY <1>3, <1>5, <1>8, <1>9 DEF QueueOK, r

\* what is behind the first item
LEMMA Behind ==
    ASSUME NEW q \in Seq(Items), q # <<>>
    PROVE  /\ Tail(q) \in Seq(Items) /\ Len(Tail(q)) = Len(q) - 1 /\ Len(q) \in Nat \ {0}
           /\ \A k \in 1..(Len(q) - 1) : Tail(q)[k] = q[k + 1]
           /\ 1 \in 1..Len(q) /\ Head(q) = q[1] /\ Head(q) \in Items
           /\ \A k : k \in Requested(Tail(q)) <=> k \in Nat \ {0} /\ k + 1 \in Requested(q)
           /\ \A k : k \in AskedDiffs(Tail(q)) <=> k \in Nat \ {0} /\ k + 1 \in AskedDiffs(q)
<1>1. /\ Tail(q) \in Seq(Items) /\ Len(Tail(q)) = Len(q) - 1 /\ Len(q) \in Nat \ {0}
      /\ \A k \in 1..(Len(q) - 1) : Tail(q)[k] = q[k + 1]
      /\ 1 \in 1..Len(q) /\ Head(q) = q[1] /\ Head(q) \in Items
  OBVIOUS
<1> DEFINE r == Tail(q)
<1> HIDE DEF r
<1>2. Len(r) = Len(q) - 1 /\ \A k \in 1..(Len(q) - 1) : r[k] = q[k + 1]
  BY <1>1 DEF r
<1>3. \A k : k \in 1..Len(r) <=> k \in Nat \ {0} /\ k + 1 \in 1..Len(q)
  BY <1>1, <1>2
<1>4. \A k \in 1..Len(r) : r[k] = q[k + 1]
  BY <1>2
<1>5. \A k : k \in Requested(r) <=> k \in Nat \ {0} /\ k + 1 \in Requested(q)
  BY <1>3, <1>4 DEF Requested, Fulls
<1>6. \A k : k \in AskedDiffs(r) <=> k \in Nat \ {0} /\ k + 1 \in AskedDiffs(q)
  BY <1>3, <1>4 DEF AskedDiffs, Diffs
<1> QED
  BY <1>1, <1>5, <1>6 DEF r

\* The first item taken, the rest is as it was; the snapshot that a first item ends is not
\* needed for the rest.
LEMMA TailOK ==
    ASSUME NEW ls, NEW n, NEW rel, NEW q, QueueOK(ls, n, rel, q), q # <<>>
    PROVE  /\ QueueOK(ls, n, rel, Tail(q))
           /\ Head(q) \in Items /\ Known(ls, n, Head(q)) /\ Held(ls, rel, Head(q))
           /\ Head(q).action = "stop" => QueueOK(ls, n, rel \cup {ls[Head(q).id].share}, Tail(q))
           /\ IsDiff(Head(q)) /\ Head(q).queued => Head(q).prepared = "yes"
           /\ \A i : InQueue(q, i) => Loads(Head(q), i) \/ InQueue(Tail(q), i)
           /\ Head(q).action = "quit" \/ HasQuit(Tail(q)) => HasQuit(q)
<1> DEFINE r == Tail(q)
<1>1. q \in Seq(Items)
  BY DEF QueueOK
<1>2. /\ r \in Seq(Items) /\ Len(r) = Len(q) - 1 /\ Len(q) \in Nat \ {0}
      /\ \A k \in 1..(Len(q) - 1) : r[k] = q[k + 1]
      /\ 1 \in 1..Len(q) /\ Head(q) = q[1] /\ Head(q) \in Items
      /\ \A k : k \in Requested(r) <=> k \in Nat \ {0} /\ k + 1 \in Requested(q)
      /\ \A k : k \in AskedDiffs(r) <=> k \in Nat \ {0} /\ k + 1 \in AskedDiffs(q)
  BY <1>1, Behind
<1> HIDE DEF r
<1>3. \A k \in 1..Len(r) : k + 1 \in 1..Len(q) /\ r[k] = q[k + 1] /\ k \in Nat \ {0}
  BY <1>2
<1>4. FullsInOrder(r)
  <2> SUFFICES ASSUME NEW i \in Fulls(r), NEW j \in Requested(r), i < j
               PROVE  i \in Requested(r)
    BY DEF FullsInOrder
  <2>1. i \in 1..Len(r) /\ j \in 1..Len(r)
    BY DEF Fulls, Requested
  <2>2. i + 1 \in Fulls(q) /\ j + 1 \in Requested(q) /\ i + 1 < j + 1
    BY <1>2, <1>3, <2>1 DEF Fulls
  <2>3. i + 1 \in Requested(q)
    BY <2>2 DEF QueueOK, FullsInOrder
  <2> QED BY <1>2, <1>3, <2>1, <2>3
<1>5. DiffsInOrder(r)
  <2> SUFFICES ASSUME NEW i \in Diffs(r), NEW j \in AskedDiffs(r), i < j
               PROVE  i \in AskedDiffs(r) \/ r[i].prepared = "error"
    BY DEF DiffsInOrder
  <2>1. i \in 1..Len(r) /\ j \in 1..Len(r)
    BY DEF Diffs, AskedDiffs
  <2>2. i + 1 \in Diffs(q) /\ j + 1 \in AskedDiffs(q) /\ i + 1 < j + 1
    BY <1>2, <1>3, <2>1 DEF Diffs
  <2>3. i + 1 \in AskedDiffs(q) \/ q[i + 1].prepared = "error"
    BY <2>2 DEF QueueOK, DiffsInOrder
  <2> QED BY <1>2, <1>3, <2>1, <2>3
<1>6. DiffsReady(r)
  <2> SUFFICES ASSUME NEW j \in AskedDiffs(r)
               PROVE  r[j].prepared = "yes"
    BY DEF DiffsReady
  <2>1. j \in 1..Len(r) /\ j + 1 \in AskedDiffs(q)
    BY <1>2 DEF AskedDiffs, Diffs
  <2>2. q[j + 1].prepared = "yes"
    BY <2>1 DEF QueueOK, DiffsReady
  <2> QED BY <1>3, <2>1, <2>2
<1>7. AllKnown(ls, n, rel, r)
  BY <1>3 DEF AllKnown, QueueOK
<1>8. StopsLast(ls, r)
  <2> SUFFICES ASSUME NEW i \in 1..Len(r), NEW j \in 1..Len(r), i < j,
                      r[i].action = "stop", Reads(r[j])
               PROVE  LineIn(ls, r[j].id).share # ls[r[i].id].share
    BY DEF StopsLast
  <2>1. i + 1 \in 1..Len(q) /\ j + 1 \in 1..Len(q) /\ i + 1 < j + 1
    BY <1>3
  <2>2. r[i] = q[i + 1] /\ r[j] = q[j + 1]
    BY <1>3
  <2> QED BY <2>1, <2>2 DEF QueueOK, StopsLast
<1>9. ASSUME Head(q).action = "stop"
      PROVE  AllKnown(ls, n, rel \cup {ls[Head(q).id].share}, r)
  <2> SUFFICES ASSUME NEW j \in 1..Len(r)
               PROVE  /\ Known(ls, n, r[j])
                      /\ Held(ls, rel \cup {ls[Head(q).id].share}, r[j])
    BY DEF AllKnown
  <2>1. Known(ls, n, r[j]) /\ Held(ls, rel, r[j])
    BY <1>7 DEF AllKnown
  <2>2. Reads(r[j]) => LineIn(ls, r[j].id).share # ls[Head(q).id].share
    <3>1. j + 1 \in 1..Len(q) /\ 1 < j + 1 /\ r[j] = q[j + 1]
      BY <1>3
    <3> QED BY <1>2, <1>9, <3>1 DEF QueueOK, StopsLast
  <2> QED BY <2>1, <2>2 DEF Held
<1>10. IsDiff(Head(q)) /\ Head(q).queued => Head(q).prepared = "yes"
  BY <1>2 DEF QueueOK, DiffsReady, AskedDiffs, Diffs
<1>11. ASSUME NEW i, InQueue(q, i)
       PROVE  Loads(Head(q), i) \/ InQueue(r, i)
  <2>1. PICK j \in 1..Len(q) : Loads(q[j], i)
    BY <1>11 DEF InQueue
  <2>2. CASE j = 1
    BY <1>2, <2>1, <2>2
  <2>3. CASE j # 1
    <3>1. j - 1 \in 1..Len(r) /\ j - 1 \in 1..(Len(q) - 1) /\ (j - 1) + 1 = j
      BY <1>2, <2>3
    <3>2. r[j - 1] = q[j]
      BY <1>2, <3>1
    <3> QED BY <2>1, <3>1, <3>2 DEF InQueue
  <2> QED BY <2>2, <2>3
<1>12. Head(q).action = "quit" \/ HasQuit(r) => HasQuit(q)
  BY <1>2, <1>3 DEF HasQuit
<1>13. Known(ls, n, Head(q)) /\ Held(ls, rel, Head(q))
  BY <1>2 DEF QueueOK, AllKnown
<1>14. QueueOK(ls, n, rel, r)
  BY <1>2, <1>4, <1>5, <1>6, <1>7, <1>8 DEF QueueOK
<1>15. ASSUME Head(q).action = "stop"
       PROVE  QueueOK(ls, n, rel \cup {ls[Head(q).id].share}, r)
  BY <1>2, <1>4, <1>5, <1>6, <1>8, <1>9, <1>15 DEF QueueOK
<1> QED
  BY <1>2, <1>10, <1>11, <1>12, <1>13, <1>14, <1>15 DEF r

\* The requests for whole files once the first item is taken.
LEMMA TailFulls ==
    ASSUME NEW q \in Seq(Items), q # <<>>, FullsInOrder(q),
           NEW s \in Seq(Requests), FullsAsked(q, s)
    PROVE  /\ ~(IsFull(Head(q)) /\ Head(q).queued) => FullsAsked(Tail(q), s)
           /\ IsFull(Head(q)) /\ ~Head(q).queued => s = <<>>
           /\ IsFull(Head(q)) /\ Head(q).queued =>
                 s # <<>> /\ Head(s) = Request(Head(q)) /\ FullsAsked(Tail(q), Tail(s))
<1> DEFINE r == Tail(q)
           P == Requested(q) \ {1}
           g == [i \in P |-> i - 1]
<1>1. /\ r \in Seq(Items) /\ Len(r) = Len(q) - 1 /\ Len(q) \in Nat \ {0}
      /\ \A k \in 1..(Len(q) - 1) : r[k] = q[k + 1]
      /\ 1 \in 1..Len(q) /\ Head(q) = q[1] /\ Head(q) \in Items
      /\ \A k : k \in Requested(r) <=> k \in Nat \ {0} /\ k + 1 \in Requested(q)
  BY Behind
<1> HIDE DEF r
<1>2. Requested(q) \in SUBSET Nat /\ \A i \in Requested(q) : i \in 1..Len(q) /\ 1 <= i
  BY <1>1 DEF Requested, Fulls
<1>3. P \in SUBSET Nat /\ Requested(r) \in SUBSET Nat
  BY <1>1, <1>2
<1>4. /\ \A i \in P : g[i] \in Requested(r) /\ g[i] \in 1..(Len(q) - 1) /\ g[i] + 1 = i
      /\ \A i, j \in P : i < j => g[i] < g[j]
  <2>1. \A i \in P : i \in Nat /\ i # 1 /\ 1 <= i /\ i <= Len(q)
    BY <1>1, <1>2
  <2>2. \A i \in P : i - 1 \in Nat \ {0} /\ (i - 1) + 1 = i /\ i - 1 \in 1..(Len(q) - 1)
    BY <1>1, <2>1
  <2>3. \A i \in P : i - 1 \in Requested(r)
    BY <1>1, <2>2
  <2> QED BY <2>1, <2>2, <2>3, SMTT(30)
<1>5. \A k \in Requested(r) : \E i \in P : k = g[i]
  <2> SUFFICES ASSUME NEW k \in Requested(r)
               PROVE  k + 1 \in P /\ k = g[k + 1]
    OBVIOUS
  <2>1. k \in Nat \ {0} /\ k + 1 \in Requested(q)
    BY <1>1
  <2> QED BY <2>1
<1>6. \A i \in P : r[g[i]] = q[i]
  BY <1>1, <1>4
<1>7. PICK f : /\ Enumerates(f, Len(s), Requested(q))
               /\ \A k \in 1..Len(s) : s[k] = Request(q[f[k]])
  BY DEF FullsAsked
<1> HIDE DEF g
<1>8. ASSUME 1 \notin Requested(q)
      PROVE  FullsAsked(r, s)
  <2> DEFINE h == [k \in 1..Len(s) |-> g[f[k]]]
  <2>1. P = Requested(q)
    BY <1>8
  <2> HIDE DEF P
  <2>2. Enumerates(h, Len(s), Requested(r))
    <3>1. Enumerates(f, Len(s), P) /\ Len(s) \in Nat
      BY <1>7, <2>1
    <3> QED BY <1>3, <1>4, <1>5, <3>1, EnumeratesMoved
  <2>3. \A k \in 1..Len(s) : s[k] = Request(r[h[k]])
    <3>1. \A k \in 1..Len(s) : f[k] \in P
      BY <1>7, <2>1 DEF Enumerates
    <3> QED BY <1>6, <1>7, <3>1
  <2> QED BY <2>2, <2>3 DEF FullsAsked
<1>9. ASSUME 1 \in Requested(q)
      PROVE  s # <<>> /\ Head(s) = Request(q[1]) /\ FullsAsked(r, Tail(s))
  <2> DEFINE m == Len(s) - 1
             e == [k \in 1..m |-> f[k + 1]]
             h == [k \in 1..m |-> g[e[k]]]
  <2>1. Len(s) > 0 /\ f[1] = 1 /\ Enumerates(e, m, P)
    <3>1. Len(s) \in Nat
      OBVIOUS
    <3> QED BY <1>2, <1>7, <1>9, <3>1, EnumeratesFirst
  <2>2. /\ s # <<>> /\ Len(Tail(s)) = m /\ m \in Nat /\ Head(s) = s[1] /\ 1 \in 1..Len(s)
        /\ \A k \in 1..m : Tail(s)[k] = s[k + 1] /\ k + 1 \in 1..Len(s)
    BY <2>1
  <2>3. Head(s) = Request(q[1])
    BY <1>7, <2>1, <2>2
  <2> HIDE DEF m, P
  <2>4. Enumerates(h, m, Requested(r))
    <3>1. Enumerates(e, m, P) /\ m \in Nat
      BY <2>1, <2>2
    <3> HIDE DEF e
    <3> QED BY <1>3, <1>4, <1>5, <3>1, EnumeratesMoved, ZenonT(30)
  <2>5. ASSUME NEW k \in 1..m
        PROVE  Tail(s)[k] = Request(r[h[k]])
    <3>1. e[k] \in P /\ e[k] = f[k + 1]
      BY <2>1 DEF Enumerates
    <3> QED BY <1>6, <1>7, <2>2, <3>1
  <2> HIDE DEF h
  <2>6. FullsAsked(r, Tail(s))
    BY <2>2, <2>4, <2>5 DEF FullsAsked
  <2> QED BY <2>2, <2>3, <2>6
<1>10. 1 \in Requested(q) <=> IsFull(q[1]) /\ q[1].queued
  BY <1>1 DEF Requested, Fulls
<1>11. ASSUME IsFull(q[1]), ~q[1].queued
       PROVE  s = <<>>
  <2>1. 1 \in Fulls(q) /\ 1 \notin Requested(q)
    BY <1>1, <1>11 DEF Fulls, Requested
  <2>2. ASSUME NEW j \in Requested(q)
        PROVE  FALSE
    <3>1. 1 < j
      BY <1>2, <2>1
    <3> QED BY <2>1, <3>1 DEF FullsInOrder
  <2> QED BY <2>2, NothingAsked
<1> QED
  BY <1>1, <1>8, <1>9, <1>10, <1>11 DEF r

\* the same of differences
LEMMA TailDiffs ==
    ASSUME NEW q \in Seq(Items), q # <<>>, DiffsInOrder(q),
           NEW s \in Seq(Nat), DiffsAsked(q, s)
    PROVE  /\ ~(IsDiff(Head(q)) /\ Head(q).queued) => DiffsAsked(Tail(q), s)
           /\ IsDiff(Head(q)) /\ ~Head(q).queued => s = <<>> \/ Head(q).prepared = "error"
           /\ IsDiff(Head(q)) /\ Head(q).queued =>
                 s # <<>> /\ Head(s) = Head(q).id /\ DiffsAsked(Tail(q), Tail(s))
<1> DEFINE r == Tail(q)
           P == AskedDiffs(q) \ {1}
           g == [i \in P |-> i - 1]
<1>1. /\ r \in Seq(Items) /\ Len(r) = Len(q) - 1 /\ Len(q) \in Nat \ {0}
      /\ \A k \in 1..(Len(q) - 1) : r[k] = q[k + 1]
      /\ 1 \in 1..Len(q) /\ Head(q) = q[1] /\ Head(q) \in Items
      /\ \A k : k \in AskedDiffs(r) <=> k \in Nat \ {0} /\ k + 1 \in AskedDiffs(q)
  BY Behind
<1> HIDE DEF r
<1>2. AskedDiffs(q) \in SUBSET Nat /\ \A i \in AskedDiffs(q) : i \in 1..Len(q) /\ 1 <= i
  BY <1>1 DEF AskedDiffs, Diffs
<1>3. P \in SUBSET Nat /\ AskedDiffs(r) \in SUBSET Nat
  BY <1>1, <1>2
<1>4. /\ \A i \in P : g[i] \in AskedDiffs(r) /\ g[i] \in 1..(Len(q) - 1) /\ g[i] + 1 = i
      /\ \A i, j \in P : i < j => g[i] < g[j]
  <2>1. \A i \in P : i \in Nat /\ i # 1 /\ 1 <= i /\ i <= Len(q)
    BY <1>1, <1>2
  <2>2. \A i \in P : i - 1 \in Nat \ {0} /\ (i - 1) + 1 = i /\ i - 1 \in 1..(Len(q) - 1)
    BY <1>1, <2>1
  <2>3. \A i \in P : i - 1 \in AskedDiffs(r)
    BY <1>1, <2>2
  <2> QED BY <2>1, <2>2, <2>3, SMTT(30)
<1>5. \A k \in AskedDiffs(r) : \E i \in P : k = g[i]
  <2> SUFFICES ASSUME NEW k \in AskedDiffs(r)
               PROVE  k + 1 \in P /\ k = g[k + 1]
    OBVIOUS
  <2>1. k \in Nat \ {0} /\ k + 1 \in AskedDiffs(q)
    BY <1>1
  <2> QED BY <2>1
<1>6. \A i \in P : r[g[i]] = q[i]
  BY <1>1, <1>4
<1>7. PICK f : /\ Enumerates(f, Len(s), AskedDiffs(q))
               /\ \A k \in 1..Len(s) : s[k] = q[f[k]].id
  BY DEF DiffsAsked
<1> HIDE DEF g
<1>8. ASSUME 1 \notin AskedDiffs(q)
      PROVE  DiffsAsked(r, s)
  <2> DEFINE h == [k \in 1..Len(s) |-> g[f[k]]]
  <2>1. P = AskedDiffs(q)
    BY <1>8
  <2> HIDE DEF P
  <2>2. Enumerates(h, Len(s), AskedDiffs(r))
    <3>1. Enumerates(f, Len(s), P) /\ Len(s) \in Nat
      BY <1>7, <2>1
    <3> QED BY <1>3, <1>4, <1>5, <3>1, EnumeratesMoved
  <2>3. \A k \in 1..Len(s) : s[k] = r[h[k]].id
    <3>1. \A k \in 1..Len(s) : f[k] \in P
      BY <1>7, <2>1 DEF Enumerates
    <3> QED BY <1>6, <1>7, <3>1
  <2> QED BY <2>2, <2>3 DEF DiffsAsked
<1>9. ASSUME 1 \in AskedDiffs(q)
      PROVE  s # <<>> /\ Head(s) = q[1].id /\ DiffsAsked(r, Tail(s))
  <2> DEFINE m == Len(s) - 1
             e == [k \in 1..m |-> f[k + 1]]
             h == [k \in 1..m |-> g[e[k]]]
  <2>1. Len(s) > 0 /\ f[1] = 1 /\ Enumerates(e, m, P)
    <3>1. Len(s) \in Nat
      OBVIOUS
    <3> QED BY <1>2, <1>7, <1>9, <3>1, EnumeratesFirst
  <2>2. /\ s # <<>> /\ Len(Tail(s)) = m /\ m \in Nat /\ Head(s) = s[1] /\ 1 \in 1..Len(s)
        /\ \A k \in 1..m : Tail(s)[k] = s[k + 1] /\ k + 1 \in 1..Len(s)
    BY <2>1
  <2>3. Head(s) = q[1].id
    BY <1>7, <2>1, <2>2
  <2> HIDE DEF m, P
  <2>4. Enumerates(h, m, AskedDiffs(r))
    <3>1. Enumerates(e, m, P) /\ m \in Nat
      BY <2>1, <2>2
    <3> HIDE DEF e
    <3> QED BY <1>3, <1>4, <1>5, <3>1, EnumeratesMoved, ZenonT(30)
  <2>5. ASSUME NEW k \in 1..m
        PROVE  Tail(s)[k] = r[h[k]].id
    <3>1. e[k] \in P /\ e[k] = f[k + 1]
      BY <2>1 DEF Enumerates
    <3> QED BY <1>6, <1>7, <2>2, <3>1
  <2> HIDE DEF h
  <2>6. DiffsAsked(r, Tail(s))
    BY <2>2, <2>4, <2>5 DEF DiffsAsked
  <2> QED BY <2>2, <2>3, <2>6
<1>10. 1 \in AskedDiffs(q) <=> IsDiff(q[1]) /\ q[1].queued
  BY <1>1 DEF AskedDiffs, Diffs
<1>11. ASSUME IsDiff(q[1]), ~q[1].queued
       PROVE  s = <<>> \/ q[1].prepared = "error"
  <2>1. 1 \in Diffs(q) /\ 1 \notin AskedDiffs(q)
    BY <1>1, <1>11 DEF Diffs, AskedDiffs
  <2>2. ASSUME NEW j \in AskedDiffs(q)
        PROVE  q[1].prepared = "error"
    <3>1. 1 < j
      BY <1>2, <2>1
    <3> QED BY <2>1, <3>1 DEF DiffsInOrder
  <2>3. AskedDiffs(q) = {} \/ q[1].prepared = "error"
    BY <2>2
  <2> QED BY <2>3, NothingAsked
<1> QED
  BY <1>1, <1>8, <1>9, <1>10, <1>11 DEF r

-------------------------------------------------------------------------------
(***************************************************************************)
(* Items made from lines.                                                  *)
(***************************************************************************)

\* the kinds of lines that are of files
FileKinds == {"full", "diff", "meta"}

\* The line a place of the list has
LEMMA LineTyped ==
    ASSUME list \in Lists, NEW i \in 1..Len(list)
    PROVE  /\ list[i] \in Line /\ Len(list) \in Nat
           /\ list[i].archive => list[i].script
           /\ LineIn(list, i) = list[i] /\ LineIn(list, Len(list) + i) = list[i]
<1>1. list \in Seq(Line) /\ i \in DOMAIN list
  BY ListAssumption
<1>2. list[i].archive => list[i].script
  BY <1>1, ListAssumption
<1> QED
  BY <1>1, <1>2 DEF LineIn

\* the item of a line, and that of the file in the archive its script packs
LEMMA LineItem ==
    ASSUME list \in Lists, NEW i \in 1..Len(list), NEW id \in {i, Len(list) + i}
    PROVE  /\ Item(id) \in Items /\ Item(id).id = id /\ ~Item(id).queued /\ ~Item(id).script_end
           /\ Item(id).script = list[i].script /\ (Item(id).meta <=> list[i].kind = "meta")
           /\ list[i].kind \in FileKinds => Item(id).action = "file"
           /\ Item(id).action = "file" => list[i].kind \in FileKinds
           /\ Item(id).action = "stop" => list[i].kind = "stop"
           /\ Item(id).action # "quit"
<1>1. LineOf(id) = list[i] /\ list[i] \in Line /\ id \in Nat
  BY LineTyped DEF LineOf, LineIn
<1> DEFINE k == list[i].kind
           a == CASE k = "start" -> "start" [] k = "stop" -> "stop" [] OTHER -> "file"
           b == k # "diff" /\ id <= Len(list)
           c == k = "meta"
<1>2. Item(id) = [action |-> a, id |-> id, full |-> b, meta |-> c,
                  script |-> list[i].script, script_end |-> FALSE,
                  queued |-> FALSE, switched |-> FALSE, prepared |-> "no"]
  BY <1>1 DEF Item
<1>3. /\ k \in {"start", "stop", "full", "diff", "meta"} /\ list[i].script \in BOOLEAN
  BY <1>1 DEF Line, LineKinds
<1>4. /\ a \in {"file", "start", "stop"}
      /\ a = "stop" => k = "stop"
      /\ a = "file" <=> k \in FileKinds
  BY <1>3 DEF FileKinds
<1>5. b \in BOOLEAN /\ c \in BOOLEAN
  OBVIOUS
<1>6. list[i].script \in BOOLEAN
  BY <1>3
<1> HIDE DEF a, b, c
<1>7. Item(id) \in Items
  <2>1. a \in {"file", "start", "stop", "quit", "skip", "none"}
    BY <1>4
  <2> QED BY <1>1, <1>2, <1>5, <1>6, <2>1 DEF Items
<1>8. /\ Item(id).id = id /\ ~Item(id).queued /\ ~Item(id).script_end
      /\ Item(id).script = list[i].script /\ Item(id).meta = c /\ Item(id).action = a
  BY <1>2
<1>9. Item(id).meta <=> list[i].kind = "meta"
  BY <1>8 DEF c
<1> HIDE DEF k
<1>10. a # "quit"
  BY <1>4
<1> QED
  BY <1>4, <1>7, <1>8, <1>9, <1>10 DEF k

\* the shares whose end comes before line n
EndedBefore(n) == {list[i].share : i \in {j \in 1..(n - 1) : list[j].kind = "stop"}}

\* One more line was passed: what is known of an item stays known.
LEMMA NextLine ==
    ASSUME NEW ls, NEW n \in Nat, NEW rel, NEW q
    PROVE  /\ \A item : Known(ls, n, item) => Known(ls, n + 1, item)
           /\ QueueOK(ls, n, rel, q) => QueueOK(ls, n + 1, rel, q)
<1>1. ASSUME NEW item, Known(ls, n, item)
      PROVE  Known(ls, n + 1, item)
  BY <1>1 DEF Known
<1>2. ASSUME QueueOK(ls, n, rel, q)
      PROVE  QueueOK(ls, n + 1, rel, q)
  <2>1. ASSUME NEW j \in 1..Len(q)
        PROVE  Known(ls, n + 1, q[j]) /\ Held(ls, rel, q[j])
    <3>1. Known(ls, n, q[j]) /\ Held(ls, rel, q[j])
      BY <1>2 DEF QueueOK, AllKnown
    <3> QED BY <1>1, <3>1
  <2> QED BY <1>2, <2>1 DEF QueueOK, AllKnown
<1> QED
  BY <1>1, <1>2

\* Add, when the line is queued
LEMMA LineAdded ==
    ASSUME list \in Lists, NEW n \in 1..Len(list), NEW rel, NEW q,
           QueueOK(list, n, rel, q), rel \subseteq EndedBefore(n)
    PROVE  LET r == Append(q, Item(n))
           IN  /\ QueueOK(list, n + 1, rel, r) /\ Carries(q, r)
               /\ HasQuit(r) => HasQuit(q)
               /\ list[n].kind \in {"full", "diff"} => InQueue(r, n)
<1> DEFINE x == Item(n)
<1>1. /\ x \in Items /\ x.id = n /\ ~x.queued /\ ~x.script_end
      /\ x.script = list[n].script /\ (x.meta <=> list[n].kind = "meta")
      /\ list[n].kind \in FileKinds => x.action = "file"
      /\ x.action = "file" => list[n].kind \in FileKinds
      /\ x.action = "stop" => list[n].kind = "stop"
      /\ x.action # "quit"
  BY LineItem
<1> HIDE DEF x
<1>2. LineIn(list, n) = list[n] /\ Len(list) \in Nat /\ n \in Nat
  BY LineTyped
<1>3. QueueOK(list, n + 1, rel, q)
  BY <1>2, NextLine
<1>4. \A i \in 1..(n - 1) : Reads(x) /\ list[i].kind = "stop" => list[n].share # list[i].share
  <2> SUFFICES ASSUME NEW i \in 1..(n - 1), Reads(x), list[i].kind = "stop"
               PROVE  list[n].share # list[i].share
    OBVIOUS
  <2>1. i \in DOMAIN list /\ n \in DOMAIN list /\ i < n
    BY <1>2, ListAssumption
  <2>2. list[n].kind \in FileKinds /\ ~list[n].script
    BY <1>1 DEF Reads
  <2> QED BY <2>1, <2>2, ListAssumption DEF FileKinds
<1>5. Held(list, rel, x)
  BY <1>1, <1>2, <1>4 DEF Held, EndedBefore
<1>6. Known(list, n + 1, x)
  BY <1>1, <1>2 DEF Known, FileKinds
<1>7. Reads(x) => \A i \in 1..Len(q) :
                     q[i].action = "stop" => LineIn(list, x.id).share # list[q[i].id].share
  <2> SUFFICES ASSUME Reads(x), NEW i \in 1..Len(q), q[i].action = "stop"
               PROVE  LineIn(list, x.id).share # list[q[i].id].share
    OBVIOUS
  <2>1. q[i].id \in 1..(n - 1) /\ list[q[i].id].kind = "stop"
    BY DEF QueueOK, AllKnown, Known
  <2> QED BY <1>1, <1>2, <1>4, <2>1
<1>8. /\ QueueOK(list, n + 1, rel, Append(q, x)) /\ Carries(q, Append(q, x))
      /\ x.action # "quit" /\ HasQuit(Append(q, x)) => HasQuit(q)
      /\ \A i : Loads(x, i) => InQueue(Append(q, x), i)
  BY <1>1, <1>3, <1>5, <1>6, <1>7, PutLast
<1>9. list[n].kind \in {"full", "diff"} => Loads(x, n)
  BY <1>1 DEF Loads, FileKinds
<1> QED
  BY <1>1, <1>8, <1>9 DEF x

\* the file of an archive, queued at the very end
LEMMA MemberAdded ==
    ASSUME list \in Lists, NEW i \in 1..Len(list), list[i].archive, list[i].kind \in FileKinds,
           NEW n, NEW rel, NEW q, QueueOK(list, n, rel, q)
    PROVE  LET r == Append(q, Item(Len(list) + i))
           IN  /\ QueueOK(list, n, rel, r) /\ Carries(q, r)
               /\ HasQuit(r) => HasQuit(q)
<1> DEFINE x == Item(Len(list) + i)
<1>1. /\ x \in Items /\ x.id = Len(list) + i /\ ~x.queued /\ ~x.script_end
      /\ x.script = list[i].script /\ x.action = "file"
  BY LineItem
<1> HIDE DEF x
<1>2. LineIn(list, x.id) = list[i] /\ Len(list) \in Nat /\ list[i].script
  BY <1>1, LineTyped
<1>3. Known(list, n, x) /\ Held(list, rel, x) /\ ~Reads(x)
  <2>1. x.id \in 1..(2 * Len(list)) /\ LineIn(list, x.id).kind \in {"full", "diff", "meta"}
    BY <1>1, <1>2 DEF FileKinds
  <2>2. x.script = LineIn(list, x.id).script /\ x.script /\ x.action # "stop"
    BY <1>1, <1>2, Zenon
  <2> QED BY <2>1, <2>2 DEF Known, Held, Reads
<1>4. /\ QueueOK(list, n, rel, Append(q, x)) /\ Carries(q, Append(q, x))
      /\ x.action # "quit" /\ HasQuit(Append(q, x)) => HasQuit(q)
  BY <1>1, <1>3, PutLast
<1> QED
  BY <1>1, <1>4 DEF x

\* the mark of the end, put at the end
LEMMA QuitAdded ==
    ASSUME NEW ls, NEW n, NEW rel, NEW q, QueueOK(ls, n, rel, q),
           NEW x \in Items, x.action = "quit"
    PROVE  QueueOK(ls, n, rel, Append(q, x)) /\ Carries(q, Append(q, x))
<1>1. Known(ls, n, x) /\ Held(ls, rel, x) /\ ~Reads(x)
  BY DEF Known, Held, Reads
<1> QED
  BY <1>1, PutLast

\* marks are items
LEMMA SignalTyped ==
    ASSUME NEW a \in {"quit", "skip", "none"}
    PROVE  /\ Signal(a) \in Items /\ Signal(a).action = a /\ ~Signal(a).queued
           /\ Signal(a).prepared = "no"
BY DEF Signal, Items

\* the end of a script is an item of its file
LEMMA ScriptEndTyped ==
    ASSUME NEW item \in Items
    PROVE  /\ ScriptEnd(item) \in Items /\ IsFull(ScriptEnd(item)) /\ ~ScriptEnd(item).queued
           /\ ScriptEnd(item).script /\ ScriptEnd(item).id = item.id
<1>1. item.id \in Nat
  BY DEF Items
<1> QED
  BY <1>1 DEF ScriptEnd, Signal, Items, IsFull

-------------------------------------------------------------------------------
(***************************************************************************)
(* The invariant.                                                          *)
(***************************************************************************)

\* what the variables hold
Types ==
    /\ list \in Lists /\ line \in 1..(Len(list) + 1)
    /\ step \in {"look", "add", "wait", "listed"}
    /\ pc \in {"pop", "quit", "get", "receive", "fill", "script", "output", "patch",
               "difference", "done"}
    /\ curr \in Items /\ is_offline \in BOOLEAN /\ skipping \in BOOLEAN
    /\ asked \in Seq(Requests) /\ wire \in Seq(Requests) /\ asked_diffs \in Seq(Nat)

\* The thread works on files only while it is online, and on a difference only while there is
\* the snapshot to read it from.
AtWork ==
    /\ Known(list, line, curr)
    /\ pc \in {"get", "receive", "fill"} => Online /\ IsFull(curr)
    /\ pc \in {"patch", "difference"} =>
          /\ Online /\ IsDiff(curr) /\ Held(list, released, curr)
          /\ curr.queued => curr.prepared = "yes"
    /\ pc \in {"script", "output"} => Online /\ curr.action = "file" /\ curr.script
    /\ pc = "quit" => curr.action = "quit"

\* The mark of the end is there only after the whole list, and nothing is queued once the
\* thread has ended.
EndMarks ==
    /\ step = "add" => line <= Len(list)
    /\ HasQuit(dl_queue) \/ pc \in {"quit", "done"} => step \in {"wait", "listed"}
    /\ step \in {"wait", "listed"} => line = Len(list) + 1
    /\ pc = "done" => dl_queue = <<>>
    /\ step = "listed" => pc = "done"

\* Only the snapshots of shares whose end was queued are given back.
SharesEnded == released \subseteq EndedBefore(line)

\* the requests remembered, but for that of the item just taken from the queue
Ahead == IF pc = "get" /\ asked # <<>> THEN Tail(asked) ELSE asked
\* They are those marked in the queue, in its order.
FullsMatch ==
    Online => /\ FullsAsked(dl_queue, Ahead)
              /\ pc = "get" /\ asked # <<>> => Head(asked) = Request(curr)

\* These answers are for these requests.
SameIds(w, a) == Len(w) = Len(a) /\ \A i \in 1..Len(a) : w[i].id = a[i].id
\* The answers to come are for the file that is read now, and then for those remembered.
WireMatches ==
    Online => IF pc \in {"receive", "fill"}
              THEN wire # <<>> /\ Head(wire).id = curr.id /\ SameIds(Tail(wire), asked)
              ELSE SameIds(wire, asked)

\* the differences remembered, but for the one just taken from the queue
AheadDiffs ==
    IF pc = "patch" /\ curr.queued /\ asked_diffs # <<>> THEN Tail(asked_diffs) ELSE asked_diffs
\* They are those marked in the queue, as long as none arrives damaged while others are
\* asked for; and one that was asked for is taken as what it is.
DiffsMatch ==
    Online /\ ~DamageAhead =>
        /\ DiffsAsked(dl_queue, AheadDiffs)
        /\ pc = "patch" /\ asked_diffs # <<>> =>
              /\ curr.queued => Head(asked_diffs) = curr.id
              /\ ~curr.queued => curr.prepared = "error"

\* what became of the file of line i
Recorded(i) ==
    \/ i \in skipped \/ i \in nok \/ i \in partial \/ i \in stranded
    \/ i \in {p[1] : p \in loaded}
\* The thread is at it.
InHand(i) == pc \in {"get", "receive", "fill", "patch", "difference"} /\ Loads(curr, i)
\* No file of a line that was passed is lost: it is recorded, in the queue, or worked on.
NoFileLost ==
    \A i \in 1..(line - 1) :
        list[i].kind \in {"full", "diff"} => Recorded(i) \/ InQueue(dl_queue, i) \/ InHand(i)

\* What is stored is right, and the connection out of step only because of a script.
ContentRight == RightContent /\ (astray # "no" => Scripted)

\* the inductive invariant
Inv ==
    /\ Types /\ AtWork /\ EndMarks
    /\ QueueOK(list, line, released, dl_queue) /\ SharesEnded
    /\ FullsMatch /\ WireMatches /\ DiffsMatch
    /\ NoFileLost /\ ContentRight

\* answers and requests in step
LEMMA SameIdsKept ==
    ASSUME NEW w \in Seq(Requests), NEW a \in Seq(Requests), SameIds(w, a)
    PROVE  /\ a = <<>> => w = <<>>
           /\ a # <<>> => w # <<>> /\ Head(w).id = Head(a).id /\ SameIds(Tail(w), Tail(a))
<1>1. Len(w) \in Nat /\ Len(a) \in Nat
  OBVIOUS
<1>2. a = <<>> => w = <<>>
  <2>1. Len(w) = Len(a)
    BY DEF SameIds
  <2> QED BY <2>1
<1>3. ASSUME a # <<>>
      PROVE  w # <<>> /\ Head(w).id = Head(a).id /\ SameIds(Tail(w), Tail(a))
  <2>1. Len(w) = Len(a) /\ \A i \in 1..Len(a) : w[i].id = a[i].id
    BY DEF SameIds
  <2>2. w # <<>> /\ 1 \in 1..Len(a) /\ Head(w) = w[1] /\ Head(a) = a[1]
    BY <1>3, <2>1
  <2>3. Len(Tail(w)) = Len(a) - 1 /\ Len(Tail(a)) = Len(a) - 1
    BY <1>3, <2>1, <2>2
  <2>4. ASSUME NEW i \in 1..(Len(a) - 1)
        PROVE  Tail(w)[i].id = Tail(a)[i].id
    <3>1. i + 1 \in 1..Len(a) /\ Tail(w)[i] = w[i + 1] /\ Tail(a)[i] = a[i + 1]
      BY <1>3, <2>1, <2>2
    <3> QED BY <2>1, <3>1
  <2> QED BY <2>1, <2>2, <2>3, <2>4 DEF SameIds
<1> QED
  BY <1>2, <1>3

\* one more request sent and remembered
LEMMA SameIdsAdded ==
    ASSUME NEW w \in Seq(Requests), NEW a \in Seq(Requests), w # <<>>, SameIds(Tail(w), a),
           NEW x \in Requests, NEW y \in Requests, x.id = y.id
    PROVE  /\ Append(w, x) # <<>> /\ Head(Append(w, x)) = Head(w)
           /\ SameIds(Tail(Append(w, x)), Append(a, y))
<1> DEFINE t == Tail(w)
           v == Append(t, y)
<1>1. t \in Seq(Requests) /\ Append(w, x) # <<>> /\ Head(Append(w, x)) = Head(w)
  OBVIOUS
<1>2. Tail(Append(w, x)) = Append(t, x)
  OBVIOUS
<1>3. Len(t) = Len(a) /\ \A i \in 1..Len(a) : t[i].id = a[i].id
  BY DEF SameIds
<1> HIDE DEF t
<1>4. /\ Len(Append(t, x)) = Len(a) + 1 /\ Len(Append(a, y)) = Len(a) + 1
      /\ Append(t, x)[Len(a) + 1] = x /\ Append(a, y)[Len(a) + 1] = y
      /\ \A i \in 1..Len(a) : Append(t, x)[i] = t[i] /\ Append(a, y)[i] = a[i]
  BY <1>1, <1>3
<1>5. \A i \in 1..(Len(a) + 1) : i \in 1..Len(a) \/ i = Len(a) + 1
  OBVIOUS
<1>6. SameIds(Append(t, x), Append(a, y))
  BY <1>3, <1>4, <1>5 DEF SameIds
<1> QED
  BY <1>1, <1>2, <1>6

\* a request is one
LEMMA RequestTyped ==
    ASSUME NEW item \in Items
    PROVE  Request(item) \in Requests /\ Request(item).id = item.id /\ item.id \in Nat
BY DEF Items, Request, Requests

\* The item taken is known and held, what is behind it is in order, and nothing is lost.
ItemTaken ==
    /\ curr' \in Items /\ Known(list, line, curr') /\ Held(list, released, curr')
    /\ QueueOK(list, line, released, dl_queue')
    /\ curr'.action = "stop" =>
          QueueOK(list, line, released \cup {list[curr'.id].share}, dl_queue')
    /\ IsDiff(curr') /\ curr'.queued => curr'.prepared = "yes"
    /\ curr'.action = "quit" \/ HasQuit(dl_queue') => HasQuit(dl_queue)
    /\ \A i \in 1..(line - 1) :
          list[i].kind \in {"full", "diff"} =>
             Recorded(i) \/ InQueue(dl_queue', i) \/ Loads(curr', i)

\* A whole file is the first of those asked for, or none was; the rest is as it was.
FullTaken ==
    Online =>
       /\ ~(IsFull(curr') /\ curr'.queued) => FullsAsked(dl_queue', asked)
       /\ IsFull(curr') /\ ~curr'.queued => asked = <<>>
       /\ IsFull(curr') /\ curr'.queued =>
             /\ asked # <<>> /\ Head(asked) = Request(curr')
             /\ FullsAsked(dl_queue', Tail(asked))

\* the same of a difference, except for one that could not be prepared
DiffTaken ==
    Online /\ ~DamageAhead =>
       /\ ~(IsDiff(curr') /\ curr'.queued) => DiffsAsked(dl_queue', asked_diffs)
       /\ IsDiff(curr') /\ ~curr'.queued =>
             asked_diffs = <<>> \/ curr'.prepared = "error"
       /\ IsDiff(curr') /\ curr'.queued =>
             /\ asked_diffs # <<>> /\ Head(asked_diffs) = curr'.id
             /\ DiffsAsked(dl_queue', Tail(asked_diffs))

\* what is known once the first item was taken
LEMMA PopFacts ==
    ASSUME Inv, NEW w, Pop(w)
    PROVE  pc = "pop" /\ pc' = w /\ ItemTaken /\ FullTaken /\ DiffTaken
<1>1. /\ pc = "pop" /\ pc' = w /\ dl_queue # <<>> /\ curr' = Head(dl_queue)
      /\ dl_queue' = Tail(dl_queue)
      /\ QueueOK(list, line, released, dl_queue) /\ dl_queue \in Seq(Items)
      /\ FullsInOrder(dl_queue) /\ DiffsInOrder(dl_queue)
      /\ asked \in Seq(Requests) /\ asked_diffs \in Seq(Nat)
  BY DEF Inv, Pop, Types, QueueOK
<1>2. /\ QueueOK(list, line, released, dl_queue')
      /\ curr' \in Items /\ Known(list, line, curr') /\ Held(list, released, curr')
      /\ curr'.action = "stop" =>
            QueueOK(list, line, released \cup {list[curr'.id].share}, dl_queue')
      /\ IsDiff(curr') /\ curr'.queued => curr'.prepared = "yes"
      /\ \A i : InQueue(dl_queue, i) => Loads(curr', i) \/ InQueue(dl_queue', i)
      /\ curr'.action = "quit" \/ HasQuit(dl_queue') => HasQuit(dl_queue)
  BY <1>1, TailOK
<1>3. ASSUME Online
      PROVE  /\ ~(IsFull(curr') /\ curr'.queued) => FullsAsked(dl_queue', asked)
             /\ IsFull(curr') /\ ~curr'.queued => asked = <<>>
             /\ IsFull(curr') /\ curr'.queued =>
                   /\ asked # <<>> /\ Head(asked) = Request(curr')
                   /\ FullsAsked(dl_queue', Tail(asked))
  <2>1. FullsAsked(dl_queue, asked)
    BY <1>1, <1>3 DEF Inv, FullsMatch, Ahead
  <2> QED BY <1>1, <2>1, TailFulls
<1>4. ASSUME Online, ~DamageAhead
      PROVE  /\ ~(IsDiff(curr') /\ curr'.queued) => DiffsAsked(dl_queue', asked_diffs)
             /\ IsDiff(curr') /\ ~curr'.queued =>
                   asked_diffs = <<>> \/ curr'.prepared = "error"
             /\ IsDiff(curr') /\ curr'.queued =>
                   /\ asked_diffs # <<>> /\ Head(asked_diffs) = curr'.id
                   /\ DiffsAsked(dl_queue', Tail(asked_diffs))
  <2>1. DiffsAsked(dl_queue, asked_diffs)
    BY <1>1, <1>4 DEF Inv, DiffsMatch, AheadDiffs
  <2> QED BY <1>1, <2>1, TailDiffs
<1>5. \A i \in 1..(line - 1) :
         list[i].kind \in {"full", "diff"} =>
            Recorded(i) \/ InQueue(dl_queue', i) \/ Loads(curr', i)
  BY <1>1, <1>2 DEF Inv, NoFileLost, InHand
<1> QED
  BY <1>1, <1>2, <1>3, <1>4, <1>5 DEF ItemTaken, FullTaken, DiffTaken

\* the mark of the end
LEMMA TakeQuitKeeps ==
    ASSUME Inv, TakeQuit
    PROVE  Inv'
<1>1. /\ Pop("quit") /\ list' = list /\ line' = line /\ list \in Lists
      /\ asked' = asked /\ asked_diffs' = asked_diffs
  BY DEF Inv, Types, TakeQuit, Pop, backup, full_conn
<1>2. pc = "pop" /\ pc' = "quit" /\ ItemTaken /\ FullTaken /\ DiffTaken
  BY <1>1, PopFacts
<1>3. Types'
  BY <1>1, <1>2 DEF Inv, ItemTaken, Types, TakeQuit, Pop, backup, full_conn, results, thread
<1>4. AtWork'
  BY <1>1, <1>2 DEF Inv, ItemTaken, AtWork, Online, IsFull, IsDiff, TakeQuit, Pop, results
<1>5. EndMarks'
  BY <1>1, <1>2 DEF Inv, ItemTaken, EndMarks, TakeQuit, Pop, backup
<1>6. QueueOK(list, line, released, dl_queue)'
  BY <1>1, <1>2 DEF Inv, ItemTaken, TakeQuit, results
<1>7. SharesEnded'
  BY DEF Inv, TakeQuit, Pop, SharesEnded, EndedBefore, backup, queue, results, thread, full_conn,
        Goto, GoOffline, Online
<1>8. FullsMatch'
  BY <1>1, <1>2 DEF Inv, FullTaken, FullsMatch, Ahead, Online, IsFull, IsDiff, TakeQuit, Pop
<1>9. WireMatches'
  BY DEF Inv, TakeQuit, Pop, WireMatches, backup, queue, results, thread, full_conn, Goto,
        GoOffline, Online
<1>10. DiffsMatch'
  BY <1>1, <1>2 DEF Inv, DiffTaken, DiffsMatch, AheadDiffs, Online, IsFull, IsDiff, TakeQuit, Pop
<1>11. NoFileLost'
  BY <1>1, <1>2 DEF ItemTaken, Recorded, NoFileLost, InHand, Loads, IsFull, IsDiff, TakeQuit, Pop,
        backup, results
<1>12. ContentRight'
  BY DEF Inv, TakeQuit, Pop, ContentRight, RightContent, Scripted, backup, queue, results, thread,
        full_conn, Goto, GoOffline, Online
<1> QED
  BY <1>3, <1>4, <1>5, <1>6, <1>7, <1>8, <1>9, <1>10, <1>11, <1>12 DEF Inv

\* the mark that the backup was stopped
LEMMA TakeSkipKeeps ==
    ASSUME Inv, TakeSkip
    PROVE  Inv'
<1>1. /\ Pop("pop") /\ list' = list /\ line' = line /\ list \in Lists
      /\ asked' = asked /\ asked_diffs' = asked_diffs
  BY DEF Inv, Types, TakeSkip, Pop, backup, full_conn
<1>2. pc = "pop" /\ pc' = "pop" /\ ItemTaken /\ FullTaken /\ DiffTaken
  BY <1>1, PopFacts
<1>3. Types'
  BY <1>1, <1>2 DEF Inv, ItemTaken, Types, TakeSkip, Pop, backup, full_conn, results, thread
<1>4. AtWork'
  BY <1>1, <1>2 DEF Inv, ItemTaken, AtWork, Online, IsFull, IsDiff, TakeSkip, Pop, results
<1>5. EndMarks'
  BY <1>1, <1>2 DEF Inv, ItemTaken, EndMarks, TakeSkip, Pop, backup
<1>6. QueueOK(list, line, released, dl_queue)'
  BY <1>1, <1>2 DEF Inv, ItemTaken, TakeSkip, results
<1>7. SharesEnded'
  BY DEF Inv, TakeSkip, Pop, SharesEnded, EndedBefore, backup, queue, results, thread, full_conn,
        Goto, GoOffline, Online
<1>8. FullsMatch'
  BY <1>1, <1>2 DEF Inv, FullTaken, FullsMatch, Ahead, Online, IsFull, IsDiff, TakeSkip, Pop
<1>9. WireMatches'
  BY DEF Inv, TakeSkip, Pop, WireMatches, backup, queue, results, thread, full_conn, Goto,
        GoOffline, Online
<1>10. DiffsMatch'
  BY <1>1, <1>2 DEF Inv, DiffTaken, DiffsMatch, AheadDiffs, Online, IsFull, IsDiff, TakeSkip, Pop
<1>11. NoFileLost'
  BY <1>1, <1>2 DEF ItemTaken, Recorded, NoFileLost, InHand, Loads, IsFull, IsDiff, TakeSkip, Pop,
        backup, results
<1>12. ContentRight'
  BY DEF Inv, TakeSkip, Pop, ContentRight, RightContent, Scripted, backup, queue, results, thread,
        full_conn, Goto, GoOffline, Online
<1> QED
  BY <1>3, <1>4, <1>5, <1>6, <1>7, <1>8, <1>9, <1>10, <1>11, <1>12 DEF Inv

\* an item is taken while the thread is offline
LEMMA TakeOfflineKeeps ==
    ASSUME Inv, TakeOffline
    PROVE  Inv'
<1>1. /\ Pop("pop") /\ list' = list /\ line' = line /\ list \in Lists
      /\ asked' = asked /\ asked_diffs' = asked_diffs
  BY DEF Inv, Types, TakeOffline, Pop, backup, full_conn
<1>2. pc = "pop" /\ pc' = "pop" /\ ItemTaken /\ FullTaken /\ DiffTaken
  BY <1>1, PopFacts
<1>3. Types'
  BY <1>1, <1>2 DEF Inv, ItemTaken, Types, TakeOffline, Pop, backup, full_conn, results, thread
<1>4. AtWork'
  BY <1>1, <1>2 DEF Inv, ItemTaken, AtWork, Online, IsFull, IsDiff, TakeOffline, Pop, results
<1>5. EndMarks'
  BY <1>1, <1>2 DEF Inv, ItemTaken, EndMarks, TakeOffline, Pop, backup
<1>6. QueueOK(list, line, released, dl_queue)'
  BY <1>1, <1>2 DEF Inv, ItemTaken, TakeOffline, results
<1>7. SharesEnded'
  BY DEF Inv, TakeOffline, Pop, SharesEnded, EndedBefore, backup, queue, results, thread,
        full_conn, Goto, GoOffline, Online
<1>8. FullsMatch'
  BY <1>1, <1>2 DEF Inv, FullTaken, FullsMatch, Ahead, Online, IsFull, IsDiff, TakeOffline, Pop
<1>9. WireMatches'
  BY DEF Inv, TakeOffline, Pop, WireMatches, backup, queue, results, thread, full_conn, Goto,
        GoOffline, Online
<1>10. DiffsMatch'
  BY <1>1, <1>2 DEF Inv, DiffTaken, DiffsMatch, AheadDiffs, Online, IsFull, IsDiff, TakeOffline,
        Pop
<1>11. NoFileLost'
  BY <1>1, <1>2 DEF ItemTaken, Recorded, NoFileLost, InHand, Loads, IsFull, IsDiff, TakeOffline,
        Pop, backup, results
<1>12. ContentRight'
  BY DEF Inv, TakeOffline, Pop, ContentRight, RightContent, Scripted, backup, queue, results,
        thread, full_conn, Goto, GoOffline, Online
<1> QED
  BY <1>3, <1>4, <1>5, <1>6, <1>7, <1>8, <1>9, <1>10, <1>11, <1>12 DEF Inv

\* the start of a snapshot
LEMMA TakeStartKeeps ==
    ASSUME Inv, TakeStart
    PROVE  Inv'
<1>1. /\ Pop("pop") /\ list' = list /\ line' = line /\ list \in Lists
      /\ asked' = asked /\ asked_diffs' = asked_diffs
  BY DEF Inv, Types, TakeStart, Pop, backup, full_conn
<1>2. pc = "pop" /\ pc' = "pop" /\ ItemTaken /\ FullTaken /\ DiffTaken
  BY <1>1, PopFacts
<1>3. Types'
  BY <1>1, <1>2 DEF Inv, ItemTaken, Types, TakeStart, Pop, backup, full_conn, results, thread
<1>4. AtWork'
  BY <1>1, <1>2 DEF Inv, ItemTaken, AtWork, Online, IsFull, IsDiff, TakeStart, Pop, results
<1>5. EndMarks'
  BY <1>1, <1>2 DEF Inv, ItemTaken, EndMarks, TakeStart, Pop, backup
<1>6. QueueOK(list, line, released, dl_queue)'
  BY <1>1, <1>2 DEF Inv, ItemTaken, TakeStart, results
<1>7. SharesEnded'
  BY DEF Inv, TakeStart, Pop, SharesEnded, EndedBefore, backup, queue, results, thread, full_conn,
        Goto, GoOffline, Online
<1>8. FullsMatch'
  BY <1>1, <1>2 DEF Inv, FullTaken, FullsMatch, Ahead, Online, IsFull, IsDiff, TakeStart, Pop
<1>9. WireMatches'
  BY DEF Inv, TakeStart, Pop, WireMatches, backup, queue, results, thread, full_conn, Goto,
        GoOffline, Online
<1>10. DiffsMatch'
  BY <1>1, <1>2 DEF Inv, DiffTaken, DiffsMatch, AheadDiffs, Online, IsFull, IsDiff, TakeStart, Pop
<1>11. NoFileLost'
  BY <1>1, <1>2 DEF ItemTaken, Recorded, NoFileLost, InHand, Loads, IsFull, IsDiff, TakeStart,
        Pop, backup, results
<1>12. ContentRight'
  BY DEF Inv, TakeStart, Pop, ContentRight, RightContent, Scripted, backup, queue, results,
        thread, full_conn, Goto, GoOffline, Online
<1> QED
  BY <1>3, <1>4, <1>5, <1>6, <1>7, <1>8, <1>9, <1>10, <1>11, <1>12 DEF Inv

\* the end of a snapshot, which is given back
LEMMA TakeStopKeeps ==
    ASSUME Inv, TakeStop
    PROVE  Inv'
<1>1. /\ Pop("pop") /\ list' = list /\ line' = line /\ list \in Lists
      /\ asked' = asked /\ asked_diffs' = asked_diffs
  BY DEF Inv, Types, TakeStop, Pop, backup, full_conn
<1>2. pc = "pop" /\ pc' = "pop" /\ ItemTaken /\ FullTaken /\ DiffTaken
  BY <1>1, PopFacts
<1>3. Types'
  BY <1>1, <1>2 DEF Inv, ItemTaken, Types, TakeStop, Pop, backup, full_conn, results, thread
<1>4. AtWork'
  BY <1>1, <1>2 DEF Inv, ItemTaken, AtWork, Online, IsFull, IsDiff, TakeStop, Pop, results
<1>5. EndMarks'
  BY <1>1, <1>2 DEF Inv, ItemTaken, EndMarks, TakeStop, Pop, backup
<1>6. QueueOK(list, line, released, dl_queue)'
  BY <1>1, <1>2 DEF Inv, ItemTaken, TakeStop, results
<1>7. SharesEnded'
  BY <1>1, <1>2 DEF Inv, ItemTaken, SharesEnded, EndedBefore, Known, TakeStop
<1>8. FullsMatch'
  BY <1>1, <1>2 DEF Inv, FullTaken, FullsMatch, Ahead, Online, IsFull, IsDiff, TakeStop, Pop
<1>9. WireMatches'
  BY DEF Inv, TakeStop, Pop, WireMatches, backup, queue, results, thread, full_conn, Goto,
        GoOffline, Online
<1>10. DiffsMatch'
  BY <1>1, <1>2 DEF Inv, DiffTaken, DiffsMatch, AheadDiffs, Online, IsFull, IsDiff, TakeStop, Pop
<1>11. NoFileLost'
  BY <1>1, <1>2 DEF ItemTaken, Recorded, NoFileLost, InHand, Loads, IsFull, IsDiff, TakeStop, Pop,
        backup, results
<1>12. ContentRight'
  BY DEF Inv, TakeStop, Pop, ContentRight, RightContent, Scripted, backup, queue, results, thread,
        full_conn, Goto, GoOffline, Online
<1> QED
  BY <1>3, <1>4, <1>5, <1>6, <1>7, <1>8, <1>9, <1>10, <1>11, <1>12 DEF Inv

\* a whole file: its request, if it was made, is the first one remembered
LEMMA TakeFullKeeps ==
    ASSUME Inv, TakeFull
    PROVE  Inv'
<1>1. /\ Pop("get") /\ list' = list /\ line' = line /\ list \in Lists
      /\ asked' = asked /\ asked_diffs' = asked_diffs
  BY DEF Inv, Types, TakeFull, Pop, backup, full_conn
<1>2. pc = "pop" /\ pc' = "get" /\ ItemTaken /\ FullTaken /\ DiffTaken
  BY <1>1, PopFacts
<1>3. Types'
  BY <1>1, <1>2 DEF Inv, ItemTaken, Types, TakeFull, Pop, backup, full_conn, results, thread
<1>4. AtWork'
  BY <1>1, <1>2 DEF Inv, ItemTaken, AtWork, Online, IsFull, IsDiff, TakeFull, Pop, results
<1>5. EndMarks'
  BY <1>1, <1>2 DEF Inv, ItemTaken, EndMarks, TakeFull, Pop, backup
<1>6. QueueOK(list, line, released, dl_queue)'
  BY <1>1, <1>2 DEF Inv, ItemTaken, TakeFull, results
<1>7. SharesEnded'
  BY DEF Inv, TakeFull, Pop, SharesEnded, EndedBefore, backup, queue, results, thread, full_conn,
        Goto, GoOffline, Online
<1>8. FullsMatch'
  BY <1>1, <1>2 DEF Inv, FullTaken, FullsMatch, Ahead, Online, IsFull, IsDiff, TakeFull, Pop
<1>9. WireMatches'
  BY DEF Inv, TakeFull, Pop, WireMatches, backup, queue, results, thread, full_conn, Goto,
        GoOffline, Online
<1>10. DiffsMatch'
  BY <1>1, <1>2 DEF Inv, DiffTaken, DiffsMatch, AheadDiffs, Online, IsFull, IsDiff, TakeFull, Pop
<1>11. NoFileLost'
  BY <1>1, <1>2 DEF ItemTaken, Recorded, NoFileLost, InHand, Loads, IsFull, IsDiff, TakeFull, Pop,
        backup, results
<1>12. ContentRight'
  BY DEF Inv, TakeFull, Pop, ContentRight, RightContent, Scripted, backup, queue, results, thread,
        full_conn, Goto, GoOffline, Online
<1> QED
  BY <1>3, <1>4, <1>5, <1>6, <1>7, <1>8, <1>9, <1>10, <1>11, <1>12 DEF Inv

\* a difference: its request, if it was made, is the first one remembered
LEMMA TakeDiffKeeps ==
    ASSUME Inv, TakeDiff
    PROVE  Inv'
<1>1. /\ Pop("patch") /\ list' = list /\ line' = line /\ list \in Lists
      /\ asked' = asked /\ asked_diffs' = asked_diffs
  BY DEF Inv, Types, TakeDiff, Pop, backup, full_conn
<1>2. pc = "pop" /\ pc' = "patch" /\ ItemTaken /\ FullTaken /\ DiffTaken
  BY <1>1, PopFacts
<1>3. Types'
  BY <1>1, <1>2 DEF Inv, ItemTaken, Types, TakeDiff, Pop, backup, full_conn, results, thread
<1>4. AtWork'
  BY <1>1, <1>2 DEF Inv, ItemTaken, AtWork, Online, IsFull, IsDiff, TakeDiff, Pop, results
<1>5. EndMarks'
  BY <1>1, <1>2 DEF Inv, ItemTaken, EndMarks, TakeDiff, Pop, backup
<1>6. QueueOK(list, line, released, dl_queue)'
  BY <1>1, <1>2 DEF Inv, ItemTaken, TakeDiff, results
<1>7. SharesEnded'
  BY DEF Inv, TakeDiff, Pop, SharesEnded, EndedBefore, backup, queue, results, thread, full_conn,
        Goto, GoOffline, Online
<1>8. FullsMatch'
  BY <1>1, <1>2 DEF Inv, FullTaken, FullsMatch, Ahead, Online, IsFull, IsDiff, TakeDiff, Pop
<1>9. WireMatches'
  BY DEF Inv, TakeDiff, Pop, WireMatches, backup, queue, results, thread, full_conn, Goto,
        GoOffline, Online
<1>10. DiffsMatch'
  BY <1>1, <1>2 DEF Inv, DiffTaken, DiffsMatch, AheadDiffs, Online, IsFull, IsDiff, TakeDiff, Pop
<1>11. NoFileLost'
  BY <1>1, <1>2 DEF ItemTaken, Recorded, NoFileLost, InHand, Loads, IsFull, IsDiff, TakeDiff, Pop,
        backup, results
<1>12. ContentRight'
  BY DEF Inv, TakeDiff, Pop, ContentRight, RightContent, Scripted, backup, queue, results, thread,
        full_conn, Goto, GoOffline, Online
<1> QED
  BY <1>3, <1>4, <1>5, <1>6, <1>7, <1>8, <1>9, <1>10, <1>11, <1>12 DEF Inv

\* the backup looks at the length of the queue
LEMMA LookKeeps ==
    ASSUME Inv, Look
    PROVE  Inv'
<1>1. Types'
  BY DEF Inv, Look, Types, backup, queue, results, thread, full_conn, Goto, GoOffline, Online
<1>2. AtWork'
  BY DEF Inv, Look, AtWork, backup, queue, results, thread, full_conn, Goto, GoOffline, Online
<1>3. EndMarks'
  BY DEF Inv, Look, EndMarks, backup, queue, results, thread, full_conn, Goto, GoOffline, Online
<1>4. QueueOK(list, line, released, dl_queue)'
  BY DEF Inv, Look, backup, queue, results, thread, full_conn, Goto, GoOffline, Online
<1>5. SharesEnded'
  BY DEF Inv, Look, SharesEnded, EndedBefore, backup, queue, results, thread, full_conn, Goto,
        GoOffline, Online
<1>6. FullsMatch'
  BY DEF Inv, Look, FullsMatch, Ahead, backup, queue, results, thread, full_conn, Goto, GoOffline,
        Online
<1>7. WireMatches'
  BY DEF Inv, Look, WireMatches, backup, queue, results, thread, full_conn, Goto, GoOffline,
        Online
<1>8. DiffsMatch'
  BY DEF Inv, Look, DiffsMatch, AheadDiffs, backup, queue, results, thread, full_conn, Goto,
        GoOffline, Online
<1>9. NoFileLost'
  BY DEF Inv, Look, NoFileLost, Recorded, InHand, backup, queue, results, thread, full_conn, Goto,
        GoOffline, Online
<1>10. ContentRight'
  BY DEF Inv, Look, ContentRight, RightContent, Scripted, backup, queue, results, thread,
        full_conn, Goto, GoOffline, Online
<1> QED
  BY <1>1, <1>2, <1>3, <1>4, <1>5, <1>6, <1>7, <1>8, <1>9, <1>10 DEF Inv

\* the backup waits for the thread
LEMMA WaitKeeps ==
    ASSUME Inv, Wait
    PROVE  Inv'
<1>1. Types'
  BY DEF Inv, Wait, Types, backup, queue, results, thread, full_conn, Goto, GoOffline, Online
<1>2. AtWork'
  BY DEF Inv, Wait, AtWork, backup, queue, results, thread, full_conn, Goto, GoOffline, Online
<1>3. EndMarks'
  BY DEF Inv, Wait, EndMarks, backup, queue, results, thread, full_conn, Goto, GoOffline, Online
<1>4. QueueOK(list, line, released, dl_queue)'
  BY DEF Inv, Wait, backup, queue, results, thread, full_conn, Goto, GoOffline, Online
<1>5. SharesEnded'
  BY DEF Inv, Wait, SharesEnded, EndedBefore, backup, queue, results, thread, full_conn, Goto,
        GoOffline, Online
<1>6. FullsMatch'
  BY DEF Inv, Wait, FullsMatch, Ahead, backup, queue, results, thread, full_conn, Goto, GoOffline,
        Online
<1>7. WireMatches'
  BY DEF Inv, Wait, WireMatches, backup, queue, results, thread, full_conn, Goto, GoOffline,
        Online
<1>8. DiffsMatch'
  BY DEF Inv, Wait, DiffsMatch, AheadDiffs, backup, queue, results, thread, full_conn, Goto,
        GoOffline, Online
<1>9. NoFileLost'
  BY DEF Inv, Wait, NoFileLost, Recorded, InHand, backup, queue, results, thread, full_conn, Goto,
        GoOffline, Online
<1>10. ContentRight'
  BY DEF Inv, Wait, ContentRight, RightContent, Scripted, backup, queue, results, thread,
        full_conn, Goto, GoOffline, Online
<1> QED
  BY <1>1, <1>2, <1>3, <1>4, <1>5, <1>6, <1>7, <1>8, <1>9, <1>10 DEF Inv

\* the thread begins to ask for further files
LEMMA FillBeginKeeps ==
    ASSUME Inv, FillBegin
    PROVE  Inv'
<1>1. Types'
  BY DEF Inv, FillBegin, Types, backup, queue, results, thread, full_conn, Goto, GoOffline, Online
<1>2. AtWork'
  BY DEF Inv, FillBegin, AtWork, backup, queue, results, thread, full_conn, Goto, GoOffline,
        Online
<1>3. EndMarks'
  BY DEF Inv, FillBegin, EndMarks, backup, queue, results, thread, full_conn, Goto, GoOffline,
        Online
<1>4. QueueOK(list, line, released, dl_queue)'
  BY DEF Inv, FillBegin, backup, queue, results, thread, full_conn, Goto, GoOffline, Online
<1>5. SharesEnded'
  BY DEF Inv, FillBegin, SharesEnded, EndedBefore, backup, queue, results, thread, full_conn,
        Goto, GoOffline, Online
<1>6. FullsMatch'
  BY DEF Inv, FillBegin, FullsMatch, Ahead, backup, queue, results, thread, full_conn, Goto,
        GoOffline, Online
<1>7. WireMatches'
  BY DEF Inv, FillBegin, WireMatches, backup, queue, results, thread, full_conn, Goto, GoOffline,
        Online
<1>8. DiffsMatch'
  BY DEF Inv, FillBegin, DiffsMatch, AheadDiffs, backup, queue, results, thread, full_conn, Goto,
        GoOffline, Online
<1>9. NoFileLost'
  BY DEF Inv, FillBegin, NoFileLost, Recorded, InHand, backup, queue, results, thread, full_conn,
        Goto, GoOffline, Online
<1>10. ContentRight'
  BY DEF Inv, FillBegin, ContentRight, RightContent, Scripted, backup, queue, results, thread,
        full_conn, Goto, GoOffline, Online
<1> QED
  BY <1>1, <1>2, <1>3, <1>4, <1>5, <1>6, <1>7, <1>8, <1>9, <1>10 DEF Inv

\* the thread ends asking for further files
LEMMA FillEndKeeps ==
    ASSUME Inv, FillEnd
    PROVE  Inv'
<1>1. Types'
  BY DEF Inv, FillEnd, Types, backup, queue, results, thread, full_conn, Goto, GoOffline, Online
<1>2. AtWork'
  BY DEF Inv, FillEnd, AtWork, backup, queue, results, thread, full_conn, Goto, GoOffline, Online
<1>3. EndMarks'
  BY DEF Inv, FillEnd, EndMarks, backup, queue, results, thread, full_conn, Goto, GoOffline,
        Online
<1>4. QueueOK(list, line, released, dl_queue)'
  BY DEF Inv, FillEnd, backup, queue, results, thread, full_conn, Goto, GoOffline, Online
<1>5. SharesEnded'
  BY DEF Inv, FillEnd, SharesEnded, EndedBefore, backup, queue, results, thread, full_conn, Goto,
        GoOffline, Online
<1>6. FullsMatch'
  BY DEF Inv, FillEnd, FullsMatch, Ahead, backup, queue, results, thread, full_conn, Goto,
        GoOffline, Online
<1>7. WireMatches'
  BY DEF Inv, FillEnd, WireMatches, backup, queue, results, thread, full_conn, Goto, GoOffline,
        Online
<1>8. DiffsMatch'
  BY DEF Inv, FillEnd, DiffsMatch, AheadDiffs, backup, queue, results, thread, full_conn, Goto,
        GoOffline, Online
<1>9. NoFileLost'
  BY DEF Inv, FillEnd, NoFileLost, Recorded, InHand, backup, queue, results, thread, full_conn,
        Goto, GoOffline, Online
<1>10. ContentRight'
  BY DEF Inv, FillEnd, ContentRight, RightContent, Scripted, backup, queue, results, thread,
        full_conn, Goto, GoOffline, Online
<1> QED
  BY <1>1, <1>2, <1>3, <1>4, <1>5, <1>6, <1>7, <1>8, <1>9, <1>10 DEF Inv

\* a difference is read; its request is no longer remembered
LEMMA PatchKeeps ==
    ASSUME Inv, Patch
    PROVE  Inv'
<1>1. Types'
  BY DEF Inv, Patch, Types, backup, queue, results, thread, full_conn, Goto, GoOffline, Online
<1>2. AtWork'
  BY DEF Inv, Patch, AtWork, backup, queue, results, thread, full_conn, Goto, GoOffline, Online
<1>3. EndMarks'
  BY DEF Inv, Patch, EndMarks, backup, queue, results, thread, full_conn, Goto, GoOffline, Online
<1>4. QueueOK(list, line, released, dl_queue)'
  BY DEF Inv, Patch, backup, queue, results, thread, full_conn, Goto, GoOffline, Online
<1>5. SharesEnded'
  BY DEF Inv, Patch, SharesEnded, EndedBefore, backup, queue, results, thread, full_conn, Goto,
        GoOffline, Online
<1>6. FullsMatch'
  BY DEF Inv, Patch, FullsMatch, Ahead, backup, queue, results, thread, full_conn, Goto,
        GoOffline, Online
<1>7. WireMatches'
  BY DEF Inv, Patch, WireMatches, backup, queue, results, thread, full_conn, Goto, GoOffline,
        Online
<1>8. DiffsMatch'
  BY DEF Inv, Patch, DiffsMatch, AheadDiffs, backup, queue, results, thread, full_conn, Goto,
        GoOffline, Online
<1>9. NoFileLost'
  BY DEF Inv, Patch, NoFileLost, Recorded, InHand, backup, queue, results, thread, full_conn,
        Goto, GoOffline, Online
<1>10. ContentRight'
  BY DEF Inv, Patch, ContentRight, RightContent, Scripted, backup, queue, results, thread,
        full_conn, Goto, GoOffline, Online
<1> QED
  BY <1>1, <1>2, <1>3, <1>4, <1>5, <1>6, <1>7, <1>8, <1>9, <1>10 DEF Inv

\* a whole file without a temporary file
LEMMA NoTempFileKeeps ==
    ASSUME Inv, NoTempFile
    PROVE  Inv'
<1>1. Types'
  BY DEF Inv, NoTempFile, Types, backup, queue, results, thread, full_conn, Goto, GoOffline,
        Online
<1>2. AtWork'
  BY DEF Inv, NoTempFile, AtWork, backup, queue, results, thread, full_conn, Goto, GoOffline,
        Online
<1>3. EndMarks'
  BY DEF Inv, NoTempFile, EndMarks, backup, queue, results, thread, full_conn, Goto, GoOffline,
        Online
<1>4. QueueOK(list, line, released, dl_queue)'
  BY DEF Inv, NoTempFile, backup, queue, results, thread, full_conn, Goto, GoOffline, Online
<1>5. SharesEnded'
  BY DEF Inv, NoTempFile, SharesEnded, EndedBefore, backup, queue, results, thread, full_conn,
        Goto, GoOffline, Online
<1>6. FullsMatch'
  BY DEF Inv, NoTempFile, FullsMatch, Ahead, backup, queue, results, thread, full_conn, Goto,
        GoOffline, Online
<1>7. WireMatches'
  BY DEF Inv, NoTempFile, WireMatches, backup, queue, results, thread, full_conn, Goto, GoOffline,
        Online
<1>8. DiffsMatch'
  BY DEF Inv, NoTempFile, DiffsMatch, AheadDiffs, backup, queue, results, thread, full_conn, Goto,
        GoOffline, Online
<1>9. NoFileLost'
  BY DEF Inv, AtWork, NoFileLost, Recorded, InHand, Loads, IsFull, IsDiff, NoTempFile, backup,
        queue, results, thread, full_conn, Goto, GoOffline
<1>10. ContentRight'
  BY DEF Inv, NoTempFile, ContentRight, RightContent, Scripted, backup, queue, results, thread,
        full_conn, Goto, GoOffline, Online
<1> QED
  BY <1>1, <1>2, <1>3, <1>4, <1>5, <1>6, <1>7, <1>8, <1>9, <1>10 DEF Inv

\* the end of a script is answered
LEMMA ScriptFinishedKeeps ==
    ASSUME Inv, ScriptFinished
    PROVE  Inv'
<1>1. Types'
  BY DEF Inv, ScriptFinished, Answer, Types, backup, queue, results, thread, full_conn, Goto,
        GoOffline, Online
<1>2. AtWork'
  BY DEF Inv, ScriptFinished, Answer, AtWork, backup, queue, results, thread, full_conn, Goto,
        GoOffline, Online
<1>3. EndMarks'
  BY DEF Inv, ScriptFinished, Answer, EndMarks, backup, queue, results, thread, full_conn, Goto,
        GoOffline, Online
<1>4. QueueOK(list, line, released, dl_queue)'
  BY DEF Inv, ScriptFinished, Answer, backup, queue, results, thread, full_conn, Goto, GoOffline,
        Online
<1>5. SharesEnded'
  BY DEF Inv, ScriptFinished, Answer, SharesEnded, EndedBefore, backup, queue, results, thread,
        full_conn, Goto, GoOffline, Online
<1>6. FullsMatch'
  BY DEF Inv, ScriptFinished, Answer, FullsMatch, Ahead, backup, queue, results, thread,
        full_conn, Goto, GoOffline, Online
<1>7. WireMatches'
  BY DEF Inv, ScriptFinished, Answer, WireMatches, backup, queue, results, thread, full_conn,
        Goto, GoOffline, Online
<1>8. DiffsMatch'
  BY DEF Inv, ScriptFinished, Answer, DiffsMatch, AheadDiffs, backup, queue, results, thread,
        full_conn, Goto, GoOffline, Online
<1>9. NoFileLost'
  BY DEF Inv, AtWork, NoFileLost, Recorded, InHand, Loads, IsFull, IsDiff, ScriptFinished, Answer,
        backup, queue, results, thread, full_conn, Goto, GoOffline
<1>10. ContentRight'
  <2>1. list' = list /\ loaded' = loaded /\ list \in Seq(Line)
    BY ListAssumption DEF Inv, Types, ScriptFinished, backup, results
  <2>2. ASSUME astray' # "no", astray = "no"
        PROVE  Scripted
    <3>1. curr.script_end /\ IsFull(curr) /\ Known(list, line, curr)
      BY DEF Inv, AtWork, ScriptFinished
    <3>2. /\ curr.id \in 1..(2 * Len(list)) /\ Len(list) \in Nat
          /\ LineIn(list, curr.id).script
      BY <2>1, <3>1 DEF Known, IsFull
    <3> QED BY <2>1, <3>2 DEF LineIn, Scripted
  <2> QED BY <2>1, <2>2 DEF Inv, ContentRight, RightContent, Scripted
<1> QED
  BY <1>1, <1>2, <1>3, <1>4, <1>5, <1>6, <1>7, <1>8, <1>9, <1>10 DEF Inv

\* a difference arrives damaged
LEMMA PatchCorruptKeeps ==
    ASSUME Inv, PatchCorrupt
    PROVE  Inv'
<1>1. Types'
  BY DEF Inv, PatchCorrupt, Types, backup, queue, results, thread, full_conn, Goto, GoOffline,
        Online
<1>2. AtWork'
  BY DEF Inv, PatchCorrupt, AtWork, backup, queue, results, thread, full_conn, Goto, GoOffline,
        Online
<1>3. EndMarks'
  BY DEF Inv, PatchCorrupt, EndMarks, backup, queue, results, thread, full_conn, Goto, GoOffline,
        Online
<1>4. QueueOK(list, line, released, dl_queue)'
  BY DEF Inv, PatchCorrupt, backup, queue, results, thread, full_conn, Goto, GoOffline, Online
<1>5. SharesEnded'
  BY DEF Inv, PatchCorrupt, SharesEnded, EndedBefore, backup, queue, results, thread, full_conn,
        Goto, GoOffline, Online
<1>6. FullsMatch'
  BY DEF Inv, PatchCorrupt, FullsMatch, Ahead, backup, queue, results, thread, full_conn, Goto,
        GoOffline, Online
<1>7. WireMatches'
  BY DEF Inv, PatchCorrupt, WireMatches, backup, queue, results, thread, full_conn, Goto,
        GoOffline, Online
<1>8. DiffsMatch'
  BY DEF Inv, PatchCorrupt, DiffsMatch, AheadDiffs, backup, queue, results, thread, full_conn,
        Goto, GoOffline, Online
<1>9. NoFileLost'
  BY DEF Inv, AtWork, NoFileLost, Recorded, InHand, Loads, IsFull, IsDiff, PatchCorrupt, backup,
        queue, results, thread, full_conn, Goto, GoOffline
<1>10. ContentRight'
  BY DEF Inv, PatchCorrupt, ContentRight, RightContent, Scripted, backup, queue, results, thread,
        full_conn, Goto, GoOffline, Online
<1> QED
  BY <1>1, <1>2, <1>3, <1>4, <1>5, <1>6, <1>7, <1>8, <1>9, <1>10 DEF Inv

\* a difference arrives
LEMMA PatchReceivedKeeps ==
    ASSUME Inv, PatchReceived
    PROVE  Inv'
<1>1. Types'
  BY DEF Inv, PatchReceived, Types, backup, queue, results, thread, full_conn, Goto, GoOffline,
        Online
<1>2. AtWork'
  BY DEF Inv, PatchReceived, AtWork, IsDiff, backup, queue, results, thread, full_conn, Goto,
        GoOffline, Online
<1>3. EndMarks'
  BY DEF Inv, PatchReceived, EndMarks, backup, queue, results, thread, full_conn, Goto, GoOffline,
        Online
<1>4. QueueOK(list, line, released, dl_queue)'
  BY DEF Inv, PatchReceived, backup, queue, results, thread, full_conn, Goto, GoOffline, Online
<1>5. SharesEnded'
  BY DEF Inv, PatchReceived, SharesEnded, EndedBefore, backup, queue, results, thread, full_conn,
        Goto, GoOffline, Online
<1>6. FullsMatch'
  BY DEF Inv, PatchReceived, FullsMatch, Ahead, backup, queue, results, thread, full_conn, Goto,
        GoOffline, Online
<1>7. WireMatches'
  BY DEF Inv, PatchReceived, WireMatches, backup, queue, results, thread, full_conn, Goto,
        GoOffline, Online
<1>8. DiffsMatch'
  BY DEF Inv, PatchReceived, DiffsMatch, AheadDiffs, backup, queue, results, thread, full_conn,
        Goto, GoOffline, Online
<1>9. NoFileLost'
  <2>1. curr.id \in {p[1] : p \in loaded'}
    <3>1. <<curr.id, curr.id>> \in loaded' /\ <<curr.id, curr.id>>[1] = curr.id
      BY DEF PatchReceived
    <3> QED BY <3>1
  <2>2. \A i : Recorded(i) => Recorded(i)'
    BY DEF Recorded, PatchReceived, backup
  <2>3. \A i : Loads(curr, i) => Recorded(i)'
    BY <2>1 DEF Recorded, Loads
  <2> QED BY <2>2, <2>3 DEF Inv, NoFileLost, InHand, PatchReceived, backup, queue
<1>10. ContentRight'
  BY DEF Inv, PatchReceived, ContentRight, RightContent, Scripted, backup, queue, results, thread,
        full_conn, Goto, GoOffline, Online
<1> QED
  BY <1>1, <1>2, <1>3, <1>4, <1>5, <1>6, <1>7, <1>8, <1>9, <1>10 DEF Inv

\* the answer read is that for the file being loaded
LEMMA ReceivedKeeps ==
    ASSUME Inv, Received
    PROVE  Inv'
<1>1. wire # <<>> /\ Head(wire).id = curr.id /\ curr \in Items /\ IsFull(curr)
  BY DEF Inv, AtWork, WireMatches, Types, Received
<1>2. Types'
  BY DEF Inv, Received, Answer, Types, backup, queue, results, thread, full_conn, Goto, GoOffline,
        Online
<1>3. AtWork'
  BY DEF Inv, Received, Answer, AtWork, IsFull, backup, queue, results, thread, full_conn, Goto,
        GoOffline, Online
<1>4. EndMarks'
  BY DEF Inv, Received, Answer, EndMarks, backup, queue, results, thread, full_conn, Goto,
        GoOffline, Online
<1>5. QueueOK(list, line, released, dl_queue)'
  BY DEF Inv, Received, Answer, backup, queue, results, thread, full_conn, Goto, GoOffline, Online
<1>6. SharesEnded'
  BY DEF Inv, Received, Answer, SharesEnded, EndedBefore, backup, queue, results, thread,
        full_conn, Goto, GoOffline, Online
<1>7. FullsMatch'
  BY DEF Inv, Received, Answer, FullsMatch, Ahead, backup, queue, results, thread, full_conn,
        Goto, GoOffline, Online
<1>8. WireMatches'
  BY DEF Inv, Received, Answer, WireMatches, backup, queue, results, thread, full_conn, Goto,
        GoOffline, Online
<1>9. DiffsMatch'
  BY DEF Inv, Received, Answer, DiffsMatch, AheadDiffs, backup, queue, results, thread, full_conn,
        Goto, GoOffline, Online
<1>10. NoFileLost'
  <2>1. curr.id \in {p[1] : p \in loaded'} \/ ~Loads(curr, curr.id)
    BY DEF Received, Loads
  <2>2. \A i : Recorded(i) => Recorded(i)'
    BY DEF Recorded, Received, backup
  <2>3. \A i : Loads(curr, i) => Recorded(i)'
    BY <2>1 DEF Recorded, Loads
  <2> QED BY <2>2, <2>3 DEF Inv, NoFileLost, InHand, Received, backup, queue
<1>11. ContentRight'
  BY <1>1 DEF Inv, Received, Answer, Content, FileRead, Unknown, ContentRight, RightContent,
        Scripted, backup, queue, results, thread, full_conn, Goto, GoOffline, Online
<1> QED
  BY <1>2, <1>3, <1>4, <1>5, <1>6, <1>7, <1>8, <1>9, <1>10, <1>11 DEF Inv

\* a refusal, too, is that of the file being loaded
LEMMA RefusedKeeps ==
    ASSUME Inv, Refused
    PROVE  Inv'
<1>1. wire # <<>> /\ Head(wire).id = curr.id /\ curr \in Items /\ IsFull(curr)
  BY DEF Inv, AtWork, WireMatches, Types, Refused
<1>2. Types'
  <2>1. wire' \in Seq(Requests) /\ asked' = asked /\ asked_diffs' = asked_diffs
    BY <1>1 DEF Inv, Types, Refused, Answer
  <2>2. /\ list' = list /\ line' = line /\ step' = step /\ curr' = curr
        /\ skipping' = skipping
    BY DEF Refused, backup, Goto, GoOffline
  <2>3. pc' = "pop" /\ is_offline' \in {is_offline, TRUE}
    BY DEF Refused, Goto, GoOffline
  <2> QED BY <2>1, <2>2, <2>3 DEF Inv, Types
<1>3. AtWork'
  BY DEF Inv, Refused, Answer, AtWork, backup, queue, results, thread, full_conn, Goto, GoOffline,
        Online
<1>4. EndMarks'
  BY DEF Inv, Refused, Answer, EndMarks, backup, queue, results, thread, full_conn, Goto,
        GoOffline, Online
<1>5. QueueOK(list, line, released, dl_queue)'
  BY DEF Inv, Refused, Answer, backup, queue, results, thread, full_conn, Goto, GoOffline, Online
<1>6. SharesEnded'
  BY DEF Inv, Refused, Answer, SharesEnded, EndedBefore, backup, queue, results, thread,
        full_conn, Goto, GoOffline, Online
<1>7. FullsMatch'
  BY DEF Inv, Refused, Answer, FullsMatch, Ahead, backup, queue, results, thread, full_conn, Goto,
        GoOffline, Online
<1>8. WireMatches'
  BY DEF Inv, Refused, Answer, WireMatches, backup, queue, results, thread, full_conn, Goto,
        GoOffline, Online
<1>9. DiffsMatch'
  BY DEF Inv, Refused, Answer, DiffsMatch, AheadDiffs, backup, queue, results, thread, full_conn,
        Goto, GoOffline, Online
<1>10. NoFileLost'
  BY <1>1 DEF Inv, AtWork, NoFileLost, Recorded, InHand, Loads, IsFull, IsDiff, Refused, Answer,
        backup, queue, results, thread, full_conn, Goto, GoOffline
<1>11. ContentRight'
  BY <1>1 DEF Inv, Refused, Answer, Content, FileRead, Unknown, ContentRight, RightContent,
        Scripted, backup, queue, results, thread, full_conn, Goto, GoOffline, Online
<1> QED
  BY <1>2, <1>3, <1>4, <1>5, <1>6, <1>7, <1>8, <1>9, <1>10, <1>11 DEF Inv

\* the request of the file is the first one remembered, or made now
LEMMA GetKeeps ==
    ASSUME Inv, Get
    PROVE  Inv'
<1>1. /\ Request(curr) \in Requests /\ Request(curr).id = curr.id
      /\ asked \in Seq(Requests) /\ wire \in Seq(Requests) /\ SameIds(wire, asked)
  <2>1. curr \in Items
    BY DEF Inv, Types
  <2> QED BY <2>1, RequestTyped DEF Inv, Types, AtWork, WireMatches, Get
<1>2. /\ wire' \in Seq(Requests) /\ asked' \in Seq(Requests)
      /\ wire' # <<>> /\ Head(wire').id = curr.id /\ SameIds(Tail(wire'), asked')
  <2>1. CASE asked = <<>>
    <3>1. wire = <<>>
      BY <1>1, <2>1, SameIdsKept
    <3>2. wire' = <<Request(curr)>> /\ asked' = <<>>
      BY <2>1, <3>1 DEF Get
    <3>3. Tail(wire') = <<>> /\ Head(wire') = Request(curr)
      BY <3>2
    <3> QED BY <1>1, <3>2, <3>3 DEF SameIds
  <2>2. CASE asked # <<>>
    <3>1. wire' = wire /\ asked' = Tail(asked)
      BY <2>2 DEF Get
    <3>2. Head(asked) = Request(curr)
      BY <2>2 DEF Inv, AtWork, FullsMatch, Get
    <3>3. wire # <<>> /\ Head(wire).id = Head(asked).id /\ SameIds(Tail(wire), Tail(asked))
      BY <1>1, <2>2, SameIdsKept
    <3> QED BY <1>1, <2>2, <3>1, <3>2, <3>3
  <2> QED BY <2>1, <2>2
<1>3. Types'
  BY <1>2 DEF Inv, Get, Types, backup, queue, results, thread, full_conn, Goto, GoOffline, Online
<1>4. AtWork'
  BY DEF Inv, Get, AtWork, backup, queue, results, thread, full_conn, Goto, GoOffline, Online
<1>5. EndMarks'
  BY DEF Inv, Get, EndMarks, backup, queue, results, thread, full_conn, Goto, GoOffline, Online
<1>6. QueueOK(list, line, released, dl_queue)'
  BY DEF Inv, Get, backup, queue, results, thread, full_conn, Goto, GoOffline, Online
<1>7. SharesEnded'
  BY DEF Inv, Get, SharesEnded, EndedBefore, backup, queue, results, thread, full_conn, Goto,
        GoOffline, Online
<1>8. FullsMatch'
  BY DEF Inv, Get, FullsMatch, Ahead, backup, queue, results, thread, full_conn, Goto, GoOffline,
        Online
<1>9. WireMatches'
  BY <1>2 DEF Inv, Get, WireMatches, backup, queue, results, thread, full_conn, Goto, GoOffline,
        Online
<1>10. DiffsMatch'
  BY DEF Inv, Get, DiffsMatch, AheadDiffs, backup, queue, results, thread, full_conn, Goto,
        GoOffline, Online
<1>11. NoFileLost'
  BY DEF Inv, Get, NoFileLost, Recorded, InHand, backup, queue, results, thread, full_conn, Goto,
        GoOffline, Online
<1>12. ContentRight'
  BY DEF Inv, Get, ContentRight, RightContent, Scripted, backup, queue, results, thread,
        full_conn, Goto, GoOffline, Online
<1> QED
  BY <1>3, <1>4, <1>5, <1>6, <1>7, <1>8, <1>9, <1>10, <1>11, <1>12 DEF Inv

\* the mark that the backup was stopped goes to the front
LEMMA AdminStopsKeeps ==
    ASSUME Inv, AdminStops
    PROVE  Inv'
<1>1. list' = list /\ line' = line /\ dl_queue' = <<Signal("skip")>> \o dl_queue
      /\ list \in Lists /\ QueueOK(list, line, released, dl_queue)
  BY DEF Inv, Types, AdminStops, backup
<1>2. /\ QueueOK(list, line, released, dl_queue') /\ Carries(dl_queue, dl_queue')
      /\ HasQuit(dl_queue') => HasQuit(dl_queue)
  BY <1>1, SignalTyped, PutSkip
<1>3. Ahead \in Seq(Requests) /\ AheadDiffs \in Seq(Nat)
  BY DEF Inv, Types, Ahead, AheadDiffs
<1>4. FullsAsked(dl_queue, Ahead) => FullsAsked(dl_queue', Ahead)
  BY <1>2, <1>3 DEF Carries
<1>5. DiffsAsked(dl_queue, AheadDiffs) => DiffsAsked(dl_queue', AheadDiffs)
  BY <1>2, <1>3 DEF Carries
<1>6. Types'
  BY DEF Inv, AdminStops, Types, backup, queue, results, thread, full_conn, Goto, GoOffline,
        Online
<1>7. AtWork'
  BY DEF Inv, AdminStops, AtWork, backup, queue, results, thread, full_conn, Goto, GoOffline,
        Online
<1>8. EndMarks'
  BY <1>2 DEF Inv, AdminStops, EndMarks, backup, queue, results, thread, full_conn, Goto,
        GoOffline, Online
<1>9. QueueOK(list, line, released, dl_queue)'
  BY <1>1, <1>2 DEF AdminStops, backup, results
<1>10. SharesEnded'
  BY DEF Inv, AdminStops, SharesEnded, EndedBefore, backup, queue, results, thread, full_conn,
        Goto, GoOffline, Online
<1>11. FullsMatch'
  BY <1>4 DEF Inv, AdminStops, FullsMatch, Ahead, backup, queue, results, thread, full_conn, Goto,
        GoOffline, Online
<1>12. WireMatches'
  BY DEF Inv, AdminStops, WireMatches, backup, queue, results, thread, full_conn, Goto, GoOffline,
        Online
<1>13. DiffsMatch'
  BY <1>5 DEF Inv, AdminStops, DiffsMatch, AheadDiffs, backup, queue, results, thread, full_conn,
        Goto, GoOffline, Online
<1>14. NoFileLost'
  BY <1>2 DEF Inv, NoFileLost, Recorded, InHand, Carries, AdminStops, backup, queue, results,
        thread, full_conn, Goto, GoOffline
<1>15. ContentRight'
  BY DEF Inv, AdminStops, ContentRight, RightContent, Scripted, backup, queue, results, thread,
        full_conn, Goto, GoOffline, Online
<1> QED
  BY <1>6, <1>7, <1>8, <1>9, <1>10, <1>11, <1>12, <1>13, <1>14, <1>15 DEF Inv

\* the mark of the end goes to the back
LEMMA EndOfListKeeps ==
    ASSUME Inv, EndOfList
    PROVE  Inv'
<1>1. list' = list /\ line' = line /\ dl_queue' = Append(dl_queue, Signal("quit"))
      /\ list \in Lists /\ QueueOK(list, line, released, dl_queue)
  BY DEF Inv, Types, EndOfList, Push, backup
<1>2. QueueOK(list, line, released, dl_queue') /\ Carries(dl_queue, dl_queue')
  BY <1>1, SignalTyped, QuitAdded
<1>3. Ahead \in Seq(Requests) /\ AheadDiffs \in Seq(Nat)
  BY DEF Inv, Types, Ahead, AheadDiffs
<1>4. FullsAsked(dl_queue, Ahead) => FullsAsked(dl_queue', Ahead)
  BY <1>2, <1>3 DEF Carries
<1>5. DiffsAsked(dl_queue, AheadDiffs) => DiffsAsked(dl_queue', AheadDiffs)
  BY <1>2, <1>3 DEF Carries
<1>6. Types'
  BY DEF Inv, EndOfList, Push, Types, backup, queue, results, thread, full_conn, Goto, GoOffline,
        Online
<1>7. AtWork'
  BY DEF Inv, EndOfList, Push, AtWork, backup, queue, results, thread, full_conn, Goto, GoOffline,
        Online
<1>8. EndMarks'
  BY DEF Inv, EndOfList, Push, EndMarks, Types, backup, queue, results, thread, full_conn, Goto,
        GoOffline, Online
<1>9. QueueOK(list, line, released, dl_queue)'
  BY <1>1, <1>2 DEF EndOfList, backup, results
<1>10. SharesEnded'
  BY DEF Inv, EndOfList, Push, SharesEnded, EndedBefore, backup, queue, results, thread,
        full_conn, Goto, GoOffline, Online
<1>11. FullsMatch'
  BY <1>4 DEF Inv, EndOfList, Push, FullsMatch, Ahead, backup, queue, results, thread, full_conn,
        Goto, GoOffline, Online
<1>12. WireMatches'
  BY DEF Inv, EndOfList, Push, WireMatches, backup, queue, results, thread, full_conn, Goto,
        GoOffline, Online
<1>13. DiffsMatch'
  BY <1>5 DEF Inv, EndOfList, Push, DiffsMatch, AheadDiffs, backup, queue, results, thread,
        full_conn, Goto, GoOffline, Online
<1>14. NoFileLost'
  BY <1>2 DEF Inv, NoFileLost, Recorded, InHand, Carries, EndOfList, Push, backup, queue, results,
        thread, full_conn, Goto, GoOffline
<1>15. ContentRight'
  BY DEF Inv, EndOfList, Push, ContentRight, RightContent, Scripted, backup, queue, results,
        thread, full_conn, Goto, GoOffline, Online
<1> QED
  BY <1>6, <1>7, <1>8, <1>9, <1>10, <1>11, <1>12, <1>13, <1>14, <1>15 DEF Inv

\* the end of a script goes behind all that was asked for
LEMMA QueueScriptEndKeeps ==
    ASSUME Inv, QueueScriptEnd
    PROVE  Inv'
<1>1. /\ list' = list /\ line' = line
      /\ dl_queue' = InsertAt(dl_queue, EarliestPlace(dl_queue, FALSE), ScriptEnd(curr))
      /\ list \in Lists /\ QueueOK(list, line, released, dl_queue)
  BY DEF Inv, Types, QueueScriptEnd, backup
<1>2. /\ QueueOK(list, line, released, dl_queue') /\ Carries(dl_queue, dl_queue')
      /\ HasQuit(dl_queue') => HasQuit(dl_queue)
  <2> DEFINE x == ScriptEnd(curr)
  <2>1. /\ x \in Items /\ IsFull(x) /\ ~x.queued /\ x.script /\ x.id = curr.id
        /\ curr.action = "file" /\ curr.script /\ Known(list, line, curr)
    BY ScriptEndTyped DEF Inv, Types, AtWork, QueueScriptEnd
  <2>2. Known(list, line, x)
    BY <2>1 DEF Known, IsFull
  <2> HIDE DEF x
  <2> QED BY <1>1, <2>1, <2>2, PutScriptEnd DEF x
<1>3. Ahead \in Seq(Requests) /\ AheadDiffs \in Seq(Nat)
  BY DEF Inv, Types, Ahead, AheadDiffs
<1>4. FullsAsked(dl_queue, Ahead) => FullsAsked(dl_queue', Ahead)
  BY <1>2, <1>3 DEF Carries
<1>5. DiffsAsked(dl_queue, AheadDiffs) => DiffsAsked(dl_queue', AheadDiffs)
  BY <1>2, <1>3 DEF Carries
<1>6. Types'
  BY DEF Inv, QueueScriptEnd, Types, backup, queue, results, thread, full_conn, Goto, GoOffline,
        Online
<1>7. AtWork'
  BY DEF Inv, QueueScriptEnd, AtWork, backup, queue, results, thread, full_conn, Goto, GoOffline,
        Online
<1>8. EndMarks'
  BY <1>2 DEF Inv, QueueScriptEnd, EndMarks, backup, queue, results, thread, full_conn, Goto,
        GoOffline, Online
<1>9. QueueOK(list, line, released, dl_queue)'
  BY <1>1, <1>2 DEF QueueScriptEnd, backup, results
<1>10. SharesEnded'
  BY DEF Inv, QueueScriptEnd, SharesEnded, EndedBefore, backup, queue, results, thread, full_conn,
        Goto, GoOffline, Online
<1>11. FullsMatch'
  BY <1>4 DEF Inv, QueueScriptEnd, FullsMatch, Ahead, backup, queue, results, thread, full_conn,
        Goto, GoOffline, Online
<1>12. WireMatches'
  BY DEF Inv, QueueScriptEnd, WireMatches, backup, queue, results, thread, full_conn, Goto,
        GoOffline, Online
<1>13. DiffsMatch'
  BY <1>5 DEF Inv, QueueScriptEnd, DiffsMatch, AheadDiffs, backup, queue, results, thread,
        full_conn, Goto, GoOffline, Online
<1>14. NoFileLost'
  BY <1>2 DEF Inv, NoFileLost, Recorded, InHand, Carries, QueueScriptEnd, backup, queue, results,
        thread, full_conn, Goto, GoOffline
<1>15. ContentRight'
  BY DEF Inv, QueueScriptEnd, ContentRight, RightContent, Scripted, backup, queue, results,
        thread, full_conn, Goto, GoOffline, Online
<1> QED
  BY <1>6, <1>7, <1>8, <1>9, <1>10, <1>11, <1>12, <1>13, <1>14, <1>15 DEF Inv

\* the file of an archive, if there is one, goes to the back
LEMMA ScriptOutputKeeps ==
    ASSUME Inv, ScriptOutput
    PROVE  Inv'
<1>1. /\ list' = list /\ line' = line /\ released' = released /\ list \in Lists
      /\ QueueOK(list, line, released, dl_queue)
      /\ curr \in Items /\ curr.action = "file" /\ Known(list, line, curr)
  BY DEF Inv, Types, AtWork, ScriptOutput, backup, results
<1>2. /\ QueueOK(list, line, released, dl_queue') /\ Carries(dl_queue, dl_queue')
      /\ HasQuit(dl_queue') => HasQuit(dl_queue)
  <2>1. CASE dl_queue' = dl_queue
    BY <1>1, <2>1, CarriesItself
  <2>2. CASE /\ curr.id <= Len(list) /\ LineOf(curr.id).archive
             /\ dl_queue' = Append(dl_queue, Item(Member(curr.id)))
    <3>1. /\ curr.id \in 1..Len(list) /\ LineIn(list, curr.id).kind \in FileKinds
          /\ LineIn(list, curr.id) = list[curr.id] /\ LineOf(curr.id) = list[curr.id]
      <4>1. curr.id \in 1..(2 * Len(list)) /\ Len(list) \in Nat
        BY <1>1, ListAssumption DEF Known
      <4>2. curr.id \in 1..Len(list)
        BY <2>2, <4>1
      <4> QED BY <1>1, <4>2 DEF Known, FileKinds, LineIn, LineOf
    <3> QED BY <1>1, <2>2, <3>1, MemberAdded DEF Member
  <2>3. \/ dl_queue' = dl_queue
        \/ /\ curr.id <= Len(list) /\ LineOf(curr.id).archive
           /\ dl_queue' = Append(dl_queue, Item(Member(curr.id)))
    BY DEF ScriptOutput, Push, queue
  <2> QED BY <2>1, <2>2, <2>3
<1>3. Ahead \in Seq(Requests) /\ AheadDiffs \in Seq(Nat)
  BY DEF Inv, Types, Ahead, AheadDiffs
<1>4. FullsAsked(dl_queue, Ahead) => FullsAsked(dl_queue', Ahead)
  BY <1>2, <1>3 DEF Carries
<1>5. DiffsAsked(dl_queue, AheadDiffs) => DiffsAsked(dl_queue', AheadDiffs)
  BY <1>2, <1>3 DEF Carries
<1>6. Types'
  BY DEF Inv, ScriptOutput, Push, Types, backup, queue, results, thread, full_conn, Goto,
        GoOffline, Online
<1>7. AtWork'
  BY DEF Inv, ScriptOutput, Push, AtWork, backup, queue, results, thread, full_conn, Goto,
        GoOffline, Online
<1>8. EndMarks'
  BY <1>2 DEF Inv, ScriptOutput, Push, EndMarks, backup, queue, results, thread, full_conn, Goto,
        GoOffline, Online
<1>9. QueueOK(list, line, released, dl_queue)'
  BY <1>1, <1>2
<1>10. SharesEnded'
  BY DEF Inv, ScriptOutput, Push, SharesEnded, EndedBefore, backup, queue, results, thread,
        full_conn, Goto, GoOffline, Online
<1>11. FullsMatch'
  BY <1>4 DEF Inv, ScriptOutput, Push, FullsMatch, Ahead, backup, queue, results, thread,
        full_conn, Goto, GoOffline, Online
<1>12. WireMatches'
  BY DEF Inv, ScriptOutput, Push, WireMatches, backup, queue, results, thread, full_conn, Goto,
        GoOffline, Online
<1>13. DiffsMatch'
  BY <1>5 DEF Inv, ScriptOutput, Push, DiffsMatch, AheadDiffs, backup, queue, results, thread,
        full_conn, Goto, GoOffline, Online
<1>14. NoFileLost'
  BY <1>2 DEF Inv, NoFileLost, Recorded, InHand, Carries, ScriptOutput, Push, backup, queue,
        results, thread, full_conn, Goto, GoOffline
<1>15. ContentRight'
  BY DEF Inv, ScriptOutput, Push, ContentRight, RightContent, Scripted, backup, queue, results,
        thread, full_conn, Goto, GoOffline, Online
<1> QED
  BY <1>6, <1>7, <1>8, <1>9, <1>10, <1>11, <1>12, <1>13, <1>14, <1>15 DEF Inv

\* the mark goes to the back when something came behind it
LEMMA QuitKeeps ==
    ASSUME Inv, Quit
    PROVE  Inv'
<1>1. /\ list' = list /\ line' = line /\ released' = released /\ list \in Lists
      /\ QueueOK(list, line, released, dl_queue)
      /\ curr \in Items /\ curr.action = "quit"
      /\ step \in {"wait", "listed"} /\ step' = step
  BY DEF Inv, Types, AtWork, EndMarks, Quit, backup, results
<1>2. QueueOK(list, line, released, dl_queue') /\ Carries(dl_queue, dl_queue')
  <2>1. CASE dl_queue' = dl_queue
    BY <1>1, <2>1, CarriesItself
  <2>2. CASE dl_queue' = Append(dl_queue, curr)
    BY <1>1, <2>2, QuitAdded
  <2>3. dl_queue' = dl_queue \/ dl_queue' = Append(dl_queue, curr)
    BY DEF Quit
  <2> QED BY <2>1, <2>2, <2>3
<1>3. Ahead \in Seq(Requests) /\ AheadDiffs \in Seq(Nat)
  BY DEF Inv, Types, Ahead, AheadDiffs
<1>4. FullsAsked(dl_queue, Ahead) => FullsAsked(dl_queue', Ahead)
  BY <1>2, <1>3 DEF Carries
<1>5. DiffsAsked(dl_queue, AheadDiffs) => DiffsAsked(dl_queue', AheadDiffs)
  BY <1>2, <1>3 DEF Carries
<1>6. Types'
  BY DEF Inv, Quit, Types, backup, queue, results, thread, full_conn, Goto, GoOffline, Online
<1>7. AtWork'
  BY DEF Inv, Quit, AtWork, backup, queue, results, thread, full_conn, Goto, GoOffline, Online
<1>8. EndMarks'
  BY <1>1 DEF Inv, Quit, EndMarks, backup, queue, results, thread, full_conn, Goto, GoOffline,
        Online
<1>9. QueueOK(list, line, released, dl_queue)'
  BY <1>1, <1>2
<1>10. SharesEnded'
  BY DEF Inv, Quit, SharesEnded, EndedBefore, backup, queue, results, thread, full_conn, Goto,
        GoOffline, Online
<1>11. FullsMatch'
  BY <1>4 DEF Inv, Quit, FullsMatch, Ahead, backup, queue, results, thread, full_conn, Goto,
        GoOffline, Online
<1>12. WireMatches'
  BY DEF Inv, Quit, WireMatches, backup, queue, results, thread, full_conn, Goto, GoOffline,
        Online
<1>13. DiffsMatch'
  BY <1>5 DEF Inv, Quit, DiffsMatch, AheadDiffs, backup, queue, results, thread, full_conn, Goto,
        GoOffline, Online
<1>14. NoFileLost'
  BY <1>2 DEF Inv, NoFileLost, Recorded, InHand, Carries, Quit, backup, queue, results, thread,
        full_conn, Goto, GoOffline
<1>15. ContentRight'
  BY DEF Inv, Quit, ContentRight, RightContent, Scripted, backup, queue, results, thread,
        full_conn, Goto, GoOffline, Online
<1> QED
  BY <1>6, <1>7, <1>8, <1>9, <1>10, <1>11, <1>12, <1>13, <1>14, <1>15 DEF Inv

\* a line is queued, or skipped
LEMMA AddKeeps ==
    ASSUME Inv, Add
    PROVE  Inv'
<1>1. /\ list' = list /\ line' = line + 1 /\ released' = released /\ list \in Lists
      /\ QueueOK(list, line, released, dl_queue)
      /\ line \in 1..Len(list) /\ line \in Nat /\ Len(list) \in Nat
      /\ released \subseteq EndedBefore(line)
  BY ListAssumption DEF Inv, Types, EndMarks, SharesEnded, Add, results
<1>2. /\ QueueOK(list, line + 1, released, dl_queue') /\ Carries(dl_queue, dl_queue')
      /\ HasQuit(dl_queue') => HasQuit(dl_queue)
      /\ list[line].kind \in {"full", "diff"} => InQueue(dl_queue', line) \/ line \in skipped'
  <2>1. CASE dl_queue' = Append(dl_queue, Item(line))
    BY <1>1, <2>1, LineAdded
  <2>2. CASE dl_queue' = dl_queue /\ skipped' = skipped \cup {line}
    BY <1>1, <2>2, CarriesItself, NextLine
  <2>3. \/ dl_queue' = Append(dl_queue, Item(line))
        \/ dl_queue' = dl_queue /\ skipped' = skipped \cup {line}
    BY DEF Add, Push, queue
  <2> QED BY <2>1, <2>2, <2>3
<1>3. Ahead \in Seq(Requests) /\ AheadDiffs \in Seq(Nat)
  BY DEF Inv, Types, Ahead, AheadDiffs
<1>4. FullsAsked(dl_queue, Ahead) => FullsAsked(dl_queue', Ahead)
  BY <1>2, <1>3 DEF Carries
<1>5. DiffsAsked(dl_queue, AheadDiffs) => DiffsAsked(dl_queue', AheadDiffs)
  BY <1>2, <1>3 DEF Carries
<1>6. /\ pc' = pc /\ curr' = curr /\ is_offline' = is_offline /\ skipping' = skipping
      /\ asked' = asked /\ wire' = wire /\ astray' = astray /\ asked_diffs' = asked_diffs
      /\ nok' = nok /\ partial' = partial /\ loaded' = loaded /\ stranded' = stranded
      /\ step' = "look" /\ step = "add"
      /\ skipped \subseteq skipped'
  BY DEF Add, thread, full_conn, results
<1>7. Types'
  BY <1>1, <1>6 DEF Inv, Types
<1>8. AtWork'
  BY <1>1, <1>6, NextLine DEF Inv, AtWork, Online
<1>9. EndMarks'
  BY <1>1, <1>2, <1>6 DEF Inv, EndMarks
<1>10. QueueOK(list, line, released, dl_queue)'
  BY <1>1, <1>2
<1>11. SharesEnded'
  BY <1>1 DEF SharesEnded, EndedBefore
<1>12. FullsMatch'
  BY <1>4, <1>6 DEF Inv, FullsMatch, Ahead, Online
<1>13. WireMatches'
  BY <1>6 DEF Inv, WireMatches, Online
<1>14. DiffsMatch'
  BY <1>5, <1>6 DEF Inv, DiffsMatch, AheadDiffs, Online
<1>15. NoFileLost'
  <2> SUFFICES ASSUME NEW i \in 1..line, list[i].kind \in {"full", "diff"}
               PROVE  Recorded(i)' \/ InQueue(dl_queue', i) \/ InHand(i)'
    BY <1>1 DEF NoFileLost
  <2>1. CASE i = line
    BY <1>2, <2>1 DEF Recorded
  <2>2. CASE i # line
    <3>1. i \in 1..(line - 1)
      BY <1>1, <2>2
    <3>2. Recorded(i) \/ InQueue(dl_queue, i) \/ InHand(i)
      BY <3>1 DEF Inv, NoFileLost
    <3>3. (Recorded(i) => Recorded(i)') /\ (InHand(i) => InHand(i)')
      BY <1>6 DEF Recorded, InHand
    <3> QED BY <1>2, <3>2, <3>3 DEF Carries
  <2> QED BY <2>1, <2>2
<1>16. ContentRight'
  BY <1>1, <1>6 DEF Inv, ContentRight, RightContent, Scripted
<1> QED
  BY <1>7, <1>8, <1>9, <1>10, <1>11, <1>12, <1>13, <1>14, <1>15, <1>16 DEF Inv

\* after a reconnect only the file being read is asked for
LEMMA ReconnectedKeeps ==
    ASSUME Inv, Reconnected
    PROVE  Inv'
<1>1. /\ list' = list /\ line' = line /\ released' = released /\ step' = step
      /\ asked' = <<>> /\ dl_queue' = ResetFull(dl_queue)
      /\ QueueOK(list, line, released, dl_queue)
  BY DEF Inv, Reconnected, Reset, backup, results
<1>2. /\ QueueOK(list, line, released, dl_queue')
      /\ FullsAsked(dl_queue', <<>>)
      /\ \A t : DiffsAsked(dl_queue, t) => DiffsAsked(dl_queue', t)
      /\ \A i : InQueue(dl_queue, i) => InQueue(dl_queue', i)
      /\ HasQuit(dl_queue') => HasQuit(dl_queue)
  BY <1>1, FullsReset
<1>3. curr \in Items /\ Request(curr) \in Requests /\ Request(curr).id = curr.id
  BY RequestTyped DEF Inv, Types
<1>4. Types'
  BY <1>1, <1>3 DEF Inv, Reconnected, Reset, Types, backup, queue, results, thread, full_conn,
        Goto, GoOffline, Online
<1>5. AtWork'
  BY DEF Inv, Reconnected, Reset, AtWork, backup, queue, results, thread, full_conn, Goto,
        GoOffline, Online
<1>6. EndMarks'
  BY <1>1, <1>2 DEF Inv, Reconnected, Reset, EndMarks, backup, queue, results, thread, full_conn,
        Goto, GoOffline, Online
<1>7. QueueOK(list, line, released, dl_queue)'
  BY <1>1, <1>2
<1>8. SharesEnded'
  BY DEF Inv, Reconnected, Reset, SharesEnded, EndedBefore, backup, queue, results, thread,
        full_conn, Goto, GoOffline, Online
<1>9. FullsMatch'
  BY <1>1, <1>2 DEF Inv, Reconnected, Reset, FullsMatch, Ahead, backup, queue, results, thread,
        full_conn, Goto, GoOffline, Online
<1>10. WireMatches'
  BY <1>1, <1>3 DEF Inv, Reconnected, Reset, WireMatches, SameIds, backup, queue, results, thread,
        full_conn, Goto, GoOffline, Online
<1>11. DiffsMatch'
  BY <1>1, <1>2 DEF Inv, Reconnected, Reset, DiffsMatch, AheadDiffs, backup, queue, results,
        thread, full_conn, Goto, GoOffline, Online
<1>12. NoFileLost'
  BY <1>1, <1>2 DEF Inv, NoFileLost, Recorded, InHand, Loads, IsFull, AtWork, Reconnected, backup,
        queue, results, thread, full_conn, Goto, GoOffline
<1>13. ContentRight'
  BY DEF Inv, Reconnected, Reset, ContentRight, RightContent, Scripted, backup, queue, results,
        thread, full_conn, Goto, GoOffline, Online
<1> QED
  BY <1>4, <1>5, <1>6, <1>7, <1>8, <1>9, <1>10, <1>11, <1>12, <1>13 DEF Inv

\* the connection is lost for good
LEMMA LostKeeps ==
    ASSUME Inv, Lost
    PROVE  Inv'
<1>1. /\ list' = list /\ line' = line /\ released' = released /\ step' = step
      /\ asked' = <<>> /\ dl_queue' = ResetFull(dl_queue)
      /\ QueueOK(list, line, released, dl_queue)
  BY DEF Inv, Lost, Reset, backup, results
<1>2. /\ QueueOK(list, line, released, dl_queue')
      /\ FullsAsked(dl_queue', <<>>)
      /\ \A t : DiffsAsked(dl_queue, t) => DiffsAsked(dl_queue', t)
      /\ \A i : InQueue(dl_queue, i) => InQueue(dl_queue', i)
      /\ HasQuit(dl_queue') => HasQuit(dl_queue)
  BY <1>1, FullsReset
<1>3. curr \in Items /\ Request(curr) \in Requests /\ Request(curr).id = curr.id
  BY RequestTyped DEF Inv, Types
<1>4. Types'
  <2>1. pc' = "pop" /\ curr' = curr /\ skipping' = skipping /\ is_offline' \in BOOLEAN
    BY DEF Inv, Types, Lost, Goto, GoOffline
  <2>2. wire' = <<>> /\ asked_diffs' = asked_diffs
    BY DEF Lost
  <2> QED BY <1>1, <2>1, <2>2 DEF Inv, Types
<1>5. AtWork'
  BY DEF Inv, Lost, Reset, AtWork, backup, queue, results, thread, full_conn, Goto, GoOffline,
        Online
<1>6. EndMarks'
  BY <1>1, <1>2 DEF Inv, Lost, Reset, EndMarks, backup, queue, results, thread, full_conn, Goto,
        GoOffline, Online
<1>7. QueueOK(list, line, released, dl_queue)'
  BY <1>1, <1>2
<1>8. SharesEnded'
  BY DEF Inv, Lost, Reset, SharesEnded, EndedBefore, backup, queue, results, thread, full_conn,
        Goto, GoOffline, Online
<1>9. FullsMatch'
  BY <1>1, <1>2 DEF Inv, Lost, Reset, FullsMatch, Ahead, backup, queue, results, thread,
        full_conn, Goto, GoOffline, Online
<1>10. WireMatches'
  BY <1>1, <1>3 DEF Inv, Lost, Reset, WireMatches, SameIds, backup, queue, results, thread,
        full_conn, Goto, GoOffline, Online
<1>11. DiffsMatch'
  BY <1>1, <1>2 DEF Inv, Lost, Reset, DiffsMatch, AheadDiffs, backup, queue, results, thread,
        full_conn, Goto, GoOffline, Online
<1>12. NoFileLost'
  BY <1>1, <1>2 DEF Inv, NoFileLost, Recorded, InHand, Loads, IsFull, AtWork, Lost, backup, queue,
        results, thread, full_conn, Goto, GoOffline
<1>13. ContentRight'
  BY DEF Inv, Lost, Reset, Content, FileRead, Unknown, ContentRight, RightContent, Scripted,
        backup, queue, results, thread, full_conn, Goto, GoOffline, Online
<1> QED
  BY <1>4, <1>5, <1>6, <1>7, <1>8, <1>9, <1>10, <1>11, <1>12, <1>13 DEF Inv

\* a file that arrives damaged comes with a new connection
LEMMA CorruptKeeps ==
    ASSUME Inv, Corrupt
    PROVE  Inv'
<1>1. /\ list' = list /\ line' = line /\ released' = released /\ step' = step
      /\ asked' = <<>> /\ dl_queue' = ResetFull(dl_queue)
      /\ QueueOK(list, line, released, dl_queue)
  BY DEF Inv, Corrupt, Reset, backup, results
<1>2. /\ QueueOK(list, line, released, dl_queue')
      /\ FullsAsked(dl_queue', <<>>)
      /\ \A t : DiffsAsked(dl_queue, t) => DiffsAsked(dl_queue', t)
      /\ \A i : InQueue(dl_queue, i) => InQueue(dl_queue', i)
      /\ HasQuit(dl_queue') => HasQuit(dl_queue)
  BY <1>1, FullsReset
<1>3. curr \in Items /\ Request(curr) \in Requests /\ Request(curr).id = curr.id
  BY RequestTyped DEF Inv, Types
<1>4. Types'
  <2>1. wire' = <<>> /\ asked_diffs' = asked_diffs
    BY DEF Corrupt, Reset, full_conn
  <2>2. CASE curr.script
    <3>1. pc' \in {"get", "pop"} /\ curr' = curr /\ skipping' = skipping
      BY <2>2 DEF Corrupt, Goto, GoOffline
    <3>2. is_offline' \in BOOLEAN
      <4>1. is_offline \in BOOLEAN
        BY DEF Inv, Types
      <4>2. CASE pc' = "get" /\ is_offline' = is_offline
        BY <4>1, <4>2
      <4>3. CASE is_offline' = TRUE
        BY <4>3
      <4>4. (pc' = "get" /\ is_offline' = is_offline) \/ is_offline' = TRUE
        BY <2>2, Zenon DEF Corrupt, Goto, GoOffline
      <4> QED BY <4>2, <4>3, <4>4
    <3> QED BY <1>1, <2>1, <3>1, <3>2 DEF Inv, Types
  <2>3. CASE ~curr.script
    <3>1. pc' \in {"get", "pop"} /\ curr' = curr /\ skipping' = skipping /\ is_offline' = is_offline
      BY <2>3 DEF Corrupt, Goto, GoOffline
    <3> QED BY <1>1, <2>1, <3>1 DEF Inv, Types
  <2> QED BY <2>2, <2>3
<1>5. AtWork'
  BY DEF Inv, Corrupt, Reset, AtWork, backup, queue, results, thread, full_conn, Goto, GoOffline,
        Online
<1>6. EndMarks'
  BY <1>1, <1>2 DEF Inv, Corrupt, Reset, EndMarks, backup, queue, results, thread, full_conn,
        Goto, GoOffline, Online
<1>7. QueueOK(list, line, released, dl_queue)'
  BY <1>1, <1>2
<1>8. SharesEnded'
  BY DEF Inv, Corrupt, Reset, SharesEnded, EndedBefore, backup, queue, results, thread, full_conn,
        Goto, GoOffline, Online
<1>9. FullsMatch'
  BY <1>1, <1>2 DEF Inv, Corrupt, Reset, FullsMatch, Ahead, backup, queue, results, thread,
        full_conn, Goto, GoOffline, Online
<1>10. WireMatches'
  BY <1>1, <1>3 DEF Inv, Corrupt, Reset, WireMatches, SameIds, backup, queue, results, thread,
        full_conn, Goto, GoOffline, Online
<1>11. DiffsMatch'
  BY <1>1, <1>2 DEF Inv, Corrupt, Reset, DiffsMatch, AheadDiffs, backup, queue, results, thread,
        full_conn, Goto, GoOffline, Online
<1>12. NoFileLost'
  BY <1>1, <1>2 DEF Inv, NoFileLost, Recorded, InHand, Loads, IsFull, AtWork, Corrupt, backup,
        queue, results, thread, full_conn, Goto, GoOffline
<1>13. ContentRight'
  BY DEF Inv, Corrupt, Reset, ContentRight, RightContent, Scripted, backup, queue, results,
        thread, full_conn, Goto, GoOffline, Online
<1> QED
  BY <1>4, <1>5, <1>6, <1>7, <1>8, <1>9, <1>10, <1>11, <1>12, <1>13 DEF Inv

\* a difference is refused
LEMMA PatchRefusedKeeps ==
    ASSUME Inv, PatchRefused
    PROVE  Inv'
<1>1. /\ list' = list /\ line' = line /\ released' = released /\ step' = step
      /\ \/ asked_diffs' = <<>> /\ dl_queue' = ResetDiffs(dl_queue)
         \/ asked_diffs' = asked_diffs /\ dl_queue' = dl_queue
      /\ QueueOK(list, line, released, dl_queue) /\ asked_diffs \in Seq(Nat)
      /\ Online /\ ~DamageAhead => DiffsAsked(dl_queue, asked_diffs)
  BY DEF Inv, Types, DiffsMatch, AheadDiffs, PatchRefused, ResetPatch, backup, queue, results
<1>2. /\ QueueOK(list, line, released, dl_queue')
      /\ Online /\ ~DamageAhead => DiffsAsked(dl_queue', asked_diffs')
      /\ \A s : FullsAsked(dl_queue, s) => FullsAsked(dl_queue', s)
      /\ \A i : InQueue(dl_queue, i) => InQueue(dl_queue', i)
      /\ HasQuit(dl_queue') => HasQuit(dl_queue)
      /\ asked_diffs' \in Seq(Nat)
  <2>1. CASE asked_diffs' = <<>> /\ dl_queue' = ResetDiffs(dl_queue)
    BY <1>1, <2>1, DiffsReset
  <2>2. CASE asked_diffs' = asked_diffs /\ dl_queue' = dl_queue
    BY <1>1, <2>2
  <2> QED BY <1>1, <2>1, <2>2
<1>3. Types'
  <2>1. wire' = wire /\ asked' = asked
    BY DEF PatchRefused, ResetPatch, full_conn
  <2>2. CASE curr.script
    <3>1. pc' \in {"get", "pop"} /\ curr' = curr /\ skipping' = skipping
      BY <2>2 DEF PatchRefused, Goto, GoOffline
    <3>2. is_offline' \in BOOLEAN
      <4>1. is_offline \in BOOLEAN
        BY DEF Inv, Types
      <4>2. CASE pc' = "get" /\ is_offline' = is_offline
        BY <4>1, <4>2
      <4>3. CASE is_offline' = TRUE
        BY <4>3
      <4>4. (pc' = "get" /\ is_offline' = is_offline) \/ is_offline' = TRUE
        BY <2>2, Zenon DEF PatchRefused, Goto, GoOffline
      <4> QED BY <4>2, <4>3, <4>4
    <3> QED BY <1>1, <1>2, <2>1, <3>1, <3>2 DEF Inv, Types
  <2>3. CASE ~curr.script
    <3>1. pc' \in {"get", "pop"} /\ curr' = curr /\ skipping' = skipping /\ is_offline' = is_offline
      BY <2>3 DEF PatchRefused, Goto, GoOffline
    <3> QED BY <1>1, <1>2, <2>1, <3>1 DEF Inv, Types
  <2> QED BY <2>2, <2>3
<1>4. AtWork'
  BY DEF Inv, PatchRefused, ResetPatch, KeptOrNot, AtWork, backup, queue, results, thread,
        full_conn, Goto, GoOffline, Online
<1>5. EndMarks'
  BY <1>1, <1>2 DEF Inv, PatchRefused, ResetPatch, KeptOrNot, EndMarks, backup, queue, results,
        thread, full_conn, Goto, GoOffline, Online
<1>6. QueueOK(list, line, released, dl_queue)'
  BY <1>1, <1>2
<1>7. SharesEnded'
  BY DEF Inv, PatchRefused, ResetPatch, KeptOrNot, SharesEnded, EndedBefore, backup, queue,
        results, thread, full_conn, Goto, GoOffline, Online
<1>8. FullsMatch'
  BY <1>1, <1>2 DEF Inv, PatchRefused, ResetPatch, KeptOrNot, FullsMatch, Ahead, backup, queue,
        results, thread, full_conn, Goto, GoOffline, Online
<1>9. WireMatches'
  BY DEF Inv, PatchRefused, ResetPatch, KeptOrNot, WireMatches, backup, queue, results, thread,
        full_conn, Goto, GoOffline, Online
<1>10. DiffsMatch'
  BY <1>1, <1>2 DEF Inv, PatchRefused, ResetPatch, KeptOrNot, DiffsMatch, AheadDiffs, backup,
        queue, results, thread, full_conn, Goto, GoOffline, Online
<1>11. NoFileLost'
  BY <1>1, <1>2 DEF Inv, NoFileLost, Recorded, InHand, Loads, IsDiff, AtWork, PatchRefused,
        KeptOrNot, backup, queue, results, thread, full_conn, Goto, GoOffline
<1>12. ContentRight'
  BY DEF Inv, PatchRefused, ResetPatch, KeptOrNot, ContentRight, RightContent, Scripted, backup,
        queue, results, thread, full_conn, Goto, GoOffline, Online
<1> QED
  BY <1>3, <1>4, <1>5, <1>6, <1>7, <1>8, <1>9, <1>10, <1>11, <1>12 DEF Inv

\* the connection for differences is made anew
LEMMA PatchReconnectedKeeps ==
    ASSUME Inv, PatchReconnected
    PROVE  Inv'
<1>1. /\ list' = list /\ line' = line /\ released' = released /\ step' = step
      /\ asked_diffs' = <<>> /\ dl_queue' = ResetDiffs(dl_queue)
      /\ QueueOK(list, line, released, dl_queue)
  BY DEF Inv, PatchReconnected, ResetPatch, backup, results
<1>2. /\ QueueOK(list, line, released, dl_queue')
      /\ DiffsAsked(dl_queue', <<>>)
      /\ \A s : FullsAsked(dl_queue, s) => FullsAsked(dl_queue', s)
      /\ \A i : InQueue(dl_queue, i) => InQueue(dl_queue', i)
      /\ HasQuit(dl_queue') => HasQuit(dl_queue)
  BY <1>1, DiffsReset
<1>3. Types'
  BY <1>1 DEF Inv, PatchReconnected, ResetPatch, Types, backup, queue, results, thread, full_conn,
        Goto, GoOffline, Online
<1>4. AtWork'
  BY DEF Inv, PatchReconnected, ResetPatch, AtWork, backup, queue, results, thread, full_conn,
        Goto, GoOffline, Online
<1>5. EndMarks'
  BY <1>1, <1>2 DEF Inv, PatchReconnected, ResetPatch, EndMarks, backup, queue, results, thread,
        full_conn, Goto, GoOffline, Online
<1>6. QueueOK(list, line, released, dl_queue)'
  BY <1>1, <1>2
<1>7. SharesEnded'
  BY DEF Inv, PatchReconnected, ResetPatch, SharesEnded, EndedBefore, backup, queue, results,
        thread, full_conn, Goto, GoOffline, Online
<1>8. FullsMatch'
  BY <1>1, <1>2 DEF Inv, PatchReconnected, ResetPatch, FullsMatch, Ahead, backup, queue, results,
        thread, full_conn, Goto, GoOffline, Online
<1>9. WireMatches'
  BY DEF Inv, PatchReconnected, ResetPatch, WireMatches, backup, queue, results, thread,
        full_conn, Goto, GoOffline, Online
<1>10. DiffsMatch'
  BY <1>1, <1>2 DEF Inv, PatchReconnected, ResetPatch, DiffsMatch, AheadDiffs, backup, queue,
        results, thread, full_conn, Goto, GoOffline, Online
<1>11. NoFileLost'
  BY <1>1, <1>2 DEF Inv, NoFileLost, Recorded, InHand, Loads, IsDiff, AtWork, PatchReconnected,
        backup, queue, results, thread, full_conn, Goto, GoOffline
<1>12. ContentRight'
  BY DEF Inv, PatchReconnected, ResetPatch, ContentRight, RightContent, Scripted, backup, queue,
        results, thread, full_conn, Goto, GoOffline, Online
<1> QED
  BY <1>3, <1>4, <1>5, <1>6, <1>7, <1>8, <1>9, <1>10, <1>11, <1>12 DEF Inv

\* the connection for differences is lost for good
LEMMA PatchLostKeeps ==
    ASSUME Inv, PatchLost
    PROVE  Inv'
<1>1. /\ list' = list /\ line' = line /\ released' = released /\ step' = step
      /\ asked_diffs' = <<>> /\ dl_queue' = ResetDiffs(dl_queue)
      /\ QueueOK(list, line, released, dl_queue)
  BY DEF Inv, PatchLost, ResetPatch, backup, results
<1>2. /\ QueueOK(list, line, released, dl_queue')
      /\ DiffsAsked(dl_queue', <<>>)
      /\ \A s : FullsAsked(dl_queue, s) => FullsAsked(dl_queue', s)
      /\ \A i : InQueue(dl_queue, i) => InQueue(dl_queue', i)
      /\ HasQuit(dl_queue') => HasQuit(dl_queue)
  BY <1>1, DiffsReset
<1>3. Types'
  BY <1>1 DEF Inv, PatchLost, ResetPatch, KeptOrNot, Types, backup, queue, results, thread,
        full_conn, Goto, GoOffline, Online
<1>4. AtWork'
  BY DEF Inv, PatchLost, ResetPatch, KeptOrNot, AtWork, backup, queue, results, thread, full_conn,
        Goto, GoOffline, Online
<1>5. EndMarks'
  BY <1>1, <1>2 DEF Inv, PatchLost, ResetPatch, KeptOrNot, EndMarks, backup, queue, results,
        thread, full_conn, Goto, GoOffline, Online
<1>6. QueueOK(list, line, released, dl_queue)'
  BY <1>1, <1>2
<1>7. SharesEnded'
  BY DEF Inv, PatchLost, ResetPatch, KeptOrNot, SharesEnded, EndedBefore, backup, queue, results,
        thread, full_conn, Goto, GoOffline, Online
<1>8. FullsMatch'
  BY <1>1, <1>2 DEF Inv, PatchLost, ResetPatch, KeptOrNot, FullsMatch, Ahead, backup, queue,
        results, thread, full_conn, Goto, GoOffline, Online
<1>9. WireMatches'
  BY DEF Inv, PatchLost, ResetPatch, KeptOrNot, WireMatches, backup, queue, results, thread,
        full_conn, Goto, GoOffline, Online
<1>10. DiffsMatch'
  BY <1>1, <1>2 DEF Inv, PatchLost, ResetPatch, KeptOrNot, DiffsMatch, AheadDiffs, backup, queue,
        results, thread, full_conn, Goto, GoOffline, Online
<1>11. NoFileLost'
  BY <1>1, <1>2 DEF Inv, NoFileLost, Recorded, InHand, Loads, IsDiff, AtWork, PatchLost,
        KeptOrNot, backup, queue, results, thread, full_conn, Goto, GoOffline
<1>12. ContentRight'
  BY DEF Inv, PatchLost, ResetPatch, KeptOrNot, ContentRight, RightContent, Scripted, backup,
        queue, results, thread, full_conn, Goto, GoOffline, Online
<1> QED
  BY <1>3, <1>4, <1>5, <1>6, <1>7, <1>8, <1>9, <1>10, <1>11, <1>12 DEF Inv

\* the next file is asked for, or given back, or there is none
LEMMA FillKeeps ==
    ASSUME Inv, Fill
    PROVE  Inv'
<1> DEFINE P == FullPrepared[1]
           f == SelectInSeq(P, Askable)
           sent == [id |-> P[f].id, end |-> FALSE]
<1>1. /\ list' = list /\ line' = line /\ released' = released /\ step' = step
      /\ curr' = curr /\ is_offline' = is_offline /\ skipping' = skipping
      /\ asked_diffs' = asked_diffs /\ skipped' = skipped /\ nok' = nok
      /\ partial' = partial /\ loaded' = loaded /\ stranded' = stranded
      /\ astray' = astray
      /\ pc = "fill" /\ pc' \in {"fill", "receive"}
      /\ QueueOK(list, line, released, dl_queue)
      /\ curr \in Items /\ wire \in Seq(Requests) /\ asked \in Seq(Requests)
      /\ asked_diffs \in Seq(Nat)
  <2>1. /\ QueueOK(list, line, released, dl_queue) /\ curr \in Items
        /\ wire \in Seq(Requests) /\ asked \in Seq(Requests) /\ asked_diffs \in Seq(Nat)
    BY DEF Inv, Types
  <2>2. /\ list' = list /\ line' = line /\ released' = released /\ step' = step
        /\ asked_diffs' = asked_diffs /\ skipped' = skipped /\ nok' = nok
        /\ partial' = partial /\ loaded' = loaded /\ stranded' = stranded /\ pc = "fill"
        /\ astray' = astray
    BY DEF Fill, backup, results, full_conn
  <2>3. /\ curr' = curr /\ is_offline' = is_offline /\ skipping' = skipping
        /\ pc' \in {"fill", "receive"}
    BY <2>2 DEF Fill, thread, Goto
  <2> QED BY <2>1, <2>2, <2>3
<1>2. \/ /\ f > 0
         /\ dl_queue' = [P EXCEPT ![f].queued = TRUE]
         /\ wire' = Append(wire, sent) /\ asked' = Append(asked, Request(P[f]))
      \/ dl_queue' = P /\ wire' = wire /\ asked' = asked
  BY DEF Fill, full_conn
<1>3. /\ QueueOK(list, line, released, P) /\ Carries(dl_queue, P)
      /\ HasQuit(P) => HasQuit(dl_queue)
  BY <1>1, FullPreparedOK
<1>4. /\ wire # <<>> /\ Head(wire).id = curr.id /\ SameIds(Tail(wire), asked)
      /\ FullsAsked(dl_queue, asked) /\ Online
  BY <1>1 DEF Inv, AtWork, FullsMatch, Ahead, WireMatches
<1> HIDE DEF P
<1>5. /\ QueueOK(list, line, released, dl_queue')
      /\ FullsAsked(dl_queue', asked')
      /\ \A t \in Seq(Nat) : DiffsAsked(dl_queue, t) => DiffsAsked(dl_queue', t)
      /\ \A i : InQueue(dl_queue, i) => InQueue(dl_queue', i)
      /\ HasQuit(dl_queue') => HasQuit(dl_queue)
      /\ wire' \in Seq(Requests) /\ asked' \in Seq(Requests)
      /\ wire' # <<>> /\ Head(wire').id = curr.id /\ SameIds(Tail(wire'), asked')
  <2>1. CASE dl_queue' = P /\ wire' = wire /\ asked' = asked
    BY <1>1, <1>3, <1>4, <2>1 DEF Carries
  <2>2. CASE /\ f > 0
             /\ dl_queue' = [P EXCEPT ![f].queued = TRUE]
             /\ wire' = Append(wire, sent) /\ asked' = Append(asked, Request(P[f]))
    <3> DEFINE r == [P EXCEPT ![f].queued = TRUE]
    <3>1. /\ f \in 1..Len(P)
          /\ QueueOK(list, line, released, r)
          /\ \A s \in Seq(Requests) : FullsAsked(P, s) => FullsAsked(r, Append(s, Request(P[f])))
          /\ \A t : DiffsAsked(P, t) => DiffsAsked(r, t)
          /\ \A i : InQueue(P, i) => InQueue(r, i)
          /\ HasQuit(r) => HasQuit(P)
      BY <1>3, <2>2, FullMarked
    <3>2. P[f] \in Items
      BY <1>3, <3>1 DEF QueueOK
    <3> HIDE DEF f, r
    <3>3. Request(P[f]) \in Requests /\ sent \in Requests /\ Request(P[f]).id = sent.id
      BY <3>2, RequestTyped DEF Requests
    <3> HIDE DEF sent
    <3>4. FullsAsked(P, asked)
      BY <1>1, <1>3, <1>4 DEF Carries
    <3>5. FullsAsked(r, Append(asked, Request(P[f])))
      BY <1>1, <3>1, <3>4
    <3>6. /\ Append(wire, sent) # <<>> /\ Head(Append(wire, sent)) = Head(wire)
          /\ SameIds(Tail(Append(wire, sent)), Append(asked, Request(P[f])))
      BY <1>1, <1>4, <3>3, SameIdsAdded
    <3>7. Append(wire, sent) \in Seq(Requests) /\ Append(asked, Request(P[f])) \in Seq(Requests)
      BY <1>1, <3>3
    <3>8. dl_queue' = r /\ wire' = Append(wire, sent) /\ asked' = Append(asked, Request(P[f]))
      BY <2>2 DEF r
    <3>9. /\ \A t \in Seq(Nat) : DiffsAsked(dl_queue, t) => DiffsAsked(r, t)
          /\ \A i : InQueue(dl_queue, i) => InQueue(r, i)
          /\ HasQuit(r) => HasQuit(dl_queue)
      BY <1>3, <3>1 DEF Carries
    <3> QED BY <1>4, <3>1, <3>5, <3>6, <3>7, <3>8, <3>9
  <2> HIDE DEF f, sent
  <2> QED BY <1>2, <2>1, <2>2
<1>6. AheadDiffs = asked_diffs /\ AheadDiffs' = asked_diffs
  BY <1>1 DEF AheadDiffs
<1> HIDE DEF f, sent
<1>7. Types'
  BY <1>1, <1>5 DEF Inv, Types
<1>8. AtWork'
  BY <1>1 DEF Inv, AtWork, Online
<1>9. EndMarks'
  BY <1>1, <1>5 DEF Inv, EndMarks
<1>10. QueueOK(list, line, released, dl_queue)'
  BY <1>1, <1>5
<1>11. SharesEnded'
  BY <1>1 DEF Inv, SharesEnded, EndedBefore
<1>12. FullsMatch'
  BY <1>1, <1>5 DEF FullsMatch, Ahead
<1>13. WireMatches'
  BY <1>1, <1>5 DEF WireMatches
<1>14. DiffsMatch'
  BY <1>1, <1>5, <1>6 DEF Inv, DiffsMatch, Online
<1>15. NoFileLost'
  BY <1>1, <1>5 DEF Inv, NoFileLost, Recorded, InHand
<1>16. ContentRight'
  BY <1>1 DEF Inv, ContentRight, RightContent, Scripted
<1> QED
  BY <1>7, <1>8, <1>9, <1>10, <1>11, <1>12, <1>13, <1>14, <1>15, <1>16 DEF Inv

\* the old file is opened, or the difference goes back as a whole file
LEMMA PatchPrepareKeeps ==
    ASSUME Inv, PatchPrepare
    PROVE  Inv'
<1>1. /\ list' = list /\ line' = line /\ released' = released /\ step' = step
      /\ asked' = asked /\ wire' = wire /\ astray' = astray
      /\ asked_diffs' = asked_diffs /\ skipping' = skipping
      /\ skipped' = skipped /\ nok' = nok /\ partial' = partial /\ loaded' = loaded
      /\ pc = "patch" /\ curr.prepared # "yes"
      /\ QueueOK(list, line, released, dl_queue)
      /\ curr \in Items /\ IsDiff(curr) /\ Known(list, line, curr) /\ Held(list, released, curr)
      /\ asked \in Seq(Requests) /\ asked_diffs \in Seq(Nat) /\ Online
      /\ ~curr.queued
  <2>1. pc = "patch" /\ curr.prepared # "yes"
    BY DEF PatchPrepare
  <2>2. /\ list' = list /\ line' = line /\ released' = released /\ step' = step
        /\ asked' = asked /\ wire' = wire /\ astray' = astray /\ asked_diffs' = asked_diffs
        /\ skipped' = skipped /\ nok' = nok /\ partial' = partial /\ loaded' = loaded
    BY DEF PatchPrepare, backup, full_conn
  <2>3. skipping' = skipping
    BY DEF PatchPrepare, Goto, GoOffline
  <2>4. /\ QueueOK(list, line, released, dl_queue)
        /\ curr \in Items /\ asked \in Seq(Requests) /\ asked_diffs \in Seq(Nat)
    BY DEF Inv, Types
  <2>5. /\ Known(list, line, curr) /\ Online /\ IsDiff(curr) /\ Held(list, released, curr)
        /\ curr.queued => curr.prepared = "yes"
    BY <2>1 DEF Inv, AtWork
  <2> QED BY <2>1, <2>2, <2>3, <2>4, <2>5
<1>2. /\ Ahead = asked /\ AheadDiffs = asked_diffs
      /\ FullsAsked(dl_queue, asked) /\ SameIds(wire, asked)
      /\ ~DamageAhead => DiffsAsked(dl_queue, asked_diffs)
      /\ ~DamageAhead /\ asked_diffs # <<>> => curr.prepared = "error"
  BY <1>1 DEF Inv, Ahead, AheadDiffs, FullsMatch, WireMatches, DiffsMatch
<1>3. CASE /\ curr.prepared = "no" /\ Found(curr) = "none"
           /\ dl_queue' = InsertLate(dl_queue, [curr EXCEPT !.queued = FALSE])
           /\ Goto("pop") /\ stranded' = stranded
  <2> DEFINE x == [curr EXCEPT !.queued = FALSE]
  <2>1. x \in Items /\ SameItem(curr, x) /\ ~x.queued /\ IsDiff(x)
    BY <1>1 DEF Items, SameItem, IsDiff
  <2>2. Known(list, line, x) /\ Held(list, released, x) /\ \A i : Loads(curr, i) => Loads(x, i)
    BY <1>1, <2>1, SameKnown
  <2>3. dl_queue' = InsertLate(dl_queue, x)
    BY <1>3
  <2> HIDE DEF x
  <2>4. /\ QueueOK(list, line, released, dl_queue') /\ Carries(dl_queue, dl_queue')
        /\ HasQuit(dl_queue') => HasQuit(dl_queue)
        /\ \A i : Loads(curr, i) => InQueue(dl_queue', i)
    BY <1>1, <2>1, <2>2, <2>3, PutLate
  <2>5. FullsAsked(dl_queue', asked) /\ (~DamageAhead => DiffsAsked(dl_queue', asked_diffs))
    BY <1>1, <1>2, <2>4 DEF Carries
  <2>6. pc' = "pop" /\ curr' = curr /\ is_offline' = is_offline
    BY <1>3 DEF Goto
  <2>7. Types' /\ AtWork'
    BY <1>1, <2>6 DEF Inv, Types, AtWork
  <2>8. EndMarks'
    BY <1>1, <2>4, <2>6 DEF Inv, EndMarks
  <2>9. SharesEnded' /\ ContentRight'
    BY <1>1 DEF Inv, SharesEnded, EndedBefore, ContentRight, RightContent, Scripted
  <2>10. FullsMatch'
    BY <1>1, <2>5, <2>6 DEF FullsMatch, Ahead
  <2>11. WireMatches'
    BY <1>1, <1>2, <2>6 DEF WireMatches
  <2>12. DiffsMatch'
    BY <1>1, <2>5, <2>6 DEF DiffsMatch, AheadDiffs
  <2>13. NoFileLost'
    BY <1>1, <1>3, <2>4, <2>6 DEF Inv, NoFileLost, Recorded, InHand, Carries
  <2> QED BY <1>1, <2>4, <2>7, <2>8, <2>9, <2>10, <2>11, <2>12, <2>13 DEF Inv
<1>4. CASE /\ curr.prepared = "no" /\ curr' = [curr EXCEPT !.prepared = "yes"]
           /\ dl_queue' = dl_queue /\ pc' = pc /\ is_offline' = is_offline /\ stranded' = stranded
  <2>1. /\ curr' \in Items /\ SameItem(curr, curr') /\ IsDiff(curr') /\ ~curr'.queued
        /\ curr'.prepared = "yes"
    BY <1>1, <1>4 DEF Items, SameItem, IsDiff
  <2>2. /\ Known(list, line, curr') /\ Held(list, released, curr')
        /\ \A i : Loads(curr, i) => Loads(curr', i)
    BY <1>1, <2>1, SameKnown
  <2>3. Types'
    BY <1>1, <1>4, <2>1 DEF Inv, Types
  <2>4. AtWork'
    BY <1>1, <1>4, <2>1, <2>2 DEF Inv, AtWork, Online
  <2>5. EndMarks'
    BY <1>1, <1>4 DEF Inv, EndMarks
  <2>6. SharesEnded' /\ ContentRight'
    BY <1>1 DEF Inv, SharesEnded, EndedBefore, ContentRight, RightContent, Scripted
  <2>7. FullsMatch' /\ WireMatches'
    BY <1>1, <1>2, <1>4 DEF FullsMatch, WireMatches, Ahead
  <2>8. DiffsMatch'
    BY <1>1, <1>2, <1>4, <2>1 DEF DiffsMatch, AheadDiffs
  <2>9. NoFileLost'
    BY <1>1, <1>4, <2>2 DEF Inv, NoFileLost, Recorded, InHand
  <2> QED BY <1>1, <1>4, <2>3, <2>4, <2>5, <2>6, <2>7, <2>8, <2>9 DEF Inv
<1>5. CASE stranded' = stranded \cup {curr.id} /\ GoOffline /\ dl_queue' = dl_queue
  <2>1. pc' = "pop" /\ is_offline' = TRUE /\ curr' = curr
    BY <1>5 DEF GoOffline
  <2>2. ~Online'
    BY <2>1 DEF Online
  <2>3. Types' /\ AtWork'
    BY <1>1, <2>1 DEF Inv, Types, AtWork
  <2>4. EndMarks'
    BY <1>1, <1>5, <2>1 DEF Inv, EndMarks
  <2>5. SharesEnded' /\ ContentRight'
    BY <1>1 DEF Inv, SharesEnded, EndedBefore, ContentRight, RightContent, Scripted
  <2>6. FullsMatch' /\ WireMatches' /\ DiffsMatch'
    BY <2>2 DEF FullsMatch, WireMatches, DiffsMatch
  <2>7. NoFileLost'
    BY <1>1, <1>5, <2>1 DEF Inv, NoFileLost, Recorded, InHand, Loads
  <2> QED BY <1>1, <1>5, <2>3, <2>4, <2>5, <2>6, <2>7 DEF Inv
<1> QED
  BY <1>3, <1>4, <1>5 DEF PatchPrepare, queue

\* further differences are prepared and asked for
LEMMA FillDiffsKeeps ==
    ASSUME Inv, FillDiffs
    PROVE  Inv'
<1> DEFINE P == DiffPrepared[1]
           d == SelectInSeq(P, AskableDiff)
<1>1. /\ list' = list /\ line' = line /\ released' = released /\ step' = step
      /\ pc' = pc /\ curr' = curr /\ is_offline' = is_offline /\ skipping' = skipping
      /\ asked' = asked /\ wire' = wire /\ astray' = astray /\ skipped' = skipped /\ nok' = nok
      /\ partial' = partial /\ loaded' = loaded /\ stranded' = stranded
      /\ pc = "difference"
      /\ QueueOK(list, line, released, dl_queue)
      /\ asked \in Seq(Requests) /\ asked_diffs \in Seq(Nat)
  <2>1. /\ QueueOK(list, line, released, dl_queue)
        /\ asked \in Seq(Requests) /\ asked_diffs \in Seq(Nat)
    BY DEF Inv, Types
  <2>2. /\ list' = list /\ line' = line /\ released' = released /\ step' = step
        /\ skipped' = skipped /\ nok' = nok
        /\ partial' = partial /\ loaded' = loaded /\ stranded' = stranded
        /\ asked' = asked /\ wire' = wire /\ astray' = astray /\ pc = "difference"
        /\ pc' = pc /\ curr' = curr /\ is_offline' = is_offline /\ skipping' = skipping
    BY DEF FillDiffs, backup, results, full_conn, thread
  <2> QED BY <2>1, <2>2
<1>2. \/ /\ d > 0
         /\ dl_queue' = [P EXCEPT ![d].queued = TRUE]
         /\ asked_diffs' = Append(asked_diffs, P[d].id)
      \/ dl_queue' = P /\ asked_diffs' = asked_diffs
      \/ dl_queue' = ResetDiffs(P) /\ asked_diffs' = <<>>
  BY DEF FillDiffs
<1>3. /\ QueueOK(list, line, released, P) /\ Carries(dl_queue, P)
      /\ HasQuit(P) => HasQuit(dl_queue)
      /\ d = 0 \/ P[d].prepared = "yes"
  BY <1>1, DiffPreparedOK
<1>4. Ahead = asked /\ AheadDiffs = asked_diffs
  BY <1>1 DEF Ahead, AheadDiffs
<1> HIDE DEF P
<1>5. /\ QueueOK(list, line, released, dl_queue')
      /\ \A s \in Seq(Requests) : FullsAsked(dl_queue, s) => FullsAsked(dl_queue', s)
      /\ DiffsAsked(dl_queue, asked_diffs) => DiffsAsked(dl_queue', asked_diffs')
      /\ \A i : InQueue(dl_queue, i) => InQueue(dl_queue', i)
      /\ HasQuit(dl_queue') => HasQuit(dl_queue)
      /\ asked_diffs' \in Seq(Nat)
  <2>1. CASE dl_queue' = P /\ asked_diffs' = asked_diffs
    BY <1>1, <1>3, <2>1 DEF Carries
  <2>2. CASE dl_queue' = ResetDiffs(P) /\ asked_diffs' = <<>>
    <3> DEFINE r == ResetDiffs(P)
    <3>1. /\ QueueOK(list, line, released, r)
          /\ DiffsAsked(r, <<>>)
          /\ \A s : FullsAsked(P, s) => FullsAsked(r, s)
          /\ \A i : InQueue(P, i) => InQueue(r, i)
          /\ HasQuit(r) => HasQuit(P)
      BY <1>3, DiffsReset
    <3> QED BY <1>1, <1>3, <2>2, <3>1 DEF Carries
  <2>3. CASE /\ d > 0
             /\ dl_queue' = [P EXCEPT ![d].queued = TRUE]
             /\ asked_diffs' = Append(asked_diffs, P[d].id)
    <3> DEFINE r == [P EXCEPT ![d].queued = TRUE]
    <3>1. P[d].prepared = "yes"
      BY <1>3, <2>3
    <3>2. /\ d \in 1..Len(P)
          /\ QueueOK(list, line, released, r)
          /\ \A s : FullsAsked(P, s) => FullsAsked(r, s)
          /\ \A t \in Seq(Nat) : DiffsAsked(P, t) => DiffsAsked(r, Append(t, P[d].id))
          /\ \A i : InQueue(P, i) => InQueue(r, i)
          /\ HasQuit(r) => HasQuit(P)
      BY <1>3, <2>3, <3>1, DiffMarked
    <3>3. P[d].id \in Nat
      BY <1>3, <3>2, RequestTyped DEF QueueOK
    <3> HIDE DEF d, r
    <3>4. dl_queue' = r /\ asked_diffs' = Append(asked_diffs, P[d].id)
      BY <2>3 DEF r
    <3>5. Append(asked_diffs, P[d].id) \in Seq(Nat)
      BY <1>1, <3>3
    <3>6. DiffsAsked(dl_queue, asked_diffs) => DiffsAsked(r, Append(asked_diffs, P[d].id))
      BY <1>1, <1>3, <3>2 DEF Carries
    <3>7. /\ \A s \in Seq(Requests) : FullsAsked(dl_queue, s) => FullsAsked(r, s)
          /\ \A i : InQueue(dl_queue, i) => InQueue(r, i)
          /\ HasQuit(r) => HasQuit(dl_queue)
      BY <1>3, <3>2 DEF Carries
    <3> QED BY <3>2, <3>4, <3>5, <3>6, <3>7
  <2> HIDE DEF d
  <2> QED BY <1>2, <2>1, <2>2, <2>3
<1> HIDE DEF d
<1>6. Types'
  BY <1>1, <1>5 DEF Inv, Types
<1>7. AtWork'
  BY <1>1 DEF Inv, AtWork, Online
<1>8. EndMarks'
  BY <1>1, <1>5 DEF Inv, EndMarks
<1>9. QueueOK(list, line, released, dl_queue)'
  BY <1>1, <1>5
<1>10. SharesEnded'
  BY <1>1 DEF Inv, SharesEnded, EndedBefore
<1>11. FullsMatch'
  BY <1>1, <1>4, <1>5 DEF Inv, FullsMatch, Ahead, Online
<1>12. WireMatches'
  BY <1>1 DEF Inv, WireMatches, Online
<1>13. DiffsMatch'
  BY <1>1, <1>4, <1>5 DEF Inv, DiffsMatch, AheadDiffs, Online
<1>14. NoFileLost'
  BY <1>1, <1>5 DEF Inv, NoFileLost, Recorded, InHand
<1>15. ContentRight'
  BY <1>1 DEF Inv, ContentRight, RightContent, Scripted
<1> QED
  BY <1>6, <1>7, <1>8, <1>9, <1>10, <1>11, <1>12, <1>13, <1>14, <1>15 DEF Inv

-------------------------------------------------------------------------------
(***************************************************************************)
(* The invariant holds at all times, and the properties follow from it.    *)
(***************************************************************************)

\* It holds when the backup begins: the queue is empty, nothing was asked for.
LEMMA InitInv ==
    ASSUME Init
    PROVE  Inv
<1>1. /\ list \in Lists /\ line = 1 /\ step = "look" /\ dl_queue = <<>> /\ pc = "pop"
      /\ curr = Signal("none") /\ is_offline = FALSE /\ skipping = FALSE
      /\ loaded = {} /\ released = {} /\ asked = <<>> /\ wire = <<>> /\ astray = "no"
      /\ asked_diffs = <<>>
  BY DEF Init
<1>2. list \in Seq(Line) /\ Len(list) \in Nat
  BY <1>1, ListAssumption
<1>3. curr \in Items /\ curr.action = "none"
  BY <1>1, SignalTyped
<1>4. Types
  <2>1. line \in 1..(Len(list) + 1)
    BY <1>1, <1>2
  <2>2. asked \in Seq(Requests) /\ wire \in Seq(Requests) /\ asked_diffs \in Seq(Nat)
    BY <1>1
  <2>3. is_offline \in BOOLEAN /\ skipping \in BOOLEAN
    BY <1>1
  <2> QED BY <1>1, <1>3, <2>1, <2>2, <2>3, Zenon DEF Types
<1>5. AtWork
  BY <1>1, <1>3 DEF AtWork, Known
<1>6. ~HasQuit(dl_queue)
  BY <1>1 DEF HasQuit
<1>7. EndMarks
  BY <1>1, <1>6 DEF EndMarks
<1>8. Requested(dl_queue) = {} /\ AskedDiffs(dl_queue) = {}
  BY <1>1 DEF Requested, AskedDiffs, Fulls, Diffs
<1>9. QueueOK(list, line, released, dl_queue)
  <2>1. dl_queue \in Seq(Items)
    BY <1>1
  <2>2. FullsInOrder(dl_queue) /\ DiffsInOrder(dl_queue) /\ DiffsReady(dl_queue)
    BY <1>8 DEF FullsInOrder, DiffsInOrder, DiffsReady
  <2>3. AllKnown(list, line, released, dl_queue) /\ StopsLast(list, dl_queue)
    BY <1>1 DEF AllKnown, StopsLast
  <2> QED BY <2>1, <2>2, <2>3 DEF QueueOK
<1>10. SharesEnded
  BY <1>1 DEF SharesEnded
<1>11. FullsAsked(dl_queue, <<>>) /\ DiffsAsked(dl_queue, <<>>)
  BY <1>8, NothingAsked
<1>12. FullsMatch /\ DiffsMatch
  BY <1>1, <1>11 DEF FullsMatch, DiffsMatch, Ahead, AheadDiffs
<1>13. WireMatches
  BY <1>1 DEF WireMatches, SameIds
<1>14. NoFileLost /\ ContentRight
  BY <1>1 DEF NoFileLost, ContentRight, RightContent, Scripted
<1> QED
  BY <1>4, <1>5, <1>7, <1>9, <1>10, <1>12, <1>13, <1>14 DEF Inv

\* Every action of the backup and of the thread keeps it.
LEMMA NextInv ==
    ASSUME Inv, [Next]_vars
    PROVE  Inv'
<1>1. CASE Backup
  BY <1>1, LookKeeps, AddKeeps, AdminStopsKeeps, EndOfListKeeps, WaitKeeps DEF Backup
<1>2. CASE Take
  BY <1>2, TakeQuitKeeps, QuitKeeps, TakeSkipKeeps, TakeOfflineKeeps, TakeStartKeeps,
     TakeStopKeeps, TakeFullKeeps, TakeDiffKeeps DEF Take
<1>3. CASE Whole
  BY <1>3, GetKeeps, NoTempFileKeeps, FillBeginKeeps, FillKeeps, FillEndKeeps, ReceivedKeeps,
     RefusedKeeps, ReconnectedKeeps, LostKeeps, CorruptKeeps, QueueScriptEndKeeps,
     ScriptOutputKeeps, ScriptFinishedKeeps DEF Whole
<1>4. CASE Difference
  BY <1>4, PatchPrepareKeeps, PatchKeeps, FillDiffsKeeps, PatchReceivedKeeps, PatchRefusedKeeps,
     PatchReconnectedKeeps, PatchLostKeeps, PatchCorruptKeeps DEF Difference
<1>5. CASE UNCHANGED vars
  <2>1. UNCHANGED <<backup, queue, results, thread, full_conn, asked_diffs>>
    BY <1>5 DEF vars
  <2>2. /\ list' = list /\ line' = line /\ step' = step /\ skipped' = skipped
        /\ dl_queue' = dl_queue /\ nok' = nok /\ partial' = partial /\ loaded' = loaded
        /\ stranded' = stranded /\ released' = released
        /\ pc' = pc /\ curr' = curr /\ is_offline' = is_offline /\ skipping' = skipping
        /\ asked' = asked /\ wire' = wire /\ astray' = astray /\ asked_diffs' = asked_diffs
    BY <2>1 DEF backup, queue, results, thread, full_conn
  <2>3. Types' /\ AtWork' /\ EndMarks' /\ QueueOK(list, line, released, dl_queue)'
    BY <2>2 DEF Inv, Types, AtWork, EndMarks, Online
  <2>4. SharesEnded' /\ NoFileLost' /\ ContentRight'
    BY <2>2 DEF Inv, SharesEnded, EndedBefore, NoFileLost, Recorded, InHand, ContentRight,
          RightContent, Scripted
  <2>5. FullsMatch' /\ WireMatches' /\ DiffsMatch'
    BY <2>2 DEF Inv, FullsMatch, WireMatches, DiffsMatch, Ahead, AheadDiffs, Online
  <2> QED BY <2>3, <2>4, <2>5 DEF Inv
<1> QED
  BY <1>1, <1>2, <1>3, <1>4, <1>5 DEF Next, Done, Asleep

\* The queue, the requests remembered and those on the wire stay in step in every
\* interleaving of the backup and the download thread, whatever connections are lost.
THEOREM QueueInStep == Spec => []Inv
<1>1. Init => Inv
  BY InitInv
<1>2. Inv /\ [Next]_vars => Inv'
  BY NextInv
<1> QED
  BY <1>1, <1>2, PTL DEF Spec

\* FileClient::queued holds the requests of the whole files marked in dl_queue, in its order:
\* the assertion queued.front().fn == remotefn never fails.
THEOREM RequestsInStep == Spec => []InStep
<1>1. ASSUME Inv
      PROVE  InStep
  <2> DEFINE files == {j \in DOMAIN dl_queue : IsFull(dl_queue[j])}
             requested == {j \in files : dl_queue[j].queued}
             items == ItemsAt(dl_queue, requested)
             first == IF pc = "get" /\ asked # <<>> THEN <<Request(curr)>> ELSE <<>>
             rest == [n \in DOMAIN items |-> Request(items[n])]
  <2> SUFFICES ASSUME Online
               PROVE  /\ \A i \in files, j \in requested : i < j => i \in requested
                      /\ asked = first \o rest
    BY DEF InStep
  <2>1. /\ dl_queue \in Seq(Items) /\ FullsInOrder(dl_queue)
        /\ asked \in Seq(Requests)
        /\ FullsAsked(dl_queue, Ahead)
        /\ pc = "get" /\ asked # <<>> => Head(asked) = Request(curr)
    BY <1>1 DEF Inv, Types, QueueOK, FullsMatch
  <2>2. files = Fulls(dl_queue) /\ requested = Requested(dl_queue)
    BY <2>1 DEF Fulls, Requested
  <2>3. Ahead \in Seq(Requests) /\ Len(Ahead) \in Nat
    BY <2>1 DEF Ahead
  <2>4. PICK f : /\ Enumerates(f, Len(Ahead), requested)
                 /\ \A k \in 1..Len(Ahead) : Ahead[k] = Request(dl_queue[f[k]])
    BY <2>1, <2>2 DEF FullsAsked
  <2>5. requested \in SUBSET Nat
    BY <2>1
  <2>6. \A i \in files, j \in requested : i < j => i \in requested
    BY <2>1, <2>2 DEF FullsInOrder
  <2> HIDE DEF requested, files
  <2>7. items = [k \in 1..Len(Ahead) |-> dl_queue[f[k]]]
    BY <2>3, <2>4, <2>5, ItemsListed
  <2> HIDE DEF items
  <2>8. rest = [k \in 1..Len(Ahead) |-> Request(dl_queue[f[k]])]
    BY <2>7
  <2>9. Ahead = [k \in 1..Len(Ahead) |-> Ahead[k]]
    BY <2>3
  <2>10. rest = Ahead
    BY <2>4, <2>8, <2>9
  <2> HIDE DEF rest
  <2>11. asked = first \o Ahead
    <3>1. CASE pc = "get" /\ asked # <<>>
      <4>1. Ahead = Tail(asked) /\ first = <<Head(asked)>>
        BY <2>1, <3>1 DEF Ahead
      <4>2. asked = <<Head(asked)>> \o Tail(asked)
        BY <2>1, <3>1
      <4> QED BY <4>1, <4>2
    <3>2. CASE ~(pc = "get" /\ asked # <<>>)
      <4>1. Ahead = asked /\ first = <<>>
        BY <3>2 DEF Ahead
      <4> QED BY <2>1, <4>1
    <3> QED BY <3>1, <3>2
  <2> QED BY <2>6, <2>10, <2>11
<1> QED
  BY <1>1, QueueInStep, PTL

\* As long as no difference arrives damaged while others are asked for, the request at the
\* front of queued_fcs is that of the difference read next.
THEOREM DifferencesInStep ==
    ASSUME ~DamageAhead
    PROVE  Spec => []DiffsInStep
<1>1. Inv => DiffsInStep
  BY DEF Inv, DiffsMatch, DiffsInStep
<1> QED
  BY <1>1, QueueInStep, PTL

\* An answer carries no name, and still it is stored under the name of the file it is for.
THEOREM AnswersRight == Spec => []RightContent
<1>1. Inv => RightContent
  BY DEF Inv, ContentRight
<1> QED
  BY <1>1, QueueInStep, PTL

\* No file in the queue is to be read from a snapshot that was given back, also when it was
\* put back into the queue as a whole file.
THEOREM SnapshotsHeld == Spec => []SnapshotHeld
<1>1. ASSUME Inv
      PROVE  SnapshotHeld
  <2> SUFFICES ASSUME NEW j \in DOMAIN dl_queue,
                      IsFull(dl_queue[j]) \/ IsDiff(dl_queue[j]), ~dl_queue[j].script
               PROVE  LineOf(dl_queue[j].id).share \notin released
    BY DEF SnapshotHeld
  <2>1. dl_queue \in Seq(Items) /\ AllKnown(list, line, released, dl_queue)
    BY <1>1 DEF Inv, QueueOK
  <2>2. j \in 1..Len(dl_queue)
    BY <2>1
  <2>3. Held(list, released, dl_queue[j])
    BY <2>1, <2>2 DEF AllKnown
  <2> QED BY <2>3 DEF Held, Reads, IsFull, IsDiff, LineIn, LineOf
<1> QED
  BY <1>1, QueueInStep, PTL

\* Every file of the list that is written at the end was loaded or is marked as partial, but
\* for those no temporary file could be made for.
THEOREM AllAccounted == Spec => []Accounted
<1>1. ASSUME Inv
      PROVE  Accounted
  <2> SUFFICES ASSUME step = "listed", NEW i \in Listed
               PROVE  i \in {p[1] : p \in loaded} \cup partial \cup stranded
    BY DEF Accounted
  <2>1. /\ list \in Seq(Line) /\ pc = "done" /\ line = Len(list) + 1 /\ dl_queue = <<>>
        /\ NoFileLost
    BY <1>1, ListAssumption DEF Inv, Types, EndMarks
  <2>2. /\ i \in 1..Len(list) /\ list[i].kind \in {"full", "diff"}
        /\ i \notin nok /\ i \notin skipped
    BY <2>1 DEF Listed
  <2>3. i \in 1..(line - 1)
    BY <2>1, <2>2
  <2>4. Recorded(i) \/ InQueue(dl_queue, i) \/ InHand(i)
    BY <2>1, <2>2, <2>3 DEF NoFileLost
  <2>5. ~InHand(i) /\ ~InQueue(dl_queue, i)
    BY <2>1 DEF InHand, InQueue
  <2> QED BY <2>2, <2>4, <2>5 DEF Recorded
<1> QED
  BY <1>1, QueueInStep, PTL
===============================================================================
