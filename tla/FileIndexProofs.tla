--------------------------- MODULE FileIndexProofs ---------------------------
(***************************************************************************)
(* What holds of the file entry index for every set of contents, clients,  *)
(* rows and threads and for every buffer size.                             *)
(***************************************************************************)
EXTENDS FileIndex, TLAPS

(***************************************************************************)
(* The inductive invariant.  The other buffer is empty while no batch is   *)
(* being written, and after the commit it repeats what the database says:  *)
(* so exchanging and clearing buffers is invisible.                        *)
(***************************************************************************)
BufferInv ==
    /\ wpc \in {"top", "wait"} => other_cache_buffer = Empty
    /\ wpc = "clear" => \A k \in Keys : other_cache_buffer[k] # NotCached
                                           => lmdb[k] = other_cache_buffer[k]

\* The running look-up of t will take the entry of client c from the database.
LeftToDatabase(t, c) ==
    \/ pc[t] = "get" /\ c = arg[t].key[2]
    \/ pc[t] = "get_all" /\ got[t][c] = NotCached

(***************************************************************************)
(* A look-up that missed the buffers may meet the entry in any of the      *)
(* three places it passes through: all of them hold values it may return.  *)
(***************************************************************************)
LookupOf(t) ==
    pc[t] \in {"get", "get_all"} =>
        \A c \in Clients :
            LET k == <<arg[t].key[1], c>>
            IN  /\ View[k] \in seen[t][c]
                /\ pc[t] = "get_all" /\ got[t][c] # NotCached => got[t][c] \in seen[t][c]
                /\ LeftToDatabase(t, c) =>
                      /\ Over(other_cache_buffer, lmdb)[k] \in seen[t][c]
                      /\ lmdb[k] \in seen[t][c]

LookupInv == \A t \in Threads : LookupOf(t)

(***************************************************************************)
(* A key owed by a flush waits in the active buffer of a writer that has   *)
(* not begun, or is in the batch being written, or is in the database; and *)
(* do_flush stays up until the last.                                       *)
(***************************************************************************)
FlushInv ==
    \A t \in Threads : pc[t] = "flush" => \A k \in owed[t] :
        \/ wpc \in {"top", "wait"} /\ active_cache_buffer[k] # NotCached /\ do_flush
        \/ /\ active_cache_buffer[k] = NotCached
           /\ (wpc = "write" /\ do_flush) \/ lmdb[k] = View[k]

-------------------------------------------------------------------------------
\* A buffer laid over a map of entries is a map of entries again, as get_with_cache_exact reads it.
LEMMA OverType ==
    ASSUME NEW S, NEW b \in [Keys -> S \cup {NotCached}], NEW m \in [Keys -> S]
    PROVE  Over(b, m) \in [Keys -> S]
BY DEF Over

\* What put_delayed adds to the values a look-up may return keeps their type.
LEMMA AddSeen ==
    ASSUME NEW S, NEW f \in [Clients -> SUBSET S], NEW c, NEW v \in S
    PROVE  [f EXCEPT ![c] = @ \cup {v}] \in [Clients -> SUBSET S]
<1>1. \A d \in Clients : f[d] \cup {v} \in SUBSET S
  OBVIOUS
<1> QED BY <1>1

\* What a look-up begins with, and what a returning thread is left with, is of the right type.
LEMMA StartTypes ==
    /\ NothingFound \in [Clients -> Value \cup {NotCached}]
    /\ NothingSeen \in [Clients -> SUBSET Value]
    /\ Idle \in [key : Keys \cup {NotCached}, value : Value]
BY DEF NothingFound, NothingSeen, Idle, Value

\* What every variable ranges over is kept by every operation (FileIndex.cpp:45-336).
THEOREM TypeCorrect == Spec => []TypeOK
<1> USE ConstantsAssumption
<1>1. Init => TypeOK
  <2> SUFFICES ASSUME Init PROVE TypeOK
    OBVIOUS
  <2>1. BuffersTypeOK
    BY DEF Init, BuffersTypeOK, Buffer, Empty, Value
  <2>2. ThreadsTypeOK
    BY StartTypes DEF Init, ThreadsTypeOK
  <2> QED BY <2>1, <2>2 DEF TypeOK
<1>2. TypeOK /\ [Next]_vars => TypeOK'
  <2> SUFFICES ASSUME BuffersTypeOK, ThreadsTypeOK, [Next]_vars
               PROVE  BuffersTypeOK' /\ ThreadsTypeOK'
    BY DEF TypeOK
  <2>1. BuffersTypeOK'
    <3> USE DEF BuffersTypeOK, indexVars
    <3>1. ASSUME NEW t \in Threads, Put(t) PROVE BuffersTypeOK'
      BY <3>1 DEF Put, Buffer, ThreadsTypeOK
    <3>2. CASE Writer
      BY <3>2 DEF Writer, WriterTakesBatch, Exchange, WriterFindsNothing, WriterCommits,
                  WriterClears, Over, Buffer, Empty
    <3>3. CASE Crash
      BY <3>3 DEF Crash, Buffer, Empty
    <3>4. ASSUME NEW t \in Threads,
                 \/ PutCall(t) \/ GetMissesCache(t) \/ GetAllCaches(t) \/ ReadDatabase(t)
                 \/ FlushCall(t) \/ FlushReturn(t)
          PROVE  BuffersTypeOK'
      BY <3>4 DEF PutCall, GetMissesCache, GetAllCaches, ReadDatabase, FlushCall, FlushReturn,
                  StartLookup, ReturnIdle
    <3>5. CASE StopAccept \/ UNCHANGED vars
      BY <3>5 DEF StopAccept, vars
    <3> QED BY <3>1, <3>2, <3>3, <3>4, <3>5 DEF Next, Writer
  <2>2. ThreadsTypeOK'
    <3> USE DEF ThreadsTypeOK
    <3>1. ASSUME NEW t \in Threads, PutCall(t) PROVE ThreadsTypeOK'
      BY <3>1 DEF PutCall
    <3>2. ASSUME NEW t \in Threads, Put(t) PROVE ThreadsTypeOK'
      <4>1. seen' \in [Threads -> [Clients -> SUBSET Value]]
        <5> DEFINE k == arg[t].key
                   v == arg[t].value
        <5>1. v \in Value
          OBVIOUS
        <5>2. \A u \in Threads : [seen[u] EXCEPT ![k[2]] = @ \cup {v}] \in [Clients -> SUBSET Value]
          BY <5>1, AddSeen
        <5>3. seen' = [u \in Threads |-> IF pc[u] \in {"get", "get_all"} /\ arg[u].key[1] = k[1]
                                         THEN [seen[u] EXCEPT ![k[2]] = @ \cup {v}]
                                         ELSE seen[u]]
          BY <3>2 DEF Put
        <5> HIDE DEF k, v
        <5> QED BY <5>2, <5>3
      <4>2. \A u \in Threads : pc'[u] \in {"put", "get", "get_all"} => arg'[u].key \in Keys
        <5>1. \A u \in Threads : u # t => pc'[u] = pc[u] /\ arg'[u] = arg[u]
          BY <3>2 DEF Put
        <5>2. pc'[t] = "idle"
          BY <3>2 DEF Put
        <5> QED BY <5>1, <5>2
      <4>3. arg' \in [Threads -> [key : Keys \cup {NotCached}, value : Value]]
        BY <3>2, StartTypes DEF Put
      <4> QED BY <3>2, <4>1, <4>2, <4>3 DEF Put
    <3>3. ASSUME NEW t \in Threads, NEW k \in Keys, NEW what \in {"get", "get_all"},
                 NEW found \in [Clients -> Value \cup {NotCached}],
                 StartLookup(t, k, what, found)
          PROVE  ThreadsTypeOK'
      <4>1. View \in [Keys -> Value]
        BY OverType DEF View, BuffersTypeOK, Buffer
      <4>2. \A c \in Clients : <<k[1], c>> \in Keys
        BY DEF Keys
      <4>3. seen' \in [Threads -> [Clients -> SUBSET Value]]
        BY <3>3, <4>1, <4>2 DEF StartLookup
      <4>4. arg' \in [Threads -> [key : Keys \cup {NotCached}, value : Value]]
        BY <3>3 DEF StartLookup, Value
      <4> QED BY <3>3, <4>3, <4>4 DEF StartLookup
    <3>4. ASSUME NEW t \in Threads, GetMissesCache(t) \/ GetAllCaches(t)
          PROVE  ThreadsTypeOK'
      <4>1. ASSUME NEW k \in Keys
            PROVE  [c \in Clients |-> Over(active_cache_buffer, other_cache_buffer)[<<k[1], c>>]]
                      \in [Clients -> Value \cup {NotCached}]
        BY DEF Over, BuffersTypeOK, Buffer, Keys
      <4> QED BY <3>3, <3>4, <4>1, StartTypes DEF GetMissesCache, GetAllCaches
    <3>5. ASSUME NEW t \in Threads, ReadDatabase(t) \/ FlushReturn(t) PROVE ThreadsTypeOK'
      <4>1. ReturnIdle(t)
        BY <3>5 DEF ReadDatabase, FlushReturn
      <4>2. arg' \in [Threads -> [key : Keys \cup {NotCached}, value : Value]]
        BY <4>1, StartTypes DEF ReturnIdle
      <4>3. got' \in [Threads -> [Clients -> Value \cup {NotCached}]]
        BY <4>1, StartTypes DEF ReturnIdle
      <4>4. seen' \in [Threads -> [Clients -> SUBSET Value]]
        BY <4>1, StartTypes DEF ReturnIdle
      <4> QED BY <4>1, <4>2, <4>3, <4>4 DEF ReturnIdle
    <3>6. ASSUME NEW t \in Threads, FlushCall(t) PROVE ThreadsTypeOK'
      BY <3>6 DEF FlushCall, Present
    <3>7. CASE Crash
      BY <3>7, StartTypes DEF Crash
    <3>8. CASE StopAccept \/ Writer \/ UNCHANGED vars
      BY <3>8 DEF StopAccept, Writer, WriterTakesBatch, Exchange, WriterFindsNothing,
                  WriterCommits, WriterClears, vars, threadVars
    <3> QED BY <3>1, <3>2, <3>4, <3>5, <3>6, <3>7, <3>8 DEF Next, Writer
  <2> QED BY <2>1, <2>2
<1> QED BY <1>1, <1>2, PTL DEF Spec

-------------------------------------------------------------------------------
\* The other buffer is invisible whenever the buffers change their roles.
THEOREM BuffersConsistent == Spec => []BufferInv
<1> USE ConstantsAssumption
<1>1. Init => BufferInv
  BY DEF Init, BufferInv
<1>2. BufferInv /\ TypeOK /\ [Next]_vars => BufferInv'
  <2> SUFFICES ASSUME BufferInv, BuffersTypeOK, [Next]_vars PROVE BufferInv'
    BY DEF TypeOK
  <2> USE DEF BufferInv, indexVars
  <2>1. CASE WriterTakesBatch \/ WriterFindsNothing \/ WriterClears
    BY <2>1 DEF WriterTakesBatch, Exchange, WriterFindsNothing, WriterClears
  <2>2. CASE WriterCommits
    BY <2>2 DEF WriterCommits, Over, BuffersTypeOK, Buffer
  <2>3. CASE Crash
    BY <2>3 DEF Crash
  <2>4. ASSUME NEW t \in Threads,
               \/ PutCall(t) \/ Put(t) \/ GetMissesCache(t) \/ GetAllCaches(t)
               \/ ReadDatabase(t) \/ FlushCall(t) \/ FlushReturn(t)
        PROVE  BufferInv'
    BY <2>4 DEF PutCall, Put, GetMissesCache, GetAllCaches, ReadDatabase, FlushCall,
                FlushReturn, StartLookup, ReturnIdle
  <2>5. CASE StopAccept \/ UNCHANGED vars
    BY <2>5 DEF StopAccept, vars
  <2> QED BY <2>1, <2>2, <2>3, <2>4, <2>5 DEF Next
<1> QED BY <1>1, <1>2, TypeCorrect, PTL DEF Spec

(***************************************************************************)
(* What the writer thread does to the three maps a reader may meet.        *)
(***************************************************************************)
LEMMA WriterInvisible ==
    ASSUME BuffersTypeOK, BufferInv, Writer
    PROVE  /\ View' = View
           /\ WriterTakesBatch => Over(other_cache_buffer, lmdb)' = View /\ lmdb' = lmdb
           /\ ~WriterTakesBatch => Over(other_cache_buffer, lmdb)' = Over(other_cache_buffer, lmdb)
           /\ WriterCommits => lmdb' = Over(other_cache_buffer, lmdb)
           /\ ~WriterCommits => lmdb' = lmdb
<1> USE DEF BuffersTypeOK, Buffer
<1>1. CASE WriterTakesBatch
  <2>1. other_cache_buffer = Empty
    BY <1>1 DEF WriterTakesBatch, BufferInv
  <2>2. Over(other_cache_buffer, lmdb)' = View
    BY <1>1, <2>1 DEF WriterTakesBatch, Exchange, View, Over, Empty
  <2>3. View' = View
    BY <1>1, <2>1 DEF WriterTakesBatch, Exchange, View, Over, Empty
  <2> QED BY <1>1, <2>2, <2>3 DEF WriterTakesBatch, Exchange, WriterCommits
<1>2. CASE WriterFindsNothing
  BY <1>2 DEF WriterFindsNothing, WriterTakesBatch, Exchange, WriterCommits, indexVars, View, Over
<1>3. CASE WriterCommits
  BY <1>3 DEF WriterCommits, WriterTakesBatch, Exchange, View, Over
<1>4. CASE WriterClears
  BY <1>4 DEF WriterClears, WriterTakesBatch, Exchange, WriterCommits, BufferInv, View, Over, Empty
<1> QED BY <1>1, <1>2, <1>3, <1>4 DEF Writer

(***************************************************************************)
(* put_delayed changes one key of what readers see, and nothing of what    *)
(* the other buffer and the database hold (FileIndex.cpp:125-138).         *)
(***************************************************************************)
LEMMA PutVisible ==
    ASSUME TypeOK, NEW t \in Threads, Put(t)
    PROVE  /\ arg[t].key \in Keys
           /\ arg[t].value \in Value
           /\ View' = [View EXCEPT ![arg[t].key] = arg[t].value]
           /\ Over(other_cache_buffer, lmdb)' = Over(other_cache_buffer, lmdb)
           /\ UNCHANGED <<lmdb, older, wpc>>
<1>1. arg[t].key \in Keys /\ arg[t].value \in Value
  BY DEF TypeOK, ThreadsTypeOK, Put
<1>2. arg[t].value # NotCached
  BY <1>1, ConstantsAssumption DEF Value, TypeOK, BuffersTypeOK
<1>3. View' = [View EXCEPT ![arg[t].key] = arg[t].value]
  BY <1>1, <1>2 DEF Put, View, Over, TypeOK, BuffersTypeOK, Buffer
<1>4. Over(other_cache_buffer, lmdb)' = Over(other_cache_buffer, lmdb)
  BY DEF Put, Over
<1> QED BY <1>1, <1>3, <1>4 DEF Put

\* Every other step of a thread leaves the index alone.
ThreadStep(t) ==
    \/ PutCall(t) \/ GetMissesCache(t) \/ GetAllCaches(t)
    \/ ReadDatabase(t) \/ FlushCall(t) \/ FlushReturn(t)

\* Look-ups, flush and the call of put_delayed leave buffers, database and writer as they are.
LEMMA ThreadInvisible ==
    ASSUME NEW t \in Threads, ThreadStep(t)
    PROVE  UNCHANGED <<indexVars, wpc>>
BY DEF ThreadStep, PutCall, GetMissesCache, GetAllCaches, ReadDatabase, FlushCall,
       FlushReturn, StartLookup, ReturnIdle, indexVars

(***************************************************************************)
(* The buffered index is the crash-consistent map of IndexStore: a put is  *)
(* seen at once, a batch reaches the disk as one picture of the map, a     *)
(* crash falls back to a picture (FileIndex.cpp:45-138).                   *)
(***************************************************************************)
THEOREM ImplementsStore == Spec => RefinesStore
<1> USE ConstantsAssumption
<1>1. Init => Store!StoreInit
  BY DEF Init, Store!StoreInit, View, Over, Empty
<1>2. TypeOK /\ BufferInv /\ [Next]_vars => [Store!StoreNext]_(Store!storeVars)
  <2> SUFFICES ASSUME TypeOK, BufferInv, [Next]_vars
               PROVE  Store!StoreNext \/ UNCHANGED Store!storeVars
    OBVIOUS
  <2> USE DEF Store!storeVars
  <2>1. ASSUME NEW t \in Threads, Put(t) PROVE Store!StoreNext
    <3>1. Store!StorePut(arg[t].key, arg[t].value)
      BY <2>1, PutVisible DEF Store!StorePut
    <3> QED BY <2>1, <3>1, PutVisible DEF Store!StoreNext, Value
  <2>2. CASE WriterTakesBatch
    <3>1. wpc # "write" /\ wpc' = "write" /\ UNCHANGED older
      BY <2>2 DEF WriterTakesBatch, Exchange, TypeOK, BuffersTypeOK
    <3>2. Store!StoreBeginSync
      BY <2>2, <3>1, WriterInvisible DEF Store!StoreBeginSync, Writer, TypeOK, BuffersTypeOK,
         WriterTakesBatch, Exchange
    <3> QED BY <3>2 DEF Store!StoreNext
  <2>3. CASE WriterCommits
    <3>1. wpc = "write" /\ wpc' = "clear" /\ older' = lmdb /\ ~WriterTakesBatch
      BY <2>3 DEF WriterCommits, WriterTakesBatch
    <3>2. Store!StoreEndSync
      BY <2>3, <3>1, WriterInvisible DEF Store!StoreEndSync, Writer, TypeOK
    <3> QED BY <3>2 DEF Store!StoreNext
  <2>4. CASE WriterFindsNothing \/ WriterClears
    <3>1. /\ (wpc = "write") = (wpc' = "write")
          /\ UNCHANGED older
          /\ ~WriterTakesBatch /\ ~WriterCommits
      BY <2>4 DEF WriterFindsNothing, WriterClears, WriterTakesBatch, WriterCommits, Exchange,
                  indexVars
    <3> QED BY <2>4, <3>1, WriterInvisible DEF Writer, TypeOK
  <2>5. CASE Crash
    <3>1. View' = lmdb' /\ Over(other_cache_buffer, lmdb)' = lmdb'
      BY <2>5 DEF Crash, View, Over, Empty, TypeOK, BuffersTypeOK
    <3>2. Store!StoreCrash
      BY <2>5, <3>1 DEF Crash, Store!StoreCrash
    <3> QED BY <3>2 DEF Store!StoreNext
  <2>6. ASSUME NEW t \in Threads, ThreadStep(t) PROVE UNCHANGED Store!storeVars
    BY <2>6, ThreadInvisible DEF indexVars, View, Over
  <2>7. CASE StopAccept \/ UNCHANGED vars
    BY <2>7 DEF StopAccept, vars, indexVars, View, Over
  <2> QED BY <2>1, <2>2, <2>3, <2>4, <2>5, <2>6, <2>7 DEF Next, ThreadStep
<1> QED BY <1>1, <1>2, TypeCorrect, BuffersConsistent, PTL DEF Spec, RefinesStore, Store!StoreSpec

-------------------------------------------------------------------------------
(***************************************************************************)
(* A look-up that waits between the buffers and the database survives      *)
(* whatever the writer does: an entry only moves on to a place the look-up *)
(* has still to read (FileIndex.cpp:77-119, 198-242).                      *)
(***************************************************************************)
LEMMA LookupOfStays ==
    ASSUME NEW t \in Threads, LookupOf(t), TypeOK, BufferInv,
           UNCHANGED <<pc[t], arg[t], got[t], seen[t]>>,
           Writer \/ UNCHANGED indexVars
    PROVE  LookupOf(t)'
<1>1. CASE Writer
  <2>1. \A k \in Keys :
           /\ View'[k] = View[k]
           /\ Over(other_cache_buffer, lmdb)'[k] \in {View[k], Over(other_cache_buffer, lmdb)[k]}
           /\ lmdb'[k] \in {lmdb[k], Over(other_cache_buffer, lmdb)[k]}
    BY <1>1, WriterInvisible DEF TypeOK
  <2>2. \A c \in Clients : pc[t] \in {"get", "get_all"} => <<arg[t].key[1], c>> \in Keys
    BY DEF TypeOK, ThreadsTypeOK, Keys
  <2> QED BY <2>1, <2>2 DEF LookupOf, LeftToDatabase
<1>2. CASE UNCHANGED indexVars
  BY <1>2 DEF LookupOf, LeftToDatabase, indexVars, View, Over
<1> QED BY <1>1, <1>2

\* A look-up that begins has read its buffers in one critical section (FileIndex.cpp:190-196, 229-239).
LEMMA LookupOfStarts ==
    ASSUME NEW t \in Threads, TypeOK, GetMissesCache(t) \/ GetAllCaches(t)
    PROVE  LookupOf(t)'
<1>1. PICK k \in Keys, what \in {"get", "get_all"}, found \in [Clients -> Value \cup {NotCached}] :
         /\ StartLookup(t, k, what, found)
         /\ what = "get" => active_cache_buffer[k] = NotCached /\ other_cache_buffer[k] = NotCached
         /\ what = "get_all" =>
               \A c \in Clients :
                   found[c] = Over(active_cache_buffer, other_cache_buffer)[<<k[1], c>>]
  <2>1. ASSUME NEW k \in Keys
        PROVE  [c \in Clients |-> Over(active_cache_buffer, other_cache_buffer)[<<k[1], c>>]]
                  \in [Clients -> Value \cup {NotCached}]
    BY DEF Over, TypeOK, BuffersTypeOK, Buffer, Keys
  <2> QED BY <2>1, StartTypes DEF GetMissesCache, GetAllCaches
<1>2. /\ pc'[t] = what /\ arg'[t].key = k /\ got'[t] = found
      /\ \A c \in Clients : seen'[t][c] = {View[<<k[1], c>>]}
      /\ View' = View /\ Over(other_cache_buffer, lmdb)' = Over(other_cache_buffer, lmdb)
      /\ UNCHANGED indexVars
  BY <1>1 DEF StartLookup, TypeOK, ThreadsTypeOK, indexVars, View, Over
<1>3. \A c \in Clients : <<k[1], c>> \in Keys /\ <<k[1], k[2]>> = k
  BY DEF Keys
<1>4. ASSUME NEW c \in Clients, what = "get_all", found[c] # NotCached
      PROVE  found[c] = View[<<k[1], c>>]
  BY <1>1, <1>3, <1>4 DEF View, Over
<1>5. ASSUME NEW c \in Clients, \/ what = "get" /\ c = k[2]
                                \/ what = "get_all" /\ found[c] = NotCached
      PROVE  /\ Over(other_cache_buffer, lmdb)[<<k[1], c>>] = View[<<k[1], c>>]
             /\ lmdb[<<k[1], c>>] = View[<<k[1], c>>]
  BY <1>1, <1>3, <1>5 DEF View, Over
<1> QED BY <1>2, <1>4, <1>5 DEF LookupOf, LeftToDatabase, indexVars

\* A put during a look-up adds its value to what the look-up may return (FileIndex.cpp:136).
LEMMA LookupOfPut ==
    ASSUME NEW t \in Threads, NEW u \in Threads, TypeOK, LookupOf(t), Put(u)
    PROVE  LookupOf(t)'
<1>1. CASE t = u
  BY <1>1 DEF Put, LookupOf, TypeOK, ThreadsTypeOK
<1>2. CASE t # u /\ pc[t] \in {"get", "get_all"}
  <2> DEFINE k == arg[u].key
  <2>1. pc'[t] = pc[t] /\ arg'[t] = arg[t] /\ got'[t] = got[t]
    BY <1>2 DEF Put, TypeOK, ThreadsTypeOK
  <2>2. ASSUME NEW c \in Clients
        PROVE  /\ seen[t][c] \subseteq seen'[t][c]
               /\ arg[t].key[1] = k[1] /\ c = k[2] => arg[u].value \in seen'[t][c]
    BY <1>2 DEF Put, TypeOK, ThreadsTypeOK
  <2>3. ASSUME NEW c \in Clients
        PROVE  <<arg[t].key[1], c>> \in Keys
    BY <1>2 DEF TypeOK, ThreadsTypeOK, Keys
  <2>4. DOMAIN View = Keys /\ View = [j \in Keys |-> View[j]]
    BY DEF View, Over
  <2>5. ASSUME NEW c \in Clients
        PROVE  View'[<<arg[t].key[1], c>>] \in seen'[t][c]
    <3>1. CASE <<arg[t].key[1], c>> = k
      <4>1. View'[k] = arg[u].value
        BY <2>4, PutVisible
      <4>2. arg[t].key[1] = k[1] /\ c = k[2]
        BY <3>1
      <4> QED BY <2>2, <3>1, <4>1, <4>2
    <3>2. CASE <<arg[t].key[1], c>> # k
      <4>1. View'[<<arg[t].key[1], c>>] = View[<<arg[t].key[1], c>>]
        BY <2>3, <2>4, <3>2, PutVisible
      <4> QED BY <1>2, <2>2, <4>1 DEF LookupOf
    <3> QED BY <3>1, <3>2
  <2> QED BY <1>2, <2>1, <2>2, <2>5, PutVisible DEF LookupOf, LeftToDatabase
<1>3. CASE t # u /\ pc[t] \notin {"get", "get_all"}
  BY <1>3 DEF Put, LookupOf, TypeOK, ThreadsTypeOK
<1> QED BY <1>1, <1>2, <1>3

\* Every look-up under way finds only values its caller may be given.
THEOREM LookupsCovered == Spec => []LookupInv
<1> USE ConstantsAssumption
<1>1. Init => LookupInv
  BY DEF Init, LookupInv, LookupOf
<1>2. LookupInv /\ TypeOK /\ BufferInv /\ [Next]_vars => LookupInv'
  <2> SUFFICES ASSUME LookupInv, TypeOK, BufferInv, [Next]_vars, NEW t \in Threads
               PROVE  LookupOf(t)'
    BY DEF LookupInv
  <2>0. LookupOf(t)
    BY DEF LookupInv
  <2>1. ASSUME NEW u \in Threads, Put(u) PROVE LookupOf(t)'
    BY <2>0, <2>1, LookupOfPut
  <2>2. ASSUME NEW u \in Threads, ThreadStep(u), u # t PROVE LookupOf(t)'
    <3>1. UNCHANGED <<pc[t], arg[t], got[t], seen[t], indexVars>>
      BY <2>2, ThreadInvisible DEF ThreadStep, PutCall, GetMissesCache, GetAllCaches,
         ReadDatabase, FlushCall, FlushReturn, StartLookup, ReturnIdle, TypeOK, ThreadsTypeOK
    <3> QED BY <2>0, <3>1, LookupOfStays
  <2>3. ASSUME GetMissesCache(t) \/ GetAllCaches(t) PROVE LookupOf(t)'
    BY <2>3, LookupOfStarts
  <2>4. ASSUME PutCall(t) \/ ReadDatabase(t) \/ FlushCall(t) \/ FlushReturn(t)
        PROVE  LookupOf(t)'
    <3>1. pc'[t] \notin {"get", "get_all"}
      BY <2>4 DEF PutCall, ReadDatabase, FlushCall, FlushReturn, ReturnIdle, TypeOK, ThreadsTypeOK
    <3> QED BY <3>1 DEF LookupOf
  <2>5. CASE Writer
    <3>1. UNCHANGED <<pc[t], arg[t], got[t], seen[t]>>
      BY <2>5 DEF Writer, WriterTakesBatch, Exchange, WriterFindsNothing, WriterCommits,
                  WriterClears, threadVars
    <3> QED BY <2>0, <2>5, <3>1, LookupOfStays
  <2>6. CASE StopAccept \/ UNCHANGED vars
    <3>1. UNCHANGED <<pc[t], arg[t], got[t], seen[t], indexVars>>
      BY <2>6 DEF StopAccept, vars, threadVars
    <3> QED BY <2>0, <3>1, LookupOfStays
  <2>7. CASE Crash
    <3>1. pc'[t] = "idle"
      BY <2>7 DEF Crash
    <3> QED BY <3>1 DEF LookupOf
  <2> QED BY <2>1, <2>2, <2>3, <2>4, <2>5, <2>6, <2>7 DEF Next, Writer, ThreadStep
<1> QED BY <1>1, <1>2, TypeCorrect, BuffersConsistent, PTL DEF Spec

(***************************************************************************)
(* get_with_cache_exact returns what the entry was at some moment since    *)
(* the call, whatever is put and committed meanwhile (FileIndex.cpp:225).  *)
(***************************************************************************)
THEOREM ExactReads == Spec => []ExactReadCurrent
<1>1. LookupInv /\ TypeOK => ExactReadCurrent
  <2> SUFFICES ASSUME LookupInv, TypeOK, NEW t \in Threads, pc[t] = "get"
               PROVE  GetResult(t) \in seen[t][arg[t].key[2]]
    BY DEF ExactReadCurrent
  <2>1. arg[t].key \in Keys
    BY DEF TypeOK, ThreadsTypeOK
  <2>2. arg[t].key[2] \in Clients /\ <<arg[t].key[1], arg[t].key[2]>> = arg[t].key
    BY <2>1 DEF Keys
  <2> QED BY <2>2 DEF LookupInv, LookupOf, LeftToDatabase, GetResult
<1> QED BY <1>1, LookupsCovered, TypeCorrect, PTL

(***************************************************************************)
(* get_all_clients_with_cache merges buffers and database without holding  *)
(* the mutex and is still right for each client (FileIndex.cpp:186).       *)
(***************************************************************************)
THEOREM AllReads == Spec => []AllReadCurrent
<1>1. LookupInv => AllReadCurrent
  BY DEF LookupInv, LookupOf, LeftToDatabase, AllReadCurrent, GetAllResult
<1> QED BY <1>1, LookupsCovered, PTL

-------------------------------------------------------------------------------
\* A flush loses none of the keys it owes its caller on their way to the disk.
THEOREM FlushesCovered == Spec => []FlushInv
<1> USE ConstantsAssumption
<1>1. Init => FlushInv
  BY DEF Init, FlushInv
<1>2. FlushInv /\ TypeOK /\ BufferInv /\ [Next]_vars => FlushInv'
  <2> SUFFICES ASSUME FlushInv, TypeOK, BufferInv, [Next]_vars,
                      NEW t \in Threads, pc'[t] = "flush", NEW k \in owed'[t]
               PROVE  \/ wpc' \in {"top", "wait"} /\ active_cache_buffer'[k] # NotCached /\ do_flush'
                      \/ /\ active_cache_buffer'[k] = NotCached
                         /\ (wpc' = "write" /\ do_flush') \/ lmdb'[k] = View'[k]
    BY DEF FlushInv
  <2> DEFINE Goal ==
               \/ wpc' \in {"top", "wait"} /\ active_cache_buffer'[k] # NotCached /\ do_flush'
               \/ /\ active_cache_buffer'[k] = NotCached
                  /\ (wpc' = "write" /\ do_flush') \/ lmdb'[k] = View'[k]
  <2>1. ASSUME NEW u \in Threads, Put(u) PROVE Goal
    <3>1. pc[t] = "flush" /\ k \in owed[t] /\ k # arg[u].key
      BY <2>1 DEF Put, TypeOK, ThreadsTypeOK
    <3>2. k \in Keys
      BY <3>1 DEF TypeOK, ThreadsTypeOK
    <3>3. View'[k] = View[k]
      <4>1. View = [j \in Keys |-> View[j]]
        BY DEF View, Over
      <4> QED BY <2>1, <3>1, <3>2, <4>1, PutVisible
    <3>4. active_cache_buffer'[k] = active_cache_buffer[k] /\ UNCHANGED <<wpc, lmdb, do_flush>>
      BY <2>1, <3>1, <3>2 DEF Put, TypeOK, BuffersTypeOK, Buffer
    <3> QED BY <3>1, <3>3, <3>4 DEF FlushInv
  <2>2. ASSUME FlushCall(t) PROVE Goal
    <3>1. /\ UNCHANGED <<indexVars, wpc>> /\ do_flush'
          /\ owed'[t] = IF wpc \in {"top", "wait"} THEN Present(active_cache_buffer)
                        ELSE Present(other_cache_buffer) \ Present(active_cache_buffer)
      BY <2>2 DEF FlushCall, TypeOK, ThreadsTypeOK
    <3>2. CASE wpc \in {"top", "wait", "write"}
      BY <3>1, <3>2 DEF Present, indexVars, TypeOK, ThreadsTypeOK
    <3>3. CASE wpc = "clear"
      <4>1. k \in Keys /\ active_cache_buffer[k] = NotCached /\ other_cache_buffer[k] # NotCached
        BY <3>1, <3>3 DEF Present
      <4>2. lmdb[k] = View[k]
        BY <3>3, <4>1 DEF BufferInv, View, Over
      <4> QED BY <3>1, <4>1, <4>2 DEF indexVars, View, Over
    <3> QED BY <3>2, <3>3 DEF TypeOK, BuffersTypeOK
  <2>3. ASSUME NEW u \in Threads, ThreadStep(u), ~FlushCall(t) PROVE Goal
    <3>1. pc[t] = "flush" /\ k \in owed[t] /\ (do_flush => do_flush')
      BY <2>3 DEF ThreadStep, PutCall, GetMissesCache, GetAllCaches, ReadDatabase, FlushCall,
         FlushReturn, StartLookup, ReturnIdle, TypeOK, ThreadsTypeOK
    <3>2. UNCHANGED <<indexVars, wpc>> /\ View' = View
      BY <2>3, ThreadInvisible DEF indexVars, View, Over
    <3> QED BY <3>1, <3>2 DEF FlushInv, indexVars
  <2>4. CASE Writer
    <3>1. pc[t] = "flush" /\ k \in owed[t] /\ k \in Keys
      BY <2>4 DEF Writer, WriterTakesBatch, Exchange, WriterFindsNothing, WriterCommits,
                  WriterClears, threadVars, TypeOK, ThreadsTypeOK
    <3>2. View'[k] = View[k]
      BY <2>4, WriterInvisible DEF TypeOK
    <3>3. CASE WriterTakesBatch
      BY <3>1, <3>2, <3>3 DEF FlushInv, WriterTakesBatch, Exchange, BufferInv, Empty
    <3>4. CASE WriterFindsNothing
      BY <3>1, <3>2, <3>4 DEF FlushInv, WriterFindsNothing, indexVars, Empty
    <3>5. CASE WriterCommits
      <4>1. active_cache_buffer[k] = NotCached
        BY <3>1, <3>5 DEF FlushInv, WriterCommits
      <4>2. lmdb'[k] = View'[k]
        BY <3>1, <3>2, <3>5, <4>1 DEF WriterCommits, View, Over
      <4> QED BY <3>5, <4>1, <4>2 DEF WriterCommits
    <3>6. CASE WriterClears
      <4>1. wpc = "clear" /\ wpc' = "top" /\ UNCHANGED <<active_cache_buffer, lmdb>>
        BY <3>6 DEF WriterClears
      <4> QED BY <3>1, <3>2, <4>1 DEF FlushInv
    <3> QED BY <2>4, <3>3, <3>4, <3>5, <3>6 DEF Writer
  <2>5. CASE StopAccept \/ UNCHANGED vars
    <3>1. UNCHANGED <<indexVars, wpc, do_flush, pc, owed>> /\ View' = View
      BY <2>5 DEF StopAccept, vars, indexVars, threadVars, View, Over
    <3> QED BY <3>1 DEF FlushInv, indexVars
  <2>6. ASSUME Crash PROVE FALSE
    BY <2>6 DEF Crash
  <2> QED BY <2>1, <2>2, <2>3, <2>4, <2>5, <2>6 DEF Next, Writer, ThreadStep
<1> QED BY <1>1, <1>2, TypeCorrect, BuffersConsistent, PTL DEF Spec

(***************************************************************************)
(* When flush returns, what it owes its caller is in the database and      *)
(* nothing in memory contradicts it (FileIndex.cpp:317-330).               *)
(***************************************************************************)
THEOREM FlushWrites == Spec => []FlushWritesOwed
<1>1. FlushInv => FlushWritesOwed
  BY DEF FlushInv, FlushWritesOwed
<1> QED BY <1>1, FlushesCovered, PTL
-------------------------------------------------------------------------------
(***************************************************************************)
(* The look-up by neighbouring key.  An entry is stored under keys of its  *)
(* own content only, in either buffer, in the database and in what a       *)
(* thread is about to put.                                                 *)
(***************************************************************************)
Filed(m) == \A k \in Keys : m[k] \in EntryIds => FileOf[m[k]] = k[1]

PlacedInv ==
    /\ Filed(active_cache_buffer) /\ Filed(other_cache_buffer)
    /\ Filed(lmdb) /\ Filed(older)
    /\ \A t \in Threads : pc[t] = "put" /\ arg[t].value # 0 => FileOf[arg[t].value] = arg[t].key[1]

\* Every entry is filed under its own content (FileIndex.cpp:45-143).
THEOREM EntriesPlaced == Spec => []PlacedInv
<1> USE ConstantsAssumption
<1>1. Init => PlacedInv
  BY DEF Init, PlacedInv, Filed, Empty, Value
<1>2. PlacedInv /\ TypeOK /\ [Next]_vars => PlacedInv'
  <2> SUFFICES ASSUME PlacedInv, BuffersTypeOK, ThreadsTypeOK, [Next]_vars
               PROVE  PlacedInv'
    BY DEF TypeOK
  <2>1. ASSUME NEW t \in Threads, PutCall(t) PROVE PlacedInv'
    BY <2>1 DEF PutCall, PlacedInv, Filed, indexVars, ThreadsTypeOK
  <2>2. ASSUME NEW t \in Threads, Put(t) PROVE PlacedInv'
    <3>1. arg[t].key \in Keys
      BY <2>2 DEF Put, ThreadsTypeOK
    <3>2. Filed(active_cache_buffer')
      BY <2>2, <3>1 DEF Put, PlacedInv, Filed, BuffersTypeOK, Buffer
    <3>3. \A u \in Threads : pc'[u] = "put" => pc[u] = "put" /\ arg'[u] = arg[u]
      BY <2>2 DEF Put, ThreadsTypeOK
    <3> QED BY <2>2, <3>2, <3>3 DEF Put, PlacedInv, Filed
  <2>3. ASSUME NEW t \in Threads,
               \/ GetMissesCache(t) \/ GetAllCaches(t) \/ ReadDatabase(t)
               \/ FlushCall(t) \/ FlushReturn(t)
        PROVE  PlacedInv'
    <3>1. UNCHANGED indexVars
      BY <2>3, ThreadInvisible DEF ThreadStep
    <3>2. \A u \in Threads : pc'[u] = "put" => pc[u] = "put" /\ arg'[u] = arg[u]
      BY <2>3 DEF GetMissesCache, GetAllCaches, ReadDatabase, FlushCall, FlushReturn,
                  StartLookup, ReturnIdle, ThreadsTypeOK
    <3> QED BY <3>1, <3>2 DEF PlacedInv, Filed, indexVars
  <2>4. CASE Writer
    <3>1. Filed(Over(other_cache_buffer, lmdb))
      BY DEF PlacedInv, Filed, Over
    <3> QED BY <2>4, <3>1 DEF Writer, WriterTakesBatch, Exchange, WriterFindsNothing,
            WriterCommits, WriterClears, PlacedInv, Filed, Empty, threadVars, indexVars
  <2>5. CASE Crash
    BY <2>5 DEF Crash, PlacedInv, Filed, Empty
  <2>6. CASE StopAccept \/ UNCHANGED vars
    BY <2>6 DEF StopAccept, vars, indexVars, threadVars, PlacedInv, Filed
  <2> QED BY <2>1, <2>2, <2>3, <2>4, <2>5, <2>6 DEF Next, Writer
<1> QED BY <1>1, <1>2, TypeCorrect, PTL DEF Spec

\* A neighbour has the content asked for (FileIndex.cpp:267-291).
LEMMA NeighbourFound ==
    ASSUME NEW m, NEW k \in Keys, Neighbour(m, k) # NotCached
    PROVE  \E j \in Keys : j[1] = k[1] /\ Neighbour(m, k) = m[j]
<1> DEFINE candidates == IF \E j \in LowerBound(m, k) : j[1] = k[1]
                         THEN LowerBound(m, k)
                         ELSE IF LowerBound(m, k) # {} THEN Predecessor(m, k) ELSE {}
           hits == {j \in candidates : j[1] = k[1]}
<1>1. candidates \subseteq Keys
  BY DEF LowerBound, Predecessor, Present
<1>2. Neighbour(m, k) = IF hits = {} THEN NotCached ELSE m[CHOOSE j \in hits : TRUE]
  BY DEF Neighbour
<1>3. hits # {}
  BY <1>2
<1>4. (CHOOSE j \in hits : TRUE) \in hits
  BY <1>3
<1> QED BY <1>1, <1>2, <1>3, <1>4

\* The first key not before one that is there is that one.
LEMMA NeighbourOwn ==
    ASSUME NEW m, NEW k \in Keys, m[k] # NotCached
    PROVE  Neighbour(m, k) = m[k]
<1> USE ConstantsAssumption
<1>1. ASSUME NEW j \in Keys PROVE j[1] \in Nat /\ j[2] \in Nat /\ j = <<j[1], j[2]>>
  <2>1. j \in Files \X Clients
    BY DEF Keys
  <2>2. j[1] \in Files /\ j[2] \in Clients /\ j = <<j[1], j[2]>>
    BY <2>1
  <2> QED BY <2>2 DEF ConstantsAssumption
<1>2. \A j \in Keys : ~Before(j, k) /\ ~Before(k, j) => j = k
  <2> SUFFICES ASSUME NEW j \in Keys, ~Before(j, k), ~Before(k, j) PROVE j = k
    OBVIOUS
  <2>1. j[1] = k[1] /\ j[2] = k[2]
    BY <1>1 DEF Before
  <2> QED BY <2>1, <1>1
<1>3. ~Before(k, k)
  BY <1>1 DEF Before
<1>4. LowerBound(m, k) = {k}
  BY <1>2, <1>3 DEF LowerBound, Present
<1> DEFINE hits == {j \in LowerBound(m, k) : j[1] = k[1]}
<1>5. hits = {k}
  BY <1>4
<1>6. Neighbour(m, k) = m[CHOOSE j \in hits : TRUE]
  BY <1>4, <1>5 DEF Neighbour
<1> QED BY <1>5, <1>6

\* Nothing is next to a key of a map that has none.
LEMMA NeighbourNone ==
    ASSUME NEW k \in Keys
    PROVE  Neighbour(Empty, k) = NotCached
BY DEF Neighbour, LowerBound, Predecessor, Present, Empty

\* The look-up that prefers a client stays within the content, and prefers the client
\* (FileIndex.cpp:166-223, 267-291, LMDBFileIndex.cpp:691-742).
THEOREM PreferKeeps == Spec => []PreferKeepsContent
<1> USE ConstantsAssumption
<1>1. TypeOK /\ PlacedInv => PreferKeepsContent
  <2> SUFFICES ASSUME BuffersTypeOK, PlacedInv, NEW k \in Keys
               PROVE  /\ PreferClient(k) # 0 => FileOf[PreferClient(k)] = k[1]
                      /\ active_cache_buffer[k] # NotCached => PreferClient(k) = View[k]
                      /\ active_cache_buffer = Empty /\ other_cache_buffer = Empty /\ lmdb[k] # 0
                            => PreferClient(k) = lmdb[k]
    BY DEF TypeOK, PreferKeepsContent
  <2> DEFINE a == Neighbour(active_cache_buffer, k)
             o == Neighbour(other_cache_buffer, k)
             d == Neighbour(Stored, k)
  <2>0. PreferClient(k) = IF a # NotCached THEN a
                          ELSE IF o # NotCached THEN o
                          ELSE IF d # NotCached THEN d ELSE 0
    BY DEF PreferClient
  <2>1. PreferClient(k) # 0 => FileOf[PreferClient(k)] = k[1]
    <3>1. a # NotCached => a = 0 \/ FileOf[a] = k[1]
      BY NeighbourFound DEF PlacedInv, Filed, BuffersTypeOK, Buffer, Value
    <3>2. o # NotCached => o = 0 \/ FileOf[o] = k[1]
      BY NeighbourFound DEF PlacedInv, Filed, BuffersTypeOK, Buffer, Value
    <3>3. d # NotCached => FileOf[d] = k[1]
      <4> SUFFICES ASSUME d # NotCached PROVE FileOf[d] = k[1]
        OBVIOUS
      <4>1. PICK j \in Keys : j[1] = k[1] /\ d = Stored[j]
        BY NeighbourFound
      <4>2. d = lmdb[j] /\ lmdb[j] # 0
        BY <4>1 DEF Stored
      <4> QED BY <4>1, <4>2 DEF PlacedInv, Filed, BuffersTypeOK, Value
    <3> HIDE DEF a, o, d
    <3> QED BY <2>0, <3>1, <3>2, <3>3
  <2>2. active_cache_buffer[k] # NotCached => PreferClient(k) = View[k]
    BY <2>0, NeighbourOwn DEF View, Over
  <2>3. ASSUME active_cache_buffer = Empty, other_cache_buffer = Empty, lmdb[k] # 0
        PROVE  PreferClient(k) = lmdb[k]
    <3>1. a = NotCached /\ o = NotCached
      BY <2>3, NeighbourNone
    <3>2. Stored[k] = lmdb[k] /\ lmdb[k] # NotCached
      BY <2>3 DEF Stored, BuffersTypeOK, Value
    <3>3. d = lmdb[k]
      BY <3>2, NeighbourOwn
    <3> HIDE DEF a, o, d
    <3> QED BY <2>0, <3>1, <3>2, <3>3
  <2> QED BY <2>1, <2>2, <2>3
<1> QED BY <1>1, TypeCorrect, EntriesPlaced, PTL
===============================================================================
