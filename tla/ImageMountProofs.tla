------------------------- MODULE ImageMountProofs -------------------------
(***************************************************************************)
(* Theorems about ImageMount, for any images, finite set of callers,       *)
(* tickets and number of crashes: what is in use is left alone, and what   *)
(* is mounted is recorded.                                                 *)
(***************************************************************************)
EXTENDS ImageMount, FiniteSetTheorems, TLAPS

\* Where a caller has the lock of the image, and where the unmounting thread has one
HasLock(g) == call[g].pc \in {"read", "unmounted", "recorded", "mount", "wait", "asleep", "woken",
                              "ended", "path", "found"}
UnmounterHas(i) == round.pc \in {"locked", "record"} /\ round.image = i
Waiting(g) == call[g].pc \in {"wait", "asleep", "woken"}

\* The lock of an image has one holder.
Locks ==
    /\ \A g \in Callers : HasLock(g) => call[g].image \in locked_images
    /\ \A g, h \in Callers : HasLock(g) /\ HasLock(h) /\ call[g].image = call[h].image => g = h
    /\ \A i \in Images : UnmounterHas(i) =>
          /\ i \in locked_images
          /\ \A g \in Callers : HasLock(g) => call[g].image # i

\* mounted_images counts those who use the image, or are about to.
Counted(i) == {g \in Callers : call[g].counted /\ call[g].image = i}
Counts == mounted_images = [i \in Images |-> Cardinality(Counted(i))]
Users ==
    \A g \in Callers : /\ call[g].pc \in {"found", "using"} => call[g].counted
                       /\ call[g].counted => call[g].pc \in {"path", "found", "using"}

\* A running thread is the one its image has in the map, and of no other image; who waits,
\* waits for that one or for none that runs.
Processes ==
    /\ \A t \in Tickets : IsRunning(t) => mount_processes[running[t].image] = t
    /\ \A i \in Images : mount_processes[i] # None /\ IsRunning(mount_processes[i]) =>
          running[mount_processes[i]].image = i
    /\ \A g \in Callers : Waiting(g) =>
          /\ call[g].ticket \in Tickets
          /\ mount_processes[call[g].image] \in {call[g].ticket, None}
          /\ IsRunning(call[g].ticket) => running[call[g].ticket].image = call[g].image
    /\ \A g \in Callers : call[g].pc \in {"ended", "path", "found"} =>
          mount_processes[call[g].image] = None

\* Only a running thread is waited for, and only who sleeps for it is notified.
Notified ==
    /\ \A t \in Tickets : running[t].cond # None => IsRunning(t)
    /\ \A t \in Tickets, g \in Callers : running[t].cond = g =>
          call[g].pc = "asleep" /\ call[g].ticket = t
    /\ \A t \in Tickets : running[t].cond = Unmounter =>
          round.pc = "asleep" /\ round.ticket = t

\* Who is awake has nothing to wait for.
Awake ==
    /\ \A g \in Callers : call[g].pc = "woken" => ~IsRunning(call[g].ticket)
    /\ round.pc \in {"asleep", "woken"} =>
          round.ticket \in Tickets /\ mount_processes[round.image] = round.ticket
    /\ round.pc = "woken" => ~IsRunning(round.ticket)
    /\ round.pc \in {"reap", "asleep", "woken"} =>
          \A i \in round.todo : mount_processes[i] # None

\* No thread mounts the image, and no caller is about to start one.
Settled(i) ==
    /\ mounttime[i] # "zero"
    /\ mount_processes[i] = None
    /\ \A g \in Callers : call[g].image = i => call[g].pc \notin {"unmounted", "mount"}

Listed(i) ==
    (round.pc \in {"unmount", "locked", "record"} /\ i \in round.todo) \/ UnmounterHas(i)

\* Nothing goes on before the first round.
Start ==
    round.first =>
        /\ round.pc = "list"
        /\ \A g \in Callers : call[g].pc = "idle"
        /\ \A i \in Images : mount_processes[i] = None

Rests ==
    /\ \A i \in Images : mounttime[i] = "old" \/ InUse(i) \/ Listed(i) => Settled(i)
    /\ \A i \in Images : UnmounterHas(i) => ~InUse(i) /\ i \notin round.todo

\* What the mountpoint and the record are like
Records ==
    /\ MountedRecorded
    /\ \A t \in Tickets : /\ running[t].at = "helper" => mounttime[running[t].image] # "zero"
                          /\ running[t].at = "failed" => \/ dir[running[t].image] = "gone"
                                                         \/ running[t].image \in left
    /\ round.pc = "record" => dir[round.image] # "mounted" \/ round.image \in left
    /\ \A i \in Images : dir[i] = "made" =>
          crashes > 0 \/ \E t \in Tickets : running[t].at = "helper" /\ running[t].image = i
    /\ \A g \in Callers : call[g].pc \in {"found", "using"} => dir[call[g].image] # "gone"

IInv ==
    /\ TypeOK /\ Locks /\ Counts /\ Users /\ Processes
    /\ Notified /\ Awake /\ Start /\ Rests /\ Records
-------------------------------------------------------------------------------
\* What the other parts use of the types
Plain ==
    /\ mounttime \in [Images -> {"zero", "new", "old"}]
    /\ dir \in [Images -> {"gone", "made", "mounted"}]
    /\ locked_images \subseteq Images
    /\ mount_processes \in [Images -> Tickets \cup {None}]
    /\ \A g \in Callers : /\ call[g].pc # "idle" => call[g].image \in Images
                          /\ call[g].ticket \in Tickets \cup {None}
                          /\ call[g].counted \in BOOLEAN
    /\ \A t \in Tickets : IsRunning(t) => running[t].image \in Images
    /\ round.pc \in {"locked", "record", "asleep", "woken"} => round.image \in Images
    /\ round.todo \subseteq Images

LEMMA PlainTypes ==
    ASSUME TypeOK PROVE Plain
BY DEF TypeOK, Plain, Calls, Rounds, IsRunning

\* What an assignment to a part of the state makes of it
CallIs(g, pc, ticket, counted) ==
    /\ \A h \in Callers \ {g} : call'[h] = call[h]
    /\ call'[g].pc = pc /\ call'[g].ticket = ticket /\ call'[g].counted = counted
    /\ call'[g].image = call[g].image /\ call'[g].patient = call[g].patient
    /\ call'[g].do_mount = call[g].do_mount

CallEnds(g) ==
    /\ \A h \in Callers \ {g} : call'[h] = call[h]
    /\ call'[g].pc = "idle" /\ call'[g].image = None /\ call'[g].ticket = None /\ ~call'[g].counted

CallsTyped ==
    /\ call' \in [Callers -> Calls]
    /\ \A g \in Callers : call'[g].pc # "idle" => call'[g].image \in Images

ThreadIs(t, at, cond) ==
    /\ \A u \in Tickets \ {t} : running'[u] = running[u]
    /\ running'[t].at = at /\ running'[t].cond = cond /\ running'[t].image = running[t].image

ThreadsTyped ==
    /\ running' \in [Tickets -> Threads]
    /\ \A t \in Tickets : running'[t].at # "none" => running'[t].image \in Images

\* The step of a request assigns the fields it names, and the types stay.
LEMMA GotoIs ==
    ASSUME TypeOK, NEW g \in Callers, call[g].pc # "idle", NEW pc \in Points, Goto(g, pc)
    PROVE  CallIs(g, pc, call[g].ticket, call[g].counted) /\ CallsTyped
BY DEF TypeOK, Goto, CallIs, CallsTyped, Calls

LEMMA TicketIs ==
    ASSUME TypeOK, NEW g \in Callers, call[g].pc # "idle", NEW pc \in Points,
           NEW t \in Tickets \cup {None},
           call' = [call EXCEPT ![g].pc = pc, ![g].ticket = t]
    PROVE  CallIs(g, pc, t, call[g].counted) /\ CallsTyped
<1>1. call' = [call EXCEPT ![g] = [call[g] EXCEPT !.pc = pc, !.ticket = t]]
  BY DEF TypeOK
<1>2. [call[g] EXCEPT !.pc = pc, !.ticket = t] \in Calls
  BY DEF TypeOK, Calls
<1> QED
  BY <1>1, <1>2 DEF TypeOK, CallIs, CallsTyped, Calls

LEMMA CountedIs ==
    ASSUME TypeOK, NEW g \in Callers, call[g].pc # "idle", NEW pc \in Points,
           call' = [call EXCEPT ![g].pc = pc, ![g].counted = TRUE]
    PROVE  CallIs(g, pc, call[g].ticket, TRUE) /\ CallsTyped
<1>1. call' = [call EXCEPT ![g] = [call[g] EXCEPT !.pc = pc, !.counted = TRUE]]
  BY DEF TypeOK
<1>2. [call[g] EXCEPT !.pc = pc, !.counted = TRUE] \in Calls
  BY DEF TypeOK, Calls
<1> QED
  BY <1>1, <1>2 DEF TypeOK, CallIs, CallsTyped, Calls

LEMMA Ends ==
    ASSUME TypeOK, NEW g \in Callers, call' = [call EXCEPT ![g] = Idle]
    PROVE  CallEnds(g) /\ CallsTyped
BY DEF TypeOK, CallEnds, CallsTyped, Calls, Points, Idle

LEMMA CallsKept ==
    ASSUME TypeOK, UNCHANGED call PROVE CallsTyped
BY DEF TypeOK, CallsTyped

\* The same for the threads of the pool
LEMMA AtIs ==
    ASSUME TypeOK, NEW t \in Tickets, IsRunning(t), NEW at \in {"start", "helper",
           "failed", "end"},
           running' = [running EXCEPT ![t].at = at]
    PROVE  ThreadIs(t, at, running[t].cond) /\ ThreadsTyped
BY DEF TypeOK, ThreadIs, ThreadsTyped, Threads, IsRunning

LEMMA CondIs ==
    ASSUME TypeOK, NEW t \in Tickets, NEW c \in Callers \cup {Unmounter, None},
           running' = [running EXCEPT ![t].cond = c]
    PROVE  ThreadIs(t, running[t].at, c) /\ ThreadsTyped
BY DEF TypeOK, ThreadIs, ThreadsTyped, Threads

LEMMA ThreadsKept ==
    ASSUME TypeOK, UNCHANGED running PROVE ThreadsTyped
BY DEF TypeOK, ThreadsTyped

\* A count is the cardinality of a set of callers.
LEMMA CountsTyped ==
    ASSUME Counts' PROVE mounted_images' \in [Images -> Nat]
<1>1. \A i \in Images : Counted(i)' \in SUBSET Callers
  BY DEF Counted
<1>2. \A i \in Images : Cardinality(Counted(i)') \in Nat
  BY <1>1, MountAssumption, FS_Subset, FS_CardinalityType
<1> QED
  BY <1>2 DEF Counts

LEMMA CountsKept ==
    ASSUME Counts, UNCHANGED mounted_images, \A i \in Images : Counted(i)' = Counted(i)
    PROVE  Counts'
BY DEF Counts

\* incrImageMounted, and decrImageMounted at the end of a use, count one caller.
LEMMA CountsUp ==
    ASSUME Counts, NEW g \in Callers, NEW j \in Images, call[g].image = j,
           ~call[g].counted, Count(g),
           \A h \in Callers \ {g} : call'[h] = call[h],
           call'[g].counted, call'[g].image = call[g].image
    PROVE  Counts'
<1>1. Counted(j)' = Counted(j) \cup {g} /\ g \notin Counted(j)
  BY DEF Counted
<1>2. \A i \in Images \ {j} : Counted(i)' = Counted(i)
  BY DEF Counted
<1>3. \A i \in Images : Counted(i) \in SUBSET Callers
  BY DEF Counted
<1>4. \A i \in Images : IsFiniteSet(Counted(i))
  BY <1>3, MountAssumption, FS_Subset
<1>5. Cardinality(Counted(j)') = Cardinality(Counted(j)) + 1
  BY <1>1, <1>4, FS_AddElement
<1>6. mounted_images' = [mounted_images EXCEPT ![j] = @ + 1]
  BY DEF Count
<1>7. mounted_images = [i \in Images |-> Cardinality(Counted(i))]
  BY DEF Counts
<1>8. \A i \in Images : mounted_images'[i] = Cardinality(Counted(i)')
  BY <1>2, <1>5, <1>6, <1>7
<1>9. mounted_images' = [i \in Images |-> mounted_images'[i]]
  BY <1>6, <1>7
<1> QED
  BY <1>8, <1>9 DEF Counts

LEMMA CountsDown ==
    ASSUME Counts, NEW g \in Callers, NEW j \in Images, call[g].image = j, call[g].counted,
           mounted_images' = [mounted_images EXCEPT ![call[g].image] = @ - 1],
           \A h \in Callers \ {g} : call'[h] = call[h], ~call'[g].counted
    PROVE  Counts'
<1>0. g \in Counted(j) /\ g \notin Counted(j)'
  BY DEF Counted
<1>1. Counted(j)' = Counted(j) \ {g} /\ g \in Counted(j)
  <2>1. \A h \in Callers \ {g} : h \in Counted(j)' <=> h \in Counted(j)
    BY DEF Counted
  <2>2. Counted(j) \in SUBSET Callers /\ Counted(j)' \in SUBSET Callers
    BY DEF Counted
  <2> QED
    BY <1>0, <2>1, <2>2
<1>2. \A i \in Images \ {j} : Counted(i)' = Counted(i)
  BY DEF Counted
<1>3. \A i \in Images : Counted(i) \in SUBSET Callers
  BY DEF Counted
<1>4. \A i \in Images : IsFiniteSet(Counted(i))
  BY <1>3, MountAssumption, FS_Subset
<1>5. Cardinality(Counted(j)') = Cardinality(Counted(j)) - 1
  BY <1>1, <1>4, FS_RemoveElement
<1>6. mounted_images' = [mounted_images EXCEPT ![j] = @ - 1]
  OBVIOUS
<1>7. mounted_images = [i \in Images |-> Cardinality(Counted(i))]
  BY DEF Counts
<1>8. \A i \in Images : mounted_images'[i] = Cardinality(Counted(i)')
  BY <1>2, <1>5, <1>6, <1>7
<1>9. mounted_images' = [i \in Images |-> mounted_images'[i]]
  BY <1>6, <1>7
<1> QED
  BY <1>8, <1>9 DEF Counts

-------------------------------------------------------------------------------
\* Each step of a thread that mounts keeps the invariant.
LEMMA StartMountStep ==
    ASSUME IInv, NEW t \in Tickets, StartMount(t)
    PROVE  IInv'
<1> USE MountAssumption
<1>0. TypeOK /\ Plain /\ Locks /\ Counts /\ Users /\ Processes
     /\ Notified /\ Awake /\ Start /\ Rests /\ Records
  BY PlainTypes DEF IInv
<1>1. ThreadIs(t, "helper", running[t].cond) /\ CallsTyped /\ ThreadsTyped
  BY <1>0, AtIs, CallsKept DEF StartMount, IsRunning
<1>2. Counts'
  BY <1>0, <1>1, CountsKept DEF StartMount, Counted, Users, CallIs, CallEnds, shared
<1>3. TypeOK'
  BY <1>0, <1>1, <1>2, CountsTyped
     DEF StartMount, TypeOK, CallsTyped, ThreadsTyped, disk, shared, ThreadIs
<1>4. Locks'
  BY <1>0, <1>1 DEF StartMount, Locks, HasLock, UnmounterHas, shared, ThreadIs
<1>5. Users'
  BY <1>0, <1>1 DEF StartMount, Users, ThreadIs
<1>6. Processes'
  BY <1>0, <1>1 DEF StartMount, Processes, IsRunning, Waiting, shared, ThreadIs
<1>7. Notified'
  BY <1>0, <1>1 DEF StartMount, Notified, IsRunning, shared, ThreadIs
<1>8. Awake'
  BY <1>0, <1>1 DEF StartMount, Awake, IsRunning, shared, ThreadIs
<1>9. Start'
  BY <1>0, <1>1 DEF StartMount, Start, shared, ThreadIs
<1>10. Rests'
  BY <1>0, <1>1
     DEF StartMount, Rests, Settled, Listed, UnmounterHas, InUse, shared, disk, ThreadIs
<1>11. Records'
  BY <1>0, <1>1 DEF StartMount, Records, Plain, MountedRecorded, IsRunning, shared, disk, ThreadIs
<1> QED
  BY <1>2, <1>3, <1>4, <1>5, <1>6, <1>7, <1>8, <1>9, <1>10, <1>11 DEF IInv

LEMMA MakeMountpointStep ==
    ASSUME IInv, NEW t \in Tickets, MakeMountpoint(t)
    PROVE  IInv'
<1> USE MountAssumption
<1>0. TypeOK /\ Plain /\ Locks /\ Counts /\ Users /\ Processes
     /\ Notified /\ Awake /\ Start /\ Rests /\ Records
  BY PlainTypes DEF IInv
<1>1. CallsTyped /\ ThreadsTyped
  BY <1>0, CallsKept, ThreadsKept DEF MakeMountpoint
<1>2. Counts'
  BY <1>0, <1>1, CountsKept DEF MakeMountpoint, Counted, Users, CallIs, CallEnds, shared
<1>3. TypeOK'
  BY <1>0, <1>1, <1>2, CountsTyped
     DEF MakeMountpoint, TypeOK, CallsTyped, ThreadsTyped, disk, shared
<1>4. Locks'
  BY <1>0, <1>1 DEF MakeMountpoint, Locks, HasLock, UnmounterHas, shared
<1>5. Users'
  BY <1>0, <1>1 DEF MakeMountpoint, Users
<1>6. Processes'
  BY <1>0, <1>1 DEF MakeMountpoint, Processes, IsRunning, Waiting, shared
<1>7. Notified'
  BY <1>0, <1>1 DEF MakeMountpoint, Notified, IsRunning, shared
<1>8. Awake'
  BY <1>0, <1>1 DEF MakeMountpoint, Awake, IsRunning, shared
<1>9. Start'
  BY <1>0, <1>1 DEF MakeMountpoint, Start, shared
<1>10. Rests'
  BY <1>0, <1>1 DEF MakeMountpoint, Rests, Settled, Listed, UnmounterHas, InUse, shared, disk
<1>11. Records'
  BY <1>0, <1>1
     DEF MakeMountpoint, Records, Plain, MountedRecorded, Processes, IsRunning, shared, disk
<1> QED
  BY <1>2, <1>3, <1>4, <1>5, <1>6, <1>7, <1>8, <1>9, <1>10, <1>11 DEF IInv

LEMMA MountOverStep ==
    ASSUME IInv, NEW t \in Tickets, MountOver(t)
    PROVE  IInv'
<1> USE MountAssumption
<1>0. TypeOK /\ Plain /\ Locks /\ Counts /\ Users /\ Processes
     /\ Notified /\ Awake /\ Start /\ Rests /\ Records
  BY PlainTypes DEF IInv
<1>1. /\ CallsTyped /\ ThreadsTyped
      /\ ThreadIs(t, "end", running[t].cond) \/ ThreadIs(t, "failed", running[t].cond)
  BY <1>0, AtIs, CallsKept DEF MountOver, IsRunning
<1>2. Counts'
  BY <1>0, <1>1, CountsKept DEF MountOver, Counted, Users, CallIs, CallEnds, shared
<1>3. TypeOK'
  BY <1>0, <1>1, <1>2, CountsTyped
     DEF MountOver, TypeOK, CallsTyped, ThreadsTyped, disk, shared, ThreadIs
<1>4. Locks'
  BY <1>0, <1>1 DEF MountOver, Locks, HasLock, UnmounterHas, shared, ThreadIs
<1>5. Users'
  BY <1>0, <1>1 DEF MountOver, Users, ThreadIs
<1>6. Processes'
  BY <1>0, <1>1 DEF MountOver, Processes, Plain, IsRunning, Waiting, shared, ThreadIs
<1>7. Notified'
  BY <1>0, <1>1 DEF MountOver, Notified, IsRunning, shared, ThreadIs
<1>8. Awake'
  BY <1>0, <1>1 DEF MountOver, Awake, Processes, Waiting, IsRunning, shared, ThreadIs
<1>9. Start'
  BY <1>0, <1>1 DEF MountOver, Start, shared, ThreadIs
<1>10. Rests'
  BY <1>0, <1>1 DEF MountOver, Rests, Settled, Listed, UnmounterHas, InUse, shared, disk, ThreadIs
<1>11. Records'
  BY <1>0, <1>1
     DEF MountOver, Records, Plain, MountedRecorded, Rests, Settled, Listed, UnmounterHas, InUse,
         Locks, HasLock, Processes, IsRunning, shared, disk, ThreadIs
<1> QED
  BY <1>2, <1>3, <1>4, <1>5, <1>6, <1>7, <1>8, <1>9, <1>10, <1>11 DEF IInv

LEMMA EndHelperStep ==
    ASSUME IInv, NEW t \in Tickets, EndHelper(t)
    PROVE  IInv'
<1> USE MountAssumption
<1>0. TypeOK /\ Plain /\ Locks /\ Counts /\ Users /\ Processes
     /\ Notified /\ Awake /\ Start /\ Rests /\ Records
  BY PlainTypes DEF IInv
<1>1. /\ CallsTyped /\ ThreadsTyped
      /\ \/ /\ ThreadIs(t, "end", running[t].cond)
            /\ dir' = [dir EXCEPT ![running[t].image] = "mounted"]
         \/ /\ ThreadIs(t, "failed", running[t].cond)
            /\ dir' = [dir EXCEPT ![running[t].image] = "gone"]
  <2>1. CASE /\ dir' = [dir EXCEPT ![running[t].image] = "mounted"]
             /\ running' = [running EXCEPT ![t].at = "end"]
    BY <1>0, <2>1, AtIs, CallsKept DEF EndHelper, IsRunning
  <2>2. CASE /\ dir' = [dir EXCEPT ![running[t].image] = "gone"]
             /\ running' = [running EXCEPT ![t].at = "failed"]
    BY <1>0, <2>2, AtIs, CallsKept DEF EndHelper, IsRunning
  <2> QED
    BY <2>1, <2>2 DEF EndHelper
<1>2. Counts'
  BY <1>0, <1>1, CountsKept DEF EndHelper, Counted, Users, CallIs, CallEnds, shared
<1>3. TypeOK'
  BY <1>0, <1>1, <1>2, CountsTyped
     DEF EndHelper, TypeOK, CallsTyped, ThreadsTyped, disk, shared, ThreadIs
<1>4. Locks'
  BY <1>0, <1>1 DEF EndHelper, Locks, HasLock, UnmounterHas, shared, ThreadIs
<1>5. Users'
  BY <1>0, <1>1 DEF EndHelper, Users, ThreadIs
<1>6. Processes'
  BY <1>0, <1>1 DEF EndHelper, Processes, Plain, IsRunning, Waiting, shared, ThreadIs
<1>7. Notified'
  BY <1>0, <1>1 DEF EndHelper, Notified, IsRunning, shared, ThreadIs
<1>8. Awake'
  BY <1>0, <1>1 DEF EndHelper, Awake, Processes, Waiting, IsRunning, shared, ThreadIs
<1>9. Start'
  BY <1>0, <1>1 DEF EndHelper, Start, shared, ThreadIs
<1>10. Rests'
  BY <1>0, <1>1 DEF EndHelper, Rests, Settled, Listed, UnmounterHas, InUse, shared, disk, ThreadIs
<1>11. Records'
  BY <1>0, <1>1
     DEF EndHelper, Records, Plain, MountedRecorded, Rests, Settled, Listed, UnmounterHas, InUse,
         Locks, HasLock, Processes, IsRunning, shared, disk, ThreadIs
<1> QED
  BY <1>2, <1>3, <1>4, <1>5, <1>6, <1>7, <1>8, <1>9, <1>10, <1>11 DEF IInv

LEMMA EndThreadStep ==
    ASSUME IInv, NEW t \in Tickets, EndThread(t)
    PROVE  IInv'
<1> USE MountAssumption
<1>0. TypeOK /\ Plain /\ Locks /\ Counts /\ Users /\ Processes
     /\ Notified /\ Awake /\ Start /\ Rests /\ Records
  BY PlainTypes DEF IInv
<1>1. /\ CallsTyped /\ ThreadsTyped /\ running[t].at = "end"
      /\ UNCHANGED <<disk, shared, crashes>>
      /\ \A u \in Tickets \ {t} : running'[u] = running[u]
      /\ running'[t].at = "none" /\ running'[t].cond = None
      /\ \A g \in Callers :
            /\ \/ call'[g].pc = call[g].pc
               \/ call[g].pc = "asleep" /\ call'[g].pc = "woken" /\ call[g].ticket = t
            /\ call'[g].image = call[g].image /\ call'[g].ticket = call[g].ticket
            /\ call'[g].counted = call[g].counted
      /\ round' \in Rounds /\ round'.image = round.image /\ round'.ticket = round.ticket
      /\ round'.todo = round.todo /\ round'.first = round.first
      /\ \/ round'.pc = round.pc
         \/ round.pc = "asleep" /\ round'.pc = "woken" /\ round.ticket = t
  <2>1. /\ running[t].at = "end" /\ running' = [running EXCEPT ![t] = NotRunning]
        /\ UNCHANGED <<disk, shared, crashes>>
    BY DEF EndThread
  <2>2. ThreadsTyped /\ running'[t].at = "none" /\ running'[t].cond = None
    BY <1>0, <2>1 DEF TypeOK, ThreadsTyped, Threads, NotRunning
  <2>3. ASSUME NEW g \in Callers
        PROVE  /\ call'[g] \in Calls
               /\ call'[g].pc = IF running[t].cond = g THEN "woken" ELSE call[g].pc
               /\ call'[g].image = call[g].image /\ call'[g].ticket = call[g].ticket
               /\ call'[g].counted = call[g].counted
    <3>1. call[g] \in Calls
      BY <1>0 DEF TypeOK
    <3>2. CASE running[t].cond = g
      BY <3>1, <3>2 DEF EndThread, Calls, Points
    <3>3. CASE running[t].cond # g
      BY <3>1, <3>3 DEF EndThread
    <3> QED
      BY <3>2, <3>3
  <2>4. CallsTyped
    <3>1. \A g \in Callers : running[t].cond = g => call[g].pc = "asleep"
      BY <1>0 DEF Notified
    <3>2. \A g \in Callers : call'[g].pc # "idle" => call[g].pc # "idle"
      BY <2>3, <3>1
    <3>3. \A g \in Callers : call'[g].pc # "idle" => call'[g].image \in Images
      BY <1>0, <2>3, <3>2 DEF Plain
    <3>4. call' = [g \in Callers |-> call'[g]]
      BY DEF EndThread
    <3> QED
      BY <2>3, <3>3, <3>4 DEF CallsTyped
  <2>5. /\ round' \in Rounds /\ round'.image = round.image /\ round'.ticket = round.ticket
        /\ round'.todo = round.todo /\ round'.first = round.first
        /\ round'.pc = IF running[t].cond = Unmounter THEN "woken" ELSE round.pc
    <3>1. round \in Rounds
      BY <1>0 DEF TypeOK
    <3>2. CASE running[t].cond = Unmounter
      BY <3>1, <3>2 DEF EndThread, Rounds
    <3>3. CASE running[t].cond # Unmounter
      BY <3>1, <3>3 DEF EndThread
    <3> QED
      BY <3>2, <3>3
  <2>6. \A g \in Callers : running[t].cond = g => call[g].pc = "asleep" /\ call[g].ticket = t
    BY <1>0 DEF Notified
  <2>7. running[t].cond = Unmounter => round.pc = "asleep" /\ round.ticket = t
    BY <1>0 DEF Notified
  <2>8. \A u \in Tickets \ {t} : running'[u] = running[u]
    BY <1>0, <2>1 DEF TypeOK
  <2>9. \A g \in Callers :
           /\ \/ call'[g].pc = call[g].pc
              \/ call[g].pc = "asleep" /\ call'[g].pc = "woken" /\ call[g].ticket = t
           /\ call'[g].image = call[g].image /\ call'[g].ticket = call[g].ticket
           /\ call'[g].counted = call[g].counted
    BY <2>3, <2>6
  <2> QED
    BY <2>1, <2>2, <2>4, <2>5, <2>7, <2>8, <2>9
<1>2. Counts'
  BY <1>0, <1>1, CountsKept DEF Counted, Users, CallIs, CallEnds, shared
<1>3. TypeOK'
  BY <1>0, <1>1, <1>2, CountsTyped DEF TypeOK, CallsTyped, ThreadsTyped, disk, shared
<1>4. Locks'
  BY <1>0, <1>1 DEF Locks, HasLock, UnmounterHas, shared
<1>5. Users'
  BY <1>0, <1>1 DEF Users
<1>6. Processes'
  BY <1>0, <1>1 DEF Processes, Plain, IsRunning, Waiting, shared
<1>7. Notified'
  BY <1>0, <1>1 DEF Notified, IsRunning, shared
<1>8. Awake'
  BY <1>0, <1>1 DEF Awake, Processes, Waiting, IsRunning, shared
<1>9. Start'
  BY <1>0, <1>1 DEF Start, shared
<1>10. Rests'
  BY <1>0, <1>1 DEF Rests, Settled, Listed, UnmounterHas, InUse, shared, disk
<1>11. Records'
  BY <1>0, <1>1 DEF Records, MountedRecorded, shared, disk
<1> QED
  BY <1>2, <1>3, <1>4, <1>5, <1>6, <1>7, <1>8, <1>9, <1>10, <1>11 DEF IInv

LEMMA MountFailedStep ==
    ASSUME IInv, NEW t \in Tickets, MountFailed(t)
    PROVE  IInv'
<1> USE MountAssumption
<1>0. TypeOK /\ Plain /\ Locks /\ Counts /\ Users /\ Processes
     /\ Notified /\ Awake /\ Start /\ Rests /\ Records
  BY PlainTypes DEF IInv
<1>1. ThreadIs(t, "end", running[t].cond) /\ CallsTyped /\ ThreadsTyped
  BY <1>0, AtIs, CallsKept DEF MountFailed, IsRunning
<1>2. Counts'
  BY <1>0, <1>1, CountsKept DEF MountFailed, Counted, Users, CallIs, CallEnds, shared
<1>3. TypeOK'
  BY <1>0, <1>1, <1>2, CountsTyped
     DEF MountFailed, TypeOK, CallsTyped, ThreadsTyped, disk, shared, ThreadIs
<1>4. Locks'
  BY <1>0, <1>1 DEF MountFailed, Locks, HasLock, UnmounterHas, shared, ThreadIs
<1>5. Users'
  BY <1>0, <1>1 DEF MountFailed, Users, ThreadIs
<1>6. Processes'
  BY <1>0, <1>1 DEF MountFailed, Processes, IsRunning, Waiting, shared, ThreadIs
<1>7. Notified'
  BY <1>0, <1>1 DEF MountFailed, Notified, IsRunning, shared, ThreadIs
<1>8. Awake'
  BY <1>0, <1>1 DEF MountFailed, Awake, IsRunning, shared, ThreadIs
<1>9. Start'
  BY <1>0, <1>1 DEF MountFailed, Start, shared, ThreadIs
<1>10. Rests'
  BY <1>0, <1>1
     DEF MountFailed, Rests, Settled, Listed, UnmounterHas, InUse, Locks, HasLock, Processes,
         IsRunning, shared, disk, ThreadIs
<1>11. Records'
  BY <1>0, <1>1
     DEF MountFailed, Records, MountedRecorded, Processes, IsRunning, shared, disk, ThreadIs
<1> QED
  BY <1>2, <1>3, <1>4, <1>5, <1>6, <1>7, <1>8, <1>9, <1>10, <1>11 DEF IInv

-------------------------------------------------------------------------------
\* Each step of a request keeps the invariant.
LEMMA LockImageStep ==
    ASSUME IInv, NEW g \in Callers, LockImage(g)
    PROVE  IInv'
<1> USE MountAssumption
<1>0. TypeOK /\ Plain /\ Locks /\ Counts /\ Users /\ Processes
     /\ Notified /\ Awake /\ Start /\ Rests /\ Records
  BY PlainTypes DEF IInv
<1>1. CallIs(g, "read", call[g].ticket, call[g].counted) /\ CallsTyped /\ ThreadsTyped
  BY <1>0, GotoIs, ThreadsKept DEF LockImage, Points
<1>2. Counts'
  BY <1>0, <1>1, CountsKept DEF LockImage, Counted, Users, CallIs, CallEnds, shared
<1>3. TypeOK'
  BY <1>0, <1>1, <1>2, CountsTyped
     DEF LockImage, TypeOK, CallsTyped, ThreadsTyped, disk, shared, CallIs
<1>4. Locks'
  BY <1>0, <1>1 DEF LockImage, Locks, HasLock, UnmounterHas, shared, CallIs
<1>5. Users'
  BY <1>0, <1>1 DEF LockImage, Users, CallIs
<1>6. Processes'
  BY <1>0, <1>1 DEF LockImage, Processes, IsRunning, Waiting, shared, CallIs
<1>7. Notified'
  BY <1>0, <1>1 DEF LockImage, Notified, IsRunning, shared, CallIs
<1>8. Awake'
  BY <1>0, <1>1 DEF LockImage, Awake, IsRunning, shared, CallIs
<1>9. Start'
  BY <1>0, <1>1 DEF LockImage, Start, shared, CallIs
<1>10. Rests'
  BY <1>0, <1>1 DEF LockImage, Rests, Settled, Listed, UnmounterHas, InUse, shared, disk, CallIs
<1>11. Records'
  BY <1>0, <1>1 DEF LockImage, Records, MountedRecorded, shared, disk, CallIs
<1> QED
  BY <1>2, <1>3, <1>4, <1>5, <1>6, <1>7, <1>8, <1>9, <1>10, <1>11 DEF IInv

LEMMA LockBusyStep ==
    ASSUME IInv, NEW g \in Callers, LockBusy(g)
    PROVE  IInv'
<1> USE MountAssumption
<1>0. TypeOK /\ Plain /\ Locks /\ Counts /\ Users /\ Processes
     /\ Notified /\ Awake /\ Start /\ Rests /\ Records
  BY PlainTypes DEF IInv
<1>1. CallIs(g, "busy", call[g].ticket, call[g].counted) /\ CallsTyped /\ ThreadsTyped
  BY <1>0, GotoIs, ThreadsKept DEF LockBusy, Points
<1>2. Counts'
  BY <1>0, <1>1, CountsKept DEF LockBusy, Counted, Users, CallIs, CallEnds, shared
<1>3. TypeOK'
  BY <1>0, <1>1, <1>2, CountsTyped
     DEF LockBusy, TypeOK, CallsTyped, ThreadsTyped, disk, shared, CallIs
<1>4. Locks'
  BY <1>0, <1>1 DEF LockBusy, Locks, HasLock, UnmounterHas, shared, CallIs
<1>5. Users'
  BY <1>0, <1>1 DEF LockBusy, Users, CallIs
<1>6. Processes'
  BY <1>0, <1>1 DEF LockBusy, Processes, IsRunning, Waiting, shared, CallIs
<1>7. Notified'
  BY <1>0, <1>1 DEF LockBusy, Notified, IsRunning, shared, CallIs
<1>8. Awake'
  BY <1>0, <1>1 DEF LockBusy, Awake, IsRunning, shared, CallIs
<1>9. Start'
  BY <1>0, <1>1 DEF LockBusy, Start, shared, CallIs
<1>10. Rests'
  BY <1>0, <1>1 DEF LockBusy, Rests, Settled, Listed, UnmounterHas, InUse, shared, disk, CallIs
<1>11. Records'
  BY <1>0, <1>1 DEF LockBusy, Records, MountedRecorded, shared, disk, CallIs
<1> QED
  BY <1>2, <1>3, <1>4, <1>5, <1>6, <1>7, <1>8, <1>9, <1>10, <1>11 DEF IInv

LEMMA LockTimeUpStep ==
    ASSUME IInv, NEW g \in Callers, LockTimeUp(g)
    PROVE  IInv'
<1> USE MountAssumption
<1>0. TypeOK /\ Plain /\ Locks /\ Counts /\ Users /\ Processes
     /\ Notified /\ Awake /\ Start /\ Rests /\ Records
  BY PlainTypes DEF IInv
<1>1. CallEnds(g) /\ CallsTyped /\ ThreadsTyped
  BY <1>0, Ends, ThreadsKept DEF LockTimeUp
<1>2. Counts'
  BY <1>0, <1>1, CountsKept DEF LockTimeUp, Counted, Users, CallIs, CallEnds, shared
<1>3. TypeOK'
  BY <1>0, <1>1, <1>2, CountsTyped
     DEF LockTimeUp, TypeOK, CallsTyped, ThreadsTyped, disk, shared, CallEnds
<1>4. Locks'
  BY <1>0, <1>1 DEF LockTimeUp, Locks, HasLock, UnmounterHas, shared, CallEnds
<1>5. Users'
  BY <1>0, <1>1 DEF LockTimeUp, Users, CallEnds
<1>6. Processes'
  BY <1>0, <1>1 DEF LockTimeUp, Processes, IsRunning, Waiting, shared, CallEnds
<1>7. Notified'
  BY <1>0, <1>1 DEF LockTimeUp, Notified, IsRunning, shared, CallEnds
<1>8. Awake'
  BY <1>0, <1>1 DEF LockTimeUp, Awake, IsRunning, shared, CallEnds
<1>9. Start'
  BY <1>0, <1>1 DEF LockTimeUp, Start, shared, CallEnds
<1>10. Rests'
  BY <1>0, <1>1
     DEF LockTimeUp, Rests, Settled, Listed, UnmounterHas, InUse, shared, disk, CallEnds
<1>11. Records'
  BY <1>0, <1>1 DEF LockTimeUp, Records, MountedRecorded, shared, disk, CallEnds
<1> QED
  BY <1>2, <1>3, <1>4, <1>5, <1>6, <1>7, <1>8, <1>9, <1>10, <1>11 DEF IInv

LEMMA ReadMounttimeStep ==
    ASSUME IInv, NEW g \in Callers, ReadMounttime(g)
    PROVE  IInv'
<1> USE MountAssumption
<1>0. TypeOK /\ Plain /\ Locks /\ Counts /\ Users /\ Processes
     /\ Notified /\ Awake /\ Start /\ Rests /\ Records
  BY PlainTypes DEF IInv
<1>1. /\ CallsTyped /\ ThreadsTyped
      /\ \/ /\ mounttime[call[g].image] = "zero"
            /\ CallIs(g, "unmounted", call[g].ticket, call[g].counted)
         \/ /\ mounttime[call[g].image] # "zero"
            /\ CallIs(g, "recorded", call[g].ticket, call[g].counted)
  BY <1>0, GotoIs, ThreadsKept DEF ReadMounttime, Points
<1>2. Counts'
  BY <1>0, <1>1, CountsKept DEF ReadMounttime, Counted, Users, CallIs, CallEnds, shared
<1>3. TypeOK'
  BY <1>0, <1>1, <1>2, CountsTyped
     DEF ReadMounttime, TypeOK, CallsTyped, ThreadsTyped, disk, shared, CallIs
<1>4. Locks'
  BY <1>0, <1>1 DEF ReadMounttime, Locks, HasLock, UnmounterHas, shared, CallIs
<1>5. Users'
  BY <1>0, <1>1 DEF ReadMounttime, Users, CallIs
<1>6. Processes'
  BY <1>0, <1>1 DEF ReadMounttime, Processes, IsRunning, Waiting, shared, CallIs
<1>7. Notified'
  BY <1>0, <1>1 DEF ReadMounttime, Notified, IsRunning, shared, CallIs
<1>8. Awake'
  BY <1>0, <1>1 DEF ReadMounttime, Awake, IsRunning, shared, CallIs
<1>9. Start'
  BY <1>0, <1>1 DEF ReadMounttime, Start, shared, CallIs
<1>10. Rests'
  BY <1>0, <1>1
     DEF ReadMounttime, Rests, Settled, Listed, UnmounterHas, InUse, shared, disk, CallIs
<1>11. Records'
  BY <1>0, <1>1 DEF ReadMounttime, Records, MountedRecorded, shared, disk, CallIs
<1> QED
  BY <1>2, <1>3, <1>4, <1>5, <1>6, <1>7, <1>8, <1>9, <1>10, <1>11 DEF IInv

LEMMA JoinProcessStep ==
    ASSUME IInv, NEW g \in Callers, JoinProcess(g)
    PROVE  IInv'
<1> USE MountAssumption
<1>0. TypeOK /\ Plain /\ Locks /\ Counts /\ Users /\ Processes
     /\ Notified /\ Awake /\ Start /\ Rests /\ Records
  BY PlainTypes DEF IInv
<1>1. /\ CallIs(g, "wait", mount_processes[call[g].image], call[g].counted)
      /\ CallsTyped /\ ThreadsTyped
      /\ call[g].pc = "mount" /\ ProcessesFree /\ mount_processes[call[g].image] \in Tickets
      /\ UNCHANGED <<disk, shared, running, round, crashes>>
  <2>1. mount_processes[call[g].image] \in Tickets
    BY <1>0 DEF JoinProcess, HasProcess, Plain
  <2> QED
    BY <1>0, <2>1, TicketIs, ThreadsKept DEF JoinProcess, Points
<1>2. Counts'
  BY <1>0, <1>1, CountsKept DEF Counted, Users, CallIs, CallEnds, shared
<1>3. TypeOK'
  BY <1>0, <1>1, <1>2, CountsTyped DEF TypeOK, CallsTyped, ThreadsTyped, disk, shared, CallIs
<1>4. Locks'
  BY <1>0, <1>1 DEF Locks, HasLock, UnmounterHas, shared, CallIs
<1>5. Users'
  BY <1>0, <1>1 DEF Users, CallIs
<1>6. Processes'
  BY <1>0, <1>1 DEF Processes, Plain, IsRunning, Waiting, shared, CallIs
<1>7. Notified'
  BY <1>0, <1>1 DEF Notified, IsRunning, shared, CallIs
<1>8. Awake'
  BY <1>0, <1>1 DEF Awake, IsRunning, shared, CallIs
<1>9. Start'
  BY <1>0, <1>1 DEF Start, shared, CallIs
<1>10. Rests'
  BY <1>0, <1>1 DEF Rests, Settled, Listed, UnmounterHas, InUse, shared, disk, CallIs
<1>11. Records'
  BY <1>0, <1>1 DEF Records, MountedRecorded, shared, disk, CallIs
<1> QED
  BY <1>2, <1>3, <1>4, <1>5, <1>6, <1>7, <1>8, <1>9, <1>10, <1>11 DEF IInv

LEMMA ForgetProcessStep ==
    ASSUME IInv, NEW g \in Callers, ForgetProcess(g)
    PROVE  IInv'
<1> USE MountAssumption
<1>0. TypeOK /\ Plain /\ Locks /\ Counts /\ Users /\ Processes
     /\ Notified /\ Awake /\ Start /\ Rests /\ Records
  BY PlainTypes DEF IInv
<1>1. /\ CallIs(g, "ended", None, call[g].counted) /\ CallsTyped /\ ThreadsTyped
      /\ call[g].pc = "woken" /\ ProcessesFree
      /\ mount_processes' = [mount_processes EXCEPT ![call[g].image] =
                               IF @ = call[g].ticket THEN None ELSE @]
      /\ UNCHANGED <<disk, locked_images, mounted_images, running, round, crashes>>
  BY <1>0, TicketIs, ThreadsKept DEF ForgetProcess, Points
<1>2. Counts'
  BY <1>0, <1>1, CountsKept DEF Counted, Users, CallIs, CallEnds, shared
<1>3. TypeOK'
  BY <1>0, <1>1, <1>2, CountsTyped DEF TypeOK, CallsTyped, ThreadsTyped, disk, shared, CallIs
<1>4. Locks'
  BY <1>0, <1>1 DEF Locks, HasLock, UnmounterHas, shared, CallIs
<1>5. Users'
  BY <1>0, <1>1 DEF Users, CallIs
<1>6. Processes'
  BY <1>0, <1>1 DEF Processes, Plain, IsRunning, Waiting, shared, CallIs, ProcessesFree, Awake
<1>7. Notified'
  BY <1>0, <1>1 DEF Notified, IsRunning, shared, CallIs
<1>8. Awake'
  BY <1>0, <1>1 DEF Awake, IsRunning, shared, CallIs, ProcessesFree
<1>9. Start'
  BY <1>0, <1>1 DEF Start, shared, CallIs
<1>10. Rests'
  BY <1>0, <1>1 DEF Rests, Settled, Listed, UnmounterHas, InUse, shared, disk, CallIs
<1>11. Records'
  BY <1>0, <1>1 DEF Records, MountedRecorded, shared, disk, CallIs
<1> QED
  BY <1>2, <1>3, <1>4, <1>5, <1>6, <1>7, <1>8, <1>9, <1>10, <1>11 DEF IInv

LEMMA StartProcessStep ==
    ASSUME IInv, NEW g \in Callers, StartProcess(g)
    PROVE  IInv'
<1> USE MountAssumption
<1>0. TypeOK /\ Plain /\ Locks /\ Counts /\ Users /\ Processes
     /\ Notified /\ Awake /\ Start /\ Rests /\ Records
  BY PlainTypes DEF IInv
<1>t. PICK t \in Tickets :
          /\ Execute(call[g].image, t)
          /\ mount_processes' = [mount_processes EXCEPT ![call[g].image] = t]
          /\ call' = [call EXCEPT ![g].pc = "wait", ![g].ticket = t]
  BY DEF StartProcess
<1>1. /\ CallIs(g, "wait", t, call[g].counted) /\ CallsTyped /\ ThreadsTyped
      /\ call[g].pc = "mount" /\ ProcessesFree /\ mount_processes[call[g].image] = None /\ ~Known(t)
      /\ mount_processes' = [mount_processes EXCEPT ![call[g].image] = t]
      /\ running' = [running EXCEPT
              ![t] = [image |-> call[g].image, at |-> "start", cond |-> None]]
      /\ UNCHANGED <<disk, locked_images, mounted_images, round, crashes>>
  <2>1. /\ call[g].pc = "mount" /\ ProcessesFree /\ ~HasProcess(g) /\ ~Known(t)
        /\ UNCHANGED <<disk, locked_images, mounted_images, round, crashes>>
        /\ running' = [running EXCEPT
              ![t] = [image |-> call[g].image, at |-> "start", cond |-> None]]
    BY <1>t DEF StartProcess, Execute
  <2>2. ThreadsTyped
    BY <1>0, <2>1 DEF TypeOK, ThreadsTyped, Threads
  <2>3. CallIs(g, "wait", t, call[g].counted) /\ CallsTyped
    BY <1>0, <1>t, <2>1, TicketIs DEF Points
  <2> QED
    BY <1>t, <2>1, <2>2, <2>3 DEF HasProcess
<1>2. Counts'
  BY <1>0, <1>1, CountsKept DEF Counted, Users, CallIs, CallEnds, shared
<1>3. TypeOK'
  BY <1>0, <1>1, <1>2, CountsTyped DEF TypeOK, CallsTyped, ThreadsTyped, disk, shared, CallIs
<1>4. Locks'
  BY <1>0, <1>1 DEF Locks, HasLock, UnmounterHas, shared, CallIs
<1>5. Users'
  BY <1>0, <1>1 DEF Users, CallIs
<1>6. Processes'
  BY <1>0, <1>1
     DEF Processes, Plain, IsRunning, Waiting, HasLock, Locks, shared, CallIs, Known,
         ProcessesFree
<1>7. Notified'
  BY <1>0, <1>1 DEF Notified, IsRunning, shared, CallIs
<1>8. Awake'
  BY <1>0, <1>1 DEF Awake, IsRunning, shared, CallIs, Known, ProcessesFree
<1>9. Start'
  BY <1>0, <1>1 DEF Start, shared, CallIs
<1>10. Rests'
  BY <1>0, <1>1 DEF Rests, Settled, Listed, UnmounterHas, InUse, shared, disk, CallIs
<1>11. Records'
  BY <1>0, <1>1
     DEF Records, MountedRecorded, IsRunning, shared, disk, CallIs, Known, ProcessesFree
<1> QED
  BY <1>2, <1>3, <1>4, <1>5, <1>6, <1>7, <1>8, <1>9, <1>10, <1>11 DEF IInv

LEMMA CallStep ==
    ASSUME IInv, NEW g \in Callers, NEW i \in Images, Call(g,i)
    PROVE  IInv'
<1> USE MountAssumption
<1>0. TypeOK /\ Plain /\ Locks /\ Counts /\ Users /\ Processes
     /\ Notified /\ Awake /\ Start /\ Rests /\ Records
  BY PlainTypes DEF IInv
<1>1. /\ \A h \in Callers \ {g} : call'[h] = call[h]
      /\ call'[g].pc = "lock" /\ call'[g].ticket = None /\ ~call'[g].counted /\ call'[g].image = i
      /\ CallsTyped /\ ThreadsTyped /\ call[g].pc = "idle" /\ ~round.first
      /\ UNCHANGED <<disk, shared, running, round, crashes>>
  <2>1. PICK d, p \in BOOLEAN :
            call' = [call EXCEPT ![g] = [Idle EXCEPT !.pc = "lock", !.image = i, !.do_mount = d,
                                                     !.patient = p]]
    BY DEF Call
  <2> DEFINE c == [Idle EXCEPT !.pc = "lock", !.image = i, !.do_mount = d, !.patient = p]
  <2>2. c \in Calls /\ c.pc = "lock" /\ c.image = i /\ c.ticket = None /\ ~c.counted
    BY DEF Idle, Calls, Points
  <2> HIDE DEF c
  <2>3. CallsTyped
    BY <1>0, <2>1, <2>2 DEF TypeOK, CallsTyped, c
  <2> QED
    BY <1>0, <2>1, <2>2, <2>3, ThreadsKept DEF Call, TypeOK, c
<1>2. Counts'
  BY <1>0, <1>1, CountsKept DEF Counted, Users, CallIs, CallEnds, shared
<1>3. TypeOK'
  BY <1>0, <1>1, <1>2, CountsTyped DEF TypeOK, CallsTyped, ThreadsTyped, disk, shared
<1>4. Locks'
  BY <1>0, <1>1 DEF Locks, HasLock, UnmounterHas, shared
<1>5. Users'
  BY <1>0, <1>1 DEF Users
<1>6. Processes'
  BY <1>0, <1>1 DEF Processes, IsRunning, Waiting, shared
<1>7. Notified'
  BY <1>0, <1>1 DEF Notified, IsRunning, shared
<1>8. Awake'
  BY <1>0, <1>1 DEF Awake, IsRunning, shared
<1>9. Start'
  BY <1>0, <1>1 DEF Start, shared
<1>10. Rests'
  BY <1>0, <1>1 DEF Rests, Settled, Listed, UnmounterHas, InUse, shared, disk
<1>11. Records'
  BY <1>0, <1>1 DEF Records, MountedRecorded, shared, disk
<1> QED
  BY <1>2, <1>3, <1>4, <1>5, <1>6, <1>7, <1>8, <1>9, <1>10, <1>11 DEF IInv

LEMMA FindProcessStep ==
    ASSUME IInv, NEW g \in Callers, FindProcess(g)
    PROVE  IInv'
<1> USE MountAssumption
<1>0. TypeOK /\ Plain /\ Locks /\ Counts /\ Users /\ Processes
     /\ Notified /\ Awake /\ Start /\ Rests /\ Records
  BY PlainTypes DEF IInv
<1>1. /\ CallsTyped /\ ThreadsTyped
      /\ call[g].pc \in {"unmounted", "recorded"}
      /\ UNCHANGED <<disk, mount_processes, mounted_images, running, round, crashes>>
      /\ \/ CallIs(g, "path", call[g].ticket, call[g].counted) /\ UNCHANGED locked_images
            /\ call[g].pc = "recorded" /\ mount_processes[call[g].image] = None
         \/ CallIs(g, "mount", call[g].ticket, call[g].counted) /\ UNCHANGED locked_images
            /\ (call[g].pc = "recorded" => mount_processes[call[g].image] # None)
         \/ CallEnds(g) /\ locked_images' = locked_images \ {call[g].image}
  <2>1. ~call[g].counted /\ call[g].pc \in {"unmounted", "recorded"}
    BY <1>0 DEF FindProcess, Users
  <2>2. CASE call[g].pc = "recorded" /\ ~HasProcess(g)
    BY <1>0, <2>1, <2>2, GotoIs, ThreadsKept DEF FindProcess, HasProcess, shared, Points
  <2>3. CASE ~(call[g].pc = "recorded" /\ ~HasProcess(g)) /\ call[g].do_mount
    BY <1>0, <2>1, <2>3, GotoIs, ThreadsKept DEF FindProcess, HasProcess, shared, Points
  <2>4. CASE ~(call[g].pc = "recorded" /\ ~HasProcess(g)) /\ ~call[g].do_mount
    <3>1. Fail(g) /\ UNCHANGED <<disk, mount_processes, running, round, crashes>>
      BY <2>4 DEF FindProcess
    <3>2. UNCHANGED mounted_images
      BY <1>0, <2>1, <3>1 DEF Fail, TypeOK
    <3> QED
      BY <1>0, <2>1, <3>1, <3>2, Ends, ThreadsKept DEF Fail
  <2> QED
    BY <2>2, <2>3, <2>4
<1>2. Counts'
  <2>1. UNCHANGED mounted_images
    BY <1>0, <1>1 DEF Users, shared
  <2> QED
    BY <1>0, <1>1, <2>1, CountsKept DEF Counted, Users, CallIs, CallEnds
<1>3. TypeOK'
  BY <1>0, <1>1, <1>2, CountsTyped
     DEF TypeOK, CallsTyped, ThreadsTyped, disk, shared, CallIs, CallEnds
<1>4. Locks'
  BY <1>0, <1>1 DEF Locks, HasLock, UnmounterHas, shared, CallIs, CallEnds
<1>5. Users'
  BY <1>0, <1>1 DEF Users, CallIs, CallEnds
<1>6. Processes'
  BY <1>0, <1>1 DEF Processes, IsRunning, Waiting, shared, CallIs, CallEnds
<1>7. Notified'
  BY <1>0, <1>1 DEF Notified, IsRunning, shared, CallIs, CallEnds
<1>8. Awake'
  BY <1>0, <1>1 DEF Awake, IsRunning, shared, CallIs, CallEnds
<1>9. Start'
  BY <1>0, <1>1 DEF Start, shared, CallIs, CallEnds
<1>10. Rests'
  BY <1>0, <1>1 DEF Rests, Settled, Listed, UnmounterHas, InUse, shared, disk, CallIs, CallEnds
<1>11. Records'
  BY <1>0, <1>1 DEF Records, MountedRecorded, shared, disk, CallIs, CallEnds
<1> QED
  BY <1>2, <1>3, <1>4, <1>5, <1>6, <1>7, <1>8, <1>9, <1>10, <1>11 DEF IInv

LEMMA WaitForStep ==
    ASSUME IInv, NEW g \in Callers, WaitFor(g)
    PROVE  IInv'
<1> USE MountAssumption
<1>0. TypeOK /\ Plain /\ Locks /\ Counts /\ Users /\ Processes
     /\ Notified /\ Awake /\ Start /\ Rests /\ Records
  BY PlainTypes DEF IInv
<1>1. /\ CallsTyped /\ ThreadsTyped /\ call[g].pc = "wait"
      /\ UNCHANGED <<disk, shared, round, crashes>>
      /\ \/ /\ CallIs(g, "asleep", call[g].ticket, call[g].counted)
            /\ IsRunning(call[g].ticket)
            /\ ThreadIs(call[g].ticket, running[call[g].ticket].at, g)
         \/ /\ CallIs(g, "woken", call[g].ticket, call[g].counted)
            /\ ~IsRunning(call[g].ticket) /\ UNCHANGED running
  <2>1. /\ call[g].pc = "wait" /\ call[g].ticket \in Tickets
        /\ UNCHANGED <<disk, shared, round, crashes>>
    BY <1>0 DEF WaitFor, Processes, Waiting
  <2>2. CASE IsRunning(call[g].ticket)
    BY <1>0, <2>1, <2>2, GotoIs, CondIs DEF WaitFor, WaitsOn, Points
  <2>3. CASE ~IsRunning(call[g].ticket)
    BY <1>0, <2>1, <2>3, GotoIs, ThreadsKept DEF WaitFor, Points
  <2> QED
    BY <2>2, <2>3
<1>2. Counts'
  BY <1>0, <1>1, CountsKept DEF Counted, Users, CallIs, CallEnds, shared
<1>3. TypeOK'
  BY <1>0, <1>1, <1>2, CountsTyped
     DEF TypeOK, CallsTyped, ThreadsTyped, disk, shared, CallIs, ThreadIs
<1>4. Locks'
  BY <1>0, <1>1 DEF Locks, HasLock, UnmounterHas, shared, CallIs, ThreadIs
<1>5. Users'
  BY <1>0, <1>1 DEF Users, CallIs, ThreadIs
<1>6. Processes'
  BY <1>0, <1>1 DEF Processes, Plain, IsRunning, Waiting, shared, CallIs, ThreadIs
<1>7. Notified'
  BY <1>0, <1>1 DEF Notified, IsRunning, shared, CallIs, ThreadIs
<1>8. Awake'
  BY <1>0, <1>1 DEF Awake, Processes, Waiting, IsRunning, shared, CallIs, ThreadIs
<1>9. Start'
  BY <1>0, <1>1 DEF Start, shared, CallIs, ThreadIs
<1>10. Rests'
  BY <1>0, <1>1 DEF Rests, Settled, Listed, UnmounterHas, InUse, shared, disk, CallIs, ThreadIs
<1>11. Records'
  BY <1>0, <1>1 DEF Records, MountedRecorded, shared, disk, CallIs, ThreadIs
<1> QED
  BY <1>2, <1>3, <1>4, <1>5, <1>6, <1>7, <1>8, <1>9, <1>10, <1>11 DEF IInv

LEMMA TimeUpStep ==
    ASSUME IInv, NEW g \in Callers, TimeUp(g)
    PROVE  IInv'
<1> USE MountAssumption
<1>0. TypeOK /\ Plain /\ Locks /\ Counts /\ Users /\ Processes
     /\ Notified /\ Awake /\ Start /\ Rests /\ Records
  BY PlainTypes DEF IInv
<1>1. /\ CallsTyped /\ ThreadsTyped /\ call[g].pc = "asleep" /\ call[g].ticket \in Tickets
      /\ UNCHANGED <<disk, mounted_images, mount_processes, round, crashes>>
      /\ \/ /\ CallEnds(g) /\ locked_images' = locked_images \ {call[g].image}
            /\ IsRunning(call[g].ticket)
            /\ \E c \in Callers \cup {Unmounter, None} :
                  /\ c = IF running[call[g].ticket].cond = g THEN None
                                                             ELSE running[call[g].ticket].cond
                  /\ ThreadIs(call[g].ticket, running[call[g].ticket].at, c)
         \/ /\ CallIs(g, "woken", call[g].ticket, call[g].counted)
            /\ ~IsRunning(call[g].ticket) /\ UNCHANGED <<running, locked_images>>
  <2>1. /\ call[g].pc = "asleep" /\ call[g].ticket \in Tickets /\ ~call[g].counted
        /\ UNCHANGED <<disk, mount_processes, round, crashes>>
    BY <1>0 DEF TimeUp, Processes, Waiting, Users
  <2>2. CASE IsRunning(call[g].ticket)
    <3> DEFINE c == IF running[call[g].ticket].cond = g THEN None
                                                        ELSE running[call[g].ticket].cond
    <3>1. StopsWaiting(g, call[g].ticket) /\ Fail(g)
      BY <2>2 DEF TimeUp
    <3>2. /\ c \in Callers \cup {Unmounter, None}
          /\ running' = [running EXCEPT ![call[g].ticket].cond = c]
      BY <1>0, <2>1, <3>1 DEF StopsWaiting, TypeOK, Threads
    <3>3. UNCHANGED mounted_images
      BY <1>0, <2>1, <3>1 DEF Fail, TypeOK
    <3>4. ThreadIs(call[g].ticket, running[call[g].ticket].at, c) /\ ThreadsTyped
      BY <1>0, <2>1, <3>2, CondIs
    <3>5. CallEnds(g) /\ CallsTyped /\ locked_images' = locked_images \ {call[g].image}
      BY <1>0, <3>1, Ends DEF Fail
    <3> QED
      BY <2>1, <2>2, <3>2, <3>3, <3>4, <3>5
  <2>3. CASE ~IsRunning(call[g].ticket)
    BY <1>0, <2>1, <2>3, GotoIs, ThreadsKept DEF TimeUp, Points
  <2> QED
    BY <2>2, <2>3
<1>2. Counts'
  BY <1>0, <1>1, CountsKept DEF Counted, Users, CallIs, CallEnds, shared
<1>3. TypeOK'
  BY <1>0, <1>1, <1>2, CountsTyped
     DEF TypeOK, CallsTyped, ThreadsTyped, disk, shared, CallIs, CallEnds, ThreadIs
<1>4. Locks'
  BY <1>0, <1>1 DEF Locks, HasLock, UnmounterHas, shared, CallIs, CallEnds, ThreadIs
<1>5. Users'
  BY <1>0, <1>1 DEF Users, CallIs, CallEnds, ThreadIs
<1>6. Processes'
  BY <1>0, <1>1 DEF Processes, Plain, IsRunning, Waiting, shared, CallIs, CallEnds, ThreadIs
<1>7. Notified'
  BY <1>0, <1>1 DEF Notified, IsRunning, shared, CallIs, CallEnds, ThreadIs
<1>8. Awake'
  BY <1>0, <1>1 DEF Awake, Processes, Waiting, IsRunning, shared, CallIs, CallEnds, ThreadIs
<1>9. Start'
  BY <1>0, <1>1 DEF Start, shared, CallIs, CallEnds, ThreadIs
<1>10. Rests'
  BY <1>0, <1>1
     DEF Rests, Settled, Listed, UnmounterHas, InUse, shared, disk, CallIs, CallEnds, ThreadIs
<1>11. Records'
  BY <1>0, <1>1 DEF Records, MountedRecorded, shared, disk, CallIs, CallEnds, ThreadIs
<1> QED
  BY <1>2, <1>3, <1>4, <1>5, <1>6, <1>7, <1>8, <1>9, <1>10, <1>11 DEF IInv

LEMMA ReadResultStep ==
    ASSUME IInv, NEW g \in Callers, ReadResult(g)
    PROVE  IInv'
<1> USE MountAssumption
<1>0. TypeOK /\ Plain /\ Locks /\ Counts /\ Users /\ Processes
     /\ Notified /\ Awake /\ Start /\ Rests /\ Records
  BY PlainTypes DEF IInv
<1>1. /\ CallsTyped /\ ThreadsTyped /\ call[g].pc = "ended" /\ ~call[g].counted
      /\ UNCHANGED <<disk, mount_processes, running, round, crashes>>
      /\ \/ /\ CallEnds(g) /\ locked_images' = locked_images \ {call[g].image}
            /\ UNCHANGED mounted_images
         \/ CallIs(g, "path", call[g].ticket, TRUE) /\ UNCHANGED locked_images /\ Count(g)
  <2>1. /\ call[g].pc = "ended" /\ ~call[g].counted
        /\ UNCHANGED <<disk, mount_processes, running, round, crashes>>
    BY <1>0 DEF ReadResult, Users
  <2>2. CASE mounttime[call[g].image] = "zero"
    <3>1. Fail(g)
      BY <2>2 DEF ReadResult
    <3>2. UNCHANGED mounted_images
      BY <1>0, <2>1, <3>1 DEF Fail, TypeOK
    <3> QED
      BY <1>0, <2>1, <3>1, <3>2, Ends, ThreadsKept DEF Fail
  <2>3. CASE mounttime[call[g].image] # "zero"
    BY <1>0, <2>1, <2>3, CountedIs, ThreadsKept DEF ReadResult, Points
  <2> QED
    BY <2>2, <2>3
<1>2. Counts'
  <2>1. CASE UNCHANGED mounted_images /\ CallEnds(g)
    BY <1>0, <1>1, <2>1, CountsKept DEF Counted, CallEnds
  <2>2. CASE CallIs(g, "path", call[g].ticket, TRUE) /\ Count(g)
    BY <1>0, <1>1, <2>2, CountsUp DEF CallIs, Plain
  <2> QED
    BY <1>1, <2>1, <2>2
<1>3. TypeOK'
  BY <1>0, <1>1, <1>2, CountsTyped
     DEF TypeOK, CallsTyped, ThreadsTyped, disk, shared, CallIs, CallEnds
<1>4. Locks'
  BY <1>0, <1>1 DEF Locks, HasLock, UnmounterHas, shared, CallIs, CallEnds
<1>5. Users'
  BY <1>0, <1>1 DEF Users, CallIs, CallEnds
<1>6. Processes'
  BY <1>0, <1>1 DEF Processes, IsRunning, Waiting, shared, CallIs, CallEnds
<1>7. Notified'
  BY <1>0, <1>1 DEF Notified, IsRunning, shared, CallIs, CallEnds
<1>8. Awake'
  BY <1>0, <1>1 DEF Awake, IsRunning, shared, CallIs, CallEnds
<1>9. Start'
  BY <1>0, <1>1 DEF Start, shared, CallIs, CallEnds
<1>10. Rests'
  BY <1>0, <1>1 DEF Rests, Settled, Listed, UnmounterHas, InUse, shared, disk, CallIs, CallEnds
<1>11. Records'
  BY <1>0, <1>1 DEF Records, MountedRecorded, shared, disk, CallIs, CallEnds
<1> QED
  BY <1>2, <1>3, <1>4, <1>5, <1>6, <1>7, <1>8, <1>9, <1>10, <1>11 DEF IInv

LEMMA FindPathStep ==
    ASSUME IInv, NEW g \in Callers, FindPath(g)
    PROVE  IInv'
<1> USE MountAssumption
<1>0. TypeOK /\ Plain /\ Locks /\ Counts /\ Users /\ Processes
     /\ Notified /\ Awake /\ Start /\ Rests /\ Records
  BY PlainTypes DEF IInv
<1>1. /\ CallsTyped /\ ThreadsTyped /\ call[g].pc = "path"
      /\ UNCHANGED <<disk, mount_processes, running, round, crashes>>
      /\ \/ /\ CallEnds(g) /\ locked_images' = locked_images \ {call[g].image}
            /\ mounted_images' = [mounted_images EXCEPT ![call[g].image] =
                                    IF call[g].counted THEN @ - 1 ELSE @]
         \/ /\ CallIs(g, "found", call[g].ticket, TRUE) /\ UNCHANGED locked_images
            /\ dir[call[g].image] # "gone"
            /\ IF call[g].counted THEN UNCHANGED mounted_images ELSE Count(g)
  <2>1. CASE dir[call[g].image] = "gone"
    BY <1>0, <2>1, Ends, ThreadsKept DEF FindPath, Fail
  <2>2. CASE dir[call[g].image] # "gone"
    BY <1>0, <2>2, CountedIs, ThreadsKept DEF FindPath, Points
  <2> QED
    BY <2>1, <2>2
<1>2. Counts'
  <2>1. CASE CallEnds(g) /\ call[g].counted
    <3>1. mounted_images' = [mounted_images EXCEPT ![call[g].image] = @ - 1]
      BY <1>1, <2>1 DEF CallEnds, CallIs
    <3> QED
      BY <1>0, <1>1, <2>1, <3>1, CountsDown DEF CallEnds, Plain
  <2>2. CASE CallEnds(g) /\ ~call[g].counted
    <3>1. UNCHANGED mounted_images
      BY <1>0, <1>1, <2>2 DEF CallEnds, CallIs, TypeOK
    <3> QED
      BY <1>0, <2>2, <3>1, CountsKept DEF Counted, CallEnds
  <2>3. CASE CallIs(g, "found", call[g].ticket, TRUE) /\ call[g].counted
    <3>1. UNCHANGED mounted_images
      BY <1>1, <2>3 DEF CallEnds, CallIs
    <3> QED
      BY <1>0, <2>3, <3>1, CountsKept DEF Counted, CallIs, Plain
  <2>4. CASE CallIs(g, "found", call[g].ticket, TRUE) /\ ~call[g].counted
    <3>1. Count(g)
      BY <1>1, <2>4 DEF CallEnds, CallIs
    <3> QED
      BY <1>0, <1>1, <2>4, <3>1, CountsUp DEF CallIs, Plain
  <2> QED
    BY <1>1, <2>1, <2>2, <2>3, <2>4
<1>3. TypeOK'
  BY <1>0, <1>1, <1>2, CountsTyped
     DEF TypeOK, CallsTyped, ThreadsTyped, disk, shared, CallIs, CallEnds
<1>4. Locks'
  BY <1>0, <1>1 DEF Locks, HasLock, UnmounterHas, shared, CallIs, CallEnds
<1>5. Users'
  BY <1>0, <1>1 DEF Users, CallIs, CallEnds
<1>6. Processes'
  BY <1>0, <1>1 DEF Processes, IsRunning, Waiting, shared, CallIs, CallEnds
<1>7. Notified'
  BY <1>0, <1>1 DEF Notified, IsRunning, shared, CallIs, CallEnds
<1>8. Awake'
  BY <1>0, <1>1 DEF Awake, IsRunning, shared, CallIs, CallEnds
<1>9. Start'
  BY <1>0, <1>1 DEF Start, shared, CallIs, CallEnds
<1>10. Rests'
  BY <1>0, <1>1 DEF Rests, Settled, Listed, UnmounterHas, InUse, shared, disk, CallIs, CallEnds
<1>11. Records'
  BY <1>0, <1>1 DEF Records, MountedRecorded, shared, disk, CallIs, CallEnds
<1> QED
  BY <1>2, <1>3, <1>4, <1>5, <1>6, <1>7, <1>8, <1>9, <1>10, <1>11 DEF IInv

-------------------------------------------------------------------------------
\* Steps of the unmounting thread that take a lock, or wait
LEMMA LockOldStep ==
    ASSUME IInv, LockOld
    PROVE  IInv'
<1> USE MountAssumption
<1>0. TypeOK /\ Plain /\ Locks /\ Counts /\ Users /\ Processes
     /\ Notified /\ Awake /\ Start /\ Rests /\ Records
  BY PlainTypes DEF IInv
<1>t. PICK i \in round.todo : LockOld!2!(i)
  BY DEF LockOld
<1>1. /\ CallsTyped /\ ThreadsTyped /\ round.pc = "unmount" /\ i \in Images /\ i \in round.todo
      /\ UNCHANGED <<disk, mounted_images, mount_processes, running, call, crashes>>
      /\ round' \in Rounds /\ round'.todo = round.todo \ {i} /\ round'.first = round.first
      /\ round'.ticket = round.ticket
      /\ \/ /\ mounted_images[i] = 0 /\ i \notin locked_images
            /\ locked_images' = locked_images \cup {i} /\ round'.pc = "locked" /\ round'.image = i
            /\ \A g \in Callers : call[g].pc = "using" => call[g].image # i
         \/ UNCHANGED locked_images /\ round'.pc = "unmount" /\ round'.image = round.image
  <2>1. /\ round.pc = "unmount" /\ i \in Images /\ i \in round.todo /\ round \in Rounds
        /\ UNCHANGED <<disk, mounted_images, mount_processes, running, call, crashes>>
    BY <1>0, <1>t DEF LockOld, Plain, TypeOK
  <2>2. CASE mounted_images[i] = 0 /\ i \notin locked_images
    <3>1. /\ locked_images' = locked_images \cup {i}
          /\ round' = [round EXCEPT !.pc = "locked", !.image = i, !.todo = @ \ {i}]
      BY <1>t, <2>2
    <3>2. /\ round' \in Rounds /\ round'.todo = round.todo \ {i} /\ round'.first = round.first
          /\ round'.ticket = round.ticket /\ round'.pc = "locked" /\ round'.image = i
      BY <2>1, <3>1 DEF Rounds
    <3>3. Counted(i) = {}
      <4>1. Counted(i) \in SUBSET Callers
        BY DEF Counted
      <4> QED
        BY <1>0, <2>1, <2>2, <4>1, FS_Subset, FS_EmptySet DEF Counts
    <3>4. \A g \in Callers : call[g].pc = "using" => call[g].image # i
      BY <1>0, <3>3 DEF Counted, Users
    <3> QED
      BY <1>0, <2>1, <2>2, <3>1, <3>2, <3>4, CallsKept, ThreadsKept
  <2>3. CASE ~(mounted_images[i] = 0 /\ i \notin locked_images)
    BY <1>0, <1>t, <2>1, <2>3, CallsKept, ThreadsKept DEF Rounds
  <2> QED
    BY <2>2, <2>3
<1>2. Counts'
  BY <1>0, <1>1, CountsKept DEF Counted, Users, CallIs, CallEnds, shared
<1>3. TypeOK'
  BY <1>0, <1>1, <1>2, CountsTyped DEF TypeOK, CallsTyped, ThreadsTyped, disk, shared
<1>4. Locks'
  BY <1>0, <1>1 DEF Locks, HasLock, UnmounterHas, shared
<1>5. Users'
  BY <1>0, <1>1 DEF Users
<1>6. Processes'
  BY <1>0, <1>1 DEF Processes, IsRunning, Waiting, shared
<1>7. Notified'
  BY <1>0, <1>1 DEF Notified, IsRunning, shared
<1>8. Awake'
  BY <1>0, <1>1 DEF Awake, IsRunning, shared
<1>9. Start'
  BY <1>0, <1>1 DEF Start, shared
<1>10. Rests'
  BY <1>0, <1>1 DEF Rests, Settled, Listed, UnmounterHas, InUse, shared, disk
<1>11. Records'
  BY <1>0, <1>1 DEF Records, MountedRecorded, shared, disk
<1> QED
  BY <1>2, <1>3, <1>4, <1>5, <1>6, <1>7, <1>8, <1>9, <1>10, <1>11 DEF IInv

LEMMA ReapWaitStep ==
    ASSUME IInv, ReapWait
    PROVE  IInv'
<1> USE MountAssumption
<1>0. TypeOK /\ Plain /\ Locks /\ Counts /\ Users /\ Processes
     /\ Notified /\ Awake /\ Start /\ Rests /\ Records
  BY PlainTypes DEF IInv
<1>t. PICK i \in round.todo : ReapWait!2!(i)
  BY DEF ReapWait
<1>1. /\ CallsTyped /\ ThreadsTyped /\ round.pc = "reap" /\ i \in Images
      /\ mount_processes[i] \in Tickets
      /\ UNCHANGED <<disk, shared, call, crashes>>
      /\ round' \in Rounds /\ round'.todo = round.todo /\ round'.first = round.first
      /\ round'.image = i /\ round'.ticket = mount_processes[i]
      /\ \/ /\ round'.pc = "asleep" /\ IsRunning(mount_processes[i])
            /\ ThreadIs(mount_processes[i], running[mount_processes[i]].at, Unmounter)
         \/ round'.pc = "woken" /\ ~IsRunning(mount_processes[i]) /\ UNCHANGED running
  <2>1. /\ round.pc = "reap" /\ i \in Images /\ round \in Rounds /\ mount_processes[i] \in Tickets
        /\ UNCHANGED <<disk, shared, call, crashes>>
    BY <1>0, <1>t DEF ReapWait, Plain, TypeOK, Awake
  <2>2. CASE IsRunning(mount_processes[i])
    BY <1>0, <1>t, <2>1, <2>2, CallsKept, CondIs DEF Rounds, WaitsOn
  <2>3. CASE ~IsRunning(mount_processes[i])
    BY <1>0, <1>t, <2>1, <2>3, CallsKept, ThreadsKept DEF Rounds
  <2> QED
    BY <2>2, <2>3
<1>2. Counts'
  BY <1>0, <1>1, CountsKept DEF Counted, Users, CallIs, CallEnds, shared
<1>3. TypeOK'
  BY <1>0, <1>1, <1>2, CountsTyped DEF TypeOK, CallsTyped, ThreadsTyped, disk, shared, ThreadIs
<1>4. Locks'
  BY <1>0, <1>1 DEF Locks, HasLock, UnmounterHas, shared, ThreadIs
<1>5. Users'
  BY <1>0, <1>1 DEF Users, ThreadIs
<1>6. Processes'
  BY <1>0, <1>1 DEF Processes, Plain, IsRunning, Waiting, shared, ThreadIs
<1>7. Notified'
  BY <1>0, <1>1 DEF Notified, IsRunning, shared, ThreadIs
<1>8. Awake'
  BY <1>0, <1>1 DEF Awake, Processes, Waiting, IsRunning, shared, ThreadIs
<1>9. Start'
  BY <1>0, <1>1 DEF Start, shared, ThreadIs
<1>10. Rests'
  BY <1>0, <1>1 DEF Rests, Settled, Listed, UnmounterHas, InUse, shared, disk, ThreadIs
<1>11. Records'
  BY <1>0, <1>1 DEF Records, MountedRecorded, shared, disk, ThreadIs
<1> QED
  BY <1>2, <1>3, <1>4, <1>5, <1>6, <1>7, <1>8, <1>9, <1>10, <1>11 DEF IInv

-------------------------------------------------------------------------------
\* The last steps of a request
LEMMA ReturnPathStep ==
    ASSUME IInv, NEW g \in Callers, ReturnPath(g)
    PROVE  IInv'
<1> USE MountAssumption
<1>0. TypeOK /\ Plain /\ Locks /\ Counts /\ Users /\ Processes
     /\ Notified /\ Awake /\ Start /\ Rests /\ Records
  BY PlainTypes DEF IInv
<1>1. CallIs(g, "using", call[g].ticket, call[g].counted) /\ CallsTyped /\ ThreadsTyped
  BY <1>0, GotoIs, ThreadsKept DEF ReturnPath, Points
<1>2. Counts'
  BY <1>0, <1>1, CountsKept DEF ReturnPath, Counted, Users, CallIs, CallEnds, shared
<1>3. TypeOK'
  BY <1>0, <1>1, <1>2, CountsTyped
     DEF ReturnPath, TypeOK, CallsTyped, ThreadsTyped, disk, shared, CallIs
<1>4. Locks'
  BY <1>0, <1>1 DEF ReturnPath, Locks, HasLock, UnmounterHas, shared, CallIs
<1>5. Users'
  BY <1>0, <1>1 DEF ReturnPath, Users, CallIs
<1>6. Processes'
  BY <1>0, <1>1 DEF ReturnPath, Processes, IsRunning, Waiting, shared, CallIs
<1>7. Notified'
  BY <1>0, <1>1 DEF ReturnPath, Notified, IsRunning, shared, CallIs
<1>8. Awake'
  BY <1>0, <1>1 DEF ReturnPath, Awake, IsRunning, shared, CallIs
<1>9. Start'
  BY <1>0, <1>1 DEF ReturnPath, Start, shared, CallIs
<1>10. Rests'
  BY <1>0, <1>1
     DEF ReturnPath, Rests, Plain, Settled, Listed, UnmounterHas, InUse, Locks, HasLock,
         Processes, shared, disk, CallIs
<1>11. Records'
  BY <1>0, <1>1 DEF ReturnPath, Records, MountedRecorded, shared, disk, CallIs
<1> QED
  BY <1>2, <1>3, <1>4, <1>5, <1>6, <1>7, <1>8, <1>9, <1>10, <1>11 DEF IInv

LEMMA EndUseStep ==
    ASSUME IInv, NEW g \in Callers, EndUse(g)
    PROVE  IInv'
<1> USE MountAssumption
<1>0. TypeOK /\ Plain /\ Locks /\ Counts /\ Users /\ Processes
     /\ Notified /\ Awake /\ Start /\ Rests /\ Records
  BY PlainTypes DEF IInv
<1>1. CallEnds(g) /\ CallsTyped /\ ThreadsTyped
  BY <1>0, Ends, ThreadsKept DEF EndUse
<1>2. Counts'
  BY <1>0, <1>1, CountsDown DEF EndUse, CallEnds, Plain, Users
<1>3. TypeOK'
  BY <1>0, <1>1, <1>2, CountsTyped
     DEF EndUse, TypeOK, CallsTyped, ThreadsTyped, disk, shared, CallEnds
<1>4. Locks'
  BY <1>0, <1>1 DEF EndUse, Locks, HasLock, UnmounterHas, shared, CallEnds
<1>5. Users'
  BY <1>0, <1>1 DEF EndUse, Users, CallEnds
<1>6. Processes'
  BY <1>0, <1>1 DEF EndUse, Processes, IsRunning, Waiting, shared, CallEnds
<1>7. Notified'
  BY <1>0, <1>1 DEF EndUse, Notified, IsRunning, shared, CallEnds
<1>8. Awake'
  BY <1>0, <1>1 DEF EndUse, Awake, IsRunning, shared, CallEnds
<1>9. Start'
  BY <1>0, <1>1 DEF EndUse, Start, shared, CallEnds
<1>10. Rests'
  BY <1>0, <1>1 DEF EndUse, Rests, Settled, Listed, UnmounterHas, InUse, shared, disk, CallEnds
<1>11. Records'
  BY <1>0, <1>1 DEF EndUse, Records, MountedRecorded, shared, disk, CallEnds
<1> QED
  BY <1>2, <1>3, <1>4, <1>5, <1>6, <1>7, <1>8, <1>9, <1>10, <1>11 DEF IInv

-------------------------------------------------------------------------------
\* The other steps of the unmounting thread
LEMMA ListOldStep ==
    ASSUME IInv, ListOld
    PROVE  IInv'
<1> USE MountAssumption
<1>0. TypeOK /\ Plain /\ Locks /\ Counts /\ Users /\ Processes
     /\ Notified /\ Awake /\ Start /\ Rests /\ Records
  BY PlainTypes DEF IInv
<1>1. CallsTyped /\ ThreadsTyped
  BY <1>0, CallsKept, ThreadsKept DEF ListOld
<1>2. Counts'
  BY <1>0, <1>1, CountsKept DEF ListOld, Counted, Users, CallIs, CallEnds, shared
<1>3. TypeOK'
  BY <1>0, <1>1, <1>2, CountsTyped
     DEF ListOld, TypeOK, CallsTyped, ThreadsTyped, Rounds, disk, shared
<1>4. Locks'
  BY <1>0, <1>1 DEF ListOld, Locks, HasLock, UnmounterHas, shared
<1>5. Users'
  BY <1>0, <1>1 DEF ListOld, Users
<1>6. Processes'
  BY <1>0, <1>1 DEF ListOld, Processes, IsRunning, Waiting, shared
<1>7. Notified'
  BY <1>0, <1>1 DEF ListOld, Notified, IsRunning, shared
<1>8. Awake'
  BY <1>0, <1>1 DEF ListOld, Awake, IsRunning, shared
<1>9. Start'
  BY <1>0, <1>1 DEF ListOld, Start, shared
<1>10. Rests'
  BY <1>0, <1>1
     DEF ListOld, Rests, Settled, Listed, UnmounterHas, InUse, Locks, HasLock, shared, disk, Start
<1>11. Records'
  BY <1>0, <1>1 DEF ListOld, Records, MountedRecorded, shared, disk
<1> QED
  BY <1>2, <1>3, <1>4, <1>5, <1>6, <1>7, <1>8, <1>9, <1>10, <1>11 DEF IInv

LEMMA UnmountStep ==
    ASSUME IInv, Unmount
    PROVE  IInv'
<1> USE MountAssumption
<1>0. TypeOK /\ Plain /\ Locks /\ Counts /\ Users /\ Processes
     /\ Notified /\ Awake /\ Start /\ Rests /\ Records
  BY PlainTypes DEF IInv
<1>1. CallsTyped /\ ThreadsTyped
  BY <1>0, CallsKept, ThreadsKept DEF Unmount
<1>2. Counts'
  BY <1>0, <1>1, CountsKept DEF Unmount, Counted, Users, CallIs, CallEnds, shared
<1>3. TypeOK'
  BY <1>0, <1>1, <1>2, CountsTyped
     DEF Unmount, TypeOK, CallsTyped, ThreadsTyped, Rounds, disk, shared
<1>4. Locks'
  BY <1>0, <1>1 DEF Unmount, Locks, HasLock, UnmounterHas, shared
<1>5. Users'
  BY <1>0, <1>1 DEF Unmount, Users
<1>6. Processes'
  BY <1>0, <1>1 DEF Unmount, Processes, IsRunning, Waiting, shared
<1>7. Notified'
  BY <1>0, <1>1 DEF Unmount, Notified, IsRunning, shared
<1>8. Awake'
  BY <1>0, <1>1 DEF Unmount, Awake, IsRunning, shared
<1>9. Start'
  BY <1>0, <1>1 DEF Unmount, Start, shared
<1>10. Rests'
  BY <1>0, <1>1 DEF Unmount, Rests, Settled, Listed, UnmounterHas, InUse, shared, disk
<1>11. Records'
  BY <1>0, <1>1
     DEF Unmount, Records, Plain, MountedRecorded, Rests, Settled, Listed, UnmounterHas, InUse,
         Locks, HasLock, IsRunning, shared, disk
<1> QED
  BY <1>2, <1>3, <1>4, <1>5, <1>6, <1>7, <1>8, <1>9, <1>10, <1>11 DEF IInv

LEMMA RecordUnmountedStep ==
    ASSUME IInv, RecordUnmounted
    PROVE  IInv'
<1> USE MountAssumption
<1>0. TypeOK /\ Plain /\ Locks /\ Counts /\ Users /\ Processes
     /\ Notified /\ Awake /\ Start /\ Rests /\ Records
  BY PlainTypes DEF IInv
<1>1. CallsTyped /\ ThreadsTyped
  BY <1>0, CallsKept, ThreadsKept DEF RecordUnmounted
<1>2. Counts'
  BY <1>0, <1>1, CountsKept DEF RecordUnmounted, Counted, Users, CallIs, CallEnds, shared
<1>3. TypeOK'
  BY <1>0, <1>1, <1>2, CountsTyped
     DEF RecordUnmounted, TypeOK, CallsTyped, ThreadsTyped, Rounds, disk, shared
<1>4. Locks'
  BY <1>0, <1>1 DEF RecordUnmounted, Locks, Plain, HasLock, UnmounterHas, shared
<1>5. Users'
  BY <1>0, <1>1 DEF RecordUnmounted, Users
<1>6. Processes'
  BY <1>0, <1>1 DEF RecordUnmounted, Processes, IsRunning, Waiting, shared
<1>7. Notified'
  BY <1>0, <1>1 DEF RecordUnmounted, Notified, IsRunning, shared
<1>8. Awake'
  BY <1>0, <1>1 DEF RecordUnmounted, Awake, IsRunning, shared
<1>9. Start'
  BY <1>0, <1>1 DEF RecordUnmounted, Start, shared
<1>10. Rests'
  BY <1>0, <1>1 DEF RecordUnmounted, Rests, Settled, Listed, UnmounterHas, InUse, shared, disk
<1>11. Records'
  BY <1>0, <1>1
     DEF RecordUnmounted, Records, Plain, MountedRecorded, Rests, Settled, Listed, UnmounterHas,
         InUse, Locks, HasLock, Processes, IsRunning, shared, disk
<1> QED
  BY <1>2, <1>3, <1>4, <1>5, <1>6, <1>7, <1>8, <1>9, <1>10, <1>11 DEF IInv

LEMMA BeginReapStep ==
    ASSUME IInv, BeginReap
    PROVE  IInv'
<1> USE MountAssumption
<1>0. TypeOK /\ Plain /\ Locks /\ Counts /\ Users /\ Processes
     /\ Notified /\ Awake /\ Start /\ Rests /\ Records
  BY PlainTypes DEF IInv
<1>1. CallsTyped /\ ThreadsTyped
  BY <1>0, CallsKept, ThreadsKept DEF BeginReap
<1>2. Counts'
  BY <1>0, <1>1, CountsKept DEF BeginReap, Counted, Users, CallIs, CallEnds, shared
<1>3. TypeOK'
  BY <1>0, <1>1, <1>2, CountsTyped
     DEF BeginReap, TypeOK, CallsTyped, ThreadsTyped, Rounds, disk, shared
<1>4. Locks'
  BY <1>0, <1>1 DEF BeginReap, Locks, HasLock, UnmounterHas, shared
<1>5. Users'
  BY <1>0, <1>1 DEF BeginReap, Users
<1>6. Processes'
  BY <1>0, <1>1 DEF BeginReap, Processes, IsRunning, Waiting, shared
<1>7. Notified'
  BY <1>0, <1>1 DEF BeginReap, Notified, IsRunning, shared
<1>8. Awake'
  BY <1>0, <1>1 DEF BeginReap, Awake, IsRunning, shared
<1>9. Start'
  BY <1>0, <1>1 DEF BeginReap, Start, shared
<1>10. Rests'
  BY <1>0, <1>1 DEF BeginReap, Rests, Settled, Listed, UnmounterHas, InUse, shared, disk
<1>11. Records'
  BY <1>0, <1>1 DEF BeginReap, Records, MountedRecorded, shared, disk
<1> QED
  BY <1>2, <1>3, <1>4, <1>5, <1>6, <1>7, <1>8, <1>9, <1>10, <1>11 DEF IInv

LEMMA ReapStep ==
    ASSUME IInv, Reap
    PROVE  IInv'
<1> USE MountAssumption
<1>0. TypeOK /\ Plain /\ Locks /\ Counts /\ Users /\ Processes
     /\ Notified /\ Awake /\ Start /\ Rests /\ Records
  BY PlainTypes DEF IInv
<1>1. CallsTyped /\ ThreadsTyped
  BY <1>0, CallsKept, ThreadsKept DEF Reap
<1>2. Counts'
  BY <1>0, <1>1, CountsKept DEF Reap, Counted, Users, CallIs, CallEnds, shared
<1>3. TypeOK'
  BY <1>0, <1>1, <1>2, CountsTyped
     DEF Reap, TypeOK, CallsTyped, ThreadsTyped, Rounds, disk, shared
<1>4. Locks'
  BY <1>0, <1>1 DEF Reap, Locks, HasLock, UnmounterHas, shared
<1>5. Users'
  BY <1>0, <1>1 DEF Reap, Users
<1>6. Processes'
  BY <1>0, <1>1 DEF Reap, Processes, IsRunning, Waiting, shared, Awake
<1>7. Notified'
  BY <1>0, <1>1 DEF Reap, Notified, IsRunning, shared
<1>8. Awake'
  BY <1>0, <1>1 DEF Reap, Awake, IsRunning, shared
<1>9. Start'
  BY <1>0, <1>1 DEF Reap, Start, shared
<1>10. Rests'
  BY <1>0, <1>1 DEF Reap, Rests, Settled, Listed, UnmounterHas, InUse, shared, disk
<1>11. Records'
  BY <1>0, <1>1 DEF Reap, Records, MountedRecorded, shared, disk
<1> QED
  BY <1>2, <1>3, <1>4, <1>5, <1>6, <1>7, <1>8, <1>9, <1>10, <1>11 DEF IInv

LEMMA EndRoundStep ==
    ASSUME IInv, EndRound
    PROVE  IInv'
<1> USE MountAssumption
<1>0. TypeOK /\ Plain /\ Locks /\ Counts /\ Users /\ Processes
     /\ Notified /\ Awake /\ Start /\ Rests /\ Records
  BY PlainTypes DEF IInv
<1>1. CallsTyped /\ ThreadsTyped
  BY <1>0, CallsKept, ThreadsKept DEF EndRound
<1>2. Counts'
  BY <1>0, <1>1, CountsKept DEF EndRound, Counted, Users, CallIs, CallEnds, shared
<1>3. TypeOK'
  BY <1>0, <1>1, <1>2, CountsTyped
     DEF EndRound, TypeOK, CallsTyped, ThreadsTyped, Rounds, disk, shared
<1>4. Locks'
  BY <1>0, <1>1 DEF EndRound, Locks, HasLock, UnmounterHas, shared
<1>5. Users'
  BY <1>0, <1>1 DEF EndRound, Users
<1>6. Processes'
  BY <1>0, <1>1 DEF EndRound, Processes, IsRunning, Waiting, shared
<1>7. Notified'
  BY <1>0, <1>1 DEF EndRound, Notified, IsRunning, shared
<1>8. Awake'
  BY <1>0, <1>1 DEF EndRound, Awake, IsRunning, shared
<1>9. Start'
  BY <1>0, <1>1 DEF EndRound, Start, shared
<1>10. Rests'
  BY <1>0, <1>1 DEF EndRound, Rests, Settled, Listed, UnmounterHas, InUse, shared, disk
<1>11. Records'
  BY <1>0, <1>1 DEF EndRound, Records, MountedRecorded, shared, disk
<1> QED
  BY <1>2, <1>3, <1>4, <1>5, <1>6, <1>7, <1>8, <1>9, <1>10, <1>11 DEF IInv

-------------------------------------------------------------------------------
\* Time and crashes
LEMMA AgeStep ==
    ASSUME IInv, NEW i \in Images, Age(i)
    PROVE  IInv'
<1> USE MountAssumption
<1>0. TypeOK /\ Plain /\ Locks /\ Counts /\ Users /\ Processes
     /\ Notified /\ Awake /\ Start /\ Rests /\ Records
  BY PlainTypes DEF IInv
<1>1. CallsTyped /\ ThreadsTyped
  BY <1>0, CallsKept, ThreadsKept DEF Age
<1>2. Counts'
  BY <1>0, <1>1, CountsKept DEF Age, Counted, Users, CallIs, CallEnds, shared
<1>3. TypeOK'
  BY <1>0, <1>1, <1>2, CountsTyped DEF Age, TypeOK, CallsTyped, ThreadsTyped, disk, shared
<1>4. Locks'
  BY <1>0, <1>1 DEF Age, Locks, HasLock, UnmounterHas, shared
<1>5. Users'
  BY <1>0, <1>1 DEF Age, Users
<1>6. Processes'
  BY <1>0, <1>1 DEF Age, Processes, IsRunning, Waiting, shared
<1>7. Notified'
  BY <1>0, <1>1 DEF Age, Notified, IsRunning, shared
<1>8. Awake'
  BY <1>0, <1>1 DEF Age, Awake, IsRunning, shared
<1>9. Start'
  BY <1>0, <1>1 DEF Age, Start, shared
<1>10. Rests'
  BY <1>0, <1>1 DEF Age, Rests, Settled, Listed, UnmounterHas, InUse, shared, disk
<1>11. Records'
  BY <1>0, <1>1 DEF Age, Records, MountedRecorded, shared, disk
<1> QED
  BY <1>2, <1>3, <1>4, <1>5, <1>6, <1>7, <1>8, <1>9, <1>10, <1>11 DEF IInv

LEMMA CrashStep ==
    ASSUME IInv, Crash
    PROVE  IInv'
<1> USE MountAssumption
<1>0. TypeOK /\ Plain /\ Processes /\ Records
  BY PlainTypes DEF IInv
<1>1. /\ dir' \in [Images -> {"gone", "made", "mounted"}]
      /\ \A i \in Images :
            dir[i] = dir'[i] \/ \E t \in Tickets : running[t].at = "helper" /\ running[t].image = i
      /\ left' = {i \in left : dir'[i] = "mounted"}
      /\ UNCHANGED mounttime /\ crashes' = crashes + 1
  BY DEF Crash, Mounting
<1>2. /\ locked_images' = {} /\ mounted_images' = [i \in Images |-> 0]
      /\ mount_processes' = [i \in Images |-> None]
      /\ running' = [t \in Tickets |-> NotRunning]
      /\ call' = [g \in Callers |-> Idle]
      /\ round' = FirstRound
  BY DEF Crash
<1>3. /\ \A t \in Tickets : running'[t].at = "none" /\ running'[t].cond = None
      /\ \A g \in Callers : /\ call'[g].pc = "idle" /\ call'[g].image = None
                            /\ ~call'[g].counted /\ call'[g].ticket = None
      /\ round'.pc = "list" /\ round'.todo = {} /\ round'.image = None /\ round'.ticket = None
  BY <1>2 DEF NotRunning, Idle, FirstRound
<1>4. TypeOK'
  BY <1>0, <1>1, <1>2 DEF TypeOK, Calls, Points, Rounds, Threads, NotRunning, Idle, FirstRound
<1>5. Counts'
  <2>1. \A i \in Images : Counted(i)' = {}
    BY <1>3 DEF Counted
  <2> QED
    BY <1>2, <2>1, FS_EmptySet DEF Counts
<1>6. Locks' /\ Users' /\ Processes' /\ Notified' /\ Awake' /\ Start'
  BY <1>2, <1>3 DEF Locks, HasLock, UnmounterHas, Users, Processes, IsRunning, Waiting, Notified,
                    Awake, Start
<1>7. Rests'
  BY <1>2, <1>3 DEF Rests, Settled, Listed, UnmounterHas, InUse
<1>8. Records'
  <2>1. MountedRecorded'
    BY <1>0, <1>1 DEF Records, MountedRecorded
  <2>2. crashes' > 0
    BY <1>0, <1>1 DEF TypeOK
  <2> QED
    BY <1>3, <2>1, <2>2 DEF Records
<1> QED
  BY <1>4, <1>5, <1>6, <1>7, <1>8 DEF IInv

-------------------------------------------------------------------------------
\* The invariant holds at the start, and is kept.
LEMMA InitIInv ==
    Init => IInv
<1> SUFFICES ASSUME Init PROVE IInv
  OBVIOUS
<1> USE MountAssumption
<1>1. /\ \A t \in Tickets : running[t].at = "none" /\ running[t].cond = None
      /\ \A g \in Callers : /\ call[g].pc = "idle" /\ call[g].image = None
                            /\ ~call[g].counted /\ call[g].ticket = None
      /\ round.pc = "list" /\ round.todo = {} /\ round.image = None /\ round.ticket = None
      /\ mount_processes = [i \in Images |-> None]
      /\ mounttime = [i \in Images |-> "zero"] /\ dir = [i \in Images |-> "gone"]
  BY DEF Init, NotRunning, Idle, FirstRound
<1>2. TypeOK
  BY DEF Init, TypeOK, Calls, Points, Rounds, Threads, NotRunning, Idle, FirstRound
<1>3. Counts
  <2>1. \A i \in Images : Counted(i) = {}
    BY <1>1 DEF Counted
  <2> QED
    BY <2>1, FS_EmptySet DEF Init, Counts
<1>4. Locks /\ Users /\ Processes /\ Notified /\ Awake /\ Start
  BY <1>1 DEF Locks, HasLock, UnmounterHas, Users, Processes, IsRunning, Waiting, Notified,
              Awake, Start
<1>5. Rests /\ Records
  BY <1>1 DEF Rests, Settled, Listed, UnmounterHas, InUse, Records, MountedRecorded
<1> QED
  BY <1>2, <1>3, <1>4, <1>5 DEF IInv

LEMMA StutterStep ==
    ASSUME IInv, UNCHANGED vars
    PROVE  IInv'
<1>1. UNCHANGED <<mounttime, dir, left, locked_images, mounted_images, mount_processes, running,
                  call, round, crashes>>
  BY DEF vars, disk, shared
<1>2. Counts'
  <2>1. \A i \in Images : Counted(i)' = Counted(i)
    BY <1>1 DEF Counted
  <2> QED
    BY <1>1, <2>1, CountsKept DEF IInv
<1>3. TypeOK' /\ Locks' /\ Users' /\ Processes' /\ Notified' /\ Awake' /\ Start'
  BY <1>1 DEF IInv, TypeOK, Locks, HasLock, UnmounterHas, Users, Processes, IsRunning, Waiting,
              Notified, Awake, Start
<1>4. Rests' /\ Records'
  BY <1>1 DEF IInv, Rests, Settled, Listed, UnmounterHas, InUse, Records, MountedRecorded
<1> QED
  BY <1>2, <1>3, <1>4 DEF IInv

LEMMA NextIInv ==
    IInv /\ [Next]_vars => IInv'
<1> SUFFICES ASSUME IInv, [Next]_vars PROVE IInv'
  OBVIOUS
<1>1. ASSUME NEW t \in Tickets, MountThread(t) PROVE IInv'
  BY <1>1, StartMountStep, MakeMountpointStep, MountOverStep, EndHelperStep,
     MountFailedStep, EndThreadStep
     DEF MountThread
<1>2. ASSUME NEW g \in Callers, Caller(g) PROVE IInv'
  BY <1>2, LockImageStep, LockBusyStep, LockTimeUpStep, ReadMounttimeStep, FindProcessStep,
     JoinProcessStep, StartProcessStep, WaitForStep, TimeUpStep, ForgetProcessStep,
     ReadResultStep, FindPathStep, ReturnPathStep, EndUseStep, CallStep
     DEF Caller, GoesOn, UsesProcesses
<1>3. CASE UnmountThread
  BY <1>3, ListOldStep, LockOldStep, UnmountStep, RecordUnmountedStep, BeginReapStep,
     ReapWaitStep, ReapStep, EndRoundStep DEF UnmountThread
<1>4. ASSUME NEW i \in Images, Age(i) PROVE IInv'
  BY <1>4, AgeStep
<1> QED
  BY <1>1, <1>2, <1>3, <1>4, CrashStep, StutterStep DEF Next

\* It holds in every reachable state.
LEMMA Invariance == Spec => []IInv
BY InitIInv, NextIInv, PTL DEF Spec

\* The database, the mountpoints, the maps of ImageMount, the pool's tickets and what each thread
\* is doing keep their types, and mounted_images never falls below zero.
THEOREM TypeCorrect == Spec => []TypeOK
<1>1. IInv => TypeOK
  BY DEF IInv
<1> QED
  BY <1>1, Invariance, PTL

\* What a request uses is mounted, and neither unmounted nor mounted once more
\* (incrImageMounted, lockImage and mount_processes).
THEOREM InUseAlwaysLeftAlone == Spec => []InUseLeftAlone
<1>1. IInv => InUseLeftAlone
  <2> SUFFICES ASSUME IInv, NEW i \in Images, InUse(i)
               PROVE  /\ dir[i] = "mounted" \/ (dir[i] = "made" /\ crashes > 0)
                      /\ Mounting(i) = {}
                      /\ ~(round.pc \in {"locked", "record"} /\ round.image = i)
    BY DEF InUseLeftAlone
  <2> USE MountAssumption
  <2>1. mount_processes[i] = None /\ ~UnmounterHas(i)
    BY DEF IInv, Rests, Settled
  <2>2. \A t \in Tickets : ~(IsRunning(t) /\ running[t].image = i)
    BY <2>1 DEF IInv, Processes
  <2>3. dir[i] \in {"made", "mounted"}
    BY DEF IInv, TypeOK, Records, InUse
  <2>4. dir[i] = "made" => crashes > 0
    BY <2>2 DEF IInv, Records, IsRunning
  <2> QED
    BY <2>1, <2>2, <2>3, <2>4 DEF Mounting, UnmounterHas
<1> QED
  BY <1>1, Invariance, PTL

\* What is mounted is recorded as mounted, before it is and until it no longer is
\* (setImageMounted, setImageUnmounted), across crashes.
THEOREM MountsAlwaysRecorded == Spec => []MountedRecorded
<1>1. IInv => MountedRecorded
  BY DEF IInv, Records
<1> QED
  BY <1>1, Invariance, PTL
===============================================================================
