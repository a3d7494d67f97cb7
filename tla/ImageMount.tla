----------------------------- MODULE ImageMount -----------------------------
(***************************************************************************)
(* Images that are mounted for requests of the web interface and unmounted *)
(* when nobody has used them for a while.  A request takes the lock of the *)
(* image, has a thread of the pool mount it, waits for the ticket of that  *)
(* thread, and counts as a user until it is answered.  One thread unmounts *)
(* what is old, and waits for the tickets of mounts that nobody collected. *)
(*                                                                         *)
(* A step is what a thread does between two acquisitions of a mutex, or    *)
(* one statement of the database, or one call of the mount helper.         *)
(***************************************************************************)
EXTENDS Naturals, FiniteSets

CONSTANTS Images,
          Callers,     \* threads that call get_mount_path
          Tickets,     \* of the thread pool
          Unmounter,   \* the thread of ImageMount::operator()
          None,
          MaxCrashes   \* bound on restarts of the server

ASSUME MountAssumption ==
    /\ IsFiniteSet(Callers) /\ Unmounter \notin Callers
    /\ None \notin Images \cup Callers \cup Tickets \cup {Unmounter}
    /\ MaxCrashes \in Nat

VARIABLES mounttime,        \* of the image in the database
          dir,              \* the mountpoint
          left,             \* images the helper failed to unmount (history)
          locked_images, mounted_images, mount_processes,
          running,          \* the pool's tickets, with the threads that have them
          call,             \* what each caller is doing
          round,            \* what the unmounting thread is doing
          crashes

disk == <<mounttime, dir, left>>
shared == <<locked_images, mounted_images, mount_processes>>
vars == <<disk, shared, running, call, round, crashes>>

Idle == [pc |-> "idle", image |-> None, do_mount |-> FALSE, patient |-> FALSE, ticket |-> None,
         counted |-> FALSE]

\* The round after a start takes every image for old.
FirstRound == [pc |-> "list", first |-> TRUE, todo |-> {}, image |-> None, ticket |-> None]

NotRunning == [image |-> None, at |-> "none", cond |-> None]

Init ==
    /\ mounttime = [i \in Images |-> "zero"]
    /\ dir = [i \in Images |-> "gone"]
    /\ left = {}
    /\ locked_images = {}
    /\ mounted_images = [i \in Images |-> 0]
    /\ mount_processes = [i \in Images |-> None]
    /\ running = [t \in Tickets |-> NotRunning]
    /\ call = [g \in Callers |-> Idle]
    /\ round = FirstRound
    /\ crashes = 0

Points == {"idle", "lock", "busy", "read", "unmounted", "recorded", "mount", "wait",
           "asleep", "woken", "ended", "path", "found", "using"}

Calls == [pc : Points,
          image : Images \cup {None}, do_mount : BOOLEAN, patient : BOOLEAN,
          ticket : Tickets \cup {None}, counted : BOOLEAN]

Rounds == [pc : {"list", "unmount", "locked", "record", "reap", "asleep", "woken"},
           first : BOOLEAN, todo : SUBSET Images, image : Images \cup {None},
           ticket : Tickets \cup {None}]

Threads == [image : Images \cup {None}, at : {"none", "start", "helper", "failed", "end"},
            cond : Callers \cup {Unmounter, None}]

\* Every part of the state has its type; a call that is not idle is for an image.
TypeOK ==
    /\ mounttime \in [Images -> {"zero", "new", "old"}]
    /\ dir \in [Images -> {"gone", "made", "mounted"}]
    /\ left \subseteq Images
    /\ locked_images \subseteq Images
    /\ mounted_images \in [Images -> Nat]
    /\ mount_processes \in [Images -> Tickets \cup {None}]
    /\ running \in [Tickets -> Threads]
    /\ call \in [Callers -> Calls]
    /\ round \in Rounds
    /\ crashes \in Nat
    /\ \A t \in Tickets : running[t].at # "none" => running[t].image \in Images
    /\ \A g \in Callers : call[g].pc # "idle" => call[g].image \in Images
    /\ round.pc \in {"locked", "record", "asleep", "woken"} => round.image \in Images

-------------------------------------------------------------------------------
(***************************************************************************)
(* The thread pool.  A ticket is in "running" from execute until its       *)
(* thread has ended; with it goes the condition of the one who waits, of   *)
(* whom there is one at a time: whoever waits last replaces the others.    *)
(***************************************************************************)
Waiters == Callers \cup {Unmounter}

IsRunning(t) == running[t].at # "none"

\* Tickets are counted up, so that a new one is none that anybody knows.
Known(t) == \/ IsRunning(t)
            \/ \E i \in Images : mount_processes[i] = t
            \/ \E g \in Callers : call[g].ticket = t

Execute(i, t) ==
    /\ ~Known(t)
    /\ running' = [running EXCEPT ![t] = [image |-> i, at |-> "start", cond |-> None]]

WaitsOn(w, t) == running' = [running EXCEPT ![t].cond = w]

StopsWaiting(w, t) ==
    running' = [running EXCEPT ![t].cond = IF @ = w THEN None ELSE @]

Mounting(i) == {t \in Tickets : IsRunning(t) /\ running[t].image = i}

-------------------------------------------------------------------------------
(* The thread that mounts. *)

\* slip: only the request that gets the path records that the image is mounted
StartMountUnrecorded(t) ==
    /\ running[t].at = "start"
    /\ running' = [running EXCEPT ![t].at = "helper"]
    /\ UNCHANGED <<disk, shared, call, round, crashes>>

\* The mount is recorded before it is made.
StartMount(t) ==
    /\ running[t].at = "start"
    /\ mounttime' = [mounttime EXCEPT ![running[t].image] = "new"]
    /\ running' = [running EXCEPT ![t].at = "helper"]
    /\ UNCHANGED <<dir, left, shared, call, round, crashes>>

\* The helper unmounts what is mounted, makes the directory ...
MakeMountpoint(t) ==
    /\ running[t].at = "helper" /\ dir[running[t].image] # "made"
    /\ dir' = [dir EXCEPT ![running[t].image] = "made"]
    /\ left' = left \ {running[t].image}
    /\ UNCHANGED <<mounttime, shared, running, call, round, crashes>>

\* ... which it does not take for a failure if it cannot (the image is in "left"): it mounts over
\* what is there, or fails and cannot remove the directory ...
MountOver(t) ==
    /\ running[t].at = "helper" /\ dir[running[t].image] = "mounted"
    /\ \E at \in {"end", "failed"} : running' = [running EXCEPT ![t].at = at]
    /\ left' = left \cup {running[t].image}
    /\ UNCHANGED <<mounttime, dir, shared, call, round, crashes>>

\* ... and mounts the image there, or fails and removes the directory.
EndHelper(t) ==
    /\ running[t].at = "helper" /\ dir[running[t].image] = "made"
    /\ \/ /\ dir' = [dir EXCEPT ![running[t].image] = "mounted"]
          /\ running' = [running EXCEPT ![t].at = "end"]
       \/ /\ dir' = [dir EXCEPT ![running[t].image] = "gone"]
          /\ running' = [running EXCEPT ![t].at = "failed"]
    /\ UNCHANGED <<mounttime, left, shared, call, round, crashes>>

MountFailed(t) ==
    /\ running[t].at = "failed"
    /\ mounttime' = [mounttime EXCEPT ![running[t].image] = "zero"]
    /\ running' = [running EXCEPT ![t].at = "end"]
    /\ UNCHANGED <<dir, left, shared, call, round, crashes>>

\* getRunnable notifies the condition it finds and forgets the ticket.
EndThread(t) ==
    /\ running[t].at = "end"
    /\ running' = [running EXCEPT ![t] = NotRunning]
    /\ call' = [g \in Callers |-> IF running[t].cond = g THEN [call[g] EXCEPT !.pc = "woken"]
                                                          ELSE call[g]]
    /\ round' = IF running[t].cond = Unmounter THEN [round EXCEPT !.pc = "woken"] ELSE round
    /\ UNCHANGED <<disk, shared, crashes>>

MountThread(t) ==
    \/ StartMount(t) \/ MakeMountpoint(t) \/ MountOver(t) \/ EndHelper(t)
    \/ MountFailed(t) \/ EndThread(t)

-------------------------------------------------------------------------------
(* A request: get_mount_path. *)

Goto(g, pc) == call' = [call EXCEPT ![g].pc = pc]

\* The unmounting thread holds mount_processes_mutex while it waits for tickets.
ProcessesFree == round.pc \notin {"reap", "asleep", "woken"}

\* Requests are answered only after the start-up, with which the first round begins.  A page of
\* the web interface sets a limit of ten seconds, a download sets none.
Call(g, i) ==
    /\ call[g].pc = "idle" /\ ~round.first
    /\ \E d, patient \in BOOLEAN :
          call' = [call EXCEPT ![g] = [Idle EXCEPT !.pc = "lock", !.image = i, !.do_mount = d,
                                                   !.patient = patient]]
    /\ UNCHANGED <<disk, shared, running, round, crashes>>

LockImage(g) ==
    /\ call[g].pc \in {"lock", "busy"} /\ call[g].image \notin locked_images
    /\ locked_images' = locked_images \cup {call[g].image}
    /\ Goto(g, "read")
    /\ UNCHANGED <<disk, mounted_images, mount_processes, running, round, crashes>>

\* Another has the lock: the caller looks again and again ...
LockBusy(g) ==
    /\ call[g].pc = "lock" /\ call[g].image \in locked_images
    /\ Goto(g, "busy")
    /\ UNCHANGED <<disk, shared, running, round, crashes>>

\* ... and gives up when its time is over, if it has a limit.
LockTimeUp(g) ==
    /\ call[g].pc = "busy" /\ ~call[g].patient
    /\ call' = [call EXCEPT ![g] = Idle]
    /\ UNCHANGED <<disk, shared, running, round, crashes>>

\* slip: the image is unlocked only where the path is returned
FailLocked(g) ==
    /\ call' = [call EXCEPT ![g] = Idle]
    /\ mounted_images' = [mounted_images EXCEPT ![call[g].image] = IF call[g].counted THEN @ - 1 ELSE @]
    /\ UNCHANGED locked_images

\* The answer is empty: ScopedLockImage and ScopedMountedImage go out of scope.
Fail(g) ==
    /\ call' = [call EXCEPT ![g] = Idle]
    /\ locked_images' = locked_images \ {call[g].image}
    /\ mounted_images' = [mounted_images EXCEPT ![call[g].image] = IF call[g].counted THEN @ - 1 ELSE @]

\* The time of the last use is read before the mutex of the processes is taken.
ReadMounttime(g) ==
    /\ call[g].pc = "read"
    /\ Goto(g, IF mounttime[call[g].image] = "zero" THEN "unmounted" ELSE "recorded")
    /\ UNCHANGED <<disk, shared, running, round, crashes>>

HasProcess(g) == mount_processes[call[g].image] # None

FindProcess(g) ==
    /\ call[g].pc \in {"unmounted", "recorded"} /\ ProcessesFree
    /\ IF call[g].pc = "recorded" /\ ~HasProcess(g)
       THEN Goto(g, "path") /\ UNCHANGED shared
       ELSE IF call[g].do_mount
            THEN Goto(g, "mount") /\ UNCHANGED shared
            ELSE Fail(g) /\ UNCHANGED mount_processes
    /\ UNCHANGED <<disk, running, round, crashes>>

\* mount_image_int: joins the thread that is mounting the image, or starts one.
JoinProcess(g) ==
    /\ call[g].pc = "mount" /\ ProcessesFree /\ HasProcess(g)
    /\ call' = [call EXCEPT ![g].pc = "wait", ![g].ticket = mount_processes[call[g].image]]
    /\ UNCHANGED <<disk, shared, running, round, crashes>>

StartProcess(g) ==
    /\ call[g].pc = "mount" /\ ProcessesFree /\ ~HasProcess(g)
    /\ \E t \in Tickets :
          /\ Execute(call[g].image, t)
          /\ mount_processes' = [mount_processes EXCEPT ![call[g].image] = t]
          /\ call' = [call EXCEPT ![g].pc = "wait", ![g].ticket = t]
    /\ UNCHANGED <<disk, locked_images, mounted_images, round, crashes>>

WaitFor(g) ==
    /\ call[g].pc = "wait"
    /\ IF IsRunning(call[g].ticket)
       THEN WaitsOn(g, call[g].ticket) /\ Goto(g, "asleep")
       ELSE Goto(g, "woken") /\ UNCHANGED running
    /\ UNCHANGED <<disk, shared, round, crashes>>

\* slip: the limit is not handed on to the pool
TimeUpNever(g) ==
    /\ FALSE
    /\ UNCHANGED vars

\* slip: a caller whose time is over takes its process out of the map
TimeUpForgets(g) ==
    /\ ProcessesFree
    /\ call[g].pc = "asleep" /\ ~call[g].patient
    /\ IF IsRunning(call[g].ticket)
       THEN StopsWaiting(g, call[g].ticket) /\ Fail(g)
       ELSE Goto(g, "woken") /\ UNCHANGED <<running, locked_images, mounted_images>>
    /\ mount_processes' = [mount_processes EXCEPT ![call[g].image] = None]
    /\ UNCHANGED <<disk, round, crashes>>

\* The wait ends with its time: the thread goes on mounting without the caller.
TimeUp(g) ==
    /\ call[g].pc = "asleep" /\ ~call[g].patient
    /\ IF IsRunning(call[g].ticket)
       THEN StopsWaiting(g, call[g].ticket) /\ Fail(g)
       ELSE Goto(g, "woken") /\ UNCHANGED <<running, locked_images, mounted_images>>
    /\ UNCHANGED <<disk, mount_processes, round, crashes>>

ForgetProcess(g) ==
    /\ call[g].pc = "woken" /\ ProcessesFree
    /\ mount_processes' = [mount_processes EXCEPT ![call[g].image] =
                             IF @ = call[g].ticket THEN None ELSE @]
    /\ call' = [call EXCEPT ![g].pc = "ended", ![g].ticket = None]
    /\ UNCHANGED <<disk, locked_images, mounted_images, running, round, crashes>>

Count(g) == mounted_images' = [mounted_images EXCEPT ![call[g].image] = @ + 1]

ReadResult(g) ==
    /\ call[g].pc = "ended"
    /\ IF mounttime[call[g].image] = "zero"
       THEN Fail(g)
       ELSE /\ call' = [call EXCEPT ![g].pc = "path", ![g].counted = TRUE]
            /\ Count(g) /\ UNCHANGED locked_images
    /\ UNCHANGED <<disk, mount_processes, running, round, crashes>>

\* Whether there is a path is what the file system says, not the database.
FindPath(g) ==
    /\ call[g].pc = "path"
    /\ IF dir[call[g].image] = "gone"
       THEN Fail(g)
       ELSE /\ call' = [call EXCEPT ![g].pc = "found", ![g].counted = TRUE]
            /\ IF call[g].counted THEN UNCHANGED mounted_images ELSE Count(g)
            /\ UNCHANGED locked_images
    /\ UNCHANGED <<disk, mount_processes, running, round, crashes>>

ReturnPath(g) ==
    /\ call[g].pc = "found"
    /\ mounttime' = [mounttime EXCEPT ![call[g].image] = "new"]
    /\ locked_images' = locked_images \ {call[g].image}
    /\ Goto(g, "using")
    /\ UNCHANGED <<dir, left, mounted_images, mount_processes, running, round, crashes>>

\* The request is answered: decrImageMounted.
EndUse(g) ==
    /\ call[g].pc = "using"
    /\ mounted_images' = [mounted_images EXCEPT ![call[g].image] = @ - 1]
    /\ call' = [call EXCEPT ![g] = Idle]
    /\ UNCHANGED <<disk, locked_images, mount_processes, running, round, crashes>>

\* What it does with mount_processes, and what it does without
UsesProcesses(g) == FindProcess(g) \/ JoinProcess(g) \/ StartProcess(g) \/ ForgetProcess(g)

GoesOn(g) ==
    \/ LockImage(g) \/ LockBusy(g) \/ LockTimeUp(g) \/ ReadMounttime(g) \/ WaitFor(g)
    \/ TimeUp(g) \/ ReadResult(g) \/ FindPath(g) \/ ReturnPath(g)

Caller(g) == GoesOn(g) \/ UsesProcesses(g) \/ EndUse(g) \/ \E i \in Images : Call(g, i)

-------------------------------------------------------------------------------
(* The thread that unmounts. *)

ListOld ==
    /\ round.pc = "list"
    /\ round' = [round EXCEPT !.pc = "unmount", !.first = FALSE,
                   !.todo = {i \in Images : \/ mounttime[i] = "old"
                                            \/ round.first /\ mounttime[i] = "new"}]
    /\ UNCHANGED <<disk, shared, running, call, crashes>>

\* An image is left alone while somebody uses it or has it locked.
LockOld ==
    /\ round.pc = "unmount"
    /\ \E i \in round.todo :
          IF mounted_images[i] = 0 /\ i \notin locked_images
          THEN /\ locked_images' = locked_images \cup {i}
               /\ round' = [round EXCEPT !.pc = "locked", !.image = i, !.todo = @ \ {i}]
          ELSE /\ round' = [round EXCEPT !.todo = @ \ {i}]
               /\ UNCHANGED locked_images
    /\ UNCHANGED <<disk, mounted_images, mount_processes, running, call, crashes>>

\* The helper unmounts the image, or fails.
Unmount ==
    /\ round.pc = "locked"
    /\ round' = [round EXCEPT !.pc = "record"]
    /\ \/ dir' = [dir EXCEPT ![round.image] = "gone"] /\ UNCHANGED left
       \/ /\ dir[round.image] = "mounted"
          /\ left' = left \cup {round.image} /\ UNCHANGED dir
    /\ UNCHANGED <<mounttime, shared, running, call, crashes>>

\* Either way the image is no longer taken for mounted.
RecordUnmounted ==
    /\ round.pc = "record"
    /\ mounttime' = [mounttime EXCEPT ![round.image] = "zero"]
    /\ locked_images' = locked_images \ {round.image}
    /\ round' = [round EXCEPT !.pc = "unmount", !.image = None]
    /\ UNCHANGED <<dir, left, mounted_images, mount_processes, running, call, crashes>>

\* Then it takes mount_processes_mutex and waits for each of the threads, without a limit.
BeginReap ==
    /\ round.pc = "unmount" /\ round.todo = {}
    /\ round' = [round EXCEPT !.pc = "reap",
                   !.todo = {i \in Images : mount_processes[i] # None}]
    /\ UNCHANGED <<disk, shared, running, call, crashes>>

ReapWait ==
    /\ round.pc = "reap"
    /\ \E i \in round.todo :
          LET t == mount_processes[i]
          IN /\ round' = [round EXCEPT !.pc = IF IsRunning(t) THEN "asleep" ELSE "woken",
                                       !.image = i, !.ticket = t]
             /\ IF IsRunning(t) THEN WaitsOn(Unmounter, t) ELSE UNCHANGED running
    /\ UNCHANGED <<disk, shared, call, crashes>>

Reap ==
    /\ round.pc = "woken"
    /\ mount_processes' = [mount_processes EXCEPT ![round.image] = None]
    /\ round' = [round EXCEPT !.pc = "reap", !.todo = @ \ {round.image}, !.image = None,
                              !.ticket = None]
    /\ UNCHANGED <<disk, locked_images, mounted_images, running, call, crashes>>

EndRound ==
    /\ round.pc = "reap" /\ round.todo = {}
    /\ round' = [round EXCEPT !.pc = "list"]
    /\ UNCHANGED <<disk, shared, running, call, crashes>>

UnmountThread ==
    ListOld \/ LockOld \/ Unmount \/ RecordUnmounted \/ BeginReap \/ ReapWait \/ Reap \/ EndRound

-------------------------------------------------------------------------------
\* An hour passes after the last use: a mount takes less, and so does a round of the unmounting
\* thread, which collects the ended ones, and what a request does beside waiting.
Age(i) ==
    /\ mounttime[i] = "new" /\ Mounting(i) = {} /\ mount_processes[i] = None
    /\ \A g \in Callers : call[g].image = i => call[g].pc \in {"lock", "busy", "asleep", "using"}
    /\ mounttime' = [mounttime EXCEPT ![i] = "old"]
    /\ UNCHANGED <<dir, left, shared, running, call, round, crashes>>

\* The server ends and starts again; a helper that was mounting goes on alone, or ends with it.
Crash ==
    /\ crashes < MaxCrashes
    /\ crashes' = crashes + 1
    /\ \E d \in [Images -> {"gone", "made", "mounted"}] :
          /\ \A i \in Images :
                dir[i] = d[i] \/ \E t \in Mounting(i) : running[t].at = "helper"
          /\ dir' = d
    /\ left' = {i \in left : dir'[i] = "mounted"}
    /\ locked_images' = {}
    /\ mounted_images' = [i \in Images |-> 0]
    /\ mount_processes' = [i \in Images |-> None]
    /\ running' = [t \in Tickets |-> NotRunning]
    /\ call' = [g \in Callers |-> Idle]
    /\ round' = FirstRound
    /\ UNCHANGED mounttime

Next ==
    \/ \E t \in Tickets : MountThread(t)
    \/ \E g \in Callers : Caller(g)
    \/ UnmountThread
    \/ \E i \in Images : Age(i)
    \/ Crash

Fairness ==
    /\ \A t \in Tickets : WF_vars(MountThread(t))
    /\ \A g \in Callers : WF_vars(GoesOn(g)) /\ SF_vars(UsesProcesses(g))
    /\ WF_vars(UnmountThread)
    /\ \A i \in Images : WF_vars(Age(i))

Spec == Init /\ [][Next]_vars /\ Fairness

-------------------------------------------------------------------------------
(***************************************************************************)
(* What a request uses is mounted, and left alone: no thread of an earlier *)
(* request that ran out of time mounts it once more below, and the other   *)
(* thread does not unmount it, however old its list is.  After a crash in  *)
(* the middle of a mount the directory may be empty (get_mount_path asks   *)
(* the file system only whether it is there).                              *)
(***************************************************************************)
InUse(i) == \E g \in Callers : call[g].pc = "using" /\ call[g].image = i

InUseLeftAlone ==
    \A i \in Images : InUse(i) =>
        /\ dir[i] = "mounted" \/ (dir[i] = "made" /\ crashes > 0)
        /\ Mounting(i) = {}
        /\ ~(round.pc \in {"locked", "record"} /\ round.image = i)

(***************************************************************************)
(* A mounted image is known to the database (setImageMounted before the    *)
(* mount, setImageUnmounted after the unmount), at every moment, so that   *)
(* it is found and unmounted also after a crash; but for one that the      *)
(* helper could not unmount, which nobody will try again.                  *)
(***************************************************************************)
MountedRecorded ==
    \A i \in Images : dir[i] = "mounted" /\ i \notin left => mounttime[i] # "zero"

\* Its ticket has gone, and the condition that was notified was another's.
WakeUpLost ==
    \/ \E g \in Callers :
          call[g].patient /\ call[g].pc = "asleep" /\ ~IsRunning(call[g].ticket)
    \/ round.pc = "asleep" /\ ~IsRunning(round.ticket)

Pending(g) ==
    call[g].pc \notin {"idle", "using"} /\ ~(call[g].patient /\ call[g].pc \in {"lock", "busy"})

(***************************************************************************)
(* get_mount_path returns, with a limit or without, once it has the lock   *)
(* of the image.  One thing alone can keep it: of two threads that wait    *)
(* for one ticket the pool remembers the later one (waitFor overwrites the *)
(* condition in "running"), and the other, if it has no limit, sleeps for  *)
(* ever, with the lock of the image or with mount_processes_mutex.         *)
(***************************************************************************)
CallsReturn == \A g \in Callers : Pending(g) ~> ~Pending(g) \/ WakeUpLost

(***************************************************************************)
(* An image that a request has mounted is unmounted when nobody uses it,   *)
(* also if the request did not wait for it and if the server was started   *)
(* again: unless a wake-up was lost, or the helper failed.                 *)
(***************************************************************************)
UnusedUnmounted ==
    \A i \in Images :
        dir[i] = "mounted" ~> dir[i] # "mounted" \/ InUse(i) \/ i \in left \/ WakeUpLost
===============================================================================
