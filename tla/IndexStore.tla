------------------------------ MODULE IndexStore ------------------------------
(***************************************************************************)
(* What the file entry index promises to the backup threads: a map from    *)
(* keys to entry ids (0: no entry) whose latest state is always readable,  *)
(* and which survives a crash as some state it had before, never as a mix  *)
(* of two of them.  Writing to disk happens in the background: a sync      *)
(* takes a picture of the whole map and replaces the durable map by it in  *)
(* one step.  The database skips the metadata sync (MDB_NOMETASYNC), so a  *)
(* crash may also undo the last sync.                                      *)
(***************************************************************************)
EXTENDS Naturals

CONSTANTS Keys,     \* what an entry is stored under
          EntryIds  \* ids of file entries, never 0

VARIABLES current,  \* the map the readers see
          picture,  \* the map as it was when the running sync began
          syncing,  \* a sync is running
          durable,  \* the map a crash falls back to
          older     \* the map before the last sync

storeVars == <<current, picture, syncing, durable, older>>

Map == [Keys -> EntryIds \cup {0}]

StoreInit ==
    /\ current = [k \in Keys |-> 0]
    /\ picture = current
    /\ syncing = FALSE
    /\ durable = current
    /\ older = current

\* Store entry v under k, or remove k when v is 0.
StorePut(k, v) ==
    /\ current' = [current EXCEPT ![k] = v]
    /\ UNCHANGED <<picture, syncing, durable, older>>

StoreBeginSync ==
    /\ ~syncing
    /\ syncing' = TRUE
    /\ picture' = current
    /\ UNCHANGED <<current, durable, older>>

StoreEndSync ==
    /\ syncing
    /\ syncing' = FALSE
    /\ older' = durable
    /\ durable' = picture
    /\ UNCHANGED <<current, picture>>

StoreCrash ==
    /\ durable' \in {durable, older}
    /\ older' = durable'
    /\ current' = durable'
    /\ picture' = durable'
    /\ syncing' = FALSE

StoreNext ==
    \/ \E k \in Keys, v \in EntryIds \cup {0} : StorePut(k, v)
    \/ StoreBeginSync
    \/ StoreEndSync
    \/ StoreCrash

StoreSpec == StoreInit /\ [][StoreNext]_storeVars
===============================================================================
