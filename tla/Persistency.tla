---------------------------- MODULE Persistency -----------------------------
(***************************************************************************)
(* The key/value store (persistency/binary_persistency.rs) and the task    *)
(* that writes it to /var/lib/bmcd/bmcd.bin (persistency/                  *)
(* app_persistency.rs).                                                    *)
(*                                                                         *)
(* The file holds all the keys, so the store is one value: the number of   *)
(* changes made to it, 0 for the registered defaults and for an empty      *)
(* file.  Setting a key to the value it has changes nothing and is no      *)
(* step here.                                                              *)
(*                                                                         *)
(* The task selects between a change of the store and its own write.  A    *)
(* change drops the write in progress, but what that write had already     *)
(* asked of the filesystem still happens, on another thread (`late`).  It  *)
(* is assumed to have happened before the next write timeout passes.       *)
(***************************************************************************)
EXTENDS Integers

CONSTANTS
    MaxChanges,  \* bound: changes to the store that a restart has not undone
    Early,       \* BmcApplication::initialize changes the store before the
                 \* writer task has taken its first step
    Fault        \* "write": the filesystem may refuse

ASSUME StoreAssumption == MaxChanges \in Nat /\ Early \in BOOLEAN /\ Fault \subseteq {"write"}

VARIABLES
    up,         \* the daemon is running
    can_write,  \* the file is not read-only
    cache,      \* PersistencyStore.cache
    dirty,      \* PersistencyStore.dirty
    observed,   \* the cache has the sender of a watch channel
    notified,   \* the channel has a value the task has not seen
    writer,     \* where filesystem_writer is
    late,       \* the filesystem operation of a write that was dropped
    partial,    \* bmcd.new
    file        \* bmcd.bin
store_vars == <<up, can_write, cache, dirty, observed, notified, writer, late, partial, file>>

\* A file with no whole store in it: cut short, of another format or version.
Unreadable == -1
Files == {Unreadable} \cup 0 .. MaxChanges

\* PersistencyStore::new: such a file is skipped "in its totality".
Loaded == IF file = Unreadable THEN 0 ELSE file

store_Init ==
    /\ up = FALSE
    /\ can_write \in BOOLEAN
    /\ file \in Files
    /\ cache = Loaded /\ partial = 0
    /\ dirty = FALSE /\ observed = FALSE /\ notified = FALSE
    /\ writer = "absent" /\ late = "none"

(***************************************************************************)
(* ApplicationPersistency::new: load the file, spawn the task.             *)
(***************************************************************************)
Start ==
    /\ ~ up
    /\ up' = TRUE
    /\ cache' = Loaded
    /\ dirty' = FALSE /\ observed' = FALSE /\ notified' = FALSE
    /\ writer' = IF can_write THEN "starting" ELSE "absent"
    /\ UNCHANGED <<can_write, late, partial, file>>

\* filesystem_writer begins: get_watcher() hands it a channel with nothing new.
get_watcher ==
    /\ writer = "starting"
    /\ writer' = "idle"
    /\ observed' = TRUE /\ notified' = FALSE
    /\ UNCHANGED <<up, can_write, cache, dirty, late, partial, file>>

(***************************************************************************)
(* try_set with a new value.  A task that has ended has dropped its end of *)
(* the channel, and the send that finds out is the last one.               *)
(***************************************************************************)
\* A mutant: nobody is told.
try_set_silently ==
    /\ up
    /\ writer = "starting" => Early
    /\ cache < MaxChanges
    /\ cache' = cache + 1
    /\ dirty' = TRUE
    /\ UNCHANGED <<up, can_write, observed, notified, writer, late, partial, file>>

try_set ==
    /\ up
    /\ writer = "starting" => Early
    /\ cache < MaxChanges
    /\ cache' = cache + 1
    /\ dirty' = TRUE
    /\ notified' = (observed /\ writer # "ended")
    /\ observed' = (observed /\ writer # "ended")
    /\ UNCHANGED <<up, can_write, writer, late, partial, file>>

(***************************************************************************)
(* filesystem_writer and MonitorContext::commit_to_file.                   *)
(***************************************************************************)
InFlight == IF writer = "opening" THEN "open" ELSE IF writer = "renaming" THEN "rename" ELSE late

\* The task sees the change, drops its write and waits for write_timeout.
StoreChange ==
    /\ notified
    /\ writer \in {"idle", "waiting", "opening", "opened", "renaming"}
    /\ notified' = FALSE
    /\ writer' = "waiting"
    /\ late' = InFlight
    /\ UNCHANGED <<up, can_write, cache, dirty, observed, partial, file>>

\* No change for write_timeout: bmcd.new is opened and truncated.
TimeoutPasses ==
    /\ writer = "waiting"
    /\ late = "none"
    /\ writer' = "opening"
    /\ UNCHANGED <<up, can_write, cache, dirty, observed, notified, late, partial, file>>

\* A mutant: the store counts as written once there is a file to write to.
open_clean ==
    /\ writer = "opening"
    /\ writer' = "opened"
    /\ partial' = 0
    /\ dirty' = FALSE
    /\ UNCHANGED <<up, can_write, cache, observed, notified, late, file>>

open ==
    /\ writer = "opening"
    /\ writer' = "opened"
    /\ partial' = 0
    /\ UNCHANGED <<up, can_write, cache, dirty, observed, notified, late, file>>

\* A mutant: the file is written where it is.
write_in_place ==
    /\ writer = "opened"
    /\ writer' = "renaming"
    /\ partial' = cache
    /\ file' = Unreadable
    /\ dirty' = FALSE
    /\ UNCHANGED <<up, can_write, cache, observed, notified, late>>

\* PersistencyStore::write, under the cache's read lock.
write ==
    /\ writer = "opened"
    /\ writer' = "renaming"
    /\ partial' = cache
    /\ dirty' = FALSE
    /\ UNCHANGED <<up, can_write, cache, observed, notified, late, file>>

rename ==
    /\ writer = "renaming"
    /\ writer' = "idle"
    /\ file' = partial
    /\ UNCHANGED <<up, can_write, cache, dirty, observed, notified, late, partial>>

\* The operation a dropped write had asked for.
LateOperation ==
    /\ late # "none"
    /\ late' = "none"
    /\ partial' = IF late = "open" THEN 0 ELSE partial
    /\ file' = IF late = "rename" THEN partial ELSE file
    /\ UNCHANGED <<up, can_write, cache, dirty, observed, notified, writer>>

\* An error ends the task, for good.  write_all may have written a part.
WriterFails ==
    /\ "write" \in Fault
    /\ writer \in {"opening", "opened", "renaming"}
    /\ writer' = "ended"
    /\ notified' = FALSE
    /\ partial' \in {partial} \cup (IF writer = "opened" THEN {Unreadable} ELSE {})
    /\ UNCHANGED <<up, can_write, cache, dirty, observed, late, file>>

(***************************************************************************)
(* The daemon ends.  The rename it was in may or may not have happened,    *)
(* and the task that Drop spawns for sync_all() may or may not have run.   *)
(* The two share bmcd.new and are assumed not to overlap.                  *)
(***************************************************************************)
Renaming == writer = "renaming" \/ late = "rename"

sync_all == IF dirty /\ can_write THEN {cache} ELSE {}

Stop ==
    /\ up
    /\ up' = FALSE
    /\ file' \in {file} \cup (IF Renaming THEN {partial} ELSE {}) \cup sync_all
    /\ cache' = Loaded'
    /\ writer' = "absent" /\ late' = "none"
    /\ dirty' = FALSE /\ observed' = FALSE /\ notified' = FALSE
    /\ UNCHANGED <<can_write, partial>>

store_Next ==
    \/ Start \/ get_watcher \/ try_set \/ StoreChange \/ TimeoutPasses
    \/ open \/ write \/ rename \/ LateOperation \/ WriterFails \/ Stop

StoreSpec == store_Init /\ [][store_Next]_store_vars

\* The runtime polls a task that is ready, time passes and the filesystem
\* answers.  Nobody has to change the store or to stop the daemon.
FairStoreSpec ==
    /\ StoreSpec
    /\ WF_store_vars(get_watcher) /\ WF_store_vars(StoreChange) /\ WF_store_vars(TimeoutPasses)
    /\ WF_store_vars(open) /\ WF_store_vars(write) /\ WF_store_vars(rename) /\ WF_store_vars(LateOperation)

(***************************************************************************)
(* Properties.                                                             *)
(***************************************************************************)
StoreTypeOK ==
    /\ up \in BOOLEAN /\ can_write \in BOOLEAN /\ dirty \in BOOLEAN
    /\ observed \in BOOLEAN /\ notified \in BOOLEAN
    /\ cache \in 0 .. MaxChanges /\ partial \in Files /\ file \in Files
    /\ writer \in {"absent", "starting", "idle", "waiting", "opening", "opened", "renaming",
                   "ended"}
    /\ late \in {"none", "open", "rename"}

\* sync_all() trusts `dirty`: a store that says it is clean is in the file, or a
\* rename that will put it there is under way - unless the writer has failed.
CleanIsInTheFile ==
    (up /\ ~ dirty /\ writer # "ended" /\ ~ Renaming) => Loaded = cache

\* Between a change and its write nothing is forgotten: whatever the task was
\* doing when the change came, a dirty store has a write on its way, as long as
\* the task lives and had begun when the change was made.
DirtyIsOnItsWay ==
    (dirty /\ writer \notin {"absent", "ended"}) =>
        notified \/ writer \in {"waiting", "opening", "opened"}

\* "It monitors the store for changes and writes back all changes when no update
\* to the store was detected for a given amount of time" (app_persistency.rs):
\* a change is in the file in the end, or the daemon or its writer ended first.
ChangesReachTheFile ==
    \A n \in 1 .. MaxChanges :
        (cache = n /\ writer \notin {"absent", "ended"}) ~>
            (Loaded >= n \/ ~ up \/ writer = "ended")

(***************************************************************************)
(* The promise: a restart loses at most the last changes.                  *)
(***************************************************************************)
Promise == INSTANCE DurableStore WITH
    mem  <- IF up THEN cache ELSE Loaded,
    disk <- Loaded

KeepsAPrefix == Promise!Spec
=============================================================================
