----------------------------- MODULE ShadowWatcher --------------------------
(* /etc/shadow and the password cache: the inotify watch and the task that     *)
(* reloads the cache. The file is one account, root. The world replaces it     *)
(* (rename, as chpasswd does) or writes it in place.                           *)
EXTENDS Integers, Sequences

CONSTANTS
    Hash,           \* what root's line may hold
    Partial,        \* a file truncated and not yet written: no line for root
    Null,
    MaxEdits      \* bound: how often the world changes the file

ASSUME W_Assumption ==
    /\ Partial \notin Hash
    /\ Null \notin Hash \cup {Partial}
    /\ MaxEdits \in Nat

VARIABLES
    shadow_file,           \* [inode, hash]
    changes,        \* how often the world has changed the file
    writing,        \* a writer has truncated the file and not closed it
    watch,          \* the inotify watch: "none", "current", "old": on an inode that
                    \*   has no name left, "kept": on one that has another name now
    events,         \* inotify's queue
    watcher,        \* the task: "starting", "adding", "waiting", "reloading",
                    \*   "reading", "dead"
    opened,         \* the file as parse_shadow_file opened it
    hashes,          \* the hash in the password cache
    missed,         \* observed: a change raised no event that will reload
    locked          \* the authentication lock: "free", or held by a "handler" or the "watcher"

w_vars == <<shadow_file, changes, writing, watch, events, watcher, opened, hashes, missed, locked>>

W_Init ==
    /\ \E h \in Hash : shadow_file = [inode |-> 0, hash |-> h]
    /\ changes = 0 /\ writing = FALSE
    /\ watch = "none" /\ events = <<>> /\ watcher = "starting"
    /\ opened = Null /\ hashes = Null /\ missed = FALSE
    /\ locked = "free"

-----------------------------------------------------------------------------
(* The world.                                                                  *)

\* rename over the file. The watch stays on the old inode; whether that inode
\* goes away, and with it an event comes, depends on the tool: one that keeps the
\* old file under another name keeps the inode.
ReplaceFile(h, kept) ==
    /\ changes < MaxEdits /\ ~writing
    /\ changes' = changes + 1
    /\ shadow_file' = [inode |-> shadow_file.inode + 1, hash |-> h]
    /\ watch' = CASE watch = "current" -> IF kept THEN "kept" ELSE "old"
                  [] watch = "kept" /\ kept -> "old"
                  [] OTHER -> watch
    /\ missed' = (missed \/ watcher \in {"adding", "dead"} \/ kept \/ watch = "kept")
    /\ UNCHANGED <<writing, events, watcher, opened, hashes, locked>>

\* The kernel drops the inode: the watch ends with two events.
Evict ==
    /\ watch = "old"
    /\ watch' = "none"
    /\ events' = events \o <<"DELETE_SELF", "IGNORED">>
    /\ UNCHANGED <<shadow_file, changes, writing, watcher, opened, hashes, missed, locked>>

Truncate ==
    /\ changes < MaxEdits /\ ~writing
    /\ changes' = changes + 1
    /\ writing' = TRUE
    /\ shadow_file' = [shadow_file EXCEPT !.hash = Partial]
    /\ UNCHANGED <<watch, events, watcher, opened, hashes, missed, locked>>

CloseWrite(h) ==
    /\ writing
    /\ writing' = FALSE
    /\ shadow_file' = [shadow_file EXCEPT !.hash = h]
    /\ events' = IF watch = "current" THEN Append(events, "CLOSE_WRITE") ELSE events
    /\ missed' = (missed \/ watcher \in {"adding", "dead"} \/ watch = "kept")
    /\ UNCHANGED <<changes, watch, watcher, opened, hashes, locked>>

-----------------------------------------------------------------------------
(* LinuxAuthenticator: the first reading, the watch, and the task.             *)

\* What parse_shadow_file makes of the file it opened: the inode it holds, with
\* what is in it when it is read.
Parsed == {opened.hash} \cup (IF opened.inode = shadow_file.inode THEN {shadow_file.hash} ELSE {})

\* `new`: the file is parsed before the watch is added.
FirstReading ==
    /\ watcher = "starting"
    /\ hashes' = shadow_file.hash
    /\ watcher' = "adding"
    /\ UNCHANGED <<shadow_file, changes, writing, watch, events, opened, missed, locked>>

AddWatch ==
    /\ watcher = "adding"
    /\ watch' = "current"
    /\ watcher' = "waiting"
    /\ UNCHANGED <<shadow_file, changes, writing, events, opened, hashes, missed, locked>>

\* inotify cannot be set up: the daemon goes on without reloading.
AddWatchFails ==
    /\ watcher = "adding"
    /\ watcher' = "dead"
    /\ missed' = TRUE
    /\ UNCHANGED <<shadow_file, changes, writing, watch, events, opened, hashes, locked>>

\* Seeded bug: nothing watches the new file.
Rebind_forgets ==
    /\ watcher = "waiting" /\ events # <<>> /\ Head(events) = "DELETE_SELF"
    /\ events' = Tail(events)
    /\ UNCHANGED <<shadow_file, changes, writing, watch, watcher, opened, hashes, missed, locked>>

\* The file went away under its name: watch whatever has the name now, and wait
\* for the next event.
Rebind ==
    /\ watcher = "waiting" /\ events # <<>> /\ Head(events) = "DELETE_SELF"
    /\ watch' = "current"
    /\ events' = Tail(events)
    /\ UNCHANGED <<shadow_file, changes, writing, watcher, opened, hashes, missed, locked>>

\* Any other event, the one that says that the old watch is gone too.
NextEvent ==
    /\ watcher = "waiting" /\ events # <<>> /\ Head(events) # "DELETE_SELF"
    /\ events' = Tail(events)
    /\ watcher' = "reloading"
    /\ UNCHANGED <<shadow_file, changes, writing, watch, opened, hashes, missed, locked>>

\* The context's lock, then the file.
OpenFile ==
    /\ watcher = "reloading" /\ locked = "free"
    /\ opened' = shadow_file
    /\ watcher' = "reading"
    /\ locked' = "watcher"
    /\ UNCHANGED <<shadow_file, changes, writing, watch, events, hashes, missed>>

Reload ==
    /\ watcher = "reading"
    /\ \E h \in Parsed :
           /\ hashes' = h
           /\ missed' = (missed /\ h # shadow_file.hash)
    /\ opened' = Null
    /\ watcher' = "waiting"
    /\ locked' = "free"
    /\ UNCHANGED <<shadow_file, changes, writing, watch, events>>

\* The file cannot be read: the cache stays as it is.
ReloadFails ==
    /\ watcher = "reading"
    /\ missed' = TRUE
    /\ opened' = Null
    /\ watcher' = "waiting"
    /\ locked' = "free"
    /\ UNCHANGED <<shadow_file, changes, writing, watch, events, hashes>>

Watcher == FirstReading \/ AddWatch \/ Rebind \/ NextEvent \/ OpenFile \/ Reload

-----------------------------------------------------------------------------
(* A session's request holds the lock while its handler runs.                  *)
Take ==
    /\ locked = "free" /\ watcher \notin {"starting", "adding"}
    /\ locked' = "handler"
    /\ UNCHANGED <<shadow_file, changes, writing, watch, events, watcher, opened, hashes, missed>>

Release ==
    /\ locked = "handler"
    /\ locked' = "free"
    /\ UNCHANGED <<shadow_file, changes, writing, watch, events, watcher, opened, hashes, missed>>

Changes ==
    \/ \E h \in Hash, kept \in BOOLEAN : ReplaceFile(h, kept)
    \/ Evict
    \/ Truncate
    \/ \E h \in Hash : CloseWrite(h)

W_Next ==
    \/ Changes
    \/ Watcher
    \/ AddWatchFails \/ ReloadFails
    \/ Take \/ Release

W_Spec == W_Init /\ [][W_Next]_w_vars

\* The task runs, and the lock is handed out in the order it was asked for: a
\* watcher that waits for it gets it once it is given back.
W_Fairness ==
    /\ WF_w_vars(Watcher)
    /\ SF_w_vars(OpenFile)
    /\ WF_w_vars(Evict)
    /\ WF_w_vars(\E h \in Hash : CloseWrite(h))

-----------------------------------------------------------------------------
\* Whatever order the file's changes, the kernel's events and the task's readings
\* come in - a change while the file is being read, while the watch hangs on a
\* dead inode, between two events - a cache that differs from the file has a
\* reading on its way.
StaleHasAReload ==
    (watcher # "starting" /\ hashes # shadow_file.hash) =>
        \/ writing
        \/ watch = "old"
        \/ \E i \in 1..Len(events) : events[i] # "DELETE_SELF"
        \/ watcher \in {"reloading", "reading"}

\* A changed password is the one that opens the door, sooner or later, unless the
\* change was missed or a handler keeps the authentication lock for ever.
CacheCatchesUp ==
    \/ <>[](locked = "handler")
    \/ (watcher # "starting" /\ hashes # shadow_file.hash) ~> (hashes = shadow_file.hash \/ missed)

\* auto_reload, together: no change is without its reading, and the reading
\* comes. The exceptions are the ones `missed` names: a change between the first
\* reading and the watch, a tool that keeps the old inode, a file that cannot be
\* read.
ChangesAreRead == [](missed \/ StaleHasAReload) /\ CacheCatchesUp
=============================================================================
