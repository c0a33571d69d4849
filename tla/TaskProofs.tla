---------------------------- MODULE TaskProofs ------------------------------
(***************************************************************************)
(* The tasks of the daemon: the writer of the store, however many changes  *)
(* there are and wherever they fall between its steps; and the workers of  *)
(* the transfers, whatever the clients and the timers do; the repair of    *)
(* the settings volume and the copies of what was written by hand, which   *)
(* outlive the task or the boot that began them.                           *)
(***************************************************************************)
EXTENDS Persistency, StreamingTransfer, StorageRepair, HandWrittenCopies,
         SequenceTheorems, FiniteSetTheorems, Recursion, TLAPS

(***************************************************************************)
(* The store loses at most its last changes, and knows whether it is       *)
(* written.                                                                *)
(***************************************************************************)
\* What is about to be renamed lies between the file and the cache, and is the
\* cache itself when nothing changed since it was written.
RenamesForward == Renaming => partial \in Loaded .. cache /\ (~ dirty => partial = cache)

\* What a dropped write left behind is done before the task goes on.
LateIsWaitedFor == late # "none" => writer = "waiting"

\* A daemon that is down has nothing in memory.
DownIsEmpty == ~ up => cache = Loaded /\ writer = "absent" /\ late = "none" /\ ~ dirty

StoreInv ==
    /\ StoreTypeOK
    /\ Loaded <= cache
    /\ RenamesForward
    /\ LateIsWaitedFor
    /\ DownIsEmpty
    /\ CleanIsInTheFile

LEMMA InitStoreInv == store_Init => StoreInv
<1> SUFFICES ASSUME store_Init PROVE StoreInv
  OBVIOUS
<1>0. partial \in Files /\ cache \in 0 .. MaxChanges
  BY StoreAssumption DEF store_Init, Files, Loaded, Unreadable
<1>1. StoreTypeOK
  BY <1>0, Zenon DEF store_Init, StoreTypeOK
<1>2. Loaded <= cache
  BY StoreAssumption DEF store_Init, Loaded, Files, Unreadable
<1>3. RenamesForward /\ LateIsWaitedFor
  BY DEF store_Init, RenamesForward, LateIsWaitedFor, Renaming
<1>4. DownIsEmpty /\ CleanIsInTheFile
  BY DEF store_Init, DownIsEmpty, CleanIsInTheFile
<1>5. QED
  BY <1>1, <1>2, <1>3, <1>4 DEF StoreInv

LEMMA StepStoreInv == StoreInv /\ [store_Next]_store_vars => StoreInv'
<1> SUFFICES ASSUME StoreInv, [store_Next]_store_vars PROVE StoreInv'
  OBVIOUS
<1> USE StoreAssumption
<1> USE DEF StoreInv, StoreTypeOK, RenamesForward, LateIsWaitedFor, DownIsEmpty, CleanIsInTheFile,
            Renaming, Files, Loaded, Unreadable
<1>1. CASE Start
  BY <1>1 DEF Start
<1>2. CASE get_watcher
  BY <1>2 DEF get_watcher
<1>3. CASE try_set
  BY <1>3 DEF try_set
<1>4. CASE StoreChange
  BY <1>4 DEF StoreChange, InFlight
<1>5. CASE TimeoutPasses
  BY <1>5 DEF TimeoutPasses
<1>6. CASE open
  BY <1>6 DEF open
<1>7. CASE write
  <2>1. StoreTypeOK'
    BY <1>7 DEF write
  <2>2. Renaming' /\ partial' = cache' /\ up'
    BY <1>7 DEF write
  <2>3. partial' \in Loaded' .. cache'
    BY <1>7 DEF write
  <2>4. late' = "none"
    BY <1>7 DEF write
  <2>5. QED
    BY <2>1, <2>2, <2>3, <2>4, <1>7 DEF write
<1>8. CASE rename
  BY <1>8 DEF rename
<1>9. CASE LateOperation
  BY <1>9 DEF LateOperation
<1>10. CASE WriterFails
  BY <1>10 DEF WriterFails
<1>11. CASE Stop
  <2>1. file' \in Files
    BY <1>11 DEF Stop, sync_all
  <2>2. StoreTypeOK'
    <3>1. cache' \in 0 .. MaxChanges
      BY <1>11, <2>1 DEF Stop
    <3>2. (up \in BOOLEAN /\ can_write \in BOOLEAN /\ dirty \in BOOLEAN)'
      BY <1>11, Zenon DEF Stop
    <3>3. (observed \in BOOLEAN /\ notified \in BOOLEAN)'
      BY <1>11, Zenon DEF Stop
    <3>4. QED
      BY <1>11, <2>1, <3>1, <3>2, <3>3, Zenon DEF Stop
  <2>3. ~ up' /\ ~ dirty' /\ cache' = Loaded' /\ writer' = "absent" /\ late' = "none"
    BY <1>11 DEF Stop
  <2>4. Loaded' <= cache'
    BY <2>1, <2>3
  <2>5. RenamesForward' /\ LateIsWaitedFor' /\ DownIsEmpty' /\ CleanIsInTheFile'
    BY <2>3
  <2>6. QED
    BY <2>2, <2>4, <2>5
<1>12. CASE UNCHANGED store_vars
  BY <1>12 DEF store_vars
<1>13. QED
  BY <1>1, <1>2, <1>3, <1>4, <1>5, <1>6, <1>7, <1>8, <1>9, <1>10, <1>11, <1>12 DEF store_Next

\* A store that calls itself clean is in the file or about to be, wherever its
\* changes fall between the steps of the writer and whatever fails but the
\* writer itself.
THEOREM CleanIsWritten == StoreSpec => []CleanIsInTheFile
<1>1. StoreInv => CleanIsInTheFile
  BY DEF StoreInv
<1>2. QED
  BY InitStoreInv, StepStoreInv, <1>1, PTL DEF StoreSpec

\* The channel is there for as long as the task lives, and nothing changes
\* before it is there.
WatchInv ==
    /\ StoreTypeOK
    /\ DirtyIsOnItsWay
    /\ writer \in {"idle", "waiting", "opening", "opened", "renaming"} => observed
    /\ writer = "starting" => ~ dirty

\* When nothing changes the store before the writer's first step, a dirty store
\* always has a write on its way, for as long as the writer lives.
THEOREM NothingIsForgotten ==
    ASSUME ~ Early
    PROVE  StoreSpec => []DirtyIsOnItsWay
<1>1. store_Init => WatchInv
  BY InitStoreInv DEF store_Init, StoreInv, WatchInv, DirtyIsOnItsWay
<1>2. WatchInv /\ StoreInv /\ [store_Next]_store_vars => WatchInv'
  <2> SUFFICES ASSUME WatchInv, StoreInv, [store_Next]_store_vars PROVE WatchInv'
    OBVIOUS
  <2>1. StoreTypeOK'
    BY StepStoreInv DEF StoreInv
  <2>2. late # "none" => writer = "waiting"
    BY DEF StoreInv, LateIsWaitedFor
  <2> USE <2>1 DEF WatchInv, StoreTypeOK, DirtyIsOnItsWay
  <2>3. CASE Start \/ get_watcher \/ Stop
    BY <2>3 DEF Start, get_watcher, Stop
  <2>4. CASE try_set
    BY <2>4 DEF try_set
  <2>5. CASE StoreChange \/ TimeoutPasses \/ LateOperation
    BY <2>5 DEF StoreChange, TimeoutPasses, LateOperation
  <2>6. CASE open \/ write \/ rename \/ WriterFails
    BY <2>6 DEF open, write, rename, WriterFails
  <2>7. CASE UNCHANGED store_vars
    BY <2>7 DEF store_vars
  <2>8. QED
    BY <2>3, <2>4, <2>5, <2>6, <2>7 DEF store_Next
<1>3. WatchInv => DirtyIsOnItsWay
  BY DEF WatchInv
<1>4. QED
  BY <1>1, <1>2, <1>3, InitStoreInv, StepStoreInv, PTL DEF StoreSpec

\* A restart, at any moment, brings back the store as it was after some change,
\* and the file never goes back: the store implements DurableStore, a writer
\* that fails, a write that is dropped half-way and a read-only file included.
THEOREM LosesOnlyTheLast == StoreSpec => KeepsAPrefix
<1>1. store_Init => Promise!Init
  BY StoreAssumption DEF store_Init, Promise!Init, Files, Loaded, Unreadable
<1>2. StoreInv /\ [store_Next]_store_vars => [Promise!Next]_(Promise!vars)
  <2> SUFFICES ASSUME StoreInv, [store_Next]_store_vars PROVE [Promise!Next]_(Promise!vars)
    OBVIOUS
  <2> USE StoreAssumption
  <2> USE DEF StoreInv, StoreTypeOK, RenamesForward, LateIsWaitedFor, DownIsEmpty, Renaming, Files, Loaded,
              Unreadable
  <2> USE DEF Promise!Next, Promise!vars, Promise!Change, Promise!Flush, Promise!Restart
  <2>1. CASE UNCHANGED <<up, cache, file>>
    BY <2>1
  <2>2. CASE Start
    BY <2>2 DEF Start
  <2>3. CASE try_set
    BY <2>3 DEF try_set
  <2>4. CASE rename
    BY <2>4 DEF rename
  <2>5. CASE LateOperation
    BY <2>5 DEF LateOperation
  <2>6. CASE Stop
    BY <2>6 DEF Stop, sync_all
  <2>7. QED
    BY <2>1, <2>2, <2>3, <2>4, <2>5, <2>6
       DEF store_Next, get_watcher, StoreChange, TimeoutPasses, open, write, WriterFails, store_vars
<1>3. QED
  BY <1>1, <1>2, InitStoreInv, StepStoreInv, PTL DEF StoreSpec, KeepsAPrefix, Promise!Spec

(***************************************************************************)
(* One image is written at a time.                                         *)
(***************************************************************************)
TransferInv == TypeOK /\ NobodyRunsUnseen

LEMMA InitTransferInv == Init => TransferInv
<1> SUFFICES ASSUME Init PROVE TransferInv
  OBVIOUS
<1>1. status \in Status /\ gate \in Transfer \cup {None} /\ asked \in BOOLEAN
  BY DEF Init, Status
<1>2. worker \in [Transfer -> WorkerState] /\ \A t \in Transfer : worker[t] = "none"
  BY DEF Init, WorkerState
<1>3. /\ cancelled \in [Transfer -> BOOLEAN]
      /\ sent \in [Transfer -> BOOLEAN] /\ timer \in [Transfer -> BOOLEAN]
  BY DEF Init
<1>4. /\ channel \in [Transfer -> {"none", "held", "taken", "closed"}]
      /\ handler \in [Transfer -> {"none", "sending", "returning"}]
  BY DEF Init
<1>5. QED
  BY <1>1, <1>2, <1>3, <1>4 DEF TransferInv, TypeOK, NobodyRunsUnseen

\* Replacing the status cancels the transfer it spoke of, and nothing else: a
\* worker that goes on uncancelled was not the one spoken of.
LEMMA ReplaceCancels ==
    ASSUME TransferInv, NEW s \in Status, Replace(s)
    PROVE  /\ status' \in Status
           /\ cancelled' \in [Transfer -> BOOLEAN]
           /\ channel' \in [Transfer -> {"none", "held", "taken", "closed"}]
           /\ \A t \in Transfer : cancelled'[t] = (cancelled[t] \/ Ongoing(t))
<1>1. \A t \in Transfer : (cancelled[t] \/ Ongoing(t)) \in BOOLEAN
  BY DEF TransferInv, TypeOK, Ongoing
<1>2. QED
  BY <1>1 DEF TransferInv, TypeOK, Replace

LEMMA StepTransferInv == TransferInv /\ [Next]_vars => TransferInv'
<1> SUFFICES ASSUME TransferInv, [Next]_vars PROVE TransferInv'
  OBVIOUS
<1>t. TypeOK /\ NobodyRunsUnseen
  BY DEF TransferInv
<1>e. \A t \in Transfer \cup {None} : Done(t) \in Status /\ Error(t) \in Status
  BY DEF Done, Error, Status
<1>i. status.id \in Transfer \cup {None} /\ status.sender \in BOOLEAN
      /\ status.state \in {"Ready", "Transferring", "Done", "Error"}
  BY <1>t DEF TypeOK, Status
<1>1. ASSUME NEW t \in Transfer, NEW peer \in Peer, Request(t, peer) PROVE TransferInv'
  <2>1. status' \in Status /\ status'.state = "Transferring" /\ status'.id = t
    BY <1>1 DEF Request, request_transfer, Transferring, Status
  <2>2. \A u \in Transfer : (cancelled[u] \/ Ongoing(u)) \in BOOLEAN
    BY <1>t DEF TypeOK, Ongoing
  <2>3. TypeOK'
    BY <1>1, <1>t, <2>1, <2>2 DEF Request, request_transfer, TypeOK, WorkerState
  <2>4. \A u \in Transfer \ {t} : worker'[u] = worker[u] /\ (cancelled'[u] = (cancelled[u] \/ Ongoing(u)))
    BY <1>1, <1>t, <2>2 DEF Request, request_transfer, TypeOK
  <2>5. NobodyRunsUnseen'
    BY <1>t, <2>1, <2>4 DEF NobodyRunsUnseen, Ongoing
  <2>6. QED
    BY <2>3, <2>5 DEF TransferInv
<1>2. ASSUME NEW t \in Transfer, NEW peer \in Peer, take_sender(t, peer) PROVE TransferInv'
  <2>1. /\ status' \in Status /\ status'.state = status.state /\ status'.id = status.id
        /\ UNCHANGED <<worker, cancelled>>
    BY <1>2, <1>t DEF take_sender, TypeOK, Status
  <2>2. TypeOK'
    BY <1>2, <1>t, <2>1 DEF take_sender, TypeOK
  <2>3. QED
    BY <1>t, <2>1, <2>2 DEF TransferInv, NobodyRunsUnseen, Ongoing
\* The steps that leave the status, the tokens and the workers alone.
<1>3. ASSUME NEW t \in Transfer, SendAll(t) \/ BadForm(t) \/ ReturnError(t) PROVE TransferInv'
  <2>1. Return(t) /\ UNCHANGED <<status, worker, cancelled, timer, asked>>
    BY <1>3 DEF SendAll, BadForm, ReturnError
  <2>2. sent' \in [Transfer -> BOOLEAN]
    BY <1>3, <1>t DEF SendAll, BadForm, ReturnError, TypeOK
  <2>3. /\ handler' \in [Transfer -> {"none", "sending", "returning"}]
        /\ channel' \in [Transfer -> {"none", "held", "taken", "closed"}]
        /\ gate' \in Transfer \cup {None}
    BY <2>1, <1>t DEF Return, TypeOK
  <2>4. QED
    BY <2>1, <2>2, <2>3, <1>t DEF TransferInv, TypeOK, NobodyRunsUnseen, Ongoing
<1>4. CASE AskToCancel
  BY <1>4, <1>t DEF AskToCancel, TransferInv, TypeOK, NobodyRunsUnseen, Ongoing
\* The steps that replace the status, or leave it, and start no worker.
<1>5. ASSUME NEW s \in Status, Replace(s), UNCHANGED worker, UNCHANGED <<sent, gate>>,
             handler' \in [Transfer -> {"none", "sending", "returning"}],
             timer' \in [Transfer -> BOOLEAN], asked' \in BOOLEAN
      PROVE  TransferInv'
  BY <1>5, <1>t, ReplaceCancels DEF TransferInv, TypeOK, NobodyRunsUnseen
<1>6. ASSUME NEW t \in Transfer, WrongSize(t) PROVE TransferInv'
  BY <1>6, <1>5, <1>e, <1>i, <1>t DEF WrongSize, TypeOK
<1>7. ASSUME NEW peer \in Peer, Cancel(peer) PROVE TransferInv'
  BY <1>7, <1>5, <1>e, <1>i, <1>t DEF Cancel, TypeOK
<1>8. ASSUME NEW t \in Transfer, Timeout(t) PROVE TransferInv'
  <2>1. CASE Replace(Error(status.id))
    BY <1>8, <2>1, <1>5, <1>e, <1>i, <1>t DEF Timeout, TypeOK
  <2>2. CASE UNCHANGED <<status, cancelled, channel>>
    BY <1>8, <2>2, <1>t DEF Timeout, TransferInv, TypeOK, NobodyRunsUnseen, Ongoing
  <2>3. QED
    BY <1>8, <2>1, <2>2 DEF Timeout
\* The worker's own steps: it goes on or it ends, and only its end is told.
<1>9. ASSUME NEW t \in Transfer, NEW from \in {"copying", "finishing"},
             NEW to \in WorkerState, Step(t, from, to)
      PROVE  TransferInv'
  <2>1. TypeOK'
    BY <1>9, <1>t DEF Step, TypeOK
  <2>2. \A u \in Transfer : worker'[u] \in {"copying", "finishing"}
                                => worker[u] \in {"copying", "finishing"}
    BY <1>9, <1>t DEF Step, TypeOK
  <2>3. QED
    BY <1>9, <1>t, <2>1, <2>2 DEF Step, TransferInv, NobodyRunsUnseen, Ongoing
<1>10. ASSUME NEW t \in Transfer, ReadsToEnd(t) PROVE TransferInv'
  BY <1>10, <1>9 DEF ReadsToEnd, WorkerState
<1>11. ASSUME NEW t \in Transfer, Interrupted(t) \/ Finishes(t) PROVE TransferInv'
  BY <1>11, <1>9, <1>t DEF Interrupted, Finishes, WorkerState, TypeOK
<1>12. ASSUME NEW t \in Transfer, NEW from \in {"copying", "finishing"}, Fails(t, from) PROVE TransferInv'
  BY <1>12, <1>9, <1>t DEF Fails, WorkerState, TypeOK
<1>13. ASSUME NEW t \in Transfer, execute_worker(t) PROVE TransferInv'
  <2>1. /\ worker' \in [Transfer -> WorkerState]
        /\ \A u \in Transfer : worker'[u] \in {"copying", "finishing"} => worker'[u] = worker[u]
    BY <1>13, <1>t DEF execute_worker, TypeOK, WorkerState
  <2>2. UNCHANGED <<sent, handler, timer, gate, asked>>
    BY <1>13 DEF execute_worker
  <2>3. ASSUME NEW s \in Status, Replace(s) PROVE TransferInv'
    BY <2>1, <2>2, <2>3, <1>t, ReplaceCancels DEF TransferInv, TypeOK, NobodyRunsUnseen
  <2>4. CASE UNCHANGED <<status, cancelled, channel>>
    BY <2>1, <2>2, <2>4, <1>t DEF TransferInv, TypeOK, NobodyRunsUnseen, Ongoing
  <2>5. QED
    BY <1>13, <1>e, <2>3, <2>4 DEF execute_worker
<1>14. CASE UNCHANGED vars
  BY <1>14, <1>t DEF vars, TransferInv, TypeOK, NobodyRunsUnseen, Ongoing
<1>15. QED
  BY <1>1, <1>2, <1>3, <1>4, <1>6, <1>7, <1>8, <1>10, <1>11, <1>12, <1>13, <1>14 DEF Next, Work

\* Whatever is requested, cancelled, timed out or left to stall, and however many
\* transfers there are: a worker that was not told to stop is the one the status
\* of the service speaks of, so two workers never write on unhindered.
THEOREM OneWriterAtATime == Spec => []NobodyRunsUnseen
<1>1. TransferInv => NobodyRunsUnseen
  BY DEF TransferInv
<1>2. QED
  BY InitTransferInv, StepTransferInv, <1>1, PTL DEF Spec

(***************************************************************************)
(* The repair of the settings volume.                                      *)
(***************************************************************************)
RepairTypeOK ==
    /\ board \in Board /\ volume \in {"good", "bad", "absent"}
    /\ boot \in [key1 : BOOLEAN, number : Nat, mounted : BOOLEAN] /\ by_hand \in BOOLEAN /\ repairing \in BOOLEAN
    /\ thread \in [Repairer -> {"none", "asked", "offered", "removing", "removed", "failed", "refused"}]
    /\ waiter \in [Repairer -> {"none", "waiting", "over", "rebooting", "reboot_failed", "timed_out"}]

\* A repair that holds the guard.
Holding(r) == thread[r] \in {"removing", "removed"}

\* What was decided stays so until the board reboots, and then nobody acts on
\* it; a thread at work is waited for or was given up; the guard is held by
\* one, until somebody gives up.
RepairInv ==
    /\ RepairTypeOK
    /\ \A r \in Repairer : thread[r] \in {"offered", "removing", "removed"} =>
          board.medium = "ubiblock" /\ ~ boot.key1
    /\ \A r \in Repairer : thread[r] \in {"asked", "offered", "removing"} => waiter[r] \in {"waiting", "timed_out"}
    /\ RemovalIsFollowedByAReboot
    /\ (\A r \in Repairer : waiter[r] # "timed_out") =>
          /\ \A r \in Repairer : Holding(r) => repairing
          /\ \A r \in Repairer : \A s \in Repairer : Holding(r) /\ Holding(s) => r = s

\* The mounts of a board on its SD card name no device of the flash.
LEMMA CardMounts ==
    ASSUME RepairTypeOK, board.medium = "mmcblk"
    PROVE  /\ Len(Mounts) \in 2 .. 3 /\ DOMAIN Mounts = 1 .. Len(Mounts)
           /\ \A i \in DOMAIN Mounts : Mounts[i].device # "ubiblock"
<1> DEFINE Of == [device : {"mmcblk", "root", "volume", "none"}, mountpoint : {"/mnt/rom", "/", "/mnt/overlay"},
                  fstype : {"squashfs", "ubifs", "overlay"}, upper : {"none", "saved", "safemode"}]
<1>1. PICK one : one = <<IF board.root = "device" THEN Mount(board.medium, "/mnt/rom", "squashfs", "none")
                         ELSE Mount("root", "/", "squashfs", "none")>>
  OBVIOUS
<1>2. PICK two : two = IF boot.mounted \/ by_hand THEN <<Mount("volume", "/mnt/overlay", "ubifs", "none")>> ELSE << >>
  OBVIOUS
<1>3. PICK three : three = <<Mount("none", "/", "overlay", IF boot.mounted THEN "saved" ELSE "safemode")>>
  OBVIOUS
<1>4. one \in Seq(Of) /\ Len(one) = 1
  <2>1. one = <<Mount("mmcblk", "/mnt/rom", "squashfs", "none")>> \/ one = <<Mount("root", "/", "squashfs", "none")>>
    BY <1>1
  <2>2. Mount("mmcblk", "/mnt/rom", "squashfs", "none") \in Of /\ Mount("root", "/", "squashfs", "none") \in Of
    BY DEF Mount
  <2>3. PICK first \in Of : one = <<first>>
    BY <2>1, <2>2
  <2> HIDE DEF Of
  <2>4. QED
    BY <2>3
<1>5. two \in Seq(Of) /\ Len(two) \in 0 .. 1
  <2>1. Mount("volume", "/mnt/overlay", "ubifs", "none") \in Of
    BY DEF Mount
  <2> HIDE DEF Of
  <2>2. QED
    BY <1>2, <2>1
<1>6. three \in Seq(Of) /\ Len(three) = 1
  <2>1. PICK upper \in {"saved", "safemode"} : three = <<Mount("none", "/", "overlay", upper)>>
    BY <1>3
  <2>2. Mount("none", "/", "overlay", upper) \in Of
    BY DEF Mount
  <2> HIDE DEF Of
  <2>3. QED
    BY <2>1, <2>2
<1>7. Mounts = (one \o two) \o three
  BY <1>1, <1>2, <1>3 DEF Mounts
<1>8. \A s \in Of : s.device # "ubiblock"
  OBVIOUS
<1> HIDE DEF Of
<1>9. one \o two \in Seq(Of) /\ Len(one \o two) \in 1 .. 2
  <2>1. one \o two \in Seq(Of) /\ Len(one \o two) = Len(one) + Len(two)
    BY <1>4, <1>5, ConcatProperties
  <2>2. QED
    BY <1>4, <1>5, <2>1
<1>10. Mounts \in Seq(Of) /\ Len(Mounts) \in 2 .. 3
  <2>1. PICK both : both = one \o two
    OBVIOUS
  <2>2. both \o three \in Seq(Of) /\ Len(both \o three) = Len(both) + Len(three)
    BY <1>6, <1>9, <2>1, ConcatProperties
  <2>3. Mounts = both \o three
    BY <1>7, <2>1
  <2>4. QED
    BY <1>6, <1>9, <2>1, <2>2, <2>3
<1>11. DOMAIN Mounts = 1 .. Len(Mounts) /\ \A i \in DOMAIN Mounts : Mounts[i] \in Of
  BY <1>10, LenProperties, ElementOfSeq
<1>12. QED
  BY <1>8, <1>10, <1>11

\* The repair is offered only when the settings are on the flash and nobody
\* asked for the temporary layer.
LEMMA OffersWhatCannotBeUsed ==
    ASSUME RepairTypeOK, Repairable(Facts)
    PROVE  board.medium = "ubiblock" /\ ~ boot.key1
<1>1. ~ boot.key1
  BY DEF Repairable, repair_blocker, reason_of, cmdline_requests_safemode, Facts, RepairTypeOK
<1>2. backing_from_mounts(Facts) = "ubi"
  BY DEF Repairable, repair_blocker
<1> SUFFICES ASSUME board.medium = "mmcblk" PROVE backing_from_mounts(Facts) # "ubi"
  BY <1>1, <1>2 DEF RepairTypeOK, Board
<1>3. PICK mounts : mounts = Mounts
  OBVIOUS
<1>4. /\ Len(mounts) \in 2 .. 3 /\ DOMAIN mounts = 1 .. Len(mounts)
      /\ \A i \in DOMAIN mounts : mounts[i].device # "ubiblock"
  BY <1>3, CardMounts
<1>5. ASSUME NEW found \in SUBSET DOMAIN mounts, found # {}
      PROVE  (CHOOSE i \in found : \A j \in found : j <= i) \in DOMAIN mounts
  <2>1. found \subseteq 1 .. 3
    BY <1>4
  <2>2. \A i \in 1 .. 3 : i = 1 \/ i = 2 \/ i = 3
    OBVIOUS
  <2>3. \E i \in found : \A j \in found : j <= i
    <3>1. CASE 3 \in found
      BY <2>1, <2>2, <3>1
    <3>2. CASE 3 \notin found /\ 2 \in found
      BY <2>1, <2>2, <3>2
    <3>3. CASE 3 \notin found /\ 2 \notin found
      BY <2>1, <2>2, <3>3, <1>5
    <3>4. QED
      BY <3>1, <3>2, <3>3
  <2>4. QED
    BY <2>3
<1>6. \A i : i \in DOMAIN mounts => classify_device(mounts[i].device) # "ubi"
  BY <1>4 DEF classify_device
<1>7. classify_device(root_device_name(Facts.cmdline.root, Facts.block_devices)) # "ubi"
  <2>1. PICK root, devices : root = Facts.cmdline.root /\ devices = Facts.block_devices
    OBVIOUS
  <2>2. devices = {[name |-> "mmcblk", dev |-> "254:0"]}
    BY <2>1 DEF Facts, read_block_devices
  <2>3. root_device_name(root, devices) \in {"mmcblk", "unresolved"}
    <3>1. CASE \E d \in devices : d.dev = root
      <4>1. (CHOOSE d \in devices : d.dev = root) \in devices
        BY <3>1
      <4>2. QED
        BY <2>2, <3>1, <4>1 DEF root_device_name
    <3>2. CASE ~ \E d \in devices : d.dev = root
      BY <3>2 DEF root_device_name
    <3>3. QED
      BY <3>1, <3>2
  <2>4. QED
    BY <2>1, <2>3 DEF classify_device
<1>8. PICK rom : rom = Last_of(mounts, On(mounts, "/mnt/rom"))
  OBVIOUS
<1>9. PICK slash : slash = Last_of(mounts, On(mounts, "/"))
  OBVIOUS
<1>10. (rom = << >> \/ \E i \in DOMAIN mounts : rom = <<mounts[i]>>) /\ (slash = << >> \/ \E i \in DOMAIN mounts : slash = <<mounts[i]>>)
  <2>1. rom = << >> \/ \E i \in DOMAIN mounts : rom = <<mounts[i]>>
    <3>1. PICK found \in SUBSET DOMAIN mounts : found = On(mounts, "/mnt/rom")
      BY DEF On
    <3>2. rom = IF found = {} THEN << >> ELSE <<mounts[CHOOSE i \in found : \A j \in found : j <= i]>>
      BY <1>8, <3>1 DEF Last_of
    <3>3. CASE found = {}
      BY <3>2, <3>3
    <3>4. CASE found # {}
      <4>1. PICK k : k = CHOOSE i \in found : \A j \in found : j <= i
        OBVIOUS
      <4>2. k \in DOMAIN mounts
        BY <1>5, <3>4, <4>1
      <4>3. QED
        BY <3>2, <3>4, <4>1, <4>2
    <3>5. QED
      BY <3>3, <3>4
  <2>2. slash = << >> \/ \E i \in DOMAIN mounts : slash = <<mounts[i]>>
    <3>1. PICK found \in SUBSET DOMAIN mounts : found = On(mounts, "/")
      BY DEF On
    <3>2. slash = IF found = {} THEN << >> ELSE <<mounts[CHOOSE i \in found : \A j \in found : j <= i]>>
      BY <1>9, <3>1 DEF Last_of
    <3>3. CASE found = {}
      BY <3>2, <3>3
    <3>4. CASE found # {}
      <4>1. PICK k : k = CHOOSE i \in found : \A j \in found : j <= i
        OBVIOUS
      <4>2. k \in DOMAIN mounts
        BY <1>5, <3>4, <4>1
      <4>3. QED
        BY <3>2, <3>4, <4>1, <4>2
    <3>5. QED
      BY <3>3, <3>4
  <2>3. QED
    BY <2>1, <2>2
<1>11. PICK root : root = IF rom # << >> THEN rom ELSE slash
  OBVIOUS
<1>12. backing_from_mounts(Facts) =
          IF root = << >> THEN "unknown"
          ELSE IF root[1].device \in {"ubiblock", "mmcblk"} THEN classify_device(root[1].device)
          ELSE classify_device(root_device_name(Facts.cmdline.root, Facts.block_devices))
  <2>1. Facts.mounts = mounts
    BY <1>3 DEF Facts
  <2>2. QED
    BY <1>8, <1>9, <1>11, <2>1 DEF backing_from_mounts
<1>13. root = << >> \/ classify_device(root[1].device) # "ubi"
  BY <1>6, <1>10, <1>11
<1>14. QED
  BY <1>7, <1>12, <1>13

LEMMA InitRepairInv == storage_Init => RepairInv
<1> SUFFICES ASSUME storage_Init PROVE RepairInv
  OBVIOUS
<1>1. PICK key1 \in BOOLEAN, mounted \in BOOLEAN : boot = [key1 |-> key1, number |-> 1, mounted |-> mounted]
  BY DEF storage_Init
<1>2. boot \in [key1 : BOOLEAN, number : Nat, mounted : BOOLEAN]
  BY <1>1
<1>3. RepairTypeOK
  BY <1>2 DEF storage_Init, RepairTypeOK
<1>4. \A r \in Repairer : thread[r] = "none" /\ waiter[r] = "none"
  BY DEF storage_Init
<1>5. QED
  BY <1>3, <1>4 DEF RepairInv, RemovalIsFollowedByAReboot, Holding

\* The board comes up again.
LEMMA BootsRepairInv == ASSUME RepairInv, Reboots PROVE RepairInv'
<1>1. boot' \in [key1 : BOOLEAN, number : Nat, mounted : BOOLEAN] /\ volume' \in {"good", "bad", "absent"}
  BY DEF RepairInv, RepairTypeOK, Reboots, Boots
<1>2. QED
  BY <1>1 DEF Reboots, RepairInv, RepairTypeOK, RemovalIsFollowedByAReboot, Holding

\* The steps of one repair.
LEMMA RepairsRepairInv == ASSUME RepairInv, NEW r \in Repairer, Repairs(r) PROVE RepairInv'
<1> USE DEF RepairInv, RepairTypeOK, RemovalIsFollowedByAReboot, Holding
<1>1. CASE repair_and_reboot(r)
  BY <1>1 DEF repair_and_reboot
<1>2. CASE Decide(r)
  <2>1. PICK told \in {"offered", "refused"} :
           /\ thread' = [thread EXCEPT ![r] = told]
           /\ told = "offered" => Repairable(Facts)
    BY <1>2 DEF Decide
  <2>2. told = "offered" => board.medium = "ubiblock" /\ ~ boot.key1
    BY <2>1, OffersWhatCannotBeUsed
  <2>3. QED
    BY <1>2, <2>1, <2>2 DEF Decide
<1>3. CASE TakeGuard(r)
  BY <1>3 DEF TakeGuard
<1>4. CASE ubirmvol(r)
  BY <1>4 DEF ubirmvol
<1>5. CASE Answer(r)
  BY <1>5 DEF Answer
<1>6. CASE RemoveTimesOut(r)
  BY <1>6 DEF RemoveTimesOut
<1>7. CASE RebootFails(r)
  BY <1>7 DEF RebootFails
<1>8. QED
  BY <1>1, <1>2, <1>3, <1>4, <1>5, <1>6, <1>7 DEF Repairs

LEMMA StepRepairInv == RepairInv /\ [storage_Next]_storage_vars => RepairInv'
<1> SUFFICES ASSUME RepairInv, [storage_Next]_storage_vars PROVE RepairInv'
  OBVIOUS
<1>1. CASE Reboots
  BY <1>1, BootsRepairInv
<1>2. CASE \E r \in Repairer : Repairs(r)
  BY <1>2, RepairsRepairInv
<1>3. CASE MountByHand \/ UNCHANGED storage_vars
  BY <1>3 DEF MountByHand, storage_vars, RepairInv, RepairTypeOK, RemovalIsFollowedByAReboot, Holding
<1>4. QED
  BY <1>1, <1>2, <1>3 DEF storage_Next, RepairReboots, PowerCycle

\* At most one holds the guard.
LEMMA OneHolds == RepairInv => OneRemovalAtATime
<1> SUFFICES ASSUME RepairInv, \A r \in Repairer : waiter[r] # "timed_out"
             PROVE  Cardinality({r \in Repairer : thread[r] \in {"removing", "removed"}}) <= 1
  BY DEF OneRemovalAtATime
<1> DEFINE held == {r \in Repairer : thread[r] \in {"removing", "removed"}}
<1>1. \A r \in held : \A s \in held : r = s
  BY DEF RepairInv, Holding
<1>2. held = {} \/ \E r : held = {r}
  BY <1>1
<1>3. Cardinality(held) = 0 \/ Cardinality(held) = 1
  BY <1>2, FS_EmptySet, FS_Singleton
<1> HIDE DEF held
<1>4. Cardinality(held) <= 1
  BY <1>3
<1>5. QED
  BY <1>4 DEF held

\* The volume goes only while ubirmvol runs.
LEMMA ErasesTheUnusable ==
    ASSUME RepairInv, [storage_Next]_storage_vars, volume # "absent", volume' = "absent"
    PROVE  board.medium = "ubiblock" /\ ~ boot.key1 /\ ~ boot.mounted /\ ~ by_hand
<1>1. ~ Reboots
  BY DEF Reboots, Boots
<1>2. ~ MountByHand /\ ~ UNCHANGED storage_vars
  BY DEF MountByHand, storage_vars
<1>3. PICK r \in Repairer : Repairs(r)
  BY <1>1, <1>2 DEF storage_Next, RepairReboots, PowerCycle
<1>4. ubirmvol(r)
  BY <1>3 DEF Repairs, repair_and_reboot, Decide, TakeGuard, Answer, RemoveTimesOut, RebootFails
<1>5. QED
  BY <1>4 DEF ubirmvol, RepairInv

\* For any number of repairs that are asked for at once, with removals that time
\* out and finish late, reboots that fail and power cuts: the settings volume is
\* removed only in a boot that could not use it and on a board that keeps its
\* settings there, a removal is followed by the reboot that recreates it, and
\* one removal runs at a time (repair, repair_and_reboot), but for those whose
\* task gave up.
THEOREM RepairStaysSafe == storage_Spec => RepairIsSafe
<1>1. RepairInv /\ [storage_Next]_storage_vars =>
        (volume # "absent" /\ volume' = "absent" => board.medium = "ubiblock" /\ ~ boot.key1 /\ ~ boot.mounted /\ ~ by_hand)
  BY ErasesTheUnusable
<1>2. RepairInv => RemovalIsFollowedByAReboot /\ OneRemovalAtATime
  BY OneHolds DEF RepairInv
<1>3. storage_Spec => OnlyTheUnusableIsErased
  BY <1>1, InitRepairInv, StepRepairInv, PTL DEF storage_Spec, OnlyTheUnusableIsErased
<1>4. storage_Spec => [](RemovalIsFollowedByAReboot /\ OneRemovalAtATime)
  BY <1>2, InitRepairInv, StepRepairInv, PTL DEF storage_Spec
<1>5. QED
  BY <1>3, <1>4 DEF RepairIsSafe

(***************************************************************************)
(* What an operator wrote by hand is still there: a copy's name is free    *)
(* when it is taken, and only what exceeds KEEP_COPIES is pruned.          *)
(***************************************************************************)
\* There are finitely many copies.
CopiesInv == IsFiniteSet(DOMAIN copies)

\* One of the names free_suffix looks at is free: there are more of them than
\* copies.
LEMMA ANameIsFree ==
    ASSUME CopiesInv, NEW seconds
    PROVE  \E n \in 0 .. Cardinality(DOMAIN copies) : <<seconds, n>> \notin DOMAIN copies
<1> DEFINE size == Cardinality(DOMAIN copies)
           names == [n \in 0 .. size |-> <<seconds, n>>]
<1>1. size \in Nat
  BY FS_CardinalityType DEF CopiesInv
<1>2. IsFiniteSet(0 .. size) /\ Cardinality(0 .. size) = size + 1
  BY <1>1, FS_Interval
<1>3. SUFFICES ASSUME \A n \in 0 .. size : <<seconds, n>> \in DOMAIN copies PROVE FALSE
  OBVIOUS
<1>4. names \in [0 .. size -> DOMAIN copies]
  BY <1>3
<1>5. \A m, n \in 0 .. size : names[m] = names[n] => m = n
  OBVIOUS
<1>6. names \in Injection(0 .. size, DOMAIN copies)
  BY <1>4, <1>5, Zenon DEF Injection, IsInjective
<1>7. Cardinality(0 .. size) <= size
  BY <1>6, FS_Injection, Zenon DEF CopiesInv
<1> QED BY <1>1, <1>2, <1>7

\* free_suffix makes a name that no copy has.
LEMMA TheNameIsFree == ASSUME CopiesInv, NEW seconds PROVE <<seconds, free_suffix(seconds)>> \notin DOMAIN copies
<1> DEFINE free == {n \in 0 .. Cardinality(DOMAIN copies) : <<seconds, n>> \notin DOMAIN copies}
<1>1. Cardinality(DOMAIN copies) \in Nat
  BY FS_CardinalityType DEF CopiesInv
<1>2. free \in SUBSET Nat /\ free # {}
  BY <1>1, ANameIsFree
<1>3. PICK n \in free : \A m \in free : n <= m
  BY <1>2, LeastIsThere, Zenon
<1>4. ASSUME NEW m \in 0 .. n - 1 PROVE <<seconds, m>> \in DOMAIN copies
  <2>1. m \in 0 .. Cardinality(DOMAIN copies) /\ ~ (n <= m)
    BY <1>1, <1>3
  <2> QED BY <1>3, <2>1
<1>5. \E k \in 0 .. Cardinality(DOMAIN copies) :
          /\ <<seconds, k>> \notin DOMAIN copies
          /\ \A m \in 0 .. k - 1 : <<seconds, m>> \in DOMAIN copies
  BY <1>3, <1>4
<1> QED BY <1>5, Zenon DEF free_suffix

\* What a confirmed change does to the copies: the name it takes was free and
\* its copy is of the file it replaces; a copy goes only when there are
\* KEEP_COPIES of them before the change; and there are still finitely many.
LEMMA ConfirmKeeps ==
    ASSUME CopiesInv, NEW seconds \in Seconds, Confirm(seconds)
    PROVE  /\ CopiesInv'
           /\ replaced' # replaced => \E n \in DOMAIN copies' : copies'[n] = replaced'
           /\ (\E n \in DOMAIN copies : n \notin DOMAIN copies' \/ copies'[n] # copies[n])
                  => Cardinality(DOMAIN copies) >= KEEP_COPIES
<1> DEFINE kept == <<seconds, free_suffix(seconds)>>
           names == DOMAIN copies \cup {kept}
           all == [n \in names |-> IF n = kept THEN replaced + 1 ELSE copies[n]]
           gone == prune_copies(names, kept)
           left == names \ gone
<1>1. kept \notin DOMAIN copies
  BY TheNameIsFree
<1>2. IsFiniteSet(names) /\ Cardinality(names) = Cardinality(DOMAIN copies) + 1
  BY <1>1, FS_AddElement DEF CopiesInv
<1>3. kept \in left
  BY DEF prune_copies
<1>4. ASSUME NEW n \in gone PROVE Cardinality(DOMAIN copies) >= KEEP_COPIES
  <2> DEFINE older == {o \in names : OlderCopy(o, n)}
  <2>1. Cardinality(older) + KEEP_COPIES < Cardinality(names)
    BY DEF prune_copies
  <2>2. IsFiniteSet(older)
    BY <1>2, FS_Subset
  <2>3. Cardinality(older) \in Nat /\ Cardinality(DOMAIN copies) \in Nat /\ KEEP_COPIES \in Nat
    BY <2>2, FS_CardinalityType, CopiesAssumption DEF CopiesInv
  <2> HIDE DEF older
  <2> QED BY <1>2, <2>1, <2>3
<1>5. /\ DOMAIN all = names
      /\ \/ copies' = Only(left, all) /\ replaced' = replaced + 1
         \/ copies' = Only(left \ {kept}, all) /\ UNCHANGED replaced
  <2>1. DOMAIN all = names
    OBVIOUS
  <2> HIDE DEF all
  <2> QED BY <2>1, Zenon DEF Confirm, all
<1>6. \A n \in DOMAIN copies \ gone : n \in left \ {kept} /\ all[n] = copies[n]
  BY <1>1
<1>7. all[kept] = replaced + 1
  OBVIOUS
<1>8. left \subseteq names
  OBVIOUS
<1> HIDE DEF kept, names, all, gone, left
<1>9. PICK some \in {left, left \ {kept}} : copies' = Only(some, all)
  BY <1>5, Zenon
<1>10. DOMAIN copies' = some /\ \A n \in some : copies'[n] = all[n]
  BY <1>9, Zenon DEF Only
<1>11. CopiesInv'
  BY <1>2, <1>8, <1>9, <1>10, FS_Subset DEF CopiesInv
<1>12. ASSUME replaced' # replaced PROVE \E n \in DOMAIN copies' : copies'[n] = replaced'
  <2>1. copies' = Only(left, all) /\ replaced' = replaced + 1
    BY <1>5, <1>12, Zenon
  <2>2. kept \in DOMAIN copies' /\ copies'[kept] = all[kept]
    BY <1>3, <2>1, Zenon DEF Only
  <2> QED BY <1>7, <2>1, <2>2, Zenon
<1>13. ASSUME NEW n \in DOMAIN copies, n \notin DOMAIN copies' \/ copies'[n] # copies[n]
       PROVE  Cardinality(DOMAIN copies) >= KEEP_COPIES
  <2>1. n \in gone
    BY <1>6, <1>9, <1>10, <1>13
  <2> QED BY <1>4, <2>1
<1> QED BY <1>11, <1>12, <1>13

\* On a clock that moves on, copies are named in the order of the files they are
\* of, and no name is taken twice.
SteadyInv ==
    /\ replaced \in Nat /\ latest \in Int
    /\ \A n \in DOMAIN copies : n[1] \in Nat /\ n[1] <= latest /\ copies[n] \in 1 .. replaced
    /\ \A n, o \in DOMAIN copies : n # o => n[1] # o[1]
    /\ \A n, o \in DOMAIN copies : n[1] < o[1] => copies[n] < copies[o]
    /\ \A i \in 1 .. replaced :
           i > replaced - KEEP_COPIES + (IF failed THEN 1 ELSE 0) => \E n \in DOMAIN copies : copies[n] = i

\* Of a name that is pruned there are KEEP_COPIES newer ones, each of a later
\* file.
LEMMA PrunedIsOld ==
    ASSUME NEW names, IsFiniteSet(names), NEW all, NEW last \in Nat,
           \A n \in names : n[1] \in Nat /\ all[n] \in 1 .. last,
           \A n, o \in names : n # o => n[1] # o[1],
           \A n, o \in names : n[1] < o[1] => all[n] < all[o],
           NEW kept, NEW n \in prune_copies(names, kept)
    PROVE  all[n] <= last - KEEP_COPIES
<1> DEFINE older == {o \in names : OlderCopy(o, n)}
           rest == names \ older
           files == all[n] .. last
           copied == [o \in rest |-> all[o]]
<1>1. n \in names /\ Cardinality(older) + KEEP_COPIES < Cardinality(names)
  BY DEF prune_copies
<1>2. all[n] \in 1 .. last /\ n[1] \in Nat
  BY <1>1
<1>3. /\ IsFiniteSet(older) /\ IsFiniteSet(rest)
      /\ Cardinality(older) \in Nat /\ Cardinality(rest) \in Nat /\ Cardinality(names) \in Nat
      /\ names \cap older = older
      /\ Cardinality(rest) = Cardinality(names) - Cardinality(names \cap older)
  <2>1. IsFiniteSet(older) /\ IsFiniteSet(rest) /\ names \cap older = older
    BY FS_Subset
  <2> HIDE DEF older
  <2>2. QED
    BY <2>1, FS_CardinalityType, FS_Difference
<1>4. ASSUME NEW o \in rest PROVE all[o] \in files
  <2>1. o \in names /\ ~ (o[1] < n[1]) /\ o[1] \in Nat /\ all[o] \in 1 .. last
    BY <1>4 DEF OlderCopy
  <2>2. CASE o = n
    BY <1>2, <2>2
  <2>3. CASE o # n
    <3>1. n[1] < o[1]
      BY <1>1, <1>2, <2>1, <2>3
    <3>2. all[n] < all[o]
      BY <1>1, <2>1, <3>1
    <3>3. QED
      BY <1>2, <2>1, <3>2
  <2>4. QED
    BY <2>2, <2>3
<1>5. ASSUME NEW o \in rest, NEW p \in rest, all[o] = all[p] PROVE o = p
  <2>1. CASE o # p
    <3>1. o \in names /\ p \in names /\ o[1] \in Nat /\ p[1] \in Nat /\ o[1] # p[1]
      BY <1>5, <2>1
    <3>2. o[1] < p[1] \/ p[1] < o[1]
      BY <3>1
    <3>3. all[o] < all[p] \/ all[p] < all[o]
      BY <3>1, <3>2
    <3>4. all[o] \in Nat
      BY <3>1
    <3>5. QED
      BY <1>5, <3>3, <3>4
  <2>2. QED
    BY <2>1
<1>6. IsFiniteSet(files) /\ Cardinality(files) = last - all[n] + 1
  <2>1. PICK first : first = all[n]
    OBVIOUS
  <2>2. first \in Int /\ last \in Int /\ first <= last
    BY <1>2, <2>1
  <2>3. IsFiniteSet(first .. last) /\ Cardinality(first .. last) = last - first + 1
    BY <2>2, FS_Interval
  <2>4. QED
    BY <2>1, <2>3
<1> HIDE DEF older, rest, files
<1>7. copied \in [rest -> files] /\ \A o, p \in rest : copied[o] = copied[p] => o = p
  BY <1>4, <1>5
<1>8. copied \in Injection(rest, files)
  BY <1>7, Zenon DEF Injection, IsInjective
<1>9. Cardinality(rest) <= Cardinality(files)
  BY <1>6, <1>8, FS_Injection, Zenon
<1>10. KEEP_COPIES \in Nat
  BY CopiesAssumption
<1>11. PICK before, left, between, at \in Int :
          /\ before = Cardinality(older) /\ left = Cardinality(rest)
          /\ between = Cardinality(files) /\ at = all[n]
  <2>1. last - all[n] + 1 \in Int
    BY <1>2
  <2> QED BY <1>2, <1>3, <1>6, <2>1
<1>12. left = Cardinality(names) - before /\ before + KEEP_COPIES < Cardinality(names)
  BY <1>1, <1>3, <1>11
<1>13. between = last - at + 1 /\ left <= between
  BY <1>6, <1>9, <1>11
<1>14. PICK number \in Int : number = Cardinality(names)
  BY <1>3
<1>15. at <= last - KEEP_COPIES
  BY <1>10, <1>12, <1>13, <1>14
<1> QED BY <1>11, <1>15

\* A change at a later second than all before it.
LEMMA SteadyKeeps ==
    ASSUME CopiesInv, steady => SteadyInv, NEW seconds \in Seconds, Confirm(seconds), steady'
    PROVE  SteadyInv'
<1> DEFINE kept == <<seconds, free_suffix(seconds)>>
           names == DOMAIN copies \cup {kept}
           all == [n \in names |-> IF n = kept THEN replaced + 1 ELSE copies[n]]
           left == names \ prune_copies(names, kept)
<1>1. steady /\ latest' = seconds /\ seconds > latest /\ SteadyInv /\ seconds \in Nat /\ KEEP_COPIES \in Nat \ {0}
  BY CopiesAssumption DEF Confirm
<1>2. kept \notin DOMAIN copies /\ kept[1] = seconds /\ kept \in left
  BY TheNameIsFree DEF prune_copies
<1>3. IsFiniteSet(names)
  BY <1>2, FS_AddElement DEF CopiesInv
<1>4. DOMAIN all = names
  OBVIOUS
<1>5. all[kept] = replaced + 1 /\ \A n \in DOMAIN copies : n \in names /\ n # kept /\ all[n] = copies[n]
  BY <1>2
<1>6. \/ copies' = Only(left, all) /\ replaced' = replaced + 1 /\ failed' = FALSE
      \/ copies' = Only(left \ {kept}, all) /\ failed' = TRUE /\ UNCHANGED replaced
  <2> HIDE DEF all
  <2> QED BY <1>4, Zenon DEF Confirm, all
<1>7. \A n \in names : n = kept \/ n \in DOMAIN copies
  OBVIOUS
<1> HIDE DEF kept, names, all
<1>8. \A n \in DOMAIN copies : n[1] \in Nat /\ n[1] < seconds /\ all[n] \in 1 .. replaced /\ all[n] < replaced + 1
  BY <1>1, <1>5 DEF SteadyInv
<1>9. \A n \in names : n[1] \in Nat /\ n[1] <= seconds /\ all[n] \in 1 .. replaced + 1
  BY <1>1, <1>2, <1>5, <1>7, <1>8 DEF SteadyInv
<1>10. \A n, o \in names : n # o => n[1] # o[1]
  BY <1>1, <1>2, <1>7, <1>8 DEF SteadyInv
<1>11. \A n, o \in names : n[1] < o[1] => all[n] < all[o]
  <2> SUFFICES ASSUME NEW n \in names, NEW o \in names, n[1] < o[1] PROVE all[n] < all[o]
    OBVIOUS
  <2>1. n # kept
    BY <1>1, <1>2, <1>9
  <2>2. CASE o = kept
    BY <1>5, <1>7, <1>8, <2>1, <2>2
  <2>3. CASE o # kept
    BY <1>1, <1>5, <1>7, <2>1, <2>3 DEF SteadyInv
  <2>4. QED
    BY <2>2, <2>3
<1>12. replaced + 1 \in Nat
  BY <1>1 DEF SteadyInv
<1>13. \A n \in prune_copies(names, kept) : all[n] <= (replaced + 1) - KEEP_COPIES
  BY <1>3, <1>9, <1>10, <1>11, <1>12, PrunedIsOld
<1>14. \A n \in names : n \in left \/ n \in prune_copies(names, kept)
  OBVIOUS
<1>15. left \subseteq names
  OBVIOUS
<1> HIDE DEF left
<1>16. PICK some \in {left, left \ {kept}} : copies' = Only(some, all)
  BY <1>6, Zenon
<1>17. DOMAIN copies' = some /\ \A n \in some : copies'[n] = all[n] /\ n \in names
  BY <1>15, <1>16, Zenon DEF Only
<1>18. \A n \in DOMAIN copies' : copies'[n] \in 1 .. replaced'
  <2>1. CASE copies' = Only(left, all) /\ replaced' = replaced + 1
    BY <1>9, <1>17, <2>1
  <2>2. CASE copies' = Only(left \ {kept}, all) /\ UNCHANGED replaced
    <3>1. DOMAIN copies' = left \ {kept} /\ \A n \in left \ {kept} : copies'[n] = all[n]
      BY <2>2, Zenon DEF Only
    <3>2. QED
      BY <1>7, <1>8, <1>15, <2>2, <3>1
  <2>3. QED
    BY <1>6, <2>1, <2>2
<1>19. ASSUME NEW i \in 1 .. replaced', i > replaced' - KEEP_COPIES + (IF failed' THEN 1 ELSE 0)
       PROVE  \E n \in DOMAIN copies' : copies'[n] = i
  <2>1. replaced \in Nat
    BY <1>1 DEF SteadyInv
  <2>2. i > replaced + 1 - KEEP_COPIES /\ i \in 1 .. replaced + 1
    BY <1>1, <1>6, <1>19, <2>1
  <2>3. CASE i = replaced + 1
    <3>1. copies' = Only(left, all)
      BY <1>6, <1>19, <2>1, <2>3
    <3>2. kept \in DOMAIN copies' /\ copies'[kept] = all[kept]
      BY <1>2, <3>1, Zenon DEF Only
    <3>3. QED
      BY <1>5, <2>3, <3>2
  <2>4. CASE i # replaced + 1
    <3>1. i \in 1 .. replaced /\ i > replaced - KEEP_COPIES + (IF failed THEN 1 ELSE 0)
      BY <1>1, <2>1, <2>2, <2>4
    <3>2. PICK n \in DOMAIN copies : copies[n] = i
      BY <1>1, <3>1 DEF SteadyInv
    <3>3. n \in names /\ n # kept /\ all[n] = i
      BY <1>5, <3>2
    <3>4. n \notin prune_copies(names, kept)
      BY <1>1, <1>13, <2>1, <2>2, <3>3
    <3>5. n \in left \ {kept}
      BY <1>14, <3>3, <3>4
    <3>6. n \in some
      BY <3>5
    <3>7. QED
      BY <1>17, <3>3, <3>6
  <2>5. QED
    BY <2>3, <2>4
<1>20. \A n \in DOMAIN copies' : n[1] \in Nat /\ n[1] <= seconds
  BY <1>9, <1>17
<1>21. /\ \A n, o \in DOMAIN copies' : n # o => n[1] # o[1]
       /\ \A n, o \in DOMAIN copies' : n[1] < o[1] => copies'[n] < copies'[o]
  BY <1>10, <1>11, <1>17
<1>22. replaced' \in Nat
  BY <1>1, <1>6 DEF SteadyInv
<1>23. latest' \in Int /\ \A n \in DOMAIN copies' : n[1] <= latest'
  BY <1>1, <1>20
<1>24. \A n \in DOMAIN copies' : n[1] \in Nat /\ n[1] <= latest' /\ copies'[n] \in 1 .. replaced'
  BY <1>18, <1>20, <1>23
<1> QED BY <1>19, <1>21, <1>22, <1>23, <1>24 DEF SteadyInv

\* For every number of copies that are kept, whenever the board restarts and
\* whichever writes fail: the file a change replaces has its copy when the change
\* is done, whatever the clock says; a copy goes only to make room; and on a clock
\* that moves on from one change to the next the last KEEP_COPIES files that were
\* replaced have their copies, but for the one a failed write has cost.
THEOREM HandWorkIsKept == copies_Spec => CopiesAreKept
<1> DEFINE Replaced == replaced' # replaced => \E n \in DOMAIN copies' : copies'[n] = replaced'
           Room == (\E n \in DOMAIN copies : n \notin DOMAIN copies' \/ copies'[n] # copies[n])
                       => Cardinality(DOMAIN copies) >= KEEP_COPIES
<1>1. copies_Init => CopiesInv /\ (steady => SteadyInv)
  BY FS_EmptySet DEF copies_Init, CopiesInv, SteadyInv
<1>2. ASSUME CopiesInv, [copies_Next]_copy_vars PROVE CopiesInv' /\ [Replaced]_copy_vars /\ [Room]_copy_vars
  <2>1. ASSUME NEW seconds \in Seconds, Confirm(seconds) PROVE CopiesInv' /\ Replaced /\ Room
    BY <1>2, <2>1, ConfirmKeeps, Zenon
  <2>2. CASE RestartCopies
    BY <1>2, <2>2 DEF RestartCopies, CopiesInv
  <2>3. CASE UNCHANGED copy_vars
    BY <1>2, <2>3 DEF copy_vars, CopiesInv
  <2> QED BY <1>2, <2>1, <2>2, <2>3 DEF copies_Next
<1>3. ASSUME CopiesInv, steady => SteadyInv, [copies_Next]_copy_vars PROVE (steady => SteadyInv)'
  <2>1. ASSUME NEW seconds \in Seconds, Confirm(seconds) PROVE (steady => SteadyInv)'
    BY <1>3, <2>1, SteadyKeeps
  <2>2. CASE RestartCopies \/ UNCHANGED copy_vars
    <3>1. UNCHANGED <<copies, replaced, failed, latest, steady>>
      BY <2>2 DEF RestartCopies, copy_vars
    <3>2. SteadyInv => SteadyInv'
      BY <3>1 DEF SteadyInv
    <3>3. QED
      BY <1>3, <3>1, <3>2
  <2> QED BY <1>3, <2>1, <2>2 DEF copies_Next
<1>4. (steady => SteadyInv) => LatestAreKept
  BY DEF SteadyInv, LatestAreKept
<1> QED BY <1>1, <1>2, <1>3, <1>4, PTL DEF copies_Spec, CopiesAreKept, TheReplacedIsThere, NothingGoesEarly
=============================================================================
