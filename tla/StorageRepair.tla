--------------------------- MODULE StorageRepair ----------------------------
(***************************************************************************)
(* Is the board keeping its settings, and the repair for when it is not    *)
(* (app/storage_status.rs, api/storage.rs): the answer worked out from the *)
(* mount table, the command line and sysfs; `ubirmvol` on a blocking       *)
(* thread with a timeout around it and a guard against a second one; the   *)
(* detached task that reboots; and the boot that recreates the volume      *)
(* (/sbin/preinit, which is not in this repository).                       *)
(***************************************************************************)
EXTENDS Naturals, Sequences, FiniteSets

CONSTANTS
    Repairer,   \* the POST /repair requests of a behaviour
    MaxBoots    \* bound: boots of a behaviour

VARIABLES
    board,      \* what does not change: where the image is, how root= says so,
                \* whether preinit writes a reason
    volume,     \* the settings volume on the flash: good, bad or absent
    boot,       \* this boot: KEY1, whether the volume was mounted, how many so far
    by_hand,    \* the volume was mounted by hand since
    repairing,  \* StorageService.repairing
    thread,     \* the blocking thread of each repair()
    waiter      \* the detached task of each repair_and_reboot()
storage_vars == <<board, volume, boot, by_hand, repairing, thread, waiter>>

Board == [medium : {"ubiblock", "mmcblk"}, root : {"device", "number", "label"}, reasons : BOOLEAN]

(***************************************************************************)
(* What the board shows.  A device is its driver's name; "root" is the     *)
(* pseudo-name /dev/root; an upper directory is the layer it lies in.      *)
(***************************************************************************)
Mount(device, mountpoint, fstype, upper) ==
    [device |-> device, mountpoint |-> mountpoint, fstype |-> fstype, upper |-> upper]

\* The root image first (at /mnt/rom when preinit mounted it), then the settings
\* volume, then the overlay over `/`.
Mounts ==
    <<IF board.root = "device" THEN Mount(board.medium, "/mnt/rom", "squashfs", "none")
                               ELSE Mount("root", "/", "squashfs", "none")>>
    \o (IF boot.mounted \/ by_hand THEN <<Mount("volume", "/mnt/overlay", "ubifs", "none")>> ELSE << >>)
    \o <<Mount("none", "/", "overlay", IF boot.mounted THEN "saved" ELSE "safemode")>>

\* The volumes of the first UBI device, by name.
read_ubi_volume_names == {"uboot", "rootfs"} \cup (IF volume = "absent" THEN {} ELSE {"overlay"})

\* The block devices of sysfs: the medium of the root image, by its number.
read_block_devices == {[name |-> board.medium, dev |-> "254:0"]}

Facts ==
    [mounts |-> Mounts,
     reason_file |-> IF boot.mounted \/ ~board.reasons THEN "none"
                     ELSE IF boot.key1 THEN "requested" ELSE "mount_failed",
     cmdline |-> [safemode |-> boot.key1,
                  root |-> IF board.root = "number" THEN "254:0" ELSE "label"],
     ubi_volumes |-> read_ubi_volume_names,
     block_devices |-> read_block_devices]

cmdline_requests_safemode(cmdline) == cmdline.safemode
has_overlay_volume(names) == "overlay" \in names

\* The last of the mounts at the given places, if there is one.
Last_of(mounts, found) ==
    IF found = {} THEN << >> ELSE <<mounts[CHOOSE i \in found : \A j \in found : j <= i]>>

On(mounts, mountpoint) == {i \in DOMAIN mounts : mounts[i].mountpoint = mountpoint}

upperdir(mount) == mount.upper

state_from_mounts(mounts) ==
    LET root == Last_of(mounts, {i \in On(mounts, "/") : mounts[i].fstype = "overlay"})
    IN  IF root = << >> \/ upperdir(root[1]) = "none" THEN "unknown"
        ELSE IF upperdir(root[1]) = "safemode" THEN "temporary" ELSE "persistent"

\* What `root=` stands for: the device of that number; a label is not resolved.
root_device_name(root, devices) ==
    IF \E d \in devices : d.dev = root THEN (CHOOSE d \in devices : d.dev = root).name
    ELSE "unresolved"

classify_device(name) ==
    CASE name = "ubiblock" -> "ubi" [] name = "mmcblk" -> "mmc" [] OTHER -> "unknown"

\* /mnt/rom if preinit mounted the image there, else `/`; the mount's device
\* when it names one, else the kernel's own root=.
backing_from_mounts(facts) ==
    LET rom == Last_of(facts.mounts, On(facts.mounts, "/mnt/rom"))
        slash == Last_of(facts.mounts, On(facts.mounts, "/"))
        root == IF rom # << >> THEN rom ELSE slash
    IN  IF root = << >> THEN "unknown"
        ELSE IF root[1].device \in {"ubiblock", "mmcblk"} THEN classify_device(root[1].device)
        ELSE classify_device(root_device_name(facts.cmdline.root, facts.block_devices))

overlay_mounted(mounts) == \E i \in DOMAIN mounts : mounts[i].mountpoint = "/mnt/overlay"

\* Seeded bug: the reason file is believed before the command line.
reason_by_file(facts) == IF facts.reason_file = "none" THEN "unrecorded" ELSE facts.reason_file

\* What preinit wrote in line 1; there may be no file.
parse_reason_file(line) == IF line \in {"requested", "mount_failed"} THEN line ELSE "unrecorded"

reason_of(facts) ==
    IF cmdline_requests_safemode(facts.cmdline) THEN "requested"
    ELSE parse_reason_file(facts.reason_file)

repair_blocker(state, reason, backing, volume_present, overlay_is_mounted) ==
    \/ state # "temporary"
    \/ reason = "requested"
    \/ backing # "ubi"
    \/ ~volume_present
    \/ overlay_is_mounted

\* assess(): the repair is on offer.
Repairable(facts) ==
    ~repair_blocker(state_from_mounts(facts.mounts), reason_of(facts), backing_from_mounts(facts),
                    has_overlay_volume(facts.ubi_volumes), overlay_mounted(facts.mounts))

(***************************************************************************)
(* The boot: KEY1 asks for the temporary layer, and so does a volume that  *)
(* will not mount, which a good one may do once; a missing one is made     *)
(* again.  A board on its SD card mounts that and leaves the flash alone.  *)
(***************************************************************************)
Boots(left) ==
    \E key1 \in BOOLEAN, fails \in BOOLEAN :
        /\ volume' = IF left = "absent" /\ ~key1 /\ board.medium = "ubiblock" THEN "good" ELSE left
        /\ boot' = [key1 |-> key1, number |-> boot.number + 1,
                    mounted |-> ~key1 /\ ~fails /\ (board.medium = "mmcblk" \/ volume' = "good")]

storage_Init ==
    /\ board \in Board
    /\ volume \in {"good", "bad"}
    /\ \E key1 \in BOOLEAN, fails \in BOOLEAN :
           boot = [key1 |-> key1, number |-> 1,
                   mounted |-> ~key1 /\ ~fails /\ (board.medium = "mmcblk" \/ volume = "good")]
    /\ by_hand = FALSE
    /\ repairing = FALSE
    /\ thread = [r \in Repairer |-> "none"]
    /\ waiter = [r \in Repairer |-> "none"]

\* POST /repair with {"confirm": true}: one detached task, one blocking thread.
repair_and_reboot(r) ==
    /\ thread[r] = "none" /\ waiter[r] = "none"
    /\ thread' = [thread EXCEPT ![r] = "asked"]
    /\ waiter' = [waiter EXCEPT ![r] = "waiting"]
    /\ UNCHANGED <<board, volume, boot, by_hand, repairing>>

\* repair(): decided from the board as it is now.
Decide(r) ==
    /\ thread[r] = "asked"
    /\ thread' = [thread EXCEPT ![r] = IF Repairable(Facts) THEN "offered" ELSE "refused"]
    /\ UNCHANGED <<board, volume, boot, by_hand, repairing, waiter>>

TakeGuard(r) ==
    /\ thread[r] = "offered"
    /\ repairing' = TRUE
    /\ thread' = [thread EXCEPT ![r] = IF repairing THEN "refused" ELSE "removing"]
    /\ UNCHANGED <<board, volume, boot, by_hand, waiter>>

\* ubirmvol: it takes the volume unless it is in use or gone, or it fails; a
\* failure gives the guard back, however late it comes.
ubirmvol(r) ==
    /\ thread[r] = "removing"
    /\ \/ /\ volume # "absent" /\ ~boot.mounted /\ ~by_hand
          /\ volume' = "absent"
          /\ thread' = [thread EXCEPT ![r] = "removed"]
          /\ UNCHANGED repairing
       \/ /\ thread' = [thread EXCEPT ![r] = "failed"]
          /\ repairing' = FALSE
          /\ UNCHANGED volume
    /\ UNCHANGED <<board, boot, by_hand, waiter>>

\* The task hears from its thread; after a removal it sleeps, then reboots.
\* The client may be gone: "Nobody listening is fine".
Answer(r) ==
    /\ waiter[r] = "waiting"
    /\ thread[r] \in {"refused", "failed", "removed"}
    /\ waiter' = [waiter EXCEPT ![r] = IF thread[r] = "removed" THEN "rebooting" ELSE "over"]
    /\ UNCHANGED <<board, volume, boot, by_hand, repairing, thread>>

\* REMOVE_TIMEOUT: the guard is given back, the command may still finish.
RemoveTimesOut(r) ==
    /\ waiter[r] = "waiting"
    /\ thread[r] \in {"asked", "offered", "removing"}
    /\ waiter' = [waiter EXCEPT ![r] = "timed_out"]
    /\ repairing' = FALSE
    /\ UNCHANGED <<board, volume, boot, by_hand, thread>>

\* The board comes up again: the daemon's memory is gone, its guard with it.
Reboots ==
    /\ boot.number < MaxBoots
    /\ Boots(volume)
    /\ by_hand' = FALSE
    /\ repairing' = FALSE
    /\ thread' = [r \in Repairer |-> "none"]
    /\ waiter' = [r \in Repairer |-> "none"]
    /\ UNCHANGED board

RepairReboots == (\E r \in Repairer : waiter[r] = "rebooting") /\ Reboots
RebootFails(r) ==
    /\ waiter[r] = "rebooting"
    /\ waiter' = [waiter EXCEPT ![r] = "reboot_failed"]
    /\ UNCHANGED <<board, volume, boot, by_hand, repairing, thread>>

\* The operator: power, or a shell on a board whose volume mounts after all.
PowerCycle == Reboots
MountByHand ==
    /\ ~boot.mounted /\ ~by_hand /\ volume = "good"
    /\ by_hand' = TRUE
    /\ UNCHANGED <<board, volume, boot, repairing, thread, waiter>>

Repairs(r) ==
    \/ repair_and_reboot(r) \/ Decide(r) \/ TakeGuard(r) \/ ubirmvol(r) \/ Answer(r)
    \/ RemoveTimesOut(r) \/ RebootFails(r)
storage_Next == (\E r \in Repairer : Repairs(r)) \/ RepairReboots \/ PowerCycle \/ MountByHand

storage_Spec == storage_Init /\ [][storage_Next]_storage_vars

(***************************************************************************)
(* Properties.                                                             *)
(***************************************************************************)
\* "The saved settings are fine and a normal reboot uses them": the volume is
\* removed only in a boot that tried to mount it and could not, of a board
\* that keeps its settings there, and while nothing uses it.
OnlyTheUnusableIsErased ==
    [][ (volume # "absent" /\ volume' = "absent")
            => board.medium = "ubiblock" /\ ~boot.key1 /\ ~boot.mounted /\ ~by_hand ]_storage_vars

\* "The volume that was removed is followed by the reboot that recreates it",
\* whether or not the client is still there: unless the removal finished after
\* its task had given up, or the reboot itself failed.
RemovalIsFollowedByAReboot ==
    \A r \in Repairer : thread[r] = "removed" =>
        waiter[r] \in {"waiting", "rebooting", "reboot_failed", "timed_out"}

\* "A second request cannot start a second repair before the board goes down":
\* two removals at once take one that has timed out.
OneRemovalAtATime ==
    (\A r \in Repairer : waiter[r] # "timed_out")
        => Cardinality({r \in Repairer : thread[r] \in {"removing", "removed"}}) <= 1

\* What POST /repair promises about the settings volume, together (repair_async,
\* repair_and_reboot).
RepairIsSafe ==
    /\ OnlyTheUnusableIsErased
    /\ [](RemovalIsFollowedByAReboot /\ OneRemovalAtATime)
=============================================================================
