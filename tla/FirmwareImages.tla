--------------------------- MODULE FirmwareImages ---------------------------
(***************************************************************************)
(* What becomes of a firmware image: parked on the SD card, where the      *)
(* catalogue lists it, or staged, given to `osupdate` and armed for the    *)
(* next boot (app/upgrade_worker.rs: os_park, os_update), the requests     *)
(* that ask for these or for an install from a source (api/legacy.rs), and *)
(* what the board says of its two firmware volumes (app/firmware_info.rs). *)
(* `osupdate`, `tpi-selfupdate`, U-Boot and the gate that promotes an      *)
(* image are not in this repository.                                       *)
(*                                                                         *)
(* A file's content is who wrote it since it was last emptied, and whether *)
(* the last of them wrote it to the end.                                   *)
(***************************************************************************)
EXTENDS Naturals, FiniteSets

CONSTANTS
    Upgrade,     \* the firmware transfers of a behaviour
    Asked,       \* what each may ask for: [park, name, sha256, force, from]
    MaxReboots,  \* bound
    Nothing

\* A version of a source is installed, never parked.
ASSUME SourceIsInstalled == \A a \in Asked : a.from = "source" => ~a.park

VARIABLES
    asks,        \* what each transfer asked for
    work,        \* how far each worker is
    told,        \* the transfers whose token is cancelled
    short,       \* the uploads whose client stopped before the end
    overlapped,  \* history: one was admitted while the other was installing
    parked,      \* PARK_DIR: the image under each name
    partial,     \* PARK_DIR: the `.partial` beside it
    place,       \* the staging directory each install selected
    staged,      \* the images in the staging directories
    volumes,     \* the two firmware volumes: a name, an image
    attached,    \* the volume the board booted from
    nextboot,    \* the U-Boot variable
    readable,    \* the U-Boot environment can be read
    note,        \* STAGED_NOTE: the transfer it speaks of
    rollback_note,  \* ROLLBACK_VERSION: the image the gate left behind
    proven,      \* history: the images the gate has promoted
    reboots
image_vars == <<asks, work, told, short, overlapped, parked, partial, place, staged,
                volumes, attached, nextboot, readable, note, rollback_note, proven,
                reboots>>

Name == {a.name : a \in Asked}
\* UPGRADE_STAGING_DIRS, most preferred first.
Dir == <<"/mnt/sdcard", "/mnt/overlay", "/tmp">>
Place == {Dir[i] : i \in DOMAIN Dir}

Content(writers, whole) == [writers |-> writers, whole |-> whole]
Opened(u) == Content({u}, FALSE)
\* One transfer's image, all of it.
Whole(content) == content.whole /\ Cardinality(content.writers) = 1

Running == {u \in Upgrade : work[u] \notin {"none", "over"}}
Installing == {u \in Running : ~asks[u].park}
Goes(u, stage) == work' = [work EXCEPT ![u] = stage]

images_Init ==
    /\ asks \in [Upgrade -> Asked]
    /\ work = [u \in Upgrade |-> "none"]
    /\ told = {} /\ short = {} /\ overlapped = {}
    /\ parked = [n \in Name |-> Nothing]
    /\ partial = [n \in Name |-> Nothing]
    /\ place = [u \in Upgrade |-> Nothing]
    /\ staged = [p \in Place |-> [n \in Name |-> Nothing]]
    /\ volumes = <<[name |-> "rootfs", image |-> Content({"factory"}, TRUE)],
                   [name |-> "rootfs_prev", image |-> Content({"older"}, TRUE)]>>
    /\ attached = 1
    /\ nextboot = FALSE
    /\ readable \in BOOLEAN
    /\ note = Nothing /\ rollback_note = Nothing
    /\ proven = {Content({"factory"}, TRUE), Content({"older"}, TRUE)}
    /\ reboots = 0

(***************************************************************************)
(* What the board says of its slots.                                       *)
(***************************************************************************)
\* An environment that cannot be read is not evidence that nothing is staged.
read_nextboot == IF readable THEN (IF nextboot THEN "staged" ELSE "clear") ELSE "unknown"

\* Seeded bug: the staging volume counts among the others.
rollback_any(vols) ==
    LET others == {v \in DOMAIN vols : ~vols[v].running}
        named == {v \in others : vols[v].name = "rootfs_prev"}
    IN  IF named # {} THEN named ELSE IF Cardinality(others) = 1 THEN others ELSE {}

\* pick_slots: the volume the promotion script names, or the single other slot
\* that is not the staging volume; no answer is better than a guess.
pick_slots(vols) ==
    LET others == {v \in DOMAIN vols : ~vols[v].running /\ vols[v].name # "rootfs_new"}
        named == {v \in others : vols[v].name = "rootfs_prev"}
    IN  IF named # {} THEN named ELSE IF Cardinality(others) = 1 THEN others ELSE {}

\* The volumes, by number; the one with a ubiblock device is the running one.
is_attached(v) == v = attached
read_volumes == [v \in DOMAIN volumes |-> [name |-> volumes[v].name, running |-> is_attached(v)]]

\* The file the gate left, and the note of what was staged: absent when empty.
read_rollback_version == rollback_note
read_staged == note

\* get_firmware_slots: both slots; the version of the one that is not mounted is
\* what the gate wrote down of it.
get_firmware_slots ==
    LET rollback == pick_slots(read_volumes)
    IN [running |-> volumes[attached].image,
        rollback |-> rollback,
        rollback_version |-> IF rollback = {} THEN Nothing ELSE read_rollback_version,
        update_staged |-> read_nextboot,
        staged |-> read_staged]

(***************************************************************************)
(* opt=set&type=firmware: a second image is refused while one is armed,    *)
(* unless forced or parked; an admitted one cancels whatever is going on.  *)
(***************************************************************************)
\* DataTransfer::size opens a local file, so one that is not there is refused.
Missing(u) == asks[u].from = "card" /\ parked[asks[u].name] = Nothing

InstallRefused(u) == Missing(u) \/ (~asks[u].park /\ ~asks[u].force /\ read_nextboot = "staged")

handle_transfer_request(u) ==
    /\ work[u] = "none" /\ asks[u].from # "source"
    /\ Goes(u, IF InstallRefused(u) THEN "over" ELSE "opening")
    /\ told' = IF InstallRefused(u) THEN told ELSE told \cup Running
    /\ overlapped' = IF Installing # {} THEN overlapped \cup Installing \cup {u} ELSE overlapped
    /\ UNCHANGED <<asks, short, parked, partial, place, staged, volumes, attached, nextboot,
                   readable, note, rollback_note, proven, reboots>>

\* opt=set&type=firmware_install: a version of a source.  The updater runs beside
\* the transfers: it cancels none and none cancels it.
install_firmware(u) ==
    /\ work[u] = "none" /\ asks[u].from = "source"
    /\ LET refused == ~asks[u].force /\ get_firmware_slots.update_staged = "staged"
       IN  /\ Goes(u, IF refused THEN "over" ELSE "selfupdate")
           /\ overlapped' = IF Installing # {} THEN overlapped \cup Installing \cup {u} ELSE overlapped
    /\ UNCHANGED <<asks, told, short, parked, partial, place, staged, volumes, attached, nextboot,
                   readable, note, rollback_note, proven, reboots>>

\* The client of an upload stops short: cancel_all, and its half of the channel
\* is dropped.
StopShort(u) ==
    /\ work[u] \in {"opening", "copying"} /\ asks[u].from = "upload"
    /\ u \notin short
    /\ short' = short \cup {u}
    /\ told' = told \cup Running
    /\ UNCHANGED <<asks, work, overlapped, parked, partial, place, staged, volumes, attached,
                   nextboot, readable, note, rollback_note, proven, reboots>>

\* What the reader gives to the end: an upload that was cut ends early; a local
\* image is read from the card; with a sha256 the end is an error unless it is
\* the image (Sha256StreamValidator).
ReadsWhole(u) ==
    IF asks[u].from = "card" THEN Whole(parked[asks[u].name])
    ELSE u \notin short
EndOfStream(u) == ~asks[u].sha256 \/ ReadsWhole(u)

\* Writing to a file another has emptied since mixes the two.
Written(u, content) == Content(content.writers \cup {u}, ReadsWhole(u))
Mine(u, content) == content # Nothing /\ u \in content.writers

(***************************************************************************)
(* os_park.                                                                *)
(***************************************************************************)
Unchanged_but_files ==
    UNCHANGED <<asks, told, short, overlapped, place, staged, volumes, attached, nextboot,
                readable, note, rollback_note, proven, reboots>>

\* No card, no room: nothing is written.
ParkRefused(u) ==
    /\ work[u] = "opening" /\ asks[u].park
    /\ Goes(u, "over")
    /\ UNCHANGED <<parked, partial>> /\ Unchanged_but_files

\* Seeded bug: the image is written under its own name.
ParkOpens_in_place(u) ==
    /\ work[u] = "opening" /\ asks[u].park
    /\ Goes(u, "copying")
    /\ partial' = [partial EXCEPT ![asks[u].name] = Opened(u)]
    /\ parked' = [parked EXCEPT ![asks[u].name] = Opened(u)]
    /\ Unchanged_but_files

\* The card is there and has room: a `.partial` beside the name.
ParkOpens(u) ==
    /\ work[u] = "opening" /\ asks[u].park
    /\ Goes(u, "copying")
    /\ partial' = [partial EXCEPT ![asks[u].name] = Opened(u)]
    /\ UNCHANGED parked /\ Unchanged_but_files

\* copy_or_cancel to the end of the stream, then sync_all.  Whoever opened the
\* file last emptied it; if it was renamed or removed the bytes go to the inode.
ParkCopied(u) ==
    /\ work[u] = "copying" /\ asks[u].park
    /\ EndOfStream(u)
    /\ Goes(u, "renaming")
    /\ LET n == asks[u].name
           Into(files) == IF files[n] # Nothing THEN [files EXCEPT ![n] = Written(u, @)] ELSE files
       IN  IF Mine(u, partial[n])
           THEN partial' = Into(partial) /\ UNCHANGED parked
           ELSE IF Mine(u, parked[n])
           THEN parked' = Into(parked) /\ UNCHANGED partial
           ELSE partial' = Into(partial) /\ UNCHANGED parked
    /\ Unchanged_but_files

\* Cancelled, a bad sum, an I/O error: the partial file is removed, whoever's
\* it is by now.
ParkFails(u) ==
    /\ work[u] = "copying" /\ asks[u].park
    /\ Goes(u, "over")
    /\ partial' = [partial EXCEPT ![asks[u].name] = Nothing]
    /\ UNCHANGED parked /\ Unchanged_but_files

ParkRenames(u) ==
    /\ work[u] = "renaming"
    /\ Goes(u, "over")
    /\ LET n == asks[u].name IN
           \/ /\ partial[n] # Nothing
              /\ parked' = [parked EXCEPT ![n] = partial[n]]
              /\ partial' = [partial EXCEPT ![n] = Nothing]
           \/ partial[n] = Nothing /\ UNCHANGED <<parked, partial>>
    /\ Unchanged_but_files

(***************************************************************************)
(* os_update.                                                              *)
(***************************************************************************)
\* The first directory that is a writable mount with room, else /tmp.
select_staging_dir(fits) ==
    IF \E i \in DOMAIN Dir : fits[i]
    THEN Dir[CHOOSE i \in DOMAIN Dir : fits[i] /\ \A j \in 1 .. i - 1 : ~fits[j]]
    ELSE "/tmp"

UpdateOpens(u) ==
    /\ work[u] = "opening" /\ ~asks[u].park
    /\ \E fits \in [DOMAIN Dir -> BOOLEAN] :
           LET p == select_staging_dir(fits)
           IN  /\ place' = [place EXCEPT ![u] = p]
               /\ staged' = [staged EXCEPT ![p][asks[u].name] = Opened(u)]
    /\ Goes(u, "copying")
    /\ UNCHANGED <<asks, told, short, overlapped, parked, partial, volumes, attached, nextboot,
                   readable, note, rollback_note, proven, reboots>>

Staged(u) == staged[place[u]][asks[u].name]
UpdateChanges(s, e) ==
    /\ staged' = s
    /\ UNCHANGED <<asks, told, short, overlapped, parked, partial, place, attached, readable,
                   rollback_note, proven, reboots>>
    /\ e

UpdateCopied(u) ==
    /\ work[u] = "copying" /\ ~asks[u].park
    /\ EndOfStream(u)
    /\ Goes(u, "osupdate")
    /\ UpdateChanges(IF Staged(u) = Nothing THEN staged
                     ELSE [staged EXCEPT ![place[u]][asks[u].name] = Written(u, @)],
                     UNCHANGED <<volumes, nextboot, note>>)

\* Cancelled or failed: what was written stays in the staging directory.
UpdateFails(u) ==
    /\ work[u] = "copying" /\ ~asks[u].park
    /\ Goes(u, "over")
    /\ UpdateChanges(staged, UNCHANGED <<volumes, nextboot, note>>)

\* `osupdate` writes the volume that is not running and arms it; no token stops
\* it.  Two at once write one volume.
Flashing == {v \in Upgrade : work[v] \in {"osupdate", "selfupdate"}}
Flashes(u, image) ==
    /\ volumes' = [volumes EXCEPT ![3 - attached] =
           [name |-> "rootfs_new",
            image |-> Content(image.writers \cup (Flashing \ {u}), image.whole)]]
    /\ nextboot' = TRUE

osupdate(u) ==
    /\ work[u] = "osupdate"
    /\ \/ /\ Staged(u) # Nothing
          /\ Goes(u, "cleaning")
          /\ UpdateChanges(staged, Flashes(u, Staged(u)) /\ UNCHANGED note)
       \/ /\ Goes(u, "cleaning_failed")
          /\ UpdateChanges(staged, UNCHANGED <<volumes, nextboot, note>>)

\* `tpi-selfupdate` downloads, verifies, runs osupdate and writes the note.
selfupdate(u) ==
    /\ work[u] = "selfupdate"
    /\ Goes(u, "over")
    /\ \/ UpdateChanges(staged, Flashes(u, Content({u}, TRUE)) /\ note' \in {u, note})
       \/ UpdateChanges(staged, UNCHANGED <<volumes, nextboot, note>>)

\* The staging directory goes, with everything in it; one that is gone already
\* is an error, and then no note is written.
UpdateCleans(u) ==
    /\ work[u] \in {"cleaning", "cleaning_failed"}
    /\ LET gone == \A n \in Name : staged[place[u]][n] = Nothing
       IN  Goes(u, IF work[u] = "cleaning" /\ ~gone THEN "noting" ELSE "over")
    /\ UpdateChanges([staged EXCEPT ![place[u]] = [n \in Name |-> Nothing]],
                     UNCHANGED <<volumes, nextboot, note>>)

\* write_staged_note; a failure is logged.
UpdateNotes(u) ==
    /\ work[u] = "noting"
    /\ Goes(u, "over")
    /\ UpdateChanges(staged, note' \in {u, note} /\ UNCHANGED <<volumes, nextboot>>)

(***************************************************************************)
(* A reboot, or the power: workers and /tmp are gone.  An armed volume is  *)
(* booted once; the gate then promotes it or goes back, and removes the    *)
(* note either way.                                                        *)
(***************************************************************************)
Reboot ==
    /\ reboots < MaxReboots
    /\ reboots' = reboots + 1
    /\ work' = [u \in Upgrade |-> IF work[u] = "none" THEN "none" ELSE "over"]
    /\ staged' = [staged EXCEPT !["/tmp"] = [n \in Name |-> Nothing]]
    /\ nextboot' = FALSE
    /\ attached' = IF nextboot THEN 3 - attached ELSE attached
    /\ UNCHANGED <<asks, told, short, overlapped, parked, partial, place, volumes, readable,
                   note, rollback_note, proven>>

\* The gate judges the image before the board is used.
Tentative == volumes[attached].name = "rootfs_new"
NotAtWork == \A u \in Upgrade : work[u] \in {"none", "over"}

Promote ==
    /\ Tentative /\ NotAtWork
    /\ volumes' = [v \in 1 .. 2 |-> [volumes[v] EXCEPT !.name =
                                        IF v = attached THEN "rootfs" ELSE "rootfs_prev"]]
    /\ proven' = proven \cup {volumes[attached].image}
    /\ note' = Nothing
    /\ rollback_note' \in {volumes[3 - attached].image, Nothing}
    /\ UNCHANGED <<asks, work, told, short, overlapped, parked, partial, place, staged,
                   attached, nextboot, readable, reboots>>

RollBack ==
    /\ Tentative /\ NotAtWork
    /\ attached' = 3 - attached
    /\ note' = Nothing
    /\ UNCHANGED <<asks, work, told, short, overlapped, parked, partial, place, staged,
                   volumes, nextboot, readable, rollback_note, proven, reboots>>

Transfers(u) ==
    \/ handle_transfer_request(u) \/ install_firmware(u) \/ StopShort(u)
    \/ ParkRefused(u) \/ ParkOpens(u) \/ ParkCopied(u) \/ ParkFails(u) \/ ParkRenames(u)
    \/ UpdateOpens(u) \/ UpdateCopied(u) \/ UpdateFails(u) \/ osupdate(u) \/ selfupdate(u)
    \/ UpdateCleans(u) \/ UpdateNotes(u)
images_Next == (\E u \in Upgrade : ~Tentative /\ Transfers(u)) \/ Reboot \/ Promote \/ RollBack

ImagesSpec == images_Init /\ [][images_Next]_image_vars

\* Two uploads are not parked under one name at the same time: the run
\* parked_cut shows what becomes of that.
ParksOfOwnNames ==
    \A u, v \in Upgrade : u # v /\ asks[u].park /\ asks[v].park => asks[u].name # asks[v].name

(***************************************************************************)
(* Properties.                                                             *)
(***************************************************************************)
\* "A transfer that is cancelled or fails halfway cannot leave a truncated
\* image in the directory the catalogue lists": an image sent with its sha256
\* is listed whole or not at all, whatever is cancelled, renamed or cut off by
\* the power in between.
ListedIsWhole ==
    \A n \in Name : parked[n] = Nothing \/ Whole(parked[n])
                    \/ \E u \in parked[n].writers : ~asks[u].sha256

\* "Refuse to stage a second image over one that is already armed": without
\* `force`, neither osupdate nor the updater runs over an armed volume unless one
\* install was admitted while another was still under way.
ArmedIsLeftAlone ==
    [][ \A u \in Upgrade :
            (nextboot /\ volumes' # volumes /\ u \in Flashing /\ work'[u] # work[u])
                => asks[u].force \/ ~readable \/ u \in overlapped ]_image_vars

\* "A note never claims an image that was not staged": one that is there names
\* the image osupdate has written and the gate has not yet judged, as long as no
\* second install was let in over the first.
NoteIsOfAStagedImage ==
    (note # Nothing /\ readable /\ overlapped = {} /\ \A u \in Upgrade : ~asks[u].force)
        => \E v \in 1 .. 2 : volumes[v].name = "rootfs_new" /\ volumes[v].image.writers = {note}

\* "A wrong answer here names the volume somebody would boot in a recovery":
\* the rollback the board names holds an image that the gate has promoted, and
\* once the gate has judged this boot the version given for it is that image's.
RollbackIsProven ==
    \A v \in get_firmware_slots.rollback :
        /\ volumes[v].image \in proven
        /\ ~Tentative => get_firmware_slots.rollback_version \in {volumes[v].image, Nothing}

\* What installing leaves to go back to, and to boot next, together (os_update,
\* pick_slots, the note of what was staged).
InstallKeepsAWayBack ==
    /\ ArmedIsLeftAlone
    /\ [](NoteIsOfAStagedImage /\ RollbackIsProven)
=============================================================================
