--------------------------- MODULE FirmwareProofs ---------------------------
(***************************************************************************)
(* Proofs about firmware: the answer of the update check is fresh and the  *)
(* updater runs once for everybody who waits; what the catalogue lists is  *)
(* whole; an install leaves a way back, and a note of what is armed; the   *)
(* cached listing is never wrong without saying so; an image on the card   *)
(* is a file of the card; and tags are in the order of the versions they   *)
(* name, in the listing too.                                               *)
(***************************************************************************)
EXTENDS UpdateCheck, FirmwareImages, FirmwareCatalog, SdCardFiles, ReleaseTags,
        Recursion, SequenceTheorems, FiniteSetTheorems, TLAPS

(***************************************************************************)
(* The update check.                                                       *)
(***************************************************************************)
Kept == [at : Nat, stable : BOOLEAN, edge : BOOLEAN]

\* An answer given out at a moment was young enough then.
Young(kept, moment) ==
    kept # Unanswered =>
        /\ kept \in Kept
        /\ moment - kept.at < FRESH
        /\ moment - kept.at >= FRESH_AFTER_ERROR => ok(kept)

update_TypeOK ==
    /\ clock \in Nat
    /\ answer # Unanswered => answer \in Kept
    /\ viewing \in [Viewer -> {"idle", "waiting", "resolving"}]
    /\ DOMAIN shown = Viewer /\ shown_at \in [Viewer -> Nat]

OneResolves == \A u, v \in Viewer : viewing[u] = "resolving" /\ viewing[v] = "resolving" => u = v

update_Inv ==
    /\ update_TypeOK
    /\ OneResolves
    /\ \A v \in Viewer : Young(shown[v], shown_at[v])

LEMMA UpdateInit == update_Init => update_Inv
BY DEF update_Init, update_Inv, update_TypeOK, OneResolves, Young

LEMMA UpdateStep == update_Inv /\ [update_Next]_update_vars => update_Inv'
<1> SUFFICES ASSUME update_Inv, [update_Next]_update_vars PROVE update_Inv'
  OBVIOUS
<1> USE UpdateCheckAssumption
<1>t. update_TypeOK
  BY DEF update_Inv
\* One request goes on, with the lock free if it starts the updater.
<1>1. ASSUME NEW v \in Viewer, NEW s \in {"idle", "waiting", "resolving"},
             viewing' = [viewing EXCEPT ![v] = s], s = "resolving" => Unlocked
      PROVE  /\ viewing' \in [Viewer -> {"idle", "waiting", "resolving"}]
             /\ OneResolves'
  BY <1>1 DEF update_Inv, update_TypeOK, OneResolves, Unlocked
\* A page is given an answer.
<1>2. ASSUME NEW v \in Viewer, NEW kept, Show(v, kept), Young(kept, clock),
             answer' # Unanswered => answer' \in Kept, clock' = clock
      PROVE  update_Inv'
  <2>1. /\ viewing' \in [Viewer -> {"idle", "waiting", "resolving"}]
        /\ OneResolves'
    BY <1>1, <1>2 DEF Show
  <2>2. /\ DOMAIN shown' = Viewer /\ shown_at' \in [Viewer -> Nat]
        /\ \A u \in Viewer : /\ shown'[u] = IF u = v THEN kept ELSE shown[u]
                             /\ shown_at'[u] = IF u = v THEN clock ELSE shown_at[u]
    BY <1>2, <1>t DEF Show, update_TypeOK
  <2>3. ASSUME NEW u \in Viewer PROVE Young(shown'[u], shown_at'[u])
    <3>1. CASE u = v
      BY <1>2, <2>2, <3>1
    <3>2. CASE u # v
      <4>1. Young(shown[u], shown_at[u])
        BY DEF update_Inv
      <4>2. QED
        BY <2>2, <3>2, <4>1
    <3>3. QED
      BY <3>1, <3>2
  <2>4. update_TypeOK'
    BY <1>2, <1>t, <2>1, <2>2 DEF update_TypeOK
  <2>5. QED
    BY <2>1, <2>3, <2>4 DEF update_Inv, Young, ok
<1>3. ASSUME NEW v \in Viewer, get_update(v) PROVE update_Inv'
  BY <1>1, <1>3 DEF get_update, update_Inv, update_TypeOK, Young, ok
<1>4. ASSUME NEW v \in Viewer, Look(v) PROVE update_Inv'
  <2>1. CASE IsFresh /\ Show(v, answer)
    <3>1. Young(answer, clock)
      BY <1>t, <2>1 DEF IsFresh, Young, update_TypeOK, Kept
    <3>2. QED
      BY <1>2, <1>4, <1>t, <2>1, <3>1 DEF Look, update_TypeOK
  <2>2. CASE viewing' = [viewing EXCEPT ![v] = "resolving"] /\ UNCHANGED <<shown, shown_at>>
    BY <1>1, <1>4, <2>2 DEF Look, update_Inv, update_TypeOK, Young, ok
  <2>3. QED
    BY <1>4, <2>1, <2>2 DEF Look
<1>5. ASSUME NEW v \in Viewer, Resolved(v) PROVE update_Inv'
  <2>1. PICK stable, edge \in BOOLEAN : /\ answer' = Answer_of(stable, edge)
                                        /\ Show(v, Answer_of(stable, edge))
    BY <1>5 DEF Resolved
  <2>2. Answer_of(stable, edge) \in Kept /\ Answer_of(stable, edge).at = clock
    BY <1>t DEF Answer_of, Kept, update_TypeOK
  <2>3. Young(Answer_of(stable, edge), clock)
    BY <1>t, <2>2 DEF Young, update_TypeOK
  <2>4. QED
    BY <1>2, <1>5, <2>1, <2>2, <2>3 DEF Resolved
<1>6. ASSUME NEW v \in Viewer, Leave(v) PROVE update_Inv'
  BY <1>1, <1>6 DEF Leave, update_Inv, update_TypeOK, Young, ok
<1>7. CASE StrayEnds \/ UNCHANGED update_vars
  BY <1>7 DEF StrayEnds, update_vars, update_Inv, update_TypeOK, OneResolves, Young, ok
<1>8. CASE Later
  BY <1>8 DEF Later, update_Inv, update_TypeOK, OneResolves, Young, ok
<1>9. QED
  BY <1>3, <1>4, <1>5, <1>6, <1>7, <1>8 DEF update_Next

\* Of the requests whose clients stay at most one has the updater running,
\* however many ask at once and leave in between, and no page is shown an answer
\* older than its kind is kept for.
THEOREM UpdaterRunsOnce == update_Spec => []UpdaterIsSpared
<1>1. ASSUME update_Inv PROVE UpdaterIsSpared
  <2> DEFINE resolving == {v \in Viewer : viewing[v] = "resolving"}
  <2>1. \A u, v \in resolving : u = v
    BY <1>1 DEF update_Inv, OneResolves
  <2>2. Cardinality(resolving) <= 1
    <3> HIDE DEF resolving
    <3>1. CASE resolving = {}
      BY <3>1, FS_EmptySet
    <3>2. CASE resolving # {}
      <4>1. PICK v : resolving = {v}
        BY <2>1, <3>2
      <4>2. Cardinality({v}) = 1
        BY FS_Singleton
      <4>3. QED
        BY <4>1, <4>2
    <3>3. QED
      BY <3>1, <3>2
  <2>3. QED
    BY <1>1, <2>2 DEF update_Inv, Young, UpdaterIsSpared
<1>2. QED
  BY UpdateInit, UpdateStep, <1>1, PTL DEF update_Spec

(***************************************************************************)
(* Images: their types.                                                    *)
(***************************************************************************)
Image == [writers : SUBSET (Upgrade \cup {"factory", "older"}), whole : BOOLEAN]
File == Image \cup {Nothing}
Stage == {"none", "opening", "copying", "renaming", "osupdate", "selfupdate", "cleaning",
          "cleaning_failed", "noting", "over"}

FilesOK ==
    /\ parked \in [Name -> File] /\ partial \in [Name -> File]
    /\ staged \in [Place -> [Name -> File]]

SlotsOK ==
    /\ volumes \in [1 .. 2 -> [name : {"rootfs", "rootfs_prev", "rootfs_new"}, image : Image]]
    /\ attached \in 1 .. 2
    /\ nextboot \in BOOLEAN

\* How far a worker is says what it was asked for, and where its file is.
Placed(u) ==
    /\ work[u] = "renaming" => asks[u].park
    /\ work[u] \in {"osupdate", "selfupdate", "cleaning", "cleaning_failed", "noting"} => ~asks[u].park
    /\ ~asks[u].park /\ work[u] \in {"copying", "osupdate", "cleaning", "cleaning_failed"}
           => place[u] \in Place

WorkOK ==
    /\ asks \in [Upgrade -> Asked]
    /\ work \in [Upgrade -> Stage]
    /\ DOMAIN place = Upgrade
    /\ \A u \in Upgrade : Placed(u)

images_TypeOK == FilesOK /\ SlotsOK /\ WorkOK

LEMMA PlacesAre == Place = {"/mnt/sdcard", "/mnt/overlay", "/tmp"}
BY DEF Place, Dir

LEMMA SelectsAPlace == \A fits : select_staging_dir(fits) \in Place
<1>1. DOMAIN Dir = 1 .. 3
  BY DEF Dir
<1>2. SUFFICES ASSUME NEW fits PROVE select_staging_dir(fits) \in Place
  OBVIOUS
<1> DEFINE first(i) == fits[i] /\ \A j \in 1 .. i - 1 : ~fits[j]
<1>3. CASE \E i \in DOMAIN Dir : fits[i]
  <2>1. \E i \in DOMAIN Dir : first(i)
    <3>1. CASE fits[1]
      BY <1>1, <3>1
    <3>2. CASE ~fits[1] /\ fits[2]
      BY <1>1, <3>2
    <3>3. CASE ~fits[1] /\ ~fits[2] /\ fits[3]
      BY <1>1, <3>3
    <3>4. QED
      BY <1>1, <1>3, <3>1, <3>2, <3>3
  <2>2. PICK k : k \in DOMAIN Dir /\ k = CHOOSE i \in DOMAIN Dir : first(i)
    <3> HIDE DEF first
    <3>1. QED
      BY <2>1
  <2>3. select_staging_dir(fits) = Dir[k]
    BY <1>3, <2>2 DEF select_staging_dir
  <2>4. QED
    BY <2>2, <2>3 DEF Place
<1>4. CASE ~\E i \in DOMAIN Dir : fits[i]
  BY <1>4, PlacesAre DEF select_staging_dir
<1>5. QED
  BY <1>3, <1>4

LEMMA ImagesTyped == images_Init => images_TypeOK
<1> SUFFICES ASSUME images_Init PROVE images_TypeOK
  OBVIOUS
<1>1. FilesOK
  BY DEF images_Init, FilesOK, File
<1>2. Content({"factory"}, TRUE) \in Image /\ Content({"older"}, TRUE) \in Image
  BY DEF Content, Image
<1>3. SlotsOK
  <2> DEFINE R == [name : {"rootfs", "rootfs_prev", "rootfs_new"}, image : Image]
             a == [name |-> "rootfs", image |-> Content({"factory"}, TRUE)]
             b == [name |-> "rootfs_prev", image |-> Content({"older"}, TRUE)]
  <2>1. a \in R /\ b \in R /\ volumes = <<a, b>>
    BY <1>2 DEF images_Init
  <2>2. volumes \in [1 .. 2 -> R]
    <3> HIDE DEF R, a, b
    <3>1. <<a, b>> \in [1 .. 2 -> R]
      BY <2>1
    <3>2. QED
      BY <2>1, <3>1
  <2>3. attached \in 1 .. 2
    BY DEF images_Init
  <2>4. nextboot \in BOOLEAN
    BY DEF images_Init
  <2>5. QED
    BY <2>2, <2>3, <2>4 DEF SlotsOK
<1>4. WorkOK
  BY DEF images_Init, WorkOK, Placed, Stage
<1>5. QED
  BY <1>1, <1>3, <1>4 DEF images_TypeOK

\* A file that is opened, or written by one more, holds an image.
LEMMA WrittenIsAnImage ==
    ASSUME NEW u \in Upgrade
    PROVE  /\ Opened(u) \in Image
           /\ \A c \in Image : Written(u, c) \in Image /\ Written(u, c).writers = c.writers \cup {u}
                               /\ Written(u, c).whole = ReadsWhole(u)
<1>1. ReadsWhole(u) \in BOOLEAN
  BY DEF ReadsWhole, Whole
<1>2. QED
  BY <1>1 DEF Opened, Content, Written, Image

LEMMA ImagesTypedStep == images_TypeOK /\ [images_Next]_image_vars => images_TypeOK'
<1> SUFFICES ASSUME images_TypeOK, [images_Next]_image_vars PROVE images_TypeOK'
  OBVIOUS
<1>t. FilesOK /\ SlotsOK /\ WorkOK
  BY DEF images_TypeOK
<1>n. \A u \in Upgrade : asks[u].name \in Name
  BY <1>t DEF WorkOK, Name
\* A worker goes on; where its file is changes for nobody else.
<1>1. ASSUME NEW u \in Upgrade, NEW s \in Stage, Goes(u, s), UNCHANGED <<asks, place>>,
             s = "renaming" => asks[u].park,
             s \in {"osupdate", "selfupdate", "cleaning", "cleaning_failed", "noting"} => ~asks[u].park,
             ~asks[u].park /\ s \in {"copying", "osupdate", "cleaning", "cleaning_failed"} => place[u] \in Place
      PROVE  WorkOK'
  <2>1. work' \in [Upgrade -> Stage] /\ \A v \in Upgrade : work'[v] = IF v = u THEN s ELSE work[v]
    BY <1>1, <1>t DEF Goes, WorkOK
  <2>2. QED
    BY <1>1, <1>t, <2>1 DEF WorkOK, Placed
<1>2. ASSUME NEW u \in Upgrade, handle_transfer_request(u) PROVE images_TypeOK'
  <2>1. WorkOK'
    BY <1>1, <1>2 DEF handle_transfer_request, Stage
  <2>2. QED
    BY <1>2, <1>t, <2>1 DEF handle_transfer_request, images_TypeOK, FilesOK, SlotsOK
<1>3. ASSUME NEW u \in Upgrade, install_firmware(u) PROVE images_TypeOK'
  <2>1. ~asks[u].park
    BY <1>3, <1>t, SourceIsInstalled DEF install_firmware, WorkOK
  <2>2. WorkOK'
    BY <1>1, <1>3, <2>1 DEF install_firmware, Stage
  <2>3. QED
    BY <1>3, <1>t, <2>2 DEF install_firmware, images_TypeOK, FilesOK, SlotsOK
<1>4. ASSUME NEW u \in Upgrade, StopShort(u) PROVE images_TypeOK'
  BY <1>4, <1>t DEF StopShort, images_TypeOK, FilesOK, SlotsOK, WorkOK, Placed
\* Parking touches the two files of one name.
<1>5. ASSUME NEW u \in Upgrade, NEW s \in {"over", "copying", "renaming"}, Goes(u, s), asks[u].park,
             parked' \in [Name -> File], partial' \in [Name -> File], Unchanged_but_files
      PROVE  images_TypeOK'
  <2>1. WorkOK'
    BY <1>1, <1>5 DEF Unchanged_but_files, Stage
  <2>2. QED
    BY <1>5, <1>t, <2>1 DEF Unchanged_but_files, images_TypeOK, FilesOK, SlotsOK
<1>6. ASSUME NEW u \in Upgrade, ParkRefused(u) PROVE images_TypeOK'
  BY <1>5, <1>6, <1>t DEF ParkRefused, FilesOK
<1>7. ASSUME NEW u \in Upgrade, ParkOpens(u) PROVE images_TypeOK'
  <2>1. partial' \in [Name -> File]
    BY <1>7, <1>t, <1>n, WrittenIsAnImage DEF ParkOpens, FilesOK, File
  <2>2. QED
    BY <1>5, <1>7, <1>t, <2>1 DEF ParkOpens, FilesOK
<1>8. ASSUME NEW u \in Upgrade, ParkCopied(u) PROVE images_TypeOK'
  <2> DEFINE n == asks[u].name
  <2>1. ASSUME NEW files \in [Name -> File], files[n] # Nothing
        PROVE  [files EXCEPT ![n] = Written(u, files[n])] \in [Name -> File]
    BY <1>n, <2>1, WrittenIsAnImage DEF File
  <2>2. parked' \in [Name -> File] /\ partial' \in [Name -> File]
    BY <1>8, <1>t, <2>1 DEF ParkCopied, FilesOK
  <2>3. QED
    BY <1>5, <1>8, <2>2 DEF ParkCopied
<1>9. ASSUME NEW u \in Upgrade, ParkFails(u) PROVE images_TypeOK'
  <2>1. partial' \in [Name -> File]
    BY <1>9, <1>t DEF ParkFails, FilesOK, File
  <2>2. QED
    BY <1>5, <1>9, <1>t, <2>1 DEF ParkFails, FilesOK
<1>10. ASSUME NEW u \in Upgrade, ParkRenames(u) PROVE images_TypeOK'
  <2>1. parked' \in [Name -> File] /\ partial' \in [Name -> File]
    BY <1>10, <1>t, <1>n DEF ParkRenames, FilesOK, File
  <2>2. asks[u].park
    BY <1>10, <1>t DEF ParkRenames, WorkOK, Placed
  <2>3. QED
    BY <1>5, <1>10, <2>1, <2>2 DEF ParkRenames
<1>11. ASSUME NEW u \in Upgrade, UpdateOpens(u) PROVE images_TypeOK'
  <2>1. PICK p \in Place : /\ place' = [place EXCEPT ![u] = p]
                           /\ staged' = [staged EXCEPT ![p][asks[u].name] = Opened(u)]
    BY <1>11, SelectsAPlace DEF UpdateOpens
  <2>2. staged' \in [Place -> [Name -> File]]
    BY <1>t, <1>n, <2>1, WrittenIsAnImage DEF FilesOK, File
  <2>3. work' \in [Upgrade -> Stage] /\ \A v \in Upgrade : work'[v] = IF v = u THEN "copying" ELSE work[v]
    BY <1>11, <1>t DEF UpdateOpens, Goes, WorkOK, Stage
  <2>4. DOMAIN place' = Upgrade /\ \A v \in Upgrade : place'[v] = IF v = u THEN p ELSE place[v]
    BY <1>t, <2>1 DEF WorkOK
  <2>5. UNCHANGED <<asks, parked, partial, volumes, attached, nextboot>>
    BY <1>11 DEF UpdateOpens
  <2>6. WorkOK'
    BY <1>t, <2>3, <2>4, <2>5 DEF WorkOK, Placed
  <2>7. QED
    BY <1>t, <2>2, <2>5, <2>6 DEF images_TypeOK, FilesOK, SlotsOK
\* Installing touches the staged files and the volume that is not running.
<1>12. ASSUME NEW u \in Upgrade, NEW s \in {"over", "osupdate", "cleaning", "cleaning_failed", "noting"},
              Goes(u, s), ~asks[u].park,
              s \in {"osupdate", "cleaning", "cleaning_failed"} => place[u] \in Place,
              staged' \in [Place -> [Name -> File]], UNCHANGED <<asks, parked, partial, place, attached>>,
              volumes' \in [1 .. 2 -> [name : {"rootfs", "rootfs_prev", "rootfs_new"}, image : Image]],
              nextboot' \in BOOLEAN
       PROVE  images_TypeOK'
  <2>1. WorkOK'
    BY <1>1, <1>12 DEF Stage
  <2>2. QED
    BY <1>12, <1>t, <2>1 DEF images_TypeOK, FilesOK, SlotsOK
<1>13. ASSUME NEW u \in Upgrade, work[u] = "copying" \/ work[u] = "osupdate", ~asks[u].park
       PROVE  place[u] \in Place /\ Staged(u) \in File
  BY <1>13, <1>t, <1>n DEF WorkOK, Placed, FilesOK, Staged
<1>14. ASSUME NEW u \in Upgrade, UpdateCopied(u) PROVE images_TypeOK'
  <2>1. CASE Staged(u) = Nothing
    BY <1>12, <1>13, <1>14, <1>t, <2>1 DEF UpdateCopied, UpdateChanges, FilesOK, SlotsOK
  <2>2. CASE Staged(u) # Nothing
    <3>1. staged' = [staged EXCEPT ![place[u]][asks[u].name] = Written(u, Staged(u))]
      BY <1>14, <2>2 DEF UpdateCopied, UpdateChanges, Staged
    <3>2. Written(u, Staged(u)) \in File
      BY <1>13, <1>14, <2>2, WrittenIsAnImage DEF UpdateCopied, File
    <3>3. staged' \in [Place -> [Name -> File]]
      BY <1>13, <1>14, <1>n, <1>t, <3>1, <3>2 DEF UpdateCopied, FilesOK
    <3>4. QED
      BY <1>12, <1>13, <1>14, <1>t, <3>3 DEF UpdateCopied, UpdateChanges, SlotsOK
  <2>3. QED
    BY <2>1, <2>2
<1>15. ASSUME NEW u \in Upgrade, UpdateFails(u) PROVE images_TypeOK'
  BY <1>12, <1>15, <1>t DEF UpdateFails, UpdateChanges, FilesOK, SlotsOK
\* Whatever is flashed, the volume that is not running holds it.
<1>16. ASSUME NEW u \in Upgrade, NEW image \in Image, Flashes(u, image)
       PROVE  /\ volumes' \in [1 .. 2 -> [name : {"rootfs", "rootfs_prev", "rootfs_new"}, image : Image]]
              /\ nextboot' \in BOOLEAN
  <2>1. Flashing \subseteq Upgrade
    BY DEF Flashing
  <2>2. Content(image.writers \cup (Flashing \ {u}), image.whole) \in Image
    BY <2>1 DEF Content, Image
  <2>3. QED
    BY <1>16, <1>t, <2>2 DEF Flashes, SlotsOK
<1>17. ASSUME NEW u \in Upgrade, osupdate(u) PROVE images_TypeOK'
  <2>1. ~asks[u].park /\ place[u] \in Place /\ Staged(u) \in File
    BY <1>13, <1>17, <1>t DEF osupdate, WorkOK, Placed
  <2>2. CASE Goes(u, "cleaning") /\ UpdateChanges(staged, Flashes(u, Staged(u)) /\ UNCHANGED note)
                                 /\ Staged(u) # Nothing
    <3>1. Staged(u) \in Image /\ Flashes(u, Staged(u)) /\ UNCHANGED <<staged, asks, parked, partial, place, attached>>
      BY <2>1, <2>2 DEF UpdateChanges, File
    <3>2. QED
      BY <1>12, <1>16, <1>t, <2>1, <2>2, <3>1 DEF FilesOK
  <2>3. CASE Goes(u, "cleaning_failed") /\ UpdateChanges(staged, UNCHANGED <<volumes, nextboot, note>>)
    BY <1>12, <1>t, <2>1, <2>3 DEF UpdateChanges, FilesOK, SlotsOK
  <2>4. QED
    BY <1>17, <2>2, <2>3 DEF osupdate
<1>18. ASSUME NEW u \in Upgrade, selfupdate(u) PROVE images_TypeOK'
  <2>1. ~asks[u].park
    BY <1>18, <1>t DEF selfupdate, WorkOK, Placed
  <2>2. CASE UpdateChanges(staged, Flashes(u, Content({u}, TRUE)) /\ note' \in {u, note})
    <3>1. Content({u}, TRUE) \in Image
      BY DEF Content, Image
    <3>2. Flashes(u, Content({u}, TRUE)) /\ UNCHANGED <<staged, asks, parked, partial, place, attached>>
      BY <2>2 DEF UpdateChanges
    <3>3. QED
      BY <1>12, <1>16, <1>18, <1>t, <2>1, <3>1, <3>2 DEF selfupdate, FilesOK
  <2>3. CASE UpdateChanges(staged, UNCHANGED <<volumes, nextboot, note>>)
    BY <1>12, <1>18, <1>t, <2>1, <2>3 DEF selfupdate, UpdateChanges, FilesOK, SlotsOK
  <2>4. QED
    BY <1>18, <2>2, <2>3 DEF selfupdate
<1>19. ASSUME NEW u \in Upgrade, UpdateCleans(u) PROVE images_TypeOK'
  <2>1. ~asks[u].park
    BY <1>19, <1>t DEF UpdateCleans, WorkOK, Placed
  <2>2. staged' \in [Place -> [Name -> File]]
    BY <1>19, <1>t DEF UpdateCleans, UpdateChanges, FilesOK, File
  <2>3. QED
    BY <1>12, <1>19, <1>t, <2>1, <2>2 DEF UpdateCleans, UpdateChanges, SlotsOK
<1>20. ASSUME NEW u \in Upgrade, UpdateNotes(u) PROVE images_TypeOK'
  <2>1. ~asks[u].park
    BY <1>20, <1>t DEF UpdateNotes, WorkOK, Placed
  <2>2. QED
    BY <1>12, <1>20, <1>t, <2>1 DEF UpdateNotes, UpdateChanges, FilesOK, SlotsOK
<1>21. CASE Reboot
  <2>1. staged' \in [Place -> [Name -> File]]
    BY <1>21, <1>t DEF Reboot, FilesOK, File
  <2>2. attached' \in 1 .. 2
    BY <1>21, <1>t DEF Reboot, SlotsOK
  <2>3. WorkOK'
    BY <1>21, <1>t DEF Reboot, WorkOK, Placed, Stage
  <2>4. QED
    BY <1>21, <1>t, <2>1, <2>2, <2>3 DEF Reboot, images_TypeOK, FilesOK, SlotsOK
<1>22. CASE Promote
  <2>1. volumes' \in [1 .. 2 -> [name : {"rootfs", "rootfs_prev", "rootfs_new"}, image : Image]]
    BY <1>22, <1>t DEF Promote, SlotsOK
  <2>2. QED
    BY <1>22, <1>t, <2>1 DEF Promote, images_TypeOK, FilesOK, SlotsOK, WorkOK, Placed
<1>23. CASE RollBack
  <2>1. attached' \in 1 .. 2
    BY <1>23, <1>t DEF RollBack, SlotsOK
  <2>2. QED
    BY <1>23, <1>t, <2>1 DEF RollBack, images_TypeOK, FilesOK, SlotsOK, WorkOK, Placed
<1>24. CASE UNCHANGED image_vars
  BY <1>24, <1>t DEF image_vars, images_TypeOK, FilesOK, SlotsOK, WorkOK, Placed
<1>25. QED
  BY <1>2, <1>3, <1>4, <1>6, <1>7, <1>8, <1>9, <1>10, <1>11, <1>14, <1>15, <1>17, <1>18, <1>19,
     <1>20, <1>21, <1>22, <1>23, <1>24 DEF images_Next, Transfers

(***************************************************************************)
(* Parking.                                                                *)
(***************************************************************************)
\* The one transfer that parks under a name has written the file, alone.
OfOne(file, n) ==
    file # Nothing => \E u \in Upgrade : file.writers = {u} /\ asks[u].park /\ asks[u].name = n
\* A file that may be listed.
Sound(file) == file.whole \/ \E u \in file.writers : ~asks[u].sha256
Renamable(u) == partial[asks[u].name] # Nothing => Sound(partial[asks[u].name])

ParkInv ==
    /\ ParksOfOwnNames
    /\ \A n \in Name : /\ OfOne(partial[n], n) /\ OfOne(parked[n], n)
                       /\ parked[n] # Nothing => Sound(parked[n])
    /\ \A u \in Upgrade : work[u] = "renaming" => Renamable(u)

LEMMA ParkInit == images_Init /\ ParksOfOwnNames => ParkInv
BY DEF images_Init, ParkInv, OfOne

LEMMA ParkStep == images_TypeOK /\ ParkInv /\ [images_Next]_image_vars => ParkInv'
<1> SUFFICES ASSUME images_TypeOK, ParkInv, [images_Next]_image_vars PROVE ParkInv'
  OBVIOUS
<1>t. FilesOK /\ WorkOK
  BY DEF images_TypeOK
<1>n. \A u \in Upgrade : asks[u].name \in Name
  BY <1>t DEF WorkOK, Name
\* A step that leaves the card alone and lets no worker come to its rename.
<1>1. ASSUME UNCHANGED <<asks, parked, partial>>,
             \A u \in Upgrade : work'[u] = "renaming" => work[u] = "renaming"
      PROVE  ParkInv'
  BY <1>1 DEF ParkInv, ParksOfOwnNames, OfOne, Sound, Renamable
<1>2. ASSUME NEW u \in Upgrade, NEW s, Goes(u, s)
      PROVE  \A v \in Upgrade : work'[v] = IF v = u THEN s ELSE work[v]
  BY <1>2, <1>t DEF Goes, WorkOK
\* A step of the transfer that parks under a name: nobody else does.
<1>3. ASSUME NEW u \in Upgrade, asks[u].park, UNCHANGED asks,
             NEW file \in File, partial' = [partial EXCEPT ![asks[u].name] = file],
             NEW listed \in File, parked' = [parked EXCEPT ![asks[u].name] = listed],
             file # Nothing => file.writers = {u},
             listed # Nothing => listed.writers = {u} /\ Sound(listed),
             NEW s, Goes(u, s), s = "renaming" => file = Nothing \/ Sound(file)
      PROVE  ParkInv'
  <2>1. \A n \in Name : /\ partial'[n] = IF n = asks[u].name THEN file ELSE partial[n]
                        /\ parked'[n] = IF n = asks[u].name THEN listed ELSE parked[n]
    BY <1>3, <1>t DEF FilesOK
  <2>2. ASSUME NEW n \in Name
        PROVE  /\ OfOne(partial[n], n)' /\ OfOne(parked[n], n)'
               /\ parked'[n] # Nothing => Sound(parked[n])'
    BY <1>3, <2>1 DEF ParkInv, OfOne, Sound
  <2>3. ASSUME NEW v \in Upgrade, work'[v] = "renaming" PROVE Renamable(v)'
    <3>1. CASE v = u
      BY <1>2, <1>3, <1>n, <2>1, <2>3, <3>1 DEF Renamable, Sound
    <3>2. CASE v # u
      <4>1. work[v] = "renaming" /\ Renamable(v) /\ asks[v].park
        BY <1>2, <1>3, <1>t, <2>3, <3>2 DEF ParkInv, WorkOK, Placed
      <4>2. asks[v].name # asks[u].name
        BY <1>3, <3>2, <4>1 DEF ParkInv, ParksOfOwnNames
      <4>3. QED
        BY <1>3, <1>n, <2>1, <4>1, <4>2 DEF Renamable, Sound
    <3>3. QED
      BY <3>1, <3>2
  <2>4. QED
    BY <1>3, <2>2, <2>3 DEF ParkInv, ParksOfOwnNames
\* What is under the name of a transfer that parks is its own.
<1>4. ASSUME NEW u \in Upgrade, asks[u].park
      PROVE  /\ partial[asks[u].name] \in File /\ parked[asks[u].name] \in File
             /\ partial[asks[u].name] # Nothing => partial[asks[u].name].writers = {u}
             /\ parked[asks[u].name] # Nothing => /\ parked[asks[u].name].writers = {u}
                                                  /\ Sound(parked[asks[u].name])
             /\ partial = [partial EXCEPT ![asks[u].name] = partial[asks[u].name]]
             /\ parked = [parked EXCEPT ![asks[u].name] = parked[asks[u].name]]
  BY <1>4, <1>t, <1>n DEF FilesOK, ParkInv, OfOne, ParksOfOwnNames
<1>5. ASSUME NEW u \in Upgrade, ParkOpens(u) PROVE ParkInv'
  <2>1. Opened(u) \in File /\ Opened(u).writers = {u}
    BY WrittenIsAnImage DEF File, Opened, Content
  <2>2. /\ asks[u].park /\ Goes(u, "copying") /\ UNCHANGED <<asks, parked>>
        /\ partial' = [partial EXCEPT ![asks[u].name] = Opened(u)]
    BY <1>5 DEF ParkOpens, Unchanged_but_files
  <2>3. QED
    BY <1>3, <1>4, <2>1, <2>2
<1>6. ASSUME NEW u \in Upgrade, ParkCopied(u) PROVE ParkInv'
  <2> DEFINE n == asks[u].name
  <2>1. asks[u].park /\ EndOfStream(u) /\ Goes(u, "renaming") /\ UNCHANGED asks
    BY <1>6 DEF ParkCopied, Unchanged_but_files
  <2>2. ASSUME NEW file \in File, file # Nothing, file.writers = {u}
        PROVE  /\ Written(u, file) \in File /\ Written(u, file).writers = {u}
               /\ Sound(Written(u, file))
    <3>1. file \in Image
      BY <2>2 DEF File
    <3>2. Written(u, file) \in Image /\ Written(u, file).writers = {u}
      BY <2>2, <3>1, WrittenIsAnImage
    <3>3. Written(u, file).whole = ReadsWhole(u)
      BY <3>1, WrittenIsAnImage
    <3>4. Sound(Written(u, file))
      BY <2>1, <3>2, <3>3 DEF Sound, EndOfStream
    <3>5. QED
      BY <3>2, <3>4 DEF File
  <2>3. CASE partial[n] # Nothing /\ partial' = [partial EXCEPT ![n] = Written(u, partial[n])]
                                  /\ UNCHANGED parked
    BY <1>3, <1>4, <2>1, <2>2, <2>3
  <2>4. CASE parked[n] # Nothing /\ parked' = [parked EXCEPT ![n] = Written(u, parked[n])]
                                 /\ UNCHANGED partial /\ ~Mine(u, partial[n])
    <3>1. partial[n] = Nothing
      BY <1>4, <2>1, <2>4 DEF Mine
    <3>2. QED
      BY <1>3, <1>4, <2>1, <2>2, <2>4, <3>1
  <2>5. CASE UNCHANGED <<parked, partial>> /\ partial[n] = Nothing
    BY <1>3, <1>4, <2>1, <2>5
  <2>6. QED
    BY <1>6, <2>3, <2>4, <2>5 DEF ParkCopied, Mine
<1>7. ASSUME NEW u \in Upgrade, ParkFails(u) PROVE ParkInv'
  BY <1>3, <1>4, <1>7 DEF ParkFails, Unchanged_but_files, File
<1>8. ASSUME NEW u \in Upgrade, ParkRenames(u) PROVE ParkInv'
  <2>1. asks[u].park /\ Renamable(u)
    BY <1>8, <1>t DEF ParkRenames, WorkOK, Placed, ParkInv
  <2>2. QED
    BY <1>3, <1>4, <1>8, <2>1 DEF ParkRenames, Unchanged_but_files, Renamable, File
\* Everything else.
<1>9. ASSUME NEW u \in Upgrade, \/ handle_transfer_request(u) \/ install_firmware(u) \/ ParkRefused(u)
                                \/ UpdateOpens(u) \/ UpdateCopied(u) \/ UpdateFails(u) \/ osupdate(u)
                                \/ selfupdate(u) \/ UpdateCleans(u) \/ UpdateNotes(u)
      PROVE  ParkInv'
  <2>1. UNCHANGED <<asks, parked, partial>>
    BY <1>9 DEF handle_transfer_request, install_firmware, ParkRefused, Unchanged_but_files, UpdateOpens,
                UpdateCopied, UpdateFails, osupdate, selfupdate, UpdateCleans, UpdateNotes, UpdateChanges
  <2>2. \E s \in Stage \ {"renaming"} : Goes(u, s)
    <3>1. CASE handle_transfer_request(u)
      BY <3>1 DEF handle_transfer_request, Stage
    <3>2. CASE install_firmware(u)
      BY <3>2 DEF install_firmware, Stage
    <3>3. CASE UpdateCleans(u)
      BY <3>3 DEF UpdateCleans, Stage
    <3>4. CASE osupdate(u)
      BY <3>4 DEF osupdate, Stage
    <3>5. QED
      BY <1>9, <3>1, <3>2, <3>3, <3>4
         DEF ParkRefused, UpdateOpens, UpdateCopied, UpdateFails, selfupdate, UpdateNotes, Stage
  <2>3. QED
    BY <1>1, <1>2, <2>1, <2>2
<1>10. ASSUME NEW u \in Upgrade, StopShort(u) PROVE ParkInv'
  BY <1>1, <1>10 DEF StopShort
<1>11. CASE Reboot
  BY <1>1, <1>11 DEF Reboot
<1>12. CASE Promote \/ RollBack \/ UNCHANGED image_vars
  BY <1>1, <1>12 DEF Promote, RollBack, image_vars
<1>13. QED
  BY <1>5, <1>6, <1>7, <1>8, <1>9, <1>10, <1>11, <1>12 DEF images_Next, Transfers

\* However transfers are cancelled, cut short, crossed with others or ended by
\* the power, an image that was sent with its sum is listed whole or not at all,
\* as long as no two are parked under one name.
THEOREM ListedImagesAreWhole == ImagesSpec /\ ParksOfOwnNames => []ListedIsWhole
<1>1. ASSUME ParkInv PROVE ListedIsWhole
  <2> SUFFICES ASSUME NEW n \in Name, parked[n] # Nothing, parked[n].whole PROVE Whole(parked[n])
    BY <1>1 DEF ParkInv, Sound, ListedIsWhole
  <2>1. PICK u \in Upgrade : parked[n].writers = {u}
    BY <1>1 DEF ParkInv, OfOne
  <2>2. Cardinality({u}) = 1
    BY FS_Singleton
  <2>3. QED
    BY <2>1, <2>2 DEF Whole
<1>2. QED
  BY ImagesTyped, ImagesTypedStep, ParkInit, ParkStep, <1>1, PTL DEF ImagesSpec

(***************************************************************************)
(* The two volumes: at most one is on trial, the other has been promoted.  *)
(***************************************************************************)
OnTrial(v) == volumes[v].name = "rootfs_new"

SlotsInv ==
    /\ ~(OnTrial(1) /\ OnTrial(2))
    /\ nextboot => OnTrial(3 - attached)
    /\ \A v \in 1 .. 2 : ~OnTrial(v) => volumes[v].image \in proven
    /\ ~OnTrial(1) /\ ~OnTrial(2) => rollback_note \in {volumes[3 - attached].image, Nothing}

LEMMA SlotsInit == images_Init => SlotsInv
<1> SUFFICES ASSUME images_Init PROVE SlotsInv
  OBVIOUS
<1>1. /\ volumes[1] = [name |-> "rootfs", image |-> Content({"factory"}, TRUE)]
      /\ volumes[2] = [name |-> "rootfs_prev", image |-> Content({"older"}, TRUE)]
  BY DEF images_Init
<1>2. \A v \in 1 .. 2 : ~OnTrial(v) /\ volumes[v].image \in proven
  <2>1. ~OnTrial(1) /\ volumes[1].image \in proven
    BY <1>1 DEF images_Init, OnTrial
  <2>2. ~OnTrial(2) /\ volumes[2].image \in proven
    BY <1>1 DEF images_Init, OnTrial
  <2>3. QED
    BY <2>1, <2>2
<1>3. nextboot = FALSE /\ rollback_note = Nothing
  BY DEF images_Init
<1>4. QED
  BY <1>2, <1>3 DEF SlotsInv

\* What flashing does to the volumes of a board that is not on trial.
LEMMA FlashesTheOther ==
    ASSUME SlotsOK, NEW u, NEW image, Flashes(u, image)
    PROVE  /\ nextboot' = TRUE
           /\ \A v \in 1 .. 2 : volumes'[v] =
                 IF v = 3 - attached
                 THEN [name |-> "rootfs_new",
                       image |-> Content(image.writers \cup (Flashing \ {u}), image.whole)]
                 ELSE volumes[v]
BY DEF SlotsOK, Flashes

\* What a transfer does to the volumes: nothing, or it flashes.
LEMMA TransferAndVolumes ==
    ASSUME NEW u \in Upgrade, Transfers(u)
    PROVE  /\ UNCHANGED <<attached, proven, rollback_note, asks, readable>>
           /\ \/ UNCHANGED <<volumes, nextboot>>
              \/ work[u] = "osupdate" /\ Staged(u) # Nothing /\ Flashes(u, Staged(u))
              \/ work[u] = "selfupdate" /\ Flashes(u, Content({u}, TRUE))
<1>1. CASE osupdate(u) \/ selfupdate(u) \/ UpdateCopied(u) \/ UpdateFails(u) \/ UpdateCleans(u) \/ UpdateNotes(u)
  BY <1>1 DEF osupdate, selfupdate, UpdateCopied, UpdateFails, UpdateCleans, UpdateNotes, UpdateChanges
<1>2. CASE \/ handle_transfer_request(u) \/ install_firmware(u) \/ StopShort(u) \/ UpdateOpens(u)
           \/ ParkRefused(u) \/ ParkOpens(u) \/ ParkCopied(u) \/ ParkFails(u) \/ ParkRenames(u)
  BY <1>2 DEF handle_transfer_request, install_firmware, StopShort, UpdateOpens, ParkRefused, ParkOpens,
              ParkCopied, ParkFails, ParkRenames, Unchanged_but_files
<1>3. QED
  BY <1>1, <1>2 DEF Transfers

LEMMA SlotsStep == images_TypeOK /\ SlotsInv /\ [images_Next]_image_vars => SlotsInv'
<1> SUFFICES ASSUME images_TypeOK, SlotsInv, [images_Next]_image_vars PROVE SlotsInv'
  OBVIOUS
<1>t. SlotsOK /\ attached \in 1 .. 2 /\ 3 - attached \in 1 .. 2 /\ attached # 3 - attached
  BY DEF images_TypeOK, SlotsOK
<1>1. CASE UNCHANGED <<volumes, nextboot, attached, proven, rollback_note>>
  BY <1>1 DEF SlotsInv, OnTrial
<1>2. ASSUME NEW u, NEW image, Flashes(u, image), ~Tentative, UNCHANGED <<attached, proven, rollback_note>>
      PROVE  SlotsInv'
  <2>1. /\ nextboot' = TRUE
        /\ \A v \in 1 .. 2 : v # 3 - attached => volumes'[v] = volumes[v]
        /\ volumes'[3 - attached].name = "rootfs_new"
    BY <1>2, <1>t DEF Flashes, SlotsOK
  <2>2. QED
    BY <1>2, <1>t, <2>1 DEF SlotsInv, OnTrial, Tentative
<1>3. ASSUME NEW u \in Upgrade, ~Tentative, Transfers(u) PROVE SlotsInv'
  BY <1>1, <1>2, <1>3, TransferAndVolumes
<1>4. CASE Reboot
  BY <1>4, <1>t DEF Reboot, SlotsInv, OnTrial
<1>5. CASE Promote
  <2>1. /\ \A v \in 1 .. 2 : /\ volumes'[v].image = volumes[v].image
                             /\ volumes'[v].name # "rootfs_new"
        /\ proven' = proven \cup {volumes[attached].image}
        /\ rollback_note' \in {volumes[3 - attached].image, Nothing}
        /\ UNCHANGED <<attached, nextboot>>
    BY <1>5, <1>t DEF Promote, SlotsOK
  <2>2. ~nextboot /\ ~OnTrial(3 - attached)
    BY <1>5, <1>t DEF Promote, Tentative, SlotsInv, OnTrial
  <2>3. QED
    BY <1>t, <2>1, <2>2 DEF SlotsInv, OnTrial
<1>6. CASE RollBack
  BY <1>6, <1>t DEF RollBack, Tentative, SlotsInv, OnTrial
<1>7. CASE UNCHANGED image_vars
  BY <1>1, <1>7 DEF image_vars
<1>8. QED
  BY <1>3, <1>4, <1>5, <1>6, <1>7 DEF images_Next

\* The rollback that is named is the volume that is not running, if it is not on
\* trial.
LEMMA RollbackIsNotOnTrial ==
    ASSUME SlotsOK, NEW v \in pick_slots(read_volumes)
    PROVE  v \in 1 .. 2 /\ v # attached /\ ~OnTrial(v)
<1>1. DOMAIN read_volumes = 1 .. 2
  BY DEF read_volumes, SlotsOK
<1>2. v \in {w \in 1 .. 2 : ~read_volumes[w].running /\ read_volumes[w].name # "rootfs_new"}
  BY <1>1 DEF pick_slots
<1>3. v \in 1 .. 2 /\ read_volumes[v].name = volumes[v].name /\ read_volumes[v].running = (v = attached)
  BY <1>2 DEF read_volumes, SlotsOK, is_attached
<1>4. v # attached
  BY <1>2, <1>3
<1>5. QED
  BY <1>2, <1>3, <1>4 DEF OnTrial

LEMMA SlotsGiveTheRollback == images_TypeOK /\ SlotsInv => RollbackIsProven
<1> SUFFICES ASSUME images_TypeOK, SlotsInv, NEW v \in get_firmware_slots.rollback
             PROVE  /\ volumes[v].image \in proven
                    /\ ~Tentative => get_firmware_slots.rollback_version \in {volumes[v].image, Nothing}
  BY DEF RollbackIsProven
<1>1. v \in pick_slots(read_volumes) /\ get_firmware_slots.rollback_version = rollback_note
  BY DEF get_firmware_slots, read_rollback_version
<1>2. v \in 1 .. 2 /\ v # attached /\ ~OnTrial(v) /\ attached \in 1 .. 2
  BY <1>1, RollbackIsNotOnTrial DEF images_TypeOK, SlotsOK
<1>3. v = 3 - attached
  BY <1>2
<1>4. QED
  BY <1>1, <1>2, <1>3 DEF SlotsInv, OnTrial, Tentative

(***************************************************************************)
(* Installing: who is let in, and over what.                               *)
(***************************************************************************)
ToFlash == {"opening", "copying", "osupdate", "selfupdate"}
Excused(u) == asks[u].force \/ ~readable \/ u \in overlapped

InstallInv ==
    /\ \A u, v \in Installing : u # v => u \in overlapped
    /\ \A u \in Installing : work[u] \in ToFlash /\ ~Excused(u) => ~nextboot

\* How a transfer goes on, as far as the others can see.
LEMMA TransferAndWork ==
    ASSUME WorkOK, NEW u \in Upgrade, Transfers(u)
    PROVE  /\ \A v \in Upgrade : v # u => work'[v] = work[v]
           /\ overlapped \subseteq overlapped'
           /\ work[u] = "none" => /\ Installing # {} => Installing \cup {u} \subseteq overlapped'
                                  /\ ~asks[u].park /\ ~asks[u].force /\ readable /\ nextboot
                                         => work'[u] = "over"
           /\ work[u] # "none" => /\ work[u] # "over" /\ overlapped' = overlapped
                                  /\ work'[u] \in ToFlash => work[u] \in {"opening", "copying"}
<1>1. ASSUME NEW s, Goes(u, s) PROVE work'[u] = s /\ \A v \in Upgrade : v # u => work'[v] = work[v]
  BY <1>1 DEF Goes, WorkOK
<1>2. CASE handle_transfer_request(u)
  <2>1. ~asks[u].park /\ ~asks[u].force /\ readable /\ nextboot => InstallRefused(u)
    BY DEF InstallRefused, read_nextboot
  <2>2. work[u] = "none" /\ Goes(u, IF InstallRefused(u) THEN "over" ELSE "opening")
        /\ overlapped' = IF Installing # {} THEN overlapped \cup Installing \cup {u} ELSE overlapped
    BY <1>2 DEF handle_transfer_request
  <2>3. QED
    BY <1>1, <2>1, <2>2
<1>3. CASE install_firmware(u)
  <2> DEFINE refused == ~asks[u].force /\ get_firmware_slots.update_staged = "staged"
  <2>1. ~asks[u].force /\ readable /\ nextboot => refused
    BY DEF get_firmware_slots, read_nextboot
  <2>2. work[u] = "none" /\ Goes(u, IF refused THEN "over" ELSE "selfupdate")
        /\ overlapped' = IF Installing # {} THEN overlapped \cup Installing \cup {u} ELSE overlapped
    BY <1>3 DEF install_firmware
  <2> HIDE DEF refused
  <2>3. QED
    BY <1>1, <2>1, <2>2
<1>4. CASE StopShort(u)
  BY <1>4 DEF StopShort
<1>5. CASE ParkRefused(u) \/ ParkOpens(u) \/ ParkCopied(u) \/ ParkFails(u) \/ ParkRenames(u)
  BY <1>1, <1>5 DEF ParkRefused, ParkOpens, ParkCopied, ParkFails, ParkRenames, Unchanged_but_files, ToFlash
<1>6. CASE UpdateOpens(u) \/ UpdateCopied(u) \/ UpdateFails(u) \/ osupdate(u) \/ selfupdate(u)
  <2>1. CASE UpdateOpens(u) \/ UpdateCopied(u) \/ UpdateFails(u)
    BY <1>1, <2>1 DEF UpdateOpens, UpdateCopied, UpdateFails, UpdateChanges
  <2>2. CASE osupdate(u) \/ selfupdate(u)
    <3>1. /\ work[u] \in {"osupdate", "selfupdate"} /\ overlapped' = overlapped
          /\ Goes(u, "cleaning") \/ Goes(u, "cleaning_failed") \/ Goes(u, "over")
      BY <2>2 DEF osupdate, selfupdate, UpdateChanges
    <3>2. QED
      BY <1>1, <3>1 DEF ToFlash
  <2>3. QED
    BY <1>6, <2>1, <2>2
<1>7. CASE UpdateCleans(u) \/ UpdateNotes(u)
  <2>1. overlapped' = overlapped /\ work[u] \in {"cleaning", "cleaning_failed", "noting"}
        /\ (Goes(u, "noting") \/ Goes(u, "over"))
    BY <1>7 DEF UpdateCleans, UpdateNotes, UpdateChanges
  <2>2. QED
    BY <1>1, <2>1 DEF ToFlash
<1>8. QED
  BY <1>2, <1>3, <1>4, <1>5, <1>6, <1>7 DEF Transfers

LEMMA InstallInit == images_Init => InstallInv
BY DEF images_Init, InstallInv, Installing, Running

LEMMA InstallStep == images_TypeOK /\ InstallInv /\ [images_Next]_image_vars => InstallInv'
<1> SUFFICES ASSUME images_TypeOK, InstallInv, [images_Next]_image_vars PROVE InstallInv'
  OBVIOUS
<1>t. WorkOK /\ SlotsOK
  BY DEF images_TypeOK
<1>1. ASSUME UNCHANGED <<work, asks, overlapped, readable>>, nextboot' => nextboot PROVE InstallInv'
  BY <1>1 DEF InstallInv, Installing, Running, Excused
<1>2. ASSUME NEW u \in Upgrade, Transfers(u) PROVE InstallInv'
  <2>1. UNCHANGED <<asks, readable>>
    BY <1>2, TransferAndVolumes
  <2>2. Installing' \subseteq Installing \cup {u}
    BY <1>2, <1>t, <2>1, TransferAndWork DEF Installing, Running
  <2>3. work[u] # "none" /\ u \in Installing' => u \in Installing
    BY <1>2, <1>t, <2>1, TransferAndWork DEF Installing, Running
  <2>4. \A v, w \in Installing' : v # w => v \in overlapped'
    BY <1>2, <1>t, <2>2, <2>3, TransferAndWork DEF InstallInv
  <2>5. ASSUME NEW v \in Installing', work'[v] \in ToFlash, ~Excused(v)' PROVE ~nextboot'
    <3>1. ~Excused(v)
      BY <1>2, <1>t, <2>1, <2>5, TransferAndWork DEF Excused
    <3>2. CASE v # u
      <4>1. v \in Installing /\ work[v] \in ToFlash
        <5>1. v \in Installing /\ v \in Upgrade
          BY <2>2, <2>5, <3>2 DEF Installing, Running
        <5>2. QED
          BY <1>2, <1>t, <2>5, <3>2, <5>1, TransferAndWork
      <4>2. u \notin Installing
        BY <3>1, <3>2, <4>1 DEF InstallInv, Excused
      <4>3. work[u] \notin {"osupdate", "selfupdate"}
        BY <1>t, <4>2 DEF Installing, Running, WorkOK, Placed
      <4>4. UNCHANGED nextboot
        BY <1>2, <4>3, TransferAndVolumes
      <4>5. QED
        BY <3>1, <4>1, <4>4 DEF InstallInv
    <3>3. CASE v = u /\ work[u] = "none"
      <4>1. UNCHANGED nextboot
        BY <1>2, <3>3, TransferAndVolumes
      <4>2. ~asks[u].park
        BY <2>1, <2>5, <3>3 DEF Installing, Running
      <4>3. work'[u] # "over"
        BY <2>5, <3>3 DEF ToFlash
      <4>4. QED
        BY <1>2, <1>t, <3>1, <3>3, <4>1, <4>2, <4>3, TransferAndWork DEF Excused
    <3>4. CASE v = u /\ work[u] # "none"
      <4>1. work[u] \in {"opening", "copying"} /\ u \in Installing
        BY <1>2, <1>t, <2>3, <2>5, <3>4, TransferAndWork
      <4>2. UNCHANGED nextboot
        BY <1>2, <4>1, TransferAndVolumes
      <4>3. QED
        BY <3>1, <3>4, <4>1, <4>2 DEF InstallInv, ToFlash
    <3>5. QED
      BY <3>2, <3>3, <3>4
  <2>6. QED
    BY <2>4, <2>5 DEF InstallInv
<1>3. CASE Reboot
  BY <1>3 DEF Reboot, InstallInv, Installing, Running
<1>4. CASE Promote \/ RollBack \/ UNCHANGED image_vars
  BY <1>1, <1>4 DEF Promote, RollBack, image_vars
<1>5. QED
  BY <1>2, <1>3, <1>4 DEF images_Next

(***************************************************************************)
(* The note of what was staged.                                            *)
(***************************************************************************)
\* One install at a time, none by force, and an environment that is read.
Orderly == readable /\ overlapped = {} /\ \A u \in Upgrade : ~asks[u].force

\* The volume that is armed, or on trial, holds this one's image.
ArmedWith(u) ==
    \/ nextboot /\ volumes[3 - attached].image.writers = {u}
    \/ Tentative /\ volumes[attached].image.writers = {u}

NoteInv ==
    Orderly =>
        /\ \A u \in Installing : work[u] \in {"copying", "osupdate"} =>
               Staged(u) = Nothing \/ Staged(u).writers = {u}
        /\ \A u \in Installing : work[u] \in {"cleaning", "noting"} =>
               nextboot /\ volumes[3 - attached].image.writers = {u}
        /\ note # Nothing => ArmedWith(note)

LEMMA NoteInit == images_Init => NoteInv
BY DEF images_Init, NoteInv, Installing, Running

LEMMA NoteStep ==
    images_TypeOK /\ SlotsInv /\ InstallInv /\ NoteInv /\ [images_Next]_image_vars => NoteInv'
<1> SUFFICES ASSUME images_TypeOK, SlotsInv, InstallInv, NoteInv, [images_Next]_image_vars, Orderly'
             PROVE  NoteInv'
  BY DEF NoteInv
<1>t. FilesOK /\ WorkOK /\ SlotsOK /\ attached \in 1 .. 2 /\ 3 - attached \in 1 .. 2
  BY DEF images_TypeOK, SlotsOK
<1>n. \A u \in Upgrade : asks[u].name \in Name
  BY <1>t DEF WorkOK, Name
<1>1. ASSUME NEW u \in Upgrade, ~Tentative, Transfers(u) PROVE NoteInv'
  <2>1. UNCHANGED <<asks, readable, attached>>
    BY <1>1, TransferAndVolumes
  <2>2. Orderly
    BY <1>1, <1>t, <2>1, TransferAndWork DEF Orderly
  <2>3. \A v \in Installing : v \in Upgrade /\ ~Excused(v) /\ \A w \in Installing : v = w
    BY <2>2 DEF Orderly, Excused, InstallInv, Installing, Running
\* While one installs there is no other to look at, and nothing is armed before
\* it has flashed.
  <2>4. ASSUME u \in Installing PROVE Installing' \subseteq {u}
    BY <1>1, <1>t, <2>1, <2>3, <2>4, TransferAndWork DEF Installing, Running
  <2>5. ASSUME u \in Installing, work[u] \in ToFlash PROVE ~nextboot /\ note = Nothing
    BY <1>1, <2>2, <2>3, <2>5 DEF InstallInv, NoteInv, ArmedWith
  <2>6. ASSUME u \in Installing,
               work'[u] \in {"copying", "osupdate"} => Staged(u)' = Nothing \/ Staged(u)'.writers = {u},
               work'[u] \in {"cleaning", "noting"} => nextboot' /\ volumes'[3 - attached].image.writers = {u},
               note' # Nothing => ArmedWith(note)'
        PROVE  NoteInv'
    BY <2>1, <2>4, <2>6 DEF NoteInv
  <2>7. ASSUME UNCHANGED <<staged, place, volumes, nextboot, note>>,
               work'[u] \notin {"copying", "osupdate", "cleaning", "noting"} \/ asks[u].park \/ work' = work
        PROVE  NoteInv'
    <3>1. ASSUME NEW v \in Installing', work'[v] \in {"copying", "osupdate", "cleaning", "noting"}
          PROVE  v \in Installing /\ work'[v] = work[v] /\ Staged(v)' = Staged(v)
      BY <1>1, <1>t, <2>1, <2>7, <3>1, TransferAndWork DEF Installing, Running, Staged
    <3>2. note' # Nothing => ArmedWith(note)'
      BY <2>1, <2>2, <2>7 DEF NoteInv, ArmedWith, Tentative
    <3>3. QED
      BY <2>1, <2>2, <2>7, <3>1, <3>2 DEF NoteInv
  <2>8. CASE handle_transfer_request(u)
    <3>1. /\ UNCHANGED <<staged, place, volumes, nextboot, note>>
          /\ Goes(u, IF InstallRefused(u) THEN "over" ELSE "opening")
      BY <2>8 DEF handle_transfer_request
    <3>2. QED
      BY <1>t, <2>7, <3>1 DEF Goes, WorkOK
  <2>9. CASE install_firmware(u)
    <3>1. /\ UNCHANGED <<staged, place, volumes, nextboot, note>>
          /\ Goes(u, "over") \/ Goes(u, "selfupdate")
      BY <2>9 DEF install_firmware
    <3>2. QED
      BY <1>t, <2>7, <3>1 DEF Goes, WorkOK
  <2>10. CASE StopShort(u)
    BY <2>7, <2>10 DEF StopShort
  <2>11. CASE ParkRefused(u) \/ ParkOpens(u) \/ ParkCopied(u) \/ ParkFails(u) \/ ParkRenames(u)
    BY <1>t, <2>7, <2>11 DEF ParkRefused, ParkOpens, ParkCopied, ParkFails, ParkRenames,
                             Unchanged_but_files, WorkOK, Placed
  <2>12. CASE UpdateFails(u)
    <3>1. UNCHANGED <<staged, place, volumes, nextboot, note>> /\ work'[u] = "over"
      BY <1>t, <2>12 DEF UpdateFails, UpdateChanges, Goes, WorkOK
    <3>2. QED
      BY <2>7, <3>1
\* What an install is about to do, it does alone.
  <2>13. ASSUME work[u] \in {"opening", "copying", "osupdate", "selfupdate", "cleaning", "cleaning_failed", "noting"},
                ~asks[u].park
         PROVE  u \in Installing /\ (Flashing \ {u} = {})
    <3>1. u \in Installing
      BY <2>13 DEF Installing, Running
    <3>2. Flashing \subseteq Installing
      BY <1>t DEF Flashing, Installing, Running, WorkOK, Placed
    <3>3. QED
      BY <2>3, <3>1, <3>2
  <2>14. CASE UpdateOpens(u)
    <3>1. PICK p \in Place : /\ place' = [place EXCEPT ![u] = p]
                             /\ staged' = [staged EXCEPT ![p][asks[u].name] = Opened(u)]
      BY <2>14, SelectsAPlace DEF UpdateOpens
    <3>2. Staged(u)' = Opened(u)
      BY <1>n, <1>t, <2>1, <3>1 DEF Staged, FilesOK, WorkOK
    <3>3. work'[u] = "copying" /\ u \in Installing /\ work[u] \in ToFlash /\ UNCHANGED note
      BY <1>t, <2>13, <2>14 DEF UpdateOpens, Goes, WorkOK, ToFlash
    <3>4. Staged(u)'.writers = {u}
      BY <3>2 DEF Opened, Content
    <3>5. QED
      BY <2>5, <2>6, <3>3, <3>4
  <2>15. CASE UpdateCopied(u)
    <3>1. /\ u \in Installing /\ work[u] = "copying" /\ work'[u] = "osupdate" /\ UNCHANGED <<place, note>>
          /\ place[u] \in Place
      BY <1>t, <2>13, <2>15 DEF UpdateCopied, UpdateChanges, Goes, WorkOK, Placed
    <3>2. Staged(u) = Nothing \/ Staged(u).writers = {u}
      BY <2>2, <3>1 DEF NoteInv
    <3>3. CASE Staged(u) = Nothing
      <4>1. staged' = staged
        BY <2>15, <3>3 DEF UpdateCopied, UpdateChanges
      <4>2. Staged(u)' = Nothing
        BY <2>1, <3>1, <3>3, <4>1 DEF Staged
      <4>3. QED
        BY <2>5, <2>6, <3>1, <4>2 DEF ToFlash
    <3>4. CASE Staged(u) # Nothing
      <4>1. staged' = [staged EXCEPT ![place[u]][asks[u].name] = Written(u, Staged(u))]
        BY <2>15, <3>4 DEF UpdateCopied, UpdateChanges, Staged
      <4>2. Staged(u)' = Written(u, Staged(u))
        BY <1>n, <1>t, <2>1, <3>1, <4>1 DEF Staged, FilesOK
      <4>3. Written(u, Staged(u)).writers = {u}
        BY <3>2, <3>4 DEF Written, Content
      <4>4. QED
        BY <2>5, <2>6, <3>1, <4>2, <4>3 DEF ToFlash
    <3>5. QED
      BY <3>3, <3>4
\* An image that one transfer has written is what the other volume holds then.
  <2>16. ASSUME NEW image, Flashes(u, image), image.writers = {u}, u \in Installing
         PROVE  nextboot' /\ volumes'[3 - attached].image.writers = {u}
    <3>1. Flashing \ {u} = {}
      BY <1>t, <2>3, <2>16 DEF Flashing, Installing, Running, WorkOK, Placed
    <3>2. /\ nextboot' = TRUE
          /\ volumes'[3 - attached].image = Content(image.writers \cup (Flashing \ {u}), image.whole)
      BY <1>t, <2>16 DEF Flashes, SlotsOK
    <3>3. QED
      BY <2>16, <3>1, <3>2 DEF Content
  <2>17. CASE osupdate(u)
    <3>1. u \in Installing /\ work[u] = "osupdate"
      BY <1>t, <2>13, <2>17 DEF osupdate, WorkOK, Placed
    <3>2. note' = Nothing
      BY <2>5, <2>17, <3>1 DEF osupdate, UpdateChanges, ToFlash
    <3>3. CASE Goes(u, "cleaning") /\ Staged(u) # Nothing /\ Flashes(u, Staged(u))
      <4>1. Staged(u).writers = {u}
        BY <2>2, <3>1, <3>3 DEF NoteInv
      <4>2. work'[u] = "cleaning"
        BY <1>t, <3>3 DEF Goes, WorkOK
      <4>3. QED
        BY <2>6, <2>16, <3>1, <3>2, <3>3, <4>1, <4>2
    <3>4. CASE Goes(u, "cleaning_failed")
      <4>1. work'[u] = "cleaning_failed"
        BY <1>t, <3>4 DEF Goes, WorkOK
      <4>2. QED
        BY <2>6, <3>1, <3>2, <4>1
    <3>5. QED
      BY <2>17, <3>3, <3>4 DEF osupdate, UpdateChanges
  <2>18. CASE selfupdate(u)
    <3>1. u \in Installing /\ work[u] = "selfupdate" /\ work'[u] = "over"
      BY <1>t, <2>13, <2>18 DEF selfupdate, Goes, WorkOK, Placed
    <3>2. note = Nothing
      BY <2>5, <3>1 DEF ToFlash
    <3>3. CASE Flashes(u, Content({u}, TRUE)) /\ note' \in {u, note}
      <4>1. Content({u}, TRUE).writers = {u}
        BY DEF Content
      <4>2. nextboot' /\ volumes'[3 - attached].image.writers = {u}
        BY <2>16, <3>1, <3>3, <4>1
      <4>3. note' # Nothing => ArmedWith(note)'
        BY <2>1, <3>2, <3>3, <4>2 DEF ArmedWith
      <4>4. QED
        BY <2>6, <3>1, <4>3
    <3>4. CASE UNCHANGED note
      BY <2>6, <3>1, <3>2, <3>4
    <3>5. QED
      BY <2>18, <3>3, <3>4 DEF selfupdate, UpdateChanges
  <2>19. CASE UpdateCleans(u)
    <3>1. /\ u \in Installing /\ UNCHANGED <<volumes, nextboot, note>>
          /\ work'[u] \in {"noting", "over"} /\ (work'[u] = "noting" => work[u] = "cleaning")
      BY <1>t, <2>13, <2>19 DEF UpdateCleans, UpdateChanges, Goes, WorkOK, Placed
    <3>2. note' # Nothing => ArmedWith(note)'
      BY <2>1, <2>2, <3>1 DEF NoteInv, ArmedWith, Tentative
    <3>3. work'[u] = "noting" => nextboot' /\ volumes'[3 - attached].image.writers = {u}
      BY <2>2, <3>1 DEF NoteInv
    <3>4. QED
      BY <2>6, <3>1, <3>2, <3>3
  <2>20. CASE UpdateNotes(u)
    <3>1. /\ u \in Installing /\ work[u] = "noting" /\ work'[u] = "over"
          /\ note' \in {u, note} /\ UNCHANGED <<volumes, nextboot>>
      BY <1>t, <2>13, <2>20 DEF UpdateNotes, UpdateChanges, Goes, WorkOK, Placed
    <3>2. ArmedWith(u)' /\ (note # Nothing => ArmedWith(note)')
      BY <2>1, <2>2, <3>1 DEF NoteInv, ArmedWith, Tentative
    <3>3. QED
      BY <2>6, <3>1, <3>2
  <2>21. QED
    BY <1>1, <2>8, <2>9, <2>10, <2>11, <2>12, <2>14, <2>15, <2>17, <2>18, <2>19, <2>20 DEF Transfers
<1>2. CASE Reboot
  <2>1. Orderly /\ Installing' = {}
    BY <1>2 DEF Reboot, Orderly, Installing, Running
  <2>2. ASSUME note # Nothing PROVE ArmedWith(note)'
    <3>1. CASE nextboot /\ volumes[3 - attached].image.writers = {note}
      BY <1>2, <3>1 DEF Reboot, SlotsInv, OnTrial, Tentative, ArmedWith
    <3>2. CASE Tentative /\ volumes[attached].image.writers = {note}
      <4>1. ~nextboot
        BY <1>t, <3>2 DEF SlotsInv, OnTrial, Tentative
      <4>2. QED
        BY <1>2, <3>2, <4>1 DEF Reboot, Tentative, ArmedWith
    <3>3. QED
      BY <2>1, <2>2, <3>1, <3>2 DEF NoteInv, ArmedWith
  <2>3. QED
    BY <1>2, <2>1, <2>2 DEF Reboot, NoteInv
<1>3. CASE Promote \/ RollBack
  <2>1. note' = Nothing /\ Installing' = {}
    BY <1>3 DEF Promote, RollBack, NotAtWork, Installing, Running
  <2>2. QED
    BY <2>1 DEF NoteInv
<1>4. CASE UNCHANGED image_vars
  <2>1. UNCHANGED <<asks, work, overlapped, place, staged, volumes, attached, nextboot, readable, note>>
    BY <1>4 DEF image_vars
  <2>2. Orderly
    BY <2>1 DEF Orderly
  <2>3. QED
    BY <2>1, <2>2 DEF NoteInv, Installing, Running, Staged, ArmedWith, Tentative
<1>5. QED
  BY <1>1, <1>2, <1>3, <1>4 DEF images_Next

\* Without `force` nothing is flashed over an armed image unless two installs
\* were let in at once; the note on the disk is of the image that is armed or on
\* trial; and the rollback the board names was promoted once, with the version
\* that was written down of it - through crossed transfers, failures, reboots and
\* whatever the gate decides.
THEOREM InstallsLeaveAWayBack == ImagesSpec => InstallKeepsAWayBack
<1> DEFINE Inv == images_TypeOK /\ SlotsInv /\ InstallInv /\ NoteInv
<1>1. images_Init => Inv
  BY ImagesTyped, SlotsInit, InstallInit, NoteInit
<1>2. Inv /\ [images_Next]_image_vars => Inv'
  BY ImagesTypedStep, SlotsStep, InstallStep, NoteStep
<1>3. ASSUME Inv, NEW u \in Flashing, nextboot PROVE asks[u].force \/ ~readable \/ u \in overlapped
  <2>1. u \in Installing /\ work[u] \in ToFlash
    BY <1>3 DEF images_TypeOK, WorkOK, Placed, Flashing, Installing, Running, ToFlash
  <2>2. QED
    BY <1>3, <2>1 DEF InstallInv, Excused
<1>4. ASSUME Inv PROVE [ \A u \in Upgrade :
                          (nextboot /\ volumes' # volumes /\ u \in Flashing /\ work'[u] # work[u])
                              => asks[u].force \/ ~readable \/ u \in overlapped ]_image_vars
  BY <1>3, <1>4
<1>5. ASSUME Inv PROVE NoteIsOfAStagedImage
  <2> SUFFICES ASSUME note # Nothing, Orderly
               PROVE  \E v \in 1 .. 2 : volumes[v].name = "rootfs_new" /\ volumes[v].image.writers = {note}
    BY DEF NoteIsOfAStagedImage, Orderly
  <2>1. ArmedWith(note) /\ attached \in 1 .. 2 /\ 3 - attached \in 1 .. 2
    BY <1>5 DEF NoteInv, images_TypeOK, SlotsOK
  <2>2. CASE nextboot /\ volumes[3 - attached].image.writers = {note}
    BY <1>5, <2>1, <2>2 DEF SlotsInv, OnTrial
  <2>3. CASE Tentative /\ volumes[attached].image.writers = {note}
    BY <2>1, <2>3 DEF Tentative
  <2>4. QED
    BY <2>1, <2>2, <2>3 DEF ArmedWith
<1>6. Inv => RollbackIsProven
  BY SlotsGiveTheRollback
<1> HIDE DEF Inv
<1>7. QED
  BY <1>1, <1>2, <1>4, <1>5, <1>6, PTL DEF ImagesSpec, InstallKeepsAWayBack, ArmedIsLeftAlone

(***************************************************************************)
(* The catalogue is honest: every fan-out counts before its calls read,    *)
(* what a fan-out waits for and the calls made for it are the same, and    *)
(* a source in flight is a source with its one call.                       *)
(***************************************************************************)
Call == [source : Source, by : FanOut \cup {Unset}, age : 0 .. SOURCE_DEADLINE,
         lists : 0 .. MaxParks \cup {Unset}]

CatalogTypes ==
    /\ catalogue \in Cached \cup {Unset}
    /\ invalidations \in 0 .. MaxParks /\ card \in 0 .. MaxParks
    /\ fan \in [FanOut -> Fan]
    /\ calls \subseteq Call /\ in_flight \subseteq Source

\* One image at a time is parked and not yet told of.
ToldInTurn == invalidations <= card

\* A fan-out's count is of before, and what it has of the card has every image
\* of that count; until it asks it has nothing.
CountedFirst ==
    \A f \in FanOut :
        /\ fan[f].count <= invalidations
        /\ fan[f].local = -1 \/ fan[f].local >= fan[f].count
        /\ fan[f].stage # "asking" => fan[f].local = -1 /\ fan[f].waiting = {}

\* A call is waited for by the fan-out it was made for, and has read the card
\* after that counted.
CallsAreWaitedFor ==
    \A c \in calls : c.by # Unset =>
        /\ fan[c.by].stage = "asking" /\ c.source \in fan[c.by].waiting
        /\ c.source = "local" /\ c.lists # Unset => c.lists >= fan[c.by].count

\* What a fan-out waits for has its call.
WaitersHaveCalls ==
    \A f \in FanOut : \A s \in fan[f].waiting : \E c \in calls : c.source = s /\ c.by = f

InFlightIsCalled == in_flight = {c.source : c \in calls}

CatalogInv ==
    /\ CatalogTypes
    /\ ToldInTurn
    /\ CountedFirst
    /\ CallsAreWaitedFor
    /\ WaitersHaveCalls
    /\ InFlightIsCalled
    /\ OneCallPerSource
    /\ ParkedIsListedOrStale

\* What AnswersAreKept says of a step.
KeepsAnswers ==
    \A f \in FanOut :
        (fan[f].stage = "asking" /\ ~Complete(f) /\ fan'[f].stage = "none")
            => Restart \/ \E c \in calls : c.by = f /\ fan[f].age - c.age >= REFRESH_CLAIM - SOURCE_DEADLINE

LEMMA IdleIsAFan == Idle_fan \in Fan
  BY CatalogAssumption DEF Idle_fan, Fan, Listing

\* Every field of a fan-out and of a call, for the provers that see one step.
LEMMA FanFields ==
    ASSUME NEW g \in Fan
    PROVE  /\ g.stage \in {"none", "spawned", "loading", "asking"} /\ g.age \in 0 .. REFRESH_CLAIM
           /\ g.count \in 0 .. MaxParks /\ g.waiting \in SUBSET Source /\ g.local \in -1 .. MaxParks
  BY DEF Fan, Listing

LEMMA CallFields ==
    ASSUME NEW c \in Call
    PROVE  /\ c.source \in Source /\ c.by \in FanOut \cup {Unset} /\ c.age \in 0 .. SOURCE_DEADLINE
           /\ c.lists \in 0 .. MaxParks \cup {Unset}
  BY DEF Call

LEMMA CatalogInit == catalog_Init => CatalogInv
<1> SUFFICES ASSUME catalog_Init PROVE CatalogInv
  OBVIOUS
<1>1. /\ calls = {} /\ in_flight = {} /\ card \in 0 .. MaxParks /\ invalidations = card
      /\ catalogue = Unset
  BY DEF catalog_Init
<1>2. fan \in [FanOut -> Fan] /\ \A f \in FanOut : fan[f] = Idle_fan
  BY IdleIsAFan DEF catalog_Init
<1>3. Idle_fan.count = 0 /\ Idle_fan.local = -1 /\ Idle_fan.waiting = {}
  BY DEF Idle_fan
<1>4. CatalogTypes /\ ToldInTurn
  BY <1>1, <1>2, CatalogAssumption DEF CatalogTypes, ToldInTurn
<1>5. CountedFirst /\ WaitersHaveCalls
  <2>1. 0 <= invalidations
    BY <1>1, CatalogAssumption
  <2>2. ASSUME NEW f \in FanOut PROVE fan[f].count <= invalidations /\ fan[f].local = -1 /\ fan[f].waiting = {}
    BY <1>2, <1>3, <2>1
  <2> QED BY <2>2, Zenon DEF CountedFirst, WaitersHaveCalls
<1>6. CallsAreWaitedFor /\ InFlightIsCalled /\ OneCallPerSource /\ ParkedIsListedOrStale
  BY <1>1 DEF CallsAreWaitedFor, InFlightIsCalled, OneCallPerSource, ParkedIsListedOrStale
<1> QED BY <1>4, <1>5, <1>6 DEF CatalogInv

\* A fan-out that waits for nothing moves on to where it waits for nothing.
LEMMA FanMovesOn ==
    ASSUME CatalogInv, NEW f \in FanOut, NEW g \in Fan,
           fan' = [fan EXCEPT ![f] = g], fan[f].waiting = {}, g.waiting = {},
           g.count <= invalidations, g.local = -1,
           UNCHANGED <<invalidations, calls>>
    PROVE  /\ fan' \in [FanOut -> Fan]
           /\ CountedFirst' /\ CallsAreWaitedFor' /\ WaitersHaveCalls'
<1>1. fan' \in [FanOut -> Fan] /\ fan'[f] = g /\ \A h \in FanOut \ {f} : fan'[h] = fan[h]
  BY DEF CatalogInv, CatalogTypes
<1>2. CountedFirst'
  BY <1>1, Zenon DEF CatalogInv, CountedFirst
<1>3. ASSUME NEW c \in calls, c.by # Unset PROVE c.by \in FanOut \ {f}
  BY <1>3, CallFields DEF CatalogInv, CatalogTypes, CallsAreWaitedFor
<1>4. CallsAreWaitedFor'
  BY <1>1, <1>3, Zenon DEF CatalogInv, CallsAreWaitedFor
<1>5. WaitersHaveCalls'
  BY <1>1, Zenon DEF CatalogInv, WaitersHaveCalls
<1> QED BY <1>1, <1>2, <1>4, <1>5

\* What is not about the fan-outs is as it was.
LEMMA TheRestStays ==
    ASSUME CatalogInv, UNCHANGED <<catalogue, invalidations, calls, in_flight, card>>
    PROVE  ToldInTurn' /\ InFlightIsCalled' /\ OneCallPerSource' /\ ParkedIsListedOrStale'
  BY DEF CatalogInv, ToldInTurn, InFlightIsCalled, OneCallPerSource, ParkedIsListedOrStale

\* A reader asks for a refresh: a task is spawned, or not.
LEMMA AskingKeeps == ASSUME CatalogInv, Asked_for PROVE CatalogInv' /\ KeepsAnswers
<1>1. UNCHANGED <<catalogue, invalidations, calls, in_flight, card, priming>>
  BY DEF Asked_for
<1>2. CASE UNCHANGED fan
  BY <1>1, <1>2 DEF CatalogInv, CatalogTypes, ToldInTurn, CountedFirst, CallsAreWaitedFor, WaitersHaveCalls,
                    InFlightIsCalled, OneCallPerSource, ParkedIsListedOrStale, KeepsAnswers
<1>3. ASSUME NEW f \in FanOut, fan[f].stage = "none",
             fan' = [fan EXCEPT ![f] = [Idle_fan EXCEPT !.stage = "spawned"]]
      PROVE  CatalogInv' /\ KeepsAnswers
  <2> DEFINE g == [Idle_fan EXCEPT !.stage = "spawned"]
  <2>1. g \in Fan /\ g.waiting = {} /\ g.count = 0 /\ g.local = -1 /\ g.stage = "spawned"
    BY CatalogAssumption DEF Idle_fan, Fan, Listing
  <2>2. fan[f].waiting = {}
    BY <1>3 DEF CatalogInv, CountedFirst
  <2>3. 0 <= invalidations
    BY DEF CatalogInv, CatalogTypes
  <2>4. fan' = [fan EXCEPT ![f] = g]
    BY <1>3
  <2> HIDE DEF g
  <2>5. fan' \in [FanOut -> Fan] /\ CountedFirst' /\ CallsAreWaitedFor' /\ WaitersHaveCalls'
    BY <1>1, <2>1, <2>2, <2>3, <2>4, FanMovesOn
  <2>6. KeepsAnswers
    BY <1>3, <2>1, <2>4 DEF KeepsAnswers, CatalogInv, CatalogTypes
  <2> QED BY <1>1, <2>5, <2>6, TheRestStays DEF CatalogInv, CatalogTypes
<1> QED BY <1>2, <1>3, Zenon DEF Asked_for, spawn_refresh

\* prime shows the listing of the last run, and says so.
LEMMA PrimingKeeps == ASSUME CatalogInv, prime PROVE CatalogInv' /\ KeepsAnswers
<1>1. UNCHANGED <<invalidations, fan, calls, in_flight, card>>
  BY DEF prime
<1>2. catalogue' \in Cached \cup {Unset} /\ (catalogue' # catalogue => catalogue'.restored)
  <2>1. CASE UNCHANGED catalogue
    BY <2>1 DEF CatalogInv, CatalogTypes
  <2>2. ASSUME NEW n \in restore \ {-1}, catalogue' = [local |-> n, stale |-> FALSE, restored |-> TRUE]
        PROVE  catalogue' \in Cached /\ catalogue'.restored
    BY <2>2, CatalogAssumption DEF restore, Cached, Listing, CatalogInv, CatalogTypes
  <2> QED BY <2>1, <2>2, Zenon DEF prime
<1>3. ParkedIsListedOrStale'
  <2>1. CASE UNCHANGED catalogue
    BY <1>1, <2>1 DEF CatalogInv, ParkedIsListedOrStale
  <2>2. CASE catalogue' # catalogue
    BY <1>2, <2>2, Zenon DEF ParkedIsListedOrStale
  <2> QED BY <2>1, <2>2
<1>4. KeepsAnswers
  BY <1>1 DEF KeepsAnswers
<1> QED BY <1>1, <1>2, <1>3, <1>4 DEF CatalogInv, CatalogTypes, ToldInTurn, CountedFirst, CallsAreWaitedFor,
                                      WaitersHaveCalls, InFlightIsCalled, OneCallPerSource

\* The first poll reads the count.
LEMMA PollingKeeps == ASSUME CatalogInv, NEW f \in FanOut, Polled(f) PROVE CatalogInv' /\ KeepsAnswers
<1> DEFINE g == [fan[f] EXCEPT !.stage = "loading", !.count = invalidations]
<1>1. /\ fan' = [fan EXCEPT ![f] = g] /\ fan[f].stage = "spawned"
      /\ UNCHANGED <<catalogue, invalidations, calls, in_flight, card, priming>>
  BY DEF Polled, FanChanges
<1>2. fan[f] \in Fan /\ fan[f].waiting = {} /\ fan[f].local = -1 /\ invalidations \in 0 .. MaxParks
  BY <1>1 DEF CatalogInv, CatalogTypes, CountedFirst
<1>3. g \in Fan /\ g.waiting = {} /\ g.local = -1 /\ g.count = invalidations /\ g.stage = "loading"
  BY <1>2 DEF Fan
<1> HIDE DEF g
<1>4. invalidations <= invalidations
  BY <1>2
<1>5. fan' \in [FanOut -> Fan] /\ CountedFirst' /\ CallsAreWaitedFor' /\ WaitersHaveCalls'
  BY <1>1, <1>2, <1>3, <1>4, FanMovesOn
<1>6. KeepsAnswers
  BY <1>1, <1>3 DEF KeepsAnswers, CatalogInv, CatalogTypes
<1> QED BY <1>1, <1>5, <1>6, TheRestStays DEF CatalogInv, CatalogTypes

\* The listing is stored: what it has of the card is of the count it compares,
\* or later.
LEMMA StoringKeeps == ASSUME CatalogInv, NEW f \in FanOut, Stores(f) PROVE CatalogInv' /\ KeepsAnswers
<1>1. /\ Complete(f)
      /\ fan' = [fan EXCEPT ![f] = Idle_fan]
      /\ UNCHANGED <<invalidations, calls, in_flight, card>>
      /\ catalogue' = [local |-> fan[f].local, stale |-> invalidations # fan[f].count, restored |-> FALSE]
  BY DEF Stores, FanChanges
<1>2. Idle_fan.waiting = {} /\ Idle_fan.local = -1 /\ Idle_fan.count = 0
  BY DEF Idle_fan
<1>3. fan[f].waiting = {} /\ fan[f] \in Fan /\ invalidations \in 0 .. MaxParks
  BY <1>1 DEF Complete, CatalogInv, CatalogTypes
<1>4. 0 <= invalidations
  BY <1>3
<1>5. fan' \in [FanOut -> Fan] /\ CountedFirst' /\ CallsAreWaitedFor' /\ WaitersHaveCalls'
  BY <1>1, <1>2, <1>3, <1>4, IdleIsAFan, FanMovesOn
<1>6. catalogue' \in Cached
  BY <1>1, <1>3 DEF Cached, Fan
<1>7. ParkedIsListedOrStale'
  <2>1. fan[f].local = -1 \/ fan[f].local >= fan[f].count
    BY DEF CatalogInv, CountedFirst
  <2>2. catalogue'.local = fan[f].local /\ catalogue'.stale = (invalidations # fan[f].count)
    BY <1>1
  <2> QED BY <1>1, <2>1, <2>2, Zenon DEF ParkedIsListedOrStale
<1>8. KeepsAnswers
  BY <1>1 DEF KeepsAnswers, CatalogInv, CatalogTypes
<1> QED BY <1>1, <1>5, <1>6, <1>7, <1>8 DEF CatalogInv, CatalogTypes, ToldInTurn, InFlightIsCalled, OneCallPerSource

\* gather makes one call for each source that is free, and waits for these.
LEMMA GatheringKeeps == ASSUME CatalogInv, NEW f \in FanOut, Gathers(f) PROVE CatalogInv' /\ KeepsAnswers
<1> DEFINE free == Source \ in_flight
           g == [fan[f] EXCEPT !.stage = "asking", !.waiting = free]
           made == {SourceCall(f, s) : s \in free}
<1>1. /\ fan[f].stage = "loading" /\ fan' = [fan EXCEPT ![f] = g]
      /\ calls' = calls \cup made /\ in_flight' = Source
      /\ UNCHANGED <<catalogue, invalidations, card, priming>>
  BY DEF Gathers, FanChanges
<1>2. /\ fan[f] \in Fan /\ fan[f].count <= invalidations /\ fan[f].local = -1
      /\ calls \subseteq Call /\ in_flight \subseteq Source
  BY <1>1 DEF CatalogInv, CatalogTypes, CountedFirst
<1>3. /\ g \in Fan /\ g.stage = "asking" /\ g.waiting = free /\ g.count = fan[f].count
      /\ g.local = -1
  BY <1>2 DEF Fan
<1>4. ASSUME NEW s \in free
      PROVE  /\ SourceCall(f, s) \in Call /\ SourceCall(f, s).source = s /\ SourceCall(f, s).by = f
             /\ s = "local" => SourceCall(f, s).lists = Unset
  BY CatalogAssumption DEF SourceCall, Call
<1>5. /\ \A c \in made : \E s \in free : c = SourceCall(f, s)
      /\ \A s \in free : SourceCall(f, s) \in made
  OBVIOUS
<1> HIDE DEF g, made
<1>6. fan' \in [FanOut -> Fan] /\ fan'[f] = g /\ \A h \in FanOut \ {f} : fan'[h] = fan[h]
  BY <1>1, <1>3 DEF CatalogInv, CatalogTypes
<1>7. CatalogTypes' /\ ToldInTurn' /\ ParkedIsListedOrStale'
  BY <1>1, <1>2, <1>4, <1>5, <1>6 DEF CatalogInv, CatalogTypes, ToldInTurn, ParkedIsListedOrStale
<1>8. CountedFirst'
  BY <1>1, <1>2, <1>3, <1>6, Zenon DEF CatalogInv, CountedFirst
<1>9. ASSUME NEW c \in calls, c.by # Unset PROVE c.by \in FanOut \ {f} /\ c.source \in in_flight
  BY <1>1, <1>2, <1>9, CallFields DEF CatalogInv, CallsAreWaitedFor, InFlightIsCalled
<1>10. CallsAreWaitedFor'
  <2> SUFFICES ASSUME NEW c \in calls', c.by # Unset
               PROVE  /\ fan'[c.by].stage = "asking" /\ c.source \in fan'[c.by].waiting
                      /\ c.source = "local" /\ c.lists # Unset => c.lists >= fan'[c.by].count
    BY DEF CallsAreWaitedFor
  <2>1. CASE c \in calls
    BY <1>6, <1>9, <2>1, Zenon DEF CatalogInv, CallsAreWaitedFor
  <2>2. CASE c \in made
    <3>1. PICK s \in free : c = SourceCall(f, s)
      BY <1>5, <2>2
    <3> QED BY <1>3, <1>4, <1>6, <3>1, Zenon
  <2> QED BY <1>1, <2>1, <2>2
<1>11. WaitersHaveCalls'
  <2> SUFFICES ASSUME NEW h \in FanOut, NEW s \in fan'[h].waiting
               PROVE  \E c \in calls' : c.source = s /\ c.by = h
    BY Zenon DEF WaitersHaveCalls
  <2>1. CASE h = f
    <3>1. s \in free
      BY <1>3, <1>6, <2>1
    <3> QED BY <1>1, <1>4, <1>5, <2>1, <3>1
  <2>2. CASE h # f
    <3>1. s \in fan[h].waiting
      BY <1>6, <2>2
    <3> QED BY <1>1, <3>1 DEF CatalogInv, WaitersHaveCalls
  <2> QED BY <2>1, <2>2
<1>12. InFlightIsCalled'
  <2>1. ASSUME NEW s \in Source PROVE \E c \in calls' : c.source = s
    <3>1. CASE s \in free
      BY <1>1, <1>4, <1>5, <3>1
    <3>2. CASE s \in in_flight
      BY <1>1, <3>2 DEF CatalogInv, InFlightIsCalled
    <3> QED BY <3>1, <3>2
  <2>2. \A c \in calls' : c.source \in Source
    BY <1>7, CallFields DEF CatalogTypes
  <2> QED BY <1>1, <2>1, <2>2 DEF InFlightIsCalled
<1>13. OneCallPerSource'
  <2> SUFFICES ASSUME NEW c \in calls', NEW d \in calls', c.source = d.source PROVE c = d
    BY Zenon DEF OneCallPerSource
  <2>1. \A e \in calls : e.source \in in_flight
    BY DEF CatalogInv, InFlightIsCalled
  <2>2. \A e \in made : e.source \in free /\ e = SourceCall(f, e.source)
    BY <1>4, <1>5
  <2>3. CASE c \in calls /\ d \in calls
    BY <2>3 DEF CatalogInv, OneCallPerSource
  <2>4. CASE c \in made /\ d \in made
    BY <2>2, <2>4, Zenon
  <2>5. CASE ~ (c \in calls /\ d \in calls) /\ ~ (c \in made /\ d \in made)
    BY <1>1, <2>1, <2>2, <2>5
  <2> QED BY <2>3, <2>4, <2>5
<1>14. KeepsAnswers
  BY <1>1, <1>3, <1>6 DEF KeepsAnswers
<1> QED BY <1>7, <1>8, <1>10, <1>11, <1>12, <1>13, <1>14 DEF CatalogInv

\* The directory is read: every image of the counts there are is found.
LEMMA ReadingFinds == ASSUME CatalogInv, NEW c \in calls, Reads(c) PROVE CatalogInv' /\ KeepsAnswers
<1> DEFINE d == [c EXCEPT !.lists = card]
<1>1. /\ calls' = (calls \ {c}) \cup {d} /\ c.lists = Unset
      /\ UNCHANGED <<catalogue, invalidations, fan, in_flight, card, priming>>
  BY DEF Reads
<1>2. c \in Call /\ card \in 0 .. MaxParks /\ invalidations \in 0 .. MaxParks /\ invalidations <= card
  BY DEF CatalogInv, CatalogTypes, ToldInTurn
<1>3. d \in Call /\ d.source = c.source /\ d.by = c.by /\ d.lists = card
  BY <1>2 DEF Call
<1> HIDE DEF d
<1>4. CatalogTypes' /\ ToldInTurn' /\ CountedFirst' /\ ParkedIsListedOrStale'
  BY <1>1, <1>3 DEF CatalogInv, CatalogTypes, ToldInTurn, CountedFirst, ParkedIsListedOrStale
<1>5. CallsAreWaitedFor'
  <2>1. ASSUME d.by # Unset
        PROVE  /\ fan[d.by].stage = "asking" /\ d.source \in fan[d.by].waiting
               /\ d.lists >= fan[d.by].count
    <3>1. fan[d.by].stage = "asking" /\ d.source \in fan[d.by].waiting /\ d.by \in FanOut
      BY <1>2, <1>3, <2>1, CallFields DEF CatalogInv, CallsAreWaitedFor
    <3>2. fan[d.by].count <= invalidations /\ fan[d.by].count \in 0 .. MaxParks
      BY <3>1, FanFields DEF CatalogInv, CatalogTypes, CountedFirst
    <3>3. d.lists >= fan[d.by].count
      BY <1>2, <1>3, <3>2, CatalogAssumption
    <3> QED BY <3>1, <3>3
  <2> QED BY <1>1, <2>1, Zenon DEF CatalogInv, CallsAreWaitedFor
<1>6. WaitersHaveCalls'
  BY <1>1, <1>3 DEF CatalogInv, WaitersHaveCalls
<1>7. InFlightIsCalled' /\ OneCallPerSource'
  BY <1>1, <1>3 DEF CatalogInv, InFlightIsCalled, OneCallPerSource
<1>8. KeepsAnswers
  BY <1>1 DEF KeepsAnswers
<1> QED BY <1>4, <1>5, <1>6, <1>7, <1>8 DEF CatalogInv

\* A call returns: its source is free again, and its fan-out, if there is one
\* that still waits for it, has its answer.
LEMMA ReturningKeeps == ASSUME CatalogInv, NEW c \in calls, Returns(c) PROVE CatalogInv' /\ KeepsAnswers
<1>1. /\ calls' = calls \ {c} /\ in_flight' = in_flight \ {c.source} /\ c.lists # Unset
      /\ UNCHANGED <<catalogue, invalidations, card, priming>>
  BY DEF Returns, FanChanges
<1>2. c \in Call
  BY DEF CatalogInv, CatalogTypes
<1>3. ToldInTurn' /\ ParkedIsListedOrStale' /\ OneCallPerSource'
  BY <1>1 DEF CatalogInv, ToldInTurn, ParkedIsListedOrStale, OneCallPerSource
<1>4. InFlightIsCalled'
  BY <1>1 DEF CatalogInv, InFlightIsCalled, OneCallPerSource
<1>5. CASE c.by = Unset
  <2>1. UNCHANGED fan
    <3>1. c.by # Unset \/ UNCHANGED fan
      BY DEF Returns
    <3> QED BY <1>5, <3>1
  <2>2. CatalogTypes' /\ CountedFirst' /\ CallsAreWaitedFor'
    BY <1>1, <2>1 DEF CatalogInv, CatalogTypes, CountedFirst, CallsAreWaitedFor
  <2>3. WaitersHaveCalls'
    BY <1>1, <1>5, <2>1, CatalogAssumption DEF CatalogInv, WaitersHaveCalls
  <2>4. KeepsAnswers
    BY <2>1 DEF KeepsAnswers
  <2> QED BY <1>3, <1>4, <2>2, <2>3, <2>4 DEF CatalogInv
<1>6. CASE c.by # Unset
  <2>1. PICK f \in FanOut : f = c.by
    BY <1>2, <1>6, CallFields
  <2>2. /\ fan[f] \in Fan /\ fan[f].stage = "asking" /\ c.source \in fan[f].waiting
        /\ c.source = "local" => c.lists >= fan[f].count
        /\ fan[f].count <= invalidations /\ (fan[f].local = -1 \/ fan[f].local >= fan[f].count)
    BY <1>1, <1>6, <2>1 DEF CatalogInv, CatalogTypes, CallsAreWaitedFor, CountedFirst
  <2>3. PICK offer \in {c.lists, -1} :
            fan' = [fan EXCEPT ![f] = [fan[f] EXCEPT !.waiting = @ \ {c.source},
                                         !.local = IF c.source = "local" THEN offer ELSE @]]
    BY <1>6, <2>1, Zenon DEF Returns, resolve, FanChanges
  <2> DEFINE g == [fan[f] EXCEPT !.waiting = @ \ {c.source},
                       !.local = IF c.source = "local" THEN offer ELSE @]
  <2>4. offer \in -1 .. MaxParks
    BY <1>1, <1>2, CallFields, CatalogAssumption
  <2>5. /\ g \in Fan /\ g.stage = "asking" /\ g.waiting = fan[f].waiting \ {c.source}
        /\ g.count = fan[f].count
        /\ g.local = IF c.source = "local" THEN offer ELSE fan[f].local
    BY <2>2, <2>4 DEF Fan, Listing
  <2>6. fan' = [fan EXCEPT ![f] = g]
    BY <2>3
  <2> HIDE DEF g
  <2>7. fan' \in [FanOut -> Fan] /\ fan'[f] = g /\ \A h \in FanOut \ {f} : fan'[h] = fan[h]
    BY <2>5, <2>6 DEF CatalogInv, CatalogTypes
  <2>8. CatalogTypes'
    BY <1>1, <2>7 DEF CatalogInv, CatalogTypes
  <2>9. g.local = -1 \/ g.local >= g.count
    <3>1. CASE c.source = "local"
      BY <2>2, <2>5, <3>1
    <3>2. CASE c.source # "local"
      BY <2>2, <2>5, <3>2
    <3> QED BY <3>1, <3>2
  <2>10. CountedFirst'
    BY <1>1, <2>2, <2>5, <2>7, <2>9, Zenon DEF CatalogInv, CountedFirst
  <2>11. \A d \in calls' : d.source # c.source
    BY <1>1 DEF CatalogInv, OneCallPerSource
  <2>12. CallsAreWaitedFor'
    <3> SUFFICES ASSUME NEW d \in calls', d.by # Unset
                 PROVE  /\ fan'[d.by].stage = "asking" /\ d.source \in fan'[d.by].waiting
                        /\ d.source = "local" /\ d.lists # Unset => d.lists >= fan'[d.by].count
      BY DEF CallsAreWaitedFor
    <3>1. /\ fan[d.by].stage = "asking" /\ d.source \in fan[d.by].waiting /\ d.by \in FanOut
          /\ d.source = "local" /\ d.lists # Unset => d.lists >= fan[d.by].count
      BY <1>1, CallFields DEF CatalogInv, CatalogTypes, CallsAreWaitedFor
    <3>2. CASE d.by = f
      BY <2>5, <2>7, <2>11, <3>1, <3>2
    <3>3. CASE d.by # f
      BY <2>7, <3>1, <3>3
    <3> QED BY <3>2, <3>3
  <2>13. WaitersHaveCalls'
    <3> SUFFICES ASSUME NEW h \in FanOut, NEW s \in fan'[h].waiting
                 PROVE  \E d \in calls' : d.source = s /\ d.by = h
      BY Zenon DEF WaitersHaveCalls
    <3>1. s \in fan[h].waiting /\ (h = f => s # c.source)
      BY <2>5, <2>7
    <3>2. PICK d \in calls : d.source = s /\ d.by = h
      BY <3>1 DEF CatalogInv, WaitersHaveCalls
    <3>3. d # c
      BY <2>1, <3>1, <3>2
    <3> QED BY <1>1, <3>2, <3>3
  <2>14. KeepsAnswers
    BY <2>5, <2>7 DEF KeepsAnswers
  <2> QED BY <1>3, <1>4, <2>8, <2>10, <2>12, <2>13, <2>14 DEF CatalogInv
<1> QED BY <1>5, <1>6

\* When every call is changed and none changes its source, no source gains a
\* call or loses the one it has.
LEMMA CallsChange ==
    ASSUME CatalogInv, NEW image \in [calls -> Call], \A c \in calls : image[c].source = c.source,
           calls' = {image[c] : c \in calls}, UNCHANGED in_flight
    PROVE  calls' \subseteq Call /\ InFlightIsCalled' /\ OneCallPerSource'
<1>1. calls' \subseteq Call
  OBVIOUS
<1>2. InFlightIsCalled'
  BY DEF CatalogInv, InFlightIsCalled
<1>3. ASSUME NEW c \in calls', NEW d \in calls', c.source = d.source PROVE c = d
  <2>1. PICK a \in calls, b \in calls : c = image[a] /\ d = image[b]
    OBVIOUS
  <2>2. a.source = b.source
    BY <1>3, <2>1
  <2>3. a = b
    BY <2>2, Zenon DEF CatalogInv, OneCallPerSource
  <2> QED BY <2>1, <2>3
<1> QED BY <1>1, <1>2, <1>3, Zenon DEF OneCallPerSource

\* A call that is forgotten is still a call of its source.
LEMMA ForgottenIsACall ==
    ASSUME NEW c \in Call
    PROVE  Forgotten(c) \in Call /\ Forgotten(c).source = c.source /\ Forgotten(c).by = Unset
<1> DEFINE age == IF c.source = "local" THEN 0 ELSE c.age
<1>1. age \in 0 .. SOURCE_DEADLINE /\ 0 \in 0 .. MaxParks
  BY CallFields, CatalogAssumption
<1>2. Forgotten(c) = [c EXCEPT !.by = Unset, !.lists = 0, !.age = age]
  BY Zenon DEF Forgotten
<1> HIDE DEF age
<1> QED BY <1>1, <1>2 DEF Call

\* A fan-out stops waiting for some sources; their calls run on, for nobody.
LEMMA ForgettingKeeps ==
    ASSUME CatalogInv, NEW f \in FanOut, NEW some \in SUBSET Source, NEW g \in Fan,
           fan' = [fan EXCEPT ![f] = g],
           calls' = {IF c.by = f /\ c.source \in some THEN Forgotten(c) ELSE c : c \in calls},
           UNCHANGED <<catalogue, invalidations, in_flight, card>>,
           g.waiting = fan[f].waiting \ some,
           g.count <= invalidations, g.local = -1 \/ g.local >= g.count,
           g.stage # "asking" => g.local = -1 /\ g.waiting = {},
           g.waiting # {} => g.count = fan[f].count
    PROVE  CatalogInv'
<1> DEFINE image == [c \in calls |-> IF c.by = f /\ c.source \in some THEN Forgotten(c) ELSE c]
<1>1. calls \subseteq Call
  BY DEF CatalogInv, CatalogTypes
<1>2. ASSUME NEW c \in calls
      PROVE  /\ image[c] \in Call /\ image[c].source = c.source
             /\ c.by = f /\ c.source \in some => image[c].by = Unset
             /\ ~ (c.by = f /\ c.source \in some) => image[c] = c
  BY <1>1, ForgottenIsACall
<1>3. calls' = {image[c] : c \in calls}
  OBVIOUS
<1>4. image \in [calls -> Call]
  BY <1>1, ForgottenIsACall
<1> HIDE DEF image
<1>5. calls' \subseteq Call /\ InFlightIsCalled' /\ OneCallPerSource'
  BY <1>2, <1>3, <1>4, CallsChange
<1>6. fan' \in [FanOut -> Fan] /\ fan'[f] = g /\ \A h \in FanOut \ {f} : fan'[h] = fan[h]
  BY DEF CatalogInv, CatalogTypes
<1>7. CatalogTypes' /\ ToldInTurn' /\ ParkedIsListedOrStale'
  BY <1>5, <1>6 DEF CatalogInv, CatalogTypes, ToldInTurn, ParkedIsListedOrStale
<1>8. CountedFirst'
  BY <1>6, Zenon DEF CatalogInv, CountedFirst
<1>9. CallsAreWaitedFor'
  <2> SUFFICES ASSUME NEW d \in calls', d.by # Unset
               PROVE  /\ fan'[d.by].stage = "asking" /\ d.source \in fan'[d.by].waiting
                      /\ d.source = "local" /\ d.lists # Unset => d.lists >= fan'[d.by].count
    BY DEF CallsAreWaitedFor
  <2>1. d \in calls /\ ~ (d.by = f /\ d.source \in some)
    BY <1>2, <1>3
  <2>2. /\ fan[d.by].stage = "asking" /\ d.source \in fan[d.by].waiting /\ d.by \in FanOut
        /\ d.source = "local" /\ d.lists # Unset => d.lists >= fan[d.by].count
    BY <1>1, <2>1, CallFields DEF CatalogInv, CallsAreWaitedFor
  <2>3. CASE d.by = f
    <3>1. d.source \in g.waiting
      BY <2>1, <2>2, <2>3
    <3>2. g.stage = "asking" /\ g.count = fan[f].count
      BY <3>1
    <3> QED BY <1>6, <2>2, <2>3, <3>1, <3>2
  <2>4. CASE d.by # f
    BY <1>6, <2>2, <2>4
  <2> QED BY <2>3, <2>4
<1>10. WaitersHaveCalls'
  <2> SUFFICES ASSUME NEW h \in FanOut, NEW s \in fan'[h].waiting
               PROVE  \E d \in calls' : d.source = s /\ d.by = h
    BY Zenon DEF WaitersHaveCalls
  <2>1. s \in fan[h].waiting /\ (h = f => s \notin some)
    BY <1>6
  <2>2. PICK d \in calls : d.source = s /\ d.by = h
    BY <2>1 DEF CatalogInv, WaitersHaveCalls
  <2>3. image[d] = d
    BY <1>2, <2>1, <2>2
  <2>4. d \in calls'
    BY <1>3, <2>3
  <2> QED BY <2>2, <2>4
<1> QED BY <1>5, <1>7, <1>8, <1>9, <1>10 DEF CatalogInv

\* A source is past its deadline: the fan-out goes on without it.
LEMMA TimedOutKeeps ==
    ASSUME CatalogInv, NEW f \in FanOut, NEW s \in Source, SourceTimesOut(f, s)
    PROVE  CatalogInv' /\ KeepsAnswers
<1> DEFINE g == [fan[f] EXCEPT !.waiting = @ \ {s}]
<1>1. /\ s \in fan[f].waiting /\ fan' = [fan EXCEPT ![f] = g]
      /\ calls' = {IF c.by = f /\ c.source = s THEN Forgotten(c) ELSE c : c \in calls}
      /\ UNCHANGED <<catalogue, invalidations, in_flight, card>>
  BY DEF SourceTimesOut, Overdue, FanChanges
<1>2. /\ fan[f] \in Fan /\ fan[f].stage = "asking" /\ fan[f].count <= invalidations
      /\ fan[f].local = -1 \/ fan[f].local >= fan[f].count
  BY <1>1 DEF CatalogInv, CatalogTypes, CountedFirst
<1>3. /\ g \in Fan /\ g.stage = "asking" /\ g.waiting = fan[f].waiting \ {s}
      /\ g.count = fan[f].count /\ g.local = fan[f].local
  BY <1>2 DEF Fan
<1> HIDE DEF g
<1>4. calls' = {IF c.by = f /\ c.source \in {s} THEN Forgotten(c) ELSE c : c \in calls}
  BY <1>1
<1>5. CatalogInv'
  BY <1>1, <1>2, <1>3, <1>4, ForgettingKeeps
<1>6. KeepsAnswers
  BY <1>1, <1>3 DEF KeepsAnswers, CatalogInv, CatalogTypes
<1> QED BY <1>5, <1>6

\* The fan-out itself is past its deadline: it began to ask too late for it.
LEMMA ExpiringKeeps ==
    ASSUME CatalogInv, NEW f \in FanOut, RefreshTimesOut(f)
    PROVE  CatalogInv' /\ KeepsAnswers
<1>1. /\ fan[f].stage \in {"loading", "asking"} /\ fan[f].age >= REFRESH_CLAIM
      /\ fan' = [fan EXCEPT ![f] = Idle_fan] /\ calls' = WithoutWaiter(f)
      /\ UNCHANGED <<catalogue, invalidations, in_flight, card>>
  BY DEF RefreshTimesOut, Expired, FanChanges
<1>2. fan[f] \in Fan /\ invalidations \in 0 .. MaxParks /\ \A c \in calls : c.source \in Source
  BY CallFields DEF CatalogInv, CatalogTypes
<1>3. /\ Idle_fan.waiting = {} /\ Idle_fan.count = 0 /\ Idle_fan.local = -1
      /\ Idle_fan.waiting = fan[f].waiting \ Source
  BY <1>2, FanFields DEF Idle_fan
<1>4. calls' = {IF c.by = f /\ c.source \in Source THEN Forgotten(c) ELSE c : c \in calls}
  BY <1>1, <1>2 DEF WithoutWaiter
<1>5. 0 <= invalidations
  BY <1>2
<1>6. CatalogInv'
  BY <1>1, <1>3, <1>4, <1>5, IdleIsAFan, ForgettingKeeps
<1>7. ASSUME fan[f].stage = "asking", ~Complete(f)
      PROVE  \E c \in calls : c.by = f /\ fan[f].age - c.age >= REFRESH_CLAIM - SOURCE_DEADLINE
  <2>1. PICK s \in fan[f].waiting : TRUE
    BY <1>7 DEF Complete
  <2>2. PICK c \in calls : c.source = s /\ c.by = f
    BY DEF CatalogInv, WaitersHaveCalls
  <2>3. c.age \in 0 .. SOURCE_DEADLINE /\ fan[f].age \in 0 .. REFRESH_CLAIM
    BY <1>2, FanFields, CallFields DEF CatalogInv, CatalogTypes
  <2>4. fan[f].age - c.age >= REFRESH_CLAIM - SOURCE_DEADLINE
    BY <1>1, <2>3, CatalogAssumption
  <2> QED BY <2>2, <2>4
<1>8. KeepsAnswers
  <2> SUFFICES ASSUME NEW h \in FanOut, fan[h].stage = "asking", ~Complete(h), fan'[h].stage = "none"
               PROVE  \E c \in calls : c.by = h /\ fan[h].age - c.age >= REFRESH_CLAIM - SOURCE_DEADLINE
    BY Zenon DEF KeepsAnswers
  <2>1. h = f
    BY <1>1 DEF CatalogInv, CatalogTypes
  <2> QED BY <1>7, <2>1
<1> QED BY <1>6, <1>8

\* An image is parked; it is told of when the count moves.
LEMMA ParkingKeeps == ASSUME CatalogInv, Park PROVE CatalogInv' /\ KeepsAnswers
<1>1. /\ card' = card + 1 /\ card < MaxParks /\ card = invalidations
      /\ UNCHANGED <<catalogue, invalidations, fan, calls, in_flight>>
  BY DEF Park
<1>2. CatalogTypes' /\ ToldInTurn'
  BY <1>1, CatalogAssumption DEF CatalogInv, CatalogTypes, ToldInTurn
<1> QED BY <1>1, <1>2 DEF CatalogInv, CountedFirst, CallsAreWaitedFor, WaitersHaveCalls,
                          InFlightIsCalled, OneCallPerSource, ParkedIsListedOrStale, KeepsAnswers

\* The count moves: what is cached is marked.
LEMMA InvalidatingKeeps == ASSUME CatalogInv, invalidate PROVE CatalogInv' /\ KeepsAnswers
<1>1. /\ invalidations' = invalidations + 1 /\ invalidations < card
      /\ catalogue' = IF catalogue = Unset THEN catalogue ELSE [catalogue EXCEPT !.stale = TRUE]
      /\ UNCHANGED <<fan, calls, in_flight, card>>
  BY DEF invalidate
<1>2. catalogue' \in Cached \cup {Unset} /\ (catalogue' # Unset => catalogue'.stale)
  BY <1>1 DEF CatalogInv, CatalogTypes, Cached
<1>3. CatalogTypes' /\ ToldInTurn'
  BY <1>1, <1>2, CatalogAssumption DEF CatalogInv, CatalogTypes, ToldInTurn
<1>4. CountedFirst'
  <2>1. ASSUME NEW f \in FanOut PROVE fan[f].count <= invalidations'
    BY <1>1, FanFields DEF CatalogInv, CatalogTypes, CountedFirst
  <2> QED BY <1>1, <2>1, Zenon DEF CatalogInv, CountedFirst
<1>5. ParkedIsListedOrStale'
  BY <1>2, Zenon DEF ParkedIsListedOrStale
<1> QED BY <1>1, <1>3, <1>4, <1>5 DEF CatalogInv, CallsAreWaitedFor, WaitersHaveCalls,
                          InFlightIsCalled, OneCallPerSource, KeepsAnswers

\* The daemon starts again, with nothing cached and nothing under way.
LEMMA RestartingKeeps == ASSUME CatalogInv, Restart PROVE CatalogInv' /\ KeepsAnswers
<1>1. /\ calls' = {} /\ in_flight' = {} /\ card' = card /\ invalidations' = card
      /\ catalogue' = Unset /\ priming' = TRUE
  BY DEF Restart
<1>2. fan' \in [FanOut -> Fan] /\ \A f \in FanOut : fan'[f] = Idle_fan
  BY IdleIsAFan DEF Restart
<1>3. Idle_fan.count = 0 /\ Idle_fan.local = -1 /\ Idle_fan.waiting = {}
  BY DEF Idle_fan
<1>4. CatalogTypes' /\ ToldInTurn'
  BY <1>1, <1>2 DEF CatalogInv, CatalogTypes, ToldInTurn
<1>5. CountedFirst' /\ WaitersHaveCalls'
  <2>1. 0 <= invalidations'
    BY <1>1 DEF CatalogInv, CatalogTypes
  <2>2. ASSUME NEW f \in FanOut PROVE fan'[f].count <= invalidations' /\ fan'[f].local = -1 /\ fan'[f].waiting = {}
    BY <1>2, <1>3, <2>1
  <2> QED BY <2>2, Zenon DEF CountedFirst, WaitersHaveCalls
<1>6. CallsAreWaitedFor' /\ InFlightIsCalled' /\ OneCallPerSource' /\ ParkedIsListedOrStale'
  BY <1>1 DEF CallsAreWaitedFor, InFlightIsCalled, OneCallPerSource, ParkedIsListedOrStale
<1>7. KeepsAnswers
  BY DEF KeepsAnswers
<1> QED BY <1>4, <1>5, <1>6, <1>7 DEF CatalogInv

\* Time passes: only ages change, and none past a timer.
LEMMA TickingKeeps == ASSUME CatalogInv, Tick PROVE CatalogInv' /\ KeepsAnswers
<1> DEFINE aged(g) == IF g.stage \in {"none", "spawned"} THEN g ELSE [g EXCEPT !.age = Older(@, REFRESH_CLAIM)]
           image == [c \in calls |-> IF c.by = Unset /\ c.source = "local" THEN c
                                     ELSE [c EXCEPT !.age = Older(@, REFRESH_CLAIM)]]
<1>1. /\ fan' = [f \in FanOut |-> aged(fan[f])] /\ calls' = {image[c] : c \in calls}
      /\ UNCHANGED <<catalogue, invalidations, in_flight, card, priming>>
      /\ \A f \in FanOut : \A s \in Source : ~Overdue(f, s)
      /\ \A c \in calls : ~Killed(c)
  BY DEF Tick
<1>2. ASSUME NEW age, NEW cap \in Nat, age \in 0 .. cap PROVE Older(age, cap) \in 0 .. cap
  BY <1>2 DEF Older
<1>3. ASSUME NEW f \in FanOut
      PROVE  /\ aged(fan[f]) \in Fan
             /\ aged(fan[f]).stage = fan[f].stage /\ aged(fan[f]).count = fan[f].count
             /\ aged(fan[f]).waiting = fan[f].waiting /\ aged(fan[f]).local = fan[f].local
  <2>1. fan[f] \in Fan
    BY DEF CatalogInv, CatalogTypes
  <2>2. Older(fan[f].age, REFRESH_CLAIM) \in 0 .. REFRESH_CLAIM
    BY <1>2, <2>1, FanFields, CatalogAssumption
  <2> QED BY <2>1, <2>2 DEF Fan
<1>4. ASSUME NEW c \in calls
      PROVE  /\ image[c] \in Call /\ image[c].source = c.source /\ image[c].by = c.by
             /\ image[c].lists = c.lists
  <2>1. c \in Call
    BY DEF CatalogInv, CatalogTypes
  <2>2. /\ c.source \in Source /\ c.by \in FanOut \cup {Unset}
        /\ c.age \in 0 .. SOURCE_DEADLINE
    BY <2>1, CallFields
  <2>3. CASE c.by = Unset /\ c.source = "local"
    BY <2>1, <2>3
  <2>4. CASE ~(c.by = Unset /\ c.source = "local")
    <3>1. c.age < SOURCE_DEADLINE
      <4>1. CASE c.by = Unset
        <5>1. c.source = "remote" /\ ~Killed(c)
          BY <1>1, <2>2, <2>4, <4>1 DEF Source
        <5> QED BY <2>2, <5>1, CatalogAssumption DEF Killed, Deadline
      <4>2. CASE c.by # Unset
        <5>1. c.by \in FanOut /\ c.source \in fan[c.by].waiting
          BY <2>2, <4>2 DEF CatalogInv, CallsAreWaitedFor
        <5>2. ~Overdue(c.by, c.source)
          BY <1>1, <2>2, <5>1, Zenon
        <5>3. ~(c.age >= Deadline)
          BY <5>1, <5>2, Zenon DEF Overdue
        <5> QED BY <2>2, <5>3, CatalogAssumption DEF Deadline
      <4> QED BY <4>1, <4>2
    <3>2. Older(c.age, REFRESH_CLAIM) \in 0 .. SOURCE_DEADLINE
      BY <2>2, <3>1, CatalogAssumption DEF Older
    <3>3. image[c] = [c EXCEPT !.age = Older(@, REFRESH_CLAIM)]
      BY <2>4
    <3> QED BY <2>1, <3>2, <3>3 DEF Call
  <2> QED BY <2>3, <2>4
<1>5. image \in [calls -> Call]
  <2>1. DOMAIN image = calls /\ image = [c \in calls |-> image[c]]
    OBVIOUS
  <2> HIDE DEF image
  <2> QED BY <1>4, <2>1
<1> HIDE DEF image, aged
<1>6. /\ fan' \in [FanOut -> Fan]
      /\ \A f \in FanOut : /\ fan'[f].stage = fan[f].stage /\ fan'[f].count = fan[f].count
                           /\ fan'[f].waiting = fan[f].waiting /\ fan'[f].local = fan[f].local
  BY <1>1, <1>3
<1>7. calls' \subseteq Call /\ InFlightIsCalled' /\ OneCallPerSource'
  BY <1>1, <1>4, <1>5, CallsChange
<1>8. CatalogTypes' /\ ToldInTurn' /\ ParkedIsListedOrStale'
  BY <1>1, <1>6, <1>7 DEF CatalogInv, CatalogTypes, ToldInTurn, ParkedIsListedOrStale
<1>9. CountedFirst'
  BY <1>1, <1>6, Zenon DEF CatalogInv, CountedFirst
<1>10. CallsAreWaitedFor'
  <2> SUFFICES ASSUME NEW c \in calls, image[c].by # Unset
               PROVE  /\ fan'[image[c].by].stage = "asking" /\ image[c].source \in fan'[image[c].by].waiting
                      /\ image[c].source = "local" /\ image[c].lists # Unset
                             => image[c].lists >= fan'[image[c].by].count
    BY <1>1 DEF CallsAreWaitedFor
  <2>1. c.by \in FanOut \cup {Unset}
    BY CallFields DEF CatalogInv, CatalogTypes
  <2>2. /\ fan[c.by].stage = "asking" /\ c.source \in fan[c.by].waiting
        /\ c.source = "local" /\ c.lists # Unset => c.lists >= fan[c.by].count
    BY <1>4 DEF CatalogInv, CallsAreWaitedFor
  <2>3. c.by \in FanOut
    BY <1>4, <2>1
  <2>4. /\ fan'[c.by].stage = "asking" /\ c.source \in fan'[c.by].waiting
        /\ fan'[c.by].count = fan[c.by].count
    BY <1>6, <2>2, <2>3
  <2>5. image[c].by = c.by /\ image[c].source = c.source /\ image[c].lists = c.lists
    BY <1>4
  <2> QED BY <2>2, <2>4, <2>5
<1>11. WaitersHaveCalls'
  <2> SUFFICES ASSUME NEW h \in FanOut, NEW s \in fan'[h].waiting
               PROVE  \E d \in calls' : d.source = s /\ d.by = h
    BY Zenon DEF WaitersHaveCalls
  <2>1. PICK c \in calls : c.source = s /\ c.by = h
    BY <1>6 DEF CatalogInv, WaitersHaveCalls
  <2> QED BY <1>1, <1>4, <2>1
<1>12. KeepsAnswers
  BY <1>6 DEF KeepsAnswers
<1> QED BY <1>7, <1>8, <1>9, <1>10, <1>11, <1>12 DEF CatalogInv

LEMMA CatalogStep == CatalogInv /\ [catalog_Next]_catalog_vars => CatalogInv' /\ [KeepsAnswers]_catalog_vars
<1> SUFFICES ASSUME CatalogInv, [catalog_Next]_catalog_vars PROVE CatalogInv' /\ [KeepsAnswers]_catalog_vars
  OBVIOUS
<1>1. CASE get \/ cold
  BY <1>1, AskingKeeps, Zenon DEF get, cold
<1>2. CASE prime
  BY <1>2, PrimingKeeps, Zenon
<1>3. ASSUME NEW f \in FanOut, Polled(f) \/ Gathers(f) \/ Stores(f) \/ RefreshTimesOut(f)
      PROVE  CatalogInv' /\ KeepsAnswers
  BY <1>3, PollingKeeps, GatheringKeeps, StoringKeeps, ExpiringKeeps, Zenon
<1>4. ASSUME NEW f \in FanOut, NEW s \in Source, SourceTimesOut(f, s) PROVE CatalogInv' /\ KeepsAnswers
  BY <1>4, TimedOutKeeps, Zenon
<1>5. ASSUME NEW c \in calls, Reads(c) \/ Returns(c) PROVE CatalogInv' /\ KeepsAnswers
  BY <1>5, ReadingFinds, ReturningKeeps, Zenon
<1>6. CASE Park \/ invalidate \/ Restart \/ Tick
  BY <1>6, ParkingKeeps, InvalidatingKeeps, RestartingKeeps, TickingKeeps, Zenon
<1>7. CASE UNCHANGED catalog_vars
  BY <1>7 DEF catalog_vars, CatalogInv, CatalogTypes, ToldInTurn, CountedFirst, CallsAreWaitedFor,
              WaitersHaveCalls, InFlightIsCalled, OneCallPerSource, ParkedIsListedOrStale
<1> QED BY <1>1, <1>2, <1>3, <1>4, <1>5, <1>6, <1>7, Zenon DEF catalog_Next

\* Whatever the sources do and however fan-outs, readers and parks interleave
\* (fan_out, invalidate, gather): the cached listing is never wrong without
\* saying so, and no source is asked twice at once.
THEOREM CatalogStaysHonest == catalog_Spec => []CatalogIsHonest
<1>1. CatalogInv => CatalogIsHonest
  BY DEF CatalogInv, CatalogIsHonest
<1> QED BY <1>1, CatalogInit, CatalogStep, PTL DEF catalog_Spec

\* A source that hangs does not cost the others their answers (gather,
\* spawn_refresh): with timers that are punctual, a fan-out that had its
\* sources' deadline left when it began to ask is never given up while it asks.
THEOREM AnswersStayKept == catalog_Spec => AnswersAreKept
<1> QED BY CatalogInit, CatalogStep, PTL DEF catalog_Spec, AnswersAreKept, KeepsAnswers

(***************************************************************************)
(* The images on the card.                                                 *)
(***************************************************************************)
Path == Seq(STRING)
Places(fs) == {p \in DOMAIN fs : fs[p].kind # "link"}
Answers(fs) ==
    {[ok |-> p] : p \in Places(fs)} \cup {[to |-> s] : s \in Path}
    \cup {[err |-> e] : e \in {"Io", "NotFound"}}

LEMMA AnswerKinds ==
    ASSUME NEW fs, NEW given \in Answers(fs)
    PROVE  /\ IsOk(given) => given.ok \in Places(fs) /\ given = [ok |-> given.ok]
           /\ IsLink(given) => given.to \in Path
           /\ IsOk(given) => ~ IsLink(given)
<1>1. CASE \E p \in Places(fs) : given = [ok |-> p]
  BY <1>1 DEF IsOk, IsLink
<1>2. CASE \E s \in Path : given = [to |-> s]
  BY <1>2 DEF IsOk, IsLink
<1>3. CASE \E e \in {"Io", "NotFound"} : given = [err |-> e]
  BY <1>3 DEF IsOk, IsLink
<1> QED BY <1>1, <1>2, <1>3 DEF Answers

LEMMA LookUpAnswers ==
    ASSUME NEW fs \in FileSystem, NEW at \in Places(fs), NEW name, NEW rest \in Path
    PROVE  look_up(fs, at, name, rest) \in Answers(fs)
<1> DEFINE next == IF name = ".." THEN SubSeq(at, 1, Len(at) - 1) ELSE Append(at, name)
<1>1. CASE fs[at].kind # "dir"
  BY <1>1 DEF look_up, Answers
<1>2. CASE fs[at].kind = "dir" /\ next \notin DOMAIN fs
  BY <1>2 DEF look_up, Answers
<1>3. CASE fs[at].kind = "dir" /\ next \in DOMAIN fs /\ fs[next].kind = "link"
  <2>1. fs[next].to \o rest \in Path
    BY <1>3, TreeAssumption DEF Path
  <2> QED BY <1>3, <2>1 DEF look_up, Answers
<1>4. CASE fs[at].kind = "dir" /\ next \in DOMAIN fs /\ fs[next].kind # "link"
  BY <1>4 DEF look_up, Answers, Places
<1> QED BY <1>1, <1>2, <1>3, <1>4

\* The names of a path, one by one.
Reached(fs, at, path) ==
    {g \in [0 .. Len(path) -> Answers(fs)] :
        /\ g[0] = [ok |-> at]
        /\ \A k \in 0 .. Len(path) - 1 :
              g[k + 1] = IF IsOk(g[k])
                         THEN look_up(fs, g[k].ok, path[k + 1], SubSeq(path, k + 2, Len(path)))
                         ELSE g[k]}

LEMMA AlongReaches ==
    ASSUME NEW fs \in FileSystem, NEW at \in Places(fs), NEW path \in Path
    PROVE  \E g \in Reached(fs, at, path) : along(fs, at, path) = g[Len(path)]
<1> DEFINE n == Len(path)
           goes(i, was) == IF IsOk(was)
                           THEN look_up(fs, was.ok, path[i], SubSeq(path, i + 1, n)) ELSE was
           next == [s \in Nat \X Answers(fs) |-> IF s[1] + 1 \in 1 .. n THEN goes(s[1] + 1, s[2]) ELSE s[2]]
           Rule(f) == [i \in 0 .. n |-> IF i = 0 THEN [ok |-> at] ELSE goes(i, f[i - 1])]
           reached == CHOOSE f : f = Rule(f)
<1>n. n \in Nat /\ path \in [1 .. n -> STRING]
  BY DEF Path
<1>1. ASSUME NEW i \in 1 .. n, NEW was \in Answers(fs) PROVE goes(i, was) \in Answers(fs)
  <2>1. SubSeq(path, i + 1, n) \in Path
    BY <1>n DEF Path
  <2> QED BY <2>1, AnswerKinds, LookUpAnswers
<1> HIDE DEF goes
<1>2. next \in [Nat \X Answers(fs) -> Answers(fs)] /\ [ok |-> at] \in Answers(fs)
  BY <1>1 DEF Answers
<1>3. PICK g : g \in Upto(n, Answers(fs), [ok |-> at], next)
  <2> HIDE DEF next, n
  <2> QED BY <1>2, <1>n, UptoIsThere
<1>4. g \in [0 .. n -> Answers(fs)] /\ g[0] = [ok |-> at]
      /\ \A k \in 0 .. n - 1 : g[k + 1] = next[<<k, g[k]>>]
  BY <1>3 DEF Upto
<1>5. ASSUME NEW k \in 0 .. n - 1 PROVE g[k + 1] = goes(k + 1, g[k])
  <2>1. k \in Nat /\ k + 1 \in 1 .. n /\ g[k] \in Answers(fs) /\ g[k + 1] = next[<<k, g[k]>>]
    <3>1. k \in Nat /\ k + 1 \in 1 .. n /\ k \in 0 .. n
      BY <1>n
    <3> HIDE DEF next, n
    <3>2. g[k] \in Answers(fs)
      BY <1>4, <3>1, Zenon
    <3>3. g[k + 1] = next[<<k, g[k]>>]
      BY <1>4, Zenon
    <3> QED BY <3>1, <3>2, <3>3, Zenon
  <2>2. <<k, g[k]>> \in Nat \X Answers(fs) /\ <<k, g[k]>>[1] = k /\ <<k, g[k]>>[2] = g[k]
    BY <2>1
  <2> HIDE DEF n
  <2>3. next[<<k, g[k]>>] = goes(k + 1, g[k])
    BY <2>1, <2>2
  <2> QED BY <2>1, <2>3
<1>6. g = Rule(g)
  <2>1. ASSUME NEW i \in 0 .. n PROVE g[i] = Rule(g)[i]
    <3>1. CASE i = 0
      BY <3>1, <1>4
    <3>2. CASE i # 0
      <4>1. i - 1 \in 0 .. n - 1 /\ (i - 1) + 1 = i
        BY <3>2, <1>n
      <4>2. g[(i - 1) + 1] = goes((i - 1) + 1, g[i - 1])
        BY <1>5, <4>1
      <4> QED BY <3>2, <4>1, <4>2
    <3> QED BY <3>1, <3>2
  <2> QED BY <2>1, <1>4
<1>7. reached = Rule(reached)
  <2> HIDE DEF Rule
  <2> QED BY <1>6
<1>8. along(fs, at, path) = reached[n]
  BY DEF along, goes
<1> HIDE DEF reached
<1>9. reached[0] = [ok |-> at] /\ \A k \in 0 .. n - 1 : reached[k + 1] = goes(k + 1, reached[k])
  BY <1>7, <1>n
<1>10. reached \in [0 .. n -> Answers(fs)]
  <2> DEFINE S == {k \in Nat : k <= n => reached[k] \in Answers(fs)}
  <2>1. 0 \in S
    BY <1>9, <1>2
  <2>2. ASSUME NEW k \in Nat, k \in S PROVE k + 1 \in S
    <3> SUFFICES ASSUME k + 1 <= n PROVE reached[k + 1] \in Answers(fs)
      OBVIOUS
    <3>1. k \in 0 .. n - 1 /\ k + 1 \in 1 .. n /\ reached[k] \in Answers(fs)
      BY <2>2, <1>n
    <3> QED BY <3>1, <1>9, <1>1
  <2> HIDE DEF S
  <2>3. Nat \subseteq S
    BY <2>1, <2>2, Induction, Zenon
  <2>4. ASSUME NEW k \in 0 .. n PROVE reached[k] \in Answers(fs)
    BY <2>3, <1>n DEF S
  <2> QED BY <2>4, <1>7
<1>11. reached \in Reached(fs, at, path)
  BY <1>9, <1>10 DEF Reached, goes
<1> QED BY <1>8, <1>11

\* Walking on from link to link.
LEMMA CanonicalWalks ==
    ASSUME NEW fs \in FileSystem, NEW at \in Places(fs), NEW path \in Path, NEW links \in Nat
    PROVE  /\ canonicalize(fs, at, path, links) \in Answers(fs)
           /\ ~ IsLink(canonicalize(fs, at, path, links))
           /\ ~ IsLink(along(fs, at, path)) => canonicalize(fs, at, path, links) = along(fs, at, path)
<1> DEFINE goes(was) == IF IsLink(was) THEN along(fs, <<>>, was.to) ELSE was
           next == [s \in Nat \X Answers(fs) |-> goes(s[2])]
           Rule(f) == [n \in 0 .. links |-> IF n = 0 THEN along(fs, at, path) ELSE goes(f[n - 1])]
           walked == CHOOSE f : f = Rule(f)
<1>1. ASSUME NEW from \in Places(fs), NEW p \in Path PROVE along(fs, from, p) \in Answers(fs)
  <2>1. PICK g \in Reached(fs, from, p) : along(fs, from, p) = g[Len(p)]
    BY AlongReaches
  <2>2. Len(p) \in 0 .. Len(p)
    BY DEF Path
  <2> QED BY <2>1, <2>2 DEF Reached
<1>2. <<>> \in Places(fs)
  BY TreeAssumption DEF Places
<1>3. ASSUME NEW was \in Answers(fs) PROVE goes(was) \in Answers(fs)
  BY <1>1, <1>2, AnswerKinds
<1>4. along(fs, at, path) \in Answers(fs)
  BY <1>1
<1> HIDE DEF goes
<1>5. next \in [Nat \X Answers(fs) -> Answers(fs)]
  BY <1>3
<1>6. PICK g : g \in Upto(links, Answers(fs), along(fs, at, path), next)
  <2> HIDE DEF next
  <2> QED BY <1>4, <1>5, UptoIsThere
<1>7. g \in [0 .. links -> Answers(fs)] /\ g[0] = along(fs, at, path)
      /\ \A k \in 0 .. links - 1 : g[k + 1] = next[<<k, g[k]>>]
  BY <1>6 DEF Upto
<1>8. ASSUME NEW k \in 0 .. links - 1 PROVE g[k + 1] = goes(g[k])
  <2>1. k \in Nat /\ g[k] \in Answers(fs) /\ g[k + 1] = next[<<k, g[k]>>]
    <3> HIDE DEF next
    <3> QED BY <1>7
  <2>2. <<k, g[k]>> \in Nat \X Answers(fs) /\ <<k, g[k]>>[2] = g[k]
    BY <2>1
  <2>3. next[<<k, g[k]>>] = goes(g[k])
    BY <2>1, <2>2
  <2> QED BY <2>1, <2>3
<1>9. g = Rule(g)
  <2>1. ASSUME NEW i \in 0 .. links PROVE g[i] = Rule(g)[i]
    <3>1. CASE i = 0
      BY <3>1, <1>7
    <3>2. CASE i # 0
      <4>1. i - 1 \in 0 .. links - 1 /\ (i - 1) + 1 = i
        BY <3>2
      <4>2. g[(i - 1) + 1] = goes(g[i - 1])
        BY <1>8, <4>1
      <4> QED BY <3>2, <4>1, <4>2
    <3> QED BY <3>1, <3>2
  <2> QED BY <2>1, <1>7
<1>10. walked = Rule(walked)
  <2> HIDE DEF Rule
  <2> QED BY <1>9
<1>11. canonicalize(fs, at, path, links) = IF IsLink(walked[links]) THEN [err |-> "Io"] ELSE walked[links]
  BY DEF canonicalize, goes
<1> HIDE DEF walked
<1>12. walked[0] = along(fs, at, path) /\ \A k \in 0 .. links - 1 : walked[k + 1] = goes(walked[k])
  BY <1>10
<1>13. ASSUME NEW k \in 0 .. links
       PROVE  /\ walked[k] \in Answers(fs)
              /\ ~ IsLink(along(fs, at, path)) => walked[k] = along(fs, at, path)
  <2> DEFINE S == {i \in Nat : i <= links =>
                     /\ walked[i] \in Answers(fs)
                     /\ ~ IsLink(along(fs, at, path)) => walked[i] = along(fs, at, path)}
  <2>1. 0 \in S
    BY <1>4, <1>12
  <2>2. ASSUME NEW i \in Nat, i \in S PROVE i + 1 \in S
    <3> SUFFICES ASSUME i + 1 <= links
                 PROVE  /\ walked[i + 1] \in Answers(fs)
                        /\ ~ IsLink(along(fs, at, path)) => walked[i + 1] = along(fs, at, path)
      OBVIOUS
    <3>1. walked[i + 1] = goes(walked[i])
      BY <1>12
    <3>2. /\ walked[i] \in Answers(fs)
          /\ ~ IsLink(along(fs, at, path)) => walked[i] = along(fs, at, path)
      BY <2>2
    <3>3. ~ IsLink(walked[i]) => goes(walked[i]) = walked[i]
      BY DEF goes
    <3> QED BY <3>1, <3>2, <3>3, <1>3
  <2> HIDE DEF S
  <2>3. Nat \subseteq S
    BY <2>1, <2>2, Induction, Zenon
  <2> QED BY <2>3 DEF S
<1>14. /\ walked[links] \in Answers(fs)
       /\ ~ IsLink(along(fs, at, path)) => walked[links] = along(fs, at, path)
  BY <1>13
<1>15. [err |-> "Io"] \in Answers(fs) /\ ~ IsLink([err |-> "Io"])
  BY DEF Answers, IsLink
<1> QED BY <1>11, <1>14, <1>15

\* The front of a path, name by name.
LEMMA Pieces ==
    ASSUME NEW p \in Path, NEW j \in 0 .. Len(p) - 1
    PROVE  /\ SubSeq(p, 1, j) \in Path /\ SubSeq(p, 1, j + 1) \in Path
           /\ Append(SubSeq(p, 1, j), p[j + 1]) = SubSeq(p, 1, j + 1)
           /\ Front(SubSeq(p, 1, j + 1)) = SubSeq(p, 1, j)
           /\ Last(SubSeq(p, 1, j + 1)) = p[j + 1]
           /\ SubSeq(p, 1, j + 1) # <<>>
           /\ SubSeq(p, 1, Len(p)) = p
<1>1. p \in Seq(STRING) /\ Len(p) \in Nat /\ p = [k \in 1 .. Len(p) |-> p[k]]
  BY DEF Path
<1> DEFINE a == SubSeq(p, 1, j)
           b == SubSeq(p, 1, j + 1)
<1>2. /\ a \in Seq(STRING) /\ Len(a) = j /\ \A k \in 1 .. j : a[k] = p[k]
      /\ b \in Seq(STRING) /\ Len(b) = j + 1 /\ \A k \in 1 .. j + 1 : b[k] = p[k]
  BY <1>1
<1> HIDE DEF a, b
<1>3. Append(a, p[j + 1]) = b
  BY <1>1, <1>2
<1>4. Front(b) = a
  BY <1>2 DEF Front
<1>5. Last(b) = p[j + 1] /\ b # <<>>
  BY <1>2 DEF Last
<1>6. SubSeq(p, 1, Len(p)) = p
  BY <1>1
<1> QED BY <1>2, <1>3, <1>4, <1>5, <1>6 DEF a, b, Path

\* Above everything in a file system are directories.
LEMMA AboveAreDirectories ==
    ASSUME NEW fs \in FileSystem, NEW p \in DOMAIN fs, NEW j \in 0 .. Len(p) - 1
    PROVE  /\ SubSeq(p, 1, j) \in DOMAIN fs /\ fs[SubSeq(p, 1, j)].kind = "dir"
           /\ p[j + 1] \notin {"/", ".."}
<1>1. p \in Path /\ Len(p) \in Nat
  BY TreeAssumption DEF Path
<1> DEFINE up(d) == SubSeq(p, 1, Len(p) - d)
           S == {d \in Nat : d < Len(p) => /\ up(d) \in DOMAIN fs
                                          /\ up(d + 1) \in DOMAIN fs /\ fs[up(d + 1)].kind = "dir"
                                          /\ p[Len(p) - d] \notin {"/", ".."}}
<1>2. ASSUME NEW d \in Nat, d < Len(p), up(d) \in DOMAIN fs
      PROVE  up(d + 1) \in DOMAIN fs /\ fs[up(d + 1)].kind = "dir" /\ p[Len(p) - d] \notin {"/", ".."}
  <2>1. Len(p) - (d + 1) \in 0 .. Len(p) - 1 /\ (Len(p) - (d + 1)) + 1 = Len(p) - d
    BY <1>1, <1>2
  <2>2. Front(up(d)) = up(d + 1) /\ Last(up(d)) = p[Len(p) - d] /\ up(d) # <<>>
    <3>1. PICK i \in 0 .. Len(p) - 1 : i = Len(p) - (d + 1) /\ i + 1 = Len(p) - d
      BY <2>1
    <3>2. Front(SubSeq(p, 1, i + 1)) = SubSeq(p, 1, i) /\ Last(SubSeq(p, 1, i + 1)) = p[i + 1]
          /\ SubSeq(p, 1, i + 1) # <<>>
      BY <1>1, Pieces
    <3> QED BY <3>1, <3>2
  <2> HIDE DEF up
  <2> QED BY <1>2, <2>2, TreeAssumption
<1>3. 0 \in S
  <2>1. CASE Len(p) = 0
    BY <2>1
  <2>2. CASE Len(p) # 0
    <3>1. 0 \in 0 .. Len(p) - 1 /\ up(0) = p
      BY <1>1, <2>2, Pieces
    <3> HIDE DEF up
    <3>2. up(0) \in DOMAIN fs
      BY <3>1
    <3> QED BY <1>1, <1>2, <2>2, <3>2
  <2> QED BY <2>1, <2>2
<1>4. ASSUME NEW d \in Nat, d \in S PROVE d + 1 \in S
  <2> HIDE DEF up
  <2> QED BY <1>1, <1>2, <1>4
<1> HIDE DEF S
<1>5. Nat \subseteq S
  BY <1>3, <1>4, Induction, Zenon
<1>6. (Len(p) - 1) - j \in Nat /\ (Len(p) - 1) - j < Len(p)
      /\ Len(p) - (((Len(p) - 1) - j) + 1) = j /\ Len(p) - ((Len(p) - 1) - j) = j + 1
  BY <1>1
<1> QED BY <1>5, <1>6 DEF S

\* The way to a file goes through its own names.
LEMMA TheWayDown ==
    ASSUME NEW fs \in FileSystem, NEW p \in Places(fs), NEW n \in 0 .. Len(p)
    PROVE  /\ SubSeq(p, n + 1, Len(p)) \in Path
           /\ SubSeq(p, 1, n) \in Places(fs) => along(fs, SubSeq(p, 1, n), SubSeq(p, n + 1, Len(p))) = [ok |-> p]
<1> DEFINE rest == SubSeq(p, n + 1, Len(p))
           at == SubSeq(p, 1, n)
<1>1. p \in Path /\ Len(p) \in Nat /\ p \in DOMAIN fs
  BY TreeAssumption DEF Path, Places
<1>2. rest \in Path /\ Len(rest) = Len(p) - n /\ \A k \in 1 .. Len(p) - n : rest[k] = p[n + k]
  BY <1>1 DEF Path
<1> HIDE DEF rest
<1> SUFFICES ASSUME at \in Places(fs) PROVE along(fs, at, rest) = [ok |-> p]
  BY <1>2 DEF rest
<1>3. PICK g \in Reached(fs, at, rest) : along(fs, at, rest) = g[Len(rest)]
  <2> HIDE DEF at
  <2> QED BY <1>2, AlongReaches
<1> DEFINE S == {k \in Nat : k <= Len(rest) => g[k] = [ok |-> SubSeq(p, 1, n + k)]}
<1>4. 0 \in S
  BY <1>3 DEF Reached
<1>5. ASSUME NEW k \in Nat, k \in S PROVE k + 1 \in S
  <2> SUFFICES ASSUME k + 1 <= Len(rest) PROVE g[k + 1] = [ok |-> SubSeq(p, 1, n + (k + 1))]
    OBVIOUS
  <2> DEFINE here == SubSeq(p, 1, n + k)
             there == SubSeq(p, 1, (n + k) + 1)
             left == SubSeq(rest, k + 2, Len(rest))
  <2>1. /\ k \in 0 .. Len(rest) - 1 /\ n + k \in 0 .. Len(p) - 1 /\ n + (k + 1) = (n + k) + 1
        /\ rest[k + 1] = p[(n + k) + 1]
    <3>1. k + 1 \in 1 .. Len(p) - n /\ n + (k + 1) = (n + k) + 1
      BY <1>1, <1>2
    <3> QED BY <1>1, <1>2, <3>1
  <2>2. g[k] = [ok |-> here] /\ IsOk(g[k])
    BY <1>5 DEF IsOk
  <2>3. g[k + 1] = look_up(fs, here, p[(n + k) + 1], left)
    <3>1. g[k + 1] = IF IsOk(g[k]) THEN look_up(fs, g[k].ok, rest[k + 1], left) ELSE g[k]
      BY <1>3, <2>1 DEF Reached
    <3> HIDE DEF here, left
    <3> QED BY <2>1, <2>2, <3>1
  <2>4. fs[here].kind = "dir" /\ p[(n + k) + 1] # ".." /\ Append(here, p[(n + k) + 1]) = there
    BY <1>1, <2>1, AboveAreDirectories, Pieces
  <2>5. there \in DOMAIN fs /\ fs[there].kind # "link"
    <3>1. CASE (n + k) + 1 = Len(p)
      BY <1>1, <2>1, <3>1, Pieces DEF Places
    <3>2. CASE (n + k) + 1 # Len(p)
      <4>1. (n + k) + 1 \in 0 .. Len(p) - 1
        BY <1>1, <2>1, <3>2
      <4> QED BY <1>1, <4>1, AboveAreDirectories
    <3> QED BY <3>1, <3>2
  <2> HIDE DEF here, there, left
  <2>6. g[k + 1] = [ok |-> there]
    BY <2>3, <2>4, <2>5 DEF look_up
  <2> QED BY <2>1, <2>6 DEF there
<1> HIDE DEF S
<1>6. Nat \subseteq S
  BY <1>4, <1>5, Induction, Zenon
<1>7. Len(rest) \in Nat /\ n + Len(rest) = Len(p) /\ SubSeq(p, 1, Len(p)) = p
  BY <1>1, <1>2 DEF Path
<1>8. g[Len(rest)] = [ok |-> p]
  BY <1>6, <1>7 DEF S
<1> QED BY <1>3, <1>8

(***************************************************************************)
(* What a request is given.                                                *)
(***************************************************************************)
LEMMA ResolvedIsOnTheCard ==
    ASSUME tree \in FileSystem, NEW file \in Path,
           NEW r, r = resolve_on_card(file)
    PROVE  LET root == Canonical(SDCARD_ROOT)
           IN  /\ "from" \notin DOMAIN r
               /\ IsOk(r) => /\ IsOk(root) /\ root.ok \in Places(tree) /\ tree[root.ok].kind = "dir"
                             /\ r.ok \in Places(tree) /\ IsPrefix(root.ok, r.ok)
<1> DEFINE root == Canonical(SDCARD_ROOT)
           trimmed == trim_start(file)
           target == canonicalize(tree, root.ok, trimmed, MaxLinks)
<1>1. trimmed \in Path
  <2>1. file # <<>> => Tail(file) \in Path
    BY HeadTailProperties DEF Path
  <2> QED BY <2>1 DEF trim_start
<1>2. root \in Answers(tree) /\ ~ IsLink(root)
  <2>1. <<>> \in Places(tree) /\ SDCARD_ROOT \in Path /\ MaxLinks \in Nat
    BY TreeAssumption, SdCardAssumption DEF Places, Path
  <2> QED BY <2>1, CanonicalWalks DEF Canonical
<1>3. IsOk(root) => tree[root.ok].kind = "dir"
  BY RootIsADirectory DEF Canonical
<1>4. IsOk(root) => root.ok \in Places(tree) /\ root = [ok |-> root.ok]
  BY <1>2, AnswerKinds
<1>5. IsOk(root) => target \in Answers(tree)
  <2> SUFFICES ASSUME IsOk(root) PROVE target \in Answers(tree)
    OBVIOUS
  <2>1. MaxLinks \in Nat /\ root.ok \in Places(tree)
    BY <1>4, SdCardAssumption
  <2> HIDE DEF root, trimmed
  <2> QED BY <1>1, <2>1, CanonicalWalks
<1>6. r = IF ~IsOk(root) THEN [err |-> IF root.err = "NotFound" THEN "NotMounted" ELSE "Io"]
          ELSE IF trimmed = <<>> THEN root
          ELSE IF ~IsOk(target) THEN target
          ELSE IF ~IsPrefix(root.ok, target.ok) THEN [err |-> "OutsideRoot"]
          ELSE target
  BY DEF resolve_on_card
<1> HIDE DEF root, trimmed, target
<1>7. CASE ~IsOk(root)
  BY <1>6, <1>7 DEF IsOk
<1>8. CASE IsOk(root) /\ trimmed = <<>>
  <2>1. r = root /\ r = [ok |-> root.ok]
    BY <1>4, <1>6, <1>8
  <2>2. IsPrefix(root.ok, root.ok)
    BY <1>4, <1>8, TreeAssumption DEF IsPrefix, Places
  <2> QED BY <1>3, <1>4, <1>8, <2>1, <2>2 DEF root
<1>9. CASE IsOk(root) /\ trimmed # <<>> /\ ~IsOk(target)
  <2>1. r = target /\ "from" \notin DOMAIN target
    BY <1>5, <1>6, <1>9 DEF Answers
  <2> QED BY <1>9, <2>1
<1>10. CASE IsOk(root) /\ trimmed # <<>> /\ IsOk(target) /\ ~IsPrefix(root.ok, target.ok)
  BY <1>6, <1>10 DEF IsOk
<1>11. CASE IsOk(root) /\ trimmed # <<>> /\ IsOk(target) /\ IsPrefix(root.ok, target.ok)
  <2>1. r = target /\ target.ok \in Places(tree) /\ target = [ok |-> target.ok]
    BY <1>5, <1>6, <1>11, AnswerKinds
  <2> QED BY <1>3, <1>4, <1>11, <2>1 DEF root
<1> QED BY <1>7, <1>8, <1>9, <1>10, <1>11

LEMMA ChosenIsOnTheCard ==
    ASSUME tree \in FileSystem, NEW file \in Path, NEW r, r = resolve_sdcard_file(file)
    PROVE  LET root == Canonical(SDCARD_ROOT).ok
           IN  /\ "from" \notin DOMAIN r
               /\ IsOk(r) => /\ tree[r.ok].kind = "file" /\ IsStrictPrefix(root, r.ok)
                             /\ ~IsPrefix(Append(root, UPGRADE_DIR_NAME), r.ok)
<1> DEFINE resolved == resolve_on_card(file)
<1>1. LET root == Canonical(SDCARD_ROOT)
      IN  /\ "from" \notin DOMAIN resolved
          /\ IsOk(resolved) => /\ tree[root.ok].kind = "dir" /\ IsPrefix(root.ok, resolved.ok)
  BY ResolvedIsOnTheCard
<1>2. CASE ~is_mounted
  BY <1>2 DEF resolve_sdcard_file, IsOk
<1>3. CASE is_mounted /\ file # <<>> /\ Head(file) = "/"
  BY <1>3 DEF resolve_sdcard_file, IsOk
<1>4. CASE is_mounted /\ ~(file # <<>> /\ Head(file) = "/")
  <2>1. r = IF ~IsOk(resolved) THEN resolved
            ELSE IF tree[resolved.ok].kind # "file" THEN [err |-> "NotAFile"]
            ELSE IF IsPrefix(Append(Canonical(SDCARD_ROOT).ok, UPGRADE_DIR_NAME), resolved.ok)
                 THEN [err |-> "staging"]
            ELSE resolved
    BY <1>4 DEF resolve_sdcard_file
  <2> HIDE DEF resolved
  <2> QED BY <1>1, <2>1 DEF IsStrictPrefix, IsOk
<1> QED BY <1>2, <1>3, <1>4

LEMMA OfferedIsChosen ==
    ASSUME tree \in FileSystem, is_mounted, NEW relative \in Path, IsOk(list(relative)),
           NEW e \in list(relative).ok, e.judged = "flashable", Head(e.path) # UPGRADE_DIR_NAME
    PROVE  IsOk(resolve_sdcard_file(e.path))
<1> DEFINE dir == resolve_on_card(relative)
           root == Canonical(SDCARD_ROOT).ok
           found == {p \in DOMAIN tree : p # <<>> /\ Front(p) = dir.ok}
           name(p) == SubSeq(p, Len(root) + 1, Len(p))
<1>1. /\ IsOk(dir) => /\ IsOk(Canonical(SDCARD_ROOT)) /\ root \in Places(tree) /\ tree[root].kind = "dir"
                      /\ dir.ok \in Places(tree) /\ IsPrefix(root, dir.ok)
  BY ResolvedIsOnTheCard
<1>2. /\ IsOk(dir) /\ tree[dir.ok].kind = "dir"
      /\ list(relative) = [ok |-> {[path |-> name(p), judged |-> judge(metadata(tree[p]))] :
                                     p \in {q \in found : Last(q) # "lost+found"}}]
  <2>1. list(relative) =
          IF ~IsOk(dir) THEN dir
          ELSE IF tree[dir.ok].kind # "dir" THEN [err |-> "NotADirectory"]
          ELSE [ok |-> {[path |-> name(p), judged |-> judge(metadata(tree[p]))] :
                          p \in {q \in found : Last(q) # "lost+found"}}]
    BY DEF list
  <2> HIDE DEF dir, found, name, root
  <2>2. ~ IsOk([err |-> "NotADirectory"])
    BY DEF IsOk
  <2> QED BY <2>1, <2>2
<1>3. PICK p \in found : e.path = name(p) /\ e.judged = judge(metadata(tree[p]))
  <2> HIDE DEF dir, found, name, root
  <2> QED BY <1>2
<1>4. /\ p \in DOMAIN tree /\ p \in Path /\ Len(p) \in Nat /\ p # <<>> /\ Front(p) = dir.ok
      /\ root \in Path /\ Len(root) \in Nat /\ root \in Places(tree)
  BY <1>1, <1>2, <1>3, TreeAssumption DEF Path, Places
<1> DEFINE rest == name(p)
<1>5. tree[p].kind = "file"
  <2>1. tree[p].kind \in {"dir", "file", "link"}
    BY <1>4, TreeAssumption
  <2>2. ASSUME tree[p].kind = "dir" PROVE FALSE
    <3>1. metadata(tree[p]) = tree[p]
      BY <2>2 DEF metadata
    <3> QED BY <1>3, <2>2, <3>1 DEF judge
  <2>3. ASSUME tree[p].kind = "link" PROVE FALSE
    <3> DEFINE entry == metadata(tree[p])
    <3>1. entry.kind = "file" /\ entry.size = 0
      BY <2>3 DEF metadata
    <3>2. entry.size < SMALLEST_PLAUSIBLE_IMAGE
      BY <3>1, SdCardAssumption
    <3> HIDE DEF entry
    <3>3. judge(entry) # "flashable"
      BY <3>1, <3>2 DEF judge
    <3> QED BY <1>3, <3>3 DEF entry
  <2> QED BY <2>1, <2>2, <2>3
<1>6. p \in Places(tree)
  BY <1>4, <1>5 DEF Places
\* What is found is below the root.
<1>7. Len(root) \in 0 .. Len(p) - 1 /\ SubSeq(p, 1, Len(root)) = root
  <2>1. Front(p) \in Path /\ Len(p) >= 1 /\ Len(Front(p)) = Len(p) - 1 /\ \A k \in 1 .. Len(p) - 1 : Front(p)[k] = p[k]
    <3> HIDE DEF name, root, found, dir
    <3>1. Len(p) >= 1
      BY <1>4, EmptySeq DEF Path
    <3>2. Front(p) = SubSeq(p, 1, Len(p) - 1)
      BY DEF Front
    <3> DEFINE n == Len(p) - 1
    <3>3. n \in Nat /\ n < Len(p)
      BY <1>4, <3>1
    <3>4. p \in Seq(STRING)
      BY <1>4 DEF Path
    <3> HIDE DEF n
    <3>5. SubSeq(p, 1, n) \in Seq(STRING) /\ Len(SubSeq(p, 1, n)) = n /\ \A k \in 1 .. n : SubSeq(p, 1, n)[k] = p[k]
      BY <1>4, <3>3, <3>4
    <3> QED BY <3>1, <3>2, <3>3, <3>5 DEF Path, n
  <2>2. Len(root) <= Len(Front(p)) /\ SubSeq(root, 1, Len(root)) = SubSeq(Front(p), 1, Len(root))
    BY <1>1, <1>2, <1>4 DEF IsPrefix
  <2>3. SubSeq(root, 1, Len(root)) = root
    BY <1>4 DEF Path
  <2>4. SubSeq(Front(p), 1, Len(root)) = SubSeq(p, 1, Len(root))
    BY <1>4, <2>1, <2>2 DEF Path
  <2> HIDE DEF root
  <2> QED BY <1>4, <2>1, <2>2, <2>3, <2>4
<1> HIDE DEF dir, root, found
<1>8. /\ rest \in Path /\ rest # <<>> /\ Head(rest) = p[Len(root) + 1]
  <2>1. rest \in Seq(STRING) /\ Len(rest) = Len(p) - Len(root) /\ rest[1] = p[Len(root) + 1]
    BY <1>4, <1>7 DEF Path
  <2> HIDE DEF name
  <2> QED BY <1>4, <1>7, <2>1 DEF Path
<1>9. Head(rest) # "/" /\ Head(rest) # UPGRADE_DIR_NAME
  BY <1>3, <1>4, <1>7, <1>8, AboveAreDirectories
<1>10. canonicalize(tree, root, rest, MaxLinks) = [ok |-> p]
  <2>1. along(tree, root, rest) = [ok |-> p]
    <3>1. Len(root) \in 0 .. Len(p)
      BY <1>4, <1>7
    <3> QED BY <1>4, <1>6, <1>7, <3>1, TheWayDown
  <2>2. ~ IsLink([ok |-> p])
    BY DEF IsLink
  <2>3. MaxLinks \in Nat
    BY SdCardAssumption
  <2> HIDE DEF name
  <2> QED BY <1>4, <1>8, <2>1, <2>2, <2>3, CanonicalWalks
<1> HIDE DEF name
<1>11. resolve_on_card(rest) = [ok |-> p]
  <2>1. trim_start(rest) = rest
    BY <1>8, <1>9 DEF trim_start
  <2>2. IsPrefix(root, p)
    <3>1. SubSeq(root, 1, Len(root)) = root
      BY <1>4 DEF Path
    <3> QED BY <1>4, <1>7, <3>1 DEF IsPrefix
  <2>3. IsOk([ok |-> p]) /\ [ok |-> p].ok = p /\ IsOk(Canonical(SDCARD_ROOT))
    BY <1>1, <1>2 DEF IsOk
  <2> QED BY <1>8, <1>10, <2>1, <2>2, <2>3 DEF resolve_on_card, root
<1>12. ~ IsPrefix(Append(root, UPGRADE_DIR_NAME), p)
  <2> SUFFICES ASSUME IsPrefix(Append(root, UPGRADE_DIR_NAME), p) PROVE FALSE
    OBVIOUS
  <2> DEFINE staging == Append(root, UPGRADE_DIR_NAME)
  <2>1. Len(staging) = Len(root) + 1 /\ staging[Len(root) + 1] = UPGRADE_DIR_NAME
    BY <1>4 DEF Path
  <2> HIDE DEF staging
  <2>2. SubSeq(staging, 1, Len(root) + 1) = SubSeq(p, 1, Len(root) + 1)
    BY <2>1 DEF IsPrefix, staging
  <2>3. SubSeq(p, 1, Len(root) + 1)[Len(root) + 1] = p[Len(root) + 1]
    BY <1>4, <1>7 DEF Path
  <2>4. SubSeq(staging, 1, Len(root) + 1)[Len(root) + 1] = staging[Len(root) + 1]
    BY <1>4, <2>1
  <2> QED BY <1>8, <1>9, <2>1, <2>2, <2>3, <2>4
<1>13. IsOk([ok |-> p]) /\ [ok |-> p].ok = p
  BY DEF IsOk
<1>14. resolve_sdcard_file(rest) = [ok |-> p]
  BY <1>5, <1>8, <1>9, <1>11, <1>12, <1>13 DEF resolve_sdcard_file, root
<1> QED BY <1>3, <1>13, <1>14

CardInv == tree \in FileSystem /\ CardImagesAreOnTheCard

LEMMA CardStep == CardInv /\ [card_Next]_card_vars => CardInv'
<1> SUFFICES ASSUME CardInv, [card_Next]_card_vars PROVE CardInv'
  OBVIOUS
<1>0. tree \in FileSystem
  BY DEF CardInv
<1>1. CASE list_sdcard_files
  <2>1. PICK relative \in RequestPath : listing' = IF IsOk(list(relative)) THEN list(relative).ok ELSE {}
    BY <1>1 DEF list_sdcard_files
  <2>2. relative \in Path
    BY SdCardAssumption DEF Path
  <2>3. chosen' = NoImage /\ UNCHANGED <<tree, is_mounted>>
    BY <1>1 DEF list_sdcard_files
  <2>4. ASSUME is_mounted, NEW e \in listing', e.judged = "flashable", Head(e.path) # UPGRADE_DIR_NAME
        PROVE  IsOk(resolve_sdcard_file(e.path))
    <3>1. IsOk(list(relative)) /\ e \in list(relative).ok
      BY <2>1
    <3> QED BY <1>0, <2>2, <2>4, <3>1, OfferedIsChosen
  <2>5. \A path : resolve_sdcard_file(path)' = resolve_sdcard_file(path)
    BY <2>3 DEF resolve_sdcard_file, resolve_on_card, Canonical
  <2> QED BY <1>0, <2>3, <2>4, <2>5 DEF CardInv, CardImagesAreOnTheCard, NoImage
<1>2. CASE create_data_transfer
  <2>1. PICK file \in RequestPath, sha256 \in {"hex", "not hex"},
             local \in FlagValue, sdcard \in FlagValue, length \in {"number", "none"} :
               chosen' = create_data_transfer_in(file, sha256, local, sdcard, length)
    BY <1>2 DEF create_data_transfer
  <2>2. file \in Path
    BY SdCardAssumption DEF Path
  <2>3. listing' = {} /\ UNCHANGED <<tree, is_mounted>>
    BY <1>2 DEF create_data_transfer
  <2> DEFINE r == resolve_sdcard_file(file)
             root == Canonical(SDCARD_ROOT).ok
  <2>4. /\ "from" \notin DOMAIN r
        /\ IsOk(r) => /\ tree[r.ok].kind = "file" /\ IsStrictPrefix(root, r.ok)
                      /\ ~IsPrefix(Append(root, UPGRADE_DIR_NAME), r.ok)
    BY <1>0, <2>2, ChosenIsOnTheCard
  <2>5. root' = root
    BY <2>3 DEF Canonical
  <2>6. ASSUME "from" \in DOMAIN chosen', chosen'.from = "card"
        PROVE  IsOk(r) /\ chosen'.path = r.ok
    <3> HIDE DEF r
    <3> QED BY <2>1, <2>4, <2>6 DEF create_data_transfer_in, r
  <2> HIDE DEF r, root
  <2> QED BY <1>0, <2>3, <2>4, <2>5, <2>6 DEF CardInv, CardImagesAreOnTheCard, root
<1>3. CASE CardChanges
  BY <1>3 DEF CardChanges, CardInv, CardImagesAreOnTheCard, NoImage
<1>4. CASE UNCHANGED card_vars
  <2>1. UNCHANGED <<tree, is_mounted, listing, chosen>>
    BY <1>4 DEF card_vars
  <2>2. \A path : resolve_sdcard_file(path)' = resolve_sdcard_file(path)
    BY <2>1 DEF resolve_sdcard_file, resolve_on_card, Canonical
  <2> QED BY <2>1, <2>2 DEF CardInv, CardImagesAreOnTheCard, Canonical
<1> QED BY <1>1, <1>2, <1>3, <1>4 DEF card_Next

\* What list_sdcard_images() offers and what an upload from the card is taken
\* from is a file that lies on the card once its links are followed, outside the
\* staging directory: for every file system, link by link, and every name a
\* request may carry.
THEOREM ChosenImagesAreOnTheCard == card_Spec => []CardImagesAreOnTheCard
<1>1. card_Init => CardInv
  BY DEF card_Init, CardInv, CardImagesAreOnTheCard, NoImage
<1>2. CardInv => CardImagesAreOnTheCard
  BY DEF CardInv
<1> QED BY <1>1, <1>2, CardStep, PTL DEF card_Spec

(***************************************************************************)
(* The first difference of two keys decides which is below.                *)
(***************************************************************************)
Ordering == {Less, Equal, Greater}
Pair == Nat \X Nat

\* What is found agrees with the order of the keys.
Tells(found, ka, kb) ==
    /\ found \in Ordering
    /\ (found = Less <=> KeyBelow(ka, kb))
    /\ (found = Greater <=> KeyBelow(kb, ka))

LEMMA FirstOf ==
    ASSUME NEW m \in Nat, NEW f \in [1 .. m -> Ordering], NEW last \in Ordering
    PROVE  LET found == FirstDifference(f \o <<last>>)
           IN  \/ (\A i \in 1 .. m : f[i] = Equal) /\ found = last
               \/ \E i \in 1 .. m : f[i] # Equal /\ (\A j \in 1 .. i - 1 : f[j] = Equal) /\ found = f[i]
<1> DEFINE all == f \o <<last>>
           differing == {i \in DOMAIN all : all[i] # Equal}
           first == CHOOSE i \in differing : \A j \in differing : i <= j
<1>1. f \in Seq(Ordering) /\ Len(f) = m
  OBVIOUS
<1>2. /\ DOMAIN all = 1 .. m + 1 /\ all[m + 1] = last
      /\ \A i \in 1 .. m : all[i] = f[i]
  BY <1>1
<1> HIDE DEF all
<1>3. FirstDifference(all) = IF differing = {} THEN Equal ELSE all[first]
  BY DEF FirstDifference
<1>4. ASSUME differing # {} PROVE first \in differing /\ \A j \in differing : first <= j
  <2>1. differing \in SUBSET Nat
    BY <1>2
  <2> HIDE DEF differing
  <2>2. \E n \in differing : \A j \in differing : n <= j
    BY <1>4, <2>1, LeastIsThere
  <2> QED BY <2>2
<1> HIDE DEF first
<1>5. CASE differing = {}
  BY <1>2, <1>3, <1>5 DEF all
<1>6. CASE differing # {} /\ first = m + 1
  <2>1. \A i \in 1 .. m : f[i] = Equal
    <3> SUFFICES ASSUME NEW i \in 1 .. m, f[i] # Equal PROVE FALSE
      OBVIOUS
    <3>1. i \in differing
      BY <1>2
    <3>2. m + 1 <= i
      BY <1>4, <1>6, <3>1
    <3> QED BY <3>2
  <2> QED BY <1>2, <1>3, <1>6, <2>1 DEF all
<1>7. CASE differing # {} /\ first # m + 1
  <2>1. first \in 1 .. m /\ f[first] # Equal /\ all[first] = f[first]
    BY <1>2, <1>4, <1>7
  <2>2. ASSUME NEW j \in 1 .. first - 1, f[j] # Equal PROVE FALSE
    <3>1. j \in differing /\ j < first
      BY <1>2, <2>1, <2>2
    <3>2. first <= j
      BY <1>4, <1>7, <3>1
    <3> QED BY <2>1, <3>1, <3>2
  <2> HIDE DEF differing
  <2> QED BY <1>3, <1>7, <2>1, <2>2 DEF all
<1> QED BY <1>5, <1>6, <1>7

LEMMA BelowIsAnOrder ==
    ASSUME NEW p \in Pair, NEW q \in Pair
    PROVE  /\ ~ (Below(p, q) /\ Below(q, p))
           /\ p # q => Below(p, q) \/ Below(q, p)
           /\ Below(p, q) => p # q
           /\ \A r \in Pair : Below(p, q) /\ Below(q, r) => Below(p, r)
BY DEF Below, Pair

LEMMA DifferenceDecides ==
    ASSUME NEW ka \in Seq(Pair), NEW kb \in Seq(Pair),
           NEW i \in Nat, i \in DOMAIN ka, i \in DOMAIN kb,
           \A j \in 1 .. i - 1 : ka[j] = kb[j],
           NEW found, \/ found = Less /\ Below(ka[i], kb[i])
                      \/ found = Greater /\ Below(kb[i], ka[i])
    PROVE  Tells(found, ka, kb)
<1>1. \A j \in DOMAIN ka : ka[j] \in Pair /\ j \in Nat /\ j >= 1
  OBVIOUS
<1>2. \A j \in DOMAIN kb : kb[j] \in Pair /\ j \in Nat /\ j >= 1
  OBVIOUS
<1>3. ka[i] # kb[i] /\ ~ (Below(ka[i], kb[i]) /\ Below(kb[i], ka[i]))
  BY <1>1, <1>2, BelowIsAnOrder
\* Nobody is below by another position.
<1>4. ASSUME NEW j \in DOMAIN ka \cap DOMAIN kb, \A k \in 1 .. j - 1 : ka[k] = kb[k], ka[j] # kb[j]
      PROVE  j = i
  <2>1. j \in Nat /\ j >= 1 /\ i >= 1
    BY <1>1
  <2>2. ASSUME j < i PROVE FALSE
    BY <1>4, <2>1, <2>2
  <2>3. ASSUME i < j PROVE FALSE
    BY <1>3, <1>4, <2>1, <2>3
  <2> QED BY <2>1, <2>2, <2>3
<1>5. KeyBelow(ka, kb) => Below(ka[i], kb[i])
  <2> SUFFICES ASSUME KeyBelow(ka, kb) PROVE Below(ka[i], kb[i])
    OBVIOUS
  <2>1. PICK j \in DOMAIN ka \cap DOMAIN kb : Below(ka[j], kb[j]) /\ \A k \in 1 .. j - 1 : ka[k] = kb[k]
    BY DEF KeyBelow
  <2>2. ka[j] # kb[j]
    BY <1>1, <1>2, <2>1, BelowIsAnOrder
  <2> QED BY <1>4, <2>1, <2>2
<1>6. KeyBelow(kb, ka) => Below(kb[i], ka[i])
  <2> SUFFICES ASSUME KeyBelow(kb, ka) PROVE Below(kb[i], ka[i])
    OBVIOUS
  <2>1. PICK j \in DOMAIN kb \cap DOMAIN ka : Below(kb[j], ka[j]) /\ \A k \in 1 .. j - 1 : kb[k] = ka[k]
    BY DEF KeyBelow
  <2>2. ka[j] # kb[j]
    BY <1>1, <1>2, <2>1, BelowIsAnOrder
  <2>3. j \in DOMAIN ka \cap DOMAIN kb /\ \A k \in 1 .. j - 1 : ka[k] = kb[k]
    BY <2>1
  <2> QED BY <1>4, <2>1, <2>2, <2>3
<1>7. /\ Below(ka[i], kb[i]) => KeyBelow(ka, kb)
      /\ Below(kb[i], ka[i]) => KeyBelow(kb, ka)
  BY DEF KeyBelow
<1>8. Less # Greater /\ Less \in Ordering /\ Greater \in Ordering
  BY DEF Less, Greater, Ordering
<1> QED BY <1>3, <1>5, <1>6, <1>7, <1>8 DEF Tells

LEMMA EqualKeys ==
    ASSUME NEW ka \in Seq(Pair)
    PROVE  Tells(Equal, ka, ka)
<1>1. ASSUME KeyBelow(ka, ka) PROVE FALSE
  <2>1. PICK i \in DOMAIN ka : Below(ka[i], ka[i])
    BY <1>1 DEF KeyBelow
  <2>2. ka[i] \in Pair
    BY <2>1
  <2> QED BY <2>1, <2>2, BelowIsAnOrder
<1> QED BY <1>1 DEF Tells, Ordering, Less, Equal, Greater

(***************************************************************************)
(* A tag and its key.                                                      *)
(***************************************************************************)
Identifier(p) == <<IF p.numeric THEN 1 ELSE 2, p.value>>
End(tag) == IF tag.dash THEN <<0, 0>> ELSE <<3, 0>>

LEMMA TagFields ==
    ASSUME NEW tag \in Tag
    PROVE  /\ tag.parts \in Seq(Part) /\ tag.pre \in Seq(Part) /\ tag.dash \in BOOLEAN /\ tag.text \in Nat
           /\ ~ tag.dash => tag.pre = << >>
BY DEF Tag

LEMMA PaddedIsANumber ==
    ASSUME NEW s \in Seq(Part), NEW i
    PROVE  Padded(s, i) \in Nat
<1>1. i \in DOMAIN s => s[i] \in Part
  OBVIOUS
<1> QED BY <1>1 DEF Padded, Part

LEMMA IdentifierIsAPair ==
    ASSUME NEW p \in Part
    PROVE  Identifier(p) \in Pair /\ Identifier(p)[1] \in {1, 2} /\ Identifier(p)[2] = p.value
BY DEF Identifier, Pair, Part

LEMMA Joined ==
    ASSUME NEW S, NEW x \in Seq(S), NEW y \in Seq(S)
    PROVE  /\ Len(x) \in Nat /\ Len(y) \in Nat
           /\ x \o y \in Seq(S) /\ Len(x \o y) = Len(x) + Len(y)
           /\ \A i \in 1 .. Len(x) : (x \o y)[i] = x[i]
           /\ \A i \in 1 .. Len(y) : (x \o y)[Len(x) + i] = y[i]
<1>1. Len(x) \in Nat /\ Len(y) \in Nat /\ x \o y \in Seq(S) /\ Len(x \o y) = Len(x) + Len(y)
  OBVIOUS
<1>2. \A i \in 1 .. Len(x) : (x \o y)[i] = x[i]
  BY <1>1
<1>3. ASSUME NEW i \in 1 .. Len(y) PROVE (x \o y)[Len(x) + i] = y[i]
  <2>1. Len(x) + i \in 1 .. Len(x) + Len(y) /\ ~ (Len(x) + i <= Len(x)) /\ (Len(x) + i) - Len(x) = i
    BY <1>1
  <2> QED BY <1>1, <2>1, ConcatProperties
<1> QED BY <1>1, <1>2, <1>3

\* A key, position by position.
Spells(k, tag, w) ==
    LET n == Len(tag.pre)
    IN  /\ n \in Nat /\ k \in Seq(Pair) /\ Len(k) = w + n + 1
        /\ \A i \in 1 .. w : k[i] = <<1, Padded(tag.parts, i)>>
        /\ \A i \in 1 .. n : k[w + i] = Identifier(tag.pre[i])
        /\ k[w + n + 1] = End(tag)

LEMMA KeyElements ==
    ASSUME NEW tag \in Tag, NEW w \in Nat
    PROVE  Spells(Key(tag, w), tag, w)
<1> DEFINE k == Key(tag, w)
           n == Len(tag.pre)
<1>1. tag.parts \in Seq(Part) /\ tag.pre \in Seq(Part) /\ tag.dash \in BOOLEAN /\ (~ tag.dash => tag.pre = << >>)
  BY TagFields
<1> DEFINE a == [i \in 1 .. w |-> <<1, Padded(tag.parts, i)>>]
           b == [i \in DOMAIN tag.pre |-> Identifier(tag.pre[i])]
           c == <<End(tag)>>
<1>2. a \in Seq(Pair) /\ Len(a) = w /\ \A i \in 1 .. w : a[i] = <<1, Padded(tag.parts, i)>>
  <2>1. \A i \in 1 .. w : <<1, Padded(tag.parts, i)>> \in Pair
    BY <1>1, PaddedIsANumber DEF Pair
  <2> QED BY <2>1
<1>3. n \in Nat /\ b \in Seq(Pair) /\ Len(b) = n /\ \A i \in 1 .. n : b[i] = Identifier(tag.pre[i])
  <2>1. n \in Nat /\ DOMAIN tag.pre = 1 .. n /\ \A i \in 1 .. n : tag.pre[i] \in Part
    BY <1>1
  <2>2. \A i \in 1 .. n : Identifier(tag.pre[i]) \in Pair
    BY <2>1, IdentifierIsAPair
  <2> QED BY <2>1, <2>2
<1>4. c \in Seq(Pair) /\ Len(c) = 1 /\ c[1] = End(tag)
  BY DEF End, Pair
<1>5. k = a \o (b \o c)
  <2>1. CASE tag.dash
    BY <2>1 DEF Key, End, Identifier
  <2>2. CASE ~ tag.dash
    <3>1. n = 0
      BY <1>1, <2>2
    <3> HIDE DEF b
    <3>2. b \o c = <<<<3, 0>>>>
      BY <1>3, <1>4, <2>2, <3>1 DEF End
    <3> QED BY <2>2, <3>2 DEF Key
  <2> QED BY <2>1, <2>2
<1> HIDE DEF a, b, c
<1>6. /\ b \o c \in Seq(Pair) /\ Len(b \o c) = n + 1 /\ (b \o c)[n + 1] = End(tag)
      /\ \A i \in 1 .. n : (b \o c)[i] = b[i]
  <2>1. 1 \in 1 .. Len(c)
    BY <1>4
  <2>2. b \in Seq(Pair) /\ c \in Seq(Pair)
    BY <1>3, <1>4
  <2>3. /\ b \o c \in Seq(Pair) /\ Len(b \o c) = Len(b) + Len(c)
        /\ \A i \in 1 .. Len(b) : (b \o c)[i] = b[i]
        /\ \A i \in 1 .. Len(c) : (b \o c)[Len(b) + i] = c[i]
    BY <2>2, Joined
  <2>4. Len(b) = n /\ Len(c) = 1
    BY <1>3, <1>4
  <2> QED BY <1>3, <1>4, <2>1, <2>3, <2>4
<1> DEFINE d == b \o c
<1> HIDE DEF d
<1>7. d \in Seq(Pair) /\ Len(d) = n + 1 /\ d[n + 1] = End(tag) /\ \A i \in 1 .. n : d[i] = Identifier(tag.pre[i])
  BY <1>3, <1>6 DEF d
<1>8. /\ a \o d \in Seq(Pair) /\ Len(a \o d) = w + (n + 1)
      /\ \A i \in 1 .. w : (a \o d)[i] = a[i]
      /\ \A i \in 1 .. n + 1 : (a \o d)[w + i] = d[i]
  <2>1. a \in Seq(Pair) /\ d \in Seq(Pair)
    BY <1>2, <1>7
  <2>2. /\ a \o d \in Seq(Pair) /\ Len(a \o d) = Len(a) + Len(d)
        /\ \A i \in 1 .. Len(a) : (a \o d)[i] = a[i]
        /\ \A i \in 1 .. Len(d) : (a \o d)[Len(a) + i] = d[i]
    BY <2>1, Joined
  <2>3. Len(a) = w /\ Len(d) = n + 1
    BY <1>2, <1>7
  <2> QED BY <2>2, <2>3
<1>9. k = a \o d
  BY <1>5 DEF d
<1>10. w + (n + 1) = w + n + 1 /\ n + 1 \in 1 .. n + 1
  BY <1>3
<1> HIDE DEF k, n
<1>11. /\ n \in Nat /\ k \in Seq(Pair) /\ Len(k) = w + n + 1
       /\ \A i \in 1 .. w : k[i] = <<1, Padded(tag.parts, i)>>
       /\ \A i \in 1 .. n : k[w + i] = Identifier(tag.pre[i])
       /\ k[w + n + 1] = End(tag)
  BY <1>2, <1>3, <1>7, <1>8, <1>9, <1>10
<1> QED BY <1>11 DEF Spells, k, n

LEMMA CmpTells ==
    ASSUME NEW m \in Nat, NEW n \in Nat
    PROVE  /\ Cmp(m, n) \in Ordering
           /\ Cmp(m, n) = Less <=> m < n
           /\ Cmp(m, n) = Greater <=> n < m
           /\ Cmp(m, n) = Equal <=> m = n
BY DEF Cmp, Ordering, Less, Equal, Greater

LEMMA IdentifierTells ==
    ASSUME NEW p \in Part, NEW q \in Part
    PROVE  /\ order_identifier(p, q) \in Ordering
           /\ order_identifier(p, q) = Less => Below(Identifier(p), Identifier(q))
           /\ order_identifier(p, q) = Greater => Below(Identifier(q), Identifier(p))
           /\ order_identifier(p, q) = Equal => Identifier(p) = Identifier(q)
<1>1. p.value \in Nat /\ q.value \in Nat /\ p.numeric \in BOOLEAN /\ q.numeric \in BOOLEAN
  BY DEF Part
<1>2. CASE p.numeric = q.numeric
  BY <1>1, <1>2, CmpTells DEF order_identifier, Identifier, Below
<1>3. CASE p.numeric /\ ~ q.numeric
  <2>1. p.numeric # q.numeric
    BY <1>3, Zenon
  <2>2. order_identifier(p, q) = Less
    BY <1>3, <2>1, Zenon DEF order_identifier
  <2> QED BY <1>1, <1>3, <2>2 DEF Identifier, Below, Ordering, Less, Equal, Greater
<1>4. CASE ~ p.numeric /\ q.numeric
  <2>1. p.numeric # q.numeric
    BY <1>4, Zenon
  <2>2. order_identifier(p, q) = Greater
    BY <1>4, <2>1, Zenon DEF order_identifier
  <2> QED BY <1>1, <1>4, <2>2 DEF Identifier, Below, Ordering, Less, Equal, Greater
<1> QED BY <1>1, <1>2, <1>3, <1>4

LEMMA PreOf ==
    ASSUME NEW x \in Seq(Part), NEW y \in Seq(Part)
    PROVE  LET m == Narrowest(x, y)
           IN  \/ /\ \A i \in 1 .. m : order_identifier(x[i], y[i]) = Equal
                  /\ order_pre(x, y) = Cmp(Len(x), Len(y))
               \/ \E i \in 1 .. m :
                    /\ order_identifier(x[i], y[i]) # Equal
                    /\ \A j \in 1 .. i - 1 : order_identifier(x[j], y[j]) = Equal
                    /\ order_pre(x, y) = order_identifier(x[i], y[i])
<1> DEFINE m == Narrowest(x, y)
           f == [i \in 1 .. m |-> order_identifier(x[i], y[i])]
           last == Cmp(Len(x), Len(y))
<1>1. m \in Nat /\ m <= Len(x) /\ m <= Len(y) /\ Len(x) \in Nat /\ Len(y) \in Nat
  BY DEF Narrowest
<1> HIDE DEF m
<1>2. f \in [1 .. m -> Ordering]
  <2>1. \A i \in 1 .. m : x[i] \in Part /\ y[i] \in Part
    BY <1>1
  <2> QED BY <2>1, IdentifierTells
<1>3. last \in Ordering
  BY <1>1, CmpTells
<1>4. \A i \in 1 .. m : f[i] = order_identifier(x[i], y[i])
  OBVIOUS
<1>5. order_pre(x, y) = FirstDifference(f \o <<last>>)
  BY DEF order_pre, m
<1> HIDE DEF f, last
<1>6. \/ (\A i \in 1 .. m : f[i] = Equal) /\ order_pre(x, y) = last
      \/ \E i \in 1 .. m : f[i] # Equal /\ (\A j \in 1 .. i - 1 : f[j] = Equal) /\ order_pre(x, y) = f[i]
  <2>1. LET found == FirstDifference(f \o <<last>>)
        IN  \/ (\A i \in 1 .. m : f[i] = Equal) /\ found = last
            \/ \E i \in 1 .. m : f[i] # Equal /\ (\A j \in 1 .. i - 1 : f[j] = Equal) /\ found = f[i]
    BY <1>1, <1>2, <1>3, FirstOf, Zenon
  <2> QED BY <1>5, <2>1, Zenon
<1>7. CASE (\A i \in 1 .. m : f[i] = Equal) /\ order_pre(x, y) = last
  BY <1>4, <1>7 DEF last, m
<1>8. CASE \E i \in 1 .. m : f[i] # Equal /\ (\A j \in 1 .. i - 1 : f[j] = Equal) /\ order_pre(x, y) = f[i]
  <2>1. PICK i \in 1 .. m : f[i] # Equal /\ (\A j \in 1 .. i - 1 : f[j] = Equal) /\ order_pre(x, y) = f[i]
    BY <1>8
  <2>2. \A j \in 1 .. i - 1 : j \in 1 .. m
    BY <1>1
  <2>3. /\ order_identifier(x[i], y[i]) # Equal
        /\ \A j \in 1 .. i - 1 : order_identifier(x[j], y[j]) = Equal
        /\ order_pre(x, y) = order_identifier(x[i], y[i])
    BY <1>4, <2>1, <2>2
  <2> QED BY <2>3 DEF m
<1> QED BY <1>6, <1>7, <1>8

\* Two candidates of one release.
LEMMA PreTells ==
    ASSUME NEW a \in Tag, NEW b \in Tag, NEW w \in Nat, NEW ka, NEW kb, ka = Key(a, w), kb = Key(b, w),
           \A i \in 1 .. w : ka[i] = kb[i], a.dash = b.dash
    PROVE  Tells(order_pre(a.pre, b.pre), ka, kb)
<1> DEFINE m == Narrowest(a.pre, b.pre)
           na == Len(a.pre)
           nb == Len(b.pre)
<1>1. a.pre \in Seq(Part) /\ b.pre \in Seq(Part) /\ (~ a.dash => a.pre = << >>) /\ (~ b.dash => b.pre = << >>)
  BY TagFields
<1>2. /\ na \in Nat /\ ka \in Seq(Pair) /\ Len(ka) = w + na + 1
      /\ \A i \in 1 .. na : ka[w + i] = Identifier(a.pre[i])
      /\ ka[w + na + 1] = End(a)
  <2>1. Spells(ka, a, w)
    BY KeyElements
  <2> QED BY <2>1 DEF Spells
<1>3. /\ nb \in Nat /\ kb \in Seq(Pair) /\ Len(kb) = w + nb + 1
      /\ \A i \in 1 .. nb : kb[w + i] = Identifier(b.pre[i])
      /\ kb[w + nb + 1] = End(b)
  <2>1. Spells(kb, b, w)
    BY KeyElements
  <2> QED BY <2>1 DEF Spells
<1>4. End(a) = End(b)
  BY DEF End
<1>5. m \in Nat /\ m <= na /\ m <= nb /\ (m = na \/ m = nb)
  BY <1>2, <1>3 DEF Narrowest
<1>6. \A i \in 1 .. m : a.pre[i] \in Part /\ b.pre[i] \in Part
  <2>1. ASSUME NEW i \in 1 .. m PROVE i \in 1 .. na /\ i \in 1 .. nb
    <3> HIDE DEF m, na, nb
    <3> QED BY <1>2, <1>3, <1>5, <2>1
  <2>2. \A i \in 1 .. na : a.pre[i] \in Part
    BY <1>1
  <2>3. \A i \in 1 .. nb : b.pre[i] \in Part
    BY <1>1
  <2> HIDE DEF m, na, nb
  <2> QED BY <2>1, <2>2, <2>3, Zenon
<1> HIDE DEF m, na, nb
\* As far as the identifiers are equal, so are the keys.
<1>7. ASSUME NEW i \in 1 .. m + 1, \A j \in 1 .. i - 1 : order_identifier(a.pre[j], b.pre[j]) = Equal
      PROVE  \A j \in 1 .. (w + i) - 1 : ka[j] = kb[j]
  <2> SUFFICES ASSUME NEW j \in 1 .. (w + i) - 1 PROVE ka[j] = kb[j]
    OBVIOUS
  <2>1. CASE j <= w
    BY <2>1
  <2>2. CASE ~ (j <= w)
    <3> DEFINE l == j - w
    <3>1. l \in 1 .. m /\ l \in 1 .. i - 1 /\ l \in 1 .. na /\ l \in 1 .. nb /\ j = w + l
      BY <2>2, <1>2, <1>3, <1>5
    <3> HIDE DEF l
    <3>2. Identifier(a.pre[l]) = Identifier(b.pre[l])
      BY <1>6, <1>7, <3>1, IdentifierTells
    <3> QED BY <1>2, <1>3, <3>1, <3>2
  <2> QED BY <2>1, <2>2
<1>8. CASE (\A i \in 1 .. m : order_identifier(a.pre[i], b.pre[i]) = Equal) /\ order_pre(a.pre, b.pre) = Cmp(na, nb)
  <2>1. \A j \in 1 .. (w + (m + 1)) - 1 : ka[j] = kb[j]
    BY <1>5, <1>7, <1>8
  <2> DEFINE i == w + (m + 1)
  <2>2. i \in Nat /\ i = w + m + 1 /\ i >= 1
    BY <1>5
  <2>3. CASE na = nb
    <3>1. m = na /\ m = nb /\ Len(ka) = i /\ Len(kb) = i /\ ka[i] = kb[i]
      BY <1>2, <1>3, <1>4, <1>5, <2>2, <2>3
    <3> HIDE DEF i
    <3>2. ka = kb
      <4>1. ASSUME NEW j \in 1 .. i PROVE ka[j] = kb[j]
        <5>1. CASE j = i
          BY <3>1, <5>1
        <5>2. CASE j # i
          <6>1. j \in 1 .. i - 1
            BY <2>2, <5>2
          <6> QED BY <2>1, <6>1 DEF i
        <5> QED BY <5>1, <5>2
      <4> QED BY <1>2, <1>3, <3>1, <4>1
    <3>3. Cmp(na, nb) = Equal
      BY <1>2, <1>3, <2>3, CmpTells
    <3> QED BY <1>2, <1>8, <3>2, <3>3, EqualKeys
  <2>4. CASE na < nb
    <3>1. m = na /\ i \in DOMAIN ka /\ i \in DOMAIN kb /\ m + 1 \in 1 .. nb
      BY <1>2, <1>3, <1>5, <2>2, <2>4
    <3>2. ka[i] = End(a) /\ kb[i] = Identifier(b.pre[m + 1]) /\ b.pre[m + 1] \in Part
      BY <1>1, <1>2, <1>3, <2>2, <3>1 DEF nb
    <3>3. b.dash /\ a.dash
      BY <1>1, <1>3, <2>4, <1>2 DEF nb
    <3>4. Below(ka[i], kb[i])
      BY <3>2, <3>3, IdentifierIsAPair DEF Below, End
    <3>5. Cmp(na, nb) = Less
      BY <1>2, <1>3, <2>4, CmpTells
    <3> HIDE DEF i
    <3>6. \A j \in 1 .. i - 1 : ka[j] = kb[j]
      BY <2>1 DEF i
    <3> QED BY <1>2, <1>3, <1>8, <2>2, <3>1, <3>4, <3>5, <3>6, DifferenceDecides
  <2>5. CASE nb < na
    <3>1. m = nb /\ i \in DOMAIN ka /\ i \in DOMAIN kb /\ m + 1 \in 1 .. na
      BY <1>2, <1>3, <1>5, <2>2, <2>5
    <3>2. kb[i] = End(b) /\ ka[i] = Identifier(a.pre[m + 1]) /\ a.pre[m + 1] \in Part
      BY <1>1, <1>2, <1>3, <2>2, <3>1 DEF na
    <3>3. b.dash /\ a.dash
      BY <1>1, <1>3, <2>5, <1>2 DEF na
    <3>4. Below(kb[i], ka[i])
      BY <3>2, <3>3, IdentifierIsAPair DEF Below, End
    <3>5. Cmp(na, nb) = Greater
      BY <1>2, <1>3, <2>5, CmpTells
    <3> HIDE DEF i
    <3>6. \A j \in 1 .. i - 1 : ka[j] = kb[j]
      BY <2>1 DEF i
    <3> QED BY <1>2, <1>3, <1>8, <2>2, <3>1, <3>4, <3>5, <3>6, DifferenceDecides
  <2> QED BY <1>2, <1>3, <2>3, <2>4, <2>5
<1>9. CASE \E i \in 1 .. m :
             /\ order_identifier(a.pre[i], b.pre[i]) # Equal
             /\ \A j \in 1 .. i - 1 : order_identifier(a.pre[j], b.pre[j]) = Equal
             /\ order_pre(a.pre, b.pre) = order_identifier(a.pre[i], b.pre[i])
  <2>1. PICK i \in 1 .. m :
             /\ order_identifier(a.pre[i], b.pre[i]) # Equal
             /\ \A j \in 1 .. i - 1 : order_identifier(a.pre[j], b.pre[j]) = Equal
             /\ order_pre(a.pre, b.pre) = order_identifier(a.pre[i], b.pre[i])
    BY <1>9
  <2> DEFINE l == w + i
             found == order_identifier(a.pre[i], b.pre[i])
  <2>2. /\ i \in 1 .. m + 1 /\ i \in 1 .. na /\ i \in 1 .. nb
        /\ l \in Nat /\ l \in DOMAIN ka /\ l \in DOMAIN kb
    BY <1>2, <1>3, <1>5
  <2>3. \A j \in 1 .. l - 1 : ka[j] = kb[j]
    BY <1>7, <2>1, <2>2
  <2>4. ka[l] = Identifier(a.pre[i]) /\ kb[l] = Identifier(b.pre[i])
    BY <1>2, <1>3, <2>2
  <2>5. \/ found = Less /\ Below(ka[l], kb[l])
        \/ found = Greater /\ Below(kb[l], ka[l])
    <3>1. found \in Ordering /\ found # Equal
      BY <1>6, <2>1, IdentifierTells
    <3> QED BY <1>6, <2>4, <3>1, IdentifierTells DEF Ordering
  <2> HIDE DEF l, found
  <2>6. Tells(found, ka, kb)
    BY <1>2, <1>3, <2>2, <2>3, <2>5, DifferenceDecides
  <2> QED BY <2>1, <2>6 DEF found
<1> QED BY <1>1, <1>8, <1>9, PreOf DEF m, na, nb

\* The order of two tags is the order of their keys.
LEMMA OrderTells ==
    ASSUME NEW a \in Tag, NEW b \in Tag, NEW w \in Nat, Len(a.parts) <= w, Len(b.parts) <= w
    PROVE  Tells(order(a, b), Key(a, w), Key(b, w))
<1> DEFINE ka == Key(a, w)
           kb == Key(b, w)
           m == Widest(a.parts, b.parts)
           f == [i \in 1 .. m |-> Cmp(Padded(a.parts, i), Padded(b.parts, i))]
           last == IF a.dash = b.dash THEN order_pre(a.pre, b.pre) ELSE IF a.dash THEN Less ELSE Greater
<1>1. /\ a.parts \in Seq(Part) /\ a.pre \in Seq(Part) /\ a.dash \in BOOLEAN /\ (~ a.dash => a.pre = << >>)
      /\ b.parts \in Seq(Part) /\ b.pre \in Seq(Part) /\ b.dash \in BOOLEAN /\ (~ b.dash => b.pre = << >>)
  BY TagFields
<1>2. Spells(ka, a, w) /\ Spells(kb, b, w)
  BY KeyElements
<1>3. m \in Nat /\ m <= w /\ Len(a.parts) <= m /\ Len(b.parts) <= m
  BY <1>1 DEF Widest
<1>4. order(a, b) = FirstDifference(f \o <<last>>)
  BY DEF order
<1> HIDE DEF ka, kb, m
<1>5. ASSUME NEW i \in 1 .. w
      PROVE  /\ Padded(a.parts, i) \in Nat /\ Padded(b.parts, i) \in Nat
             /\ ka[i] = <<1, Padded(a.parts, i)>> /\ kb[i] = <<1, Padded(b.parts, i)>>
             /\ i > m => ka[i] = kb[i]
  <2>1. /\ Padded(a.parts, i) \in Nat /\ Padded(b.parts, i) \in Nat
        /\ ka[i] = <<1, Padded(a.parts, i)>> /\ kb[i] = <<1, Padded(b.parts, i)>>
    BY <1>1, <1>2, PaddedIsANumber DEF Spells
  <2>2. ASSUME i > m PROVE Padded(a.parts, i) = 0 /\ Padded(b.parts, i) = 0
    <3>1. i \notin DOMAIN a.parts /\ i \notin DOMAIN b.parts
      BY <1>1, <1>3, <2>2
    <3> QED BY <3>1 DEF Padded
  <2> QED BY <2>1, <2>2
<1>6. ASSUME NEW i \in 1 .. m
      PROVE  /\ i \in 1 .. w /\ f[i] \in Ordering
             /\ f[i] = Less => Below(ka[i], kb[i])
             /\ f[i] = Greater => Below(kb[i], ka[i])
             /\ f[i] = Equal => ka[i] = kb[i]
  <2>1. i \in 1 .. w /\ f[i] = Cmp(Padded(a.parts, i), Padded(b.parts, i))
    BY <1>3
  <2> HIDE DEF f
  <2> DEFINE p == Padded(a.parts, i)
             q == Padded(b.parts, i)
  <2>2. p \in Nat /\ q \in Nat /\ ka[i] = <<1, p>> /\ kb[i] = <<1, q>> /\ f[i] = Cmp(p, q)
    BY <1>5, <2>1
  <2> HIDE DEF p, q
  <2>3. /\ f[i] \in Ordering
        /\ f[i] = Less => p < q
        /\ f[i] = Greater => q < p
        /\ f[i] = Equal => p = q
    <3>1. p \in Nat /\ q \in Nat
      BY <2>2
    <3>2. /\ Cmp(p, q) \in Ordering
          /\ Cmp(p, q) = Less <=> p < q
          /\ Cmp(p, q) = Greater <=> q < p
          /\ Cmp(p, q) = Equal <=> p = q
      BY <3>1, CmpTells, Zenon
    <3> QED BY <2>2, <3>2
  <2> QED BY <2>1, <2>2, <2>3 DEF Below
<1>7. f \in [1 .. m -> Ordering]
  BY <1>6
<1>8. last \in Ordering
  <2>1. order_pre(a.pre, b.pre) \in Ordering
    <3>1. ASSUME NEW i \in 1 .. Narrowest(a.pre, b.pre) PROVE order_identifier(a.pre[i], b.pre[i]) \in Ordering
      <4>1. i \in 1 .. Len(a.pre) /\ i \in 1 .. Len(b.pre)
        BY <1>1 DEF Narrowest
      <4>2. a.pre[i] \in Part /\ b.pre[i] \in Part
        BY <1>1, <4>1
      <4> QED BY <4>2, IdentifierTells
    <3>2. Cmp(Len(a.pre), Len(b.pre)) \in Ordering
      BY <1>1, CmpTells
    <3>3. LET n == Narrowest(a.pre, b.pre)
          IN  \/ order_pre(a.pre, b.pre) = Cmp(Len(a.pre), Len(b.pre))
              \/ \E i \in 1 .. n : order_pre(a.pre, b.pre) = order_identifier(a.pre[i], b.pre[i])
      BY <1>1, PreOf
    <3> QED BY <3>1, <3>2, <3>3
  <2> QED BY <2>1 DEF Ordering
<1> HIDE DEF f, last
<1>9. LET found == FirstDifference(f \o <<last>>)
      IN  \/ (\A i \in 1 .. m : f[i] = Equal) /\ found = last
          \/ \E i \in 1 .. m : f[i] # Equal /\ (\A j \in 1 .. i - 1 : f[j] = Equal) /\ found = f[i]
  BY <1>3, <1>7, <1>8, FirstOf, Zenon
<1>10. /\ ka \in Seq(Pair) /\ kb \in Seq(Pair)
       /\ Len(a.pre) \in Nat /\ Len(ka) = w + Len(a.pre) + 1
       /\ Len(b.pre) \in Nat /\ Len(kb) = w + Len(b.pre) + 1
       /\ \A i \in 1 .. Len(a.pre) : ka[w + i] = Identifier(a.pre[i])
       /\ \A i \in 1 .. Len(b.pre) : kb[w + i] = Identifier(b.pre[i])
       /\ ka[w + Len(a.pre) + 1] = End(a) /\ kb[w + Len(b.pre) + 1] = End(b)
  BY <1>2 DEF Spells
<1>11. CASE \E i \in 1 .. m : f[i] # Equal /\ (\A j \in 1 .. i - 1 : f[j] = Equal) /\ order(a, b) = f[i]
  <2>1. PICK i \in 1 .. m : f[i] # Equal /\ (\A j \in 1 .. i - 1 : f[j] = Equal) /\ order(a, b) = f[i]
    BY <1>11
  <2>2. i \in Nat /\ i \in DOMAIN ka /\ i \in DOMAIN kb
    BY <1>3, <1>10
  <2>3. \A j \in 1 .. i - 1 : ka[j] = kb[j]
    <3>1. \A j \in 1 .. i - 1 : j \in 1 .. m
      BY <1>3
    <3> QED BY <1>6, <2>1, <3>1
  <2>4. \/ f[i] = Less /\ Below(ka[i], kb[i])
        \/ f[i] = Greater /\ Below(kb[i], ka[i])
    BY <1>6, <2>1 DEF Ordering
  <2> QED BY <1>10, <2>1, <2>2, <2>3, <2>4, DifferenceDecides DEF ka, kb
<1>12. CASE (\A i \in 1 .. m : f[i] = Equal) /\ order(a, b) = last
  <2>1. ASSUME NEW i \in 1 .. w PROVE ka[i] = kb[i]
    <3>1. i > m \/ i \in 1 .. m
      BY <1>3
    <3> QED BY <1>5, <1>6, <1>12, <3>1
  <2>2. CASE a.dash = b.dash
    <3>1. order(a, b) = order_pre(a.pre, b.pre)
      BY <1>12, <2>2 DEF last
    <3> QED BY <2>1, <2>2, <3>1, PreTells DEF ka, kb
  <2>3. CASE a.dash # b.dash
    <3> DEFINE i == w + 1
    <3>1. i \in Nat /\ i \in DOMAIN ka /\ i \in DOMAIN kb /\ i - 1 = w
      <4>1. DOMAIN ka = 1 .. Len(ka) /\ DOMAIN kb = 1 .. Len(kb)
        BY <1>10
      <4>2. 1 <= i /\ i <= Len(ka) /\ i <= Len(kb) /\ i \in Nat /\ i - 1 = w
        BY <1>10
      <4> HIDE DEF i
      <4> QED BY <1>10, <4>1, <4>2
    <3>2. \A j \in 1 .. i - 1 : ka[j] = kb[j]
      BY <2>1, <3>1
    \* A candidate goes on lower than the end of its release.
    <3>3. ASSUME a.dash, ~ b.dash PROVE Below(ka[i], kb[i]) /\ order(a, b) = Less
      <4>1. kb[i] = <<3, 0>>
        BY <1>1, <1>10, <3>3 DEF End
      <4>2. ka[i] = <<0, 0>> \/ (ka[i] \in Pair /\ ka[i][1] \in {1, 2})
        <5>1. CASE Len(a.pre) = 0
          BY <1>10, <3>3, <5>1 DEF End
        <5>2. CASE Len(a.pre) # 0
          <6>1. 1 \in 1 .. Len(a.pre) /\ a.pre[1] \in Part
            BY <1>1, <5>2
          <6> QED BY <1>10, <6>1, IdentifierIsAPair
        <5> QED BY <5>1, <5>2
      <4>3. last = Less
        BY <2>3, <3>3 DEF last
      <4> HIDE DEF i
      <4> QED BY <1>12, <4>1, <4>2, <4>3 DEF Below
    <3>4. ASSUME b.dash, ~ a.dash PROVE Below(kb[i], ka[i]) /\ order(a, b) = Greater
      <4>1. ka[i] = <<3, 0>>
        BY <1>1, <1>10, <3>4 DEF End
      <4>2. kb[i] = <<0, 0>> \/ (kb[i] \in Pair /\ kb[i][1] \in {1, 2})
        <5>1. CASE Len(b.pre) = 0
          BY <1>10, <3>4, <5>1 DEF End
        <5>2. CASE Len(b.pre) # 0
          <6>1. 1 \in 1 .. Len(b.pre) /\ b.pre[1] \in Part
            BY <1>1, <5>2
          <6> QED BY <1>10, <6>1, IdentifierIsAPair
        <5> QED BY <5>1, <5>2
      <4>3. last = Greater
        BY <2>3, <3>4 DEF last
      <4> HIDE DEF i
      <4> QED BY <1>12, <4>1, <4>2, <4>3 DEF Below
    <3>5. (a.dash /\ ~ b.dash) \/ (b.dash /\ ~ a.dash)
      BY <1>1, <2>3
    <3> HIDE DEF i
    <3> QED BY <1>10, <3>1, <3>2, <3>3, <3>4, <3>5, DifferenceDecides DEF ka, kb
  <2> QED BY <2>2, <2>3
<1> QED BY <1>4, <1>9, <1>11, <1>12

Ends == {<<0, 0>>, <<3, 0>>}

\* A key ends where it says so, and nowhere before.
LEMMA KeyEnds ==
    ASSUME NEW tag \in Tag, NEW w \in Nat
    PROVE  LET k == Key(tag, w)
           IN  /\ k \in Seq(Pair) /\ Len(k) \in Nat \ {0} /\ k[Len(k)] \in Ends
               /\ \A i \in 1 .. Len(k) - 1 : k[i] \notin Ends
<1> DEFINE k == Key(tag, w)
           n == Len(tag.pre)
<1>1. Spells(k, tag, w)
  BY KeyElements
<1>2. /\ n \in Nat /\ k \in Seq(Pair) /\ Len(k) = w + n + 1
      /\ \A i \in 1 .. w : k[i] = <<1, Padded(tag.parts, i)>>
      /\ \A i \in 1 .. n : k[w + i] = Identifier(tag.pre[i])
      /\ k[w + n + 1] = End(tag)
  BY <1>1 DEF Spells
<1>3. tag.pre \in Seq(Part)
  BY TagFields
<1>4. \A i \in 1 .. n : tag.pre[i] \in Part
  BY <1>3
<1> HIDE DEF k, n
<1>5. ASSUME NEW i \in 1 .. Len(k) - 1 PROVE k[i] \notin Ends
  <2>1. CASE i <= w
    <3>1. k[i] = <<1, Padded(tag.parts, i)>>
      BY <1>2, <2>1
    <3> QED BY <3>1 DEF Ends
  <2>2. CASE ~ (i <= w)
    <3> DEFINE l == i - w
    <3>1. l \in 1 .. n /\ i = w + l
      BY <1>2, <2>2
    <3> HIDE DEF l
    <3>2. k[i] = Identifier(tag.pre[l])
      BY <1>2, <3>1
    <3> QED BY <1>4, <3>1, <3>2, IdentifierIsAPair DEF Ends
  <2> QED BY <2>1, <2>2
<1>6. k[Len(k)] \in Ends
  BY <1>2 DEF End, Ends
<1> QED BY <1>2, <1>5, <1>6 DEF k

\* Between two keys of which one is below the other there is no third that is
\* neither above the one nor below the other.
LEMMA KeysAreRanked ==
    ASSUME NEW x \in Tag, NEW y \in Tag, NEW z \in Tag, NEW w \in Nat,
           KeyBelow(Key(x, w), Key(z, w))
    PROVE  KeyBelow(Key(x, w), Key(y, w)) \/ KeyBelow(Key(y, w), Key(z, w))
<1> DEFINE a == Key(x, w)
           b == Key(y, w)
           c == Key(z, w)
<1>1. /\ a \in Seq(Pair) /\ Len(a) \in Nat \ {0} /\ \A i \in 1 .. Len(a) - 1 : a[i] \notin Ends
      /\ b \in Seq(Pair) /\ Len(b) \in Nat \ {0} /\ b[Len(b)] \in Ends
      /\ c \in Seq(Pair)
  BY KeyEnds
<1>2. PICK i \in DOMAIN a \cap DOMAIN c : Below(a[i], c[i]) /\ \A j \in 1 .. i - 1 : a[j] = c[j]
  BY DEF KeyBelow
<1> HIDE DEF a, b, c
<1>3. /\ DOMAIN a = 1 .. Len(a) /\ DOMAIN b = 1 .. Len(b) /\ DOMAIN c = 1 .. Len(c) /\ Len(c) \in Nat
      /\ i \in Nat /\ i >= 1 /\ i <= Len(a) /\ i <= Len(c)
  BY <1>1, <1>2
<1>4. /\ \A j \in DOMAIN a : a[j] \in Pair
      /\ \A j \in DOMAIN b : b[j] \in Pair
      /\ \A j \in DOMAIN c : c[j] \in Pair
  BY <1>1
<1> DEFINE parting == {j \in 1 .. i : j \notin DOMAIN b \/ a[j] # b[j]}
<1>5. CASE parting = {}
  <2>1. /\ i \in DOMAIN b /\ a[i] = b[i] /\ \A j \in 1 .. i - 1 : a[j] = b[j]
    BY <1>3, <1>5
  <2>2. Below(b[i], c[i]) /\ \A j \in 1 .. i - 1 : b[j] = c[j]
    BY <1>2, <2>1
  <2> QED BY <1>2, <2>1, <2>2 DEF KeyBelow, b, c
<1>6. CASE parting # {}
  <2>1. parting \in SUBSET Nat
    OBVIOUS
  <2>2. PICK j \in parting : \A k \in parting : j <= k
    <3> HIDE DEF parting
    <3> QED BY <1>6, <2>1, LeastIsThere
  <2>3. j \in Nat /\ j >= 1 /\ j <= i /\ (j \notin DOMAIN b \/ a[j] # b[j])
    BY <1>3
  <2>4. ASSUME NEW k \in 1 .. j - 1 PROVE k \in DOMAIN b /\ a[k] = b[k]
    <3>1. k \in 1 .. i /\ ~ (j <= k)
      BY <1>3, <2>3
    <3> QED BY <2>2, <3>1
  <2> HIDE DEF parting
  <2>5. j \in DOMAIN b
    <3> SUFFICES ASSUME j \notin DOMAIN b PROVE FALSE
      OBVIOUS
    <3>1. CASE j = 1
      BY <1>1, <1>3, <3>1
    <3>2. CASE j # 1
      <4>1. j - 1 \in 1 .. j - 1 /\ j - 1 \in 1 .. Len(a) - 1
        BY <1>1, <1>3, <2>3, <3>2
      <4>2. j - 1 \in DOMAIN b /\ a[j - 1] = b[j - 1]
        BY <2>4, <4>1
      <4>3. j - 1 = Len(b)
        BY <1>1, <1>3, <2>3, <4>2
      <4> QED BY <1>1, <4>1, <4>2, <4>3
    <3> QED BY <3>1, <3>2
  <2>6. a[j] # b[j] /\ a[j] \in Pair /\ b[j] \in Pair /\ j \in DOMAIN a /\ j \in DOMAIN c
    BY <1>1, <1>3, <1>4, <2>3, <2>5
  <2>7. CASE Below(a[j], b[j])
    BY <2>4, <2>5, <2>6, <2>7 DEF KeyBelow, a, b
  <2>8. CASE Below(b[j], a[j])
    <3>1. Below(b[j], c[j])
      <4>1. CASE j = i
        BY <1>2, <1>4, <2>6, <2>8, <4>1, BelowIsAnOrder
      <4>2. CASE j # i
        <5>1. j \in 1 .. i - 1
          BY <1>3, <2>3, <4>2
        <5> QED BY <1>2, <2>8, <5>1
      <4> QED BY <4>1, <4>2
    <3>2. \A k \in 1 .. j - 1 : b[k] = c[k]
      <4>1. \A k \in 1 .. j - 1 : k \in 1 .. i - 1
        BY <1>3, <2>3
      <4> QED BY <1>2, <2>4, <4>1
    <3> QED BY <2>5, <2>6, <3>1, <3>2 DEF KeyBelow, b, c
  <2> QED BY <2>6, <2>7, <2>8, BelowIsAnOrder
<1> QED BY <1>5, <1>6

(***************************************************************************)
(* The listing.                                                            *)
(***************************************************************************)
LEMMA OrderTurns ==
    ASSUME NEW x \in Tag, NEW y \in Tag
    PROVE  /\ order(x, y) \in Ordering /\ order(y, x) \in Ordering
           /\ order(x, y) = Less <=> order(y, x) = Greater
<1> DEFINE w == Widest(x.parts, y.parts)
<1>1. w \in Nat /\ Len(x.parts) <= w /\ Len(y.parts) <= w
  BY TagFields DEF Widest
<1> HIDE DEF w
<1>2. Tells(order(x, y), Key(x, w), Key(y, w)) /\ Tells(order(y, x), Key(y, w), Key(x, w))
  BY <1>1, OrderTells
<1> QED BY <1>2 DEF Tells

LEMMA NewerFirstTurns ==
    ASSUME NEW x \in Tag, NEW y \in Tag
    PROVE  /\ NewerFirst(x, y) \in Ordering
           /\ NewerFirst(x, y) = Less <=> NewerFirst(y, x) = Greater
<1>1. Comparable(x, y) <=> Comparable(y, x)
  BY DEF Comparable
<1>2. CASE Comparable(x, y)
  <2>1. NewerFirst(x, y) = order(y, x) /\ NewerFirst(y, x) = order(x, y)
    BY <1>1, <1>2 DEF NewerFirst
  <2> QED BY <2>1, OrderTurns
<1>3. CASE ~ Comparable(x, y)
  <2>1. NewerFirst(x, y) = Cmp(y.text, x.text) /\ NewerFirst(y, x) = Cmp(x.text, y.text)
    BY <1>1, <1>3 DEF NewerFirst
  <2>2. x.text \in Nat /\ y.text \in Nat
    BY TagFields
  <2> QED BY <2>1, <2>2, CmpTells
<1> QED BY <1>2, <1>3

LEMMA NewerFirstGoesOn ==
    ASSUME NEW x \in Tag, NEW y \in Tag, NEW z \in Tag, parse_tag(x), parse_tag(y), parse_tag(z),
           NewerFirst(x, y) # Greater, NewerFirst(y, z) # Greater
    PROVE  NewerFirst(x, z) # Greater
<1>1. PICK w \in Nat : Len(x.parts) <= w /\ Len(y.parts) <= w /\ Len(z.parts) <= w
  <2> DEFINE p == Len(x.parts)
             q == Len(y.parts)
             r == Len(z.parts)
  <2>1. p \in Nat /\ q \in Nat /\ r \in Nat
    <3>1. x.parts \in Seq(Part) /\ y.parts \in Seq(Part) /\ z.parts \in Seq(Part)
      BY TagFields
    <3> QED BY <3>1
  <2> HIDE DEF p, q, r
  <2>2. p + q + r \in Nat /\ p <= p + q + r /\ q <= p + q + r /\ r <= p + q + r
    BY <2>1
  <2>3. \E w \in Nat : p <= w /\ q <= w /\ r <= w
    BY <2>2
  <2> QED BY <2>3 DEF p, q, r
<1>2. NewerFirst(x, y) = order(y, x) /\ NewerFirst(y, z) = order(z, y) /\ NewerFirst(x, z) = order(z, x)
  BY DEF NewerFirst, Comparable
<1>3. /\ Tells(order(y, x), Key(y, w), Key(x, w))
      /\ Tells(order(z, y), Key(z, w), Key(y, w))
      /\ Tells(order(z, x), Key(z, w), Key(x, w))
  BY <1>1, OrderTells
<1>4. ~ KeyBelow(Key(x, w), Key(y, w)) /\ ~ KeyBelow(Key(y, w), Key(z, w))
  BY <1>2, <1>3 DEF Tells
<1>5. ~ KeyBelow(Key(x, w), Key(z, w))
  BY <1>1, <1>4, KeysAreRanked
<1> QED BY <1>2, <1>3, <1>5 DEF Tells

Newest(s) == \A i, j \in DOMAIN s : i < j => NewerFirst(s[i], s[j]) # Greater

LEMMA InsertedInPlace ==
    ASSUME NEW M \in SUBSET Tag, NEW s \in Seq(M), NEW x \in M, Newest(s),
           Len(s) <= 1 \/ \A m \in M : parse_tag(m)
    PROVE  InsertNext(s, x) \in Seq(M) /\ Len(InsertNext(s, x)) = Len(s) + 1 /\ Newest(InsertNext(s, x))
<1> DEFINE n == Len(s)
           Fits(k) == \A i \in k + 1 .. n : NewerFirst(x, s[i]) = Less
           fitting == {k \in 0 .. n : Fits(k)}
           after == CHOOSE k \in 0 .. n : (k > 0 => NewerFirst(x, s[k]) # Less) /\ Fits(k)
           before == SubSeq(s, 1, after)
           behind == SubSeq(s, after + 1, n)
           listed == InsertNext(s, x)
<1>1. n \in Nat /\ DOMAIN s = 1 .. n /\ \A i \in 1 .. n : s[i] \in M /\ s[i] \in Tag
  OBVIOUS
<1>2. listed = before \o <<x>> \o behind
  BY DEF InsertNext
<1> HIDE DEF n
<1>3. \E k \in 0 .. n : (k > 0 => NewerFirst(x, s[k]) # Less) /\ Fits(k)
  <2>1. n \in fitting
    BY <1>1
  <2>2. fitting \in SUBSET Nat
    BY <1>1
  <2>3. PICK k \in fitting : \A m \in fitting : k <= m
    <3> HIDE DEF fitting
    <3> QED BY <2>1, <2>2, LeastIsThere
  <2>4. ASSUME k > 0, NewerFirst(x, s[k]) = Less PROVE FALSE
    <3>1. k - 1 \in 0 .. n /\ ~ (k <= k - 1)
      BY <1>1, <2>4
    <3>2. ASSUME NEW i \in (k - 1) + 1 .. n PROVE NewerFirst(x, s[i]) = Less
      <4>1. i = k \/ i \in k + 1 .. n
        BY <1>1, <2>2, <3>1
      <4> QED BY <2>3, <2>4, <4>1
    <3>3. k - 1 \in fitting
      BY <3>1, <3>2
    <3> HIDE DEF fitting
    <3> QED BY <2>3, <3>1, <3>3
  <2> QED BY <2>3, <2>4
<1>4. after \in 0 .. n /\ (after > 0 => NewerFirst(x, s[after]) # Less) /\ Fits(after)
  <2> HIDE DEF Fits
  <2> QED BY <1>3
<1> HIDE DEF after
<1>5a. before \in Seq(M) /\ Len(before) = after /\ \A i \in 1 .. after : before[i] = s[i]
  <2>1. after \in Nat /\ after <= Len(s)
    BY <1>1, <1>4 DEF n
  <2>2. SubSeq(s, 1, after) \in Seq(M) /\ Len(SubSeq(s, 1, after)) = after
    BY <2>1
  <2>3. \A i \in 1 .. after : SubSeq(s, 1, after)[i] = s[i]
    BY <2>1
  <2> QED BY <2>2, <2>3
<1>5b. behind \in Seq(M) /\ Len(behind) = n - after /\ \A i \in 1 .. n - after : behind[i] = s[after + i]
  <2>1. after \in Nat /\ after <= Len(s) /\ Len(s) \in Nat
    BY <1>1, <1>4 DEF n
  <2>2. SubSeq(s, after + 1, Len(s)) \in Seq(M) /\ Len(SubSeq(s, after + 1, Len(s))) = Len(s) - after
    BY <2>1
  <2>3. ASSUME NEW i \in 1 .. Len(s) - after PROVE SubSeq(s, after + 1, Len(s))[i] = s[after + i]
    BY <2>1
  <2> QED BY <2>2, <2>3 DEF n
<1>5. /\ before \in Seq(M) /\ Len(before) = after /\ \A i \in 1 .. after : before[i] = s[i]
      /\ behind \in Seq(M) /\ Len(behind) = n - after /\ \A i \in 1 .. n - after : behind[i] = s[after + i]
  <2> HIDE DEF before, behind
  <2> QED BY <1>5a, <1>5b
<1> HIDE DEF before, behind
<1> DEFINE front == before \o <<x>>
<1>6. /\ front \in Seq(M) /\ Len(front) = after + 1 /\ front[after + 1] = x
      /\ \A i \in 1 .. after : front[i] = s[i]
  <2>1. <<x>> \in Seq(M) /\ Len(<<x>>) = 1 /\ <<x>>[1] = x /\ 1 \in 1 .. 1
    OBVIOUS
  <2>2. /\ front \in Seq(M) /\ Len(front) = Len(before) + 1
        /\ \A i \in 1 .. Len(before) : front[i] = before[i]
        /\ \A i \in 1 .. 1 : front[Len(before) + i] = <<x>>[i]
    <3>1. before \in Seq(M)
      BY <1>5
    <3> QED BY <2>1, <3>1, Joined
  <2>3. front[after + 1] = x
    BY <1>5, <2>1, <2>2
  <2> QED BY <1>5, <2>2, <2>3
<1> HIDE DEF front
<1>7. listed = front \o behind
  BY <1>2 DEF front
<1>8. /\ front \o behind \in Seq(M) /\ Len(front \o behind) = Len(front) + Len(behind)
      /\ \A i \in 1 .. Len(front) : (front \o behind)[i] = front[i]
      /\ \A i \in 1 .. Len(behind) : (front \o behind)[Len(front) + i] = behind[i]
  <2>1. front \in Seq(M) /\ behind \in Seq(M)
    BY <1>5, <1>6
  <2> QED BY <2>1, Joined
<1> HIDE DEF listed
<1>9. /\ listed \in Seq(M) /\ Len(listed) = n + 1 /\ listed[after + 1] = x
      /\ \A i \in 1 .. after : listed[i] = s[i]
      /\ \A i \in after + 1 .. n : listed[i + 1] = s[i]
  <2>1. Len(listed) = n + 1 /\ after + 1 \in 1 .. Len(front) /\ \A i \in 1 .. after : i \in 1 .. Len(front)
    BY <1>1, <1>4, <1>5, <1>6, <1>7, <1>8
  <2>2. ASSUME NEW i \in after + 1 .. n PROVE listed[i + 1] = s[i]
    <3> DEFINE k == i - after
    <3>1. k \in 1 .. n - after /\ Len(front) + k = i + 1 /\ after + k = i
      BY <1>1, <1>4, <1>6
    <3> HIDE DEF k
    <3>2. k \in 1 .. Len(behind)
      BY <1>5, <3>1
    <3>3. (front \o behind)[Len(front) + k] = behind[k]
      BY <1>8, <3>2
    <3>4. behind[k] = s[after + k]
      BY <1>5, <3>1
    <3> QED BY <1>7, <3>1, <3>3, <3>4
  <2> QED BY <1>6, <1>7, <1>8, <2>1, <2>2
<1>10. ASSUME NEW i \in 1 .. after PROVE NewerFirst(s[i], x) # Greater
  <2>1. after \in 1 .. n /\ i \in 1 .. n /\ s[after] \in Tag /\ s[i] \in Tag /\ x \in Tag /\ after > 0
    BY <1>1, <1>4
  <2>2. NewerFirst(s[after], x) # Greater
    BY <1>4, <2>1, NewerFirstTurns
  <2>3. CASE i = after
    BY <2>2, <2>3
  <2>4. CASE i # after
    <3>1. i < after /\ ~ (n <= 1)
      BY <1>1, <1>4, <2>4
    <3>2. NewerFirst(s[i], s[after]) # Greater
      BY <1>1, <2>1, <3>1 DEF Newest
    <3>3. parse_tag(s[i]) /\ parse_tag(s[after]) /\ parse_tag(x)
      BY <1>1, <2>1, <3>1 DEF n
    <3> QED BY <2>1, <2>2, <3>2, <3>3, NewerFirstGoesOn
  <2> QED BY <2>3, <2>4
<1>11. ASSUME NEW i \in 1 .. n + 1, NEW j \in 1 .. n + 1, i < j PROVE NewerFirst(listed[i], listed[j]) # Greater
  <2>1. CASE j <= after
    <3>1. i \in 1 .. after /\ j \in 1 .. after /\ i \in 1 .. n /\ j \in 1 .. n
      BY <1>1, <1>4, <1>11, <2>1
    <3> QED BY <1>1, <1>9, <1>11, <3>1 DEF Newest
  <2>2. CASE j = after + 1
    <3>1. i \in 1 .. after
      BY <1>1, <1>4, <1>11, <2>2
    <3> QED BY <1>9, <1>10, <2>2, <3>1
  <2>3. CASE j > after + 1
    <3> DEFINE l == j - 1
    <3>1. l \in after + 1 .. n /\ l \in 1 .. n /\ j = l + 1
      BY <1>1, <1>4, <2>3
    <3> HIDE DEF l
    <3>2. listed[j] = s[l]
      BY <1>9, <3>1
    <3>3. CASE i <= after
      <4>1. i \in 1 .. after /\ i \in 1 .. n /\ i < l
        BY <1>1, <1>4, <3>1, <3>3
      <4> QED BY <1>1, <1>9, <3>1, <3>2, <4>1 DEF Newest
    <3>4. CASE i = after + 1
      <4>1. NewerFirst(x, s[l]) = Less
        BY <1>4, <3>1
      <4> QED BY <1>9, <3>2, <3>4, <4>1 DEF Less, Greater
    <3>5. CASE i > after + 1
      <4> DEFINE k == i - 1
      <4>1. k \in after + 1 .. n /\ k \in 1 .. n /\ i = k + 1 /\ k < l
        BY <1>1, <1>4, <1>11, <3>1, <3>5
      <4> HIDE DEF k
      <4>2. listed[i] = s[k]
        BY <1>9, <4>1
      <4> QED BY <1>1, <3>1, <3>2, <4>1, <4>2 DEF Newest
    <3> QED BY <1>1, <1>4, <3>3, <3>4, <3>5
  <2> QED BY <1>1, <1>4, <2>1, <2>2, <2>3
<1>12. Newest(listed)
  <2>1. DOMAIN listed = 1 .. n + 1
    BY <1>9
  <2> QED BY <1>11, <2>1 DEF Newest
<1> QED BY <1>9, <1>12 DEF listed, n

\* The tags of a directory compare by their versions, each with each.
Sortable(d) == Len(d) <= 2 \/ \A i \in DOMAIN d : parse_tag(d[i])

\* What has been listed after each of the first n.
LEMMA ListedInPlace ==
    ASSUME NEW d \in Seq(Tag), Sortable(d)
    PROVE  sort_by(d) \in Seq(Tag) /\ Newest(sort_by(d))
<1> DEFINE M == {d[i] : i \in DOMAIN d}
           n == Len(d)
           goes(i, was) == InsertNext(was, d[i])
           Fine(was, k) == was \in Seq(M) /\ Len(was) = k /\ Newest(was)
           Rule(f) == [i \in 0 .. n |-> IF i = 0 THEN << >> ELSE goes(i, f[i - 1])]
           sorted == CHOOSE f : f = Rule(f)
<1>n. n \in Nat /\ DOMAIN d = 1 .. n
  OBVIOUS
<1>m. M \in SUBSET Tag /\ \A i \in 1 .. n : d[i] \in M
  BY <1>n
<1>p. n <= 2 \/ \A m \in M : parse_tag(m)
  BY DEF Sortable
<1> HIDE DEF M
<1>1. ASSUME NEW i \in 1 .. n, NEW was, Fine(was, i - 1) PROVE Fine(goes(i, was), i)
  <2>1. i - 1 \in Nat /\ (i - 1) + 1 = i /\ (n <= 2 => i - 1 <= 1)
    BY <1>n
  <2>2. Len(was) <= 1 \/ \A m \in M : parse_tag(m)
    BY <1>1, <1>p, <2>1
  <2>3. was \in Seq(M) /\ d[i] \in M /\ Newest(was)
    BY <1>1, <1>m
  <2>4. InsertNext(was, d[i]) \in Seq(M) /\ Len(InsertNext(was, d[i])) = Len(was) + 1 /\ Newest(InsertNext(was, d[i]))
    BY <1>m, <2>2, <2>3, InsertedInPlace
  <2> QED BY <1>1, <2>1, <2>4
<1> HIDE DEF goes
<1>2. Fine(<< >>, 0)
  BY DEF Newest
<1> HIDE DEF Fine
<1> DEFINE next == [s \in Nat \X Seq(M) |->
                      IF s[1] + 1 \in 1 .. n /\ Fine(s[2], s[1]) THEN goes(s[1] + 1, s[2]) ELSE s[2]]
<1>3. next \in [Nat \X Seq(M) -> Seq(M)] /\ << >> \in Seq(M)
  <2>1. ASSUME NEW k \in Nat, NEW was \in Seq(M), k + 1 \in 1 .. n, Fine(was, k) PROVE goes(k + 1, was) \in Seq(M)
    <3>1. Fine(was, (k + 1) - 1)
      BY <2>1
    <3>2. Fine(goes(k + 1, was), k + 1)
      BY <1>1, <2>1, <3>1
    <3> QED BY <3>2 DEF Fine
  <2> QED BY <2>1
<1>4. PICK g : g \in Upto(n, Seq(M), << >>, next)
  <2> HIDE DEF next, n
  <2> QED BY <1>3, <1>n, UptoIsThere
<1>5. /\ g \in [0 .. n -> Seq(M)] /\ g[0] = << >>
      /\ \A k \in 0 .. n - 1 : g[k + 1] = next[<<k, g[k]>>]
  BY <1>4 DEF Upto
<1>6. ASSUME NEW k \in 0 .. n - 1, Fine(g[k], k) PROVE g[k + 1] = goes(k + 1, g[k])
  <2>1. k \in Nat /\ k + 1 \in 1 .. n /\ g[k] \in Seq(M) /\ g[k + 1] = next[<<k, g[k]>>]
    <3> HIDE DEF next, n
    <3>1. n \in Nat
      BY <1>n
    <3> QED BY <1>5, <3>1
  <2>2. <<k, g[k]>> \in Nat \X Seq(M) /\ <<k, g[k]>>[1] = k /\ <<k, g[k]>>[2] = g[k]
    BY <2>1
  <2> HIDE DEF n
  <2>3. next[<<k, g[k]>>] = goes(k + 1, g[k])
    BY <1>6, <2>1, <2>2
  <2> QED BY <2>1, <2>3
<1>7. ASSUME NEW k \in 0 .. n PROVE Fine(g[k], k)
  <2> DEFINE S == {i \in Nat : i <= n => Fine(g[i], i)}
  <2>1. 0 \in S
    BY <1>2, <1>5
  <2>2. ASSUME NEW i \in Nat, i \in S PROVE i + 1 \in S
    <3> SUFFICES ASSUME i + 1 <= n PROVE Fine(g[i + 1], i + 1)
      OBVIOUS
    <3>1. i \in 0 .. n - 1 /\ i + 1 \in 1 .. n /\ Fine(g[i], i) /\ (i + 1) - 1 = i
      BY <2>2, <1>n
    <3>2. g[i + 1] = goes(i + 1, g[i])
      BY <3>1, <1>6
    <3> QED BY <3>1, <3>2, <1>1
  <2> HIDE DEF S
  <2>3. Nat \subseteq S
    BY <2>1, <2>2, Induction, Zenon
  <2> QED BY <2>3, <1>n DEF S
<1>8. g = Rule(g)
  <2>1. ASSUME NEW i \in 0 .. n PROVE g[i] = Rule(g)[i]
    <3>1. CASE i = 0
      BY <3>1, <1>5
    <3>2. CASE i # 0
      <4>1. i - 1 \in 0 .. n - 1 /\ (i - 1) + 1 = i /\ i - 1 \in 0 .. n
        BY <3>2, <1>n
      <4>2. g[(i - 1) + 1] = goes((i - 1) + 1, g[i - 1])
        BY <1>6, <1>7, <4>1
      <4> QED BY <3>2, <4>1, <4>2
    <3> QED BY <3>1, <3>2
  <2> QED BY <2>1, <1>5
<1>9. sorted = Rule(sorted)
  <2> HIDE DEF Rule
  <2> QED BY <1>8
<1>10. sort_by(d) = sorted[n]
  BY DEF sort_by, goes
<1> HIDE DEF sorted
<1>11. sorted[0] = << >> /\ \A k \in 0 .. n - 1 : sorted[k + 1] = goes(k + 1, sorted[k])
  BY <1>9, <1>n
<1>12. Fine(sorted[n], n)
  <2> DEFINE S == {i \in Nat : i <= n => Fine(sorted[i], i)}
  <2>1. 0 \in S
    BY <1>2, <1>11
  <2>2. ASSUME NEW i \in Nat, i \in S PROVE i + 1 \in S
    <3> SUFFICES ASSUME i + 1 <= n PROVE Fine(sorted[i + 1], i + 1)
      OBVIOUS
    <3>1. i \in 0 .. n - 1 /\ i + 1 \in 1 .. n /\ Fine(sorted[i], i) /\ (i + 1) - 1 = i
      BY <2>2, <1>n
    <3> QED BY <3>1, <1>11, <1>1
  <2> HIDE DEF S
  <2>3. Nat \subseteq S
    BY <2>1, <2>2, Induction, Zenon
  <2> QED BY <2>3, <1>n DEF S
<1>13. sorted[n] \in Seq(Tag) /\ Newest(sorted[n])
  <2>1. sorted[n] \in Seq(M) /\ Newest(sorted[n])
    BY <1>12 DEF Fine
  <2>2. Seq(M) \subseteq Seq(Tag)
    BY <1>m
  <2> QED BY <2>1, <2>2
<1> QED BY <1>10, <1>13

LEMMA DirectoryCompares ==
    ASSUME directory \in Seq(Tag)
    PROVE  CompareIsTheOrder
<1> SUFFICES ASSUME NEW i \in DOMAIN directory, NEW j \in DOMAIN directory
             PROVE  LET a == directory[i] b == directory[j] width == Widest(a.parts, b.parts)
                    IN  /\ Comparable(a, b) => (order(a, b) = Less <=> KeyBelow(Key(a, width), Key(b, width)))
                        /\ Comparable(a, b) => (order(a, b) = Greater <=> KeyBelow(Key(b, width), Key(a, width)))
                        /\ Relation(a, b) \in {"newer", "older"} => Comparable(a, b) /\ Relation(a, b) # Relation(b, a)
  BY DEF CompareIsTheOrder
<1> DEFINE a == directory[i]
           b == directory[j]
           width == Widest(a.parts, b.parts)
<1>1. a \in Tag /\ b \in Tag
  OBVIOUS
<1> HIDE DEF a, b
<1>2. width \in Nat /\ Len(a.parts) <= width /\ Len(b.parts) <= width
  BY <1>1, TagFields DEF Widest
<1>3. Tells(order(a, b), Key(a, width), Key(b, width))
  <2> HIDE DEF width
  <2> QED BY <1>1, <1>2, OrderTells
<1>4. ASSUME Relation(a, b) \in {"newer", "older"} PROVE Comparable(a, b) /\ Relation(a, b) # Relation(b, a)
  <2>1. Comparable(a, b) /\ Comparable(b, a)
    BY <1>4 DEF Relation, Comparable
  <2>2. order(a, b) = Less <=> order(b, a) = Greater
    BY <1>1, OrderTurns
  <2>3. order(b, a) = Less <=> order(a, b) = Greater
    BY <1>1, OrderTurns
  <2>4. order(a, b) \in Ordering /\ order(b, a) \in Ordering
    BY <1>1, OrderTurns
  <2>5. CASE order(a, b) = Less
    <3>1. order(b, a) = Greater /\ Less # Greater /\ Greater # Equal /\ Less # Equal
      BY <2>2, <2>5 DEF Less, Greater, Equal
    <3>2. Relation(a, b) = "older" /\ Relation(b, a) = "newer"
      BY <2>1, <2>5, <3>1 DEF Relation
    <3> QED BY <2>1, <3>2
  <2>6. CASE order(a, b) = Greater
    <3>1. order(b, a) = Less /\ Less # Greater /\ Greater # Equal /\ Less # Equal
      BY <2>3, <2>6 DEF Less, Greater, Equal
    <3>2. Relation(a, b) = "newer" /\ Relation(b, a) = "older"
      BY <2>1, <2>6, <3>1 DEF Relation
    <3> QED BY <2>1, <3>2
  <2>7. CASE order(a, b) = Equal
    <3>1. Less # Equal /\ Greater # Equal
      BY DEF Less, Greater, Equal
    <3>2. Relation(a, b) = "current"
      BY <2>1, <2>7, <3>1 DEF Relation
    <3> QED BY <1>4, <3>2
  <2> QED BY <2>4, <2>5, <2>6, <2>7 DEF Ordering
<1> QED BY <1>3, <1>4 DEF Tells, a, b

Listed ==
    /\ directory \in Seq(Tag) /\ Sortable(directory)
    /\ candidates \in Seq(Tag) /\ Newest(candidates)

LEMMA ListingsAreNewestFirst ==
    ASSUME Listed
    PROVE  NewestFirst
<1> SUFFICES ASSUME NEW i \in DOMAIN candidates, NEW j \in DOMAIN candidates, i < j,
                    Comparable(candidates[i], candidates[j])
             PROVE  order(candidates[i], candidates[j]) # Less
  BY DEF NewestFirst
<1>1. candidates[i] \in Tag /\ candidates[j] \in Tag
  BY DEF Listed
<1>2. NewerFirst(candidates[i], candidates[j]) # Greater
  BY DEF Listed, Newest
<1>3. order(candidates[j], candidates[i]) # Greater
  BY <1>2 DEF NewerFirst
<1> QED BY <1>1, <1>3, OrderTurns

\* compare() is the order of the versions, for every two tags of every directory;
\* and a listing by list_local_in() has no image above a newer one, whatever it
\* was read in the order of, where the tags compare each with each or are two at
\* most.  Among three with one that is no version sort_by has no order to follow,
\* and a newer image may be listed below.
THEOREM ListingsAreOrdered ==
    ASSUME \A d \in Directory : Sortable(d)
    PROVE  tags_Spec => []TagsAreOrdered
<1>1. tags_Init => Listed
  <2> SUFFICES ASSUME tags_Init PROVE Listed
    OBVIOUS
  <2>1. directory \in Seq(Tag) /\ Sortable(directory)
    BY DirectoryAssumption DEF tags_Init
  <2>2. candidates \in Seq(Tag) /\ Newest(candidates)
    BY DEF tags_Init, Unlisted, Newest
  <2> QED BY <2>1, <2>2 DEF Listed
<1>2. Listed /\ [tags_Next]_tags_vars => Listed'
  <2> SUFFICES ASSUME Listed, [tags_Next]_tags_vars PROVE Listed'
    OBVIOUS
  <2>1. CASE list_local
    <3>1. candidates' = sort_by(directory) /\ directory' = directory
      BY <2>1 DEF list_local
    <3>2. sort_by(directory) \in Seq(Tag) /\ Newest(sort_by(directory))
      BY ListedInPlace DEF Listed
    <3> QED BY <3>1, <3>2 DEF Listed, Newest
  <2>2. CASE UNCHANGED tags_vars
    BY <2>2 DEF tags_vars, Listed, Newest
  <2> QED BY <2>1, <2>2 DEF tags_Next
<1>3. Listed => TagsAreOrdered
  <2> SUFFICES ASSUME Listed PROVE TagsAreOrdered
    OBVIOUS
  <2> QED BY ListingsAreNewestFirst, DirectoryCompares DEF TagsAreOrdered, Listed
<1> QED BY <1>1, <1>2, <1>3, PTL DEF tags_Spec
=============================================================================
