---------------------------- MODULE SdCardFiles ----------------------------
(***************************************************************************)
(* Files of the microSD card: bmcd/src/app/sdcard_files.rs (the listing    *)
(* and the one function that resolves a request's path), and the choice of *)
(* where an image comes from, create_data_transfer_in of                   *)
(* bmcd/src/api/legacy.rs.                                                 *)
(*                                                                         *)
(* A path is a sequence of names; a file system is a function from         *)
(* absolute paths to what is there: a directory, a file with a name class  *)
(* and a size, or a symbolic link to an absolute path.  A request's path   *)
(* is a sequence of names, "..", and, in front, "/" when it was written as *)
(* an absolute one.  The card may be taken out and a different one put in  *)
(* between two requests.                                                   *)
(***************************************************************************)
EXTENDS Integers, Sequences, SequencesExt, FiniteSets

CONSTANTS FileSystem,     \* the file systems to try
          RequestPath,    \* the paths requests name
          SDCARD_ROOT,    \* where the card is mounted: an absolute path
          UPGRADE_DIR_NAME,           \* the staging directory on the card
          SMALLEST_PLAUSIBLE_IMAGE,
          MaxLinks        \* links canonicalize follows before it gives up

(* What is in a file system is in a directory, under a name.               *)
ASSUME TreeAssumption == \A fs \in FileSystem :
    /\ DOMAIN fs \subseteq Seq(STRING)
    /\ <<>> \in DOMAIN fs /\ fs[<<>>].kind = "dir"
    /\ \A p \in DOMAIN fs :
         /\ fs[p].kind \in {"dir", "file", "link"}
         /\ fs[p].kind = "link" => fs[p].to \in Seq(STRING)
         /\ p # <<>> => /\ Front(p) \in DOMAIN fs /\ fs[Front(p)].kind = "dir"
                        /\ Last(p) \notin {"/", ".."}
ASSUME SdCardAssumption ==
    /\ SDCARD_ROOT \in Seq(STRING)
    /\ RequestPath \subseteq Seq(STRING)
    /\ SMALLEST_PLAUSIBLE_IMAGE \in Nat \ {0}
    /\ MaxLinks \in Nat

VARIABLES
    tree,      \* the file system as it is
    is_mounted,\* whether the card is mounted on SDCARD_ROOT
    listing,   \* the entries the last request listed, {} if it was another
    chosen     \* the image the last request chose, NoImage if it was another

card_vars == <<tree, is_mounted, listing, chosen>>

NoImage == [err |-> "none"]

card_Init ==
    /\ tree \in FileSystem
    /\ is_mounted \in BOOLEAN
    /\ listing = {}
    /\ chosen = NoImage

-----------------------------------------------------------------------------
(* Resolving a path.                                                       *)

IsOk(answer) == "ok" \in DOMAIN answer
IsLink(answer) == "to" \in DOMAIN answer

(* One name on the way: ".." is the parent of the directory reached so     *)
(* far; at a link the way begins again, at the root, with its target.      *)
look_up(fs, at, name, rest) ==
    LET next == IF name = ".." THEN SubSeq(at, 1, Len(at) - 1) ELSE Append(at, name)
    IN  IF fs[at].kind # "dir" THEN [err |-> "Io"]
        ELSE IF next \notin DOMAIN fs THEN [err |-> "NotFound"]
        ELSE IF fs[next].kind = "link" THEN [to |-> fs[next].to \o rest]
        ELSE [ok |-> next]

(* The names of a path one after the other, up to a link or an error.      *)
along(fs, at, path) ==
    LET reached[i \in 0 .. Len(path)] ==
            IF i = 0 THEN [ok |-> at]
            ELSE IF IsOk(reached[i - 1])
                 THEN look_up(fs, reached[i - 1].ok, path[i], SubSeq(path, i + 1, Len(path)))
            ELSE reached[i - 1]
    IN  reached[Len(path)]

(* fs::canonicalize: no way goes through more than so many links.          *)
canonicalize(fs, at, path, links) ==
    LET walked[n \in 0 .. links] ==
            IF n = 0 THEN along(fs, at, path)
            ELSE IF IsLink(walked[n - 1]) THEN along(fs, <<>>, walked[n - 1].to)
            ELSE walked[n - 1]
    IN  IF IsLink(walked[links]) THEN [err |-> "Io"] ELSE walked[links]

Canonical(path) == canonicalize(tree, <<>>, path, MaxLinks)

(* The mount point is a directory, where there is one.                     *)
ASSUME RootIsADirectory == \A fs \in FileSystem :
    LET root == canonicalize(fs, <<>>, SDCARD_ROOT, MaxLinks)
    IN  IsOk(root) => fs[root.ok].kind = "dir"

(* relative.trim_start_matches('/').                                       *)
trim_start(relative) ==
    IF relative # <<>> /\ Head(relative) = "/" THEN Tail(relative) ELSE relative

(* The request's path from the card's root, as the file system sees it:    *)
(* refused when it ends anywhere else than on the card.                    *)
resolve_on_card(relative) ==
    LET root    == Canonical(SDCARD_ROOT)
        trimmed == trim_start(relative)
        target  == canonicalize(tree, root.ok, trimmed, MaxLinks)
    IN  IF ~IsOk(root)
        THEN [err |-> IF root.err = "NotFound" THEN "NotMounted" ELSE "Io"]
        ELSE IF trimmed = <<>> THEN root
        ELSE IF ~IsOk(target) THEN target
        ELSE IF ~IsPrefix(root.ok, target.ok) THEN [err |-> "OutsideRoot"]
        ELSE target

(* Whether, and why not, a file can be written to a module: by its         *)
(* extension and size alone.                                               *)
judge(entry) ==
    CASE entry.kind = "dir"      -> "a directory"
      [] entry.suffix = "tpu"    -> "BMC firmware"
      [] entry.suffix = "other"  -> "not an OS image"
      [] entry.size < SMALLEST_PLAUSIBLE_IMAGE -> "too small"
      [] OTHER                   -> "flashable"

(* DirEntry::metadata does not follow a link: a link is listed as a small  *)
(* file of its own name.                                                   *)
metadata(entry) ==
    IF entry.kind = "link"
    THEN [kind |-> "file", suffix |-> entry.suffix, size |-> 0]
    ELSE entry

(* The entries of one directory; their paths are relative to the canonical *)
(* root.                                                                   *)
list(relative) ==
    LET dir  == resolve_on_card(relative)
        root == Canonical(SDCARD_ROOT).ok
        Children == {p \in DOMAIN tree : p # <<>> /\ Front(p) = dir.ok}
    IN  IF ~IsOk(dir) THEN dir
        ELSE IF tree[dir.ok].kind # "dir" THEN [err |-> "NotADirectory"]
        ELSE [ok |-> {[path  |-> SubSeq(p, Len(root) + 1, Len(p)),
                       judged |-> judge(metadata(tree[p]))] :
                        p \in {q \in Children : Last(q) # "lost+found"}}]

-----------------------------------------------------------------------------
(* Where an image comes from.                                              *)

(* A switch-like parameter: a value that is read, absent being "no", or    *)
(* one that is refused.                                                    *)
FlagValue == {"yes", "no", "other"}

flag(value) == IF value = "other" THEN [err |-> "flag"] ELSE [ok |-> value = "yes"]

is_url(file) == file # <<>> /\ Head(file) = "http:"

\* Seeded bug: the staging directory is compared with the request, not with
\* the file the request leads to.
resolve_sdcard_file_text(file) ==
    LET resolved == resolve_on_card(file)
    IN  IF ~is_mounted THEN [err |-> "NotMounted"]
        ELSE IF ~IsOk(resolved) THEN resolved
        ELSE IF tree[resolved.ok].kind # "file" THEN [err |-> "NotAFile"]
        ELSE IF file # <<>> /\ Head(file) = UPGRADE_DIR_NAME
             THEN [err |-> "staging"]
        ELSE resolved

resolve_sdcard_file(file) ==
    LET resolved == resolve_on_card(file)
        staging  == Append(Canonical(SDCARD_ROOT).ok, UPGRADE_DIR_NAME)
    IN  CASE ~is_mounted                -> [err |-> "NotMounted"]
          [] is_mounted /\ file # <<>> /\ Head(file) = "/" -> [err |-> "absolute"]
          [] OTHER ->
               IF ~IsOk(resolved) THEN resolved
               ELSE IF tree[resolved.ok].kind # "file" THEN [err |-> "NotAFile"]
               ELSE IF IsPrefix(staging, resolved.ok) THEN [err |-> "staging"]
               ELSE resolved

(* The request says which of the four sources it means: sdcard, local, a   *)
(* url, or an upload, which needs a length.                                *)
create_data_transfer_in(file, sha256, local, sdcard, length) ==
    IF sha256 = "not hex" THEN [err |-> "sha256"]
    ELSE IF ~IsOk(flag(local)) \/ ~IsOk(flag(sdcard)) THEN [err |-> "flag"]
    ELSE IF flag(sdcard).ok
         THEN IF flag(local).ok THEN [err |-> "combined"]
              ELSE IF is_url(file) THEN [err |-> "url on the card"]
              ELSE LET r == resolve_sdcard_file(file)
                   IN  IF IsOk(r) THEN [from |-> "card", path |-> r.ok] ELSE r
    ELSE IF flag(local).ok THEN [from |-> "local", path |-> file]
    ELSE IF is_url(file) THEN [from |-> "url", path |-> file]
    ELSE IF length # "number" THEN [err |-> "length"]
    ELSE [from |-> "upload", path |-> file]

-----------------------------------------------------------------------------

list_sdcard_files ==
    /\ \E relative \in RequestPath :
         listing' = LET l == list(relative)
                    IN  IF IsOk(l) THEN l.ok ELSE {}
    /\ chosen' = NoImage
    /\ UNCHANGED <<tree, is_mounted>>

(* is_mounted_or_false and the resolution are made in one request.         *)
create_data_transfer ==
    /\ \E file \in RequestPath, sha256 \in {"hex", "not hex"},
          local, sdcard \in FlagValue, length \in {"number", "none"} :
         chosen' = create_data_transfer_in(file, sha256, local, sdcard, length)
    /\ listing' = {}
    /\ UNCHANGED <<tree, is_mounted>>

(* The card is taken out or put in, perhaps another one.                   *)
CardChanges ==
    /\ tree' \in FileSystem
    /\ is_mounted' \in BOOLEAN
    /\ listing' = {}
    /\ chosen' = NoImage

card_Next == list_sdcard_files \/ create_data_transfer \/ CardChanges

card_Spec == card_Init /\ [][card_Next]_card_vars

-----------------------------------------------------------------------------

(* An image a request takes from the card is a file, is below the card's   *)
(* mount point, and is not in the staging directory an upgrade empties     *)
(* before it writes there, whatever links and ".." led to it; and every    *)
(* listed file that is offered as flashable is chosen when its listed path *)
(* is sent back, unless an upgrade owns it (resolve, list,                 *)
(* resolve_sdcard_file).                                                   *)
CardImagesAreOnTheCard ==
    /\ "from" \in DOMAIN chosen /\ chosen.from = "card" =>
         LET root == Canonical(SDCARD_ROOT).ok
         IN  /\ tree[chosen.path].kind = "file"
             /\ IsStrictPrefix(root, chosen.path)
             /\ ~IsPrefix(Append(root, UPGRADE_DIR_NAME), chosen.path)
    /\ is_mounted => \A e \in listing :
         e.judged = "flashable" /\ Head(e.path) # UPGRADE_DIR_NAME =>
           IsOk(resolve_sdcard_file(e.path))

=============================================================================
