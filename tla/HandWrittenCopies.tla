------------------------- MODULE HandWrittenCopies --------------------------
(***************************************************************************)
(* The copies of hand-written `interfaces` files that a confirmed address  *)
(* change replaces (app/address_service.rs: keep_a_copy_at, prune_copies): *)
(* named after the second they are made in, on a board whose clock starts  *)
(* over at every boot, and pruned by name.                                 *)
(***************************************************************************)
EXTENDS Integers, FiniteSets

CONSTANTS
    KEEP_COPIES,
    Seconds,     \* what the clock may say
    MaxFiles,    \* bound: hand-written files a behaviour replaces
    CopyFault,       \* "write": the file cannot be written once the copy is made
    NoCopy

ASSUME CopiesAssumption ==
    /\ KEEP_COPIES \in Nat \ {0} /\ Seconds \subseteq Nat /\ MaxFiles \in Nat
    /\ CopyFault \subseteq {"write"} /\ NoCopy \notin Seconds \X Nat

VARIABLES
    copies,       \* the file each name is a copy of
    file_backup,  \* Inner.file_backup
    replaced,     \* how many hand-written files have been replaced
    failed,       \* history: the last change could not be written
    latest,       \* history: the second of the last change ...
    steady        \* ... and whether each was later than the one before
copy_vars == <<copies, file_backup, replaced, failed, latest, steady>>

copies_Init ==
    /\ copies = << >> /\ file_backup = NoCopy /\ replaced = 0
    /\ failed = FALSE /\ latest = -1 /\ steady = TRUE

\* `<seconds>`, `<seconds>-1`, ...: link() refuses to replace, so the first
\* free name is taken.

free_suffix(seconds) ==
    CHOOSE n \in 0 .. Cardinality(DOMAIN copies) :
        /\ <<seconds, n>> \notin DOMAIN copies
        /\ \A m \in 0 .. n - 1 : <<seconds, m>> \in DOMAIN copies

\* Newest is by the number in the name, then by its suffix.
OlderCopy(a, b) == a[1] < b[1] \/ (a[1] = b[1] /\ a[2] < b[2])

\* The names prune_copies removes: those in excess of KEEP_COPIES, oldest
\* first, never the one just made.
\* A mutant: the copy just made is like any other.
prune_any(names, just_made) ==
    {n \in names : Cardinality({o \in names : OlderCopy(o, n)}) + KEEP_COPIES < Cardinality(names)}

prune_copies(names, just_made) ==
    {n \in names : Cardinality({o \in names : OlderCopy(o, n)}) + KEEP_COPIES < Cardinality(names)}
        \ {just_made}

Only(names, f) == [n \in names |-> f[n]]

\* A confirmed change replaces the next hand-written file; or its write fails,
\* and the copy just made is removed again.
Confirm(seconds) ==
    /\ replaced < MaxFiles
    /\ LET kept == <<seconds, free_suffix(seconds)>>
           all == [n \in DOMAIN copies \cup {kept} |-> IF n = kept THEN replaced + 1 ELSE copies[n]]
           left == DOMAIN all \ prune_copies(DOMAIN all, kept)
       IN  \/ /\ copies' = Only(left, all)
              /\ file_backup' = kept
              /\ replaced' = replaced + 1
              /\ failed' = FALSE
           \/ /\ "write" \in CopyFault
              /\ copies' = Only(left \ {kept}, all)
              /\ failed' = TRUE
              /\ UNCHANGED <<file_backup, replaced>>
    /\ latest' = seconds
    /\ steady' = (steady /\ seconds > latest)

\* The daemon starts again; the copies stay.
RestartCopies == file_backup' = NoCopy /\ UNCHANGED <<copies, replaced, failed, latest, steady>>

copies_Next == (\E seconds \in Seconds : Confirm(seconds)) \/ RestartCopies
copies_Spec == copies_Init /\ [][copies_Next]_copy_vars

(***************************************************************************)
(* Properties.                                                             *)
(***************************************************************************)
\* "Never overwritten without the copy": the file a change replaces has its
\* copy when the change is done, whatever the clock said.
TheReplacedIsThere ==
    [][ replaced' # replaced => \E n \in DOMAIN copies' : copies'[n] = replaced' ]_copy_vars

\* A copy goes only to make room among KEEP_COPIES: "a copy made earlier - on a
\* board with no clock, the same second comes round on every boot - is never
\* overwritten".
NothingGoesEarly ==
    [][ (\E n \in DOMAIN copies : n \notin DOMAIN copies' \/ copies'[n] # copies[n])
            => Cardinality(DOMAIN copies) >= KEEP_COPIES ]_copy_vars

\* The last KEEP_COPIES files that were replaced all have their copies, if the clock
\* moved on between one change and the next: a change that could not be written
\* has already cost the oldest of them. On a clock that goes back, or makes more
\* than KEEP_COPIES copies in a second, the last file but one may be the one that
\* went: newest is by name.
LatestAreKept ==
    steady => \A i \in 1 .. replaced :
                  i > replaced - KEEP_COPIES + (IF failed THEN 1 ELSE 0)
                      => \E n \in DOMAIN copies : copies[n] = i

\* What an operator wrote by hand outlives the change that replaces it, whatever
\* the clock says, and the KEEP_COPIES - 1 that follow if the clock is steady
\* (keep_a_copy_at, prune_copies).
CopiesAreKept == TheReplacedIsThere /\ NothingGoesEarly /\ []LatestAreKept
=============================================================================
