--------------------------- MODULE AddressService ---------------------------
(***************************************************************************)
(* Changing the board's own address without losing the board: the state    *)
(* machine of app/address_change.rs, the service that runs its effects     *)
(* (app/address_service.rs), the applier that puts an address on br0       *)
(* (app/address_applier.rs) and the handlers of api/address.rs, with the   *)
(* file, the people who edit it, the clock and the power around them.      *)
(*                                                                         *)
(* Every operation holds the service's mutex until it returns, so an       *)
(* operation is one step.  A refused request does no more than look at     *)
(* the file again: it is a View.  A board without br0 refuses every apply. *)
(* Time is the age of the pending change (now minus applied_at).           *)
(***************************************************************************)
EXTENDS Integers

CONSTANTS
    Document,    \* the documents a request can ask for
    Dhcp,        \* AddressDocument::Dhcp; every other document is static
    Refused,     \* the documents refusal() rejects
    Token,       \* names of changes; as many as the changes a behaviour makes
    MIN_WINDOW, MAX_WINDOW,
    Request,     \* the windows a request can ask for
    First,       \* the files a board may have when it is first looked at
    Edits,       \* the files a person may leave behind
    Fault,       \* what the environment may do wrong
    None

(***************************************************************************)
(* /etc/network/interfaces: who wrote it - `bmcd` is the first line's      *)
(* marker, which a person may leave in place - and the document parse()    *)
(* reads in it, None when it makes no sense of it.  A missing file reads   *)
(* as the image's own.                                                     *)
(***************************************************************************)
Ours(doc) == [by |-> "bmcd", doc |-> doc]
ByHand(doc) == [by |-> "person", doc |-> doc]
Image == [by |-> "image", doc |-> Dhcp]
Content == [by : {"bmcd", "person"}, doc : Document \cup {None}] \cup {Image}

\* A mutant: a file the daemon can read is taken for its own.
replaces_unreadable(content) == content.by = "person" /\ content.doc = None

replaces_hand_written(content) == content.by = "person"

ASSUME DocumentAssumption ==
    /\ Dhcp \in Document /\ Refused \subseteq Document
    /\ First \subseteq Content /\ Edits \subseteq Content
ASSUME WindowAssumption ==
    /\ MIN_WINDOW \in Nat \ {0} /\ MAX_WINDOW \in Nat /\ MIN_WINDOW <= MAX_WINDOW
    /\ Request \subseteq Nat
ASSUME FaultAssumption ==
    Fault \subseteq {"command", "write", "resolv", "slow", "stamp", "hook", "exit", "power",
                     "clock"}

VARIABLES
    pending,      \* AddressState.pending
    last_revert,  \* AddressState.last_revert
    running,      \* Inner.running: what this daemon last put on the bridge
    seen,         \* the file as last read: AddressState.confirmed, Inner.file
                  \* and Inner.replaces_hand_written
    changed,      \* the file's stamp is not the one last read (Inner.stamp)
    file_backup,  \* Inner.file_backup: what the last copy was a copy of
    up,           \* the daemon is running
    file,         \* /etc/network/interfaces
    copies,       \* the hand-written files a copy exists of
    live,         \* the document br0 is on; None is anything else
    resolv,       \* the document whose resolvers /etc/resolv.conf has
    issued,       \* the document each token was returned for
    proved        \* what was confirmed, or put in the file by a person
memory == <<pending, last_revert, running, seen, changed, file_backup>>
board == <<live, resolv>>
vars == <<pending, last_revert, running, seen, changed, file_backup, up, file, copies,
          live, resolv, issued, proved>>

Pending == [token : Token, document : Document, snapshot : Document,
            window : MIN_WINDOW .. MAX_WINDOW, age : Int]
RevertRecord == [reason : {"NotConfirmed", "Requested", "ApplyFailed"}, document : Document]

\* `None` is no document, no change and no file.
ASSUME NoneAssumption ==
    None \notin Document \cup Token \cup Pending \cup Content
                \cup [change : Document, back : Document]

(***************************************************************************)
(* Applier::apply: udhcpc stopped, the address flushed, then udhcpc or the *)
(* static address, its route and its resolvers.  A command that fails      *)
(* leaves no address, or an address without its resolvers.                 *)
(***************************************************************************)
PutOn(doc) ==
    /\ live' = doc
    /\ resolv' = IF doc = Dhcp THEN resolv ELSE doc

PutFails(doc) ==
    /\ "command" \in Fault
    /\ live' \in {None} \cup ({doc} \ {Dhcp})
    /\ resolv' \in {resolv, None}

\* udhcpc gets its lease, and with it the network's resolvers.
Lease ==
    /\ live = Dhcp
    /\ resolv' = Dhcp
    /\ UNCHANGED <<memory, up, file, copies, live, issued, proved>>

(***************************************************************************)
(* The boot path brings up br0 as the file says, then load() reads the     *)
(* file and repair() rewrites one that carries the marker and is not what  *)
(* this version renders for the running document.                          *)
(***************************************************************************)
boot_hook(content) == {content.doc} \cup (IF "hook" \in Fault THEN {None} ELSE {})

Init ==
    /\ up = FALSE
    /\ pending = None /\ last_revert = None /\ running = Dhcp
    /\ file \in First
    /\ seen = file /\ changed = FALSE /\ file_backup = None
    /\ copies = {}
    /\ live = file.doc
    /\ resolv \in boot_hook(file)
    /\ issued = [t \in Token |-> None]
    /\ proved = {file.doc} \ {None}

load_with(content) == IF content.doc = None THEN Dhcp ELSE content.doc

\* A mutant: the file is repaired, the resolvers are not.
repair_file(doc) ==
    /\ \/ file' = IF file.by = "bmcd" THEN Ours(doc) ELSE file
       \/ "write" \in Fault /\ UNCHANGED file
    /\ UNCHANGED resolv

repair(doc) ==
    /\ \/ file' = IF file.by = "bmcd" THEN Ours(doc) ELSE file
       \/ "write" \in Fault /\ UNCHANGED file
    /\ \/ resolv' = IF doc = Dhcp THEN resolv ELSE doc
       \/ "resolv" \in Fault /\ UNCHANGED resolv

Start ==
    /\ ~ up
    /\ up' = TRUE
    /\ pending' = None /\ last_revert' = None /\ file_backup' = None
    /\ seen' = file /\ changed' = FALSE
    /\ running' = load_with(file)
    /\ repair(load_with(file))
    /\ UNCHANGED <<copies, live, issued, proved>>

(***************************************************************************)
(* refresh(): read the file again if its stamp has moved.  GET /network/   *)
(* address does this, and so does every request that is then refused.      *)
(***************************************************************************)
\* A mutant: the file is read once, at start.
never_refresh == seen

refresh == IF changed THEN file ELSE seen

View ==
    /\ up
    /\ seen' = refresh
    /\ changed' = FALSE
    /\ UNCHANGED <<pending, last_revert, running, file_backup, up, file, copies, board,
                   issued, proved>>

(***************************************************************************)
(* PUT /network/address: put_address, AddressService::apply,               *)
(* AddressState::apply and apply_failed.                                   *)
(***************************************************************************)
apply(doc, window, replace) ==
    /\ replaces_hand_written(refresh) => replace
    /\ window \in MIN_WINDOW .. MAX_WINDOW
    /\ pending = None
    /\ seen' = refresh
    /\ changed' = FALSE
    /\ \E t \in {t \in Token : issued[t] = None} :
        \/ /\ PutOn(doc)
           /\ pending' = [token |-> t, document |-> doc, snapshot |-> running,
                          window |-> window, age |-> 0]
           /\ running' = doc
           /\ last_revert' = None
           /\ issued' = [issued EXCEPT ![t] = doc]
        \* Half an address is worse than the old one: put it back now.
        \/ /\ "command" \in Fault
           /\ \/ live' = running /\ resolv' \in (IF running = Dhcp THEN {resolv, None} ELSE {running})
              \/ PutFails(running)
           /\ last_revert' = [reason |-> "ApplyFailed", document |-> doc]
           /\ UNCHANGED <<pending, running, issued>>
    /\ UNCHANGED <<file_backup, up, file, copies, proved>>

\* The handler, put_address.
Apply(doc, window, replace) ==
    /\ up
    /\ doc \notin Refused
    /\ apply(doc, window, replace)

(***************************************************************************)
(* POST /network/address/confirm, not over loopback: check, keep a copy of *)
(* a hand-written file, write, and only then commit.                       *)
(***************************************************************************)
\* A mutant: the window counted twice.
expired_twice(p) == p.age >= 2 * p.window

expired_at(p) == p.age >= p.window

\* A mutant: any token will do.
check_confirm_any(token) == pending # None /\ ~ expired_at(pending)

check_confirm(token) ==
    /\ pending # None
    /\ pending.token = token
    /\ ~ expired_at(pending)

from_the_board_itself(peer) == peer = "loopback"

confirm(token) ==
    /\ check_confirm(token)
    /\ LET copy == replaces_hand_written(refresh) IN
       \/ /\ copies' = copies \cup (IF copy THEN {file} ELSE {})
          /\ file' = Ours(pending.document)
          /\ seen' = Ours(pending.document)
          /\ changed' = FALSE
          /\ file_backup' = IF copy THEN file ELSE file_backup
          /\ pending' = None
          /\ last_revert' = None
          /\ proved' = proved \cup {issued[token]}
       \* The copy or the write fails: the change stays pending.
       \/ /\ "write" \in Fault
          /\ seen' = refresh
          /\ changed' = FALSE
          /\ UNCHANGED <<pending, last_revert, file_backup, file, copies, proved>>
       \* The window passes while the file is written: confirm() asks the clock
       \* a second time, and refuses.
       \/ /\ "slow" \in Fault
          /\ copies' = copies \cup (IF copy THEN {file} ELSE {})
          /\ file' = Ours(pending.document)
          /\ seen' = refresh
          /\ changed' = TRUE
          /\ pending' = [pending EXCEPT !.age = pending.window]
          /\ UNCHANGED <<last_revert, file_backup, proved>>
    /\ UNCHANGED <<running, up, board, issued>>

\* The handler, post_confirm.
Confirm(token, peer) ==
    /\ up
    /\ ~ from_the_board_itself(peer)
    /\ confirm(token)

(***************************************************************************)
(* carry_out(): the way back, on request or when the window has passed.    *)
(* One that fails is not tried again.                                      *)
(***************************************************************************)
\* A mutant: the change is forgotten and the address stays.
GoBack_on_paper(reason) ==
    /\ last_revert' = [reason |-> reason, document |-> pending.document]
    /\ pending' = None
    /\ running' = pending.snapshot
    /\ UNCHANGED <<seen, changed, file_backup, up, file, copies, board, issued, proved>>

GoBack(reason) ==
    /\ last_revert' = [reason |-> reason, document |-> pending.document]
    /\ pending' = None
    /\ \/ PutOn(pending.snapshot) /\ running' = pending.snapshot
       \/ PutFails(pending.snapshot) /\ UNCHANGED running
    /\ UNCHANGED <<seen, changed, file_backup, up, file, copies, issued, proved>>

Revert ==
    /\ up
    /\ pending # None
    /\ GoBack("Requested")

Tick ==
    /\ up
    /\ pending # None
    /\ expired_at(pending)
    /\ GoBack("NotConfirmed")

(***************************************************************************)
(* The world.                                                              *)
(***************************************************************************)
\* SystemTime moves on.  Ages past the longest window are all alike.
Second ==
    /\ pending # None
    /\ pending.age < MAX_WINDOW
    /\ pending' = [pending EXCEPT !.age = @ + 1]
    /\ UNCHANGED <<last_revert, running, seen, changed, file_backup, up, file, copies,
                   board, issued, proved>>

ClockStep ==
    /\ "clock" \in Fault
    /\ pending # None
    /\ \E age \in (0 - MAX_WINDOW) .. MAX_WINDOW : pending' = [pending EXCEPT !.age = age]
    /\ UNCHANGED <<last_revert, running, seen, changed, file_backup, up, file, copies,
                   board, issued, proved>>

\* Somebody edits the file.  Its stamp moves, unless the edit falls in the same
\* clock tick as the last one and has its length, or lands behind a refresh.
Edit(content) ==
    /\ content # file
    /\ file' = content
    /\ changed' \in {TRUE} \cup (IF "stamp" \in Fault THEN {changed} ELSE {})
    /\ proved' = proved \cup ({content.doc} \ {None})
    /\ UNCHANGED <<pending, last_revert, running, seen, file_backup, up, copies, board, issued>>

\* What the daemon held in memory is gone.
Forget ==
    /\ up' = FALSE
    /\ pending' = None /\ last_revert' = None /\ running' = Dhcp
    /\ seen' = file /\ changed' = FALSE /\ file_backup' = None

\* The daemon ends, perhaps in the middle of putting an address on br0.
Exit ==
    /\ "exit" \in Fault
    /\ up
    /\ Forget
    /\ live' \in {live, None}
    /\ UNCHANGED <<file, copies, resolv, issued, proved>>

\* The board reboots, and the boot path brings br0 up as the file says.
PowerCycle ==
    /\ "power" \in Fault
    /\ Forget
    /\ live' = file.doc
    /\ resolv' \in boot_hook(file)
    /\ UNCHANGED <<file, copies, issued, proved>>

Next ==
    \/ Start
    \/ View
    \/ \E doc \in Document, window \in Request, replace \in BOOLEAN : Apply(doc, window, replace)
    \/ \E token \in Token, peer \in {"loopback", "network"} : Confirm(token, peer)
    \/ Revert
    \/ Tick
    \/ Lease
    \/ Second
    \/ ClockStep
    \/ \E content \in Edits : Edit(content)
    \/ Exit
    \/ PowerCycle

Spec == Init /\ [][Next]_vars

\* tokio's interval keeps ticking and time keeps passing; nothing is assumed of
\* the operator or of the network.
FairSpec == Spec /\ WF_vars(Tick) /\ WF_vars(Second)

(***************************************************************************)
(* Invariants.                                                             *)
(***************************************************************************)
TypeOK ==
    /\ pending \in Pending \cup {None}
    /\ last_revert \in RevertRecord \cup {None}
    /\ running \in Document
    /\ seen \in Content
    /\ changed \in BOOLEAN
    /\ file_backup \in Content \cup {None}
    /\ up \in BOOLEAN
    /\ file \in Content
    /\ copies \in SUBSET Content
    /\ live \in Document \cup {None}
    /\ resolv \in Document \cup {None}
    /\ issued \in [Token -> Document \cup {None}]
    /\ proved \in SUBSET Document

\* "Only a confirmed document is ever written to /etc/network/interfaces"
\* (address_change.rs): what a reboot comes back to was confirmed, or is what a
\* person put there.
OnlyConfirmedIsWritten == file.doc \in proved \cup {None}

\* What the daemon reports as configured - "what the file says, and therefore
\* what a reboot comes back to" - is what the file says, for as long as the
\* file's stamp has not moved.
ConfiguredIsTheFile == (up /\ ~ changed) => seen.doc = file.doc

\* With no change pending br0 is on a document that was confirmed or that a
\* person wrote: no unproved address outlives its window or a power cycle.
LiveIsProved == (up /\ pending = None) => live \in proved

\* A board on a static address resolves with that address's resolvers, whatever
\* became of the boot hook: repair() wrote them, whoever wrote the file.
StaticHasItsResolvers == (up /\ live = running /\ running # Dhcp) => resolv = running

(***************************************************************************)
(* Action and liveness properties.                                         *)
(***************************************************************************)
\* "Never overwritten without the copy": when the daemon replaces a file a
\* person wrote, a copy of that very file exists.
HandWorkIsCopied ==
    [][ (file.by = "person" /\ file' # file) =>
            file \in copies' \/ \E content \in Edits : Edit(content) ]_vars

\* "Two things, both only for a file THIS daemon wrote -- a hand-edited file is
\* never touched" (repair): a start writes the resolvers of a static address only
\* on a board whose file the daemon wrote.
RepairIsForItsOwnFile == [][ (Start /\ resolv' # resolv) => file.by = "bmcd" ]_vars

\* A change is settled: confirmed, reverted or run out, however often a
\* confirmation fails to write its file.
EveryChangeIsSettled == (up /\ pending # None) ~> (pending = None)

(***************************************************************************)
(* The promise, kept when the commands do what they are told, nobody edits *)
(* the file and the daemon lives as long as the board is powered.          *)
(***************************************************************************)
Promise == INSTANCE ConfirmOrRevert WITH
    Config <- Document,
    Boot   <- Dhcp,
    kept   <- file.doc,
    trial  <- IF pending = None THEN None
              ELSE [change |-> pending.document, back |-> pending.snapshot]

KeepsThePromise == Promise!Spec
=============================================================================
