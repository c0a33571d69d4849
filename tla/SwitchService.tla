--------------------------- MODULE SwitchService ----------------------------
(***************************************************************************)
(* Changing the switch without being able to lock yourself out: the state  *)
(* machine of app/switch_change.rs, the service that runs its effects      *)
(* (app/switch_service.rs), the handlers of api/network.rs, and the world  *)
(* around them - the switch, the file, the wall clock, the uplinks and the *)
(* board's power.                                                          *)
(*                                                                         *)
(* Every operation holds the service's one mutex from its first read to    *)
(* its last write, and the commands run without yielding, so an operation  *)
(* is one step.  A refused request changes nothing: it is the absence of   *)
(* a step.  Time is kept as the age of the running window (now minus       *)
(* counting_from), which is all the code ever compares.                    *)
(***************************************************************************)
EXTENDS Integers, SwitchHardware

CONSTANTS
    Document,    \* what a request can ask for
    Flat,        \* the document the daemon assumes the board boots on
    Refused,     \* the documents refusal() rejects
    Setting,     \* the switch's settings
    Value,
    Table,       \* the settings a document stands for
    Uplink,
    Watched,     \* the uplinks in the BMC's own VLAN, per document
    NoVlan,      \* the documents that give the BMC no untagged VLAN
    Token,       \* names of changes; as many as the changes a behaviour makes
    MIN_WINDOW, MAX_WINDOW,
    Request,     \* the windows a request can ask for
    Fault,       \* what the environment may do wrong
    None

ASSUME DocumentAssumption ==
    /\ Flat \in Document
    /\ Refused \subseteq Document /\ NoVlan \subseteq Document
    /\ Table \in [Document -> [Setting -> Value]]
    /\ Watched \in [Document -> SUBSET Uplink]
ASSUME WindowAssumption ==
    /\ MIN_WINDOW \in Nat \ {0} /\ MAX_WINDOW \in Nat /\ MIN_WINDOW <= MAX_WINDOW
    /\ Request \subseteq Nat
ASSUME FaultAssumption == Fault \subseteq {"command", "write", "exit", "power", "clock"}

VARIABLES
    confirmed,    \* SwitchState.confirmed
    pending,      \* SwitchState.pending
    last_revert,  \* SwitchState.last_revert
    running,      \* Inner.running: what this daemon last put on the switch
    up,           \* the daemon is running
    file,         \* /etc/bmcd/switch.json, None when missing or unreadable
    safemode,     \* the kernel was booted with `safemode`
    switch,       \* what the switch really holds
    forwarding,   \* the uplinks that pass frames
    issued,       \* the document each token was returned for
    proved        \* the documents a confirmation was ever accepted for
state == <<confirmed, pending, last_revert, running>>
world == <<file, safemode, forwarding>>
vars == <<confirmed, pending, last_revert, running, up, file, safemode, switch,
          forwarding, issued, proved>>

Pending == [token : Token, document : Document, snapshot : Document,
            window : MIN_WINDOW .. MAX_WINDOW, counting : Int \cup {None}]
RevertRecord == [reason : {"NotConfirmed", "Requested"}, document : Document]

\* `None` is no document, no change and no table.
ASSUME NoneAssumption ==
    /\ None \notin Document \cup Token \cup Pending \cup [Setting -> Value]
    /\ None \notin [change : [Setting -> Value], back : [Setting -> Value]]

(***************************************************************************)
(* Running a plan from the document believed to be running to another: it  *)
(* succeeds, or a command fails and the switch is left part-way.           *)
(***************************************************************************)
RunAll(doc) == switch' = Put(switch, Table[running], Table[doc])

RunFails(doc) ==
    /\ "command" \in Fault
    /\ switch' \in PutPartly(switch, Table[running], Table[doc])

(***************************************************************************)
(* Start-up: load() and boot_apply().                                      *)
(***************************************************************************)
Init ==
    /\ up = FALSE
    /\ confirmed = None /\ pending = None /\ last_revert = None /\ running = Flat
    /\ file \in Document \cup {None}
    /\ safemode \in BOOLEAN
    /\ switch = Table[Flat]
    /\ forwarding = {}
    /\ issued = [t \in Token |-> None]
    /\ proved = {file} \ {None}

\* What was confirmed before is read, and nothing is applied.
load ==
    /\ confirmed' = file
    /\ pending' = None
    /\ last_revert' = None

\* It is put on the switch unless there is none or the board is in safe mode.
boot_apply ==
    \/ /\ safemode \/ file = None
       /\ running' = Flat
       /\ UNCHANGED switch
    \/ /\ ~ safemode /\ file # None
       /\ switch' = Put(switch, Table[Flat], Table[file])
       /\ running' = file
    \/ /\ ~ safemode /\ file # None
       /\ "command" \in Fault
       /\ switch' \in PutPartly(switch, Table[Flat], Table[file])
       /\ running' = Flat

\* main(): a configuration that would not apply is not fatal.
Start ==
    /\ ~ up
    /\ up' = TRUE
    /\ load
    /\ boot_apply
    /\ UNCHANGED <<world, issued, proved>>

(***************************************************************************)
(* PUT /network/switch: put_switch, SwitchService::apply,                  *)
(* SwitchState::apply.                                                     *)
(***************************************************************************)

window_in_range(window) == window \in MIN_WINDOW .. MAX_WINDOW

apply(doc, window) ==
    /\ window_in_range(window)
    /\ pending = None
    /\ \E t \in {t \in Token : issued[t] = None} :
        \/ /\ RunAll(doc)
           /\ pending' = [token |-> t, document |-> doc, snapshot |-> running,
                          window |-> window, counting |-> None]
           /\ running' = doc
           /\ issued' = [issued EXCEPT ![t] = doc]
           /\ UNCHANGED last_revert
        \* The change is dropped through revert(); what the commands did stays.
        \/ /\ RunFails(doc)
           /\ last_revert' = [reason |-> "Requested", document |-> doc]
           /\ UNCHANGED <<pending, running, issued>>
    /\ UNCHANGED <<confirmed, up, world, proved>>

\* The handler, put_switch: here a refusal is a rejection.
Apply(doc, window) ==
    /\ up
    /\ doc \notin Refused
    /\ apply(doc, window)

(***************************************************************************)
(* POST /network/switch/confirm.  A request over loopback is refused.      *)
(***************************************************************************)
expired_at(p) == p # None /\ p.counting # None /\ p.counting >= p.window

\* A mutant: the token of any change will do.
check_confirm_any(token) ==
    /\ pending # None
    /\ issued[token] # None
    /\ ~ expired_at(pending)

check_confirm(token) ==
    /\ pending # None
    /\ pending.token = token
    /\ ~ expired_at(pending)

from_the_board_itself(peer) == peer = "loopback"

confirm(token) ==
    /\ check_confirm(token)
    /\ confirmed' = pending.document
    /\ pending' = None
    /\ proved' = proved \cup {issued[token]}
    /\ \/ file' = pending.document
       \/ "write" \in Fault /\ UNCHANGED file  \* the caller gets the error
    /\ UNCHANGED <<last_revert, running, up, safemode, switch, forwarding, issued>>

\* The handler, post_confirm.
Confirm(token, peer) ==
    /\ up
    /\ ~ from_the_board_itself(peer)
    /\ confirm(token)

(***************************************************************************)
(* carry_out(): the way back.  A failure is reported or logged; nothing    *)
(* is pending any more and nothing tries again.                            *)
(***************************************************************************)
\* A mutant: the commands run, and what is running is not noted.
GoBack_unnoted(reason) ==
    /\ last_revert' = [reason |-> reason, document |-> pending.document]
    /\ pending' = None
    /\ RunAll(pending.snapshot)
    /\ UNCHANGED running
\* A mutant: it is noted, and no command runs.
GoBack_on_paper(reason) ==
    /\ last_revert' = [reason |-> reason, document |-> pending.document]
    /\ pending' = None
    /\ running' = pending.snapshot
    /\ UNCHANGED switch

GoBack(reason) ==
    /\ last_revert' = [reason |-> reason, document |-> pending.document]
    /\ pending' = None
    /\ \/ RunAll(pending.snapshot) /\ running' = pending.snapshot
       \/ RunFails(pending.snapshot) /\ UNCHANGED running

\* POST /network/switch/revert, open to loopback.
Revert ==
    /\ up
    /\ pending # None
    /\ GoBack("Requested")
    /\ UNCHANGED <<confirmed, up, world, issued, proved>>

(***************************************************************************)
(* The one-second timer: start the window when a watched uplink forwards,  *)
(* and go back when it has passed.                                         *)
(***************************************************************************)
Reachable(doc) == doc \in NoVlan \/ Watched[doc] \cap forwarding # {}

uplink_forwarding(p) == [p EXCEPT !.counting = 0]

\* A mutant: the window restarts whenever the uplink is seen forwarding.
start_window_again(p) ==
    IF p # None /\ Reachable(p.document) THEN uplink_forwarding(p) ELSE p

start_window_if_reachable(p) ==
    IF p # None /\ p.counting = None /\ Reachable(p.document)
    THEN uplink_forwarding(p)
    ELSE p

Tick ==
    /\ up
    /\ LET p == start_window_if_reachable(pending) IN
       \/ /\ ~ expired_at(p)
          /\ pending' = p
          /\ UNCHANGED <<last_revert, running, switch>>
       \/ /\ expired_at(p)
          /\ GoBack("NotConfirmed")
    /\ UNCHANGED <<confirmed, up, world, issued, proved>>

(***************************************************************************)
(* The world.                                                              *)
(***************************************************************************)
\* SystemTime moves on.  Ages past the longest window are all alike.
Second ==
    /\ pending # None /\ pending.counting # None
    /\ pending.counting < MAX_WINDOW
    /\ pending' = [pending EXCEPT !.counting = @ + 1]
    /\ UNCHANGED <<confirmed, last_revert, running, up, world, switch, issued, proved>>

\* The wall clock is stepped: a board without a clock of its own gets the time
\* from the network.
ClockStep ==
    /\ "clock" \in Fault
    /\ pending # None /\ pending.counting # None
    /\ \E age \in (0 - MAX_WINDOW) .. MAX_WINDOW :
           pending' = [pending EXCEPT !.counting = age]
    /\ UNCHANGED <<confirmed, last_revert, running, up, world, switch, issued, proved>>

UplinkChange ==
    /\ forwarding' \in SUBSET Uplink
    /\ UNCHANGED <<state, up, file, safemode, switch, issued, proved>>

\* What the daemon held in memory is gone.
Forget ==
    /\ up' = FALSE
    /\ confirmed' = None /\ pending' = None /\ last_revert' = None /\ running' = Flat

\* The daemon ends - `type=reload`, a crash, a kill - perhaps half-way through
\* the commands of an operation, and the switch keeps what it was given.
Exit ==
    /\ "exit" \in Fault
    /\ up
    /\ Forget
    /\ \/ UNCHANGED switch
       \/ /\ pending = None
          /\ \E doc \in Document \ Refused :
                 switch' \in PutPartly(switch, Table[running], Table[doc])
       \/ /\ pending # None
          /\ switch' \in PutPartly(switch, Table[running], Table[pending.snapshot])
    /\ UNCHANGED <<world, issued, proved>>

\* The board loses power or reboots: the switch comes back on its defaults.
PowerCycle ==
    /\ "power" \in Fault
    /\ Forget
    /\ switch' = Table[Flat]
    /\ forwarding' = {}
    /\ safemode' \in BOOLEAN
    /\ UNCHANGED <<file, issued, proved>>

Next ==
    \/ Start
    \/ \E doc \in Document, window \in Request : Apply(doc, window)
    \/ \E token \in Token, peer \in {"loopback", "network"} : Confirm(token, peer)
    \/ Revert
    \/ Tick
    \/ Second
    \/ ClockStep
    \/ UplinkChange
    \/ Exit
    \/ PowerCycle

Spec == Init /\ [][Next]_vars

\* tokio's interval keeps ticking and time keeps passing.  Nothing is assumed
\* of the operator, of the uplinks or of the daemon's being restarted.
FairSpec == Spec /\ WF_vars(Tick) /\ WF_vars(Second)

(***************************************************************************)
(* Invariants.                                                             *)
(***************************************************************************)
TypeOK ==
    /\ confirmed \in Document \cup {None}
    /\ pending \in Pending \cup {None}
    /\ last_revert \in RevertRecord \cup {None}
    /\ running \in Document
    /\ up \in BOOLEAN
    /\ file \in Document \cup {None}
    /\ safemode \in BOOLEAN
    /\ switch \in [Setting -> Value]
    /\ forwarding \in SUBSET Uplink
    /\ issued \in [Token -> Document \cup {None}]
    /\ proved \in SUBSET Document

\* "Only a confirmed document is ever persisted" (switch_change.rs): whatever
\* fails, what a reboot comes back to was confirmed from off the board by
\* somebody holding the token of that very change, and so was the document the
\* daemon calls confirmed.
OnlyProvedIsKept == {file, confirmed} \ {None} \subseteq proved

\* "What the board is running now" (SwitchView.running) is what the switch
\* holds, and a change on trial is what is running.
BeliefIsTheSwitch ==
    up => /\ switch = Table[running]
          /\ pending # None => running = pending.document

\* The way back of a pending change was proved once, or is what the board boots
\* on: "reverting is the safe direction: it puts back the configuration that
\* was already proved once" (api/network.rs).
WayBackIsProved == pending # None => pending.snapshot \in proved \cup {Flat}

\* With nothing pending the switch holds a document somebody proved, or Flat:
\* no unconfirmed configuration outlives its window or a power cycle.
SwitchIsProved ==
    (up /\ pending = None) => \E doc \in proved \cup {Flat} : switch = Table[doc]

(***************************************************************************)
(* Action and liveness properties.                                         *)
(***************************************************************************)
\* A window that has started ends: confirmed, reverted or run out.
StartedWindowEnds ==
    (up /\ pending # None /\ pending.counting # None) ~> (pending = None)

(***************************************************************************)
(* The promise, kept when commands do what they are told and the daemon    *)
(* lives as long as the board is powered.                                  *)
(***************************************************************************)
Promise == INSTANCE ConfirmOrRevert WITH
    Config <- {Table[doc] : doc \in Document},
    Boot   <- Table[Flat],
    live   <- switch,
    kept   <- IF file = None THEN None ELSE Table[file],
    trial  <- IF pending = None THEN None
              ELSE [change |-> Table[pending.document], back |-> Table[pending.snapshot]],
    proved <- {Table[doc] : doc \in proved}

KeepsThePromise == Promise!Spec
=============================================================================
