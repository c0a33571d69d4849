------------------------------- MODULE UsbBoot ------------------------------
(***************************************************************************)
(* Finding the module that is to be flashed (usb_boot.rs, topology.rs, the *)
(* two boot drivers, get_device_path of utils.rs): look at the bus until a *)
(* boot device of the node is there, make it offer its storage, look for   *)
(* that among the block devices.  On a board with a fanout hub every       *)
(* module is visible at once and is told by its port, if the device tree   *)
(* gives one; on a multiplexer the one that is routed is the only one.     *)
(*                                                                         *)
(* Two requests (a flash and a mass-storage request) may be at it at once, *)
(* modules come and go, and another request may move the multiplexer.      *)
(***************************************************************************)
EXTENDS Naturals, FiniteSets

CONSTANTS
    Module_no,          \* the node numbers
    Loader,             \* requests that look for a module
    BOOT_DEVICE_WAIT,   \* in poll intervals
    MaxPolls            \* bound of the clock, in poll intervals

ASSUME UsbAssumption == BOOT_DEVICE_WAIT \in Nat /\ MaxPolls \in Nat

Kind == {"rk", "rpi"}           \* what a module is: one backend each
Nobody_found == 0

VARIABLES
    hub,        \* the modules are behind a fanout hub
    described,  \* HubTopology::read(): the nodes whose port the device tree gives
    routed,     \* the node the multiplexer shows; none on a board with a hub
    module,     \* each module: kind, what it shows on USB, on which bus
    load,       \* each request
    moved,      \* history: the multiplexer was moved while somebody looked
    polls
usb_vars == <<hub, described, routed, module, load, moved, polls>>

No_load == [at |-> "idle", node |-> 1, found |-> Nobody_found, bus |-> 1, since |-> 0, due |-> 0,
            elsewhere |-> FALSE, opened |-> Nobody_found]

usb_Init ==
    /\ hub \in BOOLEAN
    /\ described \in SUBSET (IF hub THEN Module_no ELSE {})
    /\ routed \in (IF hub THEN {Nobody_found} ELSE Module_no)
    /\ module \in [Module_no -> [kind : Kind, shows : {"nothing"}, bus : {1}]]
    /\ load = [l \in Loader |-> No_load]
    /\ moved = FALSE /\ polls = 0

(***************************************************************************)
(* What the bus shows.                                                     *)
(***************************************************************************)
Visible(m) == hub \/ m = routed
\* Both drivers know a device by its vendor and product; a Rockchip keeps them
\* once its loader runs.
is_supported(m) ==
    \/ module[m].shows = "boot"
    \/ module[m].kind = "rk" /\ module[m].shows = "storage"
Seen == {m \in Module_no : Visible(m) /\ is_supported(m)}

\* Where a node must be: the chain of ports, never the bus, which follows the
\* speed of the device.  Without a hub in the device tree there is no expectation,
\* and none of a node that a hub does not list: the first match is taken.
node_ports(node) == {node}
expected_ports(node) == IF node \in described THEN node_ports(node) ELSE Module_no

(***************************************************************************)
(* wait_for_device.                                                        *)
(***************************************************************************)
Goes_on(l, r) == load' = [load EXCEPT ![l] = r]
Ends(l, how) == Goes_on(l, [No_load EXCEPT !.at = how])

\* The node has been powered and routed by reboot_into_usb.
find_for_node(l) ==
    /\ load[l].at = "idle"
    /\ \E node \in Module_no :
           /\ hub \/ node = routed
           /\ Goes_on(l, [No_load EXCEPT !.at = "waiting", !.node = node, !.since = polls, !.due = polls])
    /\ UNCHANGED <<hub, described, routed, module, moved, polls>>

\* Seeded bug: the first supported device there is.
look_first(l) ==
    /\ load[l].at = "waiting" /\ load[l].due <= polls
    /\ \E m \in Seen :
           Goes_on(l, [No_load EXCEPT !.at = "loading", !.node = load[l].node, !.found = m, !.bus = module[m].bus])
    /\ UNCHANGED <<hub, described, routed, module, moved, polls>>

look(l) ==
    /\ load[l].at = "waiting" /\ load[l].due <= polls
    /\ \E m \in Seen \cap expected_ports(load[l].node) :
           Goes_on(l, [No_load EXCEPT !.at = "loading", !.node = load[l].node, !.found = m, !.bus = module[m].bus])
    /\ UNCHANGED <<hub, described, routed, module, moved, polls>>

GivesUp(l) == polls + 1 > load[l].since + BOOT_DEVICE_WAIT

\* Nothing on the port, or the bus could not be listed: again in an interval, or
\* one of two errors.
Missing(l) ==
    /\ load[l].at = "waiting" /\ load[l].due <= polls
    /\ LET there == Seen \cap expected_ports(load[l].node)
       IN  \E listed \in BOOLEAN :
               /\ listed => there = {}
               /\ LET elsewhere == IF listed THEN Seen # {} ELSE load[l].elsewhere
                  IN  Goes_on(l, IF ~GivesUp(l) THEN [load[l] EXCEPT !.due = polls + 1, !.elsewhere = elsewhere]
                                 ELSE [load[l] EXCEPT !.due = polls,
                                          !.at = IF load[l].node \in described /\ elsewhere THEN "wrong port" ELSE "timeout"])
    /\ UNCHANGED <<hub, described, routed, module, moved, polls>>

\* The token is looked at before every look and during the sleep.
Cancelled(l) ==
    /\ load[l].at = "waiting"
    /\ Ends(l, "cancelled")
    /\ UNCHANGED <<hub, described, routed, module, moved, polls>>

(***************************************************************************)
(* The drivers.  Rockusb talks to the device that was found; rpiboot takes *)
(* whichever Raspberry Pi waits to be booted.                              *)
(***************************************************************************)
Maskrom(m) == module[m].shows = "boot"
OffersStorage(m) == \E bus \in {1, 2} : module' = [module EXCEPT ![m].shows = "storage", ![m].bus = bus]

download_boot(l) ==
    /\ load[l].at = "loading" /\ module[load[l].found].kind = "rk"
    /\ IF Maskrom(load[l].found) THEN OffersStorage(load[l].found)
       ELSE module[load[l].found].shows = "storage" /\ UNCHANGED module
    /\ Goes_on(l, [load[l] EXCEPT !.at = "listing"])
    /\ UNCHANGED <<hub, described, routed, moved, polls>>
load_rpi_boot(l) ==
    /\ load[l].at = "loading" /\ module[load[l].found].kind = "rpi"
    /\ \E m \in Module_no : Visible(m) /\ module[m].kind = "rpi" /\ module[m].shows = "boot" /\ OffersStorage(m)
    /\ Goes_on(l, [load[l] EXCEPT !.at = "listing"])
    /\ UNCHANGED <<hub, described, routed, moved, polls>>
DriverFails(l) ==
    /\ load[l].at = "loading"
    /\ Ends(l, "failed")
    /\ UNCHANGED <<hub, described, routed, module, moved, polls>>

\* The path of a block device goes through the bus and the port the boot device
\* was found on.
contains(l, m) == m = load[l].found /\ module[m].bus = load[l].bus
\* The block devices of the driver's vendor; of a node with a port, those on that
\* path.
Storage(l) ==
    {m \in Module_no : /\ Visible(m)
                       /\ module[m].shows = "storage"
                       /\ module[m].kind = module[load[l].found].kind
                       /\ load[l].node \in described => contains(l, m)}

\* One match, or a refusal.
get_device_path(l) ==
    /\ load[l].at = "listing"
    /\ IF Cardinality(Storage(l)) = 1
       THEN Goes_on(l, [No_load EXCEPT !.at = "open", !.node = load[l].node,
                                           !.opened = CHOOSE m \in Storage(l) : TRUE])
       ELSE Ends(l, "failed")
    /\ UNCHANGED <<hub, described, routed, module, moved, polls>>

(***************************************************************************)
(* The rest of the board.                                                  *)
(***************************************************************************)
\* A module is powered, powered off, or offers its storage after another
\* request.
Plug(m) ==
    /\ \E shows \in {"nothing", "boot", "storage"}, bus \in {1, 2} :
           /\ shows = "nothing" => bus = 1
           /\ module' = [module EXCEPT ![m].shows = shows, ![m].bus = bus]
    /\ UNCHANGED <<hub, described, routed, load, moved, polls>>
\* select_usb() for another node.
Reroute ==
    /\ ~hub
    /\ \E m \in Module_no \ {routed} : routed' = m
    /\ moved' = (moved \/ \E l \in Loader : load[l].at \in {"waiting", "loading", "listing"})
    /\ UNCHANGED <<hub, described, module, load, polls>>
PollTick ==
    /\ polls < MaxPolls
    /\ \A l \in Loader : ~(load[l].at = "waiting" /\ load[l].due <= polls)
    /\ polls' = polls + 1
    /\ UNCHANGED <<hub, described, routed, module, load, moved>>

Loads_one(l) ==
    \/ find_for_node(l) \/ look(l) \/ Missing(l) \/ Cancelled(l)
    \/ download_boot(l) \/ load_rpi_boot(l) \/ DriverFails(l) \/ get_device_path(l)
usb_Next ==
    \/ Reroute \/ PollTick
    \/ \E m \in Module_no : Plug(m)
    \/ \E l \in Loader : Loads_one(l)

usb_Spec == usb_Init /\ [][usb_Next]_usb_vars

(***************************************************************************)
(* Properties.                                                             *)
(***************************************************************************)
\* Whether a request can tell its module from another: by the port the device tree
\* gives its node, or because a multiplexer shows no other.  Behind a hub that does
\* not list the node it cannot: it takes whichever module answers first.
ToldApart(node) == node \in described \/ (~hub /\ ~moved)

\* "A flash of node 2 wrote node 1 and reported success": what is opened is the
\* storage of the node that was asked for, whatever modules come, go or change
\* bus meanwhile and whoever else looks for one - for a node whose port the device
\* tree gives, and on a multiplexer as long as nobody moves it.
OpenedIsTheNode ==
    \A l \in Loader : load[l].at = "open" /\ ToldApart(load[l].node) => load[l].opened = load[l].node

\* "A single look one second in gave up early": a request that ends without its
\* module has looked until less than an interval of BOOT_DEVICE_WAIT was left;
\* one that still looks is within it.
LooksForAsLongAsItSays ==
    \A l \in Loader :
        /\ load[l].at \in {"timeout", "wrong port"} => load[l].due = load[l].since + BOOT_DEVICE_WAIT
        /\ load[l].at = "waiting" => load[l].due <= load[l].since + BOOT_DEVICE_WAIT

\* What flashing over USB promises about the module it is for, together
\* (look, wait_for_device).
BootsTheModuleAskedFor == OpenedIsTheNode /\ LooksForAsLongAsItSays
=============================================================================
