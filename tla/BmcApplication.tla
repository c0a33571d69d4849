--------------------------- MODULE BmcApplication ---------------------------
(***************************************************************************)
(* The nodes' power and the USB switch (app/bmc_application.rs and hal/),  *)
(* as the store and the hardware have them, with requests of several       *)
(* threads under way at once, the flashing of a node (flash_node of        *)
(* app/upgrade_worker.rs) and the start of the daemon.                     *)
(*                                                                         *)
(* No lock is held across a request.  A function of the code is here the   *)
(* sequence of its steps: each reads or writes the store, or touches one   *)
(* line of the hardware, and other requests run between any two.  A set of *)
(* nodes stands for a bit-field.  The power LED, the USB gadget and the    *)
(* routing of node 1 on a hub are left out.                                *)
(***************************************************************************)
EXTENDS Integers, FiniteSets, Sequences

CONSTANTS
    Nodes,        \* the node numbers, in the order of the bit-field
    Tasks,        \* the requests that can be under way at once
    Requests,     \* what they may ask for
    Board,        \* usb_bus_type(): "mux" or "hub"
    Latching,     \* the enable lines outlive the daemon
    Fault,        \* "gpio": a line may fail to be written, or read
    MaxRequests,  \* bound: requests of a behaviour
    MaxStarts     \* bound: starts of the daemon

ASSUME BoardAssumption ==
    /\ Nodes \subseteq Nat \ {0} /\ IsFiniteSet(Nodes) /\ 1 \in Nodes
    /\ Board \in {"mux", "hub"} /\ Latching \in BOOLEAN
    /\ "start" \notin Tasks

VARIABLES
    up,         \* the daemon is running
    store,      \* ACTIVATED_NODES, USB_CONFIG and NODE_INFO, in memory
    disk,       \* the store as a restart would find it
    mode,       \* the nodes whose node-power/state is enabled
    enable,     \* the nodes whose enable line is high
    usb,        \* the switch: route, node, and whether the node is host
    rpi_boot,   \* the nodes whose usbboot pin is high
    task,       \* what is left of each request, and what it has read
    apart,      \* nodes whose stored power may differ from their power, ...
    torn,       \* nodes whose power_on_time may differ from their stored power,
    usb_apart,  \* the switch may differ from USB_CONFIG: see below
    misread,    \* nodes that run, are stored as off, and that a start could not read
    requests, starts
hardware == <<mode, enable, usb, rpi_boot>>
vars == <<up, store, disk, hardware, task, apart, torn, usb_apart, misread, requests, starts>>

Off == 0
UsbConfig == [node : Nodes, mode : {"Host", "Device", "Flash"}, route : {"Bmc", "AlternativePort"}]
Flashing(node) == [node |-> node, mode |-> "Flash", route |-> "Bmc"]

ASSUME RequestsAssumption ==
    \A r \in Requests :
      /\ r.op \in {"power", "toggle", "reset", "usb", "usb_boot", "clear_usb_boot", "msd", "flash", "info"}
      /\ r.op = "power" => r.states \in SUBSET Nodes /\ r.mask \in SUBSET Nodes
      /\ r.op = "toggle" => r.long \in BOOLEAN
      /\ r.op = "usb" => r.config \in UsbConfig
      /\ r.op \in {"reset", "usb_boot", "msd", "flash"} => r.node \in Nodes

(***************************************************************************)
(* The functions of the code, as sequences of steps.                       *)
(***************************************************************************)
\* The nodes of a mask, in order.
bit_iterator(mask) ==
    [i \in 1 .. Cardinality(mask) |->
        CHOOSE node \in mask : Cardinality({m \in mask : m <= node}) = i]

set_power_node(states, mask) ==
    [k \in 1 .. 2 * Cardinality(mask) |->
        LET node == bit_iterator(mask)[(k + 1) \div 2] IN
        [do |-> IF k % 2 = 1 THEN "set_mode" ELSE "enable", node |-> node, on |-> node \in states]]

activate_slot(states, mask) ==
    << [do |-> "get_state"], [do |-> "get_infos"],
       [do |-> "update_power_on_times", states |-> states, mask |-> mask],
       [do |-> "set_state", states |-> states, mask |-> mask] >>
    \o set_power_node(states, mask)

usb_boot(states, mask) == << [do |-> "usb_boot", states |-> states, mask |-> mask] >>

configure_usb_internal(config) == << [do |-> "pins", config |-> config] >>

configure_usb(config) ==
    configure_usb_internal(config) \o << [do |-> "set_config", config |-> config] >>

reset_node(node) == set_power_node({}, {node}) \o set_power_node({node}, {node})

reboot_into_usb(node) ==
    activate_slot({}, {node})
    \o configure_usb_internal(Flashing(node))
    \o activate_slot({node}, {node})
    \o usb_boot({}, Nodes)

node_in_msd(node) == reboot_into_usb(node) \o << [do |-> "driver"] >>

\* A mutant: the USB switch is put back, the node is left on.
restore_usb(node) == usb_boot({}, {node}) \o << [do |-> "get_config"] >>

\* get_config is get_usb_mode, with configure_usb of what it returns.
restore(node) ==
    activate_slot({}, {node}) \o usb_boot({}, {node}) \o << [do |-> "get_config"] >>

flash_node(node) ==
    reboot_into_usb(node) \o << [do |-> "driver"], [do |-> "copy"] >> \o restore(node)

set_node_info == << [do |-> "get_infos"], [do |-> "set_names"] >>

toggle_power_states(long) == << [do |-> "toggle", long |-> long] >>

\* initialize_usb_mode, then initialize_power.
initialize == configure_usb(disk.config) \o << [do |-> "startup_power_state"] >>

\* api/legacy.rs: the nodes that are named, and the ones of them to be on; the
\* node, the mode and the route.
set_node_power(r) == activate_slot(r.states, r.mask)
set_usb_mode(r) == configure_usb(r.config)

Program(r) ==
    CASE r.op = "power" -> set_node_power(r)
      [] r.op = "toggle" -> toggle_power_states(r.long)
      [] r.op = "reset" -> reset_node(r.node)
      [] r.op = "usb" -> set_usb_mode(r)
      [] r.op = "usb_boot" -> usb_boot({r.node}, {r.node})
      [] r.op = "clear_usb_boot" -> usb_boot({}, Nodes)
      [] r.op = "msd" -> node_in_msd(r.node)
      [] r.op = "flash" -> flash_node(r.node)
      [] r.op = "info" -> set_node_info

(***************************************************************************)
(* What a request that is under way has still to touch.                    *)
(***************************************************************************)
Powers(s, node) ==
    \/ s.do \in {"set_mode", "enable"} /\ s.node = node
    \/ s.do = "set_state" /\ node \in s.mask
    \/ s.do \in {"toggle", "startup_power_state"}
PowerOf(todo) == {node \in Nodes : \E i \in DOMAIN todo : Powers(todo[i], node)}
UsbOf(todo) == \E i \in DOMAIN todo : todo[i].do \in {"pins", "set_config", "get_config"}

\* A node is worked on for as long as it is being flashed.
WorksOn(t) ==
    PowerOf(task[t].todo) \cup (IF task[t].todo = <<>> THEN {} ELSE {task[t].flash} \ {Off})
Settled(node) == \A t \in DOMAIN task : node \notin WorksOn(t)
Differ(A, B) == (A \ B) \cup (B \ A)

Idle == [todo |-> <<>>, undo |-> <<>>, state |-> {}, infos |-> {}, flash |-> Off]
Nobody == [t \in Tasks \cup {"start"} |-> Idle]

\* PowerController and PinController after power-on: everything is low, which
\* on the multiplexer routes node 1 to the USB-A port.
NoPower ==
    /\ mode' = {} /\ enable' = {} /\ rpi_boot' = {}
    /\ usb' = [route |-> "AlternativePort", node |-> 1, host |-> FALSE]

Init ==
    /\ up = FALSE
    /\ disk \in {[activated |-> on, since |-> on,
                  config |-> [node |-> 1, mode |-> "Device", route |-> "AlternativePort"]] :
                    on \in SUBSET Nodes}
    /\ store = disk
    /\ mode = {} /\ enable = {} /\ rpi_boot = {}
    /\ usb = [route |-> "AlternativePort", node |-> 1, host |-> FALSE]
    /\ task = Nobody
    /\ apart = {} /\ torn = {} /\ usb_apart = FALSE /\ misread = {}
    /\ requests = 0 /\ starts = 0

Ready == up /\ task["start"].todo = <<>>

\* BmcApplication::new.  The server is started when it has returned.
Start ==
    /\ ~ up
    /\ starts < MaxStarts
    /\ up' = TRUE
    /\ store' = disk
    /\ task' = [Nobody EXCEPT !["start"].todo = initialize]
    /\ apart' = {} /\ usb_apart' = FALSE
    /\ torn' = Differ(disk.since, disk.activated)
    /\ starts' = starts + 1
    /\ UNCHANGED <<disk, hardware, misread, requests>>

(***************************************************************************)
(* A request arrives: over HTTP, from the front panel, or as the worker of *)
(* a transfer.  The ghosts note what the requests themselves spoil: two    *)
(* that power the same node, or route USB, at once; a reset, which powers  *)
(* a node on that is stored as off; a node made a mass-storage device,     *)
(* which routes USB until the next request that does.                      *)
(***************************************************************************)
Request(t, r) ==
    /\ Ready
    /\ requests < MaxRequests
    /\ task[t].todo = <<>>
    /\ LET todo == Program(r)
           others == (Tasks \ {t})
           both == PowerOf(todo) \cap UNION {WorksOn(u) : u \in others}
       IN  /\ task' = [task EXCEPT ![t] = [Idle EXCEPT
                          !.todo = todo,
                          !.undo = IF r.op = "flash" THEN restore(r.node) ELSE <<>>,
                          !.flash = IF r.op = "flash" THEN r.node ELSE Off]]
           /\ apart' = apart \cup both
                        \cup (IF r.op = "reset" THEN {r.node} \ store.activated ELSE {})
           /\ torn' = torn \cup both
           /\ usb_apart' = (usb_apart \/ r.op = "msd"
                             \/ (UsbOf(todo) /\ \E u \in others : UsbOf(task[u].todo)))
    /\ requests' = requests + 1
    /\ UNCHANGED <<up, store, disk, hardware, misread, starts>>

(***************************************************************************)
(* The steps.                                                              *)
(***************************************************************************)
Doing(t, what) == task[t].todo # <<>> /\ Head(task[t].todo).do = what
step(t) == Head(task[t].todo)
Done(t) ==
    task' = [task EXCEPT ![t] =
                IF Len(task[t].todo) = 1 THEN [Idle EXCEPT !.flash = task[t].flash]
                ELSE [task[t] EXCEPT !.todo = Tail(task[t].todo)]]
Goes(t, todo) == task' = [task EXCEPT ![t].todo = todo \o Tail(@)]

get_state(t) ==
    /\ Doing(t, "get_state")
    /\ task' = [task EXCEPT ![t].todo = Tail(@), ![t].state = store.activated]
    /\ UNCHANGED <<up, store, disk, hardware, apart, torn, usb_apart, misread, requests, starts>>

get_infos(t) ==
    /\ Doing(t, "get_infos")
    /\ task' = [task EXCEPT ![t].todo = Tail(@), ![t].infos = store.since]
    /\ UNCHANGED <<up, store, disk, hardware, apart, torn, usb_apart, misread, requests, starts>>

\* power_transition: the nodes that are being switched on get a time, the ones
\* that are being switched off lose theirs.
Times(state, infos, states, mask) ==
    (infos \ ((mask \cap state) \ states)) \cup ((mask \cap states) \ state)

\* The infos of all the nodes are written back, as they were read.
update_power_on_times(t) ==
    /\ Doing(t, "update_power_on_times")
    /\ store' = [store EXCEPT
          !.since = Times(task[t].state, task[t].infos, step(t).states, step(t).mask)]
    /\ torn' = torn \cup (Differ(task[t].infos, store.since) \ step(t).mask)
    /\ Done(t)
    /\ UNCHANGED <<up, disk, hardware, apart, usb_apart, misread, requests, starts>>

\* set_node_info: names and the like change, the times are written back.
set_names(t) ==
    /\ Doing(t, "set_names")
    /\ store' = [store EXCEPT !.since = task[t].infos]
    /\ torn' = torn \cup Differ(task[t].infos, store.since)
    /\ Done(t)
    /\ UNCHANGED <<up, disk, hardware, apart, usb_apart, misread, requests, starts>>

\* A mutant: the mask is forgotten.
set_state_unmasked(t) ==
    /\ Doing(t, "set_state")
    /\ LET stale == Differ(task[t].state, store.activated) \ step(t).mask IN
       /\ store' = [store EXCEPT !.activated = step(t).states]
       /\ apart' = apart \cup stale
       /\ torn' = torn \cup stale
    /\ Done(t)
    /\ UNCHANGED <<up, disk, hardware, usb_apart, misread, requests, starts>>

\* A bit that another request has written since get_state is lost.
set_state(t) ==
    /\ Doing(t, "set_state")
    /\ LET stale == Differ(task[t].state, store.activated) \ step(t).mask IN
       /\ store' = [store EXCEPT !.activated =
             (task[t].state \ step(t).mask) \cup (step(t).states \cap step(t).mask)]
       /\ apart' = apart \cup stale
       /\ torn' = torn \cup stale
    /\ Done(t)
    /\ UNCHANGED <<up, disk, hardware, usb_apart, misread, requests, starts>>

Switched(S, s) == IF s.on THEN S \cup {s.node} ELSE S \ {s.node}

set_mode(t) ==
    /\ Doing(t, "set_mode")
    /\ mode' = Switched(mode, step(t))
    /\ Done(t)
    /\ UNCHANGED <<up, store, disk, enable, usb, rpi_boot, apart, torn, usb_apart, misread, requests, starts>>

\* A hundred milliseconds later.
set_enable(t) ==
    /\ Doing(t, "enable")
    /\ enable' = Switched(enable, step(t))
    /\ Done(t)
    /\ UNCHANGED <<up, store, disk, mode, usb, rpi_boot, apart, torn, usb_apart, misread, requests, starts>>

set_usb_boot(t) ==
    /\ Doing(t, "usb_boot")
    /\ rpi_boot' = (rpi_boot \ step(t).mask) \cup (step(t).states \cap step(t).mask)
    /\ Done(t)
    /\ UNCHANGED <<up, store, disk, mode, enable, usb, apart, torn, usb_apart, misread, requests, starts>>

(***************************************************************************)
(* configure_usb_internal.  Any mode but Flash releases every usbboot pin. *)
(* A hub has no host mode: the route has changed when it says so.          *)
(***************************************************************************)
Routed(config) ==
    IF Board = "hub" THEN [usb EXCEPT !.route = config.route]
    ELSE [route |-> config.route, node |-> config.node, host |-> config.mode = "Host"]

HostOnHub(config) == Board = "hub" /\ config.mode = "Host"

pins(t) ==
    /\ Doing(t, "pins")
    /\ ~ HostOnHub(step(t).config)
    /\ usb' = Routed(step(t).config)
    /\ rpi_boot' = IF step(t).config.mode = "Flash" THEN rpi_boot \cup {step(t).config.node} ELSE {}
    /\ Done(t)
    /\ UNCHANGED <<up, store, disk, mode, enable, apart, torn, usb_apart, misread, requests, starts>>

set_config(t) ==
    /\ Doing(t, "set_config")
    /\ store' = [store EXCEPT !.config = step(t).config]
    /\ Done(t)
    /\ UNCHANGED <<up, disk, hardware, apart, torn, usb_apart, misread, requests, starts>>

get_config(t) ==
    /\ Doing(t, "get_config")
    /\ Goes(t, configure_usb(store.config))
    /\ UNCHANGED <<up, store, disk, hardware, apart, torn, usb_apart, misread, requests, starts>>

\* load_as_block_device and load_as_stream find the node.
driver(t) ==
    /\ Doing(t, "driver")
    /\ Done(t)
    /\ UNCHANGED <<up, store, disk, hardware, apart, torn, usb_apart, misread, requests, starts>>

\* The image is written and checked, or that fails: "disregarding the result".
copy(t) ==
    /\ Doing(t, "copy")
    /\ task' = [task EXCEPT ![t].todo = Tail(@), ![t].undo = <<>>]
    /\ UNCHANGED <<up, store, disk, hardware, apart, torn, usb_apart, misread, requests, starts>>

toggle(t) ==
    /\ Doing(t, "toggle")
    /\ LET nodes == store.activated
           on == (nodes = {}) \/ (step(t).long /\ nodes # Nodes)
       IN  Goes(t, activate_slot(IF on THEN Nodes ELSE {}, Nodes))
    /\ UNCHANGED <<up, store, disk, hardware, apart, torn, usb_apart, misread, requests, starts>>

\* Lines of which one cannot be read are taken for all off: "assuming cold boot".
startup_power_state(t) ==
    /\ Doing(t, "startup_power_state")
    /\ \E live \in {enable} \cup (IF "gpio" \in Fault THEN {{}} ELSE {}) :
           /\ Goes(t, activate_slot(IF live # {} THEN live ELSE store.activated, Nodes))
           /\ misread' = IF live = enable THEN {} ELSE enable \ store.activated
    /\ UNCHANGED <<up, store, disk, hardware, apart, torn, usb_apart, requests, starts>>

(***************************************************************************)
(* A step fails: no device shows up, a line cannot be written, the board   *)
(* has no such mode.  A flash goes on with its restore; a start ends the   *)
(* daemon; any other request is over, with what it has not done undone.    *)
(***************************************************************************)
Fails(t) ==
    /\ \/ Doing(t, "driver") /\ UNCHANGED <<usb, rpi_boot>>
       \/ "gpio" \in Fault /\ (Doing(t, "set_mode") \/ Doing(t, "enable") \/ Doing(t, "pins"))
          /\ UNCHANGED <<usb, rpi_boot>>
       \/ "gpio" \in Fault /\ Doing(t, "usb_boot") /\ UNCHANGED usb
          /\ \E node \in step(t).mask : LET done == {n \in step(t).mask : n < node} IN
                rpi_boot' = (rpi_boot \ done) \cup (step(t).states \cap done)
       \/ Doing(t, "pins") /\ HostOnHub(step(t).config) /\ usb' = Routed(step(t).config)
          /\ UNCHANGED rpi_boot
    /\ up' = (t # "start")
    /\ task' = [task EXCEPT ![t] = [Idle EXCEPT
          !.todo = task[t].undo, !.flash = IF task[t].undo = <<>> THEN Off ELSE task[t].flash]]
    /\ apart' = apart \cup (PowerOf(task[t].todo) \ PowerOf(task[t].undo))
    /\ usb_apart' = (usb_apart \/ (UsbOf(task[t].todo) /\ ~ UsbOf(task[t].undo)))
    /\ UNCHANGED <<store, disk, mode, enable, torn, misread, requests, starts>>

(***************************************************************************)
(* The world: the store reaches the file (module Persistency), the daemon  *)
(* ends, the power goes.                                                   *)
(***************************************************************************)
Flush ==
    /\ up
    /\ disk # store
    /\ disk' = store
    /\ UNCHANGED <<up, store, hardware, task, apart, torn, usb_apart, misread, requests, starts>>

\* The memory is gone with the daemon; the next start reads the file.
MemoryIsGone ==
    /\ up' = FALSE
    /\ task' = Nobody
    /\ store' = disk
    /\ apart' = {} /\ torn' = {} /\ usb_apart' = FALSE /\ misread' = {}

Exit ==
    /\ up
    /\ MemoryIsGone
    /\ enable' \in {enable} \cup (IF Latching THEN {} ELSE {{}})
    /\ UNCHANGED <<disk, mode, usb, rpi_boot, requests, starts>>

PowerCycle ==
    /\ MemoryIsGone
    /\ NoPower
    /\ UNCHANGED <<disk, requests, starts>>

Step(t) ==
    \/ get_state(t) \/ get_infos(t) \/ update_power_on_times(t) \/ set_names(t) \/ set_state(t)
    \/ set_mode(t) \/ set_enable(t) \/ set_usb_boot(t) \/ pins(t) \/ set_config(t)
    \/ get_config(t) \/ driver(t) \/ copy(t) \/ toggle(t) \/ startup_power_state(t)

Next ==
    \/ Start
    \/ \E t \in Tasks, r \in Requests : Request(t, r)
    \/ \E t \in Tasks \cup {"start"} : Step(t) \/ Fails(t)
    \/ Flush \/ Exit \/ PowerCycle

Spec == Init /\ [][Next]_vars

(***************************************************************************)
(* Properties.                                                             *)
(***************************************************************************)
\* "also update the actual power state accordingly" (activate_slot), "the
\* persisted state is updated to match" (initialize_power): through requests
\* that overlap, flashes that fail and starts on a running board, a node that
\* no request is working on is stored as on just when it is on.  What spoils
\* it is in `apart` and nothing else does: a stale bit-field written back, two
\* requests on one node, a reset of a node that is off, a failing line.
StoreTellsThePower ==
    Ready => \A n \in Nodes \ apart : Settled(n) =>
        /\ n \in store.activated <=> n \in enable
        /\ n \in enable <=> n \in mode

\* A node has a power_on_time just when it is stored as on, unless two writers
\* of NODE_INFO or of the bit-field crossed, or the file was written between
\* the two.
TimesTellTheStore ==
    Ready => \A n \in Nodes \ torn : Settled(n) =>
        (n \in store.since <=> n \in store.activated)

\* USB_CONFIG is what the switch is set to whenever nobody is changing it: a
\* flash that ends, in any way, "restores the USB mode" (flash_node).
UsbFollowsTheStore ==
    (Ready /\ ~ usb_apart /\ \A t \in Tasks : ~ UsbOf(task[t].todo)) =>
        usb = Routed(store.config)

\* "A restart of the daemon, or a reboot of the BMC, must not interfere with
\* nodes that are running" (initialize_power): a start takes no node that is on,
\* but for one that is stored as off when the enable lines could not be read.
RunningNodesAreLeftAlone ==
    [][ (up /\ ~ Ready /\ up') => enable \subseteq enable' \cup misread ]_vars

\* A flash "always powers off the Node" (flash_node), unless its restore fails or
\* somebody else was switching that node.
FlashLeavesTheNodeOff ==
    [][ \A t \in Tasks :
          (task[t].flash # Off /\ task[t].todo # <<>> /\ task'[t].flash # Off
             /\ task'[t].todo = <<>>)
          => \/ task[t].flash \in apart'
             \/ task[t].flash \notin enable' /\ task[t].flash \notin store'.activated ]_vars

\* What the store says of a node that is not being worked on is so: its power,
\* since when, and the route of the USB switch.
NodesAreAsStored == StoreTellsThePower /\ TimesTellTheStore /\ UsbFollowsTheStore

\* What a start and a flash promise about the power of a node, together.
PowerIsAsPromised == RunningNodesAreLeftAlone /\ FlashLeavesTheNodeOff
=============================================================================
