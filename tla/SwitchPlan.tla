----------------------------- MODULE SwitchPlan -----------------------------
(***************************************************************************)
(* The commands that move the switch from one document to another          *)
(* (app/switch_applier.rs), run one at a time against the kernel's bridge. *)
(*                                                                         *)
(* The table of the bridge is SwitchTable's.                               *)
(***************************************************************************)
EXTENDS SwitchTable, Sequences, Functions, SwitchHardware

CONSTANTS
    PortOrder,   \* PortId::ALL, in its order
    Proposed     \* the documents the runs move between

ASSUME PortOrderAssumption ==
    /\ PortOrder \in Seq(PortId) /\ IsInjective(PortOrder)
    /\ {PortOrder[i] : i \in DOMAIN PortOrder} = PortId
\* A VLAN identifier is a u16.
ASSUME VidsAreFinite == IsFiniteSet(Vid)
ASSUME ProposedAssumption == Proposed \subseteq SwitchDocuments

VARIABLES
    running,  \* the document the plan starts from
    wanted,   \* the document the plan is for
    todo,     \* the commands not yet run
    bridge,   \* the kernel's bridge: filtering, stp and each port's VLANs
    before    \* the bridge as the plan found it
plan_vars == <<running, wanted, todo, bridge, before>>

(***************************************************************************)
(* Commands.                                                               *)
(***************************************************************************)
SetLink(option, flag) == [op |-> option, value |-> OnOff(flag)]
VlanCmd(op, port, vid) == [op |-> op, port |-> port, vid |-> vid]
OnVlans(op, port, vids) == {VlanCmd(op, port, vid) : vid \in vids}

\* Both loops go over the ports in their order. For one port the tagged VLANs
\* come before the untagged one, and VLANs come in ascending order.
Place(port) == CHOOSE i \in DOMAIN PortOrder : PortOrder[i] = port
Earlier(c, d) ==
    \/ Place(c.port) < Place(d.port)
    \/ c.port = d.port /\ c.op # "add_pvid" /\ d.op = "add_pvid"
    \/ c.port = d.port /\ c.op = d.op /\ c.vid < d.vid
InOrder(commands) ==
    [i \in 1 .. Cardinality(commands) |->
        CHOOSE c \in commands : Cardinality({d \in commands : Earlier(d, c)}) = i - 1]

Deletes(was, now) ==
    UNION {OnVlans("del", p, vlans(was.ports[p]) \ vlans(now.ports[p])) : p \in interface_name}

\* Seeded bug: a VLAN the port is in already is left as it is, tag or no tag.
Adds_new_only(was, now) ==
    UNION {LET from == was.ports[p]
               to == now.ports[p]
           IN  OnVlans("add", p, to.tagged \ vlans(from))
               \cup OnVlans("add_pvid", p, {to.untagged} \ ({NoVid} \cup vlans(from)))
           : p \in interface_name}

Adds(was, now) ==
    UNION {LET from == was.ports[p]
               to == now.ports[p]
           IN  OnVlans("add", p, to.tagged \ from.tagged)
               \cup OnVlans("add_pvid", p, {to.untagged} \ {NoVid, from.untagged})
           : p \in interface_name}

(***************************************************************************)
(* The plan.                                                               *)
(***************************************************************************)
If(condition, command) == IF condition THEN <<command>> ELSE <<>>

plan(was, now) ==
    If(was.vlan_filtering /\ ~ now.vlan_filtering, SetLink("vlan_filtering", FALSE))
    \o InOrder(Deletes(was, now))
    \o InOrder(Adds(was, now))
    \o If(~ was.vlan_filtering /\ now.vlan_filtering, SetLink("vlan_filtering", TRUE))
    \o If(was.stp # now.stp, SetLink("stp", now.stp))

(***************************************************************************)
(* What one command does to the bridge.                                    *)
(***************************************************************************)
RunCommand(table, cmd) ==
    CASE cmd.op = "vlan_filtering" -> [table EXCEPT ![<<"vlan_filtering">>] = cmd.value]
      [] cmd.op = "stp"            -> [table EXCEPT ![<<"stp">>] = cmd.value]
      [] cmd.op = "del"            -> [table EXCEPT ![<<cmd.port, cmd.vid>>] = "out"]
      [] cmd.op = "add"            -> [table EXCEPT ![<<cmd.port, cmd.vid>>] = "tagged"]
      [] cmd.op = "add_pvid"       -> [table EXCEPT ![<<cmd.port, cmd.vid>>] = "untagged"]

(***************************************************************************)
(* run_all: one command after the other.                                   *)
(***************************************************************************)
Acceptable == {doc \in Proposed : ~ refusal(doc)}

plan_Init ==
    /\ running \in Acceptable
    /\ wanted \in Acceptable
    /\ todo = plan(running, wanted)
    \* The daemon never reads the bridge back: it may be on another document
    \* than the one the daemon believes in.
    /\ bridge \in {TableOf(running), TableOf(ExpandFlat), TableOf(ExpandSplit)}
    /\ before = bridge

RunNext ==
    /\ todo # <<>>
    /\ bridge' = RunCommand(bridge, Head(todo))
    /\ todo' = Tail(todo)
    /\ UNCHANGED <<running, wanted, before>>

plan_Next == RunNext

plan_Spec == plan_Init /\ [][plan_Next]_plan_vars

(***************************************************************************)
(* Properties.                                                             *)
(***************************************************************************)

\* The plan found the bridge on the document the daemon believed in.
BeliefHeld == before = TableOf(running)

\* What plan() is for: "every command needed to move the switch from running
\* to wanted".  When the list is exhausted a bridge that was on `running` is on
\* the wanted document, on every port that can be named; a bridge that was on
\* something else has had exactly the difference written to it.
PlanWritesTheDifference ==
    todo = <<>> =>
        /\ bridge = Put(before, TableOf(running), TableOf(wanted))
        /\ BeliefHeld => bridge = TableOf(wanted)

\* "so a port moving from one untagged VLAN to another is never briefly in
\* both": at every point of the plan a port strips the tag of one VLAN at most.
NeverUntaggedInTwo ==
    BeliefHeld => \A p \in interface_name :
        Cardinality({vid \in Vid : bridge[<<p, vid>>] = "untagged"}) <= 1

\* The hazard the order is for: a bridge that filters over a table that is
\* not there drops everything.  While filtering is being turned on or off no
\* VLAN command ever runs on a filtering bridge.
NoVlanWorkWhileToggling ==
    [][ (/\ bridge' # bridge /\ BeliefHeld
         /\ running.vlan_filtering # wanted.vlan_filtering
         /\ \E s \in interface_name \X Vid : bridge'[s] # bridge[s])
        => bridge[<<"vlan_filtering">>] = "off" /\ bridge'[<<"vlan_filtering">>] = "off" ]_plan_vars

\* A document the rules let through leaves a way in while it filters - on the
\* bridge as it was left, not on the document.
LeavesAWayIn ==
    (todo = <<>> /\ BeliefHeld /\ bridge[<<"vlan_filtering">>] = "on")
        => WayIn(bridge, wanted.ports["bmc"].untagged)

\* plan() and run_all(), after every command: the document is reached, no port
\* is in two untagged VLANs on the way, and no VLAN is touched on a bridge that
\* starts or stops filtering.
PlanReachesTheDocument ==
    /\ [][ todo' # todo => PlanWritesTheDifference' /\ NeverUntaggedInTwo' ]_plan_vars
    /\ NoVlanWorkWhileToggling

\* What the rules are for (validate and the checks of put_switch): every accepted
\* document, once its plan has run, leaves a way in.
AcceptedLeavesAWayIn == [][ todo' # todo => LeavesAWayIn' ]_plan_vars
=============================================================================
