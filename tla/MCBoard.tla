------------------------------ MODULE MCBoard -------------------------------
(***************************************************************************)
(* What the board's hardware is told: the power of the nodes and the USB   *)
(* switch, a serial console, flashing over USB, the commands that move the *)
(* Ethernet switch.  They share no variable in the code, so each is        *)
(* explored with the others at rest.                                       *)
(***************************************************************************)
EXTENDS BmcApplication, SerialConsole, UsbBoot, SwitchPlan, TLC

VARIABLE part

sum_vars == <<part, vars, serial_vars, usb_vars, plan_vars>>

-----------------------------------------------------------------------------
(* Two nodes and two requests at once: one on each node, both on one, or   *)
(* one that is on all of them.  Node 1 is flashed, node 2 is switched; a   *)
(* board comes up with all its nodes stored as off, or with node 1 on.       *)

\* No request is told from another by the task that carries it out, or by the
\* loader that looks for its module.
AnyTask == Permutations(Tasks) \cup Permutations(Loader)

MCRequests ==
    {[op |-> "power", states |-> on, mask |-> {2}] : on \in {{}, {2}}}
    \cup {[op |-> "toggle", long |-> long] : long \in BOOLEAN}
    \cup {[op |-> "usb", config |-> [node |-> 2, mode |-> m, route |-> "Bmc"]] :
              m \in {"Host", "Flash"}}
    \cup {[op |-> op, node |-> 1] : op \in {"reset", "usb_boot", "msd", "flash"}}
    \cup {[op |-> op] : op \in {"clear_usb_boot", "info"}}

-----------------------------------------------------------------------------
(* A switch with one module port and VLANs 0 .. 3, of which 1 .. 2 are     *)
(* legal.  The plan treats ports independently, so ge0 takes every legal   *)
(* configuration (and two the rules must refuse) against two of node1 and  *)
(* two of ge1; the presets are there with every pair of VLANs.             *)

MCPortOrder == <<"node1", "bmc", "ge0", "ge1">>
MCVid == 0 .. 3
Configs == {c \in [untagged : {1, 2, NoVid}, tagged : SUBSET {1, 2}] : c.untagged \notin c.tagged}
Illegal == {UntaggedIn(3), [untagged |-> 1, tagged |-> {1}]}
NodeConfigs == {UntaggedIn(1), [untagged |-> 2, tagged |-> {1}]}
MCProposed ==
    {ExpandFlat, ExpandSplit} \cup {ExpandTrunk(m, n, r) : m \in MCVid, n \in MCVid, r \in BOOLEAN}
    \cup {[vlan_filtering |-> f, stp |-> s, names_ok |-> TRUE,
            ports |-> [p \in PortId |-> CASE p = "node1" -> n
                                          [] p = "bmc" -> b
                                          [] p = "ge0" -> g
                                          [] p = "ge1" -> h]] :
           f \in BOOLEAN, s \in BOOLEAN,
           n \in NodeConfigs, g \in Configs \cup Illegal,
           b \in {UntaggedIn(1)}, h \in {UntaggedIn(1), TaggedIn({})}}

-----------------------------------------------------------------------------

SumInit ==
    /\ part \in {"nodes", "console", "usb", "switch"}
    /\ Init /\ disk.activated \in {{}} \cup (IF part = "nodes" THEN {{1}} ELSE {})
    /\ serial_Init
    /\ usb_Init
    /\ part # "usb" => ~hub /\ routed = 1 /\ \A m \in Module_no : module[m].kind = "rk"
    /\ \/ part = "switch" /\ plan_Init
       \/ /\ part # "switch"
          /\ running = << >> /\ wanted = << >> /\ todo = << >>
          /\ bridge = << >> /\ before = << >>

Rest(moving) ==
    /\ part = moving
    /\ UNCHANGED part
    /\ moving # "nodes" => UNCHANGED vars
    /\ moving # "console" => UNCHANGED serial_vars
    /\ moving # "usb" => UNCHANGED usb_vars
    /\ moving # "switch" => UNCHANGED plan_vars

SumNext ==
    \/ Rest("nodes") /\ Next
    \/ Rest("console") /\ serial_Next
    \/ Rest("usb") /\ usb_Next
    \/ Rest("switch") /\ plan_Next

SumSpec == SumInit /\ [][SumNext]_sum_vars
=============================================================================
