---------------------------- MODULE SwitchTable -----------------------------
(***************************************************************************)
(* The bridge's settings, and the ones a document stands for.              *)
(*                                                                         *)
(* The BMC's own port has no netdev and gets no command, so the settings   *)
(* are those of the other ports.  A port's PVID is not kept apart from its *)
(* untagged membership: every command that sets one sets both.             *)
(***************************************************************************)
EXTENDS SwitchDocument

interface_name == PortId \ {"bmc"}

TableValue == {"on", "off", "out", "tagged", "untagged"}
TableEntry == {<<"vlan_filtering">>, <<"stp">>} \cup (interface_name \X Vid)

OnOff(flag) == IF flag THEN "on" ELSE "off"

Membership(config, vid) ==
    CASE vid = config.untagged -> "untagged"
      [] vid # config.untagged /\ vid \in config.tagged -> "tagged"
      [] OTHER -> "out"

TableOf(doc) ==
    [s \in TableEntry |->
        CASE s = <<"vlan_filtering">> -> OnOff(doc.vlan_filtering)
          [] s = <<"stp">>            -> OnOff(doc.stp)
          [] OTHER                    -> Membership(doc.ports[s[1]], s[2])]

\* A table that filters and yet lets the operator in: an uplink that shares
\* the BMC's untagged VLAN, and no pair of uplinks bridged into a loop with
\* spanning tree off.
WayIn(table, management) ==
    /\ \E up \in UplinkPorts : table[<<up, management>>] # "out"
    /\ table[<<"stp">>] = "on" \/ \A vid \in Vid :
          "out" \in {table[<<up, vid>>] : up \in UplinkPorts}
=============================================================================
