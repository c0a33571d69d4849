--------------------------- MODULE MCSwitchFaults ---------------------------
(***************************************************************************)
(* The switch service with everything going wrong.  A plan that fails      *)
(* half-way can leave the switch in as many states as its settings have    *)
(* subsets, so the table is coarse here: filtering, and all the VLANs at   *)
(* once.  Two commands are enough for a plan to stop between them, and for *)
(* a later plan to start from the wrong place.                             *)
(***************************************************************************)
EXTENDS SwitchService

MCDocument == {"flat", "split", "trunk"}
MCSetting == {"vlan_filtering", "vlans"}
MCValue == {"off", "on"} \cup MCDocument
MCTable == [d \in MCDocument |->
    [s \in MCSetting |-> IF s = "vlans" THEN d ELSE IF d = "flat" THEN "off" ELSE "on"]]
MCUplink == {"ge0", "ge1"}
MCWatched == [d \in MCDocument |-> IF d = "split" THEN {"ge0"} ELSE MCUplink]
=============================================================================
