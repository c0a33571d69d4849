-------------------------- MODULE MCSwitchService ---------------------------
(***************************************************************************)
(* The switch service on a board with one module port and three VLANs, with  *)
(* the three presets as the documents and one document that would lock the *)
(* operator out.  The tables, the refusals and the watched uplinks are     *)
(* those the real documents have.                                          *)
(***************************************************************************)
EXTENDS SwitchService
CONSTANT NoVid

Doc == INSTANCE SwitchTable WITH
    Node <- {"node1"}, Vid <- 1 .. 3, VID_MIN <- 1, VID_MAX <- 3, FLAT_VID <- 1,
    SPLIT_MANAGEMENT_VID <- 2, SPLIT_NODE_VID <- 3

\* Flat, Split, Trunk over both uplinks, and Split with ge0 in the wrong VLAN.
Expand(name) ==
    CASE name = "flat"   -> Doc!ExpandFlat
      [] name = "split"  -> Doc!ExpandSplit
      [] name = "trunk"  -> Doc!ExpandTrunk(2, 3, TRUE)
      [] name = "lonely" -> [Doc!ExpandSplit EXCEPT !.ports["ge0"] = Doc!UntaggedIn(3)]

MCDocument == {"flat", "split", "trunk", "lonely"}
MCRefused == {d \in MCDocument : Doc!refusal(Expand(d))}
MCSetting == Doc!TableEntry
MCValue == Doc!TableValue
MCTable == [d \in MCDocument |-> Doc!TableOf(Expand(d))]
MCUplink == Doc!UplinkPorts
MCWatched ==
    [d \in MCDocument |->
        MCUplink \cap Doc!members(Expand(d), Expand(d).ports["bmc"].untagged)]
MCNoVlan == {d \in MCDocument : Expand(d).ports["bmc"].untagged = NoVid}
=============================================================================
