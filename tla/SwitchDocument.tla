--------------------------- MODULE SwitchDocument ---------------------------
(***************************************************************************)
(* The switch configuration as the daemon writes it down                   *)
(* (app/switch_document.rs): ports, VLANs, the presets, and the rules that *)
(* refuse a document which would lock the operator out.                    *)
(*                                                                         *)
(* A port that is missing from the document's map is read as the default   *)
(* PortConfig everywhere the code looks one up, so `ports` is a total      *)
(* function here.  VLAN names never reach the switch: all the rules that   *)
(* look at them are the one flag `names_ok`.                               *)
(***************************************************************************)
EXTENDS Integers, FiniteSets

CONSTANTS
    Node,                  \* the module ports (node1 .. node4 on the board)
    Vid,                   \* the VLAN identifiers a request can name
    VID_MIN, VID_MAX,      \* the legal range
    FLAT_VID,              \* the one VLAN of the Flat preset
    SPLIT_MANAGEMENT_VID,  \* the two VLANs of the Split preset
    SPLIT_NODE_VID,
    NoVid                  \* `untagged: None`

ASSUME VidAssumption ==
    /\ Vid \subseteq Int
    /\ NoVid \notin Vid
    /\ {FLAT_VID, SPLIT_MANAGEMENT_VID, SPLIT_NODE_VID} \subseteq Vid \cap VID_MIN .. VID_MAX
    /\ SPLIT_MANAGEMENT_VID # SPLIT_NODE_VID
    /\ Node \cap {"bmc", "ge0", "ge1"} = {}

PortId == Node \cup {"bmc", "ge0", "ge1"}
UplinkPorts == {"ge0", "ge1"}
PortConfig == [untagged : Vid \cup {NoVid}, tagged : SUBSET Vid]
SwitchDocuments == [vlan_filtering : BOOLEAN, stp : BOOLEAN,
             ports : [PortId -> PortConfig], names_ok : BOOLEAN]

UntaggedIn(vid) == [untagged |-> vid, tagged |-> {}]
TaggedIn(vids) == [untagged |-> NoVid, tagged |-> vids]

vlans(config) == config.tagged \cup ({config.untagged} \ {NoVid})
members(doc, vid) == {p \in PortId : vid \in vlans(doc.ports[p])}
AllVlans(doc) == UNION {vlans(doc.ports[p]) : p \in PortId}

(***************************************************************************)
(* Presets.                                                                *)
(***************************************************************************)
ExpandFlat ==
    [vlan_filtering |-> FALSE, stp |-> FALSE, names_ok |-> TRUE,
     ports |-> [p \in PortId |-> UntaggedIn(FLAT_VID)]]

ExpandSplit ==
    [vlan_filtering |-> TRUE, stp |-> FALSE, names_ok |-> TRUE,
     ports |-> [p \in PortId |-> UntaggedIn(IF p \in {"bmc", "ge0"}
                                            THEN SPLIT_MANAGEMENT_VID
                                            ELSE SPLIT_NODE_VID)]]

\* The two names a Trunk is given are legal whenever its two VLANs are.
ExpandTrunk(management_vid, node_vid, redundant) ==
    LET both == TaggedIn({management_vid, node_vid})
        config(p) == CASE p = "bmc" -> UntaggedIn(management_vid)
                       [] p = "ge0" -> both
                       [] p = "ge1" -> IF redundant THEN both ELSE TaggedIn({})
                       [] OTHER     -> UntaggedIn(node_vid)
    IN  [vlan_filtering |-> TRUE, stp |-> redundant,
         names_ok |-> {management_vid, node_vid} \subseteq VID_MIN .. VID_MAX,
         ports |-> [p \in PortId |-> config(p)]]

(***************************************************************************)
(* What a document is refused for, one rule per early return of refusal(). *)
(***************************************************************************)
IllFormed(doc) ==
    \/ ~ AllVlans(doc) \subseteq VID_MIN .. VID_MAX
    \/ \E p \in PortId : doc.ports[p].untagged \in doc.ports[p].tagged
    \/ ~ doc.names_ok

LocksOut(doc) ==
    LET bmc == doc.ports["bmc"]
        with_bmc == members(doc, bmc.untagged)
    IN  \/ bmc.untagged = NoVid
        \/ bmc.tagged # {}
        \/ Cardinality(with_bmc) < 2
        \/ with_bmc \cap UplinkPorts = {}

Loops(doc) ==
    /\ ~ doc.stp
    /\ vlans(doc.ports["ge0"]) \cap vlans(doc.ports["ge1"]) # {}

\* A mutant: the loop rule is forgotten.
refusal_without_loops(doc) ==
    \/ IllFormed(doc)
    \/ doc.vlan_filtering /\ LocksOut(doc)

refusal(doc) ==
    \/ IllFormed(doc)
    \/ doc.vlan_filtering /\ (LocksOut(doc) \/ Loops(doc))

(***************************************************************************)
(* What an accepted document is warned about: the port, or for a VLAN its  *)
(* single member, and why.                                                 *)
(***************************************************************************)
warnings(doc) ==
    IF ~ doc.vlan_filtering THEN {} ELSE
    LET empty == {p \in PortId : vlans(doc.ports[p]) = {}}
        tagged_only == {p \in Node \ empty : doc.ports[p].untagged = NoVid}
        alone == {p \in PortId : \E vid \in AllVlans(doc) : members(doc, vid) = {p}}
    IN  [port : empty, why : {"carries nothing"}]
            \cup [port : tagged_only, why : {"only tagged"}]
            \cup [port : alone, why : {"talks to nobody"}]
=============================================================================
