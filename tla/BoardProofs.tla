----------------------------- MODULE BoardProofs ----------------------------
(***************************************************************************)
(* Proofs about the board's hardware: flashing over USB opens the module   *)
(* it was asked for; a fan that is held is on a step somebody asked for; a *)
(* serial console has no gaps, and ends when its client is silent; a       *)
(* document for the switch is reached by its plan and leaves a way in; and *)
(* a change is kept only when it was proved.                               *)
(***************************************************************************)
EXTENDS ConfirmOrRevert, SwitchPlan, UsbBoot, Cooling, SerialConsole,
        SequenceTheorems, FiniteSetTheorems, TLAPS

(***************************************************************************)
(* Flashing over USB.                                                      *)
(***************************************************************************)
Looking == [at : {"idle", "waiting", "loading", "listing", "open", "failed", "cancelled", "timeout", "wrong port"},
            node : Module_no \cup {1}, found : Module_no \cup {Nobody_found}, bus : {1, 2},
            since : Nat, due : Nat, elsewhere : BOOLEAN, opened : Module_no \cup {Nobody_found}]

\* The device a request goes on with is the module's: by its port if the node has
\* one, on a multiplexer because it is routed.
OfItsNode(r) ==
    /\ r.node \in described /\ r.at \in {"loading", "listing"} => r.found = r.node
    /\ ~hub /\ ~moved /\ r.at \in {"waiting", "loading", "listing"} => r.node = routed
    /\ r.at = "open" /\ ToldApart(r.node) => r.opened = r.node

\* The next look of a request that waits is not overdue, and within its wait.
InTime(r) ==
    /\ r.at = "waiting" => polls <= r.due /\ r.due <= r.since + BOOT_DEVICE_WAIT
    /\ r.at \in {"timeout", "wrong port"} => r.due = r.since + BOOT_DEVICE_WAIT

usb_TypeOK ==
    /\ polls \in Nat
    /\ module \in [Module_no -> [kind : Kind, shows : {"nothing", "boot", "storage"}, bus : {1, 2}]]
    /\ load \in [Loader -> Looking]

usb_Inv == usb_TypeOK /\ \A l \in Loader : OfItsNode(load[l]) /\ InTime(load[l])

LEMMA UsbInit == usb_Init => usb_Inv
<1> SUFFICES ASSUME usb_Init PROVE usb_Inv
  OBVIOUS
<1>1. No_load \in Looking /\ No_load.at = "idle"
  BY DEF No_load, Looking, Nobody_found
<1>2. usb_TypeOK
  BY <1>1 DEF usb_Init, usb_TypeOK
<1>3. QED
  BY <1>1, <1>2 DEF usb_Init, usb_Inv, OfItsNode, InTime

LEMMA UsbStep == usb_Inv /\ [usb_Next]_usb_vars => usb_Inv'
<1> SUFFICES ASSUME usb_Inv, [usb_Next]_usb_vars PROVE usb_Inv'
  OBVIOUS
<1>t. usb_TypeOK /\ \A l \in Loader : load[l] \in Looking /\ OfItsNode(load[l]) /\ InTime(load[l])
  BY DEF usb_Inv, usb_TypeOK
<1>p. /\ polls \in Nat /\ BOOT_DEVICE_WAIT \in Nat
      /\ \A l \in Loader : load[l].since \in Nat /\ load[l].due \in Nat
  BY <1>t, UsbAssumption DEF usb_TypeOK, Looking
<1>1. ASSUME NEW l \in Loader, NEW r \in Looking, Goes_on(l, r), OfItsNode(r), InTime(r),
             module' \in [Module_no -> [kind : Kind, shows : {"nothing", "boot", "storage"}, bus : {1, 2}]],
             UNCHANGED <<hub, described, routed, moved, polls>>
      PROVE  usb_Inv'
  <2>1. load' \in [Loader -> Looking] /\ \A k \in Loader : load'[k] = IF k = l THEN r ELSE load[k]
    BY <1>1, <1>t DEF Goes_on, usb_TypeOK
  <2>2. QED
    BY <1>1, <1>t, <2>1 DEF usb_Inv, usb_TypeOK, OfItsNode, InTime, ToldApart
<1>2. ASSUME NEW l \in Loader, find_for_node(l) PROVE usb_Inv'
  <2>1. PICK node \in Module_no :
            /\ hub \/ node = routed
            /\ Goes_on(l, [No_load EXCEPT !.at = "waiting", !.node = node, !.since = polls, !.due = polls])
    BY <1>2 DEF find_for_node
  <2> DEFINE r == [No_load EXCEPT !.at = "waiting", !.node = node, !.since = polls, !.due = polls]
  <2>2. r \in Looking
    BY <1>t DEF No_load, Looking, Nobody_found, usb_TypeOK
  <2>3. OfItsNode(r)
    BY <2>1 DEF No_load, OfItsNode
  <2>4. InTime(r)
    BY <1>p DEF No_load, InTime
  <2> HIDE DEF r
  <2>5. Goes_on(l, r)
    BY <2>1 DEF r
  <2>6. QED
    BY <1>1, <1>2, <1>t, <2>2, <2>3, <2>4, <2>5 DEF find_for_node, usb_TypeOK
<1>3. ASSUME NEW l \in Loader, look(l) PROVE usb_Inv'
  <2>1. PICK m \in Seen \cap expected_ports(load[l].node) :
            Goes_on(l, [No_load EXCEPT !.at = "loading", !.node = load[l].node, !.found = m, !.bus = module[m].bus])
    BY <1>3 DEF look
  <2> DEFINE r == [No_load EXCEPT !.at = "loading", !.node = load[l].node, !.found = m, !.bus = module[m].bus]
  <2>2. m \in Module_no /\ module[m].bus \in {1, 2} /\ (load[l].node \in described => m = load[l].node)
    BY <1>t, <2>1 DEF Seen, expected_ports, node_ports, usb_TypeOK
  <2>3. r \in Looking
    BY <1>t, <2>2 DEF No_load, Looking, Nobody_found
  <2>4. OfItsNode(r) /\ InTime(r)
    BY <1>3, <1>t, <2>2 DEF look, No_load, Looking, OfItsNode, InTime
  <2> HIDE DEF r
  <2>5. Goes_on(l, r)
    BY <2>1 DEF r
  <2>6. QED
    BY <1>1, <1>3, <1>t, <2>3, <2>4, <2>5 DEF look, usb_TypeOK
<1>4. ASSUME NEW l \in Loader, Missing(l) PROVE usb_Inv'
  <2>1. PICK elsewhere \in BOOLEAN :
            Goes_on(l, IF ~GivesUp(l) THEN [load[l] EXCEPT !.due = polls + 1, !.elsewhere = elsewhere]
                       ELSE [load[l] EXCEPT !.due = polls,
                                !.at = IF load[l].node \in described /\ elsewhere THEN "wrong port" ELSE "timeout"])
    <3>1. PICK listed \in BOOLEAN :
            LET elsewhere == IF listed THEN Seen # {} ELSE load[l].elsewhere
            IN  Goes_on(l, IF ~GivesUp(l) THEN [load[l] EXCEPT !.due = polls + 1, !.elsewhere = elsewhere]
                       ELSE [load[l] EXCEPT !.due = polls,
                                !.at = IF load[l].node \in described /\ elsewhere THEN "wrong port" ELSE "timeout"])
      BY <1>4 DEF Missing
    <3>2. (IF listed THEN Seen # {} ELSE load[l].elsewhere) \in BOOLEAN
      BY <1>t DEF Looking
    <3>3. QED
      BY <3>1, <3>2
  <2>2. load[l].at = "waiting" /\ load[l].due = polls
    <3>1. load[l].at = "waiting" /\ load[l].due <= polls /\ InTime(load[l])
      BY <1>4, <1>t DEF Missing
    <3>2. QED
      BY <1>p, <3>1 DEF InTime
  <2>3. CASE ~GivesUp(l)
    <3> DEFINE r == [load[l] EXCEPT !.due = polls + 1, !.elsewhere = elsewhere]
    <3>1. r \in Looking
      <4>1. polls + 1 \in Nat
        BY <1>p
      <4>2. QED
        BY <1>t, <4>1 DEF Looking
    <3>2. OfItsNode(r)
      BY <1>t DEF Looking, OfItsNode
    <3>3. InTime(r)
      <4>1. r.at = "waiting" /\ r.due = polls + 1 /\ r.since = load[l].since
        BY <1>t, <2>2 DEF Looking
      <4> HIDE DEF r
      <4>2. QED
        BY <1>p, <2>3, <4>1 DEF InTime, GivesUp
    <3> HIDE DEF r
    <3>4. Goes_on(l, r)
      BY <2>1, <2>3 DEF r
    <3>5. QED
      BY <1>1, <1>4, <1>t, <3>1, <3>2, <3>3, <3>4 DEF Missing, usb_TypeOK
  <2>4. CASE GivesUp(l)
    <3> DEFINE how == IF load[l].node \in described /\ elsewhere THEN "wrong port" ELSE "timeout"
               r == [load[l] EXCEPT !.due = polls, !.at = how]
    <3>1. how \in {"wrong port", "timeout"}
      OBVIOUS
    <3> HIDE DEF how
    <3>2. r \in Looking
      BY <1>t, <3>1 DEF Looking, usb_TypeOK
    <3>3. OfItsNode(r)
      BY <1>t, <3>1 DEF Looking, OfItsNode
    <3>4. InTime(r)
      <4>1. r.at = how /\ r.due = polls /\ r.since = load[l].since
        BY <1>t DEF Looking
      <4>2. polls <= load[l].since + BOOT_DEVICE_WAIT
        BY <1>t, <2>2 DEF InTime
      <4> HIDE DEF r
      <4>3. QED
        <5>1. load[l].since + BOOT_DEVICE_WAIT = polls
          BY <1>p, <2>4, <4>2 DEF GivesUp
        <5>2. r.at # "waiting" /\ r.due = r.since + BOOT_DEVICE_WAIT
          BY <3>1, <4>1, <5>1
        <5>3. QED
          BY <5>2 DEF InTime
    <3> HIDE DEF r
    <3>5. Goes_on(l, r)
      BY <2>1, <2>4 DEF r, how
    <3>6. QED
      BY <1>1, <1>4, <1>t, <3>2, <3>3, <3>4, <3>5 DEF Missing, usb_TypeOK
  <2>5. QED
    BY <2>3, <2>4
\* A request that ends otherwise, or only goes on to list the block devices.
<1>5. ASSUME NEW l \in Loader, NEW how \in {"cancelled", "failed"}, Ends(l, how),
             UNCHANGED <<hub, described, routed, module, moved, polls>>
      PROVE  usb_Inv'
  <2> DEFINE r == [No_load EXCEPT !.at = how]
  <2>1. r \in Looking
    BY DEF No_load, Looking, Nobody_found
  <2>2. OfItsNode(r) /\ InTime(r)
    BY DEF No_load, OfItsNode, InTime
  <2> HIDE DEF r
  <2>3. Goes_on(l, r)
    BY <1>5 DEF Ends, r
  <2>4. QED
    BY <1>1, <1>5, <1>t, <2>1, <2>2, <2>3 DEF usb_TypeOK
<1>6. ASSUME NEW m \in Module_no, OffersStorage(m)
      PROVE  module' \in [Module_no -> [kind : Kind, shows : {"nothing", "boot", "storage"}, bus : {1, 2}]]
  BY <1>6, <1>t DEF OffersStorage, usb_TypeOK
<1>7. ASSUME NEW l \in Loader, load[l].at = "loading", Goes_on(l, [load[l] EXCEPT !.at = "listing"]),
             module' \in [Module_no -> [kind : Kind, shows : {"nothing", "boot", "storage"}, bus : {1, 2}]],
             UNCHANGED <<hub, described, routed, moved, polls>>
      PROVE  usb_Inv'
  <2> DEFINE r == [load[l] EXCEPT !.at = "listing"]
  <2>1. r \in Looking
    BY <1>t DEF Looking
  <2>2. OfItsNode(r) /\ InTime(r)
    BY <1>7, <1>t DEF Looking, OfItsNode, InTime
  <2> HIDE DEF r
  <2>3. Goes_on(l, r)
    BY <1>7 DEF r
  <2>4. QED
    BY <1>1, <1>7, <2>1, <2>2, <2>3
<1>8. ASSUME NEW l \in Loader, Cancelled(l) PROVE usb_Inv'
  BY <1>5, <1>8 DEF Cancelled
<1>9. ASSUME NEW l \in Loader, download_boot(l) PROVE usb_Inv'
  <2>1. CASE OffersStorage(load[l].found) /\ load[l].found \in Module_no
    BY <1>6, <1>7, <1>9, <2>1 DEF download_boot
  <2>2. CASE UNCHANGED module
    BY <1>7, <1>9, <1>t, <2>2 DEF download_boot, usb_TypeOK
  <2>3. CASE OffersStorage(load[l].found) /\ load[l].found \notin Module_no
    <3>1. module' = module
      BY <1>t, <2>3 DEF OffersStorage, usb_TypeOK
    <3>2. QED
      BY <2>2, <3>1
  <2>4. QED
    BY <1>9, <2>1, <2>2, <2>3 DEF download_boot
<1>10. ASSUME NEW l \in Loader, load_rpi_boot(l) PROVE usb_Inv'
  BY <1>6, <1>7, <1>10 DEF load_rpi_boot
<1>11. ASSUME NEW l \in Loader, DriverFails(l) PROVE usb_Inv'
  BY <1>5, <1>11 DEF DriverFails
\* The one block device that is on the path is the module's.
<1>12. ASSUME NEW l \in Loader, get_device_path(l) PROVE usb_Inv'
  <2>1. CASE Cardinality(Storage(l)) = 1
    <3>1. Storage(l) # {}
      BY <2>1, FS_EmptySet
    <3>2. PICK m \in Storage(l) : Goes_on(l, [No_load EXCEPT !.at = "open", !.node = load[l].node, !.opened = m])
      BY <1>12, <2>1, <3>1 DEF get_device_path
    <3> DEFINE r == [No_load EXCEPT !.at = "open", !.node = load[l].node, !.opened = m]
    <3>3. m \in Module_no /\ Visible(m) /\ (load[l].node \in described => m = load[l].found)
      BY <3>2 DEF Storage, contains
    <3>4. ToldApart(load[l].node) => m = load[l].node
      BY <1>12, <1>t, <3>3 DEF get_device_path, OfItsNode, Visible, ToldApart
    <3>5. r \in Looking
      BY <1>t, <3>3 DEF No_load, Looking, Nobody_found
    <3>6. OfItsNode(r) /\ InTime(r)
      BY <1>t, <3>4 DEF No_load, Looking, OfItsNode, InTime
    <3> HIDE DEF r
    <3>7. Goes_on(l, r)
      BY <3>2 DEF r
    <3>8. QED
      BY <1>1, <1>12, <1>t, <3>5, <3>6, <3>7 DEF get_device_path, usb_TypeOK
  <2>2. CASE Ends(l, "failed")
    BY <1>5, <1>12, <2>2 DEF get_device_path
  <2>3. QED
    BY <1>12, <2>1, <2>2 DEF get_device_path
<1>13. ASSUME NEW m \in Module_no, Plug(m) PROVE usb_Inv'
  <2>1. module' \in [Module_no -> [kind : Kind, shows : {"nothing", "boot", "storage"}, bus : {1, 2}]]
    BY <1>13, <1>t DEF Plug, usb_TypeOK
  <2>2. UNCHANGED <<hub, described, routed, load, moved, polls>>
    BY <1>13 DEF Plug
  <2>3. QED
    BY <1>t, <2>1, <2>2 DEF usb_Inv, usb_TypeOK, OfItsNode, InTime, ToldApart
<1>14. CASE Reroute
  <2>1. /\ UNCHANGED <<hub, described, module, load, polls>> /\ moved' \in BOOLEAN
        /\ moved => moved'
        /\ ~moved' => \A l \in Loader : load[l].at \notin {"waiting", "loading", "listing"}
    BY <1>14 DEF Reroute
  <2>2. QED
    BY <1>t, <2>1 DEF usb_Inv, usb_TypeOK, OfItsNode, InTime, ToldApart
<1>15. CASE PollTick
  <2>1. /\ UNCHANGED <<hub, described, routed, module, load, moved>> /\ polls' = polls + 1
        /\ \A l \in Loader : load[l].at = "waiting" => ~(load[l].due <= polls)
    BY <1>15 DEF PollTick
  <2>2. ASSUME NEW l \in Loader PROVE InTime(load[l])'
    <3>1. load[l].at = "waiting" => polls + 1 <= load[l].due
      BY <1>p, <2>1
    <3>2. load'[l] = load[l] /\ InTime(load[l])
      BY <1>t, <2>1
    <3>3. QED
      BY <2>1, <3>1, <3>2 DEF InTime
  <2>3. QED
    <3>1. usb_TypeOK'
      BY <1>p, <1>t, <2>1 DEF usb_TypeOK
    <3>2. \A l \in Loader : OfItsNode(load[l])'
      BY <1>t, <2>1 DEF OfItsNode, ToldApart
    <3>3. QED
      BY <2>2, <3>1, <3>2 DEF usb_Inv
<1>16. CASE UNCHANGED usb_vars
  BY <1>16, <1>t DEF usb_vars, usb_Inv, usb_TypeOK, OfItsNode, InTime, ToldApart
<1>17. QED
  BY <1>2, <1>3, <1>4, <1>8, <1>9, <1>10, <1>11, <1>12, <1>13, <1>14, <1>15, <1>16
     DEF usb_Next, Loads_one

\* Whatever modules come, go or change bus, and whoever else looks: what a
\* request opens is the storage of the node it was made for, if the device tree
\* gives that node's port, or if nobody moves the multiplexer under it; and none
\* gives up early, or late.
THEOREM OpensTheModule == usb_Spec => []BootsTheModuleAskedFor
<1>1. usb_Inv => BootsTheModuleAskedFor
  BY DEF usb_Inv, OfItsNode, InTime, BootsTheModuleAskedFor, OpenedIsTheNode, LooksForAsLongAsItSays
<1>2. QED
  BY UsbInit, UsbStep, <1>1, PTL DEF usb_Spec

(***************************************************************************)
(* The fan.                                                                *)
(***************************************************************************)
Under == [at : {"idle", "pausing", "setting", "undoing"}, step : FanStep]

cool_TypeOK ==
    /\ bound \in BOOLEAN /\ stuck \in BOOLEAN
    /\ mode \in {"enabled", "disabled"}
    /\ life \in {"down", "starting", "up"}
    /\ request \in [Requester -> Under]

\* Who will set the step, or resume the governor, before the fan is left alone.
ToSettle == \E c \in Requester : request[c].at \in {"setting", "undoing"}

cool_Inv ==
    /\ cool_TypeOK
    /\ life # "up" => \A c \in Requester : request[c].at = "idle"
    /\ ~bound => mode = "enabled" /\ \A c \in Requester : request[c].at = "idle"
    /\ life = "starting" /\ ~stuck => mode = "enabled"
    /\ life = "up" /\ ~stuck /\ mode = "disabled" => fan_step \in asked_steps \/ ToSettle

LEMMA CoolInit == cool_Init => cool_Inv
<1> SUFFICES ASSUME cool_Init PROVE cool_Inv
  OBVIOUS
<1>1. No_call \in Under /\ No_call.at = "idle"
  BY CoolingAssumption DEF No_call, Under, FanStep
<1>2. QED
  BY <1>1 DEF cool_Init, cool_Inv, cool_TypeOK

LEMMA CoolStep == cool_Inv /\ [cool_Next]_cool_vars => cool_Inv'
<1> SUFFICES ASSUME cool_Inv, [cool_Next]_cool_vars PROVE cool_Inv'
  OBVIOUS
<1>i. No_call \in Under /\ No_call.at = "idle"
  BY CoolingAssumption DEF No_call, Under, FanStep
<1>t. cool_TypeOK /\ \A c \in Requester : request[c] \in Under
  BY DEF cool_Inv, cool_TypeOK
\* A step of one request on a board that is up and whose fan is bound.
<1>1. ASSUME NEW c \in Requester, NEW r \in Under, request' = [request EXCEPT ![c] = r],
             life = "up", bound, UNCHANGED <<bound, life>>, mode' \in {"enabled", "disabled"},
             stuck' \in BOOLEAN,
             \/ mode' = "enabled" \/ stuck'
             \/ r.at \in {"setting", "undoing"}
             \/ fan_step' \in asked_steps'
             \/ /\ UNCHANGED <<mode, stuck, fan_step, asked_steps>>
                /\ request[c].at \notin {"setting", "undoing"}
      PROVE  cool_Inv'
  <2>1. request' \in [Requester -> Under] /\ \A d \in Requester : request'[d] = IF d = c THEN r ELSE request[d]
    BY <1>1, <1>t DEF cool_TypeOK
  <2>2. cool_TypeOK'
    BY <1>1, <1>t, <2>1 DEF cool_TypeOK
  <2>3. mode' = "disabled" /\ ~stuck' => (fan_step \in asked_steps \/ ToSettle)'
    <3>1. CASE r.at \in {"setting", "undoing"}
      BY <2>1, <3>1 DEF ToSettle
    <3>2. CASE UNCHANGED <<mode, stuck, fan_step, asked_steps>> /\ request[c].at \notin {"setting", "undoing"}
      <4>1. ToSettle => ToSettle'
        BY <2>1, <3>2 DEF ToSettle
      <4>2. QED
        BY <1>1, <3>2, <4>1 DEF cool_Inv
    <3>3. QED
      BY <1>1, <3>1, <3>2
  <2>4. QED
    BY <1>1, <2>2, <2>3 DEF cool_Inv
\* Whoever is not idle is on a board that is up, about a fan that is bound.
<1>2. ASSUME NEW c \in Requester, request[c].at # "idle" PROVE life = "up" /\ bound
  BY <1>2, <1>t DEF cool_Inv, cool_TypeOK
<1>3. ASSUME NEW c \in Requester, NEW where \in {"pausing", "setting", "undoing"}, NEW step \in FanStep
      PROVE  [at |-> where, step |-> step] \in Under /\ [at |-> where, step |-> step].at = where
  BY DEF Under
<1>4. ASSUME NEW c \in Requester, set_cooling_speed(c) PROVE cool_Inv'
  <2>1. /\ UNCHANGED <<bound, mode, request, life, stuck>> /\ fan_step' \in asked_steps'
    BY <1>4 DEF set_cooling_speed
  <2>2. QED
    BY <1>t, <2>1 DEF cool_Inv, cool_TypeOK
<1>5. ASSUME NEW c \in Requester, Hold(c) PROVE cool_Inv'
  <2>1. PICK step \in FanStep : request' = [request EXCEPT ![c] = [at |-> "pausing", step |-> step]]
    BY <1>5 DEF Hold, At
  <2>2. QED
    BY <1>1, <1>3, <1>5, <1>t, <2>1 DEF Hold, cool_TypeOK
<1>6. ASSUME NEW c \in Requester, Pause(c) PROVE cool_Inv'
  <2>1. life = "up" /\ bound /\ request[c].step \in FanStep
    BY <1>2, <1>6, <1>t DEF Pause, Under
  <2>2. CASE mode' = "disabled" /\ At(c, request[c].step, "setting")
    BY <1>1, <1>3, <1>6, <1>t, <2>1, <2>2 DEF Pause, At, cool_TypeOK
  <2>3. CASE UNCHANGED mode /\ Answered(c)
    BY <1>1, <1>6, <1>i, <1>t, <2>1, <2>3 DEF Pause, Answered, cool_TypeOK
  <2>4. QED
    BY <1>6, <2>2, <2>3 DEF Pause
<1>7. ASSUME NEW c \in Requester, SetStep(c) PROVE cool_Inv'
  <2>1. life = "up" /\ bound /\ request[c].step \in FanStep /\ UNCHANGED <<bound, life, mode, stuck>>
    BY <1>2, <1>7, <1>t DEF SetStep, Under
  <2>2. CASE fan_step' = request[c].step /\ asked_steps' = asked_steps \cup {request[c].step} /\ Answered(c)
    BY <1>1, <1>i, <1>t, <2>1, <2>2 DEF Answered, cool_TypeOK
  <2>3. CASE UNCHANGED <<fan_step, asked_steps>> /\ At(c, request[c].step, "undoing")
    BY <1>1, <1>3, <1>t, <2>1, <2>3 DEF At, cool_TypeOK
  <2>4. QED
    BY <1>7, <2>2, <2>3 DEF SetStep
<1>8. ASSUME NEW c \in Requester, Undo(c) PROVE cool_Inv'
  <2>1. life = "up" /\ bound /\ UNCHANGED <<bound, life>> /\ Answered(c)
    BY <1>2, <1>8 DEF Undo
  <2>2. (mode' = "enabled" /\ UNCHANGED stuck) \/ (stuck' = TRUE /\ UNCHANGED mode)
    BY <1>8 DEF Undo
  <2>3. QED
    BY <1>1, <1>i, <1>t, <2>1, <2>2 DEF Answered, cool_TypeOK
<1>9. ASSUME mode' = "enabled", UNCHANGED <<bound, request, life, stuck>> PROVE cool_Inv'
  BY <1>9, <1>t DEF cool_Inv, cool_TypeOK
<1>10. ASSUME NEW c \in Requester, HandBack(c) PROVE cool_Inv'
  BY <1>9, <1>10 DEF HandBack
<1>11. CASE Release_hold \/ Governs
  BY <1>9, <1>11 DEF Release_hold, Governs
<1>12. CASE Look \/ ReleaseFails \/ Warms \/ UNCHANGED cool_vars
  <2>1. UNCHANGED <<bound, mode, fan_step, request, life, asked_steps, stuck>>
    BY <1>12 DEF Look, ReleaseFails, Warms, cool_vars
  <2>2. QED
    BY <1>t, <2>1 DEF cool_Inv, cool_TypeOK, ToSettle
<1>13. CASE resume_all_governors
  <2>1. /\ life = "down" /\ life' = "starting" /\ UNCHANGED <<bound, request>>
        /\ stuck' \in BOOLEAN /\ mode' \in {mode, "enabled"} /\ (~stuck' => mode' = "enabled" \/ ~overridden)
    BY <1>13 DEF resume_all_governors
  <2>2. ~stuck' => mode' = "enabled"
    BY <1>13, <1>t, <2>1 DEF resume_all_governors, overridden, cool_TypeOK, cool_Inv
  <2>3. QED
    BY <1>t, <2>1, <2>2 DEF cool_Inv, cool_TypeOK
<1>14. CASE initialize_cooling
  <2>1. life = "starting" /\ life' \in {"up", "down"} /\ UNCHANGED <<bound, mode, request, stuck>>
    BY <1>14 DEF initialize_cooling
  <2>2. QED
    BY <1>t, <2>1 DEF cool_Inv, cool_TypeOK
<1>15. CASE Dies
  <2>1. /\ life' = "down" /\ UNCHANGED <<bound, mode, stuck>>
        /\ request' \in [Requester -> Under] /\ \A c \in Requester : request'[c].at = "idle"
    BY <1>15, <1>i DEF Dies
  <2>2. QED
    BY <1>t, <2>1 DEF cool_Inv, cool_TypeOK
<1>16. QED
  BY <1>4, <1>5, <1>6, <1>7, <1>8, <1>10, <1>11, <1>12, <1>13, <1>14, <1>15 DEF cool_Next, Calls

\* With no request under way a paused governor leaves the fan on a step that was
\* asked for in this run of the daemon, whichever requests crossed, failed or
\* were cut off, unless the kernel would not resume a governor.
THEOREM HoldsAreAskedFor == cool_Spec => [](stuck \/ HeldAsAsked)
<1>1. cool_Inv => stuck \/ HeldAsAsked
  BY DEF cool_Inv, ToSettle, HeldAsAsked
<1>2. QED
  BY CoolInit, CoolStep, <1>1, PTL DEF cool_Spec

(***************************************************************************)
(* A serial console: what waits for its client is all the client has not   *)
(* seen, in order, with pings among it.                                    *)
(***************************************************************************)
Shows(frames, last, next) ==
    /\ \A i, j \in 1 .. Len(frames) : i < j /\ frames[i] # Control /\ frames[j] # Control => frames[i] < frames[j]
    /\ \A i \in 1 .. Len(frames) : frames[i] # Control => last < frames[i] /\ frames[i] < next
    /\ \A chunk \in last + 1 .. next - 1 : \E i \in 1 .. Len(frames) : frames[i] = chunk

LEMMA ShowsNext ==
    ASSUME NEW frames \in Seq(Nat), NEW last \in Nat, NEW next \in Nat, last < next, Shows(frames, last, next)
    PROVE  Shows(Append(frames, next), last, next + 1)
<1> DEFINE more == Append(frames, next)
<1>1. /\ Len(more) = Len(frames) + 1 /\ Len(frames) \in Nat
      /\ \A i \in 1 .. Len(frames) : more[i] = frames[i] /\ frames[i] \in Nat
      /\ more[Len(frames) + 1] = next
  BY AppendProperties, LenProperties
<1> HIDE DEF more
<1>2. ASSUME NEW i \in 1 .. Len(more), NEW j \in 1 .. Len(more), i < j, more[i] # Control, more[j] # Control
      PROVE  more[i] < more[j]
  <2>1. i \in 1 .. Len(frames) /\ more[i] = frames[i]
    BY <1>1, <1>2
  <2>2. CASE j = Len(frames) + 1
    BY <1>1, <1>2, <2>1, <2>2 DEF Shows
  <2>3. CASE j # Len(frames) + 1
    <3>1. j \in 1 .. Len(frames) /\ more[j] = frames[j]
      BY <1>1, <2>3
    <3>2. QED
      BY <1>2, <2>1, <3>1 DEF Shows
  <2>4. QED
    BY <2>2, <2>3
<1>3. \A i \in 1 .. Len(more) : more[i] # Control => last < more[i] /\ more[i] < next + 1
  BY <1>1 DEF Shows
<1>4. ASSUME NEW chunk \in last + 1 .. next PROVE \E i \in 1 .. Len(more) : more[i] = chunk
  <2>1. CASE chunk = next
    BY <1>1, <2>1
  <2>2. CASE chunk # next
    <3>1. PICK i \in 1 .. Len(frames) : frames[i] = chunk
      BY <2>2 DEF Shows
    <3>2. QED
      BY <1>1, <3>1
  <2>3. QED
    BY <2>1, <2>2
<1>5. Shows(more, last, next + 1)
  BY <1>2, <1>3, <1>4 DEF Shows
<1>6. QED
  BY <1>5 DEF more

LEMMA ShowsControl ==
    ASSUME NEW frames \in Seq(Nat), NEW last \in Nat, NEW next \in Nat, Shows(frames, last, next)
    PROVE  Shows(Append(frames, Control), last, next)
<1> DEFINE more == Append(frames, Control)
<1>1. /\ Len(more) = Len(frames) + 1 /\ Len(frames) \in Nat
      /\ \A i \in 1 .. Len(frames) : more[i] = frames[i] /\ frames[i] \in Nat
      /\ more[Len(frames) + 1] = Control
  BY AppendProperties, LenProperties DEF Control
<1> HIDE DEF more
<1>2. ASSUME NEW i \in 1 .. Len(more), NEW j \in 1 .. Len(more), i < j, more[i] # Control, more[j] # Control
      PROVE  more[i] < more[j]
  <2>1. i \in 1 .. Len(frames) /\ more[i] = frames[i]
    BY <1>1, <1>2
  <2>2. CASE j = Len(frames) + 1
    BY <1>1, <1>2, <2>1, <2>2 DEF Shows
  <2>3. CASE j # Len(frames) + 1
    <3>1. j \in 1 .. Len(frames) /\ more[j] = frames[j]
      BY <1>1, <2>3
    <3>2. QED
      BY <1>2, <2>1, <3>1 DEF Shows
  <2>4. QED
    BY <2>2, <2>3
<1>3. \A i \in 1 .. Len(more) : more[i] # Control => last < more[i] /\ more[i] < next
  BY <1>1 DEF Shows
<1>4. ASSUME NEW chunk \in last + 1 .. next - 1 PROVE \E i \in 1 .. Len(more) : more[i] = chunk
  <2>1. PICK i \in 1 .. Len(frames) : frames[i] = chunk
    BY DEF Shows
  <2>2. QED
    BY <1>1, <2>1
<1>5. Shows(more, last, next)
  BY <1>2, <1>3, <1>4 DEF Shows
<1>6. QED
  BY <1>5 DEF more

\* The first chunk that waits is the one after the last that was seen.
LEMMA ShowsHead ==
    ASSUME NEW frames \in Seq(Nat), frames # << >>, NEW last \in Nat, NEW next \in Nat,
           Shows(frames, last, next)
    PROVE  /\ Head(frames) = Control => Shows(Tail(frames), last, next)
           /\ Head(frames) # Control => Head(frames) = last + 1 /\ Shows(Tail(frames), Head(frames), next)
<1> DEFINE rest == Tail(frames)
<1>1. /\ Len(frames) \in Nat \ {0} /\ Len(rest) = Len(frames) - 1
      /\ \A i \in 1 .. Len(rest) : rest[i] = frames[i + 1]
      /\ \A i \in 1 .. Len(frames) : frames[i] \in Nat
      /\ Head(frames) = frames[1]
  BY HeadTailProperties, LenProperties, EmptySeq
<1> HIDE DEF rest
<1>2. ASSUME NEW chunk, NEW i \in 1 .. Len(frames), frames[i] = chunk, chunk # frames[1]
      PROVE  \E j \in 1 .. Len(rest) : rest[j] = chunk
  <2>1. i - 1 \in 1 .. Len(rest) /\ rest[i - 1] = frames[i]
    BY <1>1, <1>2
  <2>2. QED
    BY <1>2, <2>1
<1>3. /\ \A i, j \in 1 .. Len(rest) : i < j /\ rest[i] # Control /\ rest[j] # Control => rest[i] < rest[j]
      /\ \A i \in 1 .. Len(rest) : rest[i] # Control => last < rest[i] /\ rest[i] < next
  <2>1. \A i \in 1 .. Len(rest) : i + 1 \in 1 .. Len(frames) /\ rest[i] = frames[i + 1]
    BY <1>1
  <2>2. \A i, j \in 1 .. Len(rest) : i < j => i + 1 < j + 1
    BY <1>1
  <2>3. QED
    BY <2>1, <2>2 DEF Shows
<1>4. CASE frames[1] = Control
  <2>1. ASSUME NEW chunk \in last + 1 .. next - 1 PROVE \E i \in 1 .. Len(rest) : rest[i] = chunk
    <3>1. PICK i \in 1 .. Len(frames) : frames[i] = chunk
      BY DEF Shows
    <3>2. chunk # frames[1]
      BY <1>4 DEF Control
    <3>3. QED
      BY <1>2, <3>1, <3>2
  <2>2. Shows(rest, last, next)
    BY <1>3, <2>1 DEF Shows
  <2>3. QED
    BY <1>1, <1>4, <2>2 DEF rest
<1>5. CASE frames[1] # Control
  <2>1. last < frames[1] /\ frames[1] < next /\ frames[1] \in Nat
    BY <1>1, <1>5 DEF Shows
  <2>2. PICK i \in 1 .. Len(frames) : frames[i] = last + 1
    <3>1. last + 1 \in last + 1 .. next - 1
      BY <2>1
    <3>2. QED
      BY <3>1 DEF Shows
  <2>3. frames[1] = last + 1
    <3>1. CASE i = 1
      BY <2>2, <3>1
    <3>2. CASE i # 1
      <4>1. 1 \in 1 .. Len(frames) /\ 1 < i /\ frames[i] # Control
        BY <1>1, <2>2, <3>2 DEF Control
      <4>2. frames[1] < frames[i]
        BY <1>5, <4>1 DEF Shows
      <4>3. QED
        BY <2>1, <2>2, <4>2
    <3>3. QED
      BY <3>1, <3>2
  <2>4. ASSUME NEW j \in 1 .. Len(rest), rest[j] # Control PROVE frames[1] < rest[j]
    <3>1. 1 \in 1 .. Len(frames) /\ j + 1 \in 1 .. Len(frames) /\ 1 < j + 1 /\ rest[j] = frames[j + 1]
      BY <1>1
    <3>2. QED
      BY <1>5, <2>4, <3>1 DEF Shows
  <2>5. ASSUME NEW chunk \in frames[1] + 1 .. next - 1 PROVE \E j \in 1 .. Len(rest) : rest[j] = chunk
    <3>1. chunk \in last + 1 .. next - 1 /\ chunk # frames[1]
      BY <2>1, <2>3
    <3>2. PICK k \in 1 .. Len(frames) : frames[k] = chunk
      BY <3>1 DEF Shows
    <3>3. QED
      BY <1>2, <3>1, <3>2
  <2>6. Shows(rest, frames[1], next)
    BY <1>3, <2>4, <2>5 DEF Shows
  <2>7. QED
    BY <1>1, <1>5, <2>3, <2>6 DEF rest
<1>6. QED
  BY <1>4, <1>5

Watching == [at : {"closed", "loop", "sending", "queueing"}, next : Nat, frames : Seq(Nat), held : Nat,
             shown : Nat, last_heartbeat : Nat, due : Nat, ponged : Nat]

\* All that a session has for its client, with what its loop waits to send.
Pending(r) == IF r.at = "sending" THEN Append(r.frames, r.held) ELSE r.frames
NoGaps(r) ==
    /\ r.at = "closed" => r.frames = << >>
    /\ r.at # "closed" => r.shown < r.next /\ Shows(Pending(r), r.shown, r.next)
\* When the next heartbeat is not due, the last was taken in time.
Heard(r) ==
    /\ r.ponged = r.last_heartbeat /\ r.last_heartbeat <= clock
    /\ r.due <= clock + 1
    /\ r.due > clock => clock <= r.last_heartbeat + CLIENT_TIMEOUT

serial_TypeOK ==
    /\ chunks \in Nat /\ typed \in Nat /\ in_hand \in Nat /\ clock \in Nat
    /\ ring \in Seq(Nat) /\ queue \in Seq(Nat) /\ uart \in Seq(Nat)
    /\ con \in [Console -> Watching]

ConsolesInv == \A c \in Console : NoGaps(con[c]) /\ Heard(con[c])

\* The buffer is the end of what was read.
RingInv == \A i \in 1 .. Len(ring) : ring[i] = chunks - Len(ring) + i

\* What the node has seen, what is being written and what waits is in the order
\* in which it was accepted.
LinesInv ==
    /\ \A i \in 1 .. Len(queue) : queue[i] <= typed /\ queue[i] # 0 /\ in_hand < queue[i]
    /\ \A i, j \in 1 .. Len(queue) : i < j => queue[i] < queue[j]
    /\ in_hand <= typed
    /\ \A i \in 1 .. Len(uart) : /\ uart[i] <= typed
                                 /\ in_hand # 0 => uart[i] < in_hand
                                 /\ \A j \in 1 .. Len(queue) : uart[i] < queue[j]
    /\ \A i, j \in 1 .. Len(uart) : i < j => uart[i] < uart[j]

serial_Inv == serial_TypeOK /\ ConsolesInv /\ RingInv /\ LinesInv

LEMMA ClosedIsQuiet ==
    /\ Closed_session \in Watching /\ NoGaps(Closed_session) /\ Closed_session.at = "closed"
    /\ clock \in Nat => Heard(Closed_session)
<1>1. << >> \in Seq(Nat)
  OBVIOUS
<1>2. Closed_session \in Watching /\ NoGaps(Closed_session) /\ Closed_session.at = "closed"
  BY <1>1 DEF Closed_session, Watching, NoGaps
<1>3. clock \in Nat => Heard(Closed_session)
  BY SerialAssumption DEF Closed_session, Heard
<1>4. QED
  BY <1>2, <1>3

LEMMA SerialInit == serial_Init => serial_Inv
<1> SUFFICES ASSUME serial_Init PROVE serial_Inv
  OBVIOUS
<1>1. serial_TypeOK
  BY ClosedIsQuiet DEF serial_Init, serial_TypeOK
<1>2. ConsolesInv
  BY <1>1, ClosedIsQuiet DEF serial_Init, ConsolesInv, serial_TypeOK
<1>3. RingInv /\ LinesInv
  BY DEF serial_Init, RingInv, LinesInv
<1>4. QED
  BY <1>1, <1>2, <1>3 DEF serial_Inv

\* A frame goes into the channel, or the loop waits with it.
LEMMA SendsKeepsOrder ==
    ASSUME NEW c, NEW s \in Watching, s.at = "loop", s.shown < s.next, NEW frame \in Nat,
           Shows(Append(s.frames, frame), s.shown, s.next), Sends(c, s, frame)
    PROVE  \E r \in Watching : /\ Becomes(c, r) /\ NoGaps(r)
                               /\ r.shown = s.shown /\ r.due = s.due /\ r.ponged = s.ponged
                               /\ r.last_heartbeat = s.last_heartbeat
<1>1. s.frames \in Seq(Nat) /\ Append(s.frames, frame) \in Seq(Nat)
  BY AppendProperties DEF Watching
<1>2. CASE Becomes(c, [s EXCEPT !.frames = Append(@, frame)])
  <2> DEFINE r == [s EXCEPT !.frames = Append(@, frame)]
  <2>1. r \in Watching /\ r.at = "loop" /\ r.frames = Append(s.frames, frame)
        /\ r.shown = s.shown /\ r.next = s.next /\ r.due = s.due /\ r.ponged = s.ponged
        /\ r.last_heartbeat = s.last_heartbeat
    BY <1>1 DEF Watching
  <2> HIDE DEF r
  <2>2. NoGaps(r)
    BY <2>1 DEF NoGaps, Pending
  <2>3. QED
    BY <1>2, <2>1, <2>2 DEF r
<1>3. CASE Becomes(c, [s EXCEPT !.at = "sending", !.held = frame])
  <2> DEFINE r == [s EXCEPT !.at = "sending", !.held = frame]
  <2>1. r \in Watching /\ r.at = "sending" /\ r.frames = s.frames /\ r.held = frame
        /\ r.shown = s.shown /\ r.next = s.next /\ r.due = s.due /\ r.ponged = s.ponged
        /\ r.last_heartbeat = s.last_heartbeat
    BY <1>1 DEF Watching
  <2> HIDE DEF r
  <2>2. NoGaps(r)
    BY <2>1 DEF NoGaps, Pending
  <2>3. QED
    BY <1>3, <2>1, <2>2 DEF r
<1>4. QED
  BY <1>2, <1>3 DEF Sends

\* What a session goes on with, whatever it does, and what it has shown then.
Follows(r, old) ==
    /\ r \in Watching /\ NoGaps(r) /\ Heard(r)
    /\ r.shown # old.shown /\ old.at # "closed" /\ r.at # "closed" => r.shown = old.shown + 1

LEMMA SessionStep ==
    ASSUME serial_TypeOK, ConsolesInv, NEW c \in Console, Session(c)
    PROVE  \E r : Becomes(c, r) /\ Follows(r, con[c])
<1> DEFINE s == con[c]
<1>t. s \in Watching /\ NoGaps(s) /\ Heard(s) /\ clock \in Nat /\ chunks \in Nat /\ CLIENT_TIMEOUT \in Nat
  BY SerialAssumption DEF serial_TypeOK, ConsolesInv
<1>n. /\ s.next \in Nat /\ s.shown \in Nat /\ s.last_heartbeat \in Nat /\ s.due \in Nat /\ s.ponged \in Nat
      /\ s.held \in Nat /\ s.frames \in Seq(Nat)
  BY <1>t DEF Watching
<1>u. con[c] = s
  OBVIOUS
<1> HIDE DEF s
<1>1. CASE Closes(c)
  BY <1>1, <1>t, ClosedIsQuiet DEF Closes, Follows
<1>2. CASE UNCHANGED con
  <2>1. Becomes(c, s)
    BY <1>2, <1>u DEF Becomes, serial_TypeOK
  <2>2. QED
    BY <2>1, <1>t, <1>u DEF Follows
<1>3. CASE handle_ws(c)
  <2> DEFINE r == [Closed_session EXCEPT !.at = "loop", !.next = chunks + 1, !.shown = chunks,
                                         !.last_heartbeat = clock, !.due = clock, !.ponged = clock]
  <2>1. /\ r \in Watching /\ r.at = "loop" /\ r.next = chunks + 1 /\ r.shown = chunks /\ r.frames = << >>
        /\ r.last_heartbeat = clock /\ r.due = clock /\ r.ponged = clock
    <3>1. "loop" \in {"closed", "loop", "sending", "queueing"} /\ chunks + 1 \in Nat
      BY <1>t
    <3>2. Closed_session.frames = << >>
      BY DEF Closed_session
    <3>3. QED
      BY <1>t, <3>1, <3>2, ClosedIsQuiet DEF Watching
  <2>2. Becomes(c, r) /\ s.at = "closed"
    BY <1>3, <1>u DEF handle_ws, open_channel
  <2> HIDE DEF r
  <2>3. Shows(r.frames, r.shown, r.next)
    BY <1>t, <2>1 DEF Shows
  <2>4. NoGaps(r)
    BY <1>t, <2>1, <2>3 DEF NoGaps, Pending
  <2>5. Heard(r)
    BY <1>t, <2>1 DEF Heard
  <2>6. QED
    BY <1>u, <2>1, <2>2, <2>4, <2>5 DEF Follows
\* A session that changes neither what waits nor its heartbeat.
<1>4. ASSUME s.at \in {"loop", "queueing"}, NEW at \in {"loop", "queueing"}, Becomes(c, [s EXCEPT !.at = at])
      PROVE  \E r : Becomes(c, r) /\ Follows(r, con[c])
  <2> DEFINE r == [s EXCEPT !.at = at]
  <2>1. /\ r \in Watching /\ r.at = at /\ r.next = s.next /\ r.shown = s.shown /\ r.frames = s.frames
        /\ r.last_heartbeat = s.last_heartbeat /\ r.due = s.due /\ r.ponged = s.ponged
    BY <1>t DEF Watching
  <2> HIDE DEF r
  <2>2. NoGaps(r) /\ Heard(r)
    BY <1>t, <1>4, <2>1 DEF NoGaps, Pending, Heard
  <2>3. QED
    BY <1>4, <1>u, <2>1, <2>2 DEF Follows, r
<1>5. CASE TypesLine(c)
  BY <1>1, <1>2, <1>4, <1>5, <1>u DEF TypesLine
<1>6. CASE QueuesLine(c)
  BY <1>1, <1>4, <1>6, <1>u DEF QueuesLine
\* What a session in its loop sends: a ping, a pong, or the next chunk.
<1>7. ASSUME s.at = "loop", NEW t \in Watching, t.at = "loop", t.frames = s.frames, t.shown = s.shown,
             NEW frame \in Nat, Sends(c, t, frame),
             \/ frame = Control /\ t.next = s.next
             \/ frame = s.next /\ t.next = s.next + 1,
             Heard(t)
      PROVE  \E r : Becomes(c, r) /\ Follows(r, con[c])
  <2>1. Shows(s.frames, s.shown, s.next) /\ s.shown < s.next
    BY <1>t, <1>7 DEF NoGaps, Pending
  <2>2. Shows(Append(t.frames, frame), t.shown, t.next) /\ t.shown < t.next
    <3>1. CASE frame = Control /\ t.next = s.next
      BY <1>n, <1>7, <2>1, <3>1, ShowsControl
    <3>2. CASE frame = s.next /\ t.next = s.next + 1
      <4>1. Shows(Append(s.frames, s.next), s.shown, s.next + 1)
        BY <1>n, <2>1, ShowsNext
      <4>2. s.shown < s.next + 1
        BY <1>n, <2>1
      <4>3. QED
        BY <1>7, <3>2, <4>1, <4>2
    <3>3. QED
      BY <1>7, <3>1, <3>2
  <2>3. PICK r \in Watching : /\ Becomes(c, r) /\ NoGaps(r)
                              /\ r.shown = t.shown /\ r.due = t.due /\ r.ponged = t.ponged
                              /\ r.last_heartbeat = t.last_heartbeat
    BY <1>7, <2>2, SendsKeepsOrder
  <2>4. Heard(r)
    BY <1>7, <2>3 DEF Heard
  <2>5. QED
    BY <1>7, <1>u, <2>3, <2>4 DEF Follows
<1>8. CASE Heartbeat(c)
  <2> DEFINE t == [s EXCEPT !.last_heartbeat = clock, !.ponged = clock]
  <2>1. /\ t \in Watching /\ t.at = s.at /\ t.next = s.next /\ t.shown = s.shown /\ t.frames = s.frames
        /\ t.held = s.held /\ t.last_heartbeat = clock /\ t.due = s.due /\ t.ponged = clock
    BY <1>t DEF Watching
  <2>2. s.at = "loop" /\ (Becomes(c, t) \/ Sends(c, t, Control))
    BY <1>8, <1>u DEF Heartbeat
  <2> HIDE DEF t
  <2>3. Heard(t)
    BY <1>t, <1>n, <2>1 DEF Heard
  <2>4. NoGaps(t)
    BY <1>t, <2>1, <2>2 DEF NoGaps, Pending
  <2>5. CASE Becomes(c, t)
    BY <1>u, <2>1, <2>3, <2>4, <2>5 DEF Follows
  <2>6. CASE Sends(c, t, Control)
    BY <1>7, <2>1, <2>2, <2>3, <2>6 DEF Control
  <2>7. QED
    BY <2>2, <2>5, <2>6
<1>9. CASE Leaves(c)
  BY <1>1, <1>9 DEF Leaves
<1>10. CASE handle_command(c)
  <2> DEFINE t == [s EXCEPT !.next = @ + 1]
  <2>1. /\ t \in Watching /\ t.at = s.at /\ t.next = s.next + 1 /\ t.shown = s.shown /\ t.frames = s.frames
        /\ t.last_heartbeat = s.last_heartbeat /\ t.due = s.due /\ t.ponged = s.ponged
    BY <1>t, <1>n DEF Watching
  <2>2. s.at = "loop" /\ (Closes(c) \/ Sends(c, t, s.next))
    BY <1>10, <1>u DEF handle_command
  <2> HIDE DEF t
  <2>3. Heard(t)
    BY <1>t, <2>1 DEF Heard
  <2>4. CASE Sends(c, t, s.next)
    BY <1>7, <1>n, <2>1, <2>2, <2>3, <2>4
  <2>5. QED
    BY <1>1, <2>2, <2>4
<1>11. CASE verify_heartbeat(c)
  <2> DEFINE t == [s EXCEPT !.due = @ + 1]
  <2>1. /\ t \in Watching /\ t.at = s.at /\ t.next = s.next /\ t.shown = s.shown /\ t.frames = s.frames
        /\ t.last_heartbeat = s.last_heartbeat /\ t.due = s.due + 1 /\ t.ponged = s.ponged
    <3>1. s.due + 1 \in Nat
      BY <1>n
    <3>2. QED
      BY <1>t, <3>1 DEF Watching
  <2>2. /\ s.at = "loop" /\ s.due <= clock
        /\ \/ Closes(c)
           \/ ~(clock - s.last_heartbeat > CLIENT_TIMEOUT) /\ Sends(c, t, Control)
    BY <1>11, <1>u DEF verify_heartbeat
  <2> HIDE DEF t
  <2>3. CASE ~(clock - s.last_heartbeat > CLIENT_TIMEOUT) /\ Sends(c, t, Control)
    <3>1. Heard(t)
      BY <1>t, <1>n, <2>1, <2>2, <2>3 DEF Heard
    <3>2. QED
      BY <1>7, <2>1, <2>2, <2>3, <3>1 DEF Control
  <2>4. QED
    BY <1>1, <2>2, <2>3
<1>12. CASE Sent(c)
  <2> DEFINE t == [s EXCEPT !.at = "loop", !.frames = Append(@, s.held), !.held = 0]
  <2>1. Append(s.frames, s.held) \in Seq(Nat)
    BY <1>n, AppendProperties
  <2>2. /\ t \in Watching /\ t.at = "loop" /\ t.next = s.next /\ t.shown = s.shown
        /\ t.frames = Append(s.frames, s.held)
        /\ t.last_heartbeat = s.last_heartbeat /\ t.due = s.due /\ t.ponged = s.ponged
    BY <1>t, <2>1 DEF Watching
  <2>3. s.at = "sending" /\ Becomes(c, t)
    BY <1>12, <1>u DEF Sent
  <2> HIDE DEF t
  <2>4. Heard(t)
    BY <1>t, <2>2 DEF Heard
  <2>5. NoGaps(t)
    BY <1>t, <2>2, <2>3 DEF NoGaps, Pending
  <2>6. QED
    BY <1>u, <2>2, <2>3, <2>4, <2>5 DEF Follows
<1>13. CASE ClientReads(c)
  <2> DEFINE frame == Head(s.frames)
             shown == IF frame = Control THEN s.shown ELSE frame
             t == [s EXCEPT !.frames = Tail(@), !.shown = shown]
  <2>1. s.frames # << >> /\ Becomes(c, t)
    BY <1>13, <1>u DEF ClientReads
  <2>2. Tail(s.frames) \in Seq(Nat) /\ frame \in Nat
    BY <1>n, <2>1, HeadTailProperties
  <2>3. /\ t \in Watching /\ t.at = s.at /\ t.next = s.next /\ t.shown = shown /\ t.held = s.held
        /\ t.frames = Tail(s.frames)
        /\ t.last_heartbeat = s.last_heartbeat /\ t.due = s.due /\ t.ponged = s.ponged
    BY <1>t, <1>n, <2>2 DEF Watching
  <2>4. s.at # "closed" /\ s.shown < s.next /\ Shows(Pending(s), s.shown, s.next)
    BY <1>t, <2>1 DEF NoGaps
  <2>5. /\ Pending(s) \in Seq(Nat) /\ Pending(s) # << >> /\ Head(Pending(s)) = frame
        /\ Pending(t) = Tail(Pending(s))
    <3>1. Append(s.frames, s.held) \in Seq(Nat) /\ Append(s.frames, s.held) # << >>
      BY <1>n, AppendProperties
    <3>2. /\ Head(Append(s.frames, s.held)) = frame
          /\ Tail(Append(s.frames, s.held)) = Append(Tail(s.frames), s.held)
      BY <1>n, <2>1, HeadTailAppend
    <3> HIDE DEF t, frame
    <3>3. CASE s.at = "sending"
      BY <2>3, <3>1, <3>2, <3>3 DEF Pending
    <3>4. CASE s.at # "sending"
      BY <1>n, <2>1, <2>3, <3>4 DEF Pending, frame
    <3>5. QED
      BY <3>3, <3>4
  <2>6. /\ frame = Control => Shows(Pending(t), s.shown, s.next)
        /\ frame # Control => frame = s.shown + 1 /\ Shows(Pending(t), frame, s.next)
    <3> DEFINE waits == Pending(s)
    <3>1. waits \in Seq(Nat) /\ waits # << >> /\ Head(waits) = frame /\ Pending(t) = Tail(waits)
          /\ Shows(waits, s.shown, s.next)
      BY <2>4, <2>5
    <3> HIDE DEF waits, t, frame
    <3>2. /\ Head(waits) = Control => Shows(Tail(waits), s.shown, s.next)
          /\ Head(waits) # Control => Head(waits) = s.shown + 1 /\ Shows(Tail(waits), Head(waits), s.next)
      BY <1>n, <3>1, ShowsHead
    <3>3. QED
      BY <3>1, <3>2
  <2>7. frame # Control => frame < s.next
    <3>1. Head(Pending(s)) = Pending(s)[1] /\ 1 \in 1 .. Len(Pending(s))
      BY <2>5, HeadTailProperties, LenProperties, EmptySeq
    <3> HIDE DEF t
    <3>2. QED
      BY <2>4, <2>5, <3>1 DEF Shows
  <2>8. Shows(Pending(t), shown, s.next) /\ shown < s.next /\ (shown # s.shown => shown = s.shown + 1)
    BY <2>4, <2>6, <2>7
  <2> HIDE DEF t, shown, frame
  <2>9. NoGaps(t) /\ Heard(t)
    BY <1>t, <2>3, <2>4, <2>8 DEF NoGaps, Heard
  <2>10. QED
    BY <1>u, <2>1, <2>3, <2>8, <2>9 DEF Follows
<1>q. QED
  BY <1>3, <1>5, <1>6, <1>8, <1>9, <1>10, <1>11, <1>12, <1>13 DEF Session

\* What a step does to the lines on their way: nothing, or one of four things.
Accepted == typed' = typed + 1 /\ queue' = Append(queue, typed + 1) /\ UNCHANGED <<in_hand, uart>>
Dropped == queue' = << >> /\ UNCHANGED <<in_hand, uart, typed>>
Taken == in_hand = 0 /\ queue # << >> /\ in_hand' = Head(queue) /\ queue' = Tail(queue) /\ UNCHANGED <<uart, typed>>
PassedOn == in_hand # 0 /\ uart' \in {Append(uart, in_hand), uart} /\ in_hand' = 0 /\ UNCHANGED <<queue, typed>>
LineMoves == UNCHANGED <<queue, in_hand, uart, typed>> \/ Accepted \/ Dropped \/ Taken \/ PassedOn

LEMMA LinesMove == serial_Next \/ UNCHANGED serial_vars => LineMoves
<1>1. SerialConnections_new \/ ReadUart \/ serial_Tick \/ UNCHANGED serial_vars => LineMoves
  BY DEF SerialConnections_new, run, ReadUart, serial_Tick, LineMoves, serial_vars
<1>2. WorkerExits \/ TakeLine \/ WriteUart \/ legacy_serial_set_handler => LineMoves
  BY DEF WorkerExits, TakeLine, WriteUart, legacy_serial_set_handler, write, LineMoves, Accepted, Dropped, Taken, PassedOn
<1>3. ASSUME NEW c \in Console, Session(c) PROVE LineMoves
  <2>1. CASE TypesLine(c) \/ QueuesLine(c)
    BY <2>1 DEF TypesLine, QueuesLine, LineMoves, Accepted
  <2>2. CASE handle_ws(c) \/ Heartbeat(c) \/ Leaves(c) \/ handle_command(c) \/ verify_heartbeat(c)
                \/ Sent(c) \/ ClientReads(c)
    BY <2>2 DEF handle_ws, open_channel, Heartbeat, Leaves, handle_command, verify_heartbeat, Sent, ClientReads,
                LineMoves
  <2>3. QED
    BY <1>3, <2>1, <2>2 DEF Session
<1>4. QED
  BY <1>1, <1>2, <1>3 DEF serial_Next

LineTypes == typed \in Nat /\ in_hand \in Nat /\ queue \in Seq(Nat) /\ uart \in Seq(Nat)

LEMMA AppendElements ==
    ASSUME NEW lines \in Seq(Nat), NEW line \in Nat
    PROVE  /\ Append(lines, line) \in Seq(Nat) /\ Len(Append(lines, line)) = Len(lines) + 1 /\ Len(lines) \in Nat
           /\ \A i \in 1 .. Len(Append(lines, line)) : \/ i \in 1 .. Len(lines) /\ Append(lines, line)[i] = lines[i]
                                                       \/ i = Len(lines) + 1 /\ Append(lines, line)[i] = line
<1> DEFINE more == Append(lines, line)
<1>1. /\ more \in Seq(Nat) /\ Len(more) = Len(lines) + 1 /\ Len(lines) \in Nat
      /\ \A i \in 1 .. Len(lines) : more[i] = lines[i]
      /\ more[Len(lines) + 1] = line
  BY AppendProperties, LenProperties
<1> HIDE DEF more
<1>2. ASSUME NEW i \in 1 .. Len(more)
      PROVE  \/ i \in 1 .. Len(lines) /\ more[i] = lines[i]
             \/ i = Len(lines) + 1 /\ more[i] = line
  <2>1. i = Len(lines) + 1 \/ i \in 1 .. Len(lines)
    BY <1>1
  <2>2. QED
    BY <1>1, <2>1
<1>3. \A i \in 1 .. Len(more) : \/ i \in 1 .. Len(lines) /\ more[i] = lines[i]
                                \/ i = Len(lines) + 1 /\ more[i] = line
  BY <1>2
<1>4. QED
  BY <1>1, <1>3 DEF more

LEMMA LinesKeepOrder == LineTypes /\ LinesInv /\ LineMoves => LineTypes' /\ LinesInv'
<1> SUFFICES ASSUME LineTypes, LinesInv, LineMoves PROVE LineTypes' /\ LinesInv'
  OBVIOUS
<1>t. /\ typed \in Nat /\ in_hand \in Nat /\ Len(queue) \in Nat /\ Len(uart) \in Nat
      /\ \A i \in 1 .. Len(queue) : queue[i] \in Nat
      /\ \A i \in 1 .. Len(uart) : uart[i] \in Nat
  BY LenProperties DEF LineTypes
<1>1. CASE UNCHANGED <<queue, in_hand, uart, typed>>
  BY <1>1 DEF LineTypes, LinesInv
<1>2. CASE Accepted
  <2>1. /\ typed' = typed + 1 /\ in_hand' = in_hand /\ uart' = uart
        /\ queue' = Append(queue, typed + 1) /\ typed + 1 \in Nat
    BY <1>2, <1>t DEF Accepted
  <2>2. /\ queue' \in Seq(Nat) /\ Len(queue') = Len(queue) + 1
        /\ \A i \in 1 .. Len(queue') : \/ i \in 1 .. Len(queue) /\ queue'[i] = queue[i]
                                       \/ i = Len(queue) + 1 /\ queue'[i] = typed + 1
    BY <2>1, AppendElements DEF LineTypes
  <2>3. \A i \in 1 .. Len(queue') : queue'[i] <= typed' /\ queue'[i] # 0 /\ in_hand' < queue'[i]
    BY <1>t, <2>1, <2>2 DEF LinesInv
  <2>4. \A i, j \in 1 .. Len(queue') : i < j => queue'[i] < queue'[j]
    BY <1>t, <2>1, <2>2 DEF LinesInv
  <2>5. \A i \in 1 .. Len(uart') : /\ uart'[i] <= typed'
                                   /\ in_hand' # 0 => uart'[i] < in_hand'
                                   /\ \A j \in 1 .. Len(queue') : uart'[i] < queue'[j]
    BY <1>t, <2>1, <2>2 DEF LinesInv
  <2>6. in_hand' <= typed' /\ \A i, j \in 1 .. Len(uart') : i < j => uart'[i] < uart'[j]
    BY <1>t, <2>1 DEF LinesInv
  <2>7. LineTypes'
    BY <1>t, <2>1, <2>2 DEF LineTypes
  <2>8. QED
    BY <2>3, <2>4, <2>5, <2>6, <2>7 DEF LinesInv
<1>3. CASE Dropped
  <2>1. queue' \in Seq(Nat) /\ Len(queue') = 0 /\ UNCHANGED <<in_hand, uart, typed>>
    BY <1>3 DEF Dropped
  <2>2. LineTypes'
    BY <2>1 DEF LineTypes
  <2>3. QED
    BY <2>1, <2>2 DEF LinesInv
<1>4. CASE Taken
  <2>1. /\ in_hand = 0 /\ in_hand' = queue[1] /\ uart' = uart /\ typed' = typed
        /\ queue' \in Seq(Nat) /\ Len(queue') = Len(queue) - 1 /\ Len(queue) \in Nat \ {0}
        /\ \A i \in 1 .. Len(queue') : queue'[i] = queue[i + 1]
    BY <1>4, <1>t, HeadTailProperties, EmptySeq DEF Taken, LineTypes
  <2>2. 1 \in 1 .. Len(queue) /\ \A i \in 1 .. Len(queue') : i + 1 \in 1 .. Len(queue) /\ 1 < i + 1
    BY <1>t, <2>1
  <2>3. \A i \in 1 .. Len(queue') : queue'[i] <= typed' /\ queue'[i] # 0 /\ in_hand' < queue'[i]
    BY <1>t, <2>1, <2>2 DEF LinesInv
  <2>4. \A i, j \in 1 .. Len(queue') : i < j => queue'[i] < queue'[j]
    <3>1. \A i, j \in 1 .. Len(queue') : i < j => i + 1 < j + 1
      OBVIOUS
    <3>2. QED
      BY <2>1, <2>2, <3>1 DEF LinesInv
  <2>5. \A i \in 1 .. Len(uart') : /\ uart'[i] <= typed'
                                   /\ in_hand' # 0 => uart'[i] < in_hand'
                                   /\ \A j \in 1 .. Len(queue') : uart'[i] < queue'[j]
    BY <1>t, <2>1, <2>2 DEF LinesInv
  <2>6. in_hand' <= typed' /\ \A i, j \in 1 .. Len(uart') : i < j => uart'[i] < uart'[j]
    BY <2>1, <2>2 DEF LinesInv
  <2>7. LineTypes'
    BY <1>t, <2>1, <2>2 DEF LineTypes
  <2>8. QED
    BY <2>3, <2>4, <2>5, <2>6, <2>7 DEF LinesInv
<1>5. CASE PassedOn
  <2>1. CASE uart' = uart
    BY <1>5, <1>t, <2>1 DEF PassedOn, LinesInv, LineTypes
  <2>2. CASE uart' = Append(uart, in_hand)
    <3>1. typed' = typed /\ in_hand' = 0 /\ in_hand # 0 /\ queue' = queue
      BY <1>5 DEF PassedOn
    <3>2. /\ uart' \in Seq(Nat) /\ Len(uart') = Len(uart) + 1
          /\ \A i \in 1 .. Len(uart') : \/ i \in 1 .. Len(uart) /\ uart'[i] = uart[i]
                                        \/ i = Len(uart) + 1 /\ uart'[i] = in_hand
      BY <2>2, AppendElements DEF LineTypes
    <3>3. \A i \in 1 .. Len(queue') : queue'[i] <= typed' /\ queue'[i] # 0 /\ in_hand' < queue'[i]
      BY <1>t, <3>1 DEF LinesInv
    <3>4. \A i \in 1 .. Len(uart') : /\ uart'[i] <= typed'
                                     /\ in_hand' # 0 => uart'[i] < in_hand'
                                     /\ \A j \in 1 .. Len(queue') : uart'[i] < queue'[j]
      BY <1>t, <3>1, <3>2 DEF LinesInv
    <3>5. ASSUME NEW i \in 1 .. Len(uart'), NEW j \in 1 .. Len(uart'), i < j PROVE uart'[i] < uart'[j]
      <4>1. i \in 1 .. Len(uart) /\ uart'[i] = uart[i]
        BY <1>t, <3>2, <3>5
      <4>2. CASE j \in 1 .. Len(uart) /\ uart'[j] = uart[j]
        BY <3>5, <4>1, <4>2 DEF LinesInv
      <4>3. CASE uart'[j] = in_hand
        BY <3>1, <4>1, <4>3 DEF LinesInv
      <4>4. QED
        BY <3>2, <4>2, <4>3
    <3>6. /\ \A i, j \in 1 .. Len(queue') : i < j => queue'[i] < queue'[j]
          /\ in_hand' <= typed' /\ LineTypes'
      BY <1>t, <3>1, <3>2 DEF LinesInv, LineTypes
    <3>7. QED
      BY <3>3, <3>4, <3>5, <3>6 DEF LinesInv
  <2>3. QED
    BY <1>5, <2>1, <2>2 DEF PassedOn
<1>6. QED
  BY <1>1, <1>2, <1>3, <1>4, <1>5 DEF LineMoves

\* The buffer stays the end of what was read: it grows by the chunk just read,
\* and drops the oldest.
LEMMA RingStep ==
    ASSUME chunks \in Nat, ring \in Seq(Nat), RingInv, serial_Next \/ UNCHANGED serial_vars
    PROVE  chunks' \in Nat /\ ring' \in Seq(Nat) /\ RingInv'
<1>1. UNCHANGED <<chunks, ring>> \/ ReadUart
  BY DEF serial_Next, SerialConnections_new, run, WorkerExits, TakeLine, WriteUart, legacy_serial_set_handler, write,
         serial_Tick, Session, handle_ws, open_channel, TypesLine, QueuesLine, Heartbeat, Leaves, handle_command,
         verify_heartbeat, Sent, ClientReads, serial_vars
<1>2. CASE UNCHANGED <<chunks, ring>>
  BY <1>2 DEF RingInv
<1>3. CASE ReadUart
  <2> DEFINE more == Append(ring, chunks + 1)
  <2>1. /\ more \in Seq(Nat) /\ Len(more) = Len(ring) + 1 /\ Len(ring) \in Nat
        /\ \A i \in 1 .. Len(more) : \/ i \in 1 .. Len(ring) /\ more[i] = ring[i]
                                     \/ i = Len(ring) + 1 /\ more[i] = chunks + 1
    <3>1. chunks + 1 \in Nat
      OBVIOUS
    <3>2. QED
      BY <3>1, AppendElements
  <2>2. chunks' = chunks + 1 /\ ring' \in {more, Tail(more)}
    BY <1>3 DEF ReadUart, Kept
  <2> HIDE DEF more
  <2>3. \A i \in 1 .. Len(more) : more[i] = chunks + 1 - Len(more) + i
    <3>1. \A i \in 1 .. Len(ring) : ring[i] = chunks - Len(ring) + i
      BY DEF RingInv
    <3>2. QED
      BY <2>1, <3>1
  <2>4. CASE ring' = more
    BY <2>1, <2>2, <2>3, <2>4 DEF RingInv
  <2>5. CASE ring' = Tail(more)
    <3>1. /\ ring' \in Seq(Nat) /\ Len(ring') = Len(more) - 1
          /\ \A i \in 1 .. Len(ring') : ring'[i] = more[i + 1]
      BY <2>1, <2>5, HeadTailProperties, EmptySeq
    <3>2. \A i \in 1 .. Len(ring') : i + 1 \in 1 .. Len(more)
      BY <2>1, <3>1
    <3>3. \A i \in 1 .. Len(ring') : ring'[i] = chunks' - Len(ring') + i
      BY <2>1, <2>2, <2>3, <3>1, <3>2
    <3>4. QED
      BY <2>2, <3>1, <3>3 DEF RingInv
  <2>6. QED
    BY <2>2, <2>4, <2>5
<1>4. QED
  BY <1>1, <1>2, <1>3

\* What a session shows its client next, if anything, is the chunk after.
ShowsInOrder ==
    \A c \in Console : con'[c].shown # con[c].shown /\ con[c].at # "closed" /\ con'[c].at # "closed"
                           => con'[c].shown = con[c].shown + 1

LEMMA ConsolesStep ==
    ASSUME serial_TypeOK, ConsolesInv, serial_Next \/ UNCHANGED serial_vars
    PROVE  con' \in [Console -> Watching] /\ clock' \in Nat /\ ConsolesInv' /\ ShowsInOrder
<1>t. con \in [Console -> Watching] /\ clock \in Nat
  BY DEF serial_TypeOK
<1>1. CASE con' = con /\ clock' = clock
  BY <1>1, <1>t DEF ConsolesInv, NoGaps, Heard, ShowsInOrder
<1>2. CASE serial_Tick
  <2>1. con' = con /\ clock' = clock + 1 /\ \A c \in Console : ~(con[c].at = "loop" /\ con[c].due <= clock)
    BY <1>2 DEF serial_Tick
  <2>2. ASSUME NEW c \in Console PROVE NoGaps(con[c])' /\ Heard(con[c])'
    <3> DEFINE s == con[c]
    <3>1. s \in Watching /\ NoGaps(s) /\ Heard(s) /\ con'[c] = s
      BY <1>t, <2>1 DEF ConsolesInv
    <3>2. s.last_heartbeat \in Nat /\ s.due \in Nat
      BY <3>1 DEF Watching
    <3>3. /\ s.ponged = s.last_heartbeat /\ s.last_heartbeat <= clock'
          /\ s.due <= clock' + 1 /\ ~(s.due > clock')
      BY <1>t, <2>1, <3>1, <3>2 DEF Heard
    <3>4. Heard(con[c])'
      BY <3>1, <3>3 DEF Heard
    <3>5. NoGaps(con[c])'
      BY <3>1 DEF NoGaps, Pending
    <3>6. QED
      BY <3>4, <3>5
  <2>3. QED
    BY <1>t, <2>1, <2>2 DEF ConsolesInv, ShowsInOrder
<1>3. ASSUME NEW c \in Console, Session(c)
      PROVE  con' \in [Console -> Watching] /\ clock' \in Nat /\ ConsolesInv' /\ ShowsInOrder
  <2>1. PICK r : Becomes(c, r) /\ Follows(r, con[c])
    BY <1>3, SessionStep
  <2>2. clock' = clock
    BY <1>3 DEF Session, handle_ws, open_channel, TypesLine, QueuesLine, Heartbeat, Leaves, handle_command,
                verify_heartbeat, Sent, ClientReads
  <2>3. /\ r \in Watching /\ NoGaps(r) /\ Heard(r)
        /\ r.shown # con[c].shown /\ con[c].at # "closed" /\ r.at # "closed" => r.shown = con[c].shown + 1
    BY <2>1 DEF Follows
  <2>4. con' = [con EXCEPT ![c] = r]
    BY <2>1 DEF Becomes
  <2>5. con' \in [Console -> Watching] /\ con'[c] = r /\ \A d \in Console \ {c} : con'[d] = con[d]
    BY <1>t, <2>3, <2>4
  <2>6. ASSUME NEW d \in Console PROVE NoGaps(con[d])' /\ Heard(con[d])'
    <3>1. con'[d] \in {r, con[d]} /\ NoGaps(con[d]) /\ Heard(con[d])
      BY <2>5 DEF ConsolesInv
    <3>2. CASE con'[d] = r
      BY <2>2, <2>3, <3>2 DEF NoGaps, Heard, Pending
    <3>3. CASE con'[d] = con[d]
      BY <2>2, <3>1, <3>3 DEF NoGaps, Heard, Pending
    <3>4. QED
      BY <3>1, <3>2, <3>3
  <2>7. ShowsInOrder
    BY <2>3, <2>5 DEF ShowsInOrder
  <2>8. QED
    BY <1>t, <2>2, <2>5, <2>6, <2>7 DEF ConsolesInv
<1>4. \/ con' = con /\ clock' = clock
      \/ serial_Tick
      \/ \E c \in Console : Session(c)
  BY DEF serial_Next, SerialConnections_new, run, ReadUart, WorkerExits, TakeLine, WriteUart, legacy_serial_set_handler,
         write, serial_vars
<1>5. QED
  BY <1>1, <1>2, <1>3, <1>4

LEMMA SerialStep == serial_Inv /\ [serial_Next]_serial_vars => serial_Inv' /\ ShowsInOrder
<1> SUFFICES ASSUME serial_Inv, serial_Next \/ UNCHANGED serial_vars PROVE serial_Inv' /\ ShowsInOrder
  OBVIOUS
<1>1. con' \in [Console -> Watching] /\ clock' \in Nat /\ ConsolesInv' /\ ShowsInOrder
  BY ConsolesStep DEF serial_Inv
<1>2. chunks' \in Nat /\ ring' \in Seq(Nat) /\ RingInv'
  BY RingStep DEF serial_Inv, serial_TypeOK
<1>3. LineTypes' /\ LinesInv'
  BY LinesMove, LinesKeepOrder DEF serial_Inv, serial_TypeOK, LineTypes
<1>4. QED
  BY <1>1, <1>2, <1>3 DEF serial_Inv, serial_TypeOK, LineTypes

\* A watched console leaves nothing out: whatever is read, typed, sent and
\* refused, and however slowly the client empties its frames, the chunks it
\* sees follow each other, the node sees the accepted lines in order and once,
\* GET type=uart answers the end of what the node printed, and no session
\* outlives the silence of its client.
THEOREM WatchersMissNothing == serial_Spec => ConsoleIsFaithful
<1> DEFINE step == /\ \A c \in Console : con'[c].shown # con[c].shown /\ con[c].at # "closed" /\ con'[c].at # "closed"
                                             => con'[c].shown = con[c].shown + 1
                   /\ Increasing(uart')
                   /\ \A i \in DOMAIN legacy_serial_get_handler' :
                          legacy_serial_get_handler'[i] = chunks' - Len(legacy_serial_get_handler') + i
<1>1. serial_Inv => SilentIsClosed
  <2> SUFFICES ASSUME serial_Inv, NEW c \in Console, con[c].at = "loop", con[c].due > clock
               PROVE  clock <= con[c].ponged + CLIENT_TIMEOUT
    BY DEF SilentIsClosed
  <2>1. QED
    BY DEF serial_Inv, ConsolesInv, Heard
<1>2. serial_Inv /\ [serial_Next]_serial_vars => step
  <2> SUFFICES ASSUME serial_Inv, [serial_Next]_serial_vars PROVE step
    OBVIOUS
  <2>1. serial_Inv' /\ ShowsInOrder
    BY SerialStep
  <2>2. Increasing(uart')
    <3>1. DOMAIN uart' = 1 .. Len(uart') /\ \A i, j \in 1 .. Len(uart') : i < j => uart'[i] < uart'[j]
      BY <2>1, LenProperties DEF serial_Inv, serial_TypeOK, LinesInv
    <3>2. QED
      BY <3>1 DEF Increasing
  <2>3. ASSUME NEW i \in DOMAIN legacy_serial_get_handler'
        PROVE  legacy_serial_get_handler'[i] = chunks' - Len(legacy_serial_get_handler') + i
    <3>1. DOMAIN ring' = 1 .. Len(ring') /\ \A j \in 1 .. Len(ring') : ring'[j] = chunks' - Len(ring') + j
      BY <2>1, LenProperties DEF serial_Inv, serial_TypeOK, RingInv
    <3>2. CASE started'
      BY <2>3, <3>1, <3>2 DEF legacy_serial_get_handler, read_whole_buffer
    <3>3. CASE ~started'
      <4>1. DOMAIN legacy_serial_get_handler' = {}
        BY <3>3 DEF legacy_serial_get_handler, read_whole_buffer
      <4>2. QED
        BY <2>3, <4>1
    <3>4. QED
      BY <3>2, <3>3
  <2>4. QED
    BY <2>1, <2>2, <2>3 DEF ShowsInOrder
<1>3. serial_Spec => [][step]_serial_vars /\ []SilentIsClosed
  BY <1>1, <1>2, SerialInit, SerialStep, PTL DEF serial_Spec
<1>4. QED
  BY <1>3 DEF ConsoleIsFaithful, ConsoleHasNoGaps

(***************************************************************************)
(* The rules for switch documents: what they let through can be reached.   *)
(***************************************************************************)
\* What a table has of an uplink in a VLAN.
LEMMA TableOfUplinks ==
    ASSUME NEW doc \in SwitchDocuments, NEW up \in UplinkPorts, NEW vid \in Vid
    PROVE  TableOf(doc)[<<up, vid>>] = IF vid \in vlans(doc.ports[up])
                                       THEN IF vid = doc.ports[up].untagged THEN "untagged" ELSE "tagged"
                                       ELSE "out"
<1>1. <<up, vid>> \in TableEntry
  BY DEF TableEntry, UplinkPorts, interface_name, PortId
<1>2. TableOf(doc)[<<up, vid>>] = Membership(doc.ports[up], vid)
  BY <1>1 DEF TableOf
<1>3. vid # NoVid
  BY VidAssumption
<1> QED BY <1>2, <1>3 DEF Membership, vlans

\* Whatever the ports and the VLANs are: the table of a document that filters
\* and is not refused puts an uplink in the untagged VLAN of the BMC, and no VLAN
\* on both uplinks unless the spanning tree is on (validate, put_switch).
THEOREM AcceptedTablesLeaveAWayIn ==
    ASSUME NEW doc \in SwitchDocuments, ~ refusal(doc), doc.vlan_filtering
    PROVE  WayIn(TableOf(doc), doc.ports["bmc"].untagged)
<1> DEFINE management == doc.ports["bmc"].untagged
<1>1. doc.ports["bmc"] \in PortConfig
  BY DEF SwitchDocuments, PortId
<1>2. management \in Vid /\ \E up \in UplinkPorts : management \in vlans(doc.ports[up])
  <2>1. management # NoVid /\ members(doc, management) \cap UplinkPorts # {}
    BY Zenon DEF refusal, LocksOut
  <2>2. management \in Vid
    BY <1>1, <2>1 DEF PortConfig
  <2> QED BY <2>1, <2>2, Zenon DEF members
<1>3. doc.stp \/ \A vid \in Vid : \E up \in UplinkPorts : vid \notin vlans(doc.ports[up])
  BY Zenon DEF refusal, Loops, UplinkPorts
<1>4. TableOf(doc)[<<"stp">>] = OnOff(doc.stp)
  BY DEF TableOf, TableEntry
<1> HIDE DEF management
<1>5. \E up \in UplinkPorts : TableOf(doc)[<<up, management>>] # "out"
  BY <1>2, TableOfUplinks
<1>6. TableOf(doc)[<<"stp">>] = "on" \/ \A vid \in Vid :
          "out" \in {TableOf(doc)[<<up, vid>>] : up \in UplinkPorts}
  <2> SUFFICES ASSUME ~ doc.stp, NEW vid \in Vid
               PROVE  "out" \in {TableOf(doc)[<<up, vid>>] : up \in UplinkPorts}
    BY <1>4 DEF OnOff
  <2>1. PICK up \in UplinkPorts : vid \notin vlans(doc.ports[up])
    BY <1>3
  <2> QED BY <2>1, TableOfUplinks
<1> QED BY <1>5, <1>6 DEF management, WayIn

(***************************************************************************)
(* The commands of a plan, in their order.                                 *)
(***************************************************************************)
\* A list of commands in which no command comes after one it precedes.
Phase(c) ==
    CASE c.op = "vlan_filtering" -> IF c.value = "off" THEN 1 ELSE 4
      [] c.op = "del"            -> 2
      [] c.op \in {"add", "add_pvid"} -> 3
      [] c.op = "stp"            -> 5
Precedes(c, d) ==
    \/ Phase(c) < Phase(d)
    \/ c.op = "add" /\ d.op = "add_pvid" /\ c.port = d.port

\* The list has these commands, each of them once, in the order they must be in.
Lists(list, commands) ==
    /\ list \in Seq(commands)
    /\ \A c \in commands : \E i \in 1 .. Len(list) : list[i] = c
    /\ \A i, j \in 1 .. Len(list) : i < j => list[i] # list[j] /\ ~ Precedes(list[j], list[i])

LinkCmd == [op : {"vlan_filtering", "stp"}, value : {"on", "off"}]
PortCmd == [op : {"del", "add", "add_pvid"}, port : interface_name, vid : Vid]

LEMMA NothingIsListed == Lists(<<>>, {})
  BY DEF Lists

LEMMA OneIsListed == ASSUME NEW condition \in BOOLEAN, NEW c, ~ Precedes(c, c)
                     PROVE  Lists(If(condition, c), IF condition THEN {c} ELSE {})
<1>1. CASE condition
  BY <1>1 DEF If, Lists
<1>2. CASE ~ condition
  BY <1>2, NothingIsListed DEF If
<1> QED BY <1>1, <1>2

LEMMA ListsJoin ==
    ASSUME NEW S, NEW T, NEW a, NEW b, Lists(a, S), Lists(b, T), S \cap T = {},
           \A c \in S, d \in T : ~ Precedes(d, c)
    PROVE  Lists(a \o b, S \cup T)
<1> DEFINE ab == a \o b
<1>1. a \in Seq(S \cup T) /\ b \in Seq(S \cup T)
  BY DEF Lists
<1>2. /\ ab \in Seq(S \cup T) /\ Len(ab) = Len(a) + Len(b) /\ Len(a) \in Nat /\ Len(b) \in Nat
      /\ \A i \in 1 .. Len(ab) : ab[i] = IF i <= Len(a) THEN a[i] ELSE b[i - Len(a)]
  BY <1>1, ConcatProperties, LenProperties
<1> HIDE DEF ab
<1>3. \A i \in 1 .. Len(a) : a[i] \in S
  BY DEF Lists
<1>4. \A i \in 1 .. Len(b) : b[i] \in T
  BY DEF Lists
<1>5. ASSUME NEW c \in S \cup T PROVE \E i \in 1 .. Len(ab) : ab[i] = c
  <2>1. CASE c \in S
    <3>1. PICK i \in 1 .. Len(a) : a[i] = c
      BY <2>1 DEF Lists
    <3>2. i \in 1 .. Len(ab) /\ i <= Len(a)
      BY <1>2
    <3> QED BY <1>2, <3>1, <3>2
  <2>2. CASE c \in T
    <3>1. PICK i \in 1 .. Len(b) : b[i] = c
      BY <2>2 DEF Lists
    <3>2. i + Len(a) \in 1 .. Len(ab) /\ ~ (i + Len(a) <= Len(a)) /\ (i + Len(a)) - Len(a) = i
      BY <1>2
    <3>3. ab[i + Len(a)] = b[i]
      BY <1>2, <3>2
    <3> QED BY <3>1, <3>2, <3>3
  <2> QED BY <2>1, <2>2
<1>6. ASSUME NEW i \in 1 .. Len(ab), NEW j \in 1 .. Len(ab), i < j
      PROVE  ab[i] # ab[j] /\ ~ Precedes(ab[j], ab[i])
  <2>1. CASE j <= Len(a)
    <3>1. i \in 1 .. Len(a) /\ j \in 1 .. Len(a) /\ ab[i] = a[i] /\ ab[j] = a[j]
      BY <1>2, <1>6, <2>1
    <3> QED BY <1>6, <3>1 DEF Lists
  <2>2. CASE i > Len(a)
    <3>1. /\ i - Len(a) \in 1 .. Len(b) /\ j - Len(a) \in 1 .. Len(b) /\ i - Len(a) < j - Len(a)
          /\ ab[i] = b[i - Len(a)] /\ ab[j] = b[j - Len(a)]
      BY <1>2, <1>6, <2>2
    <3>2. \A k, l \in 1 .. Len(b) : k < l => b[k] # b[l] /\ ~ Precedes(b[l], b[k])
      BY DEF Lists
    <3>3. b[i - Len(a)] # b[j - Len(a)] /\ ~ Precedes(b[j - Len(a)], b[i - Len(a)])
      BY <3>1, <3>2
    <3> QED BY <3>1, <3>3
  <2>3. CASE i <= Len(a) /\ j > Len(a)
    <3>1. /\ i \in 1 .. Len(a) /\ j - Len(a) \in 1 .. Len(b)
          /\ ab[i] = a[i] /\ ab[j] = b[j - Len(a)]
      BY <1>2, <2>3
    <3>2. ab[i] \in S /\ ab[j] \in T
      BY <1>3, <1>4, <3>1
    <3> QED BY <3>2
  <2> QED BY <2>1, <2>2, <2>3, <1>2
<1> QED BY <1>2, <1>5, <1>6 DEF Lists, ab

\* One port is before another, and one command of a loop before another.
LEMMA PortsHavePlaces ==
    ASSUME NEW p \in PortId, NEW q \in PortId
    PROVE  Place(p) \in Nat /\ (p # q => Place(p) < Place(q) \/ Place(q) < Place(p))
<1>1. \A r \in PortId : Place(r) \in DOMAIN PortOrder /\ PortOrder[Place(r)] = r
  BY PortOrderAssumption DEF Place
<1>2. DOMAIN PortOrder = 1 .. Len(PortOrder) /\ Len(PortOrder) \in Nat
  BY PortOrderAssumption, LenProperties
<1> QED BY <1>1, <1>2

LEMMA EarlierIsAnOrder ==
    ASSUME NEW ops, ops \in {{"del"}, {"add", "add_pvid"}},
           NEW S \in SUBSET {c \in PortCmd : c.op \in ops}
    PROVE  /\ \A c \in S : ~ Earlier(c, c)
           /\ \A c, d \in S : c # d => Earlier(c, d) \/ Earlier(d, c)
           /\ \A c, d, e \in S : Earlier(c, d) /\ Earlier(d, e) => Earlier(c, e)
<1>1. \A c \in S : /\ c.port \in PortId /\ c.vid \in Int /\ Place(c.port) \in Nat /\ c.op \in ops
                   /\ \/ c.op = "del" /\ ops = {"del"}
                      \/ c.op \in {"add", "add_pvid"} /\ ops = {"add", "add_pvid"}
  BY PortsHavePlaces, VidAssumption DEF PortCmd, interface_name
<1>2. ASSUME NEW c \in S PROVE ~ Earlier(c, c)
  BY <1>1 DEF Earlier
<1>3. ASSUME NEW c \in S, NEW d \in S, c # d PROVE Earlier(c, d) \/ Earlier(d, c)
  <2>1. CASE c.port # d.port
    BY <1>1, <2>1, PortsHavePlaces DEF Earlier
  <2>2. CASE c.port = d.port /\ c.op # d.op
    BY <1>1, <2>2 DEF Earlier
  <2>3. CASE c.port = d.port /\ c.op = d.op
    <3>1. c.vid # d.vid
      BY <1>3, <2>3 DEF PortCmd
    <3> QED BY <1>1, <2>3, <3>1 DEF Earlier
  <2> QED BY <2>1, <2>2, <2>3
<1>4. ASSUME NEW c \in S, NEW d \in S, NEW e \in S, Earlier(c, d), Earlier(d, e) PROVE Earlier(c, e)
  BY <1>1, <1>4 DEF Earlier
<1> QED BY <1>2, <1>3, <1>4

\* Everything has its place by the number of those before it.
LEMMA InOrderLists ==
    ASSUME NEW ops, ops \in {{"del"}, {"add", "add_pvid"}},
           NEW S \in SUBSET {c \in PortCmd : c.op \in ops}, IsFiniteSet(S)
    PROVE  Lists(InOrder(S), S)
<1> DEFINE rank == [c \in S |-> Cardinality({d \in S : Earlier(d, c)})]
           n == Cardinality(S)
           list == InOrder(S)
<1>1. n \in Nat
  BY FS_CardinalityType
<1>2. ASSUME NEW c \in S PROVE IsFiniteSet({d \in S : Earlier(d, c)}) /\ rank[c] \in 0 .. n - 1
  <2>1. {d \in S : Earlier(d, c)} \in SUBSET S /\ c \notin {d \in S : Earlier(d, c)}
    BY EarlierIsAnOrder
  <2>2. /\ IsFiniteSet({d \in S : Earlier(d, c)}) /\ Cardinality({d \in S : Earlier(d, c)}) <= n
        /\ Cardinality({d \in S : Earlier(d, c)}) # n
    BY <2>1, FS_Subset
  <2> QED BY <2>2, <1>1, FS_CardinalityType
<1>3. ASSUME NEW c \in S, NEW d \in S, Earlier(c, d) PROVE rank[c] < rank[d]
  <2> DEFINE A == {e \in S : Earlier(e, c)}
             B == {e \in S : Earlier(e, d)}
  <2>1. A \in SUBSET B /\ c \in B /\ c \notin A
    BY <1>3, EarlierIsAnOrder
  <2>2. IsFiniteSet(A) /\ IsFiniteSet(B)
    BY <1>2
  <2> HIDE DEF A, B
  <2>3. Cardinality(A) <= Cardinality(B) /\ Cardinality(A) # Cardinality(B)
    BY <2>1, <2>2, FS_Subset
  <2>4. Cardinality(A) \in Nat /\ Cardinality(B) \in Nat
    BY <2>2, FS_CardinalityType
  <2> QED BY <2>3, <2>4 DEF A, B
<1> HIDE DEF rank
<1>4. \A c, d \in S : c # d => rank[c] # rank[d]
  <2> SUFFICES ASSUME NEW c \in S, NEW d \in S, c # d PROVE rank[c] # rank[d]
    OBVIOUS
  <2>1. Earlier(c, d) \/ Earlier(d, c)
    BY EarlierIsAnOrder
  <2>2. rank[c] < rank[d] \/ rank[d] < rank[c]
    BY <1>3, <2>1
  <2>3. rank[c] \in 0 .. n - 1 /\ rank[d] \in 0 .. n - 1
    BY <1>2
  <2> QED BY <1>1, <2>2, <2>3
<1>5. rank \in Injection(S, 0 .. n - 1)
  <2>1. rank = [c \in S |-> rank[c]]
    BY DEF rank
  <2>2. rank \in [S -> 0 .. n - 1]
    BY <2>1, <1>2
  <2> QED BY <2>2, <1>4 DEF Injection, IsInjective
<1>6. IsFiniteSet(0 .. n - 1) /\ Cardinality(0 .. n - 1) = n
  <2> HIDE DEF n
  <2>1. 0 \in Int /\ n - 1 \in Int
    BY <1>1
  <2>2. IsFiniteSet(0 .. n - 1) /\ Cardinality(0 .. n - 1) = IF 0 > n - 1 THEN 0 ELSE ((n - 1) - 0) + 1
    BY <2>1, FS_Interval
  <2> QED BY <1>1, <2>2
<1>7. rank \in Surjection(S, 0 .. n - 1)
  BY <1>5, <1>6, FS_Injection
<1>8. ASSUME NEW i \in 1 .. n PROVE list[i] \in S /\ rank[list[i]] = i - 1
  <2>1. i - 1 \in 0 .. n - 1
    BY <1>1
  <2>2. \E c \in S : rank[c] = i - 1
    BY <1>7, <2>1 DEF Surjection
  <2>3. list[i] = CHOOSE c \in S : Cardinality({d \in S : Earlier(d, c)}) = i - 1
    BY DEF InOrder
  <2> QED BY <2>2, <2>3 DEF rank
<1>9. list \in Seq(S) /\ Len(list) = n
  <2> DEFINE at(i) == CHOOSE c \in S : Cardinality({d \in S : Earlier(d, c)}) = i - 1
  <2>3. list = [i \in 1 .. n |-> at(i)]
    BY DEF InOrder
  <2> HIDE DEF at, list
  <2>1. list = [i \in 1 .. n |-> list[i]]
    BY <2>3
  <2>2. list \in [1 .. n -> S]
    BY <2>1, <1>8
  <2> QED BY <1>1, <2>2, LenProperties
<1> HIDE DEF list, n
<1>10. ASSUME NEW c \in S PROVE \E i \in 1 .. Len(list) : list[i] = c
  <2>1. rank[c] \in 0 .. n - 1
    BY <1>2
  <2>2. rank[c] + 1 \in 1 .. n /\ (rank[c] + 1) - 1 = rank[c]
    BY <1>1, <2>1
  <2>3. list[rank[c] + 1] = c
    BY <1>4, <1>8, <2>2
  <2> QED BY <1>9, <2>2, <2>3
<1>11. ASSUME NEW i \in 1 .. Len(list), NEW j \in 1 .. Len(list), i < j
       PROVE  list[i] # list[j] /\ ~ Precedes(list[j], list[i])
  <2>1. /\ list[i] \in S /\ list[j] \in S /\ rank[list[i]] < rank[list[j]]
        /\ rank[list[i]] \in Int /\ rank[list[j]] \in Int
    BY <1>8, <1>9, <1>1, <1>11
  <2>2. ~ Earlier(list[j], list[i])
    BY <1>3, <2>1
  <2>3. Precedes(list[j], list[i]) => Earlier(list[j], list[i])
    <3>1. Phase(list[j]) = Phase(list[i]) /\ Phase(list[i]) \in {2, 3}
      BY <2>1 DEF Phase
    <3> QED BY <3>1 DEF Precedes, Earlier
  <2> QED BY <2>1, <2>2, <2>3
<1> QED BY <1>9, <1>10, <1>11 DEF Lists, list

\* All the ports are in PortOrder, and a VLAN identifier is a u16: there are
\* finitely many commands.
LEMMA CommandsAreFinite == IsFiniteSet(PortCmd)
<1> DEFINE ops == {"del", "add", "add_pvid"}
           at == [i \in 1 .. Len(PortOrder) |-> PortOrder[i]]
           triples == (ops \X interface_name) \X Vid
           make == [t \in triples |-> [op |-> t[1][1], port |-> t[1][2], vid |-> t[2]]]
<1>1. IsFiniteSet(interface_name)
  <2>1. DOMAIN PortOrder = 1 .. Len(PortOrder) /\ Len(PortOrder) \in Nat
    BY PortOrderAssumption, LenProperties
  <2>2. at \in Surjection(1 .. Len(PortOrder), PortId)
    BY <2>1, PortOrderAssumption DEF Surjection
  <2>3. IsFiniteSet(1 .. Len(PortOrder))
    BY <2>1, FS_Interval
  <2>4. IsFiniteSet(PortId)
    BY <2>2, <2>3, FS_Surjection
  <2> QED BY <2>4, FS_Subset DEF interface_name
<1>2. IsFiniteSet(ops)
  <2>1. IsFiniteSet({"del"}) /\ ops = ({"del"} \cup {"add"}) \cup {"add_pvid"}
    BY FS_Singleton
  <2>2. IsFiniteSet({"del"} \cup {"add"})
    BY <2>1, FS_AddElement
  <2> HIDE DEF ops
  <2> QED BY <2>1, <2>2, FS_AddElement
<1>3. IsFiniteSet(triples)
  <2>1. IsFiniteSet(ops \X interface_name)
    BY <1>1, <1>2, FS_Product
  <2> HIDE DEF ops
  <2> QED BY <2>1, VidsAreFinite, FS_Product
<1>4. make \in Surjection(triples, PortCmd)
  <2>1. make \in [triples -> PortCmd]
    BY DEF PortCmd
  <2>2. ASSUME NEW c \in PortCmd PROVE \E t \in triples : make[t] = c
    <3>1. <<<<c.op, c.port>>, c.vid>> \in triples /\ make[<<<<c.op, c.port>>, c.vid>>] = c
      BY DEF PortCmd
    <3> QED BY <3>1
  <2> QED BY <2>1, <2>2 DEF Surjection
<1> QED BY <1>3, <1>4, FS_Surjection

(***************************************************************************)
(* The commands of a plan, and what they write.                            *)
(***************************************************************************)
Links(option, was, now) == IF was # now THEN {SetLink(option, now)} ELSE {}
Commands(was, now) ==
    Links("vlan_filtering", was.vlan_filtering, now.vlan_filtering)
    \cup Deletes(was, now) \cup Adds(was, now)
    \cup Links("stp", was.stp, now.stp)

LEMMA InDeletes ==
    ASSUME NEW was, NEW now, NEW c
    PROVE  c \in Deletes(was, now) <=>
               \E p \in interface_name : \E vid \in vlans(was.ports[p]) \ vlans(now.ports[p]) :
                   c = VlanCmd("del", p, vid)
  BY DEF Deletes, OnVlans

LEMMA InAdds ==
    ASSUME NEW was, NEW now, NEW c
    PROVE  c \in Adds(was, now) <=>
               \E p \in interface_name :
                   \/ \E vid \in now.ports[p].tagged \ was.ports[p].tagged : c = VlanCmd("add", p, vid)
                   \/ \E vid \in {now.ports[p].untagged} \ {NoVid, was.ports[p].untagged} :
                          c = VlanCmd("add_pvid", p, vid)
  BY DEF Adds, OnVlans

\* Of each port and VLAN, whichever loop it is.
LEMMA KindsOfCommands ==
    ASSUME NEW was \in SwitchDocuments, NEW now \in SwitchDocuments
    PROVE  /\ Deletes(was, now) \in SUBSET {c \in PortCmd : c.op \in {"del"}}
           /\ Adds(was, now) \in SUBSET {c \in PortCmd : c.op \in {"add", "add_pvid"}}
           /\ \A c \in Commands(was, now) :
                 c \in LinkCmd \/ c \in Deletes(was, now) \/ c \in Adds(was, now)
<1>1. \A p \in interface_name : was.ports[p] \in PortConfig /\ now.ports[p] \in PortConfig
  BY DEF SwitchDocuments, interface_name
<1>2. ASSUME NEW c \in Deletes(was, now) PROVE c \in PortCmd /\ c.op = "del"
  <2>1. PICK p \in interface_name : \E vid \in vlans(was.ports[p]) \ vlans(now.ports[p]) : c = VlanCmd("del", p, vid)
    BY InDeletes
  <2>3. PICK vid \in vlans(was.ports[p]) \ vlans(now.ports[p]) : c = VlanCmd("del", p, vid)
    BY <2>1
  <2>2. vid \in Vid
    BY <1>1 DEF vlans, PortConfig
  <2> QED BY <2>2, <2>3 DEF VlanCmd, PortCmd
<1>3. ASSUME NEW c \in Adds(was, now) PROVE c \in PortCmd /\ c.op \in {"add", "add_pvid"}
  <2>1. PICK p \in interface_name :
            \/ \E vid \in now.ports[p].tagged \ was.ports[p].tagged : c = VlanCmd("add", p, vid)
            \/ \E vid \in {now.ports[p].untagged} \ {NoVid, was.ports[p].untagged} : c = VlanCmd("add_pvid", p, vid)
    BY InAdds
  <2>2. \E vid \in Vid : c = VlanCmd("add", p, vid) \/ c = VlanCmd("add_pvid", p, vid)
    BY <1>1, <2>1 DEF PortConfig
  <2> QED BY <2>2 DEF VlanCmd, PortCmd
<1>4. ASSUME NEW c \in Commands(was, now)
      PROVE  c \in LinkCmd \/ c \in Deletes(was, now) \/ c \in Adds(was, now)
  BY DEF Commands, Links, SetLink, LinkCmd, OnOff
<1> QED BY <1>2, <1>3, <1>4

\* plan() puts them in the order they must be in.
LEMMA PlanLists ==
    ASSUME NEW was \in SwitchDocuments, NEW now \in SwitchDocuments
    PROVE  Lists(plan(was, now), Commands(was, now))
<1> DEFINE turnsOff == was.vlan_filtering /\ ~ now.vlan_filtering
           turnsOn == ~ was.vlan_filtering /\ now.vlan_filtering
           off == SetLink("vlan_filtering", FALSE)
           on == SetLink("vlan_filtering", TRUE)
           stp == SetLink("stp", now.stp)
           A == IF turnsOff THEN {off} ELSE {}
           B == Deletes(was, now)
           C == Adds(was, now)
           D == IF turnsOn THEN {on} ELSE {}
           E == IF was.stp # now.stp THEN {stp} ELSE {}
<1>1. was.vlan_filtering \in BOOLEAN /\ now.vlan_filtering \in BOOLEAN /\ was.stp \in BOOLEAN /\ now.stp \in BOOLEAN
  BY DEF SwitchDocuments
<1>2. /\ Lists(If(turnsOff, off), A) /\ Lists(If(turnsOn, on), D) /\ Lists(If(was.stp # now.stp, stp), E)
      /\ \A c \in A : Phase(c) = 1 /\ c.op = "vlan_filtering"
      /\ \A c \in D : Phase(c) = 4 /\ c.op = "vlan_filtering"
      /\ \A c \in E : Phase(c) = 5 /\ c.op = "stp"
  <2>1. /\ Phase(off) = 1 /\ Phase(on) = 4 /\ Phase(stp) = 5
        /\ off.op = "vlan_filtering" /\ on.op = "vlan_filtering" /\ stp.op = "stp"
    BY DEF SetLink, Phase, OnOff
  <2> HIDE DEF off, on, stp
  <2>2. ~ Precedes(off, off) /\ ~ Precedes(on, on) /\ ~ Precedes(stp, stp)
    BY <2>1 DEF Precedes
  <2>3. turnsOff \in BOOLEAN /\ turnsOn \in BOOLEAN /\ (was.stp # now.stp) \in BOOLEAN
    OBVIOUS
  <2> QED BY <2>1, <2>2, <2>3, OneIsListed
<1>3. /\ Lists(InOrder(B), B) /\ Lists(InOrder(C), C)
      /\ \A c \in B : Phase(c) = 2 /\ c.op = "del"
      /\ \A c \in C : Phase(c) = 3 /\ c.op \in {"add", "add_pvid"}
  <2>1. B \in SUBSET {c \in PortCmd : c.op \in {"del"}} /\ C \in SUBSET {c \in PortCmd : c.op \in {"add", "add_pvid"}}
    BY KindsOfCommands
  <2> HIDE DEF B, C
  <2>2. B \in SUBSET PortCmd /\ C \in SUBSET PortCmd
    BY <2>1
  <2>3. IsFiniteSet(B) /\ IsFiniteSet(C)
    BY <2>2, CommandsAreFinite, FS_Subset
  <2>4. Lists(InOrder(B), B) /\ Lists(InOrder(C), C)
    BY <2>1, <2>3, InOrderLists
  <2> QED BY <2>1, <2>4 DEF Phase
<1>4. plan(was, now) =
          (((If(turnsOff, off) \o InOrder(B)) \o InOrder(C)) \o If(turnsOn, on)) \o If(was.stp # now.stp, stp)
  BY DEF plan
<1>5. Commands(was, now) = (((A \cup B) \cup C) \cup D) \cup E
  BY <1>1 DEF Commands, Links
<1> HIDE DEF A, B, C, D, E, off, on, stp, turnsOff, turnsOn
<1>6. Lists(If(turnsOff, off) \o InOrder(B), A \cup B)
  <2>1. A \cap B = {} /\ \A c \in A, d \in B : ~ Precedes(d, c)
    BY <1>2, <1>3 DEF Precedes
  <2> QED BY <1>2, <1>3, <2>1, ListsJoin
<1>7. Lists((If(turnsOff, off) \o InOrder(B)) \o InOrder(C), (A \cup B) \cup C)
  <2>1. (A \cup B) \cap C = {} /\ \A c \in A \cup B, d \in C : ~ Precedes(d, c)
    BY <1>2, <1>3 DEF Precedes
  <2> QED BY <1>3, <1>6, <2>1, ListsJoin
<1>8. Lists(((If(turnsOff, off) \o InOrder(B)) \o InOrder(C)) \o If(turnsOn, on), ((A \cup B) \cup C) \cup D)
  <2>1. ((A \cup B) \cup C) \cap D = {} /\ \A c \in (A \cup B) \cup C, d \in D : ~ Precedes(d, c)
    BY <1>2, <1>3 DEF Precedes
  <2> QED BY <1>2, <1>7, <2>1, ListsJoin
<1>9. (((A \cup B) \cup C) \cup D) \cap E = {} /\ \A c \in ((A \cup B) \cup C) \cup D, d \in E : ~ Precedes(d, c)
  BY <1>2, <1>3 DEF Precedes
<1> QED BY <1>2, <1>4, <1>5, <1>8, <1>9, ListsJoin

\* The setting a command writes, and what it writes to it.
Setting(c) == IF c.op \in {"vlan_filtering", "stp"} THEN <<c.op>> ELSE <<c.port, c.vid>>
Value(c) ==
    CASE c.op \in {"vlan_filtering", "stp"} -> c.value
      [] c.op = "del"      -> "out"
      [] c.op = "add"      -> "tagged"
      [] c.op = "add_pvid" -> "untagged"

LEMMA CommandsRun ==
    ASSUME NEW table, NEW c \in LinkCmd \cup PortCmd
    PROVE  RunCommand(table, c) = [table EXCEPT ![Setting(c)] = Value(c)]
  BY DEF RunCommand, Setting, Value, LinkCmd, PortCmd

\* What a table has of a port in a VLAN, and of the bridge.
LEMMA TableOfPorts ==
    ASSUME NEW doc \in SwitchDocuments, ~ refusal(doc), NEW p \in interface_name, NEW vid \in Vid
    PROVE  /\ <<p, vid>> \in TableEntry
           /\ TableOf(doc)[<<p, vid>>] = IF vid \in doc.ports[p].tagged THEN "tagged"
                                         ELSE IF vid = doc.ports[p].untagged THEN "untagged" ELSE "out"
<1>1. <<p, vid>> \in TableEntry
  BY DEF TableEntry
<1>2. TableOf(doc)[<<p, vid>>] = Membership(doc.ports[p], vid)
  BY <1>1 DEF TableOf
<1>3. doc.ports[p].untagged \notin doc.ports[p].tagged
  BY DEF refusal, IllFormed, interface_name
<1> QED BY <1>1, <1>2, <1>3 DEF Membership

LEMMA TableOfLinks ==
    ASSUME NEW doc
    PROVE  /\ <<"vlan_filtering">> \in TableEntry /\ <<"stp">> \in TableEntry
           /\ TableOf(doc)[<<"vlan_filtering">>] = OnOff(doc.vlan_filtering)
           /\ TableOf(doc)[<<"stp">>] = OnOff(doc.stp)
  BY DEF TableOf, TableEntry

LEMMA TableTypes == ASSUME NEW doc PROVE TableOf(doc) \in [TableEntry -> TableValue]
<1>1. ASSUME NEW s \in TableEntry PROVE TableOf(doc)[s] \in TableValue
  BY DEF TableOf, TableValue, OnOff, Membership
<1> QED BY <1>1 DEF TableOf

\* Each command writes a setting the two documents differ in, and what the
\* wanted one has there.
LEMMA CommandsWriteTheDifference ==
    ASSUME NEW was \in SwitchDocuments, NEW now \in SwitchDocuments, ~ refusal(was), ~ refusal(now),
           NEW c \in Commands(was, now)
    PROVE  /\ c \in LinkCmd \cup PortCmd
           /\ Setting(c) \in Written(TableOf(was), TableOf(now))
           /\ Value(c) = TableOf(now)[Setting(c)]
<1>0. DOMAIN TableOf(now) = TableEntry
  BY DEF TableOf
<1>1. CASE c \in LinkCmd
  <2>1. \/ c = SetLink("vlan_filtering", now.vlan_filtering) /\ was.vlan_filtering # now.vlan_filtering
        \/ c = SetLink("stp", now.stp) /\ was.stp # now.stp
    <3>1. c \notin Deletes(was, now) /\ c \notin Adds(was, now)
      BY <1>1, KindsOfCommands DEF LinkCmd
    <3> QED BY <3>1 DEF Commands, Links
  <2>2. was.vlan_filtering \in BOOLEAN /\ now.vlan_filtering \in BOOLEAN /\ was.stp \in BOOLEAN /\ now.stp \in BOOLEAN
    BY DEF SwitchDocuments
  <2>3. Setting(c) \in TableEntry /\ TableOf(was)[Setting(c)] # TableOf(now)[Setting(c)]
        /\ Value(c) = TableOf(now)[Setting(c)]
    BY <2>1, <2>2, TableOfLinks DEF SetLink, Setting, Value, OnOff
  <2> QED BY <1>0, <1>1, <2>3 DEF Written
<1>2. CASE c \in Deletes(was, now)
  <2>1. PICK p \in interface_name : \E vid \in vlans(was.ports[p]) \ vlans(now.ports[p]) : c = VlanCmd("del", p, vid)
    BY <1>2, InDeletes
  <2>5. PICK vid \in vlans(was.ports[p]) \ vlans(now.ports[p]) : c = VlanCmd("del", p, vid)
    BY <2>1
  <2>2. c \in PortCmd
    BY <1>2, KindsOfCommands
  <2>3. Setting(c) = <<p, vid>> /\ Value(c) = "out" /\ vid \in Vid
    BY <2>5, <2>2 DEF VlanCmd, Setting, Value, PortCmd
  <2>6. vid # NoVid
    BY <2>3, VidAssumption
  <2>4. TableOf(now)[<<p, vid>>] = "out" /\ TableOf(was)[<<p, vid>>] # "out" /\ <<p, vid>> \in TableEntry
    BY <2>3, <2>6, TableOfPorts DEF vlans
  <2> QED BY <1>0, <2>2, <2>3, <2>4 DEF Written
<1>3. CASE c \in Adds(was, now)
  <2>1. PICK p \in interface_name :
            \/ \E vid \in now.ports[p].tagged \ was.ports[p].tagged : c = VlanCmd("add", p, vid)
            \/ \E vid \in {now.ports[p].untagged} \ {NoVid, was.ports[p].untagged} : c = VlanCmd("add_pvid", p, vid)
    BY <1>3, InAdds
  <2>2. c \in PortCmd
    BY <1>3, KindsOfCommands
  <2>3. now.ports[p].untagged \notin now.ports[p].tagged
    BY DEF refusal, IllFormed, interface_name
  <2>4. CASE \E vid \in now.ports[p].tagged \ was.ports[p].tagged : c = VlanCmd("add", p, vid)
    <3>1. PICK vid \in now.ports[p].tagged \ was.ports[p].tagged : c = VlanCmd("add", p, vid)
      BY <2>4
    <3>2. Setting(c) = <<p, vid>> /\ Value(c) = "tagged" /\ vid \in Vid
      BY <3>1, <2>2 DEF VlanCmd, Setting, Value, PortCmd
    <3>3. TableOf(now)[<<p, vid>>] = "tagged" /\ TableOf(was)[<<p, vid>>] # "tagged" /\ <<p, vid>> \in TableEntry
      BY <3>2, TableOfPorts
    <3> QED BY <1>0, <2>2, <3>2, <3>3 DEF Written
  <2>5. CASE \E vid \in {now.ports[p].untagged} \ {NoVid, was.ports[p].untagged} : c = VlanCmd("add_pvid", p, vid)
    <3>1. PICK vid \in {now.ports[p].untagged} \ {NoVid, was.ports[p].untagged} : c = VlanCmd("add_pvid", p, vid)
      BY <2>5
    <3>2. Setting(c) = <<p, vid>> /\ Value(c) = "untagged" /\ vid \in Vid
      BY <3>1, <2>2 DEF VlanCmd, Setting, Value, PortCmd
    <3>3. TableOf(now)[<<p, vid>>] = "untagged" /\ TableOf(was)[<<p, vid>>] # "untagged" /\ <<p, vid>> \in TableEntry
      BY <2>3, <3>2, TableOfPorts
    <3> QED BY <1>0, <2>2, <3>2, <3>3 DEF Written
  <2> QED BY <2>1, <2>4, <2>5
<1> QED BY <1>1, <1>2, <1>3, KindsOfCommands

\* No two commands write the same setting.
LEMMA EachSettingOnce ==
    ASSUME NEW was \in SwitchDocuments, NEW now \in SwitchDocuments, ~ refusal(was), ~ refusal(now),
           NEW c \in Commands(was, now), NEW d \in Commands(was, now), Setting(c) = Setting(d)
    PROVE  c = d
<1>1. Value(c) = Value(d) /\ c \in LinkCmd \cup PortCmd /\ d \in LinkCmd \cup PortCmd
  BY CommandsWriteTheDifference
<1>2. CASE c \in LinkCmd /\ d \in LinkCmd
  BY <1>1, <1>2 DEF Setting, Value, LinkCmd
<1>3. CASE c \in PortCmd /\ d \in PortCmd
  <2>1. c.port = d.port /\ c.vid = d.vid
    BY <1>3 DEF Setting, PortCmd
  <2>2. c.op = d.op
    BY <1>1, <1>3 DEF Value, PortCmd
  <2> QED BY <1>3, <2>1, <2>2 DEF PortCmd
<1>4. CASE ~ (c \in LinkCmd /\ d \in LinkCmd) /\ ~ (c \in PortCmd /\ d \in PortCmd)
  <2>1. \/ Setting(c) = <<c.op>> /\ Setting(d) = <<d.port, d.vid>>
        \/ Setting(d) = <<d.op>> /\ Setting(c) = <<c.port, c.vid>>
    BY <1>1, <1>4 DEF Setting, LinkCmd, PortCmd
  <2> QED BY <2>1
<1> QED BY <1>2, <1>3, <1>4

\* Every setting the documents differ in has its command.
LEMMA DifferenceHasItsCommands ==
    ASSUME NEW was \in SwitchDocuments, NEW now \in SwitchDocuments, ~ refusal(was), ~ refusal(now),
           NEW s \in Written(TableOf(was), TableOf(now))
    PROVE  \E c \in Commands(was, now) : Setting(c) = s
<1>1. s \in TableEntry /\ TableOf(was)[s] # TableOf(now)[s]
  BY DEF Written, TableOf
<1>2. CASE s \in {<<"vlan_filtering">>, <<"stp">>}
  <2>1. /\ s = <<"vlan_filtering">> => was.vlan_filtering # now.vlan_filtering
        /\ s = <<"stp">> => was.stp # now.stp
    BY <1>1, TableOfLinks
  <2>2. CASE s = <<"vlan_filtering">>
    <3>1. SetLink("vlan_filtering", now.vlan_filtering) \in Commands(was, now)
      BY <2>1, <2>2 DEF Commands, Links
    <3>2. Setting(SetLink("vlan_filtering", now.vlan_filtering)) = s
      BY <2>2 DEF Setting, SetLink
    <3> QED BY <3>1, <3>2
  <2>3. CASE s = <<"stp">>
    <3>1. SetLink("stp", now.stp) \in Commands(was, now)
      BY <2>1, <2>3 DEF Commands, Links
    <3>2. Setting(SetLink("stp", now.stp)) = s
      BY <2>3 DEF Setting, SetLink
    <3> QED BY <3>1, <3>2
  <2> QED BY <1>2, <2>2, <2>3
<1>3. CASE s \in interface_name \X Vid
  <2>1. PICK p \in interface_name, vid \in Vid : s = <<p, vid>>
    BY <1>3
  <2>2. vid # NoVid
    BY VidAssumption
  <2>3. \A op \in {"del", "add", "add_pvid"} : Setting(VlanCmd(op, p, vid)) = s
    BY <2>1 DEF Setting, VlanCmd
  <2>4. /\ TableOf(was)[s] = IF vid \in was.ports[p].tagged THEN "tagged"
                             ELSE IF vid = was.ports[p].untagged THEN "untagged" ELSE "out"
        /\ TableOf(now)[s] = IF vid \in now.ports[p].tagged THEN "tagged"
                             ELSE IF vid = now.ports[p].untagged THEN "untagged" ELSE "out"
    BY <2>1, TableOfPorts
  <2>5. CASE vid \in now.ports[p].tagged
    <3>1. vid \notin was.ports[p].tagged
      BY <1>1, <2>4, <2>5
    <3>2. VlanCmd("add", p, vid) \in Adds(was, now)
      BY <2>5, <3>1, InAdds
    <3> QED BY <2>3, <3>2 DEF Commands
  <2>6. CASE vid \notin now.ports[p].tagged /\ vid = now.ports[p].untagged
    <3>1. vid # was.ports[p].untagged \/ vid \in was.ports[p].tagged
      BY <1>1, <2>4, <2>6
    <3>2. was.ports[p].untagged \notin was.ports[p].tagged
      BY DEF refusal, IllFormed, interface_name
    <3>3. VlanCmd("add_pvid", p, vid) \in Adds(was, now)
      BY <2>2, <2>6, <3>1, <3>2, InAdds
    <3> QED BY <2>3, <3>3 DEF Commands
  <2>7. CASE vid \notin now.ports[p].tagged /\ vid # now.ports[p].untagged
    <3>1. vid \in vlans(was.ports[p]) \ vlans(now.ports[p])
      BY <1>1, <2>2, <2>4, <2>7 DEF vlans
    <3>2. VlanCmd("del", p, vid) \in Deletes(was, now)
      BY <3>1, InDeletes
    <3> QED BY <2>3, <3>2 DEF Commands
  <2> QED BY <2>5, <2>6, <2>7
<1> QED BY <1>1, <1>2, <1>3 DEF TableEntry

(***************************************************************************)
(* The commands as they are run.                                           *)
(***************************************************************************)
Left == {todo[i] : i \in 1 .. Len(todo)}
Difference == Written(TableOf(running), TableOf(wanted))

\* The commands that are left are the last ones of the plan, and the bridge has
\* been written where the others write, and nowhere else.
PlanInv ==
    /\ running \in SwitchDocuments /\ wanted \in SwitchDocuments
    /\ ~ refusal(running) /\ ~ refusal(wanted)
    /\ Lists(todo, Left) /\ Left \subseteq Commands(running, wanted)
    /\ \A c \in Left, d \in Commands(running, wanted) : Precedes(c, d) => d \in Left
    /\ before \in [TableEntry -> TableValue]
    /\ bridge = Write(before, TableOf(wanted), Difference \ {Setting(c) : c \in Left})

LEMMA PlanInit == plan_Init => PlanInv
<1> SUFFICES ASSUME plan_Init PROVE PlanInv
  OBVIOUS
<1>1. /\ running \in SwitchDocuments /\ wanted \in SwitchDocuments
      /\ ~ refusal(running) /\ ~ refusal(wanted)
  BY ProposedAssumption DEF plan_Init, Acceptable
<1>2. Lists(todo, Commands(running, wanted))
  BY <1>1, PlanLists DEF plan_Init
<1>3. Left = Commands(running, wanted)
  BY <1>2, ElementOfSeq DEF Left, Lists
<1>4. before \in [TableEntry -> TableValue] /\ bridge = before
  BY TableTypes DEF plan_Init
<1>5. Difference \ {Setting(c) : c \in Left} = {}
  BY <1>1, <1>3, DifferenceHasItsCommands DEF Difference
<1>6. bridge = Write(before, TableOf(wanted), Difference \ {Setting(c) : c \in Left})
  BY <1>4, <1>5 DEF Write
<1> QED BY <1>1, <1>2, <1>3, <1>4, <1>6 DEF PlanInv

\* The command that is run is one of the plan, none that precedes it is left,
\* and it is the only one that is not left any more.
LEMMA HeadIsRun ==
    ASSUME PlanInv, RunNext
    PROVE  LET c == Head(todo) IN
           /\ c \in Left /\ Left' = Left \ {c} /\ Lists(todo', Left')
           /\ \A d \in Left : ~ Precedes(d, c) \/ d = c
           /\ bridge' = [bridge EXCEPT ![Setting(c)] = TableOf(wanted)[Setting(c)]]
           /\ UNCHANGED <<running, wanted, before>>
<1> DEFINE c == Head(todo)
<1>1. todo # <<>> /\ todo' = Tail(todo) /\ bridge' = RunCommand(bridge, c) /\ UNCHANGED <<running, wanted, before>>
  BY DEF RunNext
<1>2. todo \in Seq(Left) /\ Len(todo) \in Nat \ {0}
  BY <1>1, LenProperties, EmptySeq DEF PlanInv, Lists
<1>3. c = todo[1] /\ c \in Left
  BY <1>2, HeadTailProperties, LenProperties DEF Left
<1>4. /\ todo' \in Seq(Left) /\ Len(todo') = Len(todo) - 1
      /\ \A i \in 1 .. Len(todo') : todo'[i] = todo[i + 1]
  BY <1>1, <1>2, HeadTailProperties
<1>5. \A i, j \in 1 .. Len(todo) : i < j => todo[i] # todo[j] /\ ~ Precedes(todo[j], todo[i])
  BY DEF PlanInv, Lists
<1> HIDE DEF c
<1>6. Left' = Left \ {c}
  <2>1. ASSUME NEW d \in Left' PROVE d \in Left \ {c}
    <3>1. PICK i \in 1 .. Len(todo') : d = todo'[i]
      BY DEF Left
    <3>2. i + 1 \in 1 .. Len(todo) /\ 1 \in 1 .. Len(todo) /\ 1 < i + 1 /\ d = todo[i + 1]
      BY <1>2, <1>4, <3>1
    <3> QED BY <1>3, <1>5, <3>2 DEF Left
  <2>2. ASSUME NEW d \in Left, d # c PROVE d \in Left'
    <3>1. PICK i \in 1 .. Len(todo) : d = todo[i]
      BY DEF Left
    <3>2. i - 1 \in 1 .. Len(todo') /\ (i - 1) + 1 = i
      BY <1>2, <1>3, <1>4, <2>2, <3>1
    <3>3. todo'[i - 1] = d
      BY <1>4, <3>1, <3>2
    <3> QED BY <3>2, <3>3 DEF Left
  <2> QED BY <2>1, <2>2
<1>7. Lists(todo', Left')
  <2>1. todo' \in Seq(Left')
    <3>1. \A i \in 1 .. Len(todo') : todo'[i] \in Left'
      BY DEF Left
    <3> QED BY <1>4, <3>1, LenProperties, ElementOfSeq, SeqDef
  <2>2. ASSUME NEW i \in 1 .. Len(todo'), NEW j \in 1 .. Len(todo'), i < j
        PROVE  todo'[i] # todo'[j] /\ ~ Precedes(todo'[j], todo'[i])
    <3>1. i + 1 \in 1 .. Len(todo) /\ j + 1 \in 1 .. Len(todo) /\ i + 1 < j + 1
      BY <1>2, <1>4, <2>2
    <3> QED BY <1>4, <1>5, <3>1
  <2> QED BY <2>1, <2>2 DEF Lists, Left
<1>8. ASSUME NEW d \in Left, d # c PROVE ~ Precedes(d, c)
  <2>1. PICK i \in 1 .. Len(todo) : d = todo[i]
    BY DEF Left
  <2>2. i # 1
    BY <1>3, <1>8, <2>1
  <2>3. 1 \in 1 .. Len(todo) /\ 1 < i
    BY <1>2, <2>2
  <2> QED BY <1>3, <1>5, <2>1, <2>3
<1>9. bridge' = [bridge EXCEPT ![Setting(c)] = TableOf(wanted)[Setting(c)]]
  <2>1. c \in Commands(running, wanted)
    BY <1>3 DEF PlanInv
  <2>2. c \in LinkCmd \cup PortCmd /\ Value(c) = TableOf(wanted)[Setting(c)]
    BY <2>1, CommandsWriteTheDifference DEF PlanInv
  <2> QED BY <1>1, <2>2, CommandsRun
<1> QED BY <1>1, <1>3, <1>6, <1>7, <1>8, <1>9 DEF c

LEMMA PlanStep == PlanInv /\ [plan_Next]_plan_vars => PlanInv'
<1> SUFFICES ASSUME PlanInv, [plan_Next]_plan_vars PROVE PlanInv'
  OBVIOUS
<1>1. CASE UNCHANGED plan_vars
  BY <1>1 DEF plan_vars, PlanInv, Left, Difference
<1>2. CASE RunNext
  <2> DEFINE c == Head(todo)
             all == Commands(running, wanted)
  <2>1. /\ c \in Left /\ Left' = Left \ {c} /\ Lists(todo', Left')
        /\ \A d \in Left : ~ Precedes(d, c) \/ d = c
        /\ bridge' = [bridge EXCEPT ![Setting(c)] = TableOf(wanted)[Setting(c)]]
        /\ UNCHANGED <<running, wanted, before>>
    BY <1>2, HeadIsRun
  <2> HIDE DEF c
  <2>2. c \in all /\ Setting(c) \in Difference /\ Difference \subseteq TableEntry
    BY <2>1, CommandsWriteTheDifference DEF PlanInv, Difference, Written, TableOf
  <2>3. \A d \in Left : Setting(d) = Setting(c) => d = c
    BY <2>1, EachSettingOnce DEF PlanInv
  <2>4. {Setting(d) : d \in Left'} = {Setting(d) : d \in Left} \ {Setting(c)}
    BY <2>1, <2>3
  <2>5. bridge' = Write(before, TableOf(wanted), Difference \ {Setting(d) : d \in Left'})
    <3> DEFINE done == Difference \ {Setting(d) : d \in Left}
               now == TableOf(wanted)
    <3>1. Difference \ {Setting(d) : d \in Left'} = done \cup {Setting(c)}
      BY <2>2, <2>4
    <3>2. bridge = [s \in TableEntry |-> IF s \in done THEN now[s] ELSE before[s]]
      BY DEF PlanInv, Write
    <3> HIDE DEF done, now
    <3>3. bridge' = [bridge EXCEPT ![Setting(c)] = now[Setting(c)]]
      BY <2>1 DEF now
    <3>4. bridge' = [s \in TableEntry |-> IF s \in done \cup {Setting(c)} THEN now[s] ELSE before[s]]
      BY <2>2, <3>2, <3>3
    <3>5. DOMAIN before = TableEntry
      BY DEF PlanInv
    <3> QED BY <3>1, <3>4, <3>5 DEF Write, now
  <2>6. \A d \in Left', e \in all : Precedes(d, e) => e \in Left'
    BY <2>1 DEF PlanInv
  <2>7. Difference' = Difference
    BY <2>1 DEF Difference
  <2> QED BY <2>1, <2>5, <2>6, <2>7 DEF PlanInv
<1> QED BY <1>1, <1>2 DEF plan_Next

\* What the bridge has of a setting: what it had, or what is wanted.
LEMMA BridgeIsBetween ==
    ASSUME PlanInv, BeliefHeld, NEW s \in TableEntry
    PROVE  /\ bridge[s] = TableOf(running)[s] \/ bridge[s] = TableOf(wanted)[s]
           /\ \A c \in Left : Setting(c) = s => bridge[s] = TableOf(running)[s]
           /\ \A c \in Commands(running, wanted) \ Left : Setting(c) = s => bridge[s] = TableOf(wanted)[s]
<1>1. bridge[s] = IF s \in Difference \ {Setting(c) : c \in Left} THEN TableOf(wanted)[s] ELSE TableOf(running)[s]
  BY DEF PlanInv, Write, BeliefHeld
<1>2. ASSUME NEW c \in Commands(running, wanted) \ Left, Setting(c) = s PROVE bridge[s] = TableOf(wanted)[s]
  <2>1. s \in Difference
    BY <1>2, CommandsWriteTheDifference DEF PlanInv, Difference
  <2>2. s \notin {Setting(d) : d \in Left}
    BY <1>2, EachSettingOnce DEF PlanInv
  <2> QED BY <1>1, <2>1, <2>2
<1>3. ASSUME NEW c \in Left, Setting(c) = s PROVE bridge[s] = TableOf(running)[s]
  BY <1>1, <1>3
<1> QED BY <1>1, <1>2, <1>3

LEMMA WritesTheDifference == PlanInv => PlanWritesTheDifference
<1> SUFFICES ASSUME PlanInv, todo = <<>>
             PROVE  /\ bridge = Put(before, TableOf(running), TableOf(wanted))
                    /\ BeliefHeld => bridge = TableOf(wanted)
  BY DEF PlanWritesTheDifference
<1>1. Left = {}
  BY DEF Left
<1>2. bridge = Put(before, TableOf(running), TableOf(wanted))
  <2>1. Difference \ {Setting(c) : c \in Left} = Difference
    BY <1>1
  <2> QED BY <2>1 DEF PlanInv, Put, Difference
<1>3. ASSUME BeliefHeld PROVE bridge = TableOf(wanted)
  <2> DEFINE was == TableOf(running)
             now == TableOf(wanted)
  <2>1. was \in [TableEntry -> TableValue] /\ now \in [TableEntry -> TableValue]
    BY TableTypes
  <2> HIDE DEF was, now
  <2>2. Put(was, was, now) = now
    BY <2>1 DEF Put, Write, Written
  <2> QED BY <1>2, <1>3, <2>2 DEF BeliefHeld, was, now
<1> QED BY <1>2, <1>3

\* The VLAN that loses its tagless membership is taken away, or given its tag,
\* before the other one gets it.
LEMMA OneUntagged == PlanInv => NeverUntaggedInTwo
<1> SUFFICES ASSUME PlanInv, BeliefHeld, NEW p \in interface_name
             PROVE  Cardinality({vid \in Vid : bridge[<<p, vid>>] = "untagged"}) <= 1
  BY DEF NeverUntaggedInTwo
<1> DEFINE untagged == {vid \in Vid : bridge[<<p, vid>>] = "untagged"}
           from == running.ports[p].untagged
           to == wanted.ports[p].untagged
<1>1. ASSUME NEW vid \in Vid, bridge[<<p, vid>>] = "untagged" PROVE vid \in {from, to}
  BY <1>1, BridgeIsBetween, TableOfPorts DEF PlanInv
<1>2. ASSUME from \in Vid, to \in Vid, from # to,
             bridge[<<p, from>>] = "untagged", bridge[<<p, to>>] = "untagged"
      PROVE  FALSE
  <2> DEFINE add == VlanCmd("add_pvid", p, to)
  <2>1. /\ running.ports[p].untagged \notin running.ports[p].tagged
        /\ wanted.ports[p].untagged \notin wanted.ports[p].tagged
    BY DEF PlanInv, refusal, IllFormed, interface_name
  <2>2. /\ <<p, from>> \in TableEntry /\ <<p, to>> \in TableEntry
        /\ TableOf(running)[<<p, from>>] = "untagged" /\ TableOf(wanted)[<<p, from>>] # "untagged"
        /\ TableOf(running)[<<p, to>>] # "untagged" /\ TableOf(wanted)[<<p, to>>] = "untagged"
    BY <1>2, <2>1, TableOfPorts DEF PlanInv
  <2>3. add \in Commands(running, wanted) /\ Setting(add) = <<p, to>>
    <3>1. to \notin {NoVid, from}
      BY <1>2, VidAssumption
    <3>2. add \in Adds(running, wanted)
      BY <3>1, InAdds
    <3> QED BY <3>2 DEF Commands, Setting, VlanCmd
  <2>4. add \notin Left
    BY <1>2, <2>2, <2>3, BridgeIsBetween
  <2>5. PICK c \in Commands(running, wanted) : Setting(c) = <<p, from>>
    <3>1. <<p, from>> \in Written(TableOf(running), TableOf(wanted))
      BY <2>2 DEF Written, TableOf
    <3> QED BY <3>1, DifferenceHasItsCommands DEF PlanInv
  <2>6. c \in Left
    BY <1>2, <2>2, <2>5, BridgeIsBetween
  <2>7. c \in LinkCmd \cup PortCmd /\ Value(c) = TableOf(wanted)[<<p, from>>]
    BY <2>5, CommandsWriteTheDifference DEF PlanInv
  <2>8. c \in PortCmd
    BY <2>5, <2>7 DEF Setting, LinkCmd
  <2>9. c.port = p /\ c.op \in {"del", "add"}
    BY <2>2, <2>5, <2>7, <2>8 DEF Setting, Value, PortCmd
  <2>10. Precedes(c, add)
    BY <2>9 DEF Precedes, Phase, VlanCmd
  <2> QED BY <2>3, <2>4, <2>6, <2>10 DEF PlanInv
<1>3. untagged = {} \/ \E vid \in Vid : untagged = {vid}
  BY <1>1, <1>2
<1> HIDE DEF untagged
<1>4. Cardinality(untagged) \in {0, 1}
  BY <1>3, FS_EmptySet, FS_Singleton
<1> QED BY <1>4 DEF untagged

\* Off goes before every VLAN command, and on after all of them.
LEMMA NoVlanWork ==
    ASSUME PlanInv, PlanInv', RunNext, BeliefHeld, running.vlan_filtering # wanted.vlan_filtering,
           \E s \in interface_name \X Vid : bridge'[s] # bridge[s]
    PROVE  bridge[<<"vlan_filtering">>] = "off" /\ bridge'[<<"vlan_filtering">>] = "off"
<1> DEFINE c == Head(todo)
           toggle == SetLink("vlan_filtering", wanted.vlan_filtering)
<1>1. /\ c \in Left /\ Left' = Left \ {c}
      /\ \A d \in Left : ~ Precedes(d, c) \/ d = c
      /\ bridge' = [bridge EXCEPT ![Setting(c)] = TableOf(wanted)[Setting(c)]]
      /\ UNCHANGED <<running, wanted, before>>
  BY HeadIsRun
<1> HIDE DEF c
<1>2. running.vlan_filtering \in BOOLEAN /\ wanted.vlan_filtering \in BOOLEAN
  BY DEF PlanInv, SwitchDocuments
<1>3. toggle \in Commands(running, wanted) /\ Setting(toggle) = <<"vlan_filtering">>
  BY DEF Commands, Links, Setting, SetLink
<1>4. c \in PortCmd /\ Setting(c) # <<"vlan_filtering">>
  <2>1. PICK s \in interface_name \X Vid : bridge'[s] # bridge[s]
    OBVIOUS
  <2>2. s \in TableEntry /\ DOMAIN bridge = TableEntry
    BY DEF TableEntry, PlanInv, Write
  <2>3. Setting(c) = s
    BY <1>1, <2>1, <2>2
  <2>4. c \in LinkCmd \cup PortCmd
    BY <1>1, CommandsWriteTheDifference DEF PlanInv
  <2>5. PICK p \in interface_name, vid \in Vid : s = <<p, vid>>
    BY <2>1
  <2> QED BY <2>3, <2>4, <2>5 DEF Setting, LinkCmd
<1>5. <<"vlan_filtering">> \in TableEntry /\ DOMAIN bridge = TableEntry
  BY DEF TableEntry, PlanInv, Write
<1>6. bridge'[<<"vlan_filtering">>] = bridge[<<"vlan_filtering">>]
  BY <1>1, <1>4, <1>5
<1>7. Phase(c) \in {2, 3}
  BY <1>4 DEF Phase, PortCmd
<1>8. CASE wanted.vlan_filtering
  <2>3. Phase(toggle) = 4
    BY <1>8 DEF Phase, SetLink, OnOff
  <2>1. Phase(toggle) = 4 /\ Phase(c) < 4
    BY <1>7, <2>3
  <2>2. toggle \in Left
    BY <1>1, <1>3, <2>1 DEF PlanInv, Precedes
  <2>4. bridge[<<"vlan_filtering">>] = TableOf(running)[<<"vlan_filtering">>]
    BY <1>3, <1>5, <2>2, BridgeIsBetween
  <2> QED BY <1>2, <1>6, <1>8, <2>4, TableOfLinks DEF OnOff
<1>9. CASE ~ wanted.vlan_filtering
  <2>4. Phase(toggle) = 1
    BY <1>9 DEF Phase, SetLink, OnOff
  <2>1. Phase(toggle) = 1 /\ 1 < Phase(c)
    BY <1>7, <2>4
  <2>2. toggle \notin Left
    <3>1. Precedes(toggle, c) /\ toggle # c
      BY <1>3, <1>4, <2>1 DEF Precedes
    <3> QED BY <1>1, <3>1
  <2>3. bridge[<<"vlan_filtering">>] = TableOf(wanted)[<<"vlan_filtering">>]
    BY <1>3, <1>5, <2>2, BridgeIsBetween
  <2> QED BY <1>6, <1>9, <2>3, TableOfLinks DEF OnOff
<1> QED BY <1>8, <1>9

\* For any ports, VLANs and documents the rules let through: the plan writes
\* exactly the difference between them, no port is on the way ever untagged in two
\* VLANs, and no VLAN is touched on a bridge that starts or stops filtering.
THEOREM PlansReachTheDocument == plan_Spec => PlanReachesTheDocument
<1>1. PlanInv /\ PlanInv' /\ [plan_Next]_plan_vars
          => [todo' # todo => PlanWritesTheDifference' /\ NeverUntaggedInTwo']_plan_vars
  <2> SUFFICES ASSUME PlanInv' PROVE PlanWritesTheDifference' /\ NeverUntaggedInTwo'
    OBVIOUS
  <2>1. (PlanInv => PlanWritesTheDifference /\ NeverUntaggedInTwo)'
    BY WritesTheDifference, OneUntagged, PTL
  <2> QED BY <2>1
<1>2. PlanInv /\ PlanInv' /\ [plan_Next]_plan_vars
          => [ (/\ bridge' # bridge /\ BeliefHeld
                /\ running.vlan_filtering # wanted.vlan_filtering
                /\ \E s \in interface_name \X Vid : bridge'[s] # bridge[s])
               => bridge[<<"vlan_filtering">>] = "off" /\ bridge'[<<"vlan_filtering">>] = "off" ]_plan_vars
  BY NoVlanWork DEF plan_Next
<1> QED
  BY <1>1, <1>2, PlanInit, PlanStep, PTL
     DEF plan_Spec, PlanReachesTheDocument, NoVlanWorkWhileToggling

\* And what it leaves on the bridge, if the wanted document filters, is a way in.
THEOREM PlansLeaveAWayIn == plan_Spec => AcceptedLeavesAWayIn
<1>1. PlanInv => LeavesAWayIn
  <2> SUFFICES ASSUME PlanInv, todo = <<>>, BeliefHeld, bridge[<<"vlan_filtering">>] = "on"
               PROVE  WayIn(bridge, wanted.ports["bmc"].untagged)
    BY DEF LeavesAWayIn
  <2>1. bridge = TableOf(wanted)
    BY WritesTheDifference DEF PlanWritesTheDifference
  <2>2. wanted.vlan_filtering
    BY <2>1, TableOfLinks DEF OnOff, PlanInv, SwitchDocuments
  <2> QED BY <2>1, <2>2, AcceptedTablesLeaveAWayIn DEF PlanInv
<1>2. PlanInv' => [todo' # todo => LeavesAWayIn']_plan_vars
  <2>1. (PlanInv => LeavesAWayIn)'
    BY <1>1, PTL
  <2> QED BY <2>1
<1> QED BY <1>2, PlanInit, PlanStep, PTL DEF plan_Spec, AcceptedLeavesAWayIn

(***************************************************************************)
(* The promise of a confirm window, of its own specification and for any   *)
(* set of configurations.                                                  *)
(***************************************************************************)
\* LiveIsProved is not inductive by itself: a change on trial must be the live
\* one (or keeping it would bless a configuration that is not in force), and
\* what a reboot comes back to must have been proved (or resuming would not).
IInv ==
    /\ TypeOK
    /\ LiveIsProved
    /\ trial # None => live = trial.change
    /\ {kept} \ {None} \subseteq proved

LEMMA InitIInv == ASSUME SoundConfig PROVE Init => IInv
  BY DEF SoundConfig, Init, IInv, TypeOK, LiveIsProved, Safe

LEMMA StepIInv == ASSUME SoundConfig PROVE IInv /\ [Next]_vars => IInv'
<1> SUFFICES ASSUME IInv, [Next]_vars PROVE IInv'
  OBVIOUS
<1> USE DEF SoundConfig, IInv, TypeOK, LiveIsProved, Safe, Trial
<1>1. ASSUME NEW c \in Config, Try(c) PROVE IInv'
  BY <1>1 DEF Try
<1>2. CASE Keep
  BY <1>2 DEF Keep
<1>3. CASE PutBack
  BY <1>3 DEF PutBack
<1>4. CASE PowerCycle
  BY <1>4 DEF PowerCycle
<1>5. CASE Resume
  BY <1>5 DEF Resume
<1>6. CASE UNCHANGED vars
  BY <1>6 DEF vars
<1>7. QED
  BY <1>1, <1>2, <1>3, <1>4, <1>5, <1>6 DEF Next

\* A board with nothing on trial is on its boot configuration or on a proved
\* one, and so is every way back.
THEOREM LiveAlwaysProved == ASSUME SoundConfig PROVE Spec => []LiveIsProved
<1>1. IInv => LiveIsProved
  BY DEF IInv
<1>2. QED
  BY InitIInv, StepIInv, <1>1, PTL DEF Spec

\* Only a configuration in force, and proved by that very step, becomes the one
\* a reboot comes back to.
THEOREM KeptAlwaysLive == ASSUME SoundConfig PROVE Spec => KeptWasLive
<1>1. IInv /\ [Next]_vars => [kept' # kept => kept' = live /\ kept' \in proved']_vars
  BY DEF IInv, Next, vars, Try, Keep, PutBack, PowerCycle, Resume
<1>2. QED
  BY InitIInv, StepIInv, <1>1, PTL DEF Spec, KeptWasLive
=============================================================================
