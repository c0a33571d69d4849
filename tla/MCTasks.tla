------------------------------ MODULE MCTasks -------------------------------
(***************************************************************************)
(* The daemon's background tasks, and what they must bring about in the    *)
(* end: the writer of the key/value store, the workers of a transfer, the  *)
(* refresh of the catalogue, the watcher of the shadow file, the poll that *)
(* takes the fan back.  They share no variable in the code, so each is     *)
(* explored with the others at rest; fairness is asked of a part only      *)
(* while it is the one that moves.                                         *)
(***************************************************************************)
EXTENDS Persistency, StreamingTransfer, FirmwareCatalog, ShadowWatcher, Cooling

CONSTANT own

VARIABLE part

sum_vars == <<part, store_vars, vars, catalog_vars, w_vars, cool_vars>>

\* A zone that gets hotter than its hottest active trip, with a trip of another
\* kind above it; one that does not; one without active trips, which binds no fan.
ActiveAt(t) == [kind |-> "active", temp |-> t]
HotAt(t) == [kind |-> "hot", temp |-> t]
MCTrips == {{HotAt(1)}, {ActiveAt(1), ActiveAt(2)}, {ActiveAt(1), HotAt(2)}}

SumInit ==
    /\ part \in {"store", "transfer", "catalogue", "watcher", "cooling"}
    /\ store_Init /\ (part # "store" => can_write /\ file = 0)
    /\ Init
    /\ catalog_Init /\ (part # "catalogue" => card = 0)
    /\ W_Init /\ (part # "watcher" => shadow_file.hash = own)
    /\ cool_Init
    /\ trips \in MCTrips /\ (bound <=> trips # {HotAt(1)})
    /\ part # "cooling" => ~bound /\ trips = {HotAt(1)} /\ temp = 1

Rest(moving) ==
    /\ part = moving
    /\ UNCHANGED part
    /\ moving # "store" => UNCHANGED store_vars
    /\ moving # "transfer" => UNCHANGED vars
    /\ moving # "catalogue" => UNCHANGED catalog_vars
    /\ moving # "watcher" => UNCHANGED w_vars
    /\ moving # "cooling" => UNCHANGED cool_vars

SumNext ==
    \/ Rest("store") /\ store_Next
    \/ Rest("transfer") /\ Next
    \/ Rest("catalogue") /\ catalog_Next
    \/ Rest("watcher") /\ W_Next
    \/ Rest("cooling") /\ cool_Next

In(moving, A) == part = moving /\ A

\* The fairness of FairStoreSpec, FairSpec, catalog_Fairness, W_Fairness and
\* cool_Fairness.
SumFairness ==
    /\ WF_store_vars(In("store", get_watcher)) /\ WF_store_vars(In("store", StoreChange))
    /\ WF_store_vars(In("store", TimeoutPasses)) /\ WF_store_vars(In("store", open))
    /\ WF_store_vars(In("store", write)) /\ WF_store_vars(In("store", rename))
    /\ WF_store_vars(In("store", LateOperation))
    /\ \A t \in Transfer : /\ WF_vars(In("transfer", Work(t)))
                           /\ WF_vars(In("transfer", Timeout(t)))
                           /\ WF_vars(In("transfer", ReturnError(t)))
    /\ WF_vars(In("transfer", "session" \in Peer /\ Cancel("session")))
    /\ SF_catalog_vars(In("catalogue", Tick))
    /\ WF_catalog_vars(In("catalogue", \E c \in calls : Killed(c) /\ Returns(c)))
    /\ \A f \in FanOut :
           WF_catalog_vars(In("catalogue", \/ RefreshTimesOut(f) \/ Stores(f)
                                           \/ \E s \in Source : SourceTimesOut(f, s)))
    /\ WF_w_vars(In("watcher", Watcher)) /\ SF_w_vars(In("watcher", OpenFile))
    /\ WF_w_vars(In("watcher", Evict))
    /\ WF_w_vars(In("watcher", \E h \in Hash : CloseWrite(h)))
    /\ SF_cool_vars(In("cooling", Look)) /\ SF_cool_vars(In("cooling", Release_hold))

SumSpec == SumInit /\ [][SumNext]_sum_vars /\ SumFairness
=============================================================================
