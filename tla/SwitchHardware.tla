--------------------------- MODULE SwitchHardware ---------------------------
(***************************************************************************)
(* What running a plan does to a table of switch settings.                 *)
(*                                                                         *)
(* A table is a function from settings (filtering, spanning tree, the      *)
(* membership of one port in one VLAN) to values.  switch_applier.rs's     *)
(* plan() emits one command for every setting on which the document it     *)
(* believes is running differs from the wanted one, and none for the       *)
(* others: the tables `was` and `now` decide WHICH settings are written,   *)
(* whatever the switch really holds.  SwitchPlan checks that the commands  *)
(* do exactly this; SwitchService and its proofs use it.                   *)
(***************************************************************************)

\* The settings the plan from `was` to `now` writes.
Written(was, now) == {s \in DOMAIN now : was[s] # now[s]}

\* The switch after the settings in `done` have been written.
Write(hw, now, done) == [s \in DOMAIN hw |-> IF s \in done THEN now[s] ELSE hw[s]]

\* The switch after the whole plan.
Put(hw, was, now) == Write(hw, now, Written(was, now))

\* The switch after a plan that stopped at a command that failed: some part
\* of it, but not all, has been done.
PutPartly(hw, was, now) ==
    {Write(hw, now, done) : done \in (SUBSET Written(was, now)) \ {Written(was, now)}}
=============================================================================
