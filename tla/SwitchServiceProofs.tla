------------------------ MODULE SwitchServiceProofs -------------------------
(***************************************************************************)
(* What the switch service guarantees for every set of documents, tables,  *)
(* tokens and windows.                                                     *)
(*                                                                         *)
(*   KeepsTypes, KeepsOnlyProved  under every fault;                       *)
(*   SwitchStaysProved            when commands succeed and the daemon     *)
(*                                lives as long as the board is powered;   *)
(*   ImplementsPromise            when, besides, the file can be written.  *)
(***************************************************************************)
EXTENDS SwitchService, TLAPS

(***************************************************************************)
(* Tables.                                                                 *)
(***************************************************************************)

\* Writing settings of a table keeps it a table.
LEMMA WriteTyped ==
    ASSUME NEW hw \in [Setting -> Value], NEW now \in [Setting -> Value], NEW done
    PROVE  Write(hw, now, done) \in [Setting -> Value]
  BY DEF Write

LEMMA PutTyped ==
    ASSUME NEW hw \in [Setting -> Value], NEW was, NEW now \in [Setting -> Value]
    PROVE  /\ Put(hw, was, now) \in [Setting -> Value]
           /\ PutPartly(hw, was, now) \subseteq [Setting -> Value]
  BY WriteTyped DEF Put, PutPartly

\* A plan that starts from what the switch really holds ends on what is wanted:
\* the settings it leaves alone were right already.
LEMMA PutFromTheTruth ==
    ASSUME NEW was \in [Setting -> Value], NEW now \in [Setting -> Value]
    PROVE  Put(was, was, now) = now
  BY DEF Put, Write, Written

\* Starting the window touches nothing of the change but its clock.
LEMMA StartWindowKeeps ==
    ASSUME NEW p \in Pending \cup {None}
    PROVE  LET q == start_window_if_reachable(p) IN
           /\ q \in Pending \cup {None}
           /\ q = None <=> p = None
           /\ p # None => q.token = p.token /\ q.document = p.document
                          /\ q.snapshot = p.snapshot
           /\ expired_at(q) => p # None
<1>1. CASE p = None
  BY <1>1 DEF start_window_if_reachable, expired_at
<1>2. CASE p \in Pending
  <2> DEFINE r == [p EXCEPT !.counting = 0]
  <2>1. r \in Pending /\ r.token = p.token /\ r.document = p.document /\ r.snapshot = p.snapshot
    BY <1>2 DEF Pending
  <2>2. p # None /\ r # None
    BY <1>2, <2>1, NoneAssumption
  <2> HIDE DEF r
  <2>3. start_window_if_reachable(p) \in {r, p}
    BY DEF start_window_if_reachable, uplink_forwarding, r
  <2>4. QED
    BY <1>2, <2>1, <2>2, <2>3
<1>3. QED
  BY <1>1, <1>2

(***************************************************************************)
(* Under every fault.                                                      *)
(***************************************************************************)

\* OnlyProvedIsKept rests on the token: it names the document it was issued for.
TokenNamesTheChange == pending # None => issued[pending.token] = pending.document
KeptInv == TypeOK /\ OnlyProvedIsKept /\ TokenNamesTheChange

LEMMA InitKeptInv == Init => KeptInv
  BY DocumentAssumption DEF Init, KeptInv, TypeOK, OnlyProvedIsKept, TokenNamesTheChange

LEMMA StepKeptInv == KeptInv /\ [Next]_vars => KeptInv'
<1> SUFFICES ASSUME KeptInv, [Next]_vars PROVE KeptInv'
  OBVIOUS
<1> USE DocumentAssumption, NoneAssumption, WindowAssumption
<1> USE DEF KeptInv, TypeOK, OnlyProvedIsKept, TokenNamesTheChange, Pending, RevertRecord, world, state
<1>1. CASE Start
  BY <1>1, PutTyped DEF Start, load, boot_apply
<1>2. ASSUME NEW doc \in Document, NEW window \in Request, Apply(doc, window) PROVE KeptInv'
  BY <1>2, PutTyped DEF Apply, apply, window_in_range, RunAll, RunFails
<1>3. ASSUME NEW token \in Token, NEW peer \in {"loopback", "network"}, Confirm(token, peer)
      PROVE KeptInv'
  BY <1>3 DEF Confirm, confirm, check_confirm
<1>4. ASSUME pending # None, NEW reason \in {"NotConfirmed", "Requested"}, GoBack(reason),
             UNCHANGED <<confirmed, up, world, issued, proved>>
      PROVE KeptInv'
  BY <1>4, PutTyped DEF GoBack, RunAll, RunFails
<1>5. CASE Revert
  BY <1>4, <1>5 DEF Revert
<1>6. CASE Tick
  <2> DEFINE p == start_window_if_reachable(pending)
  <2>1. CASE ~ expired_at(p) /\ pending' = p /\ UNCHANGED <<last_revert, running, switch>>
    <3>1. /\ p \in Pending \cup {None}
          /\ p # None => pending # None /\ p.token = pending.token /\ p.document = pending.document
      BY StartWindowKeeps
    <3> HIDE DEF p
    <3>2. UNCHANGED <<confirmed, last_revert, running, up, file, safemode, switch,
                      forwarding, issued, proved>>
      BY <1>6, <2>1 DEF Tick
    <3>3. QED
      BY <2>1, <3>1, <3>2
  <2>2. CASE expired_at(p) /\ GoBack("NotConfirmed")
    <3>1. pending # None
      BY <2>2, StartWindowKeeps
    <3>2. QED
      BY <1>6, <2>2, <3>1, <1>4 DEF Tick
  <2>3. QED
    BY <1>6, <2>1, <2>2 DEF Tick
<1>7. CASE Second
  BY <1>7 DEF Second
<1>8. CASE ClockStep
  BY <1>8 DEF ClockStep
<1>9. CASE UplinkChange
  BY <1>9 DEF UplinkChange
<1>10. CASE Exit
  BY <1>10, PutTyped DEF Exit, Forget
<1>11. CASE PowerCycle
  BY <1>11 DEF PowerCycle, Forget
<1>12. CASE UNCHANGED vars
  BY <1>12 DEF vars
<1>13. QED
  BY <1>1, <1>2, <1>3, <1>5, <1>6, <1>7, <1>8, <1>9, <1>10, <1>11, <1>12 DEF Next

\* The types hold in every reachable state, whatever goes wrong.
THEOREM KeepsTypes == Spec => []TypeOK
<1>1. KeptInv => TypeOK
  BY DEF KeptInv
<1>2. QED
  BY InitKeptInv, StepKeptInv, <1>1, PTL DEF Spec

\* Whatever goes wrong, only a document that was confirmed from off the board,
\* with the token of that very change, is ever in the file or called confirmed.
THEOREM KeepsOnlyProved == Spec => []OnlyProvedIsKept
<1>1. KeptInv => OnlyProvedIsKept
  BY DEF KeptInv
<1>2. QED
  BY InitKeptInv, StepKeptInv, <1>1, PTL DEF Spec

(***************************************************************************)
(* When commands do what they are told and the daemon lives as long as the *)
(* board is powered.                                                       *)
(***************************************************************************)
Sound == Fault \cap {"command", "exit"} = {}
Safe == proved \cup {Flat}

\* SwitchIsProved is not inductive.  It needs that the daemon's belief is the
\* truth (or the next plan would write the wrong settings), also while it is
\* down; that what is running is the change on trial or a safe document; and
\* that the way back is one.
SwitchInv ==
    /\ KeptInv
    /\ BeliefIsTheSwitch
    /\ ~ up => switch = Table[Flat] /\ running = Flat /\ pending = None
    /\ pending = None => running \in Safe
    /\ WayBackIsProved

LEMMA InitSwitchInv == Init => SwitchInv
  BY InitKeptInv DEF Init, SwitchInv, BeliefIsTheSwitch, WayBackIsProved, Safe

LEMMA StepSwitchInv ==
    ASSUME Sound
    PROVE  SwitchInv /\ [Next]_vars => SwitchInv'
<1> SUFFICES ASSUME SwitchInv, [Next]_vars PROVE SwitchInv'
  OBVIOUS
<1>k. KeptInv /\ KeptInv'
  BY StepKeptInv DEF SwitchInv
<1>t. TypeOK /\ TypeOK'
  BY <1>k DEF KeptInv
<1>f. "command" \notin Fault /\ "exit" \notin Fault
  BY DEF Sound
<1>d. \A doc \in Document : Table[doc] \in [Setting -> Value]
  BY DocumentAssumption
<1>p. \A was, now \in Document : Put(Table[was], Table[was], Table[now]) = Table[now]
  BY <1>d, PutFromTheTruth
<1>n. Flat \in Document /\ None \notin Document /\ None \notin Pending
  BY DocumentAssumption, NoneAssumption
<1> DEFINE Rest == /\ BeliefIsTheSwitch
                   /\ ~ up => switch = Table[Flat] /\ running = Flat /\ pending = None
                   /\ pending = None => running \in Safe
                   /\ WayBackIsProved
<1>r. Rest
  BY DEF SwitchInv
<1> SUFFICES Rest'
  BY <1>k DEF SwitchInv
<1> USE DEF BeliefIsTheSwitch, WayBackIsProved, Safe, world, state
<1>1. CASE Start
  BY <1>1, <1>k, <1>t, <1>f, <1>p, <1>n, <1>r DEF Start, load, boot_apply, KeptInv, OnlyProvedIsKept, TypeOK
<1>2. ASSUME NEW doc \in Document, NEW window \in Request, Apply(doc, window) PROVE Rest'
  <2>1. PICK t \in Token : pending' = [token |-> t, document |-> doc, snapshot |-> running,
                                       window |-> window, counting |-> None]
    BY <1>2, <1>f DEF Apply, apply, window_in_range, RunFails
  <2>2. /\ running' = doc /\ up /\ up' = up /\ pending = None /\ proved' = proved
        /\ switch' = Put(switch, Table[running], Table[doc])
    BY <1>2, <1>f DEF Apply, apply, window_in_range, RunFails, RunAll
  <2>3. switch' = Table[doc]
    BY <2>2, <1>p, <1>r, <1>t DEF TypeOK
  <2>4. pending' # None
    <3>1. window \in MIN_WINDOW .. MAX_WINDOW /\ running \in Document
      BY <1>2, <1>t DEF Apply, apply, window_in_range, TypeOK
    <3>2. pending' \in Pending
      BY <2>1, <3>1 DEF Pending
    <3>3. QED
      BY <3>2, <1>n
  <2>5. QED
    BY <2>1, <2>2, <2>3, <2>4, <1>r
<1>3. ASSUME NEW token \in Token, NEW peer \in {"loopback", "network"}, Confirm(token, peer)
      PROVE Rest'
  BY <1>3, <1>k, <1>r DEF Confirm, confirm, check_confirm, KeptInv, TokenNamesTheChange
<1>4. ASSUME pending # None, NEW reason, GoBack(reason),
             UNCHANGED <<confirmed, up, world, issued, proved>>
      PROVE Rest'
  <2>1. /\ running' = pending.snapshot /\ pending' = None /\ up' = up /\ proved' = proved
        /\ switch' = Put(switch, Table[running], Table[pending.snapshot])
    BY <1>4, <1>f DEF GoBack, RunAll, RunFails
  <2>2. pending.snapshot \in Document /\ running \in Document
    BY <1>4, <1>t DEF TypeOK, Pending
  <2>3. up => switch' = Table[pending.snapshot]
    BY <2>1, <2>2, <1>p, <1>r
  <2>4. QED
    BY <2>1, <2>3, <1>4, <1>r
<1>5. CASE Revert
  BY <1>4, <1>5 DEF Revert
<1>6. CASE Tick
  <2> DEFINE p == start_window_if_reachable(pending)
  <2>1. /\ p = None <=> pending = None
        /\ p # None => p.document = pending.document /\ p.snapshot = pending.snapshot
        /\ expired_at(p) => pending # None
    BY StartWindowKeeps, <1>t DEF TypeOK
  <2>2. CASE expired_at(p) /\ GoBack("NotConfirmed")
    BY <1>6, <2>1, <2>2, <1>4 DEF Tick
  <2>3. CASE ~ expired_at(p) /\ pending' = p /\ UNCHANGED <<last_revert, running, switch>>
    <3>1. UNCHANGED <<up, proved>>
      BY <1>6 DEF Tick
    <3> HIDE DEF p
    <3>2. QED
      BY <2>1, <2>3, <3>1, <1>r
  <2>4. QED
    BY <1>6, <2>2, <2>3 DEF Tick
<1>7. CASE Second \/ ClockStep
  <2>1. PICK age : pending' = [pending EXCEPT !.counting = age]
    BY <1>7 DEF Second, ClockStep
  <2>2. /\ pending \in Pending
        /\ UNCHANGED <<running, up, switch, proved>>
    BY <1>7, <1>t DEF Second, ClockStep, TypeOK
  <2>3. pending # None /\ pending'.document = pending.document
        /\ pending'.snapshot = pending.snapshot
    BY <2>1, <2>2, <1>n DEF Pending
  <2>4. pending' # None
    BY <1>7, <1>n, <1>t, WindowAssumption DEF Second, ClockStep, TypeOK, Pending
  <2>5. QED
    BY <2>2, <2>3, <2>4, <1>r
<1>8. CASE UplinkChange \/ UNCHANGED vars
  BY <1>8, <1>r DEF UplinkChange, vars
<1>9. CASE PowerCycle
  BY <1>9, <1>r DEF PowerCycle, Forget
<1>10. ~ Exit
  BY <1>f DEF Exit
<1>11. QED
  BY <1>1, <1>2, <1>3, <1>5, <1>6, <1>7, <1>8, <1>9, <1>10 DEF Next

\* With nothing pending the switch holds a proved document or Flat: when every
\* command succeeds and only a loss of power ends the daemon, no unconfirmed
\* configuration outlives its window or a power cycle.
THEOREM SwitchStaysProved ==
    ASSUME Sound
    PROVE  Spec => []SwitchIsProved
<1>1. SwitchInv => SwitchIsProved
  BY DEF SwitchInv, SwitchIsProved, BeliefIsTheSwitch, Safe
<1>2. QED
  BY InitSwitchInv, StepSwitchInv, <1>1, PTL DEF Spec

\* Under the same faults the document the daemon reports as running is what the
\* switch holds.
THEOREM BeliefStaysTrue ==
    ASSUME Sound
    PROVE  Spec => []BeliefIsTheSwitch
<1>1. SwitchInv => BeliefIsTheSwitch
  BY DEF SwitchInv
<1>2. QED
  BY InitSwitchInv, StepSwitchInv, <1>1, PTL DEF Spec

(***************************************************************************)
(* The detailed service implements the promise.                            *)
(***************************************************************************)
KeptTable == IF file = None THEN None ELSE Table[file]
TrialTables ==
    IF pending = None THEN None
    ELSE [change |-> Table[pending.document], back |-> Table[pending.snapshot]]
ProvedTables == {Table[doc] : doc \in proved}

LEMMA InitPromise == Init => Promise!Init
<1> SUFFICES ASSUME Init PROVE Promise!Init
  OBVIOUS
<1>1. KeptTable \in {Table[doc] : doc \in Document} \cup {None}
  BY DEF Init, KeptTable
<1>2. ProvedTables = {KeptTable} \ {None}
  <2>1. CASE file = None
    BY <2>1 DEF Init, KeptTable, ProvedTables
  <2>2. CASE file \in Document
    <3>1. Table[file] # None /\ file # None
      BY <2>2, DocumentAssumption, NoneAssumption
    <3>2. proved = {file}
      BY <3>1 DEF Init
    <3>3. QED
      BY <3>1, <3>2 DEF KeptTable, ProvedTables
  <2>3. QED
    BY <2>1, <2>2 DEF Init
<1>3. QED
  BY <1>1, <1>2 DEF Init, Promise!Init, Promise!Safe, KeptTable, ProvedTables

LEMMA StepPromise ==
    ASSUME Sound, "write" \notin Fault
    PROVE  SwitchInv /\ [Next]_vars => [Promise!Next]_(Promise!vars)
<1> SUFFICES ASSUME SwitchInv, [Next]_vars PROVE [Promise!Next]_(Promise!vars)
  OBVIOUS
<1>k. SwitchInv' /\ KeptInv /\ TypeOK /\ TypeOK'
  BY StepSwitchInv DEF SwitchInv, KeptInv
<1>f. "command" \notin Fault /\ "exit" \notin Fault
  BY DEF Sound
<1>p. \A was, now \in Document : Put(Table[was], Table[was], Table[now]) = Table[now]
  BY DocumentAssumption, PutFromTheTruth
<1>n. /\ Flat \in Document /\ None \notin Document
      /\ \A doc \in Document : Table[doc] # None
      /\ \A a, b \in Document : [change |-> Table[a], back |-> Table[b]] # None
  BY DocumentAssumption, NoneAssumption
<1>d. pending # None => pending.document \in Document /\ pending.snapshot \in Document
  BY <1>k DEF TypeOK, Pending
\* Promise's actions, over the tables the service's state stands for.
<1>s. UNCHANGED <<switch, KeptTable, TrialTables, ProvedTables>> => UNCHANGED Promise!vars
  BY DEF Promise!vars, KeptTable, TrialTables, ProvedTables
<1>1. CASE Start
  <2>1. switch = Table[Flat] /\ pending = None /\ pending' = None
        /\ UNCHANGED <<file, proved>>
    BY <1>1 DEF Start, load, boot_apply, SwitchInv, world
  <2>2. CASE UNCHANGED switch
    BY <2>1, <2>2, <1>s DEF KeptTable, TrialTables, ProvedTables
  <2>3. CASE file # None /\ switch' = Put(switch, Table[Flat], Table[file])
    <3>1. file \in Document /\ switch' = Table[file] /\ Table[file] # None
      BY <2>1, <2>3, <1>p, <1>n, <1>k DEF TypeOK
    <3>2. Promise!Resume
      BY <2>1, <2>3, <3>1 DEF Promise!Resume
    <3>3. QED
      BY <3>2 DEF Promise!Next
  <2>4. QED
    BY <1>1, <1>f, <2>2, <2>3 DEF Start, load, boot_apply
<1>2. ASSUME NEW doc \in Document, NEW window \in Request, Apply(doc, window)
      PROVE  Promise!Next
  <2>1. /\ up /\ pending = None /\ UNCHANGED <<file, proved>>
        /\ switch' = Put(switch, Table[running], Table[doc])
        /\ pending'.document = doc /\ pending'.snapshot = running
        /\ running' = doc
    BY <1>2, <1>f DEF Apply, apply, window_in_range, RunAll, RunFails, world
  <2>2. running \in Document /\ switch = Table[running]
    BY <2>1, <1>k DEF TypeOK, SwitchInv, BeliefIsTheSwitch
  <2>3. switch' = Table[doc]
    BY <2>1, <2>2, <1>p
  <2>4. pending' # None
    <3>1. PICK t \in Token : pending' = [token |-> t, document |-> doc, snapshot |-> running,
                                         window |-> window, counting |-> None]
      BY <1>2, <1>f DEF Apply, apply, window_in_range, RunFails
    <3>2. pending' \in Pending
      BY <1>2, <2>2, <3>1 DEF Apply, apply, window_in_range, Pending
    <3>3. QED
      BY <3>2, NoneAssumption
  <2>5. TrialTables = None /\ TrialTables' = [change |-> Table[doc], back |-> switch]
    BY <2>1, <2>2, <2>4 DEF TrialTables
  <2>6. Promise!Try(Table[doc])
    BY <2>1, <2>3, <2>5 DEF Promise!Try, TrialTables
  <2>7. QED
    BY <2>6 DEF Promise!Next
<1>3. ASSUME NEW token \in Token, NEW peer \in {"loopback", "network"}, Confirm(token, peer)
      PROVE  Promise!Next
  <2>1. /\ pending # None /\ pending' = None /\ UNCHANGED switch
        /\ file' = pending.document
        /\ proved' = proved \cup {pending.document}
    BY <1>3, <1>k DEF Confirm, confirm, check_confirm, KeptInv, TokenNamesTheChange
  <2>2. ProvedTables' = ProvedTables \cup {Table[pending.document]}
    BY <2>1 DEF ProvedTables
  <2>3. /\ TrialTables # None /\ TrialTables' = None
        /\ TrialTables.change = Table[pending.document]
        /\ KeptTable' = Table[pending.document]
    BY <2>1, <1>d, <1>n DEF TrialTables, KeptTable
  <2>4. Promise!Keep
    BY <2>1, <2>2, <2>3 DEF Promise!Keep, TrialTables, KeptTable, ProvedTables
  <2>5. QED
    BY <2>4 DEF Promise!Next
<1>4. ASSUME up, pending # None, NEW reason, GoBack(reason),
             UNCHANGED <<confirmed, up, world, issued, proved>>
      PROVE  Promise!Next
  <2>1. /\ pending' = None /\ UNCHANGED <<file, proved>>
        /\ switch' = Put(switch, Table[running], Table[pending.snapshot])
    BY <1>4, <1>f DEF GoBack, RunAll, RunFails, world
  <2>2. switch = Table[running] /\ running \in Document
    BY <1>4, <1>k DEF SwitchInv, BeliefIsTheSwitch, TypeOK
  <2>3. switch' = Table[pending.snapshot]
    BY <2>1, <2>2, <1>d, <1>p, <1>4
  <2>4. TrialTables # None /\ TrialTables' = None /\ TrialTables.back = Table[pending.snapshot]
    BY <2>1, <1>4, <1>d, <1>n DEF TrialTables
  <2>5. Promise!PutBack
    BY <2>1, <2>3, <2>4 DEF Promise!PutBack, TrialTables
  <2>6. QED
    BY <2>5 DEF Promise!Next
<1>5. CASE Revert
  BY <1>4, <1>5 DEF Revert
\* The clock of a change is none of the promise's business.
<1>6. ASSUME UNCHANGED <<switch, file, proved>>,
             pending = None <=> pending' = None,
             pending # None => pending'.document = pending.document
                               /\ pending'.snapshot = pending.snapshot
      PROVE  UNCHANGED Promise!vars
  BY <1>6, <1>s DEF KeptTable, TrialTables, ProvedTables
<1>7. CASE Tick
  <2> DEFINE p == start_window_if_reachable(pending)
  <2>1. /\ p = None <=> pending = None
        /\ pending # None => p.document = pending.document /\ p.snapshot = pending.snapshot
        /\ expired_at(p) => pending # None
    BY StartWindowKeeps, <1>k DEF TypeOK
  <2>2. CASE expired_at(p) /\ GoBack("NotConfirmed")
    BY <1>7, <2>1, <2>2, <1>4 DEF Tick
  <2>3. CASE ~ expired_at(p) /\ pending' = p /\ UNCHANGED <<last_revert, running, switch>>
    BY <1>7, <2>1, <2>3, <1>6 DEF Tick, world
  <2>4. QED
    BY <1>7, <2>2, <2>3 DEF Tick
<1>8. CASE Second \/ ClockStep
  <2>1. /\ pending \in Pending /\ UNCHANGED <<switch, file, proved>>
        /\ \E age : pending' = [pending EXCEPT !.counting = age]
    BY <1>8, <1>k DEF Second, ClockStep, TypeOK, world
  <2>2. pending'.document = pending.document /\ pending'.snapshot = pending.snapshot
    BY <2>1 DEF Pending
  <2>3. pending # None /\ pending' # None
    <3>1. pending.counting \in Int
      BY <1>8, <2>1 DEF Second, ClockStep, Pending
    <3>2. PICK age \in Int : pending' = [pending EXCEPT !.counting = age]
      BY <1>8, <3>1, WindowAssumption DEF Second, ClockStep
    <3>3. pending' \in Pending
      BY <2>1, <3>2 DEF Pending
    <3>4. QED
      BY <2>1, <3>3, NoneAssumption
  <2>4. QED
    BY <1>6, <2>1, <2>2, <2>3
<1>9. CASE UplinkChange \/ UNCHANGED vars
  BY <1>9, <1>s DEF UplinkChange, vars, state, KeptTable, TrialTables, ProvedTables
<1>10. CASE PowerCycle
  BY <1>10, <1>n DEF PowerCycle, Forget, Promise!PowerCycle, Promise!Next
<1>11. ~ Exit
  BY <1>f DEF Exit
<1>12. QED
  BY <1>1, <1>2, <1>3, <1>5, <1>7, <1>8, <1>9, <1>10, <1>11 DEF Next

\* When commands succeed, the file can be written and only a loss of power ends
\* the daemon, the service is an implementation of ConfirmOrRevert: every
\* document, window, flap of the uplink and step of the clock included.
THEOREM ImplementsPromise ==
    ASSUME Sound, "write" \notin Fault
    PROVE  Spec => KeepsThePromise
  BY InitPromise, StepPromise, InitSwitchInv, StepSwitchInv, PTL
     DEF Spec, KeepsThePromise, Promise!Spec
=============================================================================
