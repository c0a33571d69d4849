---------------------------- MODULE NodeProofs ------------------------------
(***************************************************************************)
(* What the store says of a node is so, for any number of nodes and of     *)
(* requests that cross.                                                    *)
(*                                                                         *)
(* A request is what is left of its steps, so the invariant is about what  *)
(* those will do.  Settles: for every node that a request works on, its    *)
(* remaining steps bring the stored bit, the mode and the enable line to   *)
(* one value, whatever they are now, and to "off" when it flashes that     *)
(* node.  A node nobody works on is then Alike.  It is inductive because   *)
(* two requests on one node are noted in `apart` (CrossInv), because the   *)
(* steps stand in an order (OrderInv: reads, times, bits), and because a   *)
(* flash that fails has its restore left (UndoInv).  TimesInv and UsbInv   *)
(* are the same for power_on_time and for the USB switch.                  *)
(*                                                                         *)
(* First come lemmas about sequences of steps; then what each function of  *)
(* the code does to a node (ProgramDoes); then one lemma per kind of step  *)
(* and per part of the invariant.                                          *)
(***************************************************************************)
EXTENDS BmcApplication, SequenceTheorems, FiniteSetTheorems, TLAPS

(***************************************************************************)
(* The steps, and what is left of a node when a sequence of them is done.  *)
(***************************************************************************)
AnyStep ==
    [do : {"get_state", "get_infos", "set_names", "get_config", "driver", "copy", "startup_power_state"}]
    \cup [do : {"update_power_on_times", "set_state", "usb_boot"}, states : SUBSET Nodes, mask : SUBSET Nodes]
    \cup [do : {"set_mode", "enable"}, node : Nodes, on : BOOLEAN]
    \cup [do : {"pins", "set_config"}, config : UsbConfig]
    \cup [do : {"toggle"}, long : BOOLEAN]

Aspect == {"stored", "mode", "enabled"}
OnOff == {"on", "off"}

\* The aspect of a node that a step writes, and with what.
Writes(s, node, a) ==
    \/ a = "stored" /\ s.do = "set_state" /\ node \in s.mask
    \/ a = "mode" /\ s.do = "set_mode" /\ s.node = node
    \/ a = "enabled" /\ s.do = "enable" /\ s.node = node
Wants(s, node) == IF s.do = "set_state" THEN node \in s.states ELSE s.on
Given(s, node) == IF Wants(s, node) THEN "on" ELSE "off"

\* From `now` the steps of `todo` end in `last`.
EndsIn(todo, node, a, now, last) ==
    /\ \A i \in 1 .. Len(todo) : Writes(todo[i], node, a) =>
          \/ Given(todo[i], node) = last
          \/ \E j \in i + 1 .. Len(todo) : Writes(todo[j], node, a)
    /\ now = last \/ \E i \in 1 .. Len(todo) : Writes(todo[i], node, a)

\* The first step done, the rest ends where the whole did.
LEMMA EndsOfTail ==
    ASSUME NEW todo \in Seq(AnyStep), todo # << >>, NEW node, NEW a, NEW now, NEW last,
           EndsIn(todo, node, a, now, last)
    PROVE  EndsIn(Tail(todo), node, a,
                  IF Writes(Head(todo), node, a) THEN Given(Head(todo), node) ELSE now, last)
<1> DEFINE rest == Tail(todo)
<1>1. /\ Len(todo) \in Nat \ {0} /\ rest \in Seq(AnyStep) /\ Len(rest) = Len(todo) - 1
      /\ Head(todo) = todo[1] /\ \A i \in 1 .. Len(rest) : rest[i] = todo[i + 1]
  BY LenProperties, EmptySeq, HeadTailProperties
<1> HIDE DEF rest
<1>2. ASSUME NEW i \in 1 .. Len(rest), Writes(rest[i], node, a)
      PROVE  \/ Given(rest[i], node) = last
             \/ \E j \in i + 1 .. Len(rest) : Writes(rest[j], node, a)
  <2>1. i + 1 \in 1 .. Len(todo) /\ rest[i] = todo[i + 1]
    BY <1>1
  <2>2. ASSUME NEW j \in (i + 1) + 1 .. Len(todo), Writes(todo[j], node, a)
        PROVE  \E k \in i + 1 .. Len(rest) : Writes(rest[k], node, a)
    <3>1. j - 1 \in i + 1 .. Len(rest) /\ j - 1 \in 1 .. Len(rest) /\ (j - 1) + 1 = j
      BY <1>1
    <3>2. rest[j - 1] = todo[j]
      BY <1>1, <3>1
    <3>3. QED
      BY <2>2, <3>1, <3>2
  <2>3. QED
    BY <1>2, <2>1, <2>2 DEF EndsIn
<1>3. ASSUME NEW i \in 2 .. Len(todo), Writes(todo[i], node, a)
      PROVE  \E k \in 1 .. Len(rest) : Writes(rest[k], node, a)
  <2>1. i - 1 \in 1 .. Len(rest) /\ (i - 1) + 1 = i
    BY <1>1
  <2>2. rest[i - 1] = todo[i]
    BY <1>1, <2>1
  <2>3. QED
    BY <1>3, <2>1, <2>2
<1>4. CASE Writes(todo[1], node, a)
  <2>1. 1 \in 1 .. Len(todo) /\ 1 + 1 = 2
    BY <1>1
  <2>2. Given(todo[1], node) = last \/ \E j \in 2 .. Len(todo) : Writes(todo[j], node, a)
    BY <1>4, <2>1 DEF EndsIn
  <2>3. QED
    BY <1>1, <1>2, <1>3, <1>4, <2>2 DEF EndsIn, rest
<1>5. CASE ~Writes(todo[1], node, a)
  <2>1. now = last \/ \E i \in 2 .. Len(todo) : Writes(todo[i], node, a)
    <3>1. \A i \in 1 .. Len(todo) : i = 1 \/ i \in 2 .. Len(todo)
      BY <1>1
    <3>2. QED
      BY <1>5, <3>1 DEF EndsIn
  <2>2. QED
    BY <1>1, <1>2, <1>3, <1>5, <2>1 DEF EndsIn, rest
<1>6. QED
  BY <1>4, <1>5

\* One sequence and then another end where the second ends from where the first did.
LEMMA EndsOfBoth ==
    ASSUME NEW one \in Seq(AnyStep), NEW two \in Seq(AnyStep), NEW node, NEW a, NEW now, NEW middle, NEW last,
           EndsIn(one, node, a, now, middle), EndsIn(two, node, a, middle, last)
    PROVE  EndsIn(one \o two, node, a, now, last)
<1> DEFINE both == one \o two
<1>1. /\ Len(one) \in Nat /\ Len(two) \in Nat /\ Len(both) = Len(one) + Len(two)
      /\ \A i \in 1 .. Len(one) + Len(two) : both[i] = IF i <= Len(one) THEN one[i] ELSE two[i - Len(one)]
  BY LenProperties, ConcatProperties
<1> HIDE DEF both
<1>2. ASSUME NEW j \in 1 .. Len(two), Writes(two[j], node, a)
      PROVE  /\ Len(one) + j \in 1 .. Len(both) /\ Writes(both[Len(one) + j], node, a)
             /\ \A i \in 1 .. Len(one) : Len(one) + j \in i + 1 .. Len(both)
  <2>1. /\ Len(one) + j \in 1 .. Len(both) /\ ~(Len(one) + j <= Len(one)) /\ (Len(one) + j) - Len(one) = j
        /\ \A i \in 1 .. Len(one) : Len(one) + j \in i + 1 .. Len(both)
    BY <1>1
  <2>2. QED
    BY <1>1, <1>2, <2>1
<1>3. (\A j \in 1 .. Len(two) : ~Writes(two[j], node, a)) => middle = last
  BY DEF EndsIn
<1>4. ASSUME NEW i \in 1 .. Len(both), Writes(both[i], node, a)
      PROVE  Given(both[i], node) = last \/ \E j \in i + 1 .. Len(both) : Writes(both[j], node, a)
  <2>1. CASE i <= Len(one)
    <3>1. i \in 1 .. Len(one) /\ both[i] = one[i]
      BY <1>1, <2>1
    <3>2. CASE \E j \in 1 .. Len(two) : Writes(two[j], node, a)
      BY <1>2, <3>1, <3>2
    <3>3. CASE \A j \in 1 .. Len(two) : ~Writes(two[j], node, a)
      <4>1. Given(one[i], node) = last \/ \E j \in i + 1 .. Len(one) : Writes(one[j], node, a)
        BY <1>3, <1>4, <3>1, <3>3 DEF EndsIn
      <4>2. \A j \in i + 1 .. Len(one) : j \in i + 1 .. Len(both) /\ both[j] = one[j]
        BY <1>1, <3>1
      <4>3. QED
        BY <3>1, <4>1, <4>2
    <3>4. QED
      BY <3>2, <3>3
  <2>2. CASE i > Len(one)
    <3> DEFINE k == i - Len(one)
    <3>1. k \in 1 .. Len(two) /\ both[i] = two[k]
      BY <1>1, <2>2
    <3>2. \A j \in k + 1 .. Len(two) : j \in 1 .. Len(two) /\ Len(one) + j \in i + 1 .. Len(both)
      BY <1>1, <2>2
    <3> HIDE DEF k
    <3>3. QED
      BY <1>2, <1>4, <3>1, <3>2 DEF EndsIn
  <2>3. QED
    BY <1>1, <2>1, <2>2
<1>5. now = last \/ \E i \in 1 .. Len(both) : Writes(both[i], node, a)
  <2>1. CASE \E j \in 1 .. Len(two) : Writes(two[j], node, a)
    BY <1>2, <2>1
  <2>2. CASE \A j \in 1 .. Len(two) : ~Writes(two[j], node, a)
    <3>1. now = last \/ \E i \in 1 .. Len(one) : Writes(one[i], node, a)
      BY <1>3, <2>2 DEF EndsIn
    <3>2. \A j \in 1 .. Len(one) : j \in 1 .. Len(both) /\ both[j] = one[j]
      BY <1>1
    <3>3. QED
      BY <3>1, <3>2
  <2>3. QED
    BY <2>1, <2>2
<1>6. QED
  BY <1>4, <1>5 DEF EndsIn, both

\* Every node of a mask has its place.
LEMMA BitsInOrder ==
    ASSUME NEW mask \in SUBSET Nodes
    PROVE  /\ IsFiniteSet(mask) /\ Cardinality(mask) \in Nat
           /\ \A i \in 1 .. Cardinality(mask) : bit_iterator(mask)[i] \in mask
           /\ \A node \in mask : \E i \in 1 .. Cardinality(mask) : bit_iterator(mask)[i] = node
<1> DEFINE size == Cardinality(mask)
           Upto(node) == {m \in mask : m <= node}
           rank == [node \in mask |-> Cardinality(Upto(node))]
<1>1. IsFiniteSet(mask) /\ size \in Nat /\ mask \subseteq Nat
  BY BoardAssumption, FS_Subset, FS_CardinalityType
<1> HIDE DEF size
<1>2. ASSUME NEW node \in mask
      PROVE  IsFiniteSet(Upto(node)) /\ rank[node] = Cardinality(Upto(node)) /\ rank[node] \in 1 .. size
  <2>1. IsFiniteSet(Upto(node)) /\ Cardinality(Upto(node)) <= size /\ Cardinality(Upto(node)) \in Nat
    BY <1>1, FS_Subset, FS_CardinalityType DEF size
  <2>2. node \in Upto(node)
    BY <1>1
  <2>3. Cardinality(Upto(node)) # 0
    BY <2>1, <2>2, FS_EmptySet
  <2>4. QED
    BY <1>1, <2>1, <2>3
<1>3. ASSUME NEW one \in mask, NEW two \in mask, one < two PROVE rank[one] # rank[two]
  <2>0. one \in Nat /\ two \in Nat /\ \A m \in mask : m \in Nat
    BY <1>1
  <2>1. Upto(one) \subseteq Upto(two) /\ two \in Upto(two) /\ two \notin Upto(one)
    <3>1. \A m \in mask : m <= one => m <= two
      BY <1>3, <2>0
    <3>2. two <= two /\ ~(two <= one)
      BY <1>3, <2>0
    <3>3. QED
      BY <3>1, <3>2
  <2>2. Cardinality(Upto(one)) # Cardinality(Upto(two))
    BY <1>2, <2>1, FS_Subset
  <2>3. QED
    BY <1>2, <2>2
<1> HIDE DEF Upto, rank
<1>4. rank \in Injection(mask, 1 .. size)
  <2>1. rank \in [mask -> 1 .. size]
    BY <1>2 DEF rank
  <2>2. \A one, two \in mask : rank[one] = rank[two] => one = two
    BY <1>1, <1>3
  <2>3. QED
    BY <2>1, <2>2 DEF Injection, IsInjective
<1>5. \A i \in 1 .. size : \E node \in mask : rank[node] = i
  <2>1. IsFiniteSet(1 .. size) /\ Cardinality(1 .. size) = size
    BY <1>1, FS_Interval
  <2>2. rank \in Surjection(mask, 1 .. size)
    BY <1>4, <2>1, FS_Injection DEF size
  <2>3. QED
    BY <2>2 DEF Surjection
<1>6. ASSUME NEW i \in 1 .. size
      PROVE  /\ bit_iterator(mask)[i] \in mask /\ rank[bit_iterator(mask)[i]] = i
  <2>1. bit_iterator(mask)[i] = CHOOSE node \in mask : Cardinality(Upto(node)) = i
    BY DEF bit_iterator, Upto, size
  <2>2. \E node \in mask : Cardinality(Upto(node)) = i
    BY <1>2, <1>5
  <2>3. QED
    BY <1>2, <2>1, <2>2
<1>7. ASSUME NEW node \in mask PROVE \E i \in 1 .. size : bit_iterator(mask)[i] = node
  BY <1>2, <1>4, <1>6 DEF Injection, IsInjective
<1>8. QED
  BY <1>1, <1>6, <1>7 DEF size

(***************************************************************************)
(* The functions, as what they do to a node.                               *)
(***************************************************************************)
Spares(todo, node) == \A i \in 1 .. Len(todo) : \A a \in Aspect : ~Writes(todo[i], node, a)
As(yes) == IF yes THEN "on" ELSE "off"
Leaves(todo, node, last) == \A a \in Aspect : \A now : EndsIn(todo, node, a, now, last)

\* Steps that do not write a node leave it as it was.
LEMMA SparingEndsAsItWas ==
    ASSUME NEW todo, NEW node, Spares(todo, node), NEW a \in Aspect, NEW now, NEW last
    PROVE  EndsIn(todo, node, a, now, last) <=> now = last
  BY DEF EndsIn, Spares

\* The steps that the functions of the code are made of.
LEMMA StepKinds ==
    /\ \A what \in {"get_state", "get_infos", "set_names", "get_config", "driver", "copy", "startup_power_state"} :
          [do |-> what] \in AnyStep
    /\ \A what \in {"update_power_on_times", "set_state", "usb_boot"}, on, nodes \in SUBSET Nodes :
          [do |-> what, states |-> on, mask |-> nodes] \in AnyStep
    /\ \A what \in {"set_mode", "enable"}, n \in Nodes, yes \in BOOLEAN :
          [do |-> what, node |-> n, on |-> yes] \in AnyStep
    /\ \A what \in {"pins", "set_config"}, c \in UsbConfig : [do |-> what, config |-> c] \in AnyStep
    /\ \A yes \in BOOLEAN : [do |-> "toggle", long |-> yes] \in AnyStep
  BY DEF AnyStep

\* set_power_node sets the mode and the line of every node of the mask, and of no other.
LEMMA PoweringANode ==
    ASSUME NEW states \in SUBSET Nodes, NEW mask \in SUBSET Nodes
    PROVE  LET todo == set_power_node(states, mask) IN
           /\ todo \in Seq(AnyStep)
           /\ \A i \in 1 .. Len(todo) :
                 /\ todo[i].do \in {"set_mode", "enable"} /\ todo[i].node \in mask
                 /\ todo[i].on <=> todo[i].node \in states
           /\ \A node \in mask, a \in {"mode", "enabled"} :
                 \E i \in 1 .. Len(todo) : Writes(todo[i], node, a)
<1> DEFINE todo == set_power_node(states, mask)
           size == Cardinality(mask)
           at(k) == bit_iterator(mask)[(k + 1) \div 2]
           made(k) == [do |-> IF k % 2 = 1 THEN "set_mode" ELSE "enable", node |-> at(k), on |-> at(k) \in states]
<1>1. size \in Nat
  BY BitsInOrder
<1>2. todo = [k \in 1 .. 2 * size |-> made(k)]
  BY DEF set_power_node
<1>3. ASSUME NEW k \in 1 .. 2 * size PROVE at(k) \in mask
  <2>1. (k + 1) \div 2 \in 1 .. size
    BY <1>1
  <2>2. QED
    BY <2>1, BitsInOrder
<1> HIDE DEF at
<1>4. ASSUME NEW k \in 1 .. 2 * size PROVE made(k) \in AnyStep
  <2>1. at(k) \in Nodes /\ (at(k) \in states) \in BOOLEAN
    BY <1>3
  <2>2. (IF k % 2 = 1 THEN "set_mode" ELSE "enable") \in {"set_mode", "enable"}
    OBVIOUS
  <2>3. QED
    BY <2>1, <2>2, StepKinds
<1>5. 2 * size \in Nat
  BY <1>1
<1> HIDE DEF size
<1>6. todo \in [1 .. 2 * size -> AnyStep]
  BY <1>2, <1>4
<1>7. todo \in Seq(AnyStep) /\ Len(todo) = 2 * size
  BY <1>5, <1>6, SeqDef, LenProperties
<1>8. ASSUME NEW i \in 1 .. 2 * size
      PROVE  /\ todo[i].do = (IF i % 2 = 1 THEN "set_mode" ELSE "enable") /\ todo[i].node = at(i)
             /\ todo[i].on <=> at(i) \in states
  <2>1. todo[i] = made(i)
    BY <1>2
  <2>2. todo[i].do = (IF i % 2 = 1 THEN "set_mode" ELSE "enable") /\ todo[i].node = at(i)
    BY <2>1
  <2>3. todo[i].on = (at(i) \in states)
    BY <2>1, SMT
  <2>4. todo[i].on <=> at(i) \in states
    BY <2>3, Zenon
  <2>5. QED
    BY <2>2, <2>4
<1> HIDE DEF todo
<1>9. ASSUME NEW node \in mask
      PROVE  /\ \E i \in 1 .. Len(todo) : Writes(todo[i], node, "mode")
             /\ \E i \in 1 .. Len(todo) : Writes(todo[i], node, "enabled")
  <2>1. PICK k \in 1 .. size : bit_iterator(mask)[k] = node
    BY BitsInOrder DEF size
  <2>2. /\ 2 * k - 1 \in 1 .. 2 * size /\ 2 * k \in 1 .. 2 * size
        /\ (2 * k - 1) % 2 = 1 /\ (2 * k) % 2 = 0
        /\ ((2 * k - 1) + 1) \div 2 = k /\ (2 * k + 1) \div 2 = k
    BY <1>1, <2>1
  <2>3. at(2 * k - 1) = node /\ at(2 * k) = node
    BY <2>1, <2>2 DEF at
  <2>4. Writes(todo[2 * k - 1], node, "mode") /\ Writes(todo[2 * k], node, "enabled")
    BY <1>8, <2>2, <2>3 DEF Writes
  <2>5. QED
    BY <1>7, <2>2, <2>4
<1>10. QED
  BY <1>3, <1>7, <1>8, <1>9 DEF todo

(***************************************************************************)
(* The order of the steps.                                                 *)
(***************************************************************************)
Opening == {"toggle", "startup_power_state", "get_config"}
Routing == {"pins", "set_config", "get_config"}
Without(todo, kinds) == \A i \in 1 .. Len(todo) : todo[i].do \notin kinds

\* A step that makes others is the last; the bit-field and the times are
\* written as one, after both were read.
InPlace(todo, i) ==
    /\ todo[i].do \in Opening => i = Len(todo)
    /\ todo[i].do = "update_power_on_times" =>
          /\ i < Len(todo) /\ todo[i + 1].do = "set_state"
          /\ todo[i + 1].states = todo[i].states /\ todo[i + 1].mask = todo[i].mask
          /\ i = 1 \/ todo[i - 1].do = "get_infos"
          /\ i <= 2 \/ todo[i - 2].do = "get_state"
    /\ todo[i].do = "set_state" => i = 1 \/ todo[i - 1].do = "update_power_on_times"
Orderly(todo) == \A i \in 1 .. Len(todo) : InPlace(todo, i)
Begins(todo) ==
    \A i \in 1 .. Len(todo) :
        /\ todo[i].do \in {"update_power_on_times", "set_state", "set_config"} => i > 1
        /\ todo[i].do = "update_power_on_times" => i > 2
Piece(todo) == todo \in Seq(AnyStep) /\ Orderly(todo) /\ Begins(todo)

\* The pins are set for the configuration that is stored next, or for as long
\* as it takes to put the stored one back.
UsbInPlace(todo, i) ==
    /\ todo[i].do = "set_config" => i = 1 \/ (todo[i - 1].do = "pins" /\ todo[i - 1].config = todo[i].config)
    /\ todo[i].do = "pins" =>
          i < Len(todo) /\ (todo[i + 1].do = "set_config" \/ todo[Len(todo)].do = "get_config")
UsbOrderly(todo) == \A i \in 1 .. Len(todo) : UsbInPlace(todo, i)

\* A sequence is one and then the other.
IsBoth(both, one, two) ==
    /\ both \in Seq(AnyStep) /\ Len(both) = Len(one) + Len(two)
    /\ Len(one) \in Nat /\ Len(two) \in Nat
    /\ \A i \in 1 .. Len(one) : i \in 1 .. Len(both) /\ both[i] = one[i]
    /\ \A k \in 1 .. Len(two) : Len(one) + k \in 1 .. Len(both) /\ both[Len(one) + k] = two[k]
    /\ \A i \in 1 .. Len(both) :
          i \in 1 .. Len(one) \/ \E k \in 1 .. Len(two) : i = Len(one) + k

\* The steps of one sequence after another, by their places.
LEMMA StepsOfBoth ==
    ASSUME NEW one \in Seq(AnyStep), NEW two \in Seq(AnyStep), NEW both, both = one \o two
    PROVE  IsBoth(both, one, two)
<1>1. /\ Len(one) \in Nat /\ Len(two) \in Nat /\ both \in Seq(AnyStep) /\ Len(both) = Len(one) + Len(two)
      /\ \A i \in 1 .. Len(one) + Len(two) : both[i] = IF i <= Len(one) THEN one[i] ELSE two[i - Len(one)]
  BY LenProperties, ConcatProperties
<1>2. ASSUME NEW i \in 1 .. Len(one) PROVE i \in 1 .. Len(both) /\ both[i] = one[i]
  BY <1>1
<1>3. ASSUME NEW k \in 1 .. Len(two)
      PROVE  Len(one) + k \in 1 .. Len(both) /\ both[Len(one) + k] = two[k]
  <2>1. Len(one) + k \in 1 .. Len(both) /\ ~ (Len(one) + k <= Len(one)) /\ (Len(one) + k) - Len(one) = k
    BY <1>1
  <2>2. QED
    BY <1>1, <2>1
<1>4. ASSUME NEW i \in 1 .. Len(both), i \notin 1 .. Len(one)
      PROVE  \E k \in 1 .. Len(two) : i = Len(one) + k
  <2>1. i - Len(one) \in 1 .. Len(two) /\ i = Len(one) + (i - Len(one))
    BY <1>1, <1>4
  <2>2. QED
    BY <2>1
<1>5. QED
  BY <1>1, <1>2, <1>3, <1>4 DEF IsBoth

\* What neither sequence has, both do not.
LEMMA WithoutBoth ==
    ASSUME NEW one \in Seq(AnyStep), NEW two \in Seq(AnyStep), NEW kinds, Without(one, kinds), Without(two, kinds)
    PROVE  Without(one \o two, kinds)
<1>1. PICK both : both = one \o two
  OBVIOUS
<1>2. QED
  BY <1>1, StepsOfBoth DEF Without, IsBoth

\* A node that neither sequence writes, both do not.
LEMMA SparesBoth ==
    ASSUME NEW one \in Seq(AnyStep), NEW two \in Seq(AnyStep), NEW node, Spares(one, node), Spares(two, node)
    PROVE  Spares(one \o two, node)
<1>1. PICK both : both = one \o two
  OBVIOUS
<1>2. QED
  BY <1>1, StepsOfBoth DEF Spares, IsBoth

\* Two orderly sequences make one, unless the first ends in a step that makes others.
LEMMA PieceOfBoth ==
    ASSUME NEW one, NEW two, Piece(one), Piece(two), Without(one, Opening)
    PROVE  Piece(one \o two)
<1>1. PICK both : both = one \o two
  OBVIOUS
<1>2. one \in Seq(AnyStep) /\ two \in Seq(AnyStep)
  BY DEF Piece
<1>3. IsBoth(both, one, two)
  BY <1>1, <1>2, StepsOfBoth
<1>a. Len(both) = Len(one) + Len(two) /\ Len(one) \in Nat /\ Len(two) \in Nat
  BY <1>3 DEF IsBoth
<1>4. ASSUME NEW i \in 1 .. Len(one)
      PROVE  /\ InPlace(both, i)
             /\ both[i].do \in {"update_power_on_times", "set_state", "set_config"} => i > 1
             /\ both[i].do = "update_power_on_times" => i > 2
  <2>1. both[i] = one[i] /\ InPlace(one, i) /\ one[i].do \notin Opening
    BY <1>3 DEF Piece, Orderly, Without, IsBoth
  <2>2. /\ one[i].do \in {"update_power_on_times", "set_state", "set_config"} => i > 1
        /\ one[i].do = "update_power_on_times" => i > 2
    BY DEF Piece, Begins
  <2>3. /\ i > 1 => i - 1 \in 1 .. Len(one)
        /\ i > 2 => i - 2 \in 1 .. Len(one)
        /\ i < Len(one) => i + 1 \in 1 .. Len(one) /\ i < Len(both)
    BY <1>a
  <2>4. /\ i > 1 => both[i - 1] = one[i - 1]
        /\ i > 2 => both[i - 2] = one[i - 2]
        /\ i < Len(one) => both[i + 1] = one[i + 1]
    BY <1>3, <2>3 DEF IsBoth
  <2>5. QED
    BY <2>1, <2>2, <2>3, <2>4 DEF InPlace
<1>5. ASSUME NEW k \in 1 .. Len(two), NEW i, i = Len(one) + k
      PROVE  /\ InPlace(both, i)
             /\ both[i].do \in {"update_power_on_times", "set_state", "set_config"} => i > 1
             /\ both[i].do = "update_power_on_times" => i > 2
  <2>1. both[i] = two[k] /\ InPlace(two, k)
    BY <1>3, <1>5 DEF Piece, Orderly, IsBoth
  <2>2. /\ two[k].do \in {"update_power_on_times", "set_state", "set_config"} => k > 1
        /\ two[k].do = "update_power_on_times" => k > 2
    BY DEF Piece, Begins
  <2>3. /\ k > 1 => k - 1 \in 1 .. Len(two) /\ i - 1 = Len(one) + (k - 1) /\ i > 1
        /\ k > 2 => k - 2 \in 1 .. Len(two) /\ i - 2 = Len(one) + (k - 2) /\ i > 2
        /\ k < Len(two) => k + 1 \in 1 .. Len(two) /\ i + 1 = Len(one) + (k + 1) /\ i < Len(both)
        /\ k = Len(two) => i = Len(both)
    BY <1>a, <1>5
  <2>4. /\ k > 1 => both[i - 1] = two[k - 1]
        /\ k > 2 => both[i - 2] = two[k - 2]
        /\ k < Len(two) => both[i + 1] = two[k + 1]
    <3>1. \A j \in 1 .. Len(two) : \A m : m = Len(one) + j => both[m] = two[j]
      BY <1>3 DEF IsBoth
    <3>2. QED
      BY <2>3, <3>1
  <2>5. (~ (k <= 2) <=> k > 2) /\ k \in Nat /\ k # 0
    BY <1>a
  <2>7. QED
    BY <2>1, <2>2, <2>3, <2>4, <2>5 DEF InPlace
<1>6. QED
  BY <1>1, <1>3, <1>4, <1>5 DEF Piece, Orderly, Begins, IsBoth

\* Nothing left to do is in order.
LEMMA EmptyIsAPiece == Piece(<< >>) /\ UsbOrderly(<< >>) /\ \A kinds : Without(<< >>, kinds)
<1>1. << >> \in Seq(AnyStep) /\ Len(<< >>) = 0
  BY EmptySeq
<1>2. 1 .. 0 = {}
  OBVIOUS
<1>3. QED
  BY <1>1, <1>2 DEF Piece, Orderly, Begins, UsbOrderly, Without

\* A step that needs nothing before it is in order alone.
LEMMA OneStep ==
    ASSUME NEW s \in AnyStep, s.do \notin {"update_power_on_times", "set_state", "set_config"}
    PROVE  /\ Piece(<< s >>) /\ << s >> \in Seq(AnyStep)
           /\ Len(<< s >>) = 1 /\ << s >>[1] = s /\ \A i \in 1 .. Len(<< s >>) : i = 1
<1>1. << s >> \in Seq(AnyStep) /\ Len(<< s >>) = 1 /\ << s >>[1] = s
  OBVIOUS
<1>2. \A i \in 1 .. 1 : i = 1
  OBVIOUS
<1>3. QED
  BY <1>1, <1>2 DEF Piece, Orderly, Begins, InPlace

\* Steps that write every aspect of a node, and all the same, leave it so.
LEMMA LeavesAs ==
    ASSUME NEW todo, NEW node, NEW last,
           \A i \in 1 .. Len(todo) : \A a \in Aspect : Writes(todo[i], node, a) => Given(todo[i], node) = last,
           \A a \in Aspect : \E i \in 1 .. Len(todo) : Writes(todo[i], node, a)
    PROVE  Leaves(todo, node, last)
  BY DEF Leaves, EndsIn

\* What is done to the nodes of a mask.
Switches(todo, states, mask) ==
    /\ Piece(todo) /\ Without(todo, Opening \cup Routing)
    /\ \A node \in Nodes \ mask : Spares(todo, node)
    /\ \A node \in mask : Leaves(todo, node, As(node \in states))
    /\ \A i \in 1 .. Len(todo) : todo[i].do = "enable" => (todo[i].on <=> todo[i].node \in states)

\* activate_slot leaves the nodes of the mask as asked, stored and powered, and no other touched.
LEMMA ActivatingNodes ==
    ASSUME NEW states \in SUBSET Nodes, NEW mask \in SUBSET Nodes
    PROVE  Switches(activate_slot(states, mask), states, mask)
<1> DEFINE reads == << [do |-> "get_state"], [do |-> "get_infos"],
                       [do |-> "update_power_on_times", states |-> states, mask |-> mask],
                       [do |-> "set_state", states |-> states, mask |-> mask] >>
           lines == set_power_node(states, mask)
<1>1. /\ reads \in Seq(AnyStep) /\ Len(reads) = 4
      /\ reads[1].do = "get_state" /\ reads[2].do = "get_infos"
      /\ reads[3].do = "update_power_on_times" /\ reads[3].states = states /\ reads[3].mask = mask
      /\ reads[4].do = "set_state" /\ reads[4].states = states /\ reads[4].mask = mask
  BY StepKinds
<1>2. activate_slot(states, mask) = reads \o lines
  BY DEF activate_slot
<1> HIDE DEF reads
<1>3. /\ lines \in Seq(AnyStep)
      /\ \A i \in 1 .. Len(lines) :
            /\ lines[i].do \in {"set_mode", "enable"} /\ lines[i].node \in mask
            /\ lines[i].on <=> lines[i].node \in states
      /\ \A node \in mask, a \in {"mode", "enabled"} :
            \E i \in 1 .. Len(lines) : Writes(lines[i], node, a)
  BY PoweringANode
<1> HIDE DEF lines
<1>4. PICK todo : todo = reads \o lines
  OBVIOUS
<1>5. IsBoth(todo, reads, lines)
  BY <1>1, <1>3, <1>4, StepsOfBoth
<1>6. \A i \in 1 .. 4 : i = 1 \/ i = 2 \/ i = 3 \/ i = 4
  OBVIOUS
<1>7. Piece(reads)
  <2>1. \A i \in 1 .. Len(reads) : InPlace(reads, i)
    BY <1>1, <1>6 DEF InPlace, Opening
  <2>2. QED
    BY <1>1, <1>6, <2>1 DEF Piece, Orderly, Begins
<1>8. Piece(lines)
  BY <1>3 DEF Piece, Orderly, Begins, InPlace, Opening
<1>9. Without(reads, Opening \cup Routing) /\ Without(lines, Opening \cup Routing)
  <2>1. Without(reads, Opening \cup Routing)
    BY <1>1, <1>6 DEF Without, Opening, Routing
  <2>2. Without(lines, Opening \cup Routing)
    BY <1>3 DEF Without, Opening, Routing
  <2>3. QED
    BY <2>1, <2>2
<1>10. Piece(todo) /\ Without(todo, Opening \cup Routing)
  <2>1. Without(reads, Opening)
    BY <1>9 DEF Without
  <2>2. QED
    BY <1>1, <1>3, <1>4, <1>7, <1>8, <1>9, <2>1, PieceOfBoth, WithoutBoth
<1>11. ASSUME NEW node \in Nodes \ mask PROVE Spares(todo, node)
  <2>1. Spares(reads, node)
    BY <1>1, <1>6 DEF Spares, Writes
  <2>2. Spares(lines, node)
    BY <1>3 DEF Spares, Writes
  <2>3. QED
    BY <1>1, <1>3, <1>4, <2>1, <2>2, SparesBoth
<1>12. ASSUME NEW node \in mask PROVE Leaves(todo, node, As(node \in states))
  <2>1. ASSUME NEW i \in 1 .. 4, NEW a \in Aspect, Writes(reads[i], node, a)
        PROVE  Given(reads[i], node) = As(node \in states)
    BY <1>1, <1>6, <2>1 DEF Writes, Given, Wants, As
  <2>2. ASSUME NEW i \in 1 .. Len(lines), NEW a \in Aspect, Writes(lines[i], node, a)
        PROVE  Given(lines[i], node) = As(node \in states)
    <3>1. lines[i].do # "set_state" /\ lines[i].node = node
      BY <1>3, <2>2 DEF Writes
    <3>2. Given(lines[i], node) = As(lines[i].on)
      BY <3>1 DEF Given, Wants, As
    <3>3. QED
      BY <1>3, <3>1, <3>2 DEF As
  <2>3. \A i \in 1 .. Len(todo) : \A a \in Aspect : Writes(todo[i], node, a) => Given(todo[i], node) = As(node \in states)
    BY <1>1, <1>5, <2>1, <2>2 DEF IsBoth
  <2>4. ASSUME NEW a \in Aspect PROVE \E i \in 1 .. Len(todo) : Writes(todo[i], node, a)
    <3>1. CASE a = "stored"
      <4>1. 4 \in 1 .. Len(reads) /\ Writes(reads[4], node, a)
        BY <1>1, <3>1 DEF Writes
      <4>2. QED
        BY <1>5, <4>1 DEF IsBoth
    <3>2. CASE a \in {"mode", "enabled"}
      BY <1>3, <1>5, <3>2 DEF IsBoth
    <3>3. QED
      BY <3>1, <3>2 DEF Aspect
  <2>5. QED
    BY <2>3, <2>4, LeavesAs
<1>13. ASSUME NEW i \in 1 .. Len(todo), todo[i].do = "enable"
       PROVE  todo[i].on <=> todo[i].node \in states
  <2>1. CASE i \in 1 .. Len(reads)
    BY <1>1, <1>5, <1>6, <1>13, <2>1 DEF IsBoth
  <2>2. CASE \E k \in 1 .. Len(lines) : i = Len(reads) + k
    BY <1>3, <1>5, <2>2 DEF IsBoth
  <2>3. QED
    BY <1>5, <2>1, <2>2 DEF IsBoth
<1>14. QED
  BY <1>2, <1>4, <1>10, <1>11, <1>12, <1>13 DEF Switches

\* How a node is left by one sequence after another.
LEMMA LeavesBoth ==
    ASSUME NEW one \in Seq(AnyStep), NEW two \in Seq(AnyStep), NEW node, NEW last, NEW then,
           Leaves(one, node, last), Leaves(two, node, then) \/ (Spares(two, node) /\ then = last)
    PROVE  Leaves(one \o two, node, then)
<1> SUFFICES ASSUME NEW a \in Aspect, NEW now PROVE EndsIn(one \o two, node, a, now, then)
  BY DEF Leaves
<1>1. EndsIn(one, node, a, now, last)
  BY DEF Leaves
<1>2. EndsIn(two, node, a, last, then)
  BY SparingEndsAsItWas DEF Leaves
<1>3. QED
  BY <1>1, <1>2, EndsOfBoth

\* What is done to one node, and nothing.
Closed == Opening \cup {"set_config"}
Does(todo, node, last) ==
    /\ Piece(todo) /\ Without(todo, Closed)
    /\ \A other \in Nodes \ {node} : Spares(todo, other)
    /\ Leaves(todo, node, last)
Nothing(todo) == Piece(todo) /\ Without(todo, Closed) /\ \A node \in Nodes : Spares(todo, node)

\* A step that is not about power leaves every node alone.
LEMMA NothingIsDone ==
    ASSUME NEW s \in AnyStep,
           s.do \notin Closed \cup {"update_power_on_times", "set_state", "set_mode", "enable"}
    PROVE  Nothing(<< s >>)
<1>1. /\ Piece(<< s >>) /\ << s >>[1] = s /\ \A i \in 1 .. Len(<< s >>) : i = 1
  BY OneStep DEF Closed
<1>2. QED
  BY <1>1 DEF Nothing, Without, Spares, Writes

\* What is done to a node by one sequence after another.
LEMMA DoesBoth ==
    ASSUME NEW one, NEW two, NEW node \in Nodes, NEW last, NEW then, Does(one, node, last),
           Does(two, node, then) \/ (Nothing(two) /\ then = last)
    PROVE  Does(one \o two, node, then)
<1>1. /\ Piece(one) /\ one \in Seq(AnyStep) /\ Piece(two) /\ two \in Seq(AnyStep)
      /\ Without(one, Closed) /\ Without(two, Closed)
  BY DEF Does, Nothing, Piece
<1>2. Piece(one \o two) /\ Without(one \o two, Closed)
  <2>1. Without(one, Opening)
    BY <1>1 DEF Without, Closed
  <2>2. QED
    BY <1>1, <2>1, PieceOfBoth, WithoutBoth
<1>3. \A other \in Nodes \ {node} : Spares(one \o two, other)
  BY <1>1, SparesBoth DEF Does, Nothing
<1>4. Leaves(one \o two, node, then)
  BY <1>1, LeavesBoth DEF Does, Nothing
<1>5. QED
  BY <1>2, <1>3, <1>4 DEF Does

\* activate_slot of one node.
LEMMA Activates ==
    ASSUME NEW node \in Nodes, NEW states \in {{}, {node}}
    PROVE  Does(activate_slot(states, {node}), node, As(node \in states))
<1>1. Switches(activate_slot(states, {node}), states, {node})
  BY ActivatingNodes
<1>2. QED
  BY <1>1 DEF Switches, Does, Without, Closed, Routing

\* reboot_into_usb leaves its node on and no other touched.
LEMMA RebootingIntoUsb ==
    ASSUME NEW node \in Nodes
    PROVE  Does(reboot_into_usb(node), node, "on")
<1>1. Does(activate_slot({}, {node}), node, "off") /\ Does(activate_slot({node}, {node}), node, "on")
  BY Activates DEF As
<1>2. Nothing(configure_usb_internal(Flashing(node))) /\ Nothing(usb_boot({}, Nodes))
  <2>1. Flashing(node) \in UsbConfig
    BY DEF Flashing, UsbConfig
  <2>2. QED
    BY <2>1, StepKinds, NothingIsDone DEF configure_usb_internal, usb_boot, Closed, Opening
<1>3. QED
  BY <1>1, <1>2, DoesBoth DEF reboot_into_usb

\* A sequence that ends with the stored configuration being put back.
PutsBack(todo, node) ==
    /\ Piece(todo) /\ Without(todo, {"toggle", "startup_power_state", "set_config"})
    /\ Len(todo) > 0 /\ todo[Len(todo)].do = "get_config"
    /\ \A other \in Nodes \ {node} : Spares(todo, other)
    /\ Leaves(todo, node, "off")

\* The restore of a flash powers its node off and puts the USB switch back.
LEMMA Restoring ==
    ASSUME NEW node \in Nodes
    PROVE  PutsBack(restore(node), node)
<1> DEFINE one == activate_slot({}, {node}) \o usb_boot({}, {node})
           two == << [do |-> "get_config"] >>
<1>1. Does(one, node, "off")
  <2>1. Does(activate_slot({}, {node}), node, "off")
    BY Activates DEF As
  <2>2. Nothing(usb_boot({}, {node}))
    BY StepKinds, NothingIsDone DEF usb_boot, Closed, Opening
  <2>3. QED
    BY <2>1, <2>2, DoesBoth
<1>2. /\ Piece(two) /\ two \in Seq(AnyStep) /\ Len(two) = 1 /\ two[1].do = "get_config"
      /\ \A i \in 1 .. Len(two) : i = 1
  <2>1. [do |-> "get_config"] \in AnyStep
    BY StepKinds
  <2>2. QED
    BY <2>1, OneStep
<1>3. restore(node) = one \o two
  BY DEF restore
<1> HIDE DEF one, two
<1>4. Without(one, Opening) /\ one \in Seq(AnyStep)
  BY <1>1 DEF Does, Without, Closed, Piece
<1>5. Piece(one \o two)
  BY <1>1, <1>2, <1>4, PieceOfBoth DEF Does
<1>6. PICK both : both = one \o two
  OBVIOUS
<1>7. IsBoth(both, one, two)
  BY <1>2, <1>4, <1>6, StepsOfBoth
<1>8. Len(both) > 0 /\ both[Len(both)].do = "get_config"
  <2>1. 1 \in 1 .. Len(two) /\ Len(both) = Len(one) + 1 /\ Len(one) \in Nat
    BY <1>2, <1>7 DEF IsBoth
  <2>2. QED
    BY <1>2, <1>7, <2>1 DEF IsBoth
<1>9. Without(both, {"toggle", "startup_power_state", "set_config"})
  <2>1. Without(one, {"toggle", "startup_power_state", "set_config"})
    BY <1>1 DEF Does, Without, Closed, Opening
  <2>2. Without(two, {"toggle", "startup_power_state", "set_config"})
    BY <1>2 DEF Without
  <2>3. QED
    BY <1>2, <1>4, <1>6, <2>1, <2>2, WithoutBoth
<1>10. \A m \in Nodes : Spares(two, m)
  BY <1>2 DEF Spares, Writes
<1>11. \A other \in Nodes \ {node} : Spares(both, other)
  BY <1>1, <1>2, <1>4, <1>6, <1>10, SparesBoth DEF Does
<1>12. Leaves(both, node, "off")
  BY <1>1, <1>2, <1>4, <1>6, <1>10, LeavesBoth DEF Does
<1>13. QED
  BY <1>3, <1>5, <1>6, <1>8, <1>9, <1>11, <1>12 DEF PutsBack

\* A flash ends with its restore.
LEMMA FlashingANode ==
    ASSUME NEW node \in Nodes
    PROVE  PutsBack(flash_node(node), node)
<1> DEFINE one == reboot_into_usb(node) \o << [do |-> "driver"], [do |-> "copy"] >>
           two == restore(node)
<1>1. Does(one, node, "on")
  <2>1. Nothing(<< [do |-> "driver"], [do |-> "copy"] >>)
    <3> DEFINE both == << [do |-> "driver"], [do |-> "copy"] >>
    <3>1. both \in Seq(AnyStep) /\ Len(both) = 2 /\ both[1].do = "driver" /\ both[2].do = "copy"
      BY StepKinds
    <3>2. \A i \in 1 .. 2 : i = 1 \/ i = 2
      OBVIOUS
    <3> HIDE DEF both
    <3>3. Nothing(both)
      BY <3>1, <3>2 DEF Nothing, Piece, Orderly, Begins, InPlace, Without, Spares, Writes, Closed, Opening
    <3>4. QED
      BY <3>3 DEF both
  <2>2. QED
    BY <2>1, RebootingIntoUsb, DoesBoth
<1>2. PutsBack(two, node)
  BY Restoring
<1>3. flash_node(node) = one \o two
  BY DEF flash_node
<1> HIDE DEF one, two
<1>4. /\ Without(one, Opening) /\ one \in Seq(AnyStep) /\ two \in Seq(AnyStep) /\ Piece(one) /\ Piece(two)
      /\ Without(one, {"toggle", "startup_power_state", "set_config"})
  BY <1>1, <1>2 DEF Does, PutsBack, Without, Closed, Opening, Piece
<1>5. PICK both : both = one \o two
  OBVIOUS
<1>6. IsBoth(both, one, two)
  BY <1>4, <1>5, StepsOfBoth
<1>7. Len(both) > 0 /\ both[Len(both)].do = "get_config"
  <2>1. Len(two) \in 1 .. Len(two) /\ Len(both) = Len(one) + Len(two) /\ Len(both) > 0
    BY <1>2, <1>6 DEF IsBoth, PutsBack
  <2>2. QED
    BY <1>2, <1>6, <2>1 DEF IsBoth, PutsBack
<1>8. Piece(both) /\ Without(both, {"toggle", "startup_power_state", "set_config"})
  BY <1>2, <1>4, <1>5, PieceOfBoth, WithoutBoth DEF PutsBack
<1>9. \A other \in Nodes \ {node} : Spares(both, other)
  BY <1>1, <1>2, <1>4, <1>5, SparesBoth DEF Does, PutsBack
<1>10. Leaves(both, node, "off")
  BY <1>1, <1>2, <1>4, <1>5, LeavesBoth DEF Does, PutsBack
<1>11. QED
  BY <1>3, <1>5, <1>7, <1>8, <1>9, <1>10 DEF PutsBack

(***************************************************************************)
(* What a request does.                                                    *)
(***************************************************************************)
Expands(todo) == ~ Without(todo, {"toggle", "startup_power_state"})

\* The nodes that a request has still to power are those it writes, or all of them when its steps are not known yet.
LEMMA PowerOfSteps ==
    ASSUME NEW todo \in Seq(AnyStep), NEW node \in Nodes
    PROVE  node \in PowerOf(todo) <=> ~ Spares(todo, node) \/ Expands(todo)
<1>1. DOMAIN todo = 1 .. Len(todo)
  BY LenProperties
<1>2. ASSUME NEW s
      PROVE  Powers(s, node) <=> s.do \in {"toggle", "startup_power_state"} \/ \E a \in Aspect : Writes(s, node, a)
  BY DEF Powers, Writes, Aspect
<1>3. QED
  BY <1>1, <1>2 DEF PowerOf, Spares, Expands, Without

\* A reset ends with the node on, and stores nothing.
Restarts(todo, node) ==
    /\ \A i \in 1 .. Len(todo) : ~ Writes(todo[i], node, "stored")
    /\ \A a \in {"mode", "enabled"} : \A now : EndsIn(todo, node, a, now, "on")

\* The lines of one node are set without the store being told.
LEMMA DrivingLines ==
    ASSUME NEW node \in Nodes, NEW states \in {{}, {node}}
    PROVE  LET todo == set_power_node(states, {node}) IN
           /\ Piece(todo) /\ Without(todo, Opening \cup Routing)
           /\ \A other \in Nodes \ {node} : Spares(todo, other)
           /\ \A i \in 1 .. Len(todo) : ~ Writes(todo[i], node, "stored")
           /\ \A a \in {"mode", "enabled"} : \A now : EndsIn(todo, node, a, now, As(node \in states))
<1> DEFINE todo == set_power_node(states, {node})
<1>0. {node} \in SUBSET Nodes /\ states \in SUBSET Nodes
  OBVIOUS
<1>1. /\ todo \in Seq(AnyStep)
      /\ \A i \in 1 .. Len(todo) :
            /\ todo[i].do \in {"set_mode", "enable"} /\ todo[i].node \in {node}
            /\ todo[i].on <=> todo[i].node \in states
      /\ \A m \in {node}, a \in {"mode", "enabled"} : \E i \in 1 .. Len(todo) : Writes(todo[i], m, a)
  BY <1>0, PoweringANode
<1> HIDE DEF todo
<1>2. Piece(todo)
  BY <1>1 DEF Piece, Orderly, Begins, InPlace, Opening
<1>3. Without(todo, Opening \cup Routing)
  BY <1>1 DEF Without, Opening, Routing
<1>4. /\ \A other \in Nodes \ {node} : Spares(todo, other)
      /\ \A i \in 1 .. Len(todo) : ~ Writes(todo[i], node, "stored")
  BY <1>1 DEF Spares, Writes
<1>5. ASSUME NEW i \in 1 .. Len(todo) PROVE Given(todo[i], node) = As(node \in states)
  <2>1. Given(todo[i], node) = As(todo[i].on)
    BY <1>1 DEF Given, Wants, As
  <2>2. QED
    BY <1>1, <2>1 DEF As
<1>6. \A a \in {"mode", "enabled"} : \A now : EndsIn(todo, node, a, now, As(node \in states))
  BY <1>1, <1>5 DEF EndsIn
<1>7. QED
  BY <1>2, <1>3, <1>4, <1>6 DEF todo

\* reset_node leaves its node on, whatever is stored.
LEMMA Resetting ==
    ASSUME NEW node \in Nodes
    PROVE  /\ Piece(reset_node(node)) /\ Without(reset_node(node), Opening \cup Routing)
           /\ \A other \in Nodes \ {node} : Spares(reset_node(node), other)
           /\ Restarts(reset_node(node), node)
<1> DEFINE one == set_power_node({}, {node})
           two == set_power_node({node}, {node})
<1>1. /\ Piece(one) /\ Without(one, Opening \cup Routing)
      /\ \A other \in Nodes \ {node} : Spares(one, other)
      /\ \A i \in 1 .. Len(one) : ~ Writes(one[i], node, "stored")
      /\ \A a \in {"mode", "enabled"} : \A now : EndsIn(one, node, a, now, "off")
  BY DrivingLines DEF As
<1>2. /\ Piece(two) /\ Without(two, Opening \cup Routing)
      /\ \A other \in Nodes \ {node} : Spares(two, other)
      /\ \A i \in 1 .. Len(two) : ~ Writes(two[i], node, "stored")
      /\ \A a \in {"mode", "enabled"} : \A now : EndsIn(two, node, a, now, "on")
  BY DrivingLines DEF As
<1> HIDE DEF one, two
<1>3. one \in Seq(AnyStep) /\ two \in Seq(AnyStep) /\ Without(one, Opening)
  BY <1>1, <1>2 DEF Piece, Without
<1>4. PICK both : both = one \o two
  OBVIOUS
<1>5. Piece(both) /\ Without(both, Opening \cup Routing)
  BY <1>1, <1>2, <1>3, <1>4, PieceOfBoth, WithoutBoth
<1>6. \A other \in Nodes \ {node} : Spares(both, other)
  BY <1>1, <1>2, <1>3, <1>4, SparesBoth
<1>7. \A i \in 1 .. Len(both) : ~ Writes(both[i], node, "stored")
  BY <1>1, <1>2, <1>3, <1>4, StepsOfBoth DEF IsBoth
<1>8. \A a \in {"mode", "enabled"} : \A now : EndsIn(both, node, a, now, "on")
  BY <1>1, <1>2, <1>3, <1>4, EndsOfBoth
<1>9. reset_node(node) = both
  BY <1>4 DEF reset_node, one, two
<1>10. QED
  BY <1>5, <1>6, <1>7, <1>8, <1>9 DEF Restarts

\* configure_usb sets the switch and then stores what it set.
LEMMA ConfiguringUsb ==
    ASSUME NEW config \in UsbConfig
    PROVE  LET todo == configure_usb(config) IN
           /\ Piece(todo) /\ Len(todo) = 2 /\ UsbOrderly(todo)
           /\ todo[1].do = "pins" /\ todo[2].do = "set_config"
           /\ todo[1].config = config /\ todo[2].config = config
           /\ \A node : Spares(todo, node)
<1> DEFINE todo == configure_usb(config)
           one == << [do |-> "pins", config |-> config] >>
           two == << [do |-> "set_config", config |-> config] >>
<1>1. /\ one \in Seq(AnyStep) /\ Len(one) = 1 /\ one[1].do = "pins" /\ one[1].config = config
      /\ two \in Seq(AnyStep) /\ Len(two) = 1 /\ two[1].do = "set_config" /\ two[1].config = config
  BY StepKinds
<1>2. /\ todo \in Seq(AnyStep) /\ Len(todo) = 2
      /\ todo[1].do = "pins" /\ todo[2].do = "set_config"
      /\ todo[1].config = config /\ todo[2].config = config
  <2>1. todo = one \o two
    BY DEF configure_usb, configure_usb_internal
  <2> HIDE DEF todo, one, two
  <2>2. IsBoth(todo, one, two)
    BY <1>1, <2>1, StepsOfBoth
  <2>3. 1 \in 1 .. 1 /\ 1 + 1 = 2
    OBVIOUS
  <2>4. todo[1] = one[1] /\ todo[2] = two[1]
    BY <1>1, <2>2, <2>3 DEF IsBoth
  <2>5. QED
    BY <1>1, <2>2, <2>3, <2>4 DEF IsBoth
<1> HIDE DEF todo
<1>3. \A i \in 1 .. 2 : i = 1 \/ i = 2
  OBVIOUS
<1>4. Piece(todo)
  BY <1>2, <1>3 DEF Piece, Orderly, Begins, InPlace, Opening
<1>5. UsbOrderly(todo)
  BY <1>2, <1>3 DEF UsbOrderly, UsbInPlace
<1>6. \A node : Spares(todo, node)
  BY <1>2, <1>3 DEF Spares, Writes
<1>7. QED
  BY <1>2, <1>4, <1>5, <1>6 DEF todo

\* A sequence that stores no configuration of the switch itself keeps its steps on it in order.
LEMMA WithoutRouting ==
    ASSUME NEW todo, \/ Without(todo, Opening \cup Routing)
                     \/ Without(todo, {"pins", "set_config"})
                     \/ Without(todo, {"set_config"}) /\ Len(todo) \in Nat /\ todo[Len(todo)].do = "get_config"
    PROVE  UsbOrderly(todo)
<1>1. CASE Without(todo, Opening \cup Routing) \/ Without(todo, {"pins", "set_config"})
  BY <1>1 DEF UsbOrderly, UsbInPlace, Without, Routing
<1>2. CASE Without(todo, {"set_config"}) /\ Len(todo) \in Nat /\ todo[Len(todo)].do = "get_config"
  <2>1. ASSUME NEW i \in 1 .. Len(todo), todo[i].do = "pins" PROVE i < Len(todo)
    <3>1. i # Len(todo)
      BY <1>2, <2>1
    <3>2. QED
      BY <1>2, <3>1
  <2>2. QED
    BY <1>2, <2>1 DEF UsbOrderly, UsbInPlace, Without
<1>3. QED
  BY <1>1, <1>2

\* What every request does to every node: nothing it can name beforehand, nothing at all, or one end for all three records, but for a reset.
LEMMA ProgramDoes ==
    ASSUME NEW r \in Requests
    PROVE  LET todo == Program(r) IN
           /\ Piece(todo) /\ (r.op # "msd" => UsbOrderly(todo))
           /\ r.op = "flash" => PutsBack(todo, r.node) /\ r.node \in Nodes
           /\ r.op = "reset" => r.node \in Nodes /\ Restarts(todo, r.node)
           /\ \A node \in Nodes :
                 \/ Spares(todo, node) \/ Expands(todo)
                 \/ \E last \in OnOff : Leaves(todo, node, last)
                 \/ r.op = "reset" /\ node = r.node
<1> DEFINE todo == Program(r)
<1>0. \A yes : As(yes) \in OnOff
  BY DEF As, OnOff
<1>1. CASE r.op = "power"
  <2>1. todo = activate_slot(r.states, r.mask)
    BY <1>1 DEF Program, set_node_power
  <2>2. r.states \in SUBSET Nodes /\ r.mask \in SUBSET Nodes
    BY <1>1, RequestsAssumption
  <2>3. Switches(todo, r.states, r.mask)
    BY <2>1, <2>2, ActivatingNodes
  <2> HIDE DEF todo
  <2>4. Piece(todo) /\ UsbOrderly(todo)
    BY <2>3, WithoutRouting DEF Switches
  <2>5. QED
    BY <1>0, <1>1, <2>3, <2>4 DEF Switches, todo
<1>2. CASE r.op = "toggle"
  <2>1. todo = << [do |-> "toggle", long |-> r.long] >> /\ [do |-> "toggle", long |-> r.long] \in AnyStep
    BY <1>2, RequestsAssumption, StepKinds DEF Program, toggle_power_states
  <2> HIDE DEF todo
  <2>2. Piece(todo) /\ Len(todo) = 1 /\ todo[1].do = "toggle"
    BY <2>1, OneStep
  <2>3. Expands(todo) /\ UsbOrderly(todo)
    <3>1. 1 \in 1 .. 1 /\ \A i \in 1 .. 1 : i = 1
      OBVIOUS
    <3>2. QED
      BY <2>2, <3>1 DEF Expands, Without, UsbOrderly, UsbInPlace
  <2>4. QED
    BY <1>2, <2>2, <2>3 DEF todo
<1>3. CASE r.op = "reset"
  <2>1. todo = reset_node(r.node) /\ r.node \in Nodes
    BY <1>3, RequestsAssumption DEF Program
  <2> HIDE DEF todo
  <2>2. /\ Piece(todo) /\ Without(todo, Opening \cup Routing)
        /\ \A other \in Nodes \ {r.node} : Spares(todo, other)
        /\ Restarts(todo, r.node)
    BY <2>1, Resetting
  <2>3. UsbOrderly(todo)
    BY <2>2, WithoutRouting
  <2>4. QED
    BY <1>3, <2>1, <2>2, <2>3 DEF todo
<1>4. CASE r.op = "usb"
  <2>1. todo = configure_usb(r.config) /\ r.config \in UsbConfig
    BY <1>4, RequestsAssumption DEF Program, set_usb_mode
  <2> HIDE DEF todo
  <2>2. Piece(todo) /\ UsbOrderly(todo) /\ \A node : Spares(todo, node)
    BY <2>1, ConfiguringUsb
  <2>3. QED
    BY <1>4, <2>2 DEF todo
<1>5. CASE r.op \in {"usb_boot", "clear_usb_boot"}
  <2>1. PICK s \in AnyStep : todo = << s >> /\ s.do = "usb_boot"
    BY <1>5, RequestsAssumption, StepKinds DEF Program, usb_boot
  <2> HIDE DEF todo
  <2>2. Nothing(todo) /\ Len(todo) = 1 /\ todo[1].do = "usb_boot"
    BY <2>1, OneStep, NothingIsDone DEF Closed, Opening
  <2>3. \A i \in 1 .. 1 : i = 1
    OBVIOUS
  <2>4. UsbOrderly(todo)
    BY <2>2, <2>3 DEF UsbOrderly, UsbInPlace
  <2>5. QED
    BY <1>5, <2>2, <2>4 DEF todo, Nothing
<1>6. CASE r.op = "msd"
  <2>1. todo = reboot_into_usb(r.node) \o << [do |-> "driver"] >> /\ r.node \in Nodes
    BY <1>6, RequestsAssumption DEF Program, node_in_msd
  <2>2. Nothing(<< [do |-> "driver"] >>)
    BY StepKinds, NothingIsDone DEF Closed, Opening
  <2> HIDE DEF todo
  <2>3. Does(todo, r.node, "on")
    BY <2>1, <2>2, RebootingIntoUsb, DoesBoth
  <2>4. QED
    BY <1>6, <2>3 DEF Does, OnOff, todo
<1>7. CASE r.op = "flash"
  <2>1. todo = flash_node(r.node) /\ r.node \in Nodes
    BY <1>7, RequestsAssumption DEF Program
  <2> HIDE DEF todo
  <2>2. PutsBack(todo, r.node)
    BY <2>1, FlashingANode
  <2>3. UsbOrderly(todo)
    <3>1. Without(todo, {"set_config"}) /\ Len(todo) \in Nat
      BY <2>2, LenProperties DEF PutsBack, Without, Piece
    <3>2. QED
      BY <2>2, <3>1, WithoutRouting DEF PutsBack
  <2>4. QED
    BY <1>7, <2>1, <2>2, <2>3 DEF PutsBack, OnOff, todo
<1>8. CASE r.op = "info"
  <2>1. todo = << [do |-> "get_infos"], [do |-> "set_names"] >>
    BY <1>8 DEF Program, set_node_info
  <2>2. /\ todo \in Seq(AnyStep) /\ Len(todo) = 2
        /\ todo[1].do = "get_infos" /\ todo[2].do = "set_names"
    BY <2>1, StepKinds
  <2> HIDE DEF todo
  <2>3. \A i \in 1 .. 2 : i = 1 \/ i = 2
    OBVIOUS
  <2>4. Piece(todo) /\ UsbOrderly(todo)
    BY <2>2, <2>3 DEF Piece, Orderly, Begins, InPlace, Opening, UsbOrderly, UsbInPlace
  <2>5. \A node : Spares(todo, node)
    BY <2>2, <2>3 DEF Spares, Writes
  <2>6. QED
    BY <1>8, <2>4, <2>5 DEF todo
<1>9. QED
  BY <1>1, <1>2, <1>3, <1>4, <1>5, <1>6, <1>7, <1>8, RequestsAssumption

(***************************************************************************)
(* The steps, in one form.                                                 *)
(***************************************************************************)
Everyone == Tasks \cup {"start"}
TaskState ==
    [todo : Seq(AnyStep), undo : Seq(AnyStep), state : SUBSET Nodes, infos : SUBSET Nodes,
     flash : Nodes \cup {Off}]
Kept == [activated : SUBSET Nodes, since : SUBSET Nodes, config : UsbConfig]
Shape ==
    /\ up \in BOOLEAN /\ store \in Kept /\ disk \in Kept
    /\ mode \in SUBSET Nodes /\ enable \in SUBSET Nodes
    /\ usb \in [route : {"Bmc", "AlternativePort"}, node : Nodes, host : BOOLEAN]
    /\ task \in [Everyone -> TaskState]

\* The fields of a step.
LEMMA StepShapes ==
    ASSUME NEW s \in AnyStep
    PROVE  /\ s.do \in {"update_power_on_times", "set_state", "usb_boot"} =>
                 s.states \in SUBSET Nodes /\ s.mask \in SUBSET Nodes
           /\ s.do \in {"set_mode", "enable"} => s.node \in Nodes
           /\ s.do \in {"pins", "set_config"} => s.config \in UsbConfig
  BY DEF AnyStep

\* A request that is under way has a step to do.
LEMMA TheStep ==
    ASSUME Shape, NEW t \in Everyone, task[t].todo # << >>
    PROVE  /\ task[t] \in TaskState /\ task[t].todo \in Seq(AnyStep) /\ Len(task[t].todo) \in Nat \ {0}
           /\ step(t) = task[t].todo[1] /\ step(t) \in AnyStep /\ 1 \in 1 .. Len(task[t].todo)
<1>1. task[t] \in TaskState /\ task[t].todo \in Seq(AnyStep)
  BY DEF Shape, TaskState
<1>2. Len(task[t].todo) \in Nat \ {0}
  BY <1>1, LenProperties, EmptySeq
<1>3. 1 \in 1 .. Len(task[t].todo)
  BY <1>2
<1>4. Head(task[t].todo) = task[t].todo[1] /\ Head(task[t].todo) \in AnyStep
  BY <1>1, HeadTailProperties
<1>5. QED
  BY <1>1, <1>2, <1>3, <1>4 DEF step

\* What a step does to the request it is of.
Onward(t, r) ==
    /\ r \in TaskState /\ task' = [task EXCEPT ![t] = r]
    /\ r.flash = task[t].flash /\ r.undo \in {task[t].undo, << >>}
    /\ r.todo = << >> /\ step(t).do \notin {"get_state", "get_infos"} => r.undo = << >>
    /\ r.todo # << >> =>
          /\ r.state = IF step(t).do = "get_state" THEN store.activated ELSE task[t].state
          /\ r.infos = IF step(t).do = "get_infos" THEN store.since ELSE task[t].infos
    /\ step(t).do \notin Opening => r.todo = Tail(task[t].todo)
    /\ step(t).do = "get_config" => r.todo = configure_usb(store.config) \o Tail(task[t].todo)
    /\ step(t).do \in {"toggle", "startup_power_state"} =>
          \E nodes \in SUBSET Nodes :
             /\ r.todo = activate_slot(nodes, Nodes) \o Tail(task[t].todo)
             /\ step(t).do = "startup_power_state" => enable \subseteq nodes \cup misread'

\* What a step does to everything else.
Touches(t) ==
    LET x == step(t) IN
    /\ up' = up /\ disk' = disk /\ usb_apart' = usb_apart
    /\ x.do # "startup_power_state" => misread' = misread
    /\ store'.activated = IF x.do = "set_state" THEN (task[t].state \ x.mask) \cup (x.states \cap x.mask)
                          ELSE store.activated
    /\ store'.since = IF x.do = "update_power_on_times" THEN Times(task[t].state, task[t].infos, x.states, x.mask)
                      ELSE IF x.do = "set_names" THEN task[t].infos ELSE store.since
    /\ store'.config = IF x.do = "set_config" THEN x.config ELSE store.config
    /\ mode' = IF x.do = "set_mode" THEN Switched(mode, x) ELSE mode
    /\ enable' = IF x.do = "enable" THEN Switched(enable, x) ELSE enable
    /\ usb' = IF x.do = "pins" THEN Routed(x.config) ELSE usb
    /\ apart' = IF x.do = "set_state" THEN apart \cup (Differ(task[t].state, store.activated) \ x.mask)
                ELSE apart
    /\ torn' = torn \cup
          (IF x.do = "set_state" THEN Differ(task[t].state, store.activated) \ x.mask
           ELSE IF x.do = "update_power_on_times" THEN Differ(task[t].infos, store.since) \ x.mask
           ELSE IF x.do = "set_names" THEN Differ(task[t].infos, store.since) ELSE {})

\* What is left when a step is done, and that nothing is left when it was the last.
LEMMA LastTail ==
    ASSUME NEW todo \in Seq(AnyStep), todo # << >>
    PROVE  /\ Tail(todo) \in Seq(AnyStep) /\ Len(Tail(todo)) = Len(todo) - 1 /\ Len(todo) \in Nat \ {0}
           /\ Tail(todo) = << >> <=> Len(todo) = 1
           /\ \A i \in 1 .. Len(Tail(todo)) : i + 1 \in 1 .. Len(todo) /\ Tail(todo)[i] = todo[i + 1]
<1>1. /\ Tail(todo) \in Seq(AnyStep) /\ Len(Tail(todo)) = Len(todo) - 1 /\ Len(todo) \in Nat \ {0}
      /\ \A i \in 1 .. Len(Tail(todo)) : Tail(todo)[i] = todo[i + 1]
  BY HeadTailProperties, LenProperties, EmptySeq
<1>2. PICK rest \in Seq(AnyStep) : rest = Tail(todo)
  BY <1>1
<1>3. rest = << >> <=> Len(rest) = 0
  BY EmptySeq
<1>4. Len(rest) = 0 <=> Len(todo) = 1
  BY <1>1, <1>2
<1>5. \A i \in 1 .. Len(todo) - 1 : i + 1 \in 1 .. Len(todo)
  BY <1>1
<1>6. QED
  BY <1>1, <1>2, <1>3, <1>4, <1>5

\* The steps that leave only the rest.
LEMMA DoneGoesOn ==
    ASSUME Shape, NEW t \in Everyone, task[t].todo # << >>, Done(t),
           step(t).do \notin Opening \cup {"get_state", "get_infos"}
    PROVE  \E r : Onward(t, r)
<1> DEFINE old == task[t]
           r == IF Len(old.todo) = 1 THEN [Idle EXCEPT !.flash = old.flash]
                ELSE [old EXCEPT !.todo = Tail(old.todo)]
<1>1. old \in TaskState /\ old.todo \in Seq(AnyStep) /\ Len(old.todo) \in Nat \ {0}
  BY TheStep
<1>2. task' = [task EXCEPT ![t] = r]
  BY DEF Done
<1>3. Tail(old.todo) \in Seq(AnyStep) /\ (Tail(old.todo) = << >> <=> Len(old.todo) = 1)
  BY <1>1, LastTail
<1>4. CASE Len(old.todo) = 1
  <2>1. Tail(old.todo) = << >>
    BY <1>3, <1>4
  <2>2. r = [Idle EXCEPT !.flash = old.flash] /\ Idle \in TaskState /\ Idle.todo = << >> /\ Idle.undo = << >>
    BY <1>4, EmptySeq DEF Idle, TaskState
  <2>3. r \in TaskState /\ r.todo = << >> /\ r.undo = << >> /\ r.flash = old.flash
    BY <1>1, <2>2 DEF TaskState, Idle
  <2> HIDE DEF r
  <2>4. QED
    BY <1>2, <2>1, <2>3 DEF Onward, Opening
<1>5. CASE Len(old.todo) # 1
  <2>1. Tail(old.todo) # << >>
    BY <1>3, <1>5
  <2>2. r = [old EXCEPT !.todo = Tail(old.todo)]
    BY <1>5
  <2>3. /\ r \in TaskState /\ r.todo = Tail(old.todo) /\ r.undo = old.undo /\ r.flash = old.flash
        /\ r.state = old.state /\ r.infos = old.infos
    BY <1>1, <1>3, <2>2 DEF TaskState
  <2> HIDE DEF r
  <2>4. QED
    BY <1>2, <2>1, <2>3 DEF Onward, Opening
<1>6. QED
  BY <1>4, <1>5

\* The steps that read.
LEMMA ReadGoesOn ==
    ASSUME Shape, NEW t \in Everyone, task[t].todo # << >>,
           \/ /\ step(t).do = "get_state"
              /\ task' = [task EXCEPT ![t].todo = Tail(@), ![t].state = store.activated]
           \/ /\ step(t).do = "get_infos"
              /\ task' = [task EXCEPT ![t].todo = Tail(@), ![t].infos = store.since]
           \/ /\ step(t).do = "copy"
              /\ task' = [task EXCEPT ![t].todo = Tail(@), ![t].undo = << >>]
    PROVE  \E r : Onward(t, r)
<1> DEFINE old == task[t]
           rest == Tail(task[t].todo)
<1>1. old \in TaskState /\ rest \in Seq(AnyStep) /\ << >> \in Seq(AnyStep)
  BY TheStep, LastTail, EmptySeq
<1>2. CASE step(t).do = "get_state"
  <2> DEFINE r == [old EXCEPT !.todo = rest, !.state = store.activated]
  <2>1. task' = [task EXCEPT ![t] = r]
    BY <1>2 DEF Shape
  <2>2. /\ r \in TaskState /\ r.todo = rest /\ r.state = store.activated
        /\ r.infos = old.infos /\ r.undo = old.undo /\ r.flash = old.flash
    BY <1>1 DEF TaskState, Shape, Kept
  <2> HIDE DEF r
  <2>3. QED
    BY <1>2, <2>1, <2>2 DEF Onward, Opening
<1>3. CASE step(t).do = "get_infos"
  <2> DEFINE r == [old EXCEPT !.todo = rest, !.infos = store.since]
  <2>1. task' = [task EXCEPT ![t] = r]
    BY <1>3 DEF Shape
  <2>2. /\ r \in TaskState /\ r.todo = rest /\ r.infos = store.since
        /\ r.state = old.state /\ r.undo = old.undo /\ r.flash = old.flash
    BY <1>1 DEF TaskState, Shape, Kept
  <2> HIDE DEF r
  <2>3. QED
    BY <1>3, <2>1, <2>2 DEF Onward, Opening
<1>4. CASE step(t).do = "copy"
  <2> DEFINE r == [old EXCEPT !.todo = rest, !.undo = << >>]
  <2>1. task' = [task EXCEPT ![t] = r]
    BY <1>4 DEF Shape
  <2>2. /\ r \in TaskState /\ r.todo = rest /\ r.infos = old.infos
        /\ r.state = old.state /\ r.undo = << >> /\ r.flash = old.flash
    BY <1>1 DEF TaskState
  <2> HIDE DEF r
  <2>3. QED
    BY <1>4, <2>1, <2>2 DEF Onward, Opening
<1>5. QED
  BY <1>2, <1>3, <1>4

\* The steps that make others.
LEMMA OpeningGoesOn ==
    ASSUME Shape, NEW t \in Everyone, task[t].todo # << >>, NEW todo, Goes(t, todo), Piece(todo), Len(todo) > 0,
           \/ step(t).do = "get_config" /\ todo = configure_usb(store.config)
           \/ /\ step(t).do \in {"toggle", "startup_power_state"}
              /\ \E nodes \in SUBSET Nodes :
                    todo = activate_slot(nodes, Nodes) /\ (step(t).do = "startup_power_state" => enable \subseteq nodes \cup misread')
    PROVE  \E r : Onward(t, r)
<1> DEFINE old == task[t]
           rest == Tail(task[t].todo)
           all == todo \o rest
           r == [old EXCEPT !.todo = all]
<1>1. old \in TaskState /\ rest \in Seq(AnyStep) /\ todo \in Seq(AnyStep)
  BY TheStep, LastTail DEF Piece
<1>2. IsBoth(all, todo, rest)
  BY <1>1, StepsOfBoth
<1>3. all \in Seq(AnyStep) /\ all # << >>
  <2>1. Len(all) > 0
    BY <1>2 DEF IsBoth
  <2>2. QED
    BY <1>2, <2>1, EmptySeq DEF IsBoth
<1>4. task' = [task EXCEPT ![t] = r]
  BY DEF Shape, Goes
<1>5. /\ r \in TaskState /\ r.todo = all /\ r.infos = old.infos
      /\ r.state = old.state /\ r.undo = old.undo /\ r.flash = old.flash
  BY <1>1, <1>3 DEF TaskState
<1> HIDE DEF r
<1>6. QED
  BY <1>3, <1>4, <1>5 DEF Onward, Opening

\* Every step of the program is one of its request and touches what Touches says.
LEMMA EveryStep ==
    ASSUME Shape, NEW t \in Everyone, Step(t)
    PROVE  task[t].todo # << >> /\ Touches(t) /\ \E r : Onward(t, r)
<1>1. ASSUME NEW what, Doing(t, what) PROVE step(t).do = what /\ task[t].todo # << >>
  BY <1>1 DEF Doing, step
<1>2. CASE get_state(t) \/ get_infos(t) \/ copy(t)
  <2>1. task[t].todo # << >> /\ step(t).do \in {"get_state", "get_infos", "copy"}
    BY <1>1, <1>2 DEF get_state, get_infos, copy
  <2>2. \E r : Onward(t, r)
    BY <1>1, <1>2, <2>1, ReadGoesOn DEF get_state, get_infos, copy
  <2>3. Touches(t)
    BY <1>2, <2>1 DEF get_state, get_infos, copy, Touches, hardware
  <2>4. QED
    BY <2>1, <2>2, <2>3
<1>3. ASSUME set_mode(t) \/ set_enable(t) \/ set_usb_boot(t) \/ pins(t) \/ set_config(t) \/ driver(t)
             \/ update_power_on_times(t) \/ set_names(t) \/ set_state(t)
      PROVE  task[t].todo # << >> /\ Touches(t) /\ \E r : Onward(t, r)
  <2>1. task[t].todo # << >> /\ Done(t)
        /\ step(t).do \in {"set_mode", "enable", "usb_boot", "pins", "set_config", "driver",
                           "update_power_on_times", "set_names", "set_state"}
    BY <1>1, <1>3 DEF set_mode, set_enable, set_usb_boot, pins, set_config, driver,
                      update_power_on_times, set_names, set_state
  <2>2. \E r : Onward(t, r)
    BY <2>1, DoneGoesOn DEF Opening
  <2>3. Touches(t)
    <3> USE DEF Touches, hardware
    <3>1. CASE set_mode(t)
      BY <1>1, <3>1 DEF set_mode
    <3>2. CASE set_enable(t)
      BY <1>1, <3>2 DEF set_enable
    <3>3. CASE set_usb_boot(t)
      BY <1>1, <3>3 DEF set_usb_boot
    <3>4. CASE pins(t)
      BY <1>1, <3>4 DEF pins
    <3>5. CASE set_config(t)
      BY <1>1, <3>5 DEF set_config, Shape, Kept
    <3>6. CASE driver(t)
      BY <1>1, <3>6 DEF driver
    <3>7. CASE update_power_on_times(t)
      BY <1>1, <3>7 DEF update_power_on_times, Shape, Kept
    <3>8. CASE set_names(t)
      BY <1>1, <3>8 DEF set_names, Shape, Kept
    <3>9. CASE set_state(t)
      BY <1>1, <3>9 DEF set_state, Shape, Kept
    <3>10. QED
      BY <1>3, <3>1, <3>2, <3>3, <3>4, <3>5, <3>6, <3>7, <3>8, <3>9
  <2>4. QED
    BY <2>1, <2>2, <2>3
<1>4. CASE get_config(t)
  <2>1. step(t).do = "get_config" /\ task[t].todo # << >> /\ Goes(t, configure_usb(store.config))
    BY <1>1, <1>4 DEF get_config
  <2>2. Piece(configure_usb(store.config)) /\ Len(configure_usb(store.config)) > 0
    BY ConfiguringUsb DEF Shape, Kept
  <2>3. \E r : Onward(t, r)
    BY <2>1, <2>2, OpeningGoesOn
  <2>4. Touches(t)
    BY <1>4, <2>1 DEF get_config, Touches, hardware
  <2>5. QED
    BY <2>1, <2>3, <2>4
<1>5. ASSUME NEW nodes \in SUBSET Nodes PROVE Piece(activate_slot(nodes, Nodes)) /\ Len(activate_slot(nodes, Nodes)) > 0
  <2>1. Nodes \in SUBSET Nodes /\ 1 \in Nodes
    BY BoardAssumption
  <2>2. Switches(activate_slot(nodes, Nodes), nodes, Nodes)
    BY <2>1, ActivatingNodes
  <2>3. Leaves(activate_slot(nodes, Nodes), 1, As(1 \in nodes))
    BY <2>1, <2>2 DEF Switches
  <2>4. \E i \in 1 .. Len(activate_slot(nodes, Nodes)) : Writes(activate_slot(nodes, Nodes)[i], 1, "stored")
    <3>1. PICK now : now # As(1 \in nodes)
      <4>1. "on" # "off"
        OBVIOUS
      <4>2. QED
        BY <4>1
    <3>2. QED
      BY <2>3, <3>1 DEF Leaves, EndsIn, Aspect
  <2>5. Len(activate_slot(nodes, Nodes)) \in Nat
    BY <2>2, LenProperties DEF Switches, Piece
  <2>6. QED
    BY <2>2, <2>4, <2>5 DEF Switches
<1>6. CASE toggle(t)
  <2>1. step(t).do = "toggle" /\ task[t].todo # << >>
    BY <1>1, <1>6 DEF toggle
  <2>2. PICK nodes \in SUBSET Nodes : Goes(t, activate_slot(nodes, Nodes))
    BY <1>6 DEF toggle
  <2>3. \E r : Onward(t, r)
    BY <1>5, <2>1, <2>2, OpeningGoesOn
  <2>4. Touches(t)
    BY <1>6, <2>1 DEF toggle, Touches, hardware
  <2>5. QED
    BY <2>1, <2>3, <2>4
<1>7. CASE startup_power_state(t)
  <2>1. step(t).do = "startup_power_state" /\ task[t].todo # << >>
    BY <1>1, <1>7 DEF startup_power_state
  <2>2. PICK nodes \in SUBSET Nodes : Goes(t, activate_slot(nodes, Nodes)) /\ enable \subseteq nodes \cup misread'
    <3>1. PICK live \in {enable, {}} :
            /\ Goes(t, activate_slot(IF live # {} THEN live ELSE store.activated, Nodes))
            /\ misread' = IF live = enable THEN {} ELSE enable \ store.activated
      BY <1>7 DEF startup_power_state
    <3>2. enable \in SUBSET Nodes /\ store.activated \in SUBSET Nodes
      BY DEF Shape, Kept
    <3>3. QED
      BY <3>1, <3>2
  <2>3. \E r : Onward(t, r)
    BY <1>5, <2>1, <2>2, OpeningGoesOn
  <2>4. Touches(t)
    BY <1>7, <2>1 DEF startup_power_state, Touches, hardware
  <2>5. QED
    BY <2>1, <2>3, <2>4
<1>8. QED
  BY <1>2, <1>3, <1>4, <1>6, <1>7 DEF Step

(***************************************************************************)
(* The invariant.                                                          *)
(***************************************************************************)
Now(node, a) ==
    IF a = "stored" THEN As(node \in store.activated)
    ELSE IF a = "mode" THEN As(node \in mode) ELSE As(node \in enable)
Alike(node) == \E last : \A a \in Aspect : Now(node, a) = last

OrderInv == \A t \in Everyone : Orderly(task[t].todo)

\* A flash that has an undo is the flash of a node, and has the configuration
\* of the USB switch still to put back.
UndoInv ==
    \A t \in Everyone : task[t].undo # << >> =>
        /\ task[t].flash \in Nodes /\ task[t].undo = restore(task[t].flash)
        /\ Len(task[t].todo) > 0 /\ task[t].todo[Len(task[t].todo)].do \in {"get_config", "set_config"}

\* Nothing is under way when the daemon is down, and nothing else while it
\* starts.
RestInv ==
    /\ ~ up => \A t \in Everyone : task[t].todo = << >>
    /\ task["start"].todo # << >> => \A t \in Tasks : task[t].todo = << >>
    /\ task["start"].undo = << >>

\* Two requests that work on one node are noted.
CrossInv ==
    \A node \in Nodes : \A t \in Everyone : \A u \in Everyone :
        t # u /\ node \in WorksOn(t) /\ node \in WorksOn(u) => node \in apart /\ node \in torn

\* What is left of a request brings the three records of a node together, and
\* that of a flash brings them to "off".
Settles(t, node) ==
    /\ task[t].flash = node => ~ Expands(task[t].todo)
    /\ \/ Expands(task[t].todo)
       \/ \E last : /\ task[t].flash = node => last = "off"
                    /\ \A a \in Aspect : EndsIn(task[t].todo, node, a, Now(node, a), last)
PowerInv ==
    up => \A node \in Nodes : node \in apart
             \/ /\ \A t \in Everyone : node \in WorksOn(t) => Settles(t, node)
                /\ (\A t \in Everyone : node \notin WorksOn(t)) => Alike(node)

\* A request works on the nodes it has still to write, and on the one it flashes.
LEMMA WorkIsTodo ==
    ASSUME Shape, NEW t \in Everyone, NEW node \in Nodes
    PROVE  node \in WorksOn(t) <=>
             \/ ~ Spares(task[t].todo, node) \/ Expands(task[t].todo)
             \/ task[t].todo # << >> /\ task[t].flash = node
<1>1. task[t].todo \in Seq(AnyStep) /\ node # Off
  BY BoardAssumption DEF Shape, TaskState, Off
<1>2. node \in PowerOf(task[t].todo) <=> ~ Spares(task[t].todo, node) \/ Expands(task[t].todo)
  BY <1>1, PowerOfSteps
<1>3. QED
  BY <1>1, <1>2 DEF WorksOn

\* The same after a step.
LEMMA WorkIsTodoThen ==
    ASSUME Shape', NEW t \in Everyone, NEW node \in Nodes
    PROVE  node \in WorksOn(t)' <=>
             \/ ~ Spares(task'[t].todo, node) \/ Expands(task'[t].todo)
             \/ task'[t].todo # << >> /\ task'[t].flash = node
<1>1. task'[t].todo \in Seq(AnyStep) /\ node # Off
  BY BoardAssumption DEF Shape, TaskState, Off
<1>2. PICK todo : todo = task'[t].todo
  OBVIOUS
<1>3. node \in PowerOf(todo) <=> ~ Spares(todo, node) \/ Expands(todo)
  BY <1>1, <1>2, PowerOfSteps
<1>4. node \in WorksOn(t)' <=> node \in PowerOf(todo) \/ (todo # << >> /\ task'[t].flash = node)
  BY <1>1, <1>2 DEF WorksOn
<1>5. QED
  BY <1>2, <1>3, <1>4

\* Nothing left to do writes no node.
LEMMA EmptySpares == \A node : Spares(<< >>, node) /\ ~ Expands(<< >>) /\ Orderly(<< >>)
<1>1. Len(<< >>) = 0 /\ 1 .. 0 = {}
  BY EmptySeq
<1>2. QED
  BY <1>1 DEF Spares, Expands, Without, Orderly

\* What is left of an orderly sequence is orderly.
LEMMA RestInOrder ==
    ASSUME NEW todo \in Seq(AnyStep), todo # << >>
    PROVE  /\ Orderly(todo) => Orderly(Tail(todo))
           /\ UsbOrderly(todo) => UsbOrderly(Tail(todo))
           /\ Orderly(todo) /\ todo[1].do \in Opening => Tail(todo) = << >>
           /\ \A node : Spares(todo, node) => Spares(Tail(todo), node)
           /\ Expands(Tail(todo)) => Expands(todo)
           /\ Expands(todo) => Expands(Tail(todo)) \/ todo[1].do \in {"toggle", "startup_power_state"}
<1>1. PICK rest \in Seq(AnyStep) : rest = Tail(todo)
  BY LastTail
<1>2. /\ Len(rest) = Len(todo) - 1 /\ Len(todo) \in Nat \ {0} /\ (rest = << >> <=> Len(todo) = 1)
      /\ \A i \in 1 .. Len(rest) : i + 1 \in 1 .. Len(todo) /\ rest[i] = todo[i + 1]
  BY <1>1, LastTail
<1>3. ASSUME NEW i \in 1 .. Len(rest)
      PROVE  /\ rest[i] = todo[i + 1] /\ i + 1 \in 1 .. Len(todo)
             /\ (i + 1 = Len(todo) <=> i = Len(rest)) /\ (i + 1 < Len(todo) <=> i < Len(rest))
             /\ i < Len(rest) => rest[i + 1] = todo[(i + 1) + 1]
             /\ i > 1 => rest[i - 1] = todo[(i + 1) - 1]
             /\ i > 2 => rest[i - 2] = todo[(i + 1) - 2]
             /\ Len(rest) \in 1 .. Len(rest) /\ rest[Len(rest)] = todo[Len(todo)]
             /\ i \in Nat /\ i # 0
  <2>1. \A j \in 1 .. Len(rest) : \A k : k = j + 1 => rest[j] = todo[k]
    BY <1>2
  <2>2. PICK n \in Nat : n = Len(rest) /\ Len(todo) = n + 1
    BY <1>2
  <2>3. /\ i \in Nat /\ i # 0 /\ (i + 1 = Len(todo) <=> i = Len(rest)) /\ (i + 1 < Len(todo) <=> i < Len(rest))
        /\ i < Len(rest) => i + 1 \in 1 .. Len(rest)
        /\ i > 1 => i - 1 \in 1 .. Len(rest) /\ (i + 1) - 1 = (i - 1) + 1
        /\ i > 2 => i - 2 \in 1 .. Len(rest) /\ (i + 1) - 2 = (i - 2) + 1
        /\ Len(rest) \in 1 .. Len(rest) /\ Len(todo) = Len(rest) + 1
    BY <2>2
  <2>4. i < Len(rest) => rest[i + 1] = todo[(i + 1) + 1]
    BY <2>1, <2>3
  <2>5. /\ i > 1 => rest[i - 1] = todo[(i + 1) - 1]
        /\ i > 2 => rest[i - 2] = todo[(i + 1) - 2]
        /\ rest[Len(rest)] = todo[Len(todo)]
    BY <2>1, <2>3
  <2>6. QED
    BY <1>2, <2>3, <2>4, <2>5
<1>4. ASSUME Orderly(todo), NEW i \in 1 .. Len(rest) PROVE InPlace(rest, i)
  <2>1. InPlace(todo, i + 1)
    BY <1>3, <1>4 DEF Orderly
  <2>2. /\ i + 1 = 1 \/ i = 1 \/ i > 1
        /\ i + 1 # 1 /\ (i + 1 <= 2 <=> i = 1) /\ (~ (i <= 2) <=> i > 2)
    BY <1>3
  <2>3. QED
    BY <1>3, <2>1, <2>2 DEF InPlace
<1>5. ASSUME UsbOrderly(todo), NEW i \in 1 .. Len(rest) PROVE UsbInPlace(rest, i)
  <2>1. UsbInPlace(todo, i + 1)
    BY <1>3, <1>5 DEF UsbOrderly
  <2>2. i + 1 # 1 /\ (i = 1 \/ i > 1)
    BY <1>3
  <2>3. QED
    BY <1>3, <2>1, <2>2 DEF UsbInPlace
<1>6. ASSUME Orderly(todo), todo[1].do \in Opening PROVE rest = << >>
  <2>1. 1 \in 1 .. Len(todo)
    BY <1>2
  <2>2. QED
    BY <1>2, <1>6, <2>1 DEF Orderly, InPlace
<1>7. \A node : Spares(todo, node) => Spares(rest, node)
  BY <1>3 DEF Spares
<1>8. Expands(rest) => Expands(todo)
  BY <1>3 DEF Expands, Without
<1>9. ASSUME Expands(todo), todo[1].do \notin {"toggle", "startup_power_state"} PROVE Expands(rest)
  <2>1. PICK i \in 1 .. Len(todo) : todo[i].do \in {"toggle", "startup_power_state"}
    BY <1>9 DEF Expands, Without
  <2>2. i # 1
    BY <1>9, <2>1
  <2>3. i - 1 \in 1 .. Len(rest) /\ (i - 1) + 1 = i
    BY <1>2, <2>2
  <2>4. QED
    BY <1>2, <2>1, <2>3 DEF Expands, Without
<1>10. QED
  BY <1>1, <1>4, <1>5, <1>6, <1>7, <1>8, <1>9 DEF Orderly, UsbOrderly

\* A step leaves its request in order, with nothing to write that it had not before.
LEMMA GoesInOrder ==
    ASSUME Shape, OrderInv, NEW t \in Everyone, task[t].todo # << >>, Touches(t), NEW r, Onward(t, r)
    PROVE  /\ task'[t] = r /\ \A u \in Everyone \ {t} : task'[u] = task[u]
           /\ Orderly(r.todo) /\ r \in TaskState
           /\ step(t).do \notin Opening => r.todo = Tail(task[t].todo)
           /\ step(t).do = "get_config" => r.todo = configure_usb(store.config)
           /\ step(t).do \in {"toggle", "startup_power_state"} =>
                 \E nodes \in SUBSET Nodes :
                    r.todo = activate_slot(nodes, Nodes) /\ (step(t).do = "startup_power_state" => enable \subseteq nodes \cup misread')
           /\ Expands(r.todo) => Expands(task[t].todo)
           /\ \A node \in Nodes : Spares(task[t].todo, node) /\ ~ Expands(task[t].todo) => Spares(r.todo, node)
<1> DEFINE todo == task[t].todo
           rest == Tail(todo)
<1>1. /\ todo \in Seq(AnyStep) /\ todo # << >> /\ step(t) = todo[1] /\ Orderly(todo) /\ 1 \in 1 .. Len(todo)
  BY TheStep DEF OrderInv
<1> HIDE DEF todo
<1>2. /\ rest \in Seq(AnyStep) /\ Orderly(rest) /\ (todo[1].do \in Opening => rest = << >>)
      /\ \A node : Spares(todo, node) => Spares(rest, node)
      /\ Expands(rest) => Expands(todo)
  BY <1>1, LastTail, RestInOrder
<1> HIDE DEF rest
<1>3. task'[t] = r /\ (\A u \in Everyone \ {t} : task'[u] = task[u]) /\ r \in TaskState
  BY DEF Onward, Shape
<1>4. CASE step(t).do \notin Opening
  <2>1. r.todo = rest
    BY <1>4 DEF Onward, rest, todo
  <2>2. QED
    BY <1>2, <1>3, <1>4, <2>1 DEF rest, todo, Opening
<1>5. CASE step(t).do = "get_config"
  <2>1. rest = << >> /\ store.config \in UsbConfig
    BY <1>1, <1>2, <1>5 DEF Opening, Shape, Kept
  <2>2. PICK made : made = configure_usb(store.config)
    OBVIOUS
  <2>3. Piece(made) /\ Len(made) = 2 /\ (\A node : Spares(made, node)) /\ made[1].do = "pins" /\ made[2].do = "set_config"
    BY <2>1, <2>2, ConfiguringUsb
  <2>4. made \in Seq(AnyStep)
    BY <2>3 DEF Piece
  <2>5. r.todo = made
    <3>1. r.todo = made \o rest
      BY <1>5, <2>2 DEF Onward, rest, todo
    <3>2. QED
      BY <2>1, <2>4, <3>1, ConcatEmptySeq
  <2>6. ~ Expands(made)
    <3>1. \A i \in 1 .. 2 : i = 1 \/ i = 2
      OBVIOUS
    <3>2. QED
      BY <2>3, <3>1 DEF Expands, Without
  <2>7. QED
    BY <1>3, <1>5, <2>2, <2>3, <2>5, <2>6 DEF Piece, Opening
<1>6. CASE step(t).do \in {"toggle", "startup_power_state"}
  <2>1. rest = << >> /\ Expands(todo)
    BY <1>1, <1>2, <1>6 DEF Opening, Expands, Without
  <2>2. PICK nodes \in SUBSET Nodes :
          r.todo = activate_slot(nodes, Nodes) \o rest /\ (step(t).do = "startup_power_state" => enable \subseteq nodes \cup misread')
    BY <1>6 DEF Onward, rest, todo
  <2>3. PICK made : made = activate_slot(nodes, Nodes)
    OBVIOUS
  <2>4. Switches(made, nodes, Nodes)
    <3>1. Nodes \in SUBSET Nodes
      OBVIOUS
    <3>2. QED
      BY <2>3, <3>1, ActivatingNodes
  <2>5. made \in Seq(AnyStep) /\ Orderly(made) /\ ~ Expands(made)
    BY <2>4 DEF Switches, Piece, Expands, Without, Opening
  <2>6. r.todo = made
    BY <2>1, <2>2, <2>3, <2>5, ConcatEmptySeq
  <2>7. QED
    BY <1>3, <1>6, <2>1, <2>2, <2>3, <2>5, <2>6 DEF Opening, todo
<1>7. QED
  BY <1>4, <1>5, <1>6 DEF Opening

\* What a step leaves of the records of a node whose stored bit was not lost.
LEMMA StepMoves ==
    ASSUME Shape, NEW t \in Everyone, task[t].todo # << >>, Touches(t),
           NEW node \in Nodes, node \notin apart', NEW a \in Aspect
    PROVE  Now(node, a)' = IF Writes(step(t), node, a) THEN Given(step(t), node) ELSE Now(node, a)
<1>1. CASE a = "stored"
  <2>1. CASE step(t).do = "set_state"
    <3>1. /\ store'.activated = (task[t].state \ step(t).mask) \cup (step(t).states \cap step(t).mask)
          /\ apart' = apart \cup (Differ(task[t].state, store.activated) \ step(t).mask)
      BY <2>1 DEF Touches
    <3>2. CASE node \in step(t).mask
      <4>1. node \in store'.activated <=> node \in step(t).states
        BY <3>1, <3>2
      <4>2. QED
        BY <1>1, <2>1, <3>2, <4>1 DEF Now, Writes, Given, Wants, As
    <3>3. CASE node \notin step(t).mask
      <4>1. node \in store'.activated <=> node \in store.activated
        BY <3>1, <3>3 DEF Differ
      <4>2. QED
        BY <1>1, <2>1, <3>3, <4>1 DEF Now, Writes, As
    <3>4. QED
      BY <3>2, <3>3
  <2>2. CASE step(t).do # "set_state"
    BY <1>1, <2>2 DEF Touches, Now, Writes
  <2>3. QED
    BY <2>1, <2>2
<1>2. CASE a = "mode"
  BY <1>2 DEF Touches, Now, Writes, Switched, Given, Wants, As
<1>3. CASE a = "enabled"
  BY <1>3 DEF Touches, Now, Writes, Switched, Given, Wants, As
<1>4. QED
  BY <1>1, <1>2, <1>3 DEF Aspect

\* What a step leaves of its request still settles a node.
LEMMA StepSettles ==
    ASSUME Shape, OrderInv, NEW t \in Everyone, task[t].todo # << >>, Touches(t), NEW r, Onward(t, r),
           NEW node \in Nodes, node \notin apart', Settles(t, node)
    PROVE  Settles(t, node)'
<1> DEFINE todo == task[t].todo
<1>0. todo \in Seq(AnyStep) /\ todo # << >> /\ step(t) = todo[1] /\ step(t) \in AnyStep /\ Head(todo) = step(t)
      /\ 1 \in 1 .. Len(todo)
  BY TheStep DEF step
<1>1. /\ task'[t] = r /\ r.flash = task[t].flash
      /\ step(t).do \notin Opening => r.todo = Tail(todo)
      /\ step(t).do = "get_config" => r.todo = configure_usb(store.config)
      /\ step(t).do \in {"toggle", "startup_power_state"} =>
            \E nodes \in SUBSET Nodes : r.todo = activate_slot(nodes, Nodes)
      /\ Expands(r.todo) => Expands(todo)
  <2>1. r.flash = task[t].flash
    BY DEF Onward
  <2>2. QED
    BY <2>1, GoesInOrder
<1> HIDE DEF todo
<1>2. r.flash = node => ~ Expands(r.todo)
  BY <1>1 DEF Settles, todo
<1>3. SUFFICES ASSUME ~ Expands(r.todo)
               PROVE  \E last : /\ r.flash = node => last = "off"
                                /\ \A a \in Aspect : EndsIn(r.todo, node, a, Now(node, a)', last)
  <2>1. PICK todo2 : todo2 = r.todo
    OBVIOUS
  <2>2. ASSUME NEW last, NEW a \in Aspect, EndsIn(r.todo, node, a, Now(node, a)', last)
        PROVE  EndsIn(task[t].todo, node, a, Now(node, a), last)'
    BY <1>1, <2>2 DEF EndsIn
  <2>3. CASE Expands(r.todo)
    <3>1. Expands(task[t].todo)'
      BY <1>1, <2>3 DEF Expands, Without
    <3>2. (task[t].flash = node => ~ Expands(task[t].todo))'
      BY <1>1, <1>2, <2>3
    <3>3. QED
      BY <3>1, <3>2 DEF Settles
  <2>4. CASE ~ Expands(r.todo)
    <3>1. ~ Expands(task[t].todo)'
      BY <1>1, <2>4 DEF Expands, Without
    <3>2. PICK last : /\ r.flash = node => last = "off"
                      /\ \A a \in Aspect : EndsIn(r.todo, node, a, Now(node, a)', last)
      BY <1>3, <2>4
    <3>3. \A a \in Aspect : EndsIn(task[t].todo, node, a, Now(node, a), last)'
      BY <2>2, <3>2
    <3>4. QED
      BY <1>1, <3>1, <3>2, <3>3 DEF Settles
  <2>5. QED
    BY <2>3, <2>4
<1>4. CASE step(t).do \in {"toggle", "startup_power_state"}
  <2>1. Expands(todo)
    BY <1>0, <1>4 DEF Expands, Without
  <2>2. r.flash # node
    BY <1>1, <2>1 DEF Settles, todo
  <2>3. PICK nodes \in SUBSET Nodes : r.todo = activate_slot(nodes, Nodes)
    BY <1>1, <1>4
  <2>4. Nodes \in SUBSET Nodes
    OBVIOUS
  <2>5. Leaves(r.todo, node, As(node \in nodes))
    <3>1. Switches(activate_slot(nodes, Nodes), nodes, Nodes)
      BY <2>4, ActivatingNodes
    <3>2. QED
      BY <2>3, <3>1 DEF Switches
  <2>6. QED
    BY <2>2, <2>5 DEF Leaves
<1>5. CASE step(t).do \notin {"toggle", "startup_power_state"}
  <2>1. ~ Expands(todo)
    <3>1. CASE step(t).do \in Opening
      <4>1. Tail(todo) = << >>
        BY <1>0, <3>1, RestInOrder DEF OrderInv, todo
      <4>2. Len(todo) = 1
        BY <1>0, <4>1, LastTail
      <4>3. \A i \in 1 .. 1 : i = 1
        OBVIOUS
      <4>4. QED
        BY <1>0, <1>5, <4>2, <4>3 DEF Expands, Without
    <3>2. CASE step(t).do \notin Opening
      BY <1>0, <1>1, <1>3, <1>5, <3>2, RestInOrder
    <3>3. QED
      BY <3>1, <3>2
  <2>2. PICK last : /\ task[t].flash = node => last = "off"
                    /\ \A a \in Aspect : EndsIn(todo, node, a, Now(node, a), last)
    BY <2>1 DEF Settles, todo
  <2>3. ASSUME NEW a \in Aspect PROVE EndsIn(r.todo, node, a, Now(node, a)', last)
    <3>1. Now(node, a)' = IF Writes(step(t), node, a) THEN Given(step(t), node) ELSE Now(node, a)
      BY StepMoves
    <3>2. PICK now : now = Now(node, a)'
      OBVIOUS
    <3>3. PICK was : was = Now(node, a)
      OBVIOUS
    <3>4. EndsIn(todo, node, a, was, last)
      BY <2>2, <3>3
    <3>5. EndsIn(Tail(todo), node, a, now, last)
      BY <1>0, <3>1, <3>2, <3>3, <3>4, EndsOfTail
    <3>6. CASE step(t).do \notin Opening
      BY <1>1, <3>2, <3>5, <3>6
    <3>7. CASE step(t).do \in Opening
      <4>1. step(t).do = "get_config" /\ Tail(todo) = << >>
        BY <1>0, <1>5, <3>7, RestInOrder DEF OrderInv, Opening, todo
      <4>2. now = last
        <5>1. Spares(<< >>, node) /\ EndsIn(<< >>, node, a, now, last)
          BY <3>5, <4>1, EmptySpares
        <5>2. QED
          BY <5>1, SparingEndsAsItWas
      <4>3. Spares(r.todo, node)
        BY <1>1, <4>1, ConfiguringUsb DEF Shape, Kept
      <4>4. EndsIn(r.todo, node, a, now, last)
        BY <4>2, <4>3, SparingEndsAsItWas
      <4>5. QED
        BY <3>2, <4>4
    <3>8. QED
      BY <3>6, <3>7
  <2>4. QED
    BY <1>1, <2>2, <2>3
<1>6. QED
  BY <1>4, <1>5

\* A step leaves a store.
LEMMA TheStoreIsKept == ASSUME Shape, NEW t \in Everyone, Step(t) PROVE store' \in Kept
<1>1. task[t].todo # << >>
  BY EveryStep
<1>2. task[t].state \in SUBSET Nodes /\ task[t].infos \in SUBSET Nodes /\ step(t) \in AnyStep
  BY <1>1, TheStep DEF TaskState
<1>3. ASSUME NEW what, Doing(t, what) PROVE step(t).do = what
  BY <1>3 DEF Doing, step
<1>4. CASE update_power_on_times(t)
  <2>1. step(t).states \in SUBSET Nodes /\ step(t).mask \in SUBSET Nodes
    BY <1>2, <1>3, <1>4, StepShapes DEF update_power_on_times
  <2>2. Times(task[t].state, task[t].infos, step(t).states, step(t).mask) \in SUBSET Nodes
    BY <1>2, <2>1 DEF Times
  <2>3. QED
    BY <1>4, <2>2 DEF update_power_on_times, Shape, Kept
<1>5. CASE set_names(t)
  BY <1>2, <1>5 DEF set_names, Shape, Kept
<1>6. CASE set_state(t)
  <2>1. step(t).states \in SUBSET Nodes /\ step(t).mask \in SUBSET Nodes
    BY <1>2, <1>3, <1>6, StepShapes DEF set_state
  <2>2. (task[t].state \ step(t).mask) \cup (step(t).states \cap step(t).mask) \in SUBSET Nodes
    BY <1>2, <2>1
  <2>3. QED
    BY <1>6, <2>2 DEF set_state, Shape, Kept
<1>7. CASE set_config(t)
  <2>1. step(t).config \in UsbConfig
    BY <1>2, <1>3, <1>7, StepShapes DEF set_config
  <2>2. QED
    BY <1>7, <2>1 DEF set_config, Shape, Kept
<1>8. QED
  BY <1>4, <1>5, <1>6, <1>7
     DEF Step, get_state, get_infos, set_mode, set_enable, set_usb_boot, pins, get_config, driver, copy, toggle,
         startup_power_state, Shape

UsbRecord == [route : {"Bmc", "AlternativePort"}, node : Nodes, host : BOOLEAN]

\* The switch is set to what a switch can be.
LEMMA RoutedIsUsb == ASSUME Shape, NEW config \in UsbConfig PROVE Routed(config) \in UsbRecord
<1>1. (config.mode = "Host") \in BOOLEAN
  OBVIOUS
<1>2. QED
  BY <1>1 DEF Routed, UsbRecord, UsbConfig, Shape

\* A step keeps the shape, the order and the undo of every request.
LEMMA StepKeepsShape ==
    ASSUME Shape, OrderInv, UndoInv, RestInv, NEW t \in Everyone, Step(t)
    PROVE  Shape' /\ OrderInv' /\ UndoInv' /\ RestInv'
<1>1. task[t].todo # << >> /\ Touches(t)
  BY EveryStep
<1>2. PICK r : Onward(t, r)
  BY EveryStep
<1>3. /\ task'[t] = r /\ (\A u \in Everyone \ {t} : task'[u] = task[u])
      /\ Orderly(r.todo) /\ r \in TaskState
      /\ step(t).do \notin Opening => r.todo = Tail(task[t].todo)
      /\ step(t).do = "get_config" => r.todo = configure_usb(store.config)
  BY <1>1, <1>2, GoesInOrder
<1>4. /\ task[t].todo \in Seq(AnyStep) /\ Len(task[t].todo) \in Nat \ {0} /\ step(t) \in AnyStep
      /\ step(t) = task[t].todo[1] /\ 1 \in 1 .. Len(task[t].todo) /\ Orderly(task[t].todo)
  BY <1>1, TheStep DEF OrderInv
<1>5. Shape'
  <2>1. task' \in [Everyone -> TaskState]
    BY <1>2, <1>3 DEF Onward, Shape
  <2>2. mode' \in SUBSET Nodes /\ enable' \in SUBSET Nodes
    BY <1>1, <1>4, StepShapes DEF Touches, Switched, Shape
  <2>3. usb' \in UsbRecord
    <3>1. CASE step(t).do = "pins"
      BY <1>1, <1>4, <3>1, StepShapes, RoutedIsUsb DEF Touches
    <3>2. CASE step(t).do # "pins"
      BY <1>1, <3>2 DEF Touches, Shape, UsbRecord
    <3>3. QED
      BY <3>1, <3>2
  <2>4. QED
    BY <1>1, <2>1, <2>2, <2>3, TheStoreIsKept DEF Shape, Touches, UsbRecord
<1>6. OrderInv'
  BY <1>3 DEF OrderInv
<1>7. UndoInv'
  <2> SUFFICES ASSUME NEW u \in Everyone, task'[u].undo # << >>
               PROVE  /\ task'[u].flash \in Nodes /\ task'[u].undo = restore(task'[u].flash)
                      /\ Len(task'[u].todo) > 0
                      /\ task'[u].todo[Len(task'[u].todo)].do \in {"get_config", "set_config"}
    BY DEF UndoInv
  <2>1. CASE u # t
    BY <1>3, <2>1 DEF UndoInv
  <2>2. CASE u = t
    <3>1. r.flash = task[t].flash /\ r.undo = task[t].undo /\ task[t].undo # << >>
      BY <1>2, <1>3, <2>2 DEF Onward
    <3>2. /\ r.flash \in Nodes /\ r.undo = restore(r.flash)
          /\ task[t].todo[Len(task[t].todo)].do \in {"get_config", "set_config"}
      BY <3>1 DEF UndoInv
    <3>3. CASE step(t).do \notin Opening
      <4>1. Tail(task[t].todo) # << >>
        <5> SUFFICES ASSUME Tail(task[t].todo) = << >> PROVE FALSE
          OBVIOUS
        <5>1. Len(task[t].todo) = 1
          BY <1>1, <1>4, LastTail
        <5>2. step(t).do = "set_config" /\ r.todo = << >>
          BY <1>3, <1>4, <3>2, <3>3, <5>1 DEF Opening
        <5>3. r.undo = << >>
          BY <1>2, <5>2 DEF Onward
        <5>4. QED
          BY <1>3, <2>2, <5>3
      <4>2. PICK rest \in Seq(AnyStep) : rest = Tail(task[t].todo) /\ rest # << >>
        BY <1>1, <1>4, <4>1, LastTail
      <4>3. Len(rest) \in Nat \ {0} /\ Len(rest) = Len(task[t].todo) - 1
        BY <1>1, <1>4, <4>2, LastTail, LenProperties, EmptySeq
      <4>4. Len(rest) \in 1 .. Len(rest) /\ Len(rest) + 1 = Len(task[t].todo) /\ Len(rest) > 0
        <5>1. \A n \in Nat : \A m \in Nat \ {0} : m = n - 1 => m \in 1 .. m /\ m + 1 = n /\ m > 0
          OBVIOUS
        <5>2. QED
          BY <1>4, <4>3, <5>1
      <4>5. rest[Len(rest)] = task[t].todo[Len(task[t].todo)]
        <5>1. \A i \in 1 .. Len(rest) : \A k : k = i + 1 => rest[i] = task[t].todo[k]
          BY <1>1, <1>4, <4>2, LastTail
        <5>2. QED
          BY <4>4, <5>1
      <4>6. QED
        BY <1>3, <2>2, <3>2, <3>3, <4>2, <4>4, <4>5
    <3>4. CASE step(t).do = "get_config"
      <4>1. /\ Len(configure_usb(store.config)) = 2 /\ configure_usb(store.config)[2].do = "set_config"
        BY ConfiguringUsb DEF Shape, Kept
      <4>2. QED
        BY <1>3, <2>2, <3>2, <3>4, <4>1
    <3>5. CASE step(t).do \in {"toggle", "startup_power_state"}
      <4>1. 1 = Len(task[t].todo)
        BY <1>4, <3>5 DEF Orderly, InPlace, Opening
      <4>2. QED
        BY <1>4, <3>2, <3>5, <4>1
    <3>6. QED
      BY <3>3, <3>4, <3>5 DEF Opening
  <2>3. QED
    BY <2>1, <2>2
<1>8. RestInv'
  <2>1. up /\ up' = up
    BY <1>1 DEF RestInv, Touches, Shape
  <2>2. ASSUME task'["start"].todo # << >>, NEW u \in Tasks PROVE task'[u].todo = << >>
    <3>1. "start" \in Everyone /\ u \in Everyone /\ u # "start"
      BY BoardAssumption DEF Everyone
    <3>2. CASE t = "start"
      <4>1. task'[u] = task[u] /\ task[u].todo = << >>
        BY <1>1, <1>3, <3>1, <3>2 DEF RestInv
      <4>2. QED
        BY <4>1
    <3>3. CASE t # "start"
      <4>1. task'["start"] = task["start"] /\ t \in Tasks
        BY <1>3, <3>1, <3>3 DEF Everyone
      <4>2. QED
        BY <1>1, <2>2, <4>1 DEF RestInv
    <3>4. QED
      BY <3>2, <3>3
  <2>3. task'["start"].undo = << >>
    <3>1. r.undo \in {task[t].undo, << >>} /\ "start" \in Everyone
      BY <1>2 DEF Onward, Everyone
    <3>2. QED
      BY <1>3, <3>1 DEF RestInv
  <2>4. QED
    BY <2>1, <2>2, <2>3 DEF RestInv
<1>9. QED
  BY <1>5, <1>6, <1>7, <1>8

\* A request works on fewer and fewer nodes.
LEMMA StepWorksOnLess ==
    ASSUME Shape, Shape', OrderInv, NEW t \in Everyone, Step(t), NEW node \in Nodes
    PROVE  /\ node \in WorksOn(t)' => node \in WorksOn(t)
           /\ \A u \in Everyone \ {t} : node \in WorksOn(u)' <=> node \in WorksOn(u)
<1>1. task[t].todo # << >> /\ Touches(t)
  BY EveryStep
<1>2. PICK r : Onward(t, r)
  BY EveryStep
<1>3. /\ task'[t] = r /\ (\A u \in Everyone \ {t} : task'[u] = task[u])
      /\ Expands(r.todo) => Expands(task[t].todo)
      /\ Spares(task[t].todo, node) /\ ~ Expands(task[t].todo) => Spares(r.todo, node)
      /\ r.flash = task[t].flash
  <2>1. r.flash = task[t].flash
    BY <1>2 DEF Onward
  <2>2. QED
    BY <1>1, <1>2, <2>1, GoesInOrder
<1>4. node \in WorksOn(t)' => node \in WorksOn(t)
  <2>1. node \in WorksOn(t)' <=>
             \/ ~ Spares(r.todo, node) \/ Expands(r.todo) \/ (r.todo # << >> /\ r.flash = node)
    BY <1>3, WorkIsTodoThen
  <2>2. node \in WorksOn(t) <=>
             \/ ~ Spares(task[t].todo, node) \/ Expands(task[t].todo)
             \/ task[t].todo # << >> /\ task[t].flash = node
    BY WorkIsTodo
  <2>3. QED
    BY <1>1, <1>3, <2>1, <2>2
<1>5. ASSUME NEW u \in Everyone \ {t} PROVE node \in WorksOn(u)' <=> node \in WorksOn(u)
  <2>1. node \in WorksOn(u)' <=>
             \/ ~ Spares(task[u].todo, node) \/ Expands(task[u].todo)
             \/ (task[u].todo # << >> /\ task[u].flash = node)
    BY <1>3, WorkIsTodoThen
  <2>2. QED
    BY <2>1, WorkIsTodo
<1>6. QED
  BY <1>4, <1>5

\* A step has nobody work on a node that was not his.
LEMMA StepKeepsCross ==
    ASSUME Shape, Shape', OrderInv, CrossInv, NEW t \in Everyone, Step(t)
    PROVE  CrossInv'
<1>1. apart \subseteq apart' /\ torn \subseteq torn'
  BY EveryStep DEF Touches
<1>2. ASSUME NEW node \in Nodes, NEW u \in Everyone, node \in WorksOn(u)' PROVE node \in WorksOn(u)
  BY <1>2, StepWorksOnLess
<1>3. QED
  BY <1>1, <1>2 DEF CrossInv

\* A node that is settled, with nothing left that touches it, is as stored.
LEMMA SettledIsAlike ==
    ASSUME NEW t \in Everyone, NEW node, Settles(t, node), Spares(task[t].todo, node), ~ Expands(task[t].todo)
    PROVE  /\ Alike(node)
           /\ task[t].flash = node => \A a \in Aspect : Now(node, a) = "off"
<1>1. PICK last : /\ task[t].flash = node => last = "off"
                  /\ \A a \in Aspect : EndsIn(task[t].todo, node, a, Now(node, a), last)
  BY DEF Settles
<1>2. \A a \in Aspect : Now(node, a) = last
  BY <1>1, SparingEndsAsItWas
<1>3. QED
  BY <1>1, <1>2 DEF Alike

\* A request settles a node still when neither has changed.
LEMMA OthersStillSettle ==
    ASSUME NEW u \in Everyone, task'[u] = task[u], NEW node, Settles(u, node),
           \A a \in Aspect : Now(node, a)' = Now(node, a)
    PROVE  Settles(u, node)'
<1>1. CASE Expands(task[u].todo)
  <2>1. Expands(task[u].todo)' /\ (task[u].flash = node => ~ Expands(task[u].todo))'
    BY <1>1 DEF Settles, Expands, Without
  <2>2. QED
    BY <2>1 DEF Settles
<1>2. CASE ~ Expands(task[u].todo)
  <2>1. PICK last : /\ task[u].flash = node => last = "off"
                    /\ \A a \in Aspect : EndsIn(task[u].todo, node, a, Now(node, a), last)
    BY <1>2 DEF Settles
  <2>2. ASSUME NEW a \in Aspect PROVE EndsIn(task[u].todo, node, a, Now(node, a), last)'
    BY <2>1 DEF EndsIn
  <2>3. ~ Expands(task[u].todo)'
    BY <1>2 DEF Expands, Without
  <2>4. QED
    BY <2>1, <2>2, <2>3 DEF Settles
<1>3. QED
  BY <1>1, <1>2

\* The same after a step.
LEMMA SettledIsAlikeThen ==
    ASSUME NEW t \in Everyone, NEW node, Settles(t, node)', Spares(task'[t].todo, node), ~ Expands(task'[t].todo)
    PROVE  /\ Alike(node)'
           /\ task'[t].flash = node => \A a \in Aspect : Now(node, a)' = "off"
<1>1. ~ Expands(task[t].todo)'
  BY DEF Expands, Without
<1>2. PICK last : /\ task'[t].flash = node => last = "off"
                  /\ \A a \in Aspect : EndsIn(task[t].todo, node, a, Now(node, a), last)'
  BY <1>1 DEF Settles
<1>3. ASSUME NEW a \in Aspect PROVE Now(node, a)' = last
  <2>1. PICK now : now = Now(node, a)'
    OBVIOUS
  <2>2. EndsIn(task'[t].todo, node, a, now, last)
    BY <1>2, <2>1 DEF EndsIn
  <2>3. QED
    BY <2>1, <2>2, SparingEndsAsItWas
<1>4. QED
  BY <1>2, <1>3 DEF Alike

\* What the invariant says of a node.
Well(node) ==
    /\ \A t \in Everyone : node \in WorksOn(t) => Settles(t, node)
    /\ (\A t \in Everyone : node \notin WorksOn(t)) => Alike(node)

\* A step keeps the power as promised: its own request settles the node on, and no other is at it.
LEMMA StepKeepsPower ==
    ASSUME Shape, Shape', OrderInv, RestInv, CrossInv, PowerInv, NEW t \in Everyone, Step(t)
    PROVE  PowerInv'
<1>1. task[t].todo # << >> /\ Touches(t)
  BY EveryStep
<1>2. PICK r : Onward(t, r)
  BY EveryStep
<1>3. /\ task'[t] = r /\ (\A u \in Everyone \ {t} : task'[u] = task[u])
  BY <1>1, <1>2, GoesInOrder
<1>4. up /\ apart \subseteq apart'
  BY <1>1 DEF RestInv, Touches
<1> SUFFICES ASSUME NEW node \in Nodes, node \notin apart' PROVE Well(node)'
  BY DEF PowerInv, Well
<1>5. Well(node) /\ node \notin apart
  BY <1>4 DEF PowerInv, Well
<1>6. CASE node \in WorksOn(t)
  <2>1. Settles(t, node)'
    BY <1>1, <1>2, <1>5, <1>6, StepSettles DEF Well
  <2>2. \A u \in Everyone \ {t} : node \notin WorksOn(u)'
    BY <1>5, <1>6, StepWorksOnLess DEF CrossInv
  <2>3. CASE node \in WorksOn(t)'
    BY <2>1, <2>2, <2>3 DEF Well
  <2>4. CASE node \notin WorksOn(t)'
    <3>1. Spares(task'[t].todo, node) /\ ~ Expands(task'[t].todo)
      BY <2>4, WorkIsTodoThen
    <3>2. Alike(node)'
      BY <2>1, <3>1, SettledIsAlikeThen
    <3>3. QED
      BY <2>2, <2>4, <3>2 DEF Well
  <2>5. QED
    BY <2>3, <2>4
<1>7. CASE node \notin WorksOn(t)
  <2>1. Spares(task[t].todo, node) /\ 1 \in 1 .. Len(task[t].todo) /\ step(t) = task[t].todo[1]
    BY <1>1, <1>7, WorkIsTodo, TheStep
  <2>2. \A a \in Aspect : ~ Writes(step(t), node, a)
    BY <2>1 DEF Spares
  <2>3. \A a \in Aspect : Now(node, a)' = Now(node, a)
    BY <1>1, <2>2, StepMoves
  <2>4. node \notin WorksOn(t)' /\ \A u \in Everyone \ {t} : node \in WorksOn(u)' <=> node \in WorksOn(u)
    BY <1>7, StepWorksOnLess
  <2>5. \A u \in Everyone : node \in WorksOn(u)' => Settles(u, node)'
    BY <1>3, <1>5, <2>3, <2>4, OthersStillSettle DEF Well
  <2>6. (\A u \in Everyone : node \notin WorksOn(u)') => Alike(node)'
    <3>1. (\A u \in Everyone : node \notin WorksOn(u)') => Alike(node)
      BY <1>5, <1>7, <2>4 DEF Well
    <3>2. QED
      BY <2>3, <3>1 DEF Alike
  <2>7. QED
    BY <2>5, <2>6 DEF Well
<1>8. QED
  BY <1>6, <1>7

(***************************************************************************)
(* A step that fails.                                                      *)
(***************************************************************************)
Given_up(t) ==
    /\ task[t].todo # << >> /\ step(t).do \in {"driver", "set_mode", "enable", "pins", "usb_boot"}
    /\ \A u \in Everyone \ {t} : task'[u] = task[u]
    /\ task'[t].todo = task[t].undo /\ task'[t].undo = << >>
    /\ task'[t].flash = IF task[t].undo = << >> THEN Off ELSE task[t].flash
    /\ store' = store /\ disk' = disk /\ mode' = mode /\ enable' = enable /\ torn' = torn
    /\ misread' = misread
    /\ apart' = apart \cup (PowerOf(task[t].todo) \ PowerOf(task[t].undo))
    /\ usb_apart' = (usb_apart \/ (UsbOf(task[t].todo) /\ ~ UsbOf(task[t].undo)))
    /\ \/ usb' = usb
       \/ step(t).do = "pins" /\ usb' = Routed(step(t).config)
    /\ up' = (t # "start")

\* Nothing left to do powers no node and does not touch the switch.
LEMMA EmptyPowers == PowerOf(<< >>) = {} /\ ~ UsbOf(<< >>)
<1>1. DOMAIN << >> = {}
  OBVIOUS
<1>2. QED
  BY <1>1 DEF PowerOf, UsbOf

\* A failing step gives up its request, but for the undo of a flash.
LEMMA FailGivesUp ==
    ASSUME Shape, OrderInv, UndoInv, RestInv, NEW t \in Everyone, Fails(t)
    PROVE  Given_up(t) /\ Shape' /\ OrderInv' /\ UndoInv' /\ RestInv'
<1> DEFINE r == [Idle EXCEPT !.todo = task[t].undo,
                             !.flash = IF task[t].undo = << >> THEN Off ELSE task[t].flash]
<1>1. task[t].todo # << >> /\ step(t).do \in {"driver", "set_mode", "enable", "pins", "usb_boot"}
  BY DEF Fails, Doing, step
<1>2. /\ task' = [task EXCEPT ![t] = r] /\ store' = store /\ disk' = disk /\ mode' = mode /\ enable' = enable
      /\ misread' = misread /\ torn' = torn /\ up' = (t # "start")
      /\ apart' = apart \cup (PowerOf(task[t].todo) \ PowerOf(task[t].undo))
      /\ usb_apart' = (usb_apart \/ (UsbOf(task[t].todo) /\ ~ UsbOf(task[t].undo)))
  BY DEF Fails
<1>3. usb' = usb \/ (step(t).do = "pins" /\ usb' = Routed(step(t).config))
  BY DEF Fails, Doing, step
<1>4. task[t] \in TaskState /\ step(t) \in AnyStep
  BY <1>1, TheStep
<1>5. /\ r \in TaskState /\ r.todo = task[t].undo /\ r.undo = << >>
      /\ r.flash = IF task[t].undo = << >> THEN Off ELSE task[t].flash
  <2>1. Idle \in TaskState /\ Idle.undo = << >>
    BY EmptySeq DEF Idle, TaskState
  <2>2. QED
    BY <1>4, <2>1 DEF Idle, TaskState
<1> HIDE DEF r
<1>6. task'[t] = r /\ \A u \in Everyone \ {t} : task'[u] = task[u]
  BY <1>2 DEF Shape
<1>7. Given_up(t)
  BY <1>1, <1>2, <1>3, <1>5, <1>6 DEF Given_up
<1>8. Shape'
  <2>1. task' \in [Everyone -> TaskState]
    BY <1>2, <1>5 DEF Shape
  <2>2. usb' \in UsbRecord
    BY <1>3, <1>4, StepShapes, RoutedIsUsb DEF Shape, UsbRecord
  <2>3. up' \in BOOLEAN
    BY <1>2
  <2>4. QED
    BY <1>2, <2>1, <2>2, <2>3 DEF Shape, UsbRecord
<1>9. OrderInv'
  <2>1. Orderly(r.todo)
    <3>1. CASE task[t].undo = << >>
      BY <1>5, <3>1, EmptySpares
    <3>2. CASE task[t].undo # << >>
      <4>1. task[t].flash \in Nodes /\ task[t].undo = restore(task[t].flash)
        BY <3>2 DEF UndoInv
      <4>2. QED
        BY <1>5, <4>1, Restoring DEF PutsBack, Piece
    <3>3. QED
      BY <3>1, <3>2
  <2>2. \A u \in Everyone : Orderly(task'[u].todo)
    BY <1>6, <2>1 DEF OrderInv
  <2>3. QED
    BY <2>2 DEF OrderInv, Orderly, InPlace
<1>10. UndoInv'
  BY <1>5, <1>6 DEF UndoInv
<1>11. RestInv'
  <2>1. "start" \in Everyone /\ "start" \notin Tasks /\ \A u \in Tasks : u \in Everyone
    BY BoardAssumption DEF Everyone
  <2>2. task'["start"].undo = << >>
    BY <1>5, <1>6, <2>1 DEF RestInv
  <2>3. CASE t = "start"
    <3>1. \A u \in Everyone : task'[u].todo = << >>
      BY <1>1, <1>5, <1>6, <2>1, <2>3 DEF RestInv, Everyone
    <3>2. QED
      BY <2>1, <2>2, <3>1 DEF RestInv
  <2>4. CASE t # "start"
    <3>1. task'["start"].todo = << >> /\ up'
      BY <1>1, <1>2, <1>6, <2>1, <2>4 DEF RestInv, Everyone
    <3>2. QED
      BY <2>2, <3>1 DEF RestInv
  <2>5. QED
    BY <2>3, <2>4
<1>12. QED
  BY <1>7, <1>8, <1>9, <1>10, <1>11

\* What is left of a request that failed is about the node it flashes.
LEMMA FailWorksOnTheFlash ==
    ASSUME Shape, Shape', UndoInv, NEW t \in Everyone, Given_up(t), NEW node \in Nodes
    PROVE  /\ node \in WorksOn(t)' <=> task[t].undo # << >> /\ node = task[t].flash
           /\ node \in WorksOn(t)' => node \in WorksOn(t) /\ PutsBack(task[t].undo, node)
           /\ \A u \in Everyone \ {t} : node \in WorksOn(u)' <=> node \in WorksOn(u)
<1>1. node \in WorksOn(t)' <=>
             \/ ~ Spares(task[t].undo, node) \/ Expands(task[t].undo)
             \/ (task[t].undo # << >> /\ task'[t].flash = node)
  BY WorkIsTodoThen DEF Given_up
<1>2. node \in WorksOn(t) <=>
             \/ ~ Spares(task[t].todo, node) \/ Expands(task[t].todo)
             \/ task[t].todo # << >> /\ task[t].flash = node
  BY WorkIsTodo
<1>3. ASSUME NEW u \in Everyone \ {t} PROVE node \in WorksOn(u)' <=> node \in WorksOn(u)
  <2>1. task'[u] = task[u]
    BY DEF Given_up
  <2>2. node \in WorksOn(u)' <=>
             \/ ~ Spares(task[u].todo, node) \/ Expands(task[u].todo)
             \/ (task[u].todo # << >> /\ task[u].flash = node)
    BY <2>1, WorkIsTodoThen
  <2>3. QED
    BY <2>2, WorkIsTodo
<1>4. CASE task[t].undo = << >>
  BY <1>1, <1>4, <1>3, EmptySpares
<1>5. CASE task[t].undo # << >>
  <2>1. /\ task[t].flash \in Nodes /\ PutsBack(task[t].undo, task[t].flash)
    BY <1>5, Restoring DEF UndoInv
  <2>2. ~ Expands(task[t].undo)
    BY <2>1 DEF PutsBack, Expands, Without
  <2>3. node # task[t].flash => Spares(task[t].undo, node)
    BY <2>1 DEF PutsBack
  <2>4. task'[t].flash = task[t].flash /\ task[t].todo # << >>
    BY <1>5 DEF Given_up
  <2>5. QED
    BY <1>1, <1>2, <1>5, <1>3, <2>1, <2>2, <2>3, <2>4
<1>6. QED
  BY <1>4, <1>5, <1>3

\* A failing step has nobody work on another node.
LEMMA FailKeepsCross ==
    ASSUME Shape, Shape', UndoInv, CrossInv, NEW t \in Everyone, Given_up(t)
    PROVE  CrossInv'
<1>1. apart \subseteq apart' /\ torn \subseteq torn'
  BY DEF Given_up
<1>2. ASSUME NEW node \in Nodes, NEW u \in Everyone, node \in WorksOn(u)' PROVE node \in WorksOn(u)
  BY <1>2, FailWorksOnTheFlash
<1>3. QED
  BY <1>1, <1>2 DEF CrossInv

\* A failing step leaves the nodes it gives up noted as apart, and the flashed one to its restore.
LEMMA FailKeepsPower ==
    ASSUME Shape, Shape', UndoInv, RestInv, CrossInv, PowerInv, NEW t \in Everyone, Given_up(t)
    PROVE  PowerInv'
<1>1. up /\ apart \subseteq apart' /\ \A u \in Everyone \ {t} : task'[u] = task[u]
  BY DEF RestInv, Given_up
<1> SUFFICES ASSUME NEW node \in Nodes, node \notin apart' PROVE Well(node)'
  BY DEF PowerInv, Well
<1>2. Well(node) /\ node \notin apart
  BY <1>1 DEF PowerInv, Well
<1>3. \A a \in Aspect : Now(node, a)' = Now(node, a)
  BY DEF Given_up, Now, As
<1>4. ASSUME NEW u \in Everyone, node \in WorksOn(u)' PROVE Settles(u, node)'
  <2>1. CASE u # t
    BY <1>1, <1>2, <1>3, <1>4, <2>1, FailWorksOnTheFlash, OthersStillSettle DEF Well
  <2>2. CASE u = t
    <3>1. task'[t].todo = task[t].undo /\ PutsBack(task[t].undo, node)
      BY <1>4, <2>2, FailWorksOnTheFlash DEF Given_up
    <3>2. ~ Expands(task'[t].todo) /\ \A a \in Aspect : \A now : EndsIn(task'[t].todo, node, a, now, "off")
      BY <3>1 DEF PutsBack, Expands, Without, Leaves
    <3>3. ~ Expands(task[t].todo)'
      BY <3>2 DEF Expands, Without
    <3>4. ASSUME NEW a \in Aspect PROVE EndsIn(task[t].todo, node, a, Now(node, a), "off")'
      <4>1. PICK now : now = Now(node, a)'
        OBVIOUS
      <4>2. EndsIn(task'[t].todo, node, a, now, "off")
        BY <3>2
      <4>3. QED
        BY <4>1, <4>2 DEF EndsIn
    <3>5. QED
      BY <2>2, <3>3, <3>4 DEF Settles
  <2>3. QED
    BY <2>1, <2>2
<1>5. ASSUME \A u \in Everyone : node \notin WorksOn(u)' PROVE Alike(node)'
  <2>1. Alike(node)
    <3>1. CASE node \notin WorksOn(t)
      BY <1>2, <1>5, <3>1, FailWorksOnTheFlash DEF Well
    <3>2. CASE node \in WorksOn(t)
      <4>1. Settles(t, node)
        BY <1>2, <3>2 DEF Well
      <4>2. node \notin PowerOf(task[t].undo)
        <5>1. WorksOn(t)' = PowerOf(task'[t].todo) \cup (IF task'[t].todo = << >> THEN {} ELSE {task'[t].flash} \ {Off})
          BY DEF WorksOn
        <5>2. task'[t].todo = task[t].undo
          BY DEF Given_up
        <5>3. QED
          BY <1>5, <5>1, <5>2
      <4>3. node \notin PowerOf(task[t].todo)
        BY <4>2 DEF Given_up
      <4>4. Spares(task[t].todo, node) /\ ~ Expands(task[t].todo)
        <5>1. task[t].todo \in Seq(AnyStep)
          BY DEF Shape, TaskState
        <5>2. QED
          BY <4>3, <5>1, PowerOfSteps
      <4>5. QED
        BY <4>1, <4>4, SettledIsAlike
    <3>3. QED
      BY <3>1, <3>2
  <2>2. QED
    BY <1>3, <2>1 DEF Alike
<1>6. QED
  BY <1>4, <1>5 DEF Well

(***************************************************************************)
(* A request arrives.                                                      *)
(***************************************************************************)
Asked(t, r) ==
    /\ up /\ task["start"].todo = << >> /\ task[t].todo = << >>
    /\ \A u \in Everyone \ {t} : task'[u] = task[u]
    /\ task'[t].todo = Program(r)
    /\ task'[t].undo = IF r.op = "flash" THEN restore(r.node) ELSE << >>
    /\ task'[t].flash = IF r.op = "flash" THEN r.node ELSE Off
    /\ up' = up /\ store' = store /\ disk' = disk /\ mode' = mode /\ enable' = enable /\ usb' = usb
    /\ misread' = misread
    /\ LET both == PowerOf(Program(r)) \cap UNION {WorksOn(u) : u \in Tasks \ {t}} IN
       /\ apart' = apart \cup both \cup (IF r.op = "reset" THEN {r.node} \ store.activated ELSE {})
       /\ torn' = torn \cup both
    /\ usb_apart' = (usb_apart \/ r.op = "msd"
                       \/ (UsbOf(Program(r)) /\ \E u \in Tasks \ {t} : UsbOf(task[u].todo)))

\* A request that arrives is its program, in order.
LEMMA RequestAsks ==
    ASSUME Shape, OrderInv, UndoInv, RestInv, NEW t \in Tasks, NEW r \in Requests, Request(t, r)
    PROVE  Asked(t, r) /\ Shape' /\ OrderInv' /\ UndoInv' /\ RestInv'
<1> DEFINE new == [Idle EXCEPT !.todo = Program(r),
                               !.undo = IF r.op = "flash" THEN restore(r.node) ELSE << >>,
                               !.flash = IF r.op = "flash" THEN r.node ELSE Off]
<1>1. /\ Piece(Program(r)) /\ (r.op = "flash" => PutsBack(Program(r), r.node) /\ r.node \in Nodes)
  BY ProgramDoes
<1>2. r.op = "flash" => Piece(restore(r.node))
  BY <1>1, Restoring DEF PutsBack
<1>3. t \in Everyone /\ t # "start" /\ "start" \in Everyone
  BY BoardAssumption DEF Everyone
<1>4. /\ new \in TaskState /\ new.todo = Program(r)
      /\ new.undo = (IF r.op = "flash" THEN restore(r.node) ELSE << >>)
      /\ new.flash = (IF r.op = "flash" THEN r.node ELSE Off)
  <2>1. Idle \in TaskState
    BY EmptySeq DEF Idle, TaskState
  <2>2. Program(r) \in Seq(AnyStep) /\ (r.op = "flash" => restore(r.node) \in Seq(AnyStep)) /\ << >> \in Seq(AnyStep)
    BY <1>1, <1>2, EmptySeq DEF Piece
  <2> HIDE DEF Program, restore
  <2>3. QED
    BY <1>1, <2>1, <2>2 DEF Idle, TaskState
<1>5. task' = [task EXCEPT ![t] = new]
  BY DEF Request
<1> HIDE DEF new
<1>6. task'[t] = new /\ \A u \in Everyone \ {t} : task'[u] = task[u]
  BY <1>3, <1>5 DEF Shape
<1>7. Asked(t, r)
  <2>1. /\ up /\ task["start"].todo = << >> /\ task[t].todo = << >>
        /\ up' = up /\ store' = store /\ disk' = disk /\ mode' = mode /\ enable' = enable /\ usb' = usb
        /\ misread' = misread
    BY DEF Request, Ready, hardware
  <2>2. LET both == PowerOf(Program(r)) \cap UNION {WorksOn(u) : u \in Tasks \ {t}} IN
        /\ apart' = apart \cup both \cup (IF r.op = "reset" THEN {r.node} \ store.activated ELSE {})
        /\ torn' = torn \cup both
    BY DEF Request
  <2>3. usb_apart' = (usb_apart \/ r.op = "msd"
                       \/ (UsbOf(Program(r)) /\ \E u \in Tasks \ {t} : UsbOf(task[u].todo)))
    BY DEF Request
  <2>4. QED
    BY <1>4, <1>6, <2>1, <2>2, <2>3 DEF Asked
<1>8. Shape'
  <2>1. task' \in [Everyone -> TaskState]
    BY <1>4, <1>5 DEF Shape
  <2>2. QED
    BY <1>7, <2>1 DEF Asked, Shape
<1>9. OrderInv'
  <2>1. \A u \in Everyone : Orderly(task'[u].todo)
    BY <1>1, <1>4, <1>6 DEF OrderInv, Piece
  <2>2. QED
    BY <2>1 DEF OrderInv, Orderly, InPlace
<1>10. UndoInv'
  <2> SUFFICES ASSUME NEW u \in Everyone, task'[u].undo # << >>
               PROVE  /\ task'[u].flash \in Nodes /\ task'[u].undo = restore(task'[u].flash)
                      /\ Len(task'[u].todo) > 0
                      /\ task'[u].todo[Len(task'[u].todo)].do \in {"get_config", "set_config"}
    BY DEF UndoInv
  <2>1. CASE u # t
    BY <1>6, <2>1 DEF UndoInv
  <2>2. CASE u = t
    <3>1. r.op = "flash" /\ new.todo = Program(r) /\ new.undo = restore(r.node) /\ new.flash = r.node
      BY <1>4, <1>6, <2>2
    <3>2. QED
      BY <1>1, <1>6, <2>2, <3>1 DEF PutsBack
  <2>3. QED
    BY <2>1, <2>2
<1>11. RestInv'
  BY <1>3, <1>6, <1>7 DEF RestInv, Asked
<1>12. QED
  BY <1>7, <1>8, <1>9, <1>10, <1>11

\* The nodes of a request are those its steps switch.
LEMMA AskedWorksOn ==
    ASSUME Shape, Shape', NEW t \in Tasks, NEW r \in Requests, Asked(t, r), NEW node \in Nodes
    PROVE  /\ node \in WorksOn(t)' <=> node \in PowerOf(Program(r))
           /\ node \notin WorksOn(t)
           /\ node \notin WorksOn("start") /\ node \notin WorksOn("start")'
           /\ \A u \in Everyone \ {t} : node \in WorksOn(u)' <=> node \in WorksOn(u)
           /\ node \in WorksOn(t)' /\ (node \notin apart' \/ node \notin torn')
                 => \A u \in Everyone : node \notin WorksOn(u)
<1>1. t \in Everyone /\ "start" \in Everyone /\ t # "start" /\ Program(r) \in Seq(AnyStep)
  BY BoardAssumption, ProgramDoes DEF Everyone, Piece
<1>2. node \in WorksOn(t)' <=> node \in PowerOf(Program(r))
  <2>1. node \in WorksOn(t)' <=>
             \/ ~ Spares(Program(r), node) \/ Expands(Program(r))
             \/ (Program(r) # << >> /\ task'[t].flash = node)
    <3> HIDE DEF Program
    <3>1. QED
      BY <1>1, WorkIsTodoThen DEF Asked
  <2>2. task'[t].flash = node => ~ Spares(Program(r), node)
    <3> SUFFICES ASSUME task'[t].flash = node PROVE ~ Spares(Program(r), node)
      OBVIOUS
    <3>1. PutsBack(Program(r), node)
      BY BoardAssumption, ProgramDoes DEF Asked, Off
    <3>2. EndsIn(Program(r), node, "mode", "on", "off")
      BY <3>1 DEF PutsBack, Leaves, Aspect
    <3>3. "mode" \in Aspect /\ "on" # "off"
      BY DEF Aspect
    <3>4. QED
      BY <3>2, <3>3, SparingEndsAsItWas
  <2>3. node \in PowerOf(Program(r)) <=> ~ Spares(Program(r), node) \/ Expands(Program(r))
    BY <1>1, PowerOfSteps
  <2>4. QED
    BY <2>1, <2>2, <2>3
<1>3. node \notin WorksOn(t) /\ node \notin WorksOn("start")
  BY <1>1, WorkIsTodo, EmptySpares DEF Asked
<1>4. \A u \in Everyone \ {t} : node \in WorksOn(u)' <=> node \in WorksOn(u)
  BY DEF Asked, WorksOn
<1>5. ASSUME node \in WorksOn(t)', node \notin apart' \/ node \notin torn', NEW u \in Everyone
      PROVE  node \notin WorksOn(u)
  <2>1. node \notin UNION {WorksOn(w) : w \in Tasks \ {t}}
    BY <1>2, <1>5 DEF Asked
  <2>2. CASE u \in Tasks \ {t}
    BY <2>1, <2>2
  <2>3. CASE u \in {t, "start"}
    BY <1>3, <2>3
  <2>4. QED
    BY <2>2, <2>3 DEF Everyone
<1>6. QED
  BY <1>1, <1>2, <1>3, <1>4, <1>5

\* A request that arrives at a node that is being worked on is noted.
LEMMA AskedKeepsCross ==
    ASSUME Shape, Shape', CrossInv, NEW t \in Tasks, NEW r \in Requests, Asked(t, r)
    PROVE  CrossInv'
<1>1. apart \subseteq apart' /\ torn \subseteq torn' /\ t \in Everyone
  BY DEF Asked, Everyone
<1>2. ASSUME NEW node \in Nodes, NEW u \in Everyone, NEW w \in Everyone, u # w,
             node \in WorksOn(u)', node \in WorksOn(w)'
      PROVE  node \in apart' /\ node \in torn'
  <2>1. CASE u # t /\ w # t
    BY <1>1, <1>2, <2>1, AskedWorksOn DEF CrossInv
  <2>2. CASE u = t \/ w = t
    BY <1>2, <2>2, AskedWorksOn
  <2>3. QED
    BY <2>1, <2>2
<1>3. QED
  BY <1>2 DEF CrossInv

\* A request that arrives settles the nodes it is about, and a reset notes its own.
LEMMA AskedKeepsPower ==
    ASSUME Shape, Shape', CrossInv, PowerInv, NEW t \in Tasks, NEW r \in Requests, Asked(t, r)
    PROVE  PowerInv'
<1>1. up /\ apart \subseteq apart' /\ t \in Everyone /\ \A u \in Everyone \ {t} : task'[u] = task[u]
  BY DEF Asked, Everyone
<1> SUFFICES ASSUME NEW node \in Nodes, node \notin apart' PROVE Well(node)'
  BY DEF PowerInv, Well
<1>2. Well(node)
  BY <1>1 DEF PowerInv, Well
<1>3. \A a \in Aspect : Now(node, a)' = Now(node, a)
  BY DEF Asked, Now, As
<1>4. CASE node \notin WorksOn(t)'
  <2>1. \A u \in Everyone : node \in WorksOn(u)' => Settles(u, node)'
    BY <1>1, <1>2, <1>3, <1>4, AskedWorksOn, OthersStillSettle DEF Well
  <2>2. (\A u \in Everyone : node \notin WorksOn(u)') => Alike(node)
    BY <1>2, AskedWorksOn DEF Well
  <2>3. (\A u \in Everyone : node \notin WorksOn(u)') => Alike(node)'
    BY <1>3, <2>2 DEF Alike
  <2>4. QED
    BY <2>1, <2>3 DEF Well
<1>5. CASE node \in WorksOn(t)'
  <2> DEFINE todo == Program(r)
  <2>1. \A u \in Everyone \ {t} : node \notin WorksOn(u)'
    BY <1>5, AskedWorksOn
  <2>2. Alike(node)
    BY <1>2, <1>5, AskedWorksOn DEF Well
  <2>3. task'[t].todo = todo /\ (task'[t].flash = node => r.op = "flash" /\ r.node = node)
    BY BoardAssumption DEF Asked, Off
  <2>4. todo \in Seq(AnyStep) /\ ~ (Spares(todo, node) /\ ~ Expands(todo))
    <3>1. todo \in Seq(AnyStep)
      BY ProgramDoes DEF Piece
    <3>2. QED
      BY <1>5, <3>1, AskedWorksOn, PowerOfSteps
  <2>5. /\ r.op = "flash" => PutsBack(todo, r.node)
        /\ r.op = "reset" => Restarts(todo, r.node)
        /\ \/ Spares(todo, node) \/ Expands(todo)
           \/ \E last \in OnOff : Leaves(todo, node, last)
           \/ r.op = "reset" /\ node = r.node
    BY ProgramDoes
  <2> HIDE DEF todo
  <2>6. task'[t].flash = node => ~ Expands(todo) /\ Leaves(todo, node, "off")
    BY <2>3, <2>5 DEF PutsBack, Expands, Without
  <2>7. ASSUME ~ Expands(todo)
        PROVE  \E last : /\ task'[t].flash = node => last = "off"
                         /\ \A a \in Aspect : EndsIn(todo, node, a, Now(node, a), last)
    <3>1. CASE \E last \in OnOff : Leaves(todo, node, last)
      <4>1. CASE task'[t].flash = node
        BY <2>6, <4>1 DEF Leaves
      <4>2. CASE task'[t].flash # node
        BY <3>1, <4>2 DEF Leaves
      <4>3. QED
        BY <4>1, <4>2
    <3>2. CASE r.op = "reset" /\ node = r.node
      <4>1. Restarts(todo, node) /\ node \in store.activated
        BY <2>5, <3>2 DEF Asked
      <4>2. \A a \in Aspect : Now(node, a) = "on"
        BY <2>2, <4>1 DEF Alike, Now, Aspect, As
      <4>3. \A a \in Aspect : EndsIn(todo, node, a, Now(node, a), "on")
        BY <4>1, <4>2 DEF Restarts, EndsIn, Aspect
      <4>4. task'[t].flash # node
        BY <2>3, <3>2
      <4>5. QED
        BY <4>3, <4>4
    <3>3. QED
      BY <2>4, <2>5, <2>7, <3>1, <3>2
  <2>8. Settles(t, node)'
    <3>1. CASE Expands(todo)
      <4>1. Expands(task[t].todo)' /\ task'[t].flash # node
        BY <2>3, <2>6, <3>1 DEF Expands, Without
      <4>2. QED
        BY <4>1 DEF Settles
    <3>2. CASE ~ Expands(todo)
      <4>1. ~ Expands(task[t].todo)'
        BY <2>3, <3>2 DEF Expands, Without
      <4>2. PICK last : /\ task'[t].flash = node => last = "off"
                        /\ \A a \in Aspect : EndsIn(todo, node, a, Now(node, a), last)
        BY <2>7, <3>2
      <4>3. ASSUME NEW a \in Aspect PROVE EndsIn(task[t].todo, node, a, Now(node, a), last)'
        BY <1>3, <2>3, <4>2 DEF EndsIn
      <4>4. QED
        BY <4>1, <4>2, <4>3 DEF Settles
    <3>3. QED
      BY <3>1, <3>2
  <2>9. QED
    BY <1>1, <1>5, <2>1, <2>8 DEF Well
<1>6. QED
  BY <1>4, <1>5

(***************************************************************************)
(* The times.                                                              *)
(***************************************************************************)
\* The bit-field of a node is about to be written; so are its times; or they
\* are about to be read.
Pending(todo, node) == todo # << >> /\ todo[1].do = "set_state" /\ node \in todo[1].mask
Updating(todo, node) == todo # << >> /\ todo[1].do = "update_power_on_times" /\ node \in todo[1].mask
Reading(todo, node) ==
    /\ todo # << >> /\ todo[1].do = "get_infos"
    /\ Len(todo) >= 2 /\ todo[2].do = "update_power_on_times" /\ node \in todo[2].mask

Timed(node) ==
    /\ (\A t \in Everyone : ~ Pending(task[t].todo, node)) => (node \in store.since <=> node \in store.activated)
    /\ \A t \in Everyone :
          /\ Pending(task[t].todo, node) => (node \in store.since <=> node \in task[t].todo[1].states)
          /\ Reading(task[t].todo, node) => (node \in task[t].state <=> node \in store.activated)
          /\ Updating(task[t].todo, node) => /\ node \in task[t].state <=> node \in store.activated
                                             /\ node \in task[t].infos <=> node \in store.since
TimesInv == up => \A node \in Nodes : node \in torn \/ Timed(node)

\* Whoever is about to write a bit or a time works on its node.
LEMMA WritersWork ==
    ASSUME Shape, OrderInv, NEW t \in Everyone, NEW node \in Nodes,
           Pending(task[t].todo, node) \/ Updating(task[t].todo, node) \/ Reading(task[t].todo, node)
    PROVE  node \in WorksOn(t)
<1> DEFINE todo == task[t].todo
<1>1. todo \in Seq(AnyStep) /\ todo # << >> /\ Orderly(todo)
  BY DEF Shape, TaskState, OrderInv, Pending, Updating, Reading
<1> HIDE DEF todo
<1>2. Len(todo) \in Nat \ {0} /\ 1 \in 1 .. Len(todo)
  <2>1. Len(todo) \in Nat \ {0}
    BY <1>1, LenProperties, EmptySeq
  <2>2. QED
    BY <2>1
<1>3. \E i \in 1 .. Len(todo) : todo[i].do = "set_state" /\ node \in todo[i].mask
  <2>1. ASSUME NEW i \in 1 .. Len(todo), todo[i].do = "update_power_on_times", node \in todo[i].mask
        PROVE  \E j \in 1 .. Len(todo) : todo[j].do = "set_state" /\ node \in todo[j].mask
    <3>1. i < Len(todo) /\ todo[i + 1].do = "set_state" /\ todo[i + 1].mask = todo[i].mask
      BY <1>1, <2>1 DEF Orderly, InPlace
    <3>2. i + 1 \in 1 .. Len(todo)
      BY <1>2, <3>1
    <3>3. QED
      BY <2>1, <3>1, <3>2
  <2>2. CASE Pending(todo, node)
    BY <1>2, <2>2 DEF Pending
  <2>3. CASE Updating(todo, node)
    BY <1>2, <2>1, <2>3 DEF Updating
  <2>4. CASE Reading(todo, node)
    <3>1. 2 \in 1 .. Len(todo)
      BY <1>2, <2>4 DEF Reading
    <3>2. QED
      BY <2>1, <2>4, <3>1 DEF Reading
  <2>5. QED
    BY <2>2, <2>3, <2>4 DEF todo
<1>4. ~ Spares(todo, node)
  BY <1>3 DEF Spares, Writes, Aspect
<1>5. QED
  BY <1>4, WorkIsTodo DEF todo

\* What comes next.
LEMMA ComesNext ==
    ASSUME Shape, OrderInv, NEW t \in Everyone, task[t].todo # << >>, Touches(t), NEW r, Onward(t, r), NEW node
    PROVE  /\ Pending(r.todo, node) =>
                 /\ step(t).do = "update_power_on_times" /\ node \in step(t).mask
                 /\ r.todo[1].states = step(t).states
           /\ Updating(r.todo, node) => Reading(task[t].todo, node)
           /\ Reading(r.todo, node) => step(t).do = "get_state"
           /\ Updating(task[t].todo, node) => Pending(r.todo, node)
<1> DEFINE todo == task[t].todo
           x == step(t)
<1>1. /\ todo \in Seq(AnyStep) /\ todo # << >> /\ x = todo[1] /\ Orderly(todo)
      /\ Len(todo) \in Nat \ {0} /\ 1 \in 1 .. Len(todo)
  BY TheStep DEF OrderInv
<1>2. /\ x.do \notin Opening => r.todo = Tail(todo)
      /\ x.do = "get_config" => r.todo = configure_usb(store.config)
      /\ x.do \in {"toggle", "startup_power_state"} =>
            \E nodes \in SUBSET Nodes : r.todo = activate_slot(nodes, Nodes)
  BY GoesInOrder
<1> HIDE DEF todo, x
<1>3. CASE x.do \notin Opening
  <2>1. PICK rest \in Seq(AnyStep) : rest = r.todo
    BY <1>1, <1>2, <1>3, LastTail
  <2>2. /\ Len(rest) = Len(todo) - 1
        /\ \A i \in 1 .. Len(rest) : i + 1 \in 1 .. Len(todo) /\ rest[i] = todo[i + 1]
    BY <1>1, <1>2, <1>3, <2>1, LastTail
  <2>3. rest # << >> => 1 \in 1 .. Len(rest) /\ 1 + 1 = 2 /\ 2 - 1 = 1 /\ Len(todo) >= 2
    <3>1. rest # << >> => Len(rest) \in Nat \ {0}
      BY LenProperties, EmptySeq
    <3>2. QED
      BY <1>1, <2>2, <3>1
  <2>4. rest # << >> => 2 \in 1 .. Len(todo) /\ rest[1] = todo[2]
    BY <2>2, <2>3
  <2>5. rest # << >> /\ Len(rest) >= 2 => 3 \in 1 .. Len(todo) /\ rest[2] = todo[3] /\ 3 - 2 = 1 /\ ~ (3 <= 2)
    <3>1. Len(rest) >= 2 => 2 \in 1 .. Len(rest) /\ 2 + 1 = 3
      BY <1>1, <2>2
    <3>2. QED
      BY <2>2, <3>1
  <2>6. Pending(rest, node) => x.do = "update_power_on_times" /\ node \in x.mask /\ rest[1].states = x.states
    <3> SUFFICES ASSUME Pending(rest, node)
                 PROVE  x.do = "update_power_on_times" /\ node \in x.mask /\ rest[1].states = x.states
      OBVIOUS
    <3>1. rest # << >> /\ todo[2].do = "set_state" /\ node \in rest[1].mask /\ rest[1] = todo[2]
      BY <2>4 DEF Pending
    <3>2. InPlace(todo, 2) /\ InPlace(todo, 1)
      BY <1>1, <2>4, <3>1 DEF Orderly
    <3>3. todo[1].do = "update_power_on_times"
      BY <2>3, <3>1, <3>2 DEF InPlace
    <3>4. todo[2].states = todo[1].states /\ todo[2].mask = todo[1].mask
      BY <2>3, <3>1, <3>2, <3>3 DEF InPlace
    <3>5. QED
      BY <1>1, <3>1, <3>3, <3>4
  <2>7. Updating(rest, node) => Reading(todo, node)
    <3> SUFFICES ASSUME Updating(rest, node) PROVE Reading(todo, node)
      OBVIOUS
    <3>1. rest # << >> /\ todo[2].do = "update_power_on_times" /\ node \in todo[2].mask
      BY <2>4 DEF Updating
    <3>2. InPlace(todo, 2)
      BY <1>1, <2>4, <3>1 DEF Orderly
    <3>3. QED
      BY <1>1, <2>3, <3>1, <3>2 DEF InPlace, Reading
  <2>8. Reading(rest, node) => x.do = "get_state"
    <3> SUFFICES ASSUME Reading(rest, node) PROVE x.do = "get_state"
      OBVIOUS
    <3>1. todo[3].do = "update_power_on_times" /\ 3 \in 1 .. Len(todo)
      BY <2>5 DEF Reading
    <3>2. InPlace(todo, 3)
      BY <1>1, <3>1 DEF Orderly
    <3>3. QED
      BY <1>1, <2>5, <3>1, <3>2 DEF InPlace, Reading
  <2>9. Updating(todo, node) => Pending(rest, node)
    <3> SUFFICES ASSUME Updating(todo, node) PROVE Pending(rest, node)
      OBVIOUS
    <3>1. 1 < Len(todo) /\ todo[2].do = "set_state" /\ todo[2].mask = todo[1].mask
      <4>1. InPlace(todo, 1) /\ 1 + 1 = 2
        BY <1>1 DEF Orderly
      <4>2. QED
        BY <4>1 DEF InPlace, Updating
    <3>2. rest # << >>
      <4>1. Len(rest) > 0
        BY <1>1, <2>2, <3>1
      <4>2. QED
        BY <4>1, EmptySeq
    <3>3. QED
      BY <2>4, <3>1, <3>2 DEF Pending, Updating
  <2>10. QED
    BY <2>1, <2>6, <2>7, <2>8, <2>9 DEF todo, x
<1>4. CASE x.do \in Opening
  <2>1. Piece(r.todo)
    <3>1. CASE x.do = "get_config"
      BY <1>2, <3>1, ConfiguringUsb DEF Shape, Kept
    <3>2. CASE x.do \in {"toggle", "startup_power_state"}
      <4>1. PICK nodes \in SUBSET Nodes : r.todo = activate_slot(nodes, Nodes)
        BY <1>2, <3>2
      <4>2. Nodes \in SUBSET Nodes
        OBVIOUS
      <4>3. Switches(activate_slot(nodes, Nodes), nodes, Nodes)
        BY <4>2, ActivatingNodes
      <4>4. QED
        BY <4>1, <4>3 DEF Switches
    <3>3. QED
      BY <1>4, <3>1, <3>2 DEF Opening
  <2>2. /\ ~ Updating(todo, node)
        /\ r.todo # << >> => 1 \in 1 .. Len(r.todo)
        /\ r.todo # << >> /\ Len(r.todo) >= 2 => 2 \in 1 .. Len(r.todo)
    <3>1. ~ Updating(todo, node)
      BY <1>1, <1>4 DEF Updating, Opening
    <3>2. r.todo # << >> => Len(r.todo) \in Nat \ {0}
      BY <2>1, LenProperties, EmptySeq DEF Piece
    <3>3. QED
      BY <3>1, <3>2
  <2>3. ~ (1 > 1) /\ ~ (1 > 2) /\ ~ (2 > 2)
    OBVIOUS
  <2>4. ~ Pending(r.todo, node) /\ ~ Updating(r.todo, node) /\ ~ Reading(r.todo, node)
    BY <2>1, <2>2, <2>3 DEF Piece, Begins, Pending, Updating, Reading
  <2>5. QED
    BY <2>2, <2>4 DEF todo
<1>5. QED
  BY <1>3, <1>4

\* The times and the bit-field change for the nodes of the mask.
LEMMA TimesMove ==
    ASSUME Shape, NEW t \in Everyone, task[t].todo # << >>, Touches(t), NEW node \in Nodes, node \notin torn'
    PROVE  LET x == step(t) IN
           /\ Pending(task[t].todo, node) => (node \in store'.activated <=> node \in x.states)
           /\ ~ Pending(task[t].todo, node) => (node \in store'.activated <=> node \in store.activated)
           /\ Updating(task[t].todo, node) =>
                 (node \in store'.since <=>
                    \/ node \in task[t].infos /\ ~ (node \in task[t].state /\ node \notin x.states)
                    \/ node \in x.states /\ node \notin task[t].state)
           /\ ~ Updating(task[t].todo, node) => (node \in store'.since <=> node \in store.since)
<1>1. step(t) = task[t].todo[1]
  BY TheStep
<1>2. CASE step(t).do = "set_state"
  <2>1. /\ store'.activated = (task[t].state \ step(t).mask) \cup (step(t).states \cap step(t).mask)
        /\ store'.since = store.since
        /\ torn' = torn \cup (Differ(task[t].state, store.activated) \ step(t).mask)
    BY <1>2 DEF Touches
  <2>2. (Pending(task[t].todo, node) <=> node \in step(t).mask) /\ ~ Updating(task[t].todo, node)
    BY <1>1, <1>2 DEF Pending, Updating
  <2>3. QED
    BY <2>1, <2>2 DEF Differ
<1>3. CASE step(t).do = "update_power_on_times"
  <2>1. /\ store'.activated = store.activated
        /\ store'.since = Times(task[t].state, task[t].infos, step(t).states, step(t).mask)
        /\ torn' = torn \cup (Differ(task[t].infos, store.since) \ step(t).mask)
    BY <1>3 DEF Touches
  <2>2. (Updating(task[t].todo, node) <=> node \in step(t).mask) /\ ~ Pending(task[t].todo, node)
    BY <1>1, <1>3 DEF Pending, Updating
  <2>3. CASE node \in step(t).mask
    BY <2>1, <2>2, <2>3 DEF Times
  <2>4. CASE node \notin step(t).mask
    BY <2>1, <2>2, <2>4 DEF Times, Differ
  <2>5. QED
    BY <2>3, <2>4
<1>4. CASE step(t).do \notin {"set_state", "update_power_on_times"}
  <2>1. /\ store'.activated = store.activated
        /\ store'.since = IF step(t).do = "set_names" THEN task[t].infos ELSE store.since
        /\ step(t).do = "set_names" => torn' = torn \cup Differ(task[t].infos, store.since)
    BY <1>4 DEF Touches
  <2>2. ~ Updating(task[t].todo, node) /\ ~ Pending(task[t].todo, node)
    BY <1>1, <1>4 DEF Pending, Updating
  <2>3. QED
    BY <2>1, <2>2 DEF Differ
<1>5. QED
  BY <1>2, <1>3, <1>4

\* A step keeps the times with the bits.
LEMMA StepKeepsTimes ==
    ASSUME Shape, OrderInv, RestInv, CrossInv, TimesInv, NEW t \in Everyone, Step(t)
    PROVE  TimesInv'
<1>1. task[t].todo # << >> /\ Touches(t)
  BY EveryStep
<1>2. PICK r : Onward(t, r)
  BY EveryStep
<1>3. task'[t] = r /\ \A u \in Everyone \ {t} : task'[u] = task[u]
  BY <1>1, <1>2, GoesInOrder
<1>4. up /\ torn \subseteq torn' /\ step(t) = task[t].todo[1]
  BY <1>1, TheStep DEF RestInv, Touches
<1> SUFFICES ASSUME NEW node \in Nodes, node \notin torn' PROVE Timed(node)'
  BY DEF TimesInv
<1>5. Timed(node) /\ node \notin torn
  BY <1>4 DEF TimesInv
<1> DEFINE todo == task[t].todo
           on == node \in store.activated
           since == node \in store.since
           on2 == node \in store'.activated
           since2 == node \in store'.since
<1>6. /\ Pending(todo, node) => (on2 <=> node \in step(t).states) /\ (since2 <=> since)
      /\ Updating(todo, node) => (since2 <=> node \in step(t).states) /\ (on2 <=> on)
      /\ ~ Pending(todo, node) /\ ~ Updating(todo, node) => (on2 <=> on) /\ (since2 <=> since)
  <2>1. ~ (Pending(todo, node) /\ Updating(todo, node))
    BY DEF Pending, Updating
  <2>2. Updating(todo, node) => (node \in task[t].state <=> on) /\ (node \in task[t].infos <=> since)
    BY <1>5 DEF Timed
  <2>3. Updating(todo, node) => (since <=> on)
    <3> SUFFICES ASSUME Updating(todo, node) PROVE since <=> on
      OBVIOUS
    <3>1. \A u \in Everyone : ~ Pending(task[u].todo, node)
      <4>1. ASSUME NEW u \in Everyone, Pending(task[u].todo, node) PROVE FALSE
        <5>1. u # t
          BY <2>1, <4>1
        <5>2. node \in WorksOn(u) /\ node \in WorksOn(t)
          BY <4>1, WritersWork
        <5>3. QED
          BY <1>5, <5>1, <5>2 DEF CrossInv
      <4>2. QED
        BY <4>1
    <3>2. QED
      BY <1>5, <3>1 DEF Timed
  <2>4. QED
    BY <1>1, <2>1, <2>2, <2>3, TimesMove
<1>7. ASSUME NEW u \in Everyone \ {t}, \/ Pending(task[u].todo, node) \/ Updating(task[u].todo, node)
                                       \/ Reading(task[u].todo, node)
      PROVE  (on2 <=> on) /\ (since2 <=> since)
  <2>1. node \in WorksOn(u)
    BY <1>7, WritersWork
  <2>2. node \notin WorksOn(t)
    BY <1>5, <2>1 DEF CrossInv
  <2>3. ~ Pending(todo, node) /\ ~ Updating(todo, node)
    BY <2>2, WritersWork
  <2>4. QED
    BY <1>6, <2>3
<1>8. /\ Pending(r.todo, node) => Updating(todo, node) /\ r.todo[1].states = step(t).states
      /\ Updating(r.todo, node) => Reading(todo, node)
      /\ Reading(r.todo, node) => step(t).do = "get_state"
      /\ Updating(todo, node) => Pending(r.todo, node)
  BY <1>1, <1>2, <1>4, ComesNext DEF Updating
<1> HIDE DEF todo, on, since, on2, since2
<1>9. (\A u \in Everyone : ~ Pending(task'[u].todo, node)) => (since2 <=> on2)
  <2> SUFFICES ASSUME \A u \in Everyone : ~ Pending(task'[u].todo, node) PROVE since2 <=> on2
    OBVIOUS
  <2>1. ~ Updating(todo, node)
    BY <1>3, <1>8
  <2>2. CASE Pending(todo, node)
    <3>1. since <=> node \in step(t).states
      BY <1>4, <1>5, <2>2 DEF Timed, since, todo
    <3>2. QED
      BY <1>6, <2>2, <3>1
  <2>3. CASE ~ Pending(todo, node)
    <3>1. \A u \in Everyone : ~ Pending(task[u].todo, node)
      BY <1>3, <2>3 DEF todo
    <3>2. since <=> on
      BY <1>5, <3>1 DEF Timed, since, on
    <3>3. QED
      BY <1>6, <2>1, <2>3, <3>2
  <2>4. QED
    BY <2>2, <2>3
<1>10. ASSUME NEW u \in Everyone \ {t}
       PROVE  /\ Pending(task[u].todo, node) => (since2 <=> node \in task[u].todo[1].states)
              /\ Reading(task[u].todo, node) => (node \in task[u].state <=> on2)
              /\ Updating(task[u].todo, node) => (node \in task[u].state <=> on2) /\ (node \in task[u].infos <=> since2)
  BY <1>5, <1>7 DEF Timed, since, on
<1>11. /\ Pending(r.todo, node) => (since2 <=> node \in r.todo[1].states)
       /\ Reading(r.todo, node) => (node \in r.state <=> on2)
       /\ Updating(r.todo, node) => (node \in r.state <=> on2) /\ (node \in r.infos <=> since2)
  <2>1. Pending(r.todo, node) => (since2 <=> node \in r.todo[1].states)
    BY <1>6, <1>8
  <2>2. Reading(r.todo, node) => (node \in r.state <=> on2)
    <3> SUFFICES ASSUME Reading(r.todo, node) PROVE node \in r.state <=> on2
      OBVIOUS
    <3>1. step(t).do = "get_state" /\ r.todo # << >>
      BY <1>8 DEF Reading
    <3>2. r.state = store.activated
      BY <1>2, <3>1 DEF Onward
    <3>3. ~ Pending(todo, node) /\ ~ Updating(todo, node)
      BY <1>4, <3>1 DEF Pending, Updating, todo
    <3>4. QED
      BY <1>6, <3>2, <3>3 DEF on
  <2>3. Updating(r.todo, node) => (node \in r.state <=> on2) /\ (node \in r.infos <=> since2)
    <3> SUFFICES ASSUME Updating(r.todo, node) PROVE (node \in r.state <=> on2) /\ (node \in r.infos <=> since2)
      OBVIOUS
    <3>1. Reading(todo, node) /\ r.todo # << >>
      BY <1>8 DEF Updating
    <3>2. step(t).do = "get_infos"
      BY <1>4, <3>1 DEF Reading, todo
    <3>3. r.state = task[t].state /\ r.infos = store.since
      BY <1>2, <3>1, <3>2 DEF Onward
    <3>4. node \in task[t].state <=> on
      BY <1>5, <3>1 DEF Timed, on, todo
    <3>5. ~ Pending(todo, node) /\ ~ Updating(todo, node)
      BY <1>4, <3>2 DEF Pending, Updating, todo
    <3>6. QED
      BY <1>6, <3>3, <3>4, <3>5 DEF since
  <2>4. QED
    BY <2>1, <2>2, <2>3
<1>12. ASSUME NEW u \in Everyone
       PROVE  /\ Pending(task'[u].todo, node) => (since2 <=> node \in task'[u].todo[1].states)
              /\ Reading(task'[u].todo, node) => (node \in task'[u].state <=> on2)
              /\ Updating(task'[u].todo, node) => (node \in task'[u].state <=> on2) /\ (node \in task'[u].infos <=> since2)
  BY <1>3, <1>10, <1>11
<1>13. QED
  BY <1>9, <1>12 DEF Timed, Pending, Reading, Updating, since2, on2

\* A sequence does not begin with the write of a bit or of a time.
LEMMA BeginsQuietly ==
    ASSUME NEW todo, Piece(todo) \/ todo = << >>, NEW node
    PROVE  ~ Pending(todo, node) /\ ~ Updating(todo, node) /\ ~ Reading(todo, node)
<1>1. CASE todo = << >>
  BY <1>1 DEF Pending, Updating, Reading
<1>2. CASE Piece(todo) /\ todo # << >>
  <2>1. 1 \in 1 .. Len(todo) /\ (Len(todo) >= 2 => 2 \in 1 .. Len(todo))
    <3>1. Len(todo) \in Nat \ {0}
      BY <1>2, LenProperties, EmptySeq DEF Piece
    <3>2. QED
      BY <3>1
  <2>2. ~ (1 > 1) /\ ~ (1 > 2) /\ ~ (2 > 2)
    OBVIOUS
  <2>3. QED
    BY <1>2, <2>1, <2>2 DEF Piece, Begins, Pending, Updating, Reading
<1>3. QED
  BY <1>1, <1>2

\* Another sequence of steps takes the place of one that writes no times.
LEMMA AnotherKeepsTimes ==
    ASSUME TimesInv, up, store' = store, torn \subseteq torn', NEW t \in Everyone,
           \A u \in Everyone \ {t} : task'[u] = task[u],
           Piece(task'[t].todo) \/ task'[t].todo = << >>,
           task[t].todo = << >> \/ step(t).do \in {"driver", "set_mode", "enable", "pins", "usb_boot"},
           task[t].todo = << >> \/ step(t) = task[t].todo[1]
    PROVE  TimesInv'
<1> SUFFICES ASSUME NEW node \in Nodes, node \notin torn' PROVE Timed(node)'
  BY DEF TimesInv
<1>1. Timed(node)
  BY DEF TimesInv
<1>2. ~ Pending(task[t].todo, node)
  BY DEF Pending
<1>3. ~ Pending(task'[t].todo, node) /\ ~ Updating(task'[t].todo, node) /\ ~ Reading(task'[t].todo, node)
  BY BeginsQuietly
<1>4. \A u \in Everyone \ {t} : task'[u].todo = task[u].todo /\ task'[u].state = task[u].state /\ task'[u].infos = task[u].infos
  OBVIOUS
<1>5. ASSUME \A u \in Everyone : ~ Pending(task'[u].todo, node)
      PROVE  node \in store.since <=> node \in store.activated
  <2>1. \A u \in Everyone : ~ Pending(task[u].todo, node)
    BY <1>2, <1>4, <1>5
  <2>2. QED
    BY <1>1, <2>1 DEF Timed
<1>6. ASSUME NEW u \in Everyone
      PROVE  /\ Pending(task'[u].todo, node) => (node \in store.since <=> node \in task'[u].todo[1].states)
             /\ Reading(task'[u].todo, node) => (node \in task'[u].state <=> node \in store.activated)
             /\ Updating(task'[u].todo, node) => /\ node \in task'[u].state <=> node \in store.activated
                                                 /\ node \in task'[u].infos <=> node \in store.since
  BY <1>1, <1>3, <1>4 DEF Timed
<1>7. QED
  BY <1>5, <1>6 DEF Timed, Pending, Reading, Updating

(***************************************************************************)
(* The USB switch.                                                         *)
(***************************************************************************)
Storing(todo) == todo # << >> /\ todo[1].do = "set_config"
UsbRight ==
    /\ \A t \in Everyone : UsbOrderly(task[t].todo)
    /\ \A t \in Everyone : \A u \in Everyone : UsbOf(task[t].todo) /\ UsbOf(task[u].todo) => t = u
    /\ (\A t \in Everyone : ~ UsbOf(task[t].todo)) => usb = Routed(store.config)
    /\ \A t \in Everyone : Storing(task[t].todo) => usb = Routed(task[t].todo[1].config)
UsbInv == up => usb_apart \/ UsbRight

\* The requests that have the switch still to touch.
LEMMA UsbOfSteps ==
    ASSUME NEW todo \in Seq(AnyStep)
    PROVE  UsbOf(todo) <=> ~ Without(todo, Routing)
<1>1. DOMAIN todo = 1 .. Len(todo)
  BY LenProperties
<1>2. QED
  BY <1>1 DEF UsbOf, Without, Routing

\* The switch is as a configuration says once it has been set to it.
LEMMA RoutedTwice == ASSUME Shape, NEW config PROVE usb' = Routed(config) => usb' = Routed(config)'
<1>1. CASE Board = "hub"
  <2>1. usb \in [route : {"Bmc", "AlternativePort"}, node : Nodes, host : BOOLEAN]
    BY DEF Shape
  <2>2. ASSUME usb' = [usb EXCEPT !.route = config.route]
        PROVE  usb' = [usb' EXCEPT !.route = config.route]
    BY <2>1, <2>2
  <2>3. QED
    BY <1>1, <2>2 DEF Routed
<1>2. CASE Board # "hub"
  BY <1>2 DEF Routed
<1>3. QED
  BY <1>1, <1>2

\* What a step on the switch leaves to be done on it.
LEMMA UsbComesNext ==
    ASSUME Shape, OrderInv, NEW t \in Everyone, task[t].todo # << >>, Touches(t), NEW r, Onward(t, r),
           UsbOrderly(task[t].todo)
    PROVE  /\ UsbOrderly(r.todo)
           /\ UsbOf(r.todo) => UsbOf(task[t].todo)
           /\ UsbOf(task[t].todo) /\ ~ UsbOf(r.todo) => step(t).do = "set_config"
           /\ Storing(r.todo) => step(t).do = "pins" /\ step(t).config = r.todo[1].config
           /\ step(t).do \in {"pins", "set_config"} => UsbOf(task[t].todo)
<1> DEFINE todo == task[t].todo
           x == step(t)
<1>1. /\ todo \in Seq(AnyStep) /\ todo # << >> /\ x = todo[1] /\ Orderly(todo)
      /\ Len(todo) \in Nat \ {0} /\ 1 \in 1 .. Len(todo)
  BY TheStep DEF OrderInv
<1>2. /\ x.do \notin Opening => r.todo = Tail(todo)
      /\ x.do = "get_config" => r.todo = configure_usb(store.config)
      /\ x.do \in {"toggle", "startup_power_state"} =>
            \E nodes \in SUBSET Nodes : r.todo = activate_slot(nodes, Nodes)
  BY GoesInOrder
<1>3. UsbOf(todo) <=> ~ Without(todo, Routing)
  BY <1>1, UsbOfSteps
<1>4. x.do \in Routing => UsbOf(todo)
  BY <1>1, <1>3 DEF Without
<1> HIDE DEF todo, x
<1>5. CASE x.do \notin Opening
  <2>1. PICK rest \in Seq(AnyStep) : rest = r.todo
    BY <1>1, <1>2, <1>5, LastTail
  <2>2. /\ Len(rest) = Len(todo) - 1
        /\ \A i \in 1 .. Len(rest) : i + 1 \in 1 .. Len(todo) /\ rest[i] = todo[i + 1]
    BY <1>1, <1>2, <1>5, <2>1, LastTail
  <2>3. UsbOrderly(rest)
    BY <1>1, <1>2, <1>5, <2>1, RestInOrder DEF todo
  <2>4. UsbOf(rest) <=> ~ Without(rest, Routing)
    BY UsbOfSteps
  <2>5. UsbOf(rest) => UsbOf(todo)
    BY <1>3, <2>2, <2>4 DEF Without
  <2>6. \A i \in 2 .. Len(todo) : \E k \in 1 .. Len(rest) : rest[k] = todo[i]
    <3>1. ASSUME NEW i \in 2 .. Len(todo) PROVE i - 1 \in 1 .. Len(rest) /\ (i - 1) + 1 = i
      BY <1>1, <2>2
    <3>2. QED
      BY <2>2, <3>1
  <2>7. ASSUME UsbOf(todo), ~ UsbOf(rest) PROVE x.do = "set_config"
    <3>1. PICK i \in 1 .. Len(todo) : todo[i].do \in Routing
      BY <1>3, <2>7 DEF Without
    <3>2. i = 1
      <4>1. ASSUME i # 1 PROVE FALSE
        <5>1. i \in 2 .. Len(todo)
          BY <1>1, <4>1
        <5>2. QED
          BY <2>4, <2>6, <2>7, <3>1, <5>1 DEF Without
      <4>2. QED
        BY <4>1
    <3>3. x.do # "pins"
      <4> SUFFICES ASSUME x.do = "pins" PROVE FALSE
        OBVIOUS
      <4>1. 1 < Len(todo) /\ (todo[2].do = "set_config" \/ todo[Len(todo)].do = "get_config")
        <5>1. UsbInPlace(todo, 1) /\ 1 + 1 = 2
          BY <1>1 DEF UsbOrderly, todo
        <5>2. QED
          BY <1>1, <5>1 DEF UsbInPlace
      <4>2. 2 \in 2 .. Len(todo) /\ Len(todo) \in 2 .. Len(todo)
        BY <1>1, <4>1
      <4>3. QED
        BY <2>4, <2>6, <2>7, <4>1, <4>2 DEF Without, Routing
    <3>4. QED
      BY <1>1, <1>5, <3>1, <3>2, <3>3 DEF Routing, Opening
  <2>8. ASSUME Storing(rest) PROVE x.do = "pins" /\ x.config = rest[1].config
    <3>1. Len(rest) \in Nat \ {0}
      BY <2>8, LenProperties, EmptySeq DEF Storing
    <3>2. 1 \in 1 .. Len(rest) /\ 1 + 1 = 2 /\ 2 - 1 = 1 /\ 2 # 1
      BY <3>1
    <3>3. 2 \in 1 .. Len(todo) /\ rest[1] = todo[2]
      BY <2>2, <3>2
    <3>4. UsbInPlace(todo, 2)
      BY <3>3 DEF UsbOrderly, todo
    <3>5. QED
      BY <1>1, <2>8, <3>2, <3>3, <3>4 DEF UsbInPlace, Storing
  <2>9. QED
    BY <1>4, <2>1, <2>3, <2>5, <2>7, <2>8 DEF todo, x, Routing
<1>6. CASE x.do = "get_config"
  <2>1. PICK made : made = configure_usb(store.config)
    OBVIOUS
  <2>2. Piece(made) /\ Len(made) = 2 /\ UsbOrderly(made) /\ made[1].do = "pins" /\ made[2].do = "set_config"
    BY <2>1, ConfiguringUsb DEF Shape, Kept
  <2>3. UsbOf(made)
    <3>1. made \in Seq(AnyStep) /\ 1 \in 1 .. 2
      BY <2>2 DEF Piece
    <3>2. QED
      BY <2>2, <3>1, UsbOfSteps DEF Without, Routing
  <2>4. QED
    BY <1>2, <1>4, <1>6, <2>1, <2>2, <2>3 DEF Routing, Storing, todo, x
<1>7. CASE x.do \in {"toggle", "startup_power_state"}
  <2>1. PICK nodes \in SUBSET Nodes : r.todo = activate_slot(nodes, Nodes)
    BY <1>2, <1>7
  <2>2. PICK made : made = activate_slot(nodes, Nodes)
    OBVIOUS
  <2>3. Nodes \in SUBSET Nodes
    OBVIOUS
  <2>4. Switches(made, nodes, Nodes)
    BY <2>2, <2>3, ActivatingNodes
  <2>5. made \in Seq(AnyStep) /\ Without(made, Routing) /\ UsbOrderly(made)
    BY <2>4, WithoutRouting DEF Switches, Piece, Without
  <2>6. ~ UsbOf(made) /\ ~ Storing(made)
    <3>1. made # << >> => 1 \in 1 .. Len(made)
      <4>1. made # << >> => Len(made) \in Nat \ {0}
        BY <2>5, LenProperties, EmptySeq
      <4>2. QED
        BY <4>1
    <3>2. QED
      BY <2>5, <3>1, UsbOfSteps DEF Without, Routing, Storing
  <2>7. ~ UsbOf(todo)
    <3>1. Len(todo) = 1
      BY <1>1, <1>7 DEF Orderly, InPlace, Opening
    <3>2. \A i \in 1 .. 1 : i = 1
      OBVIOUS
    <3>3. QED
      BY <1>1, <1>3, <1>7, <3>1, <3>2 DEF Without, Routing
  <2>8. QED
    BY <1>7, <2>1, <2>2, <2>5, <2>6, <2>7 DEF todo, x
<1>8. QED
  BY <1>5, <1>6, <1>7 DEF Opening

\* Whoever stores a configuration of the switch has it still to touch.
LEMMA StoringRoutes ==
    ASSUME NEW todo \in Seq(AnyStep), Storing(todo)
    PROVE  UsbOf(todo)
<1>1. 1 \in 1 .. Len(todo)
  <2>1. Len(todo) \in Nat \ {0}
    BY LenProperties, EmptySeq DEF Storing
  <2>2. QED
    BY <2>1
<1>2. QED
  BY <1>1, UsbOfSteps DEF Storing, Without, Routing

\* A step keeps the switch with its configuration.
LEMMA StepKeepsUsb ==
    ASSUME Shape, OrderInv, RestInv, UsbInv, NEW t \in Everyone, Step(t)
    PROVE  UsbInv'
<1>1. task[t].todo # << >> /\ Touches(t)
  BY EveryStep
<1>2. PICK r : Onward(t, r)
  BY EveryStep
<1>3. task'[t] = r /\ \A u \in Everyone \ {t} : task'[u] = task[u]
  BY <1>1, <1>2, GoesInOrder
<1>4. up /\ usb_apart' = usb_apart /\ step(t) = task[t].todo[1]
  BY <1>1, TheStep DEF RestInv, Touches
<1> SUFFICES ASSUME ~ usb_apart' PROVE UsbRight'
  BY DEF UsbInv
<1>5. UsbRight
  BY <1>4 DEF UsbInv
<1>6. /\ UsbOrderly(r.todo)
      /\ UsbOf(r.todo) => UsbOf(task[t].todo)
      /\ UsbOf(task[t].todo) /\ ~ UsbOf(r.todo) => step(t).do = "set_config"
      /\ Storing(r.todo) => step(t).do = "pins" /\ step(t).config = r.todo[1].config
      /\ step(t).do \in {"pins", "set_config"} => UsbOf(task[t].todo)
  BY <1>1, <1>2, <1>5, UsbComesNext DEF UsbRight
<1>7. (\A u \in Everyone : UsbOrderly(task[u].todo))'
  <2>1. \A u \in Everyone : UsbOrderly(task'[u].todo)
    BY <1>3, <1>5, <1>6 DEF UsbRight
  <2>2. QED
    BY <2>1 DEF UsbOrderly, UsbInPlace
<1>8. \A u \in Everyone : \A w \in Everyone : UsbOf(task'[u].todo) /\ UsbOf(task'[w].todo) => u = w
  <2>1. \A u \in Everyone : UsbOf(task'[u].todo) => UsbOf(task[u].todo)
    BY <1>3, <1>6
  <2>2. QED
    BY <1>5, <2>1 DEF UsbRight
<1>9. ASSUME \A u \in Everyone : ~ UsbOf(task'[u].todo) PROVE usb' = Routed(store.config)'
  <2>1. PICK config : config = store'.config
    OBVIOUS
  <2>2. usb' = Routed(config)
    <3>1. CASE UsbOf(task[t].todo)
      <4>1. step(t).do = "set_config"
        BY <1>3, <1>6, <1>9, <3>1
      <4>2. usb = Routed(step(t).config)
        BY <1>1, <1>4, <1>5, <4>1 DEF UsbRight, Storing
      <4>3. config = step(t).config /\ usb' = usb
        BY <1>1, <2>1, <4>1 DEF Touches
      <4>4. QED
        BY <4>2, <4>3
    <3>2. CASE ~ UsbOf(task[t].todo)
      <4>1. usb = Routed(store.config)
        BY <1>3, <1>5, <1>9, <3>2 DEF UsbRight
      <4>2. config = store.config /\ usb' = usb
        BY <1>1, <1>6, <2>1, <3>2 DEF Touches
      <4>3. QED
        BY <4>1, <4>2
    <3>3. QED
      BY <3>1, <3>2
  <2>3. usb' = Routed(config)'
    BY <2>2, RoutedTwice
  <2>4. QED
    BY <2>1, <2>3 DEF Routed
<1>10. ASSUME NEW u \in Everyone, Storing(task'[u].todo) PROVE usb' = Routed(task[u].todo[1].config)'
  <2>1. PICK config : config = task'[u].todo[1].config
    OBVIOUS
  <2>2. usb' = Routed(config)
    <3>1. CASE u = t
      BY <1>1, <1>3, <1>6, <1>10, <2>1, <3>1 DEF Touches
    <3>2. CASE u # t
      <4>1. task'[u] = task[u] /\ Storing(task[u].todo)
        BY <1>3, <1>10, <3>2
      <4>2. usb = Routed(config)
        BY <1>5, <2>1, <4>1 DEF UsbRight
      <4>3. task[u].todo \in Seq(AnyStep)
        BY DEF Shape, TaskState
      <4>4. ~ UsbOf(task[t].todo)
        BY <1>5, <3>2, <4>1, <4>3, StoringRoutes DEF UsbRight
      <4>5. usb' = usb
        BY <1>1, <1>6, <4>4 DEF Touches
      <4>6. QED
        BY <4>2, <4>5
    <3>3. QED
      BY <3>1, <3>2
  <2>3. usb' = Routed(config)'
    BY <2>2, RoutedTwice
  <2>4. QED
    BY <2>1, <2>3 DEF Routed
<1>11. QED
  <2>1. (\A u \in Everyone : \A w \in Everyone : UsbOf(task[u].todo) /\ UsbOf(task[w].todo) => u = w)'
    BY <1>8 DEF UsbOf
  <2>2. ((\A u \in Everyone : ~ UsbOf(task[u].todo)) => usb = Routed(store.config))'
    BY <1>9 DEF UsbOf
  <2>3. (\A u \in Everyone : Storing(task[u].todo) => usb = Routed(task[u].todo[1].config))'
    BY <1>10 DEF Storing
  <2>4. QED
    BY <1>7, <2>1, <2>2, <2>3 DEF UsbRight

\* Another sequence takes the place of one, and routes if that did or if
\* nobody else does.
LEMMA AnotherKeepsUsb ==
    ASSUME Shape, UsbRight, store' = store, NEW t \in Everyone,
           \A u \in Everyone \ {t} : task'[u] = task[u],
           Piece(task'[t].todo) \/ task'[t].todo = << >>, UsbOrderly(task'[t].todo),
           UsbOf(task'[t].todo) => UsbOf(task[t].todo) \/ \A u \in Everyone : ~ UsbOf(task[u].todo),
           UsbOf(task[t].todo) => UsbOf(task'[t].todo),
           usb' = usb \/ UsbOf(task[t].todo)
    PROVE  UsbRight'
<1>1. (\A u \in Everyone : UsbOrderly(task[u].todo))'
  <2>1. \A u \in Everyone : UsbOrderly(task'[u].todo)
    BY DEF UsbRight
  <2>2. QED
    BY <2>1 DEF UsbOrderly, UsbInPlace
<1>2. \A u \in Everyone : \A w \in Everyone : UsbOf(task'[u].todo) /\ UsbOf(task'[w].todo) => u = w
  BY DEF UsbRight
<1>3. ASSUME \A u \in Everyone : ~ UsbOf(task'[u].todo) PROVE usb' = Routed(store.config)'
  <2>1. PICK config : config = store.config
    OBVIOUS
  <2>2. ~ UsbOf(task[t].todo)
    BY <1>3
  <2>3. usb' = Routed(config)
    BY <1>3, <2>1, <2>2 DEF UsbRight
  <2>4. usb' = Routed(config)'
    BY <2>3, RoutedTwice
  <2>5. QED
    BY <2>1, <2>4 DEF Routed
<1>4. ~ Storing(task'[t].todo)
  <2>1. CASE task'[t].todo # << >> /\ Piece(task'[t].todo)
    <3>1. PICK todo \in Seq(AnyStep) : todo = task'[t].todo
      BY <2>1 DEF Piece
    <3>2. Len(todo) \in Nat \ {0}
      BY <2>1, <3>1, LenProperties, EmptySeq
    <3>3. 1 \in 1 .. Len(todo) /\ ~ (1 > 1)
      BY <3>2
    <3>4. QED
      BY <2>1, <3>1, <3>3 DEF Piece, Begins, Storing
  <2>2. QED
    BY <2>1 DEF Storing
<1>5. ASSUME NEW u \in Everyone, Storing(task'[u].todo) PROVE usb' = Routed(task[u].todo[1].config)'
  <2>1. PICK config : config = task[u].todo[1].config
    OBVIOUS
  <2>2. u # t /\ task'[u] = task[u] /\ Storing(task[u].todo)
    BY <1>4, <1>5
  <2>3. task[u].todo \in Seq(AnyStep)
    BY DEF Shape, TaskState
  <2>4. ~ UsbOf(task[t].todo)
    BY <2>2, <2>3, StoringRoutes DEF UsbRight
  <2>5. usb' = Routed(config)
    BY <2>1, <2>2, <2>4 DEF UsbRight
  <2>6. usb' = Routed(config)'
    BY <2>5, RoutedTwice
  <2>7. QED
    BY <2>1, <2>2, <2>6 DEF Routed
<1>6. QED
  <2>1. (\A u \in Everyone : \A w \in Everyone : UsbOf(task[u].todo) /\ UsbOf(task[w].todo) => u = w)'
    BY <1>2 DEF UsbOf
  <2>2. ((\A u \in Everyone : ~ UsbOf(task[u].todo)) => usb = Routed(store.config))'
    BY <1>3 DEF UsbOf
  <2>3. (\A u \in Everyone : Storing(task[u].todo) => usb = Routed(task[u].todo[1].config))'
    BY <1>5 DEF Storing
  <2>4. QED
    BY <1>1, <2>1, <2>2, <2>3 DEF UsbRight

\* A request that failed has its restore put the switch back, or is noted.
LEMMA FailKeepsUsb ==
    ASSUME Shape, UndoInv, RestInv, UsbInv, NEW t \in Everyone, Given_up(t)
    PROVE  UsbInv'
<1> SUFFICES ASSUME ~ usb_apart' PROVE UsbRight'
  BY DEF UsbInv
<1>1. up /\ ~ usb_apart /\ (UsbOf(task[t].todo) => UsbOf(task[t].undo))
  BY DEF RestInv, Given_up
<1>2. UsbRight
  BY <1>1 DEF UsbInv
<1>3. task'[t].todo = task[t].undo /\ task[t].todo \in Seq(AnyStep) /\ task[t].todo # << >>
  BY DEF Given_up, Shape, TaskState
<1>4. /\ Piece(task[t].undo) \/ task[t].undo = << >>
      /\ UsbOrderly(task[t].undo)
  <2>1. CASE task[t].undo = << >>
    BY <2>1, EmptyIsAPiece
  <2>2. CASE task[t].undo # << >>
    <3>1. PutsBack(task[t].undo, task[t].flash)
      BY <2>2, Restoring DEF UndoInv
    <3>2. Without(task[t].undo, {"set_config"}) /\ Len(task[t].undo) \in Nat
      BY <3>1, LenProperties DEF PutsBack, Without, Piece
    <3>3. QED
      BY <3>1, <3>2, WithoutRouting DEF PutsBack
  <2>3. QED
    BY <2>1, <2>2
<1>5. UsbOf(task[t].undo) => UsbOf(task[t].todo)
  <2>1. CASE task[t].undo = << >>
    BY <2>1, EmptyPowers
  <2>2. CASE task[t].undo # << >>
    <3>1. Len(task[t].todo) > 0 /\ task[t].todo[Len(task[t].todo)].do \in Routing
      BY <2>2 DEF UndoInv, Routing
    <3>2. Len(task[t].todo) \in 1 .. Len(task[t].todo)
      BY <1>3, <3>1, LenProperties
    <3>3. QED
      BY <1>3, <3>1, <3>2, UsbOfSteps DEF Without
  <2>3. QED
    BY <2>1, <2>2
<1>6. usb' = usb \/ UsbOf(task[t].todo)
  <2>1. step(t).do = "pins" => UsbOf(task[t].todo)
    BY <1>3, TheStep, UsbOfSteps DEF Without, Routing
  <2>2. QED
    BY <2>1 DEF Given_up
<1>7. store' = store /\ \A u \in Everyone \ {t} : task'[u] = task[u]
  BY DEF Given_up
<1>8. QED
  BY <1>1, <1>2, <1>3, <1>4, <1>5, <1>6, <1>7, AnotherKeepsUsb

\* A request that routes while another does is noted.
LEMMA AskedKeepsUsb ==
    ASSUME Shape, UsbInv, NEW t \in Tasks, NEW r \in Requests, Asked(t, r)
    PROVE  UsbInv'
<1> SUFFICES ASSUME ~ usb_apart' PROVE UsbRight'
  BY DEF UsbInv
<1>1. /\ up /\ ~ usb_apart /\ r.op # "msd" /\ t \in Everyone
      /\ UsbOf(Program(r)) => \A u \in Tasks \ {t} : ~ UsbOf(task[u].todo)
  BY DEF Asked, Everyone
<1>2. UsbRight
  BY <1>1 DEF UsbInv
<1>3. /\ task'[t].todo = Program(r) /\ task[t].todo = << >> /\ task["start"].todo = << >>
      /\ store' = store /\ usb' = usb /\ \A u \in Everyone \ {t} : task'[u] = task[u]
  BY DEF Asked
<1>4. Piece(Program(r)) /\ UsbOrderly(Program(r))
  BY <1>1, ProgramDoes
<1>5. ~ UsbOf(task[t].todo) /\ ~ UsbOf(task["start"].todo)
  BY <1>3, EmptyPowers
<1>6. UsbOf(Program(r)) => \A u \in Everyone : ~ UsbOf(task[u].todo)
  BY <1>1, <1>5 DEF Everyone
<1> HIDE DEF Program
<1>7. QED
  BY <1>1, <1>2, <1>3, <1>4, <1>5, <1>6, AnotherKeepsUsb

(***************************************************************************)
(* The start.                                                              *)
(***************************************************************************)
\* While the daemon starts, the lines it will set take no node from those
\* that are on, but for those it could not read.
StartRight(todo, on) ==
    /\ Without(todo, {"toggle"})
    /\ \E nodes : on \subseteq nodes /\ \A i \in 1 .. Len(todo) : todo[i].do = "enable" => (todo[i].on <=> todo[i].node \in nodes)
StartInv == StartRight(task["start"].todo, enable \ misread)

\* A start that is over takes no node.
LEMMA NothingToStart == \A on : StartRight(<< >>, on)
<1>1. Len(<< >>) = 0 /\ 1 .. 0 = {}
  BY EmptySeq
<1>2. QED
  BY <1>1 DEF StartRight, Without

\* The steps of a start take no node from those that are on.
LEMMA StepKeepsStart ==
    ASSUME Shape, OrderInv, RestInv, StartInv, NEW t \in Everyone, Step(t)
    PROVE  StartInv' /\ (task["start"].todo # << >> => enable \subseteq enable' \cup misread)
<1>1. task[t].todo # << >> /\ Touches(t)
  BY EveryStep
<1>2. PICK r : Onward(t, r)
  BY EveryStep
<1>3. task'[t] = r /\ (\A u \in Everyone \ {t} : task'[u] = task[u]) /\ "start" \in Everyone
  BY <1>1, <1>2, GoesInOrder DEF Everyone
<1>4. CASE t # "start"
  <2>1. task["start"].todo = << >> /\ task'["start"] = task["start"]
    BY <1>1, <1>3, <1>4 DEF RestInv, Everyone
  <2>2. PICK on : on = enable' \ misread'
    OBVIOUS
  <2>3. StartRight(<< >>, on)
    BY NothingToStart
  <2>4. task'["start"].todo = << >>
    BY <2>1
  <2>5. QED
    BY <2>1, <2>2, <2>3, <2>4 DEF StartInv, StartRight, Without
<1>5. CASE t = "start"
  <2> DEFINE todo == task[t].todo
             x == step(t)
  <2>1. todo \in Seq(AnyStep) /\ todo # << >> /\ x = todo[1] /\ 1 \in 1 .. Len(todo)
    BY <1>1, TheStep
  <2>2. /\ x.do \notin Opening => r.todo = Tail(todo)
        /\ x.do = "get_config" => r.todo = configure_usb(store.config)
        /\ x.do \in {"toggle", "startup_power_state"} =>
              \E nodes \in SUBSET Nodes :
                 r.todo = activate_slot(nodes, Nodes) /\ (x.do = "startup_power_state" => enable \subseteq nodes \cup misread')
    BY <1>1, <1>2, GoesInOrder
  <2>3. /\ enable' = IF x.do = "enable" THEN Switched(enable, x) ELSE enable
        /\ x.do # "startup_power_state" => misread' = misread
    BY <1>1 DEF Touches
  <2>4. StartRight(todo, enable \ misread)
    BY <1>5 DEF StartInv
  <2> HIDE DEF todo, x
  <2>5. PICK on : on = enable' \ misread'
    OBVIOUS
  <2>6. CASE x.do \notin Opening
    <3>1. PICK nodes : /\ enable \ misread \subseteq nodes
                       /\ \A i \in 1 .. Len(todo) : todo[i].do = "enable" => (todo[i].on <=> todo[i].node \in nodes)
      BY <2>4 DEF StartRight
    <3>2. on \subseteq nodes /\ enable \subseteq enable' \cup misread
      BY <2>1, <2>3, <2>5, <2>6, <3>1 DEF Switched, Opening
    <3>3. \A i \in 1 .. Len(r.todo) : i + 1 \in 1 .. Len(todo) /\ r.todo[i] = todo[i + 1]
      BY <2>1, <2>2, <2>6, LastTail
    <3>4. Without(r.todo, {"toggle"})
      BY <2>4, <3>3 DEF StartRight, Without
    <3>5. StartRight(r.todo, on)
      BY <3>1, <3>2, <3>3, <3>4 DEF StartRight
    <3>6. QED
      BY <1>3, <1>5, <2>5, <3>2, <3>5 DEF StartInv, StartRight, Without
  <2>7. CASE x.do = "get_config"
    <3>1. PICK made : made = configure_usb(store.config)
      OBVIOUS
    <3>2. Len(made) = 2 /\ made[1].do = "pins" /\ made[2].do = "set_config"
      BY <3>1, ConfiguringUsb DEF Shape, Kept
    <3>3. \A i \in 1 .. 2 : i = 1 \/ i = 2
      OBVIOUS
    <3>4. StartRight(made, on)
      BY <3>2, <3>3 DEF StartRight, Without
    <3>5. enable' = enable /\ made = r.todo
      BY <2>2, <2>3, <2>5, <2>7, <3>1
    <3>6. QED
      BY <1>3, <1>5, <2>5, <3>4, <3>5 DEF StartInv, StartRight, Without
  <2>8. CASE x.do \in {"toggle", "startup_power_state"}
    <3>1. x.do # "toggle"
      BY <2>1, <2>4 DEF StartRight, Without
    <3>2. PICK nodes \in SUBSET Nodes : r.todo = activate_slot(nodes, Nodes) /\ enable \subseteq nodes \cup misread'
      BY <2>2, <2>8, <3>1
    <3>3. PICK made : made = activate_slot(nodes, Nodes)
      OBVIOUS
    <3>4. Switches(made, nodes, Nodes)
      <4>1. Nodes \in SUBSET Nodes
        OBVIOUS
      <4>2. QED
        BY <3>3, <4>1, ActivatingNodes
    <3>5. enable' = enable /\ made = r.todo /\ on \subseteq nodes
      BY <2>3, <2>5, <2>8, <3>2, <3>3
    <3>6. StartRight(made, on)
      BY <3>2, <3>4, <3>5 DEF Switches, StartRight, Without, Opening
    <3>7. QED
      BY <1>3, <1>5, <2>5, <3>5, <3>6 DEF StartInv, StartRight, Without
  <2>9. QED
    BY <2>6, <2>7, <2>8 DEF Opening
<1>6. QED
  BY <1>4, <1>5

\* What is not of the start keeps it.
LEMMA AnotherKeepsStart ==
    ASSUME StartInv, task'["start"].todo = task["start"].todo \/ task'["start"].todo = << >>,
           enable' = enable, misread' = misread
    PROVE  StartInv'
<1>1. StartRight(task'["start"].todo, enable \ misread)
  BY NothingToStart DEF StartInv
<1>2. QED
  BY <1>1 DEF StartInv, StartRight, Without

NodeInv ==
    /\ Shape /\ OrderInv /\ UndoInv /\ RestInv /\ CrossInv
    /\ PowerInv /\ TimesInv /\ UsbInv /\ StartInv

\* Nothing is under way.
LEMMA NobodyKeeps ==
    ASSUME Shape', task' = Nobody, ~ up'
    PROVE  NodeInv'
<1>1. \A t \in Everyone : task'[t] = Idle
  BY DEF Nobody, Everyone
<1>2. \A t \in Everyone : task'[t].todo = << >> /\ task'[t].undo = << >>
  BY <1>1 DEF Idle
<1>3. OrderInv'
  <2>1. \A t \in Everyone : Orderly(task'[t].todo)
    BY <1>2, EmptySpares
  <2>2. QED
    BY <2>1 DEF OrderInv, Orderly, InPlace
<1>4. UndoInv' /\ RestInv'
  BY <1>2 DEF UndoInv, RestInv, Everyone
<1>5. CrossInv'
  <2>1. \A node \in Nodes : \A t \in Everyone : node \notin WorksOn(t)'
    BY <1>2, WorkIsTodoThen, EmptySpares
  <2>2. QED
    BY <2>1 DEF CrossInv
<1>6. PowerInv' /\ TimesInv' /\ UsbInv'
  BY DEF PowerInv, TimesInv, UsbInv
<1>7. StartInv'
  <2>1. StartRight(task'["start"].todo, enable' \ misread')
    BY <1>2, NothingToStart DEF Everyone
  <2>2. QED
    BY <2>1 DEF StartInv, StartRight, Without
<1>8. QED
  BY <1>3, <1>4, <1>5, <1>6, <1>7 DEF NodeInv

\* Nothing is under way, and the daemon is down: at first.
LEMMA NobodyIsIdle ==
    ASSUME Shape, task = Nobody, ~ up
    PROVE  NodeInv
<1>1. \A t \in Everyone : task[t] = Idle
  BY DEF Nobody, Everyone
<1>2. \A t \in Everyone : task[t].todo = << >> /\ task[t].undo = << >>
  BY <1>1 DEF Idle
<1>3. OrderInv
  BY <1>2, EmptySpares DEF OrderInv
<1>4. UndoInv /\ RestInv
  BY <1>2 DEF UndoInv, RestInv, Everyone
<1>5. CrossInv
  BY <1>2, WorkIsTodo, EmptySpares DEF CrossInv
<1>6. PowerInv /\ TimesInv /\ UsbInv
  BY DEF PowerInv, TimesInv, UsbInv
<1>7. StartInv
  BY <1>2, NothingToStart DEF StartInv, Everyone
<1>8. QED
  BY <1>3, <1>4, <1>5, <1>6, <1>7 DEF NodeInv

\* The invariant holds at first.
LEMMA InitIsRight == Init => NodeInv
<1> SUFFICES ASSUME Init PROVE NodeInv
  OBVIOUS
<1>1. PICK on \in SUBSET Nodes :
         disk = [activated |-> on, since |-> on,
                 config |-> [node |-> 1, mode |-> "Device", route |-> "AlternativePort"]]
  BY DEF Init
<1>2. 1 \in Nodes
  BY BoardAssumption
<1>3. disk \in Kept
  BY <1>1, <1>2 DEF Kept, UsbConfig
<1>4. Idle \in TaskState
  <2>1. << >> \in Seq(AnyStep)
    OBVIOUS
  <2>2. QED
    BY <2>1 DEF Idle, TaskState
<1>5. Shape
  BY <1>2, <1>3, <1>4 DEF Init, Shape, Nobody, Everyone
<1>6. QED
  BY <1>5, NobodyIsIdle DEF Init

\* What the daemon does when it starts.
LEMMA InitializeDoes ==
    ASSUME Shape
    PROVE  /\ initialize \in Seq(AnyStep) /\ Piece(initialize) /\ UsbOrderly(initialize)
           /\ UsbOf(initialize) /\ ~ Storing(initialize) /\ Expands(initialize)
           /\ initialize # << >> /\ \A on : StartRight(initialize, on)
<1> DEFINE one == configure_usb(disk.config)
           two == << [do |-> "startup_power_state"] >>
<1>1. disk.config \in UsbConfig
  BY DEF Shape, Kept
<1>2. /\ Piece(one) /\ one \in Seq(AnyStep) /\ Len(one) = 2
      /\ one[1].do = "pins" /\ one[2].do = "set_config" /\ one[1].config = one[2].config
  BY <1>1, ConfiguringUsb DEF Piece
<1>3. Piece(two) /\ two \in Seq(AnyStep) /\ Len(two) = 1 /\ two[1].do = "startup_power_state"
  <2>1. [do |-> "startup_power_state"] \in AnyStep
    BY DEF AnyStep
  <2>2. QED
    BY <2>1, OneStep
<1>4. PICK both : both = initialize
  OBVIOUS
<1>5. both = one \o two
  BY <1>4 DEF initialize
<1> HIDE DEF one, two
<1>6. IsBoth(both, one, two)
  BY <1>2, <1>3, <1>5, StepsOfBoth
<1>7. 1 \in 1 .. 2 /\ 2 \in 1 .. 2 /\ 1 \in 1 .. 1 /\ 2 + 1 = 3
  OBVIOUS
<1>8. /\ both \in Seq(AnyStep) /\ Len(both) = 3
      /\ both[1].do = "pins" /\ both[2].do = "set_config" /\ both[1].config = both[2].config
      /\ both[3].do = "startup_power_state"
  BY <1>2, <1>3, <1>6, <1>7 DEF IsBoth
<1>9. \A i \in 1 .. 3 : i = 1 \/ i = 2 \/ i = 3
  OBVIOUS
<1>10. Piece(both)
  <2>1. Without(one, Opening)
    <3>1. \A i \in 1 .. 2 : i = 1 \/ i = 2
      OBVIOUS
    <3>2. QED
      BY <1>2, <3>1 DEF Without, Opening
  <2>2. QED
    BY <1>2, <1>3, <1>5, <2>1, PieceOfBoth
<1>11. UsbOrderly(both)
  BY <1>8, <1>9 DEF UsbOrderly, UsbInPlace
<1>12. UsbOf(both) /\ Expands(both)
  <2>1. 1 \in 1 .. 3 /\ 3 \in 1 .. 3
    OBVIOUS
  <2>2. ~ Without(both, Routing) /\ Expands(both)
    BY <1>8, <2>1 DEF Without, Routing, Expands
  <2>3. QED
    BY <1>8, <2>2, UsbOfSteps
<1>13. ~ Storing(both) /\ both # << >>
  <2>1. ~ Storing(both)
    BY <1>8 DEF Storing
  <2>2. Len(both) # 0
    BY <1>8
  <2>3. both # << >>
    BY <1>8, <2>2, EmptySeq
  <2>4. QED
    BY <2>1, <2>3
<1>14. \A on : StartRight(both, on)
  BY <1>8, <1>9 DEF StartRight, Without
<1>15. QED
  BY <1>4, <1>8, <1>10, <1>11, <1>12, <1>13, <1>14

\* The start of the daemon: it works on every node.
LEMMA StartIsRight ==
    ASSUME Shape, Start
    PROVE  NodeInv'
<1>1. PICK todo : todo = initialize
  OBVIOUS
<1>2. /\ todo \in Seq(AnyStep) /\ Piece(todo) /\ UsbOrderly(todo)
      /\ UsbOf(todo) /\ ~ Storing(todo) /\ Expands(todo) /\ todo # << >> /\ \A on : StartRight(todo, on)
  BY <1>1, InitializeDoes
<1>3. "start" \in Everyone /\ "start" \notin Tasks
  BY BoardAssumption DEF Everyone
<1>4. /\ task'["start"] = [Idle EXCEPT !.todo = todo]
      /\ (\A t \in Everyone \ {"start"} : task'[t] = Idle)
      /\ task' = [Nobody EXCEPT !["start"] = [Idle EXCEPT !.todo = todo]]
  BY <1>1, <1>3 DEF Start, Nobody, Everyone
<1>5. /\ task'["start"].todo = todo /\ task'["start"].undo = << >> /\ task'["start"].flash = Off
      /\ \A t \in Everyone \ {"start"} : task'[t].todo = << >> /\ task'[t].undo = << >>
  BY <1>4 DEF Idle
<1>6. Shape'
  <2>1. Idle \in TaskState /\ [Idle EXCEPT !.todo = todo] \in TaskState
    <3>1. << >> \in Seq(AnyStep)
      OBVIOUS
    <3>2. QED
      BY <1>2, <3>1 DEF Idle, TaskState
  <2>2. task' \in [Everyone -> TaskState]
    BY <1>4, <2>1 DEF Nobody, Everyone
  <2>3. QED
    BY <2>2 DEF Shape, Start, hardware
<1>7. \A t \in Everyone : Piece(task'[t].todo) /\ Orderly(task'[t].todo) /\ UsbOrderly(task'[t].todo)
  BY <1>2, <1>5, EmptyIsAPiece DEF Piece
<1>8. OrderInv'
  BY <1>7 DEF OrderInv, Orderly, InPlace
<1>9. UndoInv' /\ RestInv'
  BY <1>3, <1>5 DEF UndoInv, RestInv, Everyone, Start
<1>10. ASSUME NEW node \in Nodes, NEW t \in Everyone PROVE node \in WorksOn(t)' <=> t = "start"
  BY <1>2, <1>5, <1>6, WorkIsTodoThen, EmptySpares
<1>11. CrossInv'
  BY <1>10 DEF CrossInv
<1>12. PowerInv'
  <2>1. ASSUME NEW node \in Nodes PROVE Settles("start", node)'
    <3>1. node # Off
      BY BoardAssumption DEF Off
    <3>2. Expands(task["start"].todo)'
      BY <1>2, <1>5 DEF Expands, Without
    <3>3. QED
      BY <1>5, <3>1, <3>2 DEF Settles
  <2>2. ASSUME NEW node \in Nodes PROVE Well(node)'
    BY <1>3, <1>10, <2>1 DEF Well
  <2>3. QED
    BY <2>2 DEF PowerInv, Well
<1>13. TimesInv'
  <2>1. ASSUME NEW node \in Nodes, node \notin torn' PROVE Timed(node)'
    <3>1. node \in store'.since <=> node \in store'.activated
      BY <2>1 DEF Start, Differ
    <3>2. \A t \in Everyone : ~ Pending(task'[t].todo, node) /\ ~ Updating(task'[t].todo, node) /\ ~ Reading(task'[t].todo, node)
      BY <1>7, BeginsQuietly
    <3>3. QED
      BY <3>1, <3>2 DEF Timed, Pending, Updating, Reading
  <2>2. QED
    BY <2>1 DEF TimesInv
<1>14. UsbInv'
  <2>1. (\A t \in Everyone : UsbOrderly(task[t].todo))'
    BY <1>7 DEF UsbOrderly, UsbInPlace
  <2>2. \A t \in Everyone : (UsbOf(task'[t].todo) <=> t = "start") /\ ~ Storing(task'[t].todo)
    BY <1>2, <1>5, EmptyPowers DEF Storing
  <2>3. (\A t \in Everyone : \A u \in Everyone : UsbOf(task[t].todo) /\ UsbOf(task[u].todo) => t = u)'
    BY <2>2 DEF UsbOf
  <2>4. ((\A t \in Everyone : ~ UsbOf(task[t].todo)) => usb = Routed(store.config))'
    BY <1>3, <2>2 DEF UsbOf
  <2>5. (\A t \in Everyone : Storing(task[t].todo) => usb = Routed(task[t].todo[1].config))'
    BY <2>2 DEF Storing
  <2>6. QED
    BY <2>1, <2>3, <2>4, <2>5 DEF UsbInv, UsbRight
<1>15. StartInv'
  <2>1. PICK on : on = enable' \ misread'
    OBVIOUS
  <2>2. StartRight(todo, on)
    BY <1>2
  <2>3. QED
    BY <1>5, <2>1, <2>2 DEF StartInv, StartRight, Without
<1>16. QED
  BY <1>6, <1>8, <1>9, <1>11, <1>12, <1>13, <1>14, <1>15 DEF NodeInv

\* The store reaches the file, or nothing happens.
LEMMA NothingKeeps ==
    ASSUME NodeInv, UNCHANGED <<up, store, mode, enable, usb, task, apart, torn, usb_apart, misread>>,
           disk' \in {disk, store}
    PROVE  NodeInv'
<1>1. Shape'
  BY DEF NodeInv, Shape
<1>2. OrderInv' /\ UndoInv' /\ RestInv'
  <2>1. OrderInv'
    BY DEF NodeInv, OrderInv, Orderly, InPlace
  <2>2. UndoInv' /\ RestInv'
    BY DEF NodeInv, UndoInv, RestInv
  <2>3. QED
    BY <2>1, <2>2
<1>3. \A t : WorksOn(t)' = WorksOn(t)
  BY DEF WorksOn, PowerOf, Powers
<1>4. CrossInv'
  BY <1>3 DEF NodeInv, CrossInv
<1>5. \A node : Alike(node) => Alike(node)'
  BY DEF Alike, Now
<1>6. ASSUME NEW t \in Everyone, NEW node, Settles(t, node) PROVE Settles(t, node)'
  <2>1. \A a \in Aspect : Now(node, a)' = Now(node, a)
    BY DEF Now
  <2>2. task'[t] = task[t]
    OBVIOUS
  <2>3. QED
    BY <1>6, <2>1, <2>2, OthersStillSettle
<1>7. PowerInv'
  <2>1. ASSUME NEW node \in Nodes, Well(node) PROVE Well(node)'
    BY <1>3, <1>5, <1>6, <2>1 DEF Well
  <2>2. QED
    BY <2>1 DEF NodeInv, PowerInv, Well
<1>8. TimesInv'
  BY DEF NodeInv, TimesInv, Timed, Pending, Updating, Reading
<1>9. UsbInv'
  BY DEF NodeInv, UsbInv, UsbRight, UsbOrderly, UsbInPlace, UsbOf, Storing, Routed
<1>10. StartInv'
  BY DEF NodeInv, StartInv, StartRight, Without
<1>11. QED
  BY <1>1, <1>2, <1>4, <1>7, <1>8, <1>9, <1>10 DEF NodeInv

(***************************************************************************)
(* Every step of the program keeps the invariant.                          *)
(***************************************************************************)
LEMMA StepKeepsNodeInv ==
    ASSUME NodeInv, NEW t \in Everyone, Step(t)
    PROVE  NodeInv'
<1> USE DEF NodeInv
<1>1. Shape' /\ OrderInv' /\ UndoInv' /\ RestInv'
  BY StepKeepsShape
<1>2. CrossInv' /\ PowerInv'
  BY <1>1, StepKeepsCross, StepKeepsPower
<1>3. TimesInv' /\ UsbInv' /\ StartInv'
  BY StepKeepsTimes, StepKeepsUsb, StepKeepsStart
<1>4. QED
  BY <1>1, <1>2, <1>3

\* Every failing step.
LEMMA FailKeepsNodeInv ==
    ASSUME NodeInv, NEW t \in Everyone, Fails(t)
    PROVE  NodeInv'
<1> USE DEF NodeInv
<1>1. Given_up(t) /\ Shape' /\ OrderInv' /\ UndoInv' /\ RestInv'
  BY FailGivesUp
<1>2. CrossInv' /\ PowerInv' /\ UsbInv'
  BY <1>1, FailKeepsCross, FailKeepsPower, FailKeepsUsb
<1>3. up /\ task'[t].todo = task[t].undo /\ (Piece(task'[t].todo) \/ task'[t].todo = << >>)
  <2>1. task[t].undo # << >> => Piece(task[t].undo)
    BY Restoring DEF UndoInv, PutsBack
  <2>2. up /\ task'[t].todo = task[t].undo
    BY <1>1 DEF RestInv, Given_up
  <2>3. QED
    BY <2>1, <2>2
<1>4. TimesInv'
  <2>1. step(t) = task[t].todo[1]
    BY <1>1, TheStep DEF Given_up
  <2>2. /\ store' = store /\ torn \subseteq torn' /\ step(t).do \in {"driver", "set_mode", "enable", "pins", "usb_boot"}
        /\ \A u \in Everyone \ {t} : task'[u] = task[u]
    BY <1>1 DEF Given_up
  <2>3. QED
    BY <1>3, <2>1, <2>2, AnotherKeepsTimes
<1>5. StartInv'
  <2>1. task'["start"].todo = task["start"].todo \/ task'["start"].todo = << >>
    BY <1>1, <1>3 DEF Given_up, RestInv, Everyone
  <2>2. QED
    BY <1>1, <2>1, AnotherKeepsStart DEF Given_up
<1>6. QED
  BY <1>1, <1>2, <1>4, <1>5

\* Every request that arrives.
LEMMA RequestKeepsNodeInv ==
    ASSUME NodeInv, NEW t \in Tasks, NEW r \in Requests, Request(t, r)
    PROVE  NodeInv'
<1> USE DEF NodeInv
<1>1. Asked(t, r) /\ Shape' /\ OrderInv' /\ UndoInv' /\ RestInv' /\ t \in Everyone /\ t # "start"
  BY RequestAsks, BoardAssumption DEF Everyone
<1>2. CrossInv' /\ PowerInv' /\ UsbInv'
  BY <1>1, AskedKeepsCross, AskedKeepsPower, AskedKeepsUsb
<1>3. TimesInv'
  <2>1. Piece(Program(r))
    BY ProgramDoes
  <2>2. /\ up /\ store' = store /\ torn \subseteq torn' /\ task[t].todo = << >> /\ task'[t].todo = Program(r)
        /\ \A u \in Everyone \ {t} : task'[u] = task[u]
    BY <1>1 DEF Asked
  <2> HIDE DEF Program
  <2>3. QED
    BY <1>1, <2>1, <2>2, AnotherKeepsTimes
<1>4. StartInv'
  <2>1. task'["start"] = task["start"] /\ enable' = enable /\ misread' = misread
    BY <1>1 DEF Asked, Everyone
  <2>2. QED
    BY <2>1, AnotherKeepsStart
<1>5. QED
  BY <1>1, <1>2, <1>3, <1>4

\* The end of the daemon and of the power.
LEMMA EndKeepsNodeInv ==
    ASSUME NodeInv, Exit \/ PowerCycle
    PROVE  NodeInv'
<1>1. task' = Nobody /\ up' = FALSE /\ store' = disk /\ disk' = disk
  BY DEF Exit, PowerCycle, MemoryIsGone
<1>2. mode' \in SUBSET Nodes /\ enable' \in SUBSET Nodes /\ usb' \in UsbRecord
  <2>1. mode \in SUBSET Nodes /\ enable \in SUBSET Nodes /\ usb \in UsbRecord
    BY DEF NodeInv, Shape, UsbRecord
  <2>2. CASE Exit
    BY <2>1, <2>2 DEF Exit
  <2>3. CASE PowerCycle
    BY <2>3, BoardAssumption DEF UsbRecord, PowerCycle, NoPower
  <2>4. QED
    BY <2>2, <2>3
<1>3. Idle \in TaskState
  <2>1. << >> \in Seq(AnyStep)
    OBVIOUS
  <2>2. QED
    BY <2>1 DEF Idle, TaskState
<1>4. Shape'
  BY <1>1, <1>2, <1>3 DEF NodeInv, Shape, Nobody, Everyone, UsbRecord
<1>5. QED
  BY <1>1, <1>4, NobodyKeeps

\* Every step of the specification.
LEMMA NextKeepsNodeInv == NodeInv /\ [Next]_vars => NodeInv'
<1> SUFFICES ASSUME NodeInv, [Next]_vars PROVE NodeInv'
  OBVIOUS
<1>1. CASE Start
  BY <1>1, StartIsRight DEF NodeInv
<1>2. CASE \E t \in Tasks, r \in Requests : Request(t, r)
  BY <1>2, RequestKeepsNodeInv
<1>3. CASE \E t \in Tasks \cup {"start"} : Step(t) \/ Fails(t)
  BY <1>3, StepKeepsNodeInv, FailKeepsNodeInv DEF Everyone
<1>4. CASE Flush
  BY <1>4, NothingKeeps DEF Flush, hardware
<1>5. CASE Exit \/ PowerCycle
  BY <1>5, EndKeepsNodeInv
<1>6. CASE UNCHANGED vars
  BY <1>6, NothingKeeps DEF vars, hardware
<1>7. QED
  BY <1>1, <1>2, <1>3, <1>4, <1>5, <1>6 DEF Next

\* The invariant holds always.
LEMMA TheInvariant == Spec => []NodeInv
  BY InitIsRight, NextKeepsNodeInv, PTL DEF Spec

(***************************************************************************)
(* The properties.                                                         *)
(***************************************************************************)
LEMMA RightIsAsStored == NodeInv => NodesAreAsStored
<1> SUFFICES ASSUME NodeInv PROVE NodesAreAsStored
  OBVIOUS
<1>1. DOMAIN task = Everyone
  BY DEF NodeInv, Shape
<1>2. StoreTellsThePower
  <2> SUFFICES ASSUME Ready, NEW n \in Nodes \ apart, Settled(n)
               PROVE  (n \in store.activated <=> n \in enable) /\ (n \in enable <=> n \in mode)
    BY DEF StoreTellsThePower
  <2>1. \A t \in Everyone : n \notin WorksOn(t)
    BY <1>1 DEF Settled
  <2>2. Alike(n)
    BY <2>1 DEF NodeInv, PowerInv, Ready
  <2>3. Now(n, "stored") = Now(n, "mode") /\ Now(n, "mode") = Now(n, "enabled")
    BY <2>2 DEF Alike, Aspect
  <2>4. QED
    BY <2>3 DEF Now, As
<1>3. TimesTellTheStore
  <2> SUFFICES ASSUME Ready, NEW n \in Nodes \ torn, Settled(n)
               PROVE  n \in store.since <=> n \in store.activated
    BY DEF TimesTellTheStore
  <2>1. Timed(n)
    BY DEF NodeInv, TimesInv, Ready
  <2>2. \A t \in Everyone : ~ Pending(task[t].todo, n)
    BY <1>1, WritersWork DEF NodeInv, Settled
  <2>3. QED
    BY <2>1, <2>2 DEF Timed
<1>4. UsbFollowsTheStore
  <2> SUFFICES ASSUME Ready, ~ usb_apart, \A t \in Tasks : ~ UsbOf(task[t].todo)
               PROVE  usb = Routed(store.config)
    BY DEF UsbFollowsTheStore
  <2>1. \A t \in Everyone : ~ UsbOf(task[t].todo)
    BY EmptyPowers DEF Everyone, Ready
  <2>2. QED
    BY <2>1 DEF NodeInv, UsbInv, UsbRight, Ready
<1>5. QED
  BY <1>2, <1>3, <1>4 DEF NodesAreAsStored

\* Whatever requests cross, however flashes fail and wherever the daemon ends,
\* on any number of nodes: what the store says of the power of a node that no
\* request works on, since when, and of the route of the USB switch, is so
\* (activate_slot, update_power_on_times, configure_usb, flash_node's restore),
\* except where two requests crossed, a line failed or a reset powered a node
\* that is stored as off.
THEOREM NodesStayAsStored == Spec => []NodesAreAsStored
  BY TheInvariant, RightIsAsStored, PTL

\* While the daemon starts no line falls that it could read.
LEMMA LeftAlone ==
    ASSUME NodeInv, [Next]_vars, up, ~ Ready, up'
    PROVE  enable \subseteq enable' \cup misread
<1>1. task["start"].todo # << >>
  BY DEF Ready
<1>2. CASE \E t \in Tasks \cup {"start"} : Step(t)
  BY <1>1, <1>2, StepKeepsStart DEF NodeInv, Everyone
<1>3. CASE \E t \in Tasks \cup {"start"} : Fails(t)
  BY <1>3 DEF Fails
<1>4. CASE Start \/ Exit \/ PowerCycle
  BY <1>4 DEF Start, Exit, PowerCycle, MemoryIsGone
<1>5. CASE (\E t \in Tasks, r \in Requests : Request(t, r)) \/ Flush \/ UNCHANGED vars
  BY <1>5 DEF Request, Flush, vars, hardware
<1>6. QED
  BY <1>2, <1>3, <1>4, <1>5 DEF Next

\* The last step of a flash.
LEMMA FlashEnds ==
    ASSUME NodeInv, NodeInv', NEW t \in Everyone, Step(t),
           task[t].flash # Off, task'[t].todo = << >>
    PROVE  \/ task[t].flash \in apart'
           \/ task[t].flash \notin enable' /\ task[t].flash \notin store'.activated
<1> SUFFICES ASSUME task[t].flash \notin apart'
             PROVE  task[t].flash \notin enable' /\ task[t].flash \notin store'.activated
  OBVIOUS
<1>1. task[t].todo # << >> /\ Touches(t)
  BY EveryStep DEF NodeInv
<1>2. PICK r : Onward(t, r)
  BY EveryStep DEF NodeInv
<1>3. PICK node \in Nodes : node = task[t].flash
  BY DEF NodeInv, Shape, TaskState
<1>4. up /\ node \notin apart /\ node \notin apart' /\ task'[t].flash = node
  BY <1>1, <1>2, <1>3 DEF NodeInv, RestInv, Touches, Onward, Shape
<1>5. Settles(t, node)
  <2>1. node \in WorksOn(t)
    BY <1>1, <1>3, WorkIsTodo DEF NodeInv
  <2>2. QED
    BY <1>4, <2>1 DEF NodeInv, PowerInv
<1>6. Settles(t, node)'
  BY <1>1, <1>2, <1>4, <1>5, StepSettles DEF NodeInv
<1>7. \A a \in Aspect : Now(node, a)' = "off"
  BY <1>4, <1>6, EmptySpares, SettledIsAlikeThen
<1>8. Now(node, "stored")' = "off" /\ Now(node, "enabled")' = "off"
  BY <1>7 DEF Aspect
<1>9. QED
  BY <1>3, <1>8 DEF Now, As

\* No other step ends a flash without its restore.
LEMMA FlashesEnd ==
    ASSUME NodeInv, NodeInv', [Next]_vars, NEW t \in Tasks,
           task[t].flash # Off, task[t].todo # << >>, task'[t].flash # Off, task'[t].todo = << >>
    PROVE  \/ task[t].flash \in apart'
           \/ task[t].flash \notin enable' /\ task[t].flash \notin store'.activated
<1>1. t \in Everyone /\ up
  BY DEF Everyone, NodeInv, RestInv
<1>2. CASE \E u \in Tasks \cup {"start"} : Step(u)
  <2>1. PICK u \in Everyone : Step(u)
    BY <1>2 DEF Everyone
  <2>2. CASE u = t
    BY <2>1, <2>2, FlashEnds
  <2>3. CASE u # t
    <3>1. PICK r : Onward(u, r)
      BY <2>1, EveryStep DEF NodeInv
    <3>2. task'[t] = task[t]
      BY <1>1, <2>3, <3>1 DEF Onward, NodeInv, Shape
    <3>3. QED
      BY <3>2
  <2>4. QED
    BY <2>2, <2>3
<1>3. CASE \E u \in Tasks \cup {"start"} : Fails(u)
  <2>1. PICK u \in Everyone : Given_up(u)
    BY <1>3, FailGivesUp DEF NodeInv, Everyone
  <2>2. \/ task'[t] = task[t]
        \/ /\ task[t].undo = << >> => task'[t].flash = Off
           /\ task'[t].todo = task[t].undo
    BY <1>1, <2>1 DEF Given_up
  <2>3. QED
    BY <2>2
<1>4. CASE \E u \in Tasks, r \in Requests : Request(u, r)
  <2>1. PICK u \in Tasks : task[u].todo = << >> /\ \A w \in Everyone \ {u} : task'[w] = task[w]
    BY <1>4, RequestAsks DEF NodeInv, Asked
  <2>2. u # t /\ task'[t] = task[t]
    BY <1>1, <2>1
  <2>3. QED
    BY <2>2
<1>5. CASE Exit \/ PowerCycle
  <2>1. task'[t] = Idle
    BY <1>1, <1>5 DEF Exit, PowerCycle, MemoryIsGone, Nobody, Everyone
  <2>2. QED
    BY <2>1 DEF Idle
<1>6. CASE Start \/ Flush \/ UNCHANGED vars
  BY <1>1, <1>6 DEF Start, Flush, vars
<1>7. QED
  BY <1>2, <1>3, <1>4, <1>5, <1>6 DEF Next

\* A start of the daemon on a running board takes power from no node, but for
\* those stored as off when the enable lines could not be read
\* (initialize_power), and a flash, however it ends, leaves its node off and
\* stored as off (flash_node), unless its restore fails or somebody else was
\* switching that node.
THEOREM PowerStaysAsPromised == Spec => PowerIsAsPromised
<1>1. NodeInv /\ [Next]_vars => (up /\ ~ Ready /\ up' => enable \subseteq enable' \cup misread)
  BY LeftAlone
<1>2. NodeInv /\ NodeInv' /\ [Next]_vars =>
        \A t \in Tasks :
          (task[t].flash # Off /\ task[t].todo # <<>> /\ task'[t].flash # Off /\ task'[t].todo = <<>>)
          => \/ task[t].flash \in apart'
             \/ task[t].flash \notin enable' /\ task[t].flash \notin store'.activated
  BY FlashesEnd
<1>3. Spec => RunningNodesAreLeftAlone
  BY <1>1, TheInvariant, PTL DEF Spec, RunningNodesAreLeftAlone
<1>4. Spec => FlashLeavesTheNodeOff
  BY <1>2, TheInvariant, PTL DEF Spec, FlashLeavesTheNodeOff
<1>5. QED
  BY <1>3, <1>4 DEF PowerIsAsPromised
=============================================================================
