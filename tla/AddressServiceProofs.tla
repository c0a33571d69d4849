------------------------ MODULE AddressServiceProofs ------------------------
(***************************************************************************)
(* What the address service guarantees for every set of documents, tokens, *)
(* windows, first files and edits.                                         *)
(*                                                                         *)
(*   KeepsTypes            under every fault;                              *)
(*   WritesOnlyConfirmed   when the clock does not pass a deadline in the  *)
(*                         middle of a confirmation;                       *)
(*   HandWorkStaysCopied   when an edit moves the file's stamp;            *)
(*   ReportsTheFile        likewise;                                       *)
(*   StaticKeepsItsResolvers                                               *)
(*                         when commands and the boot's write of           *)
(*                         /etc/resolv.conf succeed;                       *)
(*   LiveStaysProved and   when, besides, commands succeed, nobody edits   *)
(*   ImplementsPromise     the file and only a reboot ends the daemon.     *)
(***************************************************************************)
EXTENDS AddressService, TLAPS

(***************************************************************************)
(* Under every fault.                                                      *)
(***************************************************************************)

\* A confirmation proves the document its token was issued for, so a type of
\* `proved` rests on the token naming the pending change.
TokenNamesTheChange == pending # None => issued[pending.token] = pending.document
TypeInv == TypeOK /\ TokenNamesTheChange

\* Every file says a document or nothing that can be read.
LEMMA DocumentOfFile ==
    /\ \A content \in Content : content.doc \in Document \cup {None}
    /\ First \subseteq Content /\ Edits \subseteq Content
  BY DocumentAssumption DEF Content, Image

LEMMA InitTypeInv == Init => TypeInv
<1> SUFFICES ASSUME Init PROVE TypeInv
  OBVIOUS
<1>1. file \in Content /\ file.doc \in Document \cup {None}
  BY DocumentOfFile DEF Init
<1>2. resolv \in Document \cup {None}
  BY <1>1 DEF Init, boot_hook
<1>3. QED
  BY <1>1, <1>2, DocumentAssumption DEF Init, TypeInv, TypeOK, TokenNamesTheChange

\* What is read of a file is a file, what the daemon writes is one too, and the
\* document it takes to be running is a document.
LEMMA FilesTyped ==
    ASSUME TypeOK
    PROVE  /\ refresh \in Content
           /\ \A doc \in Document : Ours(doc) \in Content
           /\ load_with(file) \in Document
           /\ file.doc \in Document \cup {None}
<1>1. file.doc \in Document \cup {None}
  BY DocumentOfFile DEF TypeOK
<1>2. QED
  BY <1>1, DocumentAssumption DEF TypeOK, refresh, Ours, Content, load_with

LEMMA StepTypeInv == TypeInv /\ [Next]_vars => TypeInv'
<1> SUFFICES ASSUME TypeInv, [Next]_vars PROVE TypeInv'
  OBVIOUS
<1>t. TypeOK /\ TokenNamesTheChange
  BY DEF TypeInv
<1>f. /\ refresh \in Content
      /\ \A doc \in Document : Ours(doc) \in Content
      /\ load_with(file) \in Document
      /\ file.doc \in Document \cup {None}
  BY <1>t, FilesTyped
<1>n. None \notin Document /\ None \notin Pending /\ Dhcp \in Document
  BY DocumentAssumption, NoneAssumption
<1> USE <1>t, <1>n
<1> USE DEF TypeInv, TypeOK, TokenNamesTheChange, Pending, RevertRecord, memory, board
<1>1. CASE Start
  BY <1>1, <1>f DEF Start, repair
<1>2. CASE View
  BY <1>2, <1>f DEF View
<1>3. ASSUME NEW doc \in Document, NEW window \in Request, NEW replace \in BOOLEAN,
             Apply(doc, window, replace)
      PROVE  TypeInv'
  <2>1. PICK t \in Token :
          \/ /\ PutOn(doc)
             /\ pending' = [token |-> t, document |-> doc, snapshot |-> running,
                            window |-> window, age |-> 0]
             /\ running' = doc /\ last_revert' = None
             /\ issued' = [issued EXCEPT ![t] = doc]
          \/ /\ live' \in Document \cup {None} /\ resolv' \in Document \cup {None}
             /\ last_revert' = [reason |-> "ApplyFailed", document |-> doc]
             /\ UNCHANGED <<pending, running, issued>>
    BY <1>3 DEF Apply, apply, PutFails
  <2>2. /\ seen' \in Content /\ changed' \in BOOLEAN /\ window \in MIN_WINDOW .. MAX_WINDOW
        /\ UNCHANGED <<file_backup, up, file, copies, proved>>
    BY <1>3, <1>f DEF Apply, apply
  <2>3. live' \in Document \cup {None} /\ resolv' \in Document \cup {None}
    BY <2>1 DEF PutOn
  <2>4. CASE UNCHANGED <<pending, running, issued>>
             /\ last_revert' = [reason |-> "ApplyFailed", document |-> doc]
    BY <2>2, <2>3, <2>4
  <2>5. CASE /\ pending' = [token |-> t, document |-> doc, snapshot |-> running,
                            window |-> window, age |-> 0]
             /\ running' = doc /\ last_revert' = None
             /\ issued' = [issued EXCEPT ![t] = doc]
    BY <2>2, <2>3, <2>5
  <2>6. QED
    BY <2>1, <2>4, <2>5
<1>4. ASSUME NEW token \in Token, NEW peer \in {"loopback", "network"}, Confirm(token, peer)
      PROVE  TypeInv'
  <2>1. pending \in Pending /\ pending.document \in Document /\ issued[token] = pending.document
    BY <1>4 DEF Confirm, confirm, check_confirm
  <2> DEFINE copy == IF replaces_hand_written(refresh) THEN {file} ELSE {}
  <2>2. copies \cup copy \in SUBSET Content
    OBVIOUS
  <2>3. CASE /\ copies' = copies \cup copy
             /\ file' = Ours(pending.document) /\ seen' = Ours(pending.document)
             /\ changed' = FALSE
             /\ file_backup' = IF replaces_hand_written(refresh) THEN file ELSE file_backup
             /\ pending' = None /\ last_revert' = None
             /\ proved' = proved \cup {issued[token]}
    BY <1>4, <2>1, <2>2, <2>3, <1>f DEF Confirm, confirm
  <2>4. CASE /\ seen' = refresh /\ changed' = FALSE
             /\ UNCHANGED <<pending, last_revert, file_backup, file, copies, proved>>
    BY <1>4, <2>4, <1>f DEF Confirm, confirm
  <2>5. CASE /\ copies' = copies \cup copy
             /\ file' = Ours(pending.document) /\ seen' = refresh /\ changed' = TRUE
             /\ pending' = [pending EXCEPT !.age = pending.window]
             /\ UNCHANGED <<last_revert, file_backup, proved>>
    <3>1. pending' \in Pending /\ pending'.token = pending.token
          /\ pending'.document = pending.document
      BY <2>1, <2>5, WindowAssumption
    <3>2. QED
      BY <1>4, <2>1, <2>2, <2>5, <3>1, <1>f DEF Confirm, confirm
  <2>6. QED
    BY <1>4, <2>3, <2>4, <2>5 DEF Confirm, confirm
<1>5. ASSUME pending # None, NEW reason \in {"NotConfirmed", "Requested"}, GoBack(reason)
      PROVE  TypeInv'
  BY <1>5 DEF GoBack, PutOn, PutFails
<1>6. CASE Revert \/ Tick
  BY <1>5, <1>6 DEF Revert, Tick
<1>7. CASE Lease
  BY <1>7 DEF Lease
<1>8. CASE Second \/ ClockStep
  BY <1>8, WindowAssumption DEF Second, ClockStep
<1>9. ASSUME NEW content \in Edits, Edit(content) PROVE TypeInv'
  <2>1. file' \in Content /\ changed' \in BOOLEAN /\ proved' \in SUBSET Document
    BY <1>9, DocumentOfFile DEF Edit
  <2>2. QED
    BY <1>9, <2>1 DEF Edit
<1>10. CASE Exit \/ PowerCycle
  BY <1>10, <1>f DEF Exit, PowerCycle, Forget, boot_hook
<1>11. CASE UNCHANGED vars
  BY <1>11 DEF vars
<1>12. QED
  BY <1>1, <1>2, <1>3, <1>4, <1>6, <1>7, <1>8, <1>9, <1>10, <1>11 DEF Next

\* The types hold in every reachable state, whatever goes wrong.
THEOREM KeepsTypes == Spec => []TypeOK
<1>1. TypeInv => TypeOK
  BY DEF TypeInv
<1>2. QED
  BY InitTypeInv, StepTypeInv, <1>1, PTL DEF Spec

(***************************************************************************)
(* The file.                                                               *)
(***************************************************************************)

\* Nobody leaves the marker on a file the daemon cannot read.  repair() rewrites
\* such a file as the document load() fell back to, which nobody confirmed.
NoBrokenMarker == Ours(None) \notin First \cup Edits

FileInv == TypeInv /\ OnlyConfirmedIsWritten /\ file # Ours(None)

\* A file with the marker that can be read is rewritten as what it says.
LEMMA RepairKeepsTheDocument ==
    ASSUME TypeOK, file # Ours(None), repair(load_with(file))
    PROVE  file' = file
<1>1. CASE file.by = "bmcd"
  <2>1. file = Ours(file.doc)
    BY <1>1 DEF TypeOK, Content, Ours, Image
  <2>2. file.doc # None
    BY <2>1
  <2>3. QED
    BY <1>1, <2>1, <2>2 DEF repair, load_with
<1>2. CASE file.by # "bmcd"
  BY <1>2 DEF repair
<1>3. QED
  BY <1>1, <1>2

LEMMA OursSaysIt == \A doc : Ours(doc).doc = doc
  BY DEF Ours

LEMMA StepFileInv ==
    ASSUME "slow" \notin Fault, NoBrokenMarker
    PROVE  FileInv /\ [Next]_vars => FileInv'
<1> SUFFICES ASSUME FileInv, [Next]_vars PROVE FileInv'
  OBVIOUS
<1>t. TypeInv /\ TypeInv' /\ TypeOK /\ TokenNamesTheChange
  BY StepTypeInv DEF FileInv, TypeInv
<1> DEFINE Rest == OnlyConfirmedIsWritten /\ file # Ours(None)
<1>r. Rest
  BY DEF FileInv
<1> SUFFICES Rest'
  BY <1>t DEF FileInv
<1> USE DEF OnlyConfirmedIsWritten
<1>1. CASE Start
  BY <1>1, <1>t, <1>r, RepairKeepsTheDocument DEF Start
<1>2. ASSUME NEW token \in Token, NEW peer \in {"loopback", "network"}, Confirm(token, peer)
      PROVE  Rest'
  <2>1. pending # None /\ pending.document \in Document /\ pending.document # None
        /\ issued[token] = pending.document
    BY <1>2, <1>t, NoneAssumption DEF Confirm, confirm, check_confirm, TypeOK, Pending, TokenNamesTheChange
  <2>2. CASE file' = Ours(pending.document) /\ proved' = proved \cup {issued[token]}
    BY <2>1, <2>2, OursSaysIt
  <2>3. CASE UNCHANGED <<file, proved>>
    BY <2>3, <1>r
  <2>4. QED
    BY <1>2, <2>2, <2>3 DEF Confirm, confirm
<1>3. ASSUME NEW content \in Edits, Edit(content) PROVE Rest'
  BY <1>3 DEF Edit, NoBrokenMarker
<1>4. CASE UNCHANGED <<file, proved>>
  BY <1>4, <1>r
<1>5. QED
  BY <1>1, <1>2, <1>3, <1>4
     DEF Next, View, Apply, apply, Revert, Tick, GoBack, Lease, Second, ClockStep, Exit, PowerCycle, vars

\* As long as no deadline passes in the middle of a confirmation, a reboot comes
\* back to a document that was confirmed from off the board with the token of
\* that very change, or that a person wrote: under failing commands, failing
\* writes, edits, restarts, reboots and every step of the clock.
THEOREM WritesOnlyConfirmed ==
    ASSUME "slow" \notin Fault, NoBrokenMarker
    PROVE  Spec => []OnlyConfirmedIsWritten
<1>1. Init => FileInv
  BY InitTypeInv DEF Init, FileInv, OnlyConfirmedIsWritten, NoBrokenMarker
<1>2. FileInv => OnlyConfirmedIsWritten
  BY DEF FileInv
<1>3. QED
  BY <1>1, <1>2, StepFileInv, PTL DEF Spec

\* A copy is made for whoever the daemon last read to have written the file, so
\* it must have read that right unless it knows better.
WriterInv == TypeInv /\ (~ changed => seen.by = file.by)

LEMMA StepWriterInv ==
    ASSUME "stamp" \notin Fault
    PROVE  WriterInv /\ [Next]_vars => WriterInv'
<1> SUFFICES ASSUME WriterInv, [Next]_vars PROVE WriterInv'
  OBVIOUS
<1>t. TypeInv'
  BY StepTypeInv DEF WriterInv
<1> DEFINE Rest == ~ changed => seen.by = file.by
<1>r. Rest
  BY DEF WriterInv
<1> SUFFICES Rest'
  BY <1>t DEF WriterInv
<1>1. CASE Start
  <2>1. seen' = file /\ (file' = file \/ (file.by = "bmcd" /\ file' = Ours(load_with(file))))
    BY <1>1 DEF Start, repair
  <2>2. QED
    BY <2>1 DEF Ours
<1>2. CASE seen' = refresh /\ changed' = FALSE /\ UNCHANGED file
  BY <1>2, <1>r DEF refresh
<1>3. ASSUME NEW token \in Token, NEW peer \in {"loopback", "network"}, Confirm(token, peer)
      PROVE  Rest'
  BY <1>2, <1>3 DEF Confirm, confirm
<1>4. ASSUME NEW content \in Edits, Edit(content) PROVE Rest'
  BY <1>4 DEF Edit
<1>5. CASE UNCHANGED <<seen, changed, file>>
  BY <1>5, <1>r
<1>6. CASE Exit \/ PowerCycle
  BY <1>6 DEF Exit, PowerCycle, Forget
<1>7. QED
  BY <1>1, <1>2, <1>3, <1>4, <1>5, <1>6
     DEF Next, View, Apply, apply, Revert, Tick, GoBack, Lease, Second, ClockStep, vars, memory

\* As long as an edit moves the file's stamp, the daemon never replaces a file a
\* person wrote without a copy of that very file: under every other fault, the
\* deadline that passes during a confirmation included.
THEOREM HandWorkStaysCopied ==
    ASSUME "stamp" \notin Fault
    PROVE  Spec => HandWorkIsCopied
<1>1. Init => WriterInv
  BY InitTypeInv DEF Init, WriterInv
<1>2. ASSUME WriterInv, [Next]_vars, file.by = "person", file' # file
      PROVE  file \in copies' \/ \E content \in Edits : Edit(content)
  <2>1. replaces_hand_written(refresh)
    BY <1>2 DEF WriterInv, refresh, replaces_hand_written
  <2>2. ASSUME NEW token \in Token, NEW peer \in {"loopback", "network"}, Confirm(token, peer)
        PROVE  file \in copies'
    BY <1>2, <2>1, <2>2 DEF Confirm, confirm
  <2>3. ~ Start
    BY <1>2 DEF Start, repair
  <2>4. QED
    BY <1>2, <2>2, <2>3
       DEF Next, View, Apply, apply, Revert, Tick, GoBack, Lease, Second, ClockStep, Exit,
           PowerCycle, vars
<1>3. WriterInv /\ [Next]_vars =>
        [ (file.by = "person" /\ file' # file) =>
              file \in copies' \/ \E content \in Edits : Edit(content) ]_vars
  BY <1>2
<1>4. QED
  BY <1>1, <1>3, StepWriterInv, PTL DEF Spec, HandWorkIsCopied

\* What is reported is all of what was read, not its document alone, and what
\* was read is the file unless the stamp has moved: the daemon's own write at
\* start changes nothing, because it writes what it read.
SeenInv == TypeInv /\ file # Ours(None) /\ (~ changed => seen = file)

LEMMA StepSeenInv ==
    ASSUME "stamp" \notin Fault, NoBrokenMarker
    PROVE  SeenInv /\ [Next]_vars => SeenInv'
<1> SUFFICES ASSUME SeenInv, [Next]_vars PROVE SeenInv'
  OBVIOUS
<1>t. TypeInv /\ TypeInv' /\ TypeOK
  BY StepTypeInv DEF SeenInv, TypeInv
<1> DEFINE Rest == file # Ours(None) /\ (~ changed => seen = file)
<1>r. Rest /\ refresh = file
  BY DEF SeenInv, refresh
<1> SUFFICES Rest'
  BY <1>t DEF SeenInv
<1>1. CASE Start
  BY <1>1, <1>t, <1>r, RepairKeepsTheDocument DEF Start
<1>2. CASE seen' = refresh /\ changed' = FALSE /\ UNCHANGED file
  BY <1>2, <1>r
<1>3. ASSUME NEW token \in Token, NEW peer \in {"loopback", "network"}, Confirm(token, peer)
      PROVE  Rest'
  <2>1. pending.document # None
    BY <1>3, <1>t, NoneAssumption DEF Confirm, confirm, check_confirm, TypeOK, Pending
  <2>2. \/ file' = Ours(pending.document) /\ (seen' = file' \/ changed' = TRUE)
        \/ seen' = refresh /\ UNCHANGED file
    BY <1>3 DEF Confirm, confirm
  <2>3. Ours(pending.document) # Ours(None)
    BY <2>1 DEF Ours
  <2>4. QED
    BY <1>r, <2>2, <2>3
<1>4. ASSUME NEW content \in Edits, Edit(content) PROVE Rest'
  BY <1>4 DEF Edit, NoBrokenMarker
<1>5. CASE UNCHANGED <<seen, changed, file>>
  BY <1>5, <1>r
<1>6. CASE Exit \/ PowerCycle
  BY <1>6, <1>r DEF Exit, PowerCycle, Forget
<1>7. QED
  BY <1>1, <1>2, <1>3, <1>4, <1>5, <1>6
     DEF Next, View, Apply, apply, Revert, Tick, GoBack, Lease, Second, ClockStep, vars, memory

\* As long as an edit moves the file's stamp, GET /network/address never calls
\* configured what a reboot would not come back to: under failing commands and
\* writes, a deadline that passes during a confirmation, restarts, reboots and
\* every step of the clock.
THEOREM ReportsTheFile ==
    ASSUME "stamp" \notin Fault, NoBrokenMarker
    PROVE  Spec => []ConfiguredIsTheFile
<1>1. Init => SeenInv
  BY InitTypeInv DEF Init, SeenInv, NoBrokenMarker
<1>2. SeenInv => ConfiguredIsTheFile
  BY DEF SeenInv, ConfiguredIsTheFile
<1>3. QED
  BY <1>1, <1>2, StepSeenInv, PTL DEF Spec

(***************************************************************************)
(* The resolvers.                                                          *)
(***************************************************************************)

LEMMA StepResolvers ==
    ASSUME Fault \cap {"command", "resolv"} = {}
    PROVE  StaticHasItsResolvers /\ [Next]_vars => StaticHasItsResolvers'
<1> SUFFICES ASSUME StaticHasItsResolvers, [Next]_vars PROVE StaticHasItsResolvers'
  OBVIOUS
<1>f. "command" \notin Fault /\ "resolv" \notin Fault
  OBVIOUS
<1>1. CASE Start
  BY <1>1, <1>f DEF Start, repair, StaticHasItsResolvers
\* What goes on br0 takes its resolvers along.
<1>2. ASSUME NEW doc, PutOn(doc), running' = doc PROVE StaticHasItsResolvers'
  BY <1>2 DEF PutOn, StaticHasItsResolvers
<1>3. ASSUME NEW doc \in Document, NEW window \in Request, NEW replace \in BOOLEAN,
             Apply(doc, window, replace)
      PROVE  StaticHasItsResolvers'
  BY <1>2, <1>3, <1>f DEF Apply, apply
<1>4. CASE Revert \/ Tick
  BY <1>2, <1>4, <1>f DEF Revert, Tick, GoBack, PutFails
\* A lease replaces them, but only of a bridge that is on DHCP.
<1>5. CASE Lease
  BY <1>5 DEF Lease, StaticHasItsResolvers, memory
<1>6. CASE Exit \/ PowerCycle
  BY <1>6 DEF Exit, PowerCycle, Forget, StaticHasItsResolvers
<1>7. CASE UNCHANGED <<up, running, live, resolv>>
  BY <1>7 DEF StaticHasItsResolvers
<1>8. QED
  BY <1>1, <1>3, <1>4, <1>5, <1>6, <1>7
     DEF Next, View, Confirm, confirm, Second, ClockStep, Edit, vars, memory, board

\* When commands and the write of /etc/resolv.conf at start succeed, a bridge on
\* the static document the daemon runs resolves with that document's resolvers,
\* whatever the boot hook, the edits of the file, leases, a deadline that passes
\* during a confirmation and the daemon's own restarts did in between.
THEOREM StaticKeepsItsResolvers ==
    ASSUME Fault \cap {"command", "resolv"} = {}
    PROVE  Spec => []StaticHasItsResolvers
<1>1. Init => StaticHasItsResolvers
  BY DEF Init, StaticHasItsResolvers
<1>2. QED
  BY <1>1, StepResolvers, PTL DEF Spec

(***************************************************************************)
(* When commands do what they are told, nobody edits the file, the daemon  *)
(* lives as long as the board is powered and no deadline passes during a   *)
(* confirmation.                                                           *)
(***************************************************************************)
Sound ==
    /\ Fault \cap {"command", "exit", "slow"} = {}
    /\ Edits = {}
    /\ \A content \in First : content.doc # None

\* LiveIsProved is not inductive.  It needs that br0 is on what the daemon takes
\* to be running, that a way back is proved, and that a daemon that is down left
\* the board as its boot path brought it up.
LiveInv ==
    /\ FileInv
    /\ file.doc \in proved
    /\ up => live = running
    /\ ~ up => live = file.doc /\ pending = None
    /\ pending = None => live \in proved
    /\ pending # None => pending.snapshot \in proved /\ pending.document = running

LEMMA InitLiveInv ==
    ASSUME Sound
    PROVE  Init => LiveInv
<1> SUFFICES ASSUME Init PROVE LiveInv
  OBVIOUS
<1>1. TypeInv /\ file.doc # None
  BY InitTypeInv DEF Init, Sound
<1>2. file # Ours(None)
  BY <1>1, OursSaysIt
<1>3. QED
  BY <1>1, <1>2 DEF Init, LiveInv, FileInv, OnlyConfirmedIsWritten

LEMMA StepLiveInv ==
    ASSUME Sound
    PROVE  LiveInv /\ [Next]_vars => LiveInv'
<1> SUFFICES ASSUME LiveInv, [Next]_vars PROVE LiveInv'
  OBVIOUS
<1>f. "command" \notin Fault /\ "exit" \notin Fault /\ "slow" \notin Fault /\ Edits = {}
  BY DEF Sound
<1>i. FileInv'
  <2>1. NoBrokenMarker
    BY OursSaysIt DEF NoBrokenMarker, Sound
  <2>2. QED
    BY <2>1, <1>f, StepFileInv DEF LiveInv
<1>t. TypeOK /\ TypeOK' /\ TokenNamesTheChange /\ file # Ours(None)
  BY <1>i DEF LiveInv, FileInv, TypeInv
<1>n. None \notin Document /\ None \notin Pending
  BY NoneAssumption
<1> DEFINE Rest == /\ file.doc \in proved
                   /\ up => live = running
                   /\ ~ up => live = file.doc /\ pending = None
                   /\ pending = None => live \in proved
                   /\ pending # None => pending.snapshot \in proved /\ pending.document = running
<1>r. Rest
  BY DEF LiveInv
<1> SUFFICES Rest'
  BY <1>i DEF LiveInv
<1>1. CASE Start
  <2>1. file' = file
    BY <1>1, <1>t, RepairKeepsTheDocument DEF Start
  <2>2. file.doc # None
    BY <1>r, <1>t, <1>n DEF TypeOK
  <2>3. QED
    BY <1>1, <2>1, <2>2, <1>r DEF Start, load_with
<1>2. ASSUME NEW doc \in Document, NEW window \in Request, NEW replace \in BOOLEAN,
             Apply(doc, window, replace)
      PROVE  Rest'
  <2>1. PICK t \in Token : /\ live' = doc /\ running' = doc
                           /\ pending' = [token |-> t, document |-> doc, snapshot |-> running,
                                          window |-> window, age |-> 0]
    BY <1>2, <1>f DEF Apply, apply, PutOn
  <2>2. /\ up /\ pending = None /\ window \in MIN_WINDOW .. MAX_WINDOW
        /\ UNCHANGED <<up, file, proved>>
    BY <1>2 DEF Apply, apply
  <2>3. pending' \in Pending /\ pending'.snapshot = running /\ pending'.document = doc
    BY <2>1, <2>2, <1>t DEF Pending, TypeOK
  <2>4. QED
    BY <2>1, <2>2, <2>3, <1>r, <1>n
<1>3. ASSUME NEW token \in Token, NEW peer \in {"loopback", "network"}, Confirm(token, peer)
      PROVE  Rest'
  <2>1. /\ pending # None /\ issued[token] = pending.document /\ up
        /\ UNCHANGED <<up, live, running>>
    BY <1>3, <1>t DEF Confirm, confirm, check_confirm, TokenNamesTheChange, board
  <2>2. CASE UNCHANGED <<pending, file, proved>>
    BY <2>1, <2>2, <1>r
  <2>3. CASE /\ file' = Ours(pending.document) /\ pending' = None
             /\ proved' = proved \cup {issued[token]}
    <3>1. live = pending.document
      BY <2>1, <1>r
    <3>2. QED
      BY <2>1, <2>3, <3>1, <1>r, OursSaysIt
  <2>4. QED
    BY <1>3, <1>f, <2>2, <2>3 DEF Confirm, confirm
<1>4. ASSUME up, pending # None, NEW reason, GoBack(reason) PROVE Rest'
  BY <1>4, <1>f, <1>r DEF GoBack, PutOn, PutFails
<1>5. CASE Revert \/ Tick
  BY <1>4, <1>5 DEF Revert, Tick
<1>6. CASE Second \/ ClockStep
  <2>1. /\ pending \in Pending /\ UNCHANGED <<up, live, running, file, proved>>
        /\ \E age \in Int : pending' = [pending EXCEPT !.age = age]
    BY <1>6, <1>t, WindowAssumption DEF Second, ClockStep, TypeOK, board, Pending
  <2>2. pending' \in Pending /\ pending'.snapshot = pending.snapshot
        /\ pending'.document = pending.document
    BY <2>1 DEF Pending
  <2>3. QED
    BY <2>1, <2>2, <1>r, <1>n
<1>7. CASE View \/ Lease \/ UNCHANGED vars
  BY <1>7, <1>r DEF View, Lease, vars, memory, board
<1>8. CASE PowerCycle
  BY <1>8, <1>r DEF PowerCycle, Forget
<1>9. ~ Exit /\ ~ \E content \in Edits : Edit(content)
  BY <1>f DEF Exit
<1>10. QED
  BY <1>1, <1>2, <1>3, <1>5, <1>6, <1>7, <1>8, <1>9 DEF Next

\* With no change pending br0 is on a document somebody confirmed or wrote: no
\* unproved address outlives its window or a reboot, failed writes of a
\* confirmation, failed hooks and steps of the clock included.
THEOREM LiveStaysProved ==
    ASSUME Sound
    PROVE  Spec => []LiveIsProved
<1>1. LiveInv => LiveIsProved
  BY DEF LiveInv, LiveIsProved
<1>2. QED
  BY InitLiveInv, StepLiveInv, <1>1, PTL DEF Spec

(***************************************************************************)
(* The detailed service implements the promise.                            *)
(***************************************************************************)
Trial ==
    IF pending = None THEN None
    ELSE [change |-> pending.document, back |-> pending.snapshot]

LEMMA StepPromise ==
    ASSUME Sound
    PROVE  LiveInv /\ [Next]_vars => [Promise!Next]_(Promise!vars)
<1> SUFFICES ASSUME LiveInv, [Next]_vars PROVE [Promise!Next]_(Promise!vars)
  OBVIOUS
<1>f. "command" \notin Fault /\ "exit" \notin Fault /\ "slow" \notin Fault /\ Edits = {}
  BY DEF Sound
<1>t. /\ LiveInv' /\ TypeOK /\ TypeOK' /\ TokenNamesTheChange
      /\ file # Ours(None) /\ file.doc \in Document
  BY StepLiveInv DEF LiveInv, FileInv, TypeInv, TypeOK
<1>n. /\ None \notin Document /\ None \notin Pending
      /\ \A a, b \in Document : [change |-> a, back |-> b] # None
  BY NoneAssumption
<1>d. pending # None => pending.document \in Document /\ pending.snapshot \in Document
  BY <1>t DEF TypeOK, Pending
\* The clock of a change, the resolvers and the copies are none of its business.
<1>s. ASSUME UNCHANGED <<live, file, proved>>,
             pending = None <=> pending' = None,
             pending # None => pending'.document = pending.document
                               /\ pending'.snapshot = pending.snapshot
      PROVE  UNCHANGED Promise!vars
  BY <1>s DEF Promise!vars
<1>1. CASE Start
  <2>1. file' = file
    BY <1>1, <1>t, RepairKeepsTheDocument DEF Start
  <2>2. pending = None
    BY <1>1 DEF Start, LiveInv
  <2>3. QED
    BY <1>1, <2>1, <2>2, <1>s DEF Start
<1>2. ASSUME NEW doc \in Document, NEW window \in Request, NEW replace \in BOOLEAN,
             Apply(doc, window, replace)
      PROVE  Promise!Next
  <2>1. PICK t \in Token : /\ live' = doc
                           /\ pending' = [token |-> t, document |-> doc, snapshot |-> running,
                                          window |-> window, age |-> 0]
    BY <1>2, <1>f DEF Apply, apply, PutOn
  <2>2. /\ up /\ pending = None /\ window \in MIN_WINDOW .. MAX_WINDOW
        /\ UNCHANGED <<file, proved>>
    BY <1>2 DEF Apply, apply
  <2>3. live = running
    BY <2>2 DEF LiveInv
  <2>4. pending' \in Pending
    BY <2>1, <2>2, <1>t DEF Pending, TypeOK
  <2>5. Trial = None /\ Trial' = [change |-> doc, back |-> live]
    BY <2>1, <2>2, <2>3, <2>4, <1>n DEF Trial
  <2>6. Promise!Try(doc)
    BY <2>1, <2>2, <2>5 DEF Promise!Try, Trial
  <2>7. QED
    BY <2>6 DEF Promise!Next
<1>3. ASSUME NEW token \in Token, NEW peer \in {"loopback", "network"}, Confirm(token, peer)
      PROVE  [Promise!Next]_(Promise!vars)
  <2>1. pending # None /\ issued[token] = pending.document /\ UNCHANGED live
    BY <1>3, <1>t DEF Confirm, confirm, check_confirm, TokenNamesTheChange, board
  <2>2. CASE UNCHANGED <<pending, file, proved>>
    BY <2>1, <2>2, <1>s
  <2>3. CASE /\ file' = Ours(pending.document) /\ pending' = None
             /\ proved' = proved \cup {issued[token]}
    <3>1. /\ Trial # None /\ Trial' = None /\ Trial.change = pending.document
          /\ file'.doc = pending.document
      BY <2>1, <2>3, <1>d, <1>n, OursSaysIt DEF Trial
    <3>2. Promise!Keep
      BY <2>1, <2>3, <3>1 DEF Promise!Keep, Trial
    <3>3. QED
      BY <3>2 DEF Promise!Next
  <2>4. QED
    BY <1>3, <1>f, <2>2, <2>3 DEF Confirm, confirm
<1>4. ASSUME pending # None, NEW reason, GoBack(reason) PROVE Promise!Next
  <2>1. /\ pending' = None /\ live' = pending.snapshot /\ UNCHANGED <<file, proved>>
    BY <1>4, <1>f DEF GoBack, PutOn, PutFails
  <2>2. Trial # None /\ Trial' = None /\ Trial.back = pending.snapshot
    BY <1>4, <2>1, <1>d, <1>n DEF Trial
  <2>3. Promise!PutBack
    BY <2>1, <2>2 DEF Promise!PutBack, Trial
  <2>4. QED
    BY <2>3 DEF Promise!Next
<1>5. CASE Revert \/ Tick
  BY <1>4, <1>5 DEF Revert, Tick
<1>6. CASE Second \/ ClockStep
  <2>1. /\ pending \in Pending /\ UNCHANGED <<live, file, proved>>
        /\ \E age \in Int : pending' = [pending EXCEPT !.age = age]
    BY <1>6, <1>t, WindowAssumption DEF Second, ClockStep, TypeOK, board, Pending
  <2>2. pending' \in Pending /\ pending'.snapshot = pending.snapshot
        /\ pending'.document = pending.document
    BY <2>1 DEF Pending
  <2>3. QED
    BY <2>1, <2>2, <1>n, <1>s
<1>7. CASE View \/ Lease \/ UNCHANGED vars
  BY <1>7, <1>s DEF View, Lease, vars, memory, board
<1>8. CASE PowerCycle
  <2>1. live' = file.doc /\ file.doc # None /\ pending' = None /\ UNCHANGED <<file, proved>>
    BY <1>8, <1>t, <1>n DEF PowerCycle, Forget
  <2>2. Promise!PowerCycle
    BY <2>1 DEF Promise!PowerCycle
  <2>3. QED
    BY <2>2 DEF Promise!Next
<1>9. ~ Exit /\ ~ \E content \in Edits : Edit(content)
  BY <1>f DEF Exit
<1>10. QED
  BY <1>1, <1>2, <1>3, <1>5, <1>6, <1>7, <1>8, <1>9 DEF Next

\* When commands succeed, nobody edits the file and only a reboot ends the
\* daemon, the address service implements ConfirmOrRevert: the same promise the
\* switch service implements, here with writes that may fail, because this
\* confirmation commits only what it has written.
THEOREM ImplementsPromise ==
    ASSUME Sound
    PROVE  Spec => KeepsThePromise
<1>1. Init => Promise!Init
  <2> SUFFICES ASSUME Init PROVE Promise!Init
    OBVIOUS
  <2>1. file.doc \in Document /\ file.doc # None
    BY InitTypeInv, NoneAssumption DEF Init, Sound, TypeInv, TypeOK
  <2>2. QED
    BY <2>1 DEF Init, Promise!Init, Promise!Safe
<1>2. QED
  BY <1>1, StepPromise, InitLiveInv, StepLiveInv, PTL DEF Spec, KeepsThePromise, Promise!Spec
=============================================================================
