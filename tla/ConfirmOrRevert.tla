-------------------------- MODULE ConfirmOrRevert ---------------------------
(***************************************************************************)
(* What the daemon promises about a change that could lock its operator    *)
(* out (app/switch_change.rs and app/address_change.rs): it is put on      *)
(* trial, it is kept only when somebody proves it works, and otherwise the *)
(* configuration it replaced comes back.  No clock, no token, no file and  *)
(* no failure: only what may be live, and what it may turn into.           *)
(***************************************************************************)
CONSTANTS
    Config,  \* the configurations the hardware can be in
    Boot,    \* the one a board with nothing stored comes up in
    None

\* A change being tried, and the way back.
Trial == [change : Config, back : Config]

\* What the constants must satisfy; a theorem that needs it says so.
SoundConfig == Boot \in Config /\ None \notin Config \cup Trial

VARIABLES
    live,    \* the configuration in force
    kept,    \* the configuration a reboot comes back to, or None
    trial,   \* None, or the change being tried and the way back
    proved   \* every configuration that was ever proved to work
vars == <<live, kept, trial, proved>>

\* Configurations the board may be left in.
Safe == proved \cup {Boot}

Init ==
    /\ kept \in Config \cup {None}
    /\ proved = {kept} \ {None}
    /\ live \in Safe
    /\ trial = None

\* A change goes live, and what it replaced is remembered.
Try(c) ==
    /\ trial = None
    /\ live' = c
    /\ trial' = [change |-> c, back |-> live]
    /\ UNCHANGED <<kept, proved>>

\* The change was proved: it stays, and a reboot comes back to it.
Keep ==
    /\ trial # None
    /\ kept' = trial.change
    /\ proved' = proved \cup {trial.change}
    /\ trial' = None
    /\ UNCHANGED live

\* The change was not proved: what it replaced comes back.
PutBack ==
    /\ trial # None
    /\ live' = trial.back
    /\ trial' = None
    /\ UNCHANGED <<kept, proved>>

\* A power cycle, at any moment: the trial is forgotten, and the hardware comes
\* up as it boots or on what is stored.
PowerCycle ==
    /\ live' \in {Boot, kept} \ {None}
    /\ trial' = None
    /\ UNCHANGED <<kept, proved>>

\* A board that has something stored puts it on the hardware as it starts.
Resume ==
    /\ trial = None
    /\ live = Boot
    /\ kept # None
    /\ live' = kept
    /\ UNCHANGED <<kept, trial, proved>>

Next == (\E c \in Config : Try(c)) \/ Keep \/ PutBack \/ PowerCycle \/ Resume
Spec == Init /\ [][Next]_vars

(***************************************************************************)
(* The promise.                                                            *)
(***************************************************************************)
TypeOK ==
    /\ live \in Config
    /\ kept \in Config \cup {None}
    /\ trial \in Trial \cup {None}
    /\ proved \in SUBSET Config

\* A board with nothing on trial is on its boot configuration or on one that
\* somebody once proved, and so is the way back of a change on trial: "it puts
\* back the configuration that was already proved once" (api/network.rs).
LiveIsProved ==
    /\ trial = None => live \in Safe
    /\ trial # None => trial.back \in Safe

\* Nothing but a proof changes what a reboot comes back to, and the proved
\* configuration is the one in force: "accepting it would persist a document
\* that is not running" (app/switch_change.rs).
KeptWasLive == [][kept' # kept => kept' = live /\ kept' \in proved']_vars
=============================================================================
