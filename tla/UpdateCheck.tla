---------------------------- MODULE UpdateCheck ----------------------------
(***************************************************************************)
(* Whether a newer release exists: bmcd/src/app/update_check.rs behind     *)
(* `opt=get&type=update_check`.                                            *)
(*                                                                         *)
(* The answer is made by two runs of the updater, one per channel, in a    *)
(* blocking task, and is kept: for FRESH when both channels answered, for  *)
(* FRESH_AFTER_ERROR when one did not.  The lock of the kept answer is     *)
(* held while the updater runs, so whoever else asks waits for that answer *)
(* instead of starting the updater again.  A client that goes away drops   *)
(* its handler, and the lock with it; the blocking task runs on and its    *)
(* result is thrown away.                                                  *)
(***************************************************************************)
EXTENDS Integers, FiniteSets

CONSTANTS Viewer,             \* the requests that may be under way at once
          FRESH,              \* how long a whole answer is kept
          FRESH_AFTER_ERROR,  \* how long an answer with an error is kept
          MaxClock,           \* bound: the clock stops there
          MaxStrays           \* bound: updater runs nobody waits for

ASSUME UpdateCheckAssumption ==
    /\ FRESH \in Nat \ {0}
    /\ FRESH_AFTER_ERROR \in 1..FRESH
    /\ MaxClock \in Nat
    /\ MaxStrays \in Nat

Unanswered == [none |-> TRUE]

VARIABLES
    clock,     \* Instant::now()
    answer,    \* CACHE: the kept answer [at, stable, edge], or Unanswered
    viewing,   \* viewer -> "idle", "waiting" for the lock, "resolving"
    strays,    \* updater runs whose asker went away
    shown,     \* viewer -> the answer it got last, Unanswered before
    shown_at   \* viewer -> when it got it

update_vars == <<clock, answer, viewing, strays, shown, shown_at>>

Answer_of(stable, edge) == [at |-> clock, stable |-> stable, edge |-> edge]

ok(kept) == kept.stable /\ kept.edge

update_Init ==
    /\ clock = 0
    /\ answer = Unanswered
    /\ viewing = [v \in Viewer |-> "idle"]
    /\ strays = 0
    /\ shown = [v \in Viewer |-> Unanswered]
    /\ shown_at = [v \in Viewer |-> 0]

-----------------------------------------------------------------------------

(* cached.at.elapsed() < ttl. *)
IsFresh ==
    /\ answer # Unanswered
    /\ clock - answer.at < IF ok(answer) THEN FRESH ELSE FRESH_AFTER_ERROR

\* Seeded bug: the lock is let go while the updater runs.
Unlocked_always == TRUE

Unlocked == \A v \in Viewer : viewing[v] # "resolving"

Show(v, kept) ==
    /\ shown' = [shown EXCEPT ![v] = kept]
    /\ shown_at' = [shown_at EXCEPT ![v] = clock]
    /\ viewing' = [viewing EXCEPT ![v] = "idle"]

get_update(v) ==
    /\ viewing[v] = "idle"
    /\ viewing' = [viewing EXCEPT ![v] = "waiting"]
    /\ UNCHANGED <<clock, answer, strays, shown, shown_at>>

(* The lock is taken: a fresh answer is given at once, otherwise the       *)
(* updater is started with the lock held.                                  *)
Look(v) ==
    /\ viewing[v] = "waiting"
    /\ Unlocked
    /\ \/ IsFresh /\ Show(v, answer)
       \/ /\ ~IsFresh
          /\ viewing' = [viewing EXCEPT ![v] = "resolving"]
          /\ UNCHANGED <<shown, shown_at>>
    /\ UNCHANGED <<clock, answer, strays>>

(* Both runs have ended, each with an answer or without.                   *)
Resolved(v) ==
    /\ viewing[v] = "resolving"
    /\ \E stable, edge \in BOOLEAN :
         /\ answer' = Answer_of(stable, edge)
         /\ Show(v, Answer_of(stable, edge))
    /\ UNCHANGED <<clock, strays>>

(* The client goes away.  The updater it started runs on unheard.          *)
Leave(v) ==
    /\ viewing[v] # "idle"
    /\ viewing[v] = "resolving" => strays < MaxStrays
    /\ strays' = strays + IF viewing[v] = "resolving" THEN 1 ELSE 0
    /\ viewing' = [viewing EXCEPT ![v] = "idle"]
    /\ UNCHANGED <<clock, answer, shown, shown_at>>

StrayEnds ==
    /\ strays > 0
    /\ strays' = strays - 1
    /\ UNCHANGED <<clock, answer, viewing, shown, shown_at>>

Later ==
    /\ clock < MaxClock
    /\ clock' = clock + 1
    /\ UNCHANGED <<answer, viewing, strays, shown, shown_at>>

update_Next ==
    \/ \E v \in Viewer : get_update(v) \/ Look(v) \/ Resolved(v) \/ Leave(v)
    \/ StrayEnds
    \/ Later

update_Spec == update_Init /\ [][update_Next]_update_vars

-----------------------------------------------------------------------------

(* What a page shows was resolved less than its lifetime before it was     *)
(* given out, and a failed answer is forgotten sooner; and of the requests *)
(* whose clients stayed, at most one has the updater running, however many *)
(* asked while there was no answer (update_check::get).                    *)
UpdaterIsSpared ==
    /\ Cardinality({v \in Viewer : viewing[v] = "resolving"}) <= 1
    /\ \A v \in Viewer : shown[v] # Unanswered =>
         LET age == shown_at[v] - shown[v].at
         IN  /\ age < FRESH
             /\ age >= FRESH_AFTER_ERROR => ok(shown[v])

=============================================================================
