------------------------------- MODULE Cooling ------------------------------
(***************************************************************************)
(* The fan, as app/cooling_device.rs drives it: a step that is only a      *)
(* request while the zone's governor runs, a hold that pauses the governor *)
(* and writes a step, and the poll that takes a hold back when the board   *)
(* is hotter than its hottest active trip.  A hold lives in the kernel and *)
(* outlives the daemon; the next start resumes every governor.             *)
(*                                                                         *)
(* Requests run on two workers beside the poll, so they interleave at      *)
(* every write to sysfs, and every write may fail.                         *)
(***************************************************************************)
EXTENDS Integers, FiniteSets

CONSTANTS
    Requester,       \* requests of a behaviour
    MaxStep,         \* the fan's max_state
    Temperature,     \* the temperatures of the zone
    MaxLives         \* bound: starts of the daemon
ASSUME CoolingAssumption == MaxStep \in Nat

FanStep == 0 .. MaxStep
Unstored == -1

\* Every trip of the zone: what crossing it means, and its temperature.
Trip == [kind : {"active", "hot"}, temp : Temperature]

VARIABLES
    bound,        \* a zone binds the fan
    trips,        \* the zone's trips
    mode,         \* the governor: "enabled" or "disabled"
    fan_step,     \* cur_state
    temp,
    stored,       \* COOLING_DEVICES: the step to replay, or Unstored
    request,      \* each request
    poll,         \* the ceiling's task: "none", "waiting" or "releasing"
    life,         \* "down", "starting" or "up"
    asked_steps,  \* history: the steps requested in this life
    stuck,        \* history: a governor could not be resumed
    lives
cool_vars == <<bound, trips, mode, fan_step, temp, stored, request, poll, life, asked_steps, stuck, lives>>

No_call == [at |-> "idle", step |-> 0]

cool_Init ==
    /\ bound \in BOOLEAN
    /\ trips \in {ts \in SUBSET Trip : Cardinality(ts) \in 1 .. 2}
    /\ mode = "enabled" /\ fan_step = 0 /\ temp \in Temperature
    /\ stored = Unstored
    /\ request = [c \in Requester |-> No_call]
    /\ poll = "none" /\ life = "down"
    /\ asked_steps = {} /\ stuck = FALSE /\ lives = 0

\* What get_cooling_state() says of the fan: held only where that was read.
overridden == bound /\ mode = "disabled"

\* Only an active trip drives a cooling device.
Active == {t \in trips : t.kind = "active"}
hottest_active_trip == CHOOSE m \in {t.temp : t \in Active} : \A t \in Active : t.temp <= m

(***************************************************************************)
(* Start: resume_all_governors, then the stored step is replayed under a   *)
(* running governor, then the poll is started.                             *)
(***************************************************************************)

resume_all_governors ==
    /\ life = "down" /\ lives < MaxLives
    /\ life' = "starting" /\ lives' = lives + 1 /\ asked_steps' = {}
    /\ \/ ~overridden /\ stuck' = FALSE /\ UNCHANGED mode
       \/ overridden /\ mode' = "enabled" /\ stuck' = FALSE
       \/ overridden /\ stuck' = TRUE /\ UNCHANGED mode
    /\ UNCHANGED <<bound, trips, fan_step, temp, stored, request, poll>>

\* A step that cannot be replayed fails the start of the application.
initialize_cooling ==
    /\ life = "starting"
    /\ \/ /\ fan_step' = IF stored = Unstored THEN fan_step ELSE stored
          /\ life' = "up" /\ poll' = "waiting"
       \/ stored # Unstored /\ life' = "down" /\ UNCHANGED <<fan_step, poll>>
    /\ UNCHANGED <<bound, trips, mode, temp, stored, request, asked_steps, stuck, lives>>

\* The daemon is gone, between any two writes.
Dies ==
    /\ life = "up"
    /\ life' = "down" /\ poll' = "none"
    /\ request' = [c \in Requester |-> No_call]
    /\ UNCHANGED <<bound, trips, mode, fan_step, temp, stored, asked_steps, stuck, lives>>

(***************************************************************************)
(* Requests.                                                               *)
(***************************************************************************)
At(c, step, where) == request' = [request EXCEPT ![c] = [at |-> where, step |-> step]]
Answered(c) == request' = [request EXCEPT ![c] = No_call]

\* No mode: the step is written under whatever governs, and kept for the next
\* start if the store has room for it.
set_cooling_speed(c) ==
    /\ life = "up" /\ request[c].at = "idle"
    /\ \E step \in FanStep :
           /\ fan_step' = step /\ stored' \in {step, stored}
           /\ asked_steps' = asked_steps \cup {step}
    /\ UNCHANGED <<bound, trips, mode, temp, request, poll, life, stuck, lives>>

\* mode=manual: nothing is paused for a step the fan does not have, or for a fan
\* no zone binds.
Hold(c) ==
    /\ life = "up" /\ request[c].at = "idle"
    /\ bound
    /\ \E step \in FanStep : At(c, step, "pausing")
    /\ UNCHANGED <<bound, trips, mode, fan_step, temp, stored, poll, life, asked_steps, stuck, lives>>

\* Seeded bug: the step first, then the governor.
Pause_last(c) ==
    /\ request[c].at = "pausing"
    /\ asked_steps' = asked_steps \cup {request[c].step}
    /\ \/ fan_step' = request[c].step /\ At(c, request[c].step, "setting") /\ UNCHANGED mode
       \/ mode' = "disabled" /\ Answered(c) /\ UNCHANGED fan_step
    /\ UNCHANGED <<bound, trips, temp, stored, poll, life, stuck, lives>>

Pause(c) ==
    /\ request[c].at = "pausing"
    /\ \/ mode' = "disabled" /\ At(c, request[c].step, "setting")
       \/ UNCHANGED mode /\ Answered(c)
    /\ UNCHANGED <<bound, trips, fan_step, temp, stored, poll, life, asked_steps, stuck, lives>>
SetStep(c) ==
    /\ request[c].at = "setting"
    /\ \/ fan_step' = request[c].step /\ asked_steps' = asked_steps \cup {request[c].step} /\ Answered(c)
       \/ UNCHANGED <<fan_step, asked_steps>> /\ At(c, request[c].step, "undoing")
    /\ UNCHANGED <<bound, trips, mode, temp, stored, poll, life, stuck, lives>>
\* The governor is handed back; whether that worked is not looked at.
Undo(c) ==
    /\ request[c].at = "undoing"
    /\ \/ mode' = "enabled" /\ UNCHANGED stuck
       \/ stuck' = TRUE /\ UNCHANGED mode
    /\ Answered(c)
    /\ UNCHANGED <<bound, trips, fan_step, temp, stored, poll, life, asked_steps, lives>>

\* mode=auto: the step is left for the governor to choose.
HandBack(c) ==
    /\ life = "up" /\ request[c].at = "idle"
    /\ bound
    /\ mode' = "enabled"
    /\ UNCHANGED <<bound, trips, fan_step, temp, stored, request, poll, life, asked_steps, stuck, lives>>

(***************************************************************************)
(* The ceiling, every CEILING_POLL.                                        *)
(***************************************************************************)

\* No active trip, no ceiling; a temperature that does not read is passed over.
TooHot == Active # {} /\ temp > hottest_active_trip

Look ==
    /\ poll = "waiting" /\ overridden /\ TooHot
    /\ poll' = "releasing"
    /\ UNCHANGED <<bound, trips, mode, fan_step, temp, stored, request, life, asked_steps, stuck, lives>>
Release_hold ==
    /\ poll = "releasing"
    /\ poll' = "waiting"
    /\ mode' = "enabled"
    /\ UNCHANGED <<bound, trips, fan_step, temp, stored, request, life, asked_steps, stuck, lives>>
ReleaseFails ==
    /\ poll = "releasing"
    /\ poll' = "waiting"
    /\ UNCHANGED <<bound, trips, mode, fan_step, temp, stored, request, life, asked_steps, stuck, lives>>

(***************************************************************************)
(* The kernel: step_wise, and the weather.                                 *)
(***************************************************************************)
Governs ==
    /\ mode = "enabled"
    /\ fan_step' \in FanStep
    /\ UNCHANGED <<bound, trips, mode, temp, stored, request, poll, life, asked_steps, stuck, lives>>
Warms ==
    /\ temp' \in Temperature
    /\ UNCHANGED <<bound, trips, mode, fan_step, stored, request, poll, life, asked_steps, stuck, lives>>

Calls(c) == set_cooling_speed(c) \/ Hold(c) \/ Pause(c) \/ SetStep(c) \/ Undo(c) \/ HandBack(c)
cool_Next ==
    \/ resume_all_governors \/ initialize_cooling \/ Dies
    \/ Look \/ Release_hold \/ ReleaseFails \/ Governs \/ Warms
    \/ \E c \in Requester : Calls(c)

cool_Spec == cool_Init /\ [][cool_Next]_cool_vars

\* The poll is an interval of the runtime; a write to sysfs that is tried again
\* and again is not refused for ever.
cool_Fairness == SF_cool_vars(Look) /\ SF_cool_vars(Release_hold)

(***************************************************************************)
(* Properties.                                                             *)
(***************************************************************************)
\* "A paused governor with no step set is the worst of both": with no request
\* under way, a governor that is paused leaves the fan on a step somebody asked
\* this run of the daemon for - whichever requests crossed, failed or were cut
\* off by a crash.
HeldAsAsked ==
    (life = "up" /\ mode = "disabled" /\ \A c \in Requester : request[c].at = "idle")
        => fan_step \in asked_steps

\* "Take the fan back from an override the board has grown too hot to afford":
\* a board that stays above its hottest active trip gets its governor back.
HotGetsItsGovernor ==
    (life = "up" /\ mode = "disabled" /\ Active # {} /\ \A t \in Active : temp > t.temp)
        ~> (life # "up" \/ mode = "enabled" \/ \E t \in Active : temp <= t.temp)

\* A hold is what was asked for, unless the kernel refused to resume a governor,
\* and ends when the board can no longer afford it.
HoldsAreHonoured == [](stuck \/ HeldAsAsked) /\ HotGetsItsGovernor
=============================================================================
