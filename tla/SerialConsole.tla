---------------------------- MODULE SerialConsole ---------------------------
(***************************************************************************)
(* One node's UART: the worker of serial_handler.rs that reads it into a   *)
(* ring buffer and a broadcast channel and writes what a bounded queue     *)
(* brings, and the WebSocket sessions of serial_websocket.rs that sit on   *)
(* both, each a loop over its client's messages, the UART's chunks and a   *)
(* heartbeat.                                                              *)
(*                                                                         *)
(* A chunk is what one read of the UART returned, numbered from 1.  A      *)
(* session's frames go through a bounded channel its client empties; the   *)
(* loop waits there, and on the queue to the worker, and looks at nothing  *)
(* else meanwhile.                                                         *)
(***************************************************************************)
EXTENDS Naturals, Sequences

CONSTANTS
    Console,            \* WebSocket sessions
    RingSize,           \* chunks the ring buffer keeps (OUTPUT_BUF_SIZE)
    ReadSlots,          \* slots of the broadcast channel
    WriteSlots,         \* slots of the queue to the worker
    FrameSlots,         \* frames a session holds for its client
    CLIENT_TIMEOUT,     \* in heartbeat intervals
    MaxRead, MaxTyped,  \* bounds: chunks read, lines sent to the UART
    MaxSeconds          \* bound of the clock, in heartbeat intervals

ASSUME SerialAssumption ==
    RingSize \in Nat /\ ReadSlots \in Nat /\ WriteSlots \in Nat /\ FrameSlots \in Nat /\ CLIENT_TIMEOUT \in Nat

VARIABLES
    worker,     \* "none", "running" or "stopped"
    started,    \* worker_context and writer are set
    chunks,     \* chunks read from the UART
    ring,       \* the ring buffer
    queue,      \* what waits to be written
    in_hand,    \* the line sink.send() is writing, or 0
    uart,       \* the lines the node has seen
    typed,      \* lines sent so far: a line is its number
    con,        \* the sessions
    clock
serial_vars == <<worker, started, chunks, ring, queue, in_hand, uart, typed, con, clock>>

Control == 0        \* a ping or a pong among the frames
Closed_session == [at |-> "closed", next |-> 0, frames |-> << >>, held |-> 0, shown |-> 0,
                   last_heartbeat |-> 0, due |-> 0, ponged |-> 0]

serial_Init ==
    /\ worker = "none" /\ started = FALSE
    /\ chunks = 0 /\ ring = << >>
    /\ queue = << >> /\ in_hand = 0 /\ uart = << >> /\ typed = 0
    /\ con = [c \in Console |-> Closed_session]
    /\ clock = 0

(***************************************************************************)
(* The worker.                                                             *)
(***************************************************************************)
\* Called once, when the daemon starts; a port that does not open leaves the
\* handler as it was.
run ==
    /\ worker = "none"
    /\ worker' = "running" /\ started' = TRUE
    /\ UNCHANGED <<chunks, ring, queue, in_hand, uart, typed, con, clock>>

Kept(buffer) == IF Len(buffer) > RingSize THEN Tail(buffer) ELSE buffer

\* SerialConnections::new(): a port that does not open is logged, and stays so.
SerialConnections_new == run

\* A chunk goes to the buffer and to every session that is subscribed.
ReadUart ==
    /\ worker = "running" /\ in_hand = 0 /\ chunks < MaxRead
    /\ chunks' = chunks + 1
    /\ ring' = Kept(Append(ring, chunks + 1))
    /\ UNCHANGED <<worker, started, queue, in_hand, uart, typed, con, clock>>

\* The stream ends or fails: the queue goes with the worker.  `started` stays,
\* and so do the sessions, which hold senders and a subscription of their own.
WorkerExits ==
    /\ worker = "running" /\ in_hand = 0
    /\ worker' = "stopped" /\ queue' = << >>
    /\ UNCHANGED <<started, chunks, ring, in_hand, uart, typed, con, clock>>

TakeLine ==
    /\ worker = "running" /\ in_hand = 0 /\ queue # << >>
    /\ in_hand' = Head(queue) /\ queue' = Tail(queue)
    /\ UNCHANGED <<worker, started, chunks, ring, uart, typed, con, clock>>

\* A write that fails is logged and its line is lost.
WriteUart ==
    /\ in_hand # 0
    /\ uart' \in {Append(uart, in_hand), uart}
    /\ in_hand' = 0
    /\ UNCHANGED <<worker, started, chunks, ring, queue, typed, con, clock>>

(***************************************************************************)
(* The queue, for the REST API: write() waits for a slot.  A worker that   *)
(* has stopped refuses.                                                    *)
(***************************************************************************)
Accepts == worker = "running" /\ Len(queue) < WriteSlots

write ==
    /\ started /\ Accepts /\ typed < MaxTyped
    /\ typed' = typed + 1
    /\ queue' = Append(queue, typed + 1)
    /\ UNCHANGED <<worker, started, chunks, ring, in_hand, uart, con, clock>>

legacy_serial_set_handler == write

read_whole_buffer == IF started THEN ring ELSE << >>
\* The answer of GET type=uart.
legacy_serial_get_handler == read_whole_buffer

(***************************************************************************)
(* A session.                                                              *)
(***************************************************************************)
Becomes(c, s) == con' = [con EXCEPT ![c] = s]
\* session.close() and the end of run_websocket.
Closes(c) == Becomes(c, Closed_session)

\* session.binary(), ping(), pong(): into the channel, or the loop waits there.
\* A connection that is gone refuses, which closes the session.
Sends(c, s, frame) ==
    \/ /\ Len(s.frames) < FrameSlots
       /\ Becomes(c, [s EXCEPT !.frames = Append(@, frame)])
    \/ /\ Len(s.frames) >= FrameSlots
       /\ Becomes(c, [s EXCEPT !.at = "sending", !.held = frame])

open_channel(c) ==
    /\ started /\ con[c].at = "closed"
    /\ Becomes(c, [Closed_session EXCEPT !.at = "loop", !.next = chunks + 1, !.shown = chunks,
                                         !.last_heartbeat = clock, !.due = clock, !.ponged = clock])
    /\ UNCHANGED <<worker, started, chunks, ring, queue, in_hand, uart, typed, clock>>

\* The session is spawned, so the handshake is answered at once.
handle_ws(c) == open_channel(c)

\* Text and binary frames: PollSender waits for a slot of the queue.
TypesLine(c) ==
    /\ con[c].at = "loop" /\ typed < MaxTyped
    /\ IF worker # "running" THEN /\ Closes(c) /\ UNCHANGED <<typed, queue>>
       ELSE IF Accepts THEN /\ typed' = typed + 1 /\ queue' = Append(queue, typed + 1) /\ UNCHANGED con
       ELSE /\ Becomes(c, [con[c] EXCEPT !.at = "queueing"]) /\ UNCHANGED <<typed, queue>>
    /\ UNCHANGED <<worker, started, chunks, ring, in_hand, uart, clock>>
QueuesLine(c) ==
    /\ con[c].at = "queueing"
    /\ \/ /\ Accepts /\ typed < MaxTyped
          /\ typed' = typed + 1 /\ queue' = Append(queue, typed + 1)
          /\ Becomes(c, [con[c] EXCEPT !.at = "loop"])
       \/ /\ worker # "running" /\ Closes(c) /\ UNCHANGED <<typed, queue>>
    /\ UNCHANGED <<worker, started, chunks, ring, in_hand, uart, clock>>

\* Pong, and Ping, which is answered.
Heartbeat(c) ==
    /\ con[c].at = "loop"
    /\ LET s == [con[c] EXCEPT !.last_heartbeat = clock, !.ponged = clock]
       IN  Becomes(c, s) \/ Sends(c, s, Control)
    /\ UNCHANGED <<worker, started, chunks, ring, queue, in_hand, uart, typed, clock>>

\* Close, a protocol error, a continuation frame, the end of the connection;
\* also while the loop waits to send.
Leaves(c) ==
    /\ con[c].at \in {"loop", "sending"}
    /\ Closes(c)
    /\ UNCHANGED <<worker, started, chunks, ring, queue, in_hand, uart, typed, clock>>

\* The channel keeps ReadSlots chunks; a session further behind is told so.
Lagged(s) == chunks - s.next >= ReadSlots

\* Seeded bug: a session that lagged goes on with the oldest chunk there is.
handle_command_skipping(c) ==
    /\ con[c].at = "loop" /\ con[c].next <= chunks
    /\ LET from == IF Lagged(con[c]) THEN chunks + 1 - ReadSlots ELSE con[c].next
       IN  Sends(c, [con[c] EXCEPT !.next = from + 1], from)
    /\ UNCHANGED <<worker, started, chunks, ring, queue, in_hand, uart, typed, clock>>

handle_command(c) ==
    /\ con[c].at = "loop" /\ con[c].next <= chunks
    /\ IF Lagged(con[c]) THEN Closes(c)
       ELSE Sends(c, [con[c] EXCEPT !.next = @ + 1], con[c].next)
    /\ UNCHANGED <<worker, started, chunks, ring, queue, in_hand, uart, typed, clock>>

\* Every interval; the ones missed while the loop was waiting follow at once.
verify_heartbeat(c) ==
    /\ con[c].at = "loop" /\ con[c].due <= clock
    /\ IF clock - con[c].last_heartbeat > CLIENT_TIMEOUT THEN Closes(c)
       ELSE Sends(c, [con[c] EXCEPT !.due = @ + 1], Control)
    /\ UNCHANGED <<worker, started, chunks, ring, queue, in_hand, uart, typed, clock>>

Sent(c) ==
    /\ con[c].at = "sending" /\ Len(con[c].frames) < FrameSlots
    /\ Becomes(c, [con[c] EXCEPT !.at = "loop", !.frames = Append(@, con[c].held), !.held = 0])
    /\ UNCHANGED <<worker, started, chunks, ring, queue, in_hand, uart, typed, clock>>

(***************************************************************************)
(* The client reads, or does not; time passes, but not past a heartbeat    *)
(* the loop is there to take.                                              *)
(***************************************************************************)
ClientReads(c) ==
    /\ con[c].frames # << >>
    /\ LET frame == Head(con[c].frames)
       IN  Becomes(c, [con[c] EXCEPT !.frames = Tail(@), !.shown = IF frame = Control THEN @ ELSE frame])
    /\ UNCHANGED <<worker, started, chunks, ring, queue, in_hand, uart, typed, clock>>

serial_Tick ==
    /\ clock < MaxSeconds
    /\ \A c \in Console : ~(con[c].at = "loop" /\ con[c].due <= clock)
    /\ clock' = clock + 1
    /\ UNCHANGED <<worker, started, chunks, ring, queue, in_hand, uart, typed, con>>

Session(c) ==
    \/ handle_ws(c) \/ TypesLine(c) \/ QueuesLine(c) \/ Heartbeat(c) \/ Leaves(c)
    \/ handle_command(c) \/ verify_heartbeat(c) \/ Sent(c) \/ ClientReads(c)
serial_Next ==
    \/ SerialConnections_new \/ ReadUart \/ WorkerExits \/ TakeLine \/ WriteUart \/ legacy_serial_set_handler \/ serial_Tick
    \/ \E c \in Console : Session(c)

serial_Spec == serial_Init /\ [][serial_Next]_serial_vars

(***************************************************************************)
(* Properties.                                                             *)
(***************************************************************************)
Increasing(s) == \A i, j \in DOMAIN s : i < j => s[i] < s[j]

\* A console shows what the node printed from the moment it was opened, in
\* order and with nothing left out: one that cannot keep up is closed, it never
\* skips (handle_command on a lagged receiver).  What is typed reaches the node
\* in the order it was accepted, once, and GET type=uart answers the end of what
\* the node printed.
ConsoleHasNoGaps ==
    [][/\ \A c \in Console : con'[c].shown # con[c].shown /\ con[c].at # "closed" /\ con'[c].at # "closed"
                                 => con'[c].shown = con[c].shown + 1
       /\ Increasing(uart')
       /\ \A i \in DOMAIN legacy_serial_get_handler' :
              legacy_serial_get_handler'[i] = chunks' - Len(legacy_serial_get_handler') + i]_serial_vars

\* "When no 'ping' response is seen from the client for more as CLIENT_TIMEOUT
\* the server will close down the websocket": a session that is in its loop,
\* with its heartbeat not yet due, heard from the client within the timeout.
SilentIsClosed ==
    \A c \in Console : con[c].at = "loop" /\ con[c].due > clock
                           => clock <= con[c].ponged + CLIENT_TIMEOUT

\* What a console promises the one who watches it, together (SerialConnections,
\* handle_ws).
ConsoleIsFaithful == ConsoleHasNoGaps /\ []SilentIsClosed
=============================================================================
