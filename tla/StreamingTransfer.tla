-------------------------- MODULE StreamingTransfer -------------------------
(***************************************************************************)
(* Streaming an image to a node or to the firmware slot: the one status of *)
(* streaming_data_service.rs, the worker each transfer spawns              *)
(* (app/upgrade_worker.rs), its ten-second timer, the upload and cancel    *)
(* handlers of api/legacy.rs, and the lock the authentication middleware   *)
(* holds while a request is served.                                        *)
(*                                                                         *)
(* request_transfer spawns the worker before it waits for the status'      *)
(* mutex, and is one step all the same: each HTTP worker thread runs its   *)
(* own single-threaded executor, so the spawned worker is not polled before*)
(* the request waits, the mutex is fair, so whatever the worker then does, *)
(* it is served after the request; and nobody has the context until then.  *)
(***************************************************************************)
EXTENDS Naturals

CONSTANTS
    Transfer,  \* the transfers a behaviour requests
    Upload,    \* the ones whose bytes come through /upload/{handle}; the
               \* others read a file or a URL
    Digest,    \* the ones requested with a sha256
    Peer,      \* "session": a password or a token; "trusted": the board
               \* itself or a verified proxy, which no lock is taken for
    None

ASSUME TransferAssumption ==
    /\ Upload \subseteq Transfer /\ Digest \subseteq Transfer
    /\ Peer \subseteq {"session", "trusted"}
    /\ None \notin Transfer

VARIABLES
    status,     \* StreamingState, and the transfer it speaks of
    worker,     \* how far each transfer's worker is
    cancelled,  \* the transfer's cancellation token
    channel,    \* where the sending half of an upload's channel is
    sent,       \* every byte of an upload was sent
    handler,    \* the request that is uploading to a transfer
    timer,      \* the transfer's timer is running
    gate,       \* the upload whose request holds the authentication context
    asked       \* a cancel request of a session is waiting to be served
vars == <<status, worker, cancelled, channel, sent, handler, timer, gate, asked>>

Status == [state : {"Ready", "Transferring", "Done", "Error"},
           id : Transfer \cup {None}, sender : BOOLEAN]
Transferring(t) == [state |-> "Transferring", id |-> t, sender |-> t \in Upload]
Done(t) == [state |-> "Done", id |-> t, sender |-> FALSE]
Error(t) == [state |-> "Error", id |-> t, sender |-> FALSE]

\* copying: copy_or_cancel; finishing: osupdate, the CRC check, the rename;
\* ok, failed and interrupted: ended, the status not yet told.
WorkerState == {"none", "copying", "finishing", "ok", "failed", "interrupted", "over"}

Init ==
    /\ status = [state |-> "Ready", id |-> None, sender |-> FALSE]
    /\ worker = [t \in Transfer |-> "none"]
    /\ cancelled = [t \in Transfer |-> FALSE]
    /\ channel = [t \in Transfer |-> "none"]
    /\ sent = [t \in Transfer |-> FALSE]
    /\ handler = [t \in Transfer |-> "none"]
    /\ timer = [t \in Transfer |-> FALSE]
    /\ gate = None
    /\ asked = FALSE

(***************************************************************************)
(* Replacing the status drops the context it held: TransferContext::drop   *)
(* cancels the transfer's token, and a sender nobody took goes with it.    *)
(***************************************************************************)
Ongoing(t) == status.state = "Transferring" /\ status.id = t

\* A mutant: the context has no Drop.
Replace_without_drop(s) ==
    /\ status' = s
    /\ UNCHANGED <<cancelled, channel>>

Replace(s) ==
    /\ status' = s
    /\ cancelled' = [t \in Transfer |-> cancelled[t] \/ Ongoing(t)]
    /\ channel' = [t \in Transfer |->
                      IF Ongoing(t) /\ channel[t] = "held" THEN "closed" ELSE channel[t]]

\* The middleware locks the context to check a password or a token, and keeps
\* it locked until the request has been answered; the lock is fair, so a request
\* waits behind a cancel that asked before it.
Admitted(peer) == peer = "trusted" \/ (gate = None /\ ~ asked)

(***************************************************************************)
(* opt=set&type=flash|firmware: request_transfer.                          *)
(***************************************************************************)
\* A mutant: no timer is started.
request_without_timer(t) ==
    /\ worker[t] = "none"
    /\ worker' = [worker EXCEPT ![t] = "copying"]
    /\ status' = Transferring(t)
    /\ cancelled' = [u \in Transfer |-> cancelled[u] \/ Ongoing(u)]
    /\ channel' = [u \in Transfer |->
                      IF u = t /\ t \in Upload THEN "held"
                      ELSE IF Ongoing(u) /\ channel[u] = "held" THEN "closed" ELSE channel[u]]
    /\ UNCHANGED timer

request_transfer(t) ==
    /\ worker[t] = "none"
    /\ worker' = [worker EXCEPT ![t] = "copying"]
    /\ timer' = [timer EXCEPT ![t] = TRUE]
    /\ status' = Transferring(t)
    /\ cancelled' = [u \in Transfer |-> cancelled[u] \/ Ongoing(u)]
    /\ channel' = [u \in Transfer |->
                      IF u = t /\ t \in Upload THEN "held"
                      ELSE IF Ongoing(u) /\ channel[u] = "held" THEN "closed" ELSE channel[u]]

Request(t, peer) ==
    /\ Admitted(peer)
    /\ request_transfer(t)
    /\ UNCHANGED <<sent, handler, gate, asked>>

\* cancel_request_on_timeout: it looks at whatever transfer is there by now.
Timeout(t) ==
    /\ timer[t]
    /\ timer' = [timer EXCEPT ![t] = FALSE]
    /\ \/ /\ status.state = "Transferring" /\ status.sender
          /\ Replace(Error(status.id))
       \/ /\ ~ (status.state = "Transferring" /\ status.sender)
          /\ UNCHANGED <<status, cancelled, channel>>
    /\ UNCHANGED <<worker, sent, handler, gate, asked>>

(***************************************************************************)
(* POST /upload/{handle}: take_sender, then the chunks, then the count.    *)
(***************************************************************************)
take_sender(t, peer) ==
    /\ Admitted(peer)
    /\ Ongoing(t)
    /\ status.sender
    /\ status' = [status EXCEPT !.sender = FALSE]
    /\ channel' = [channel EXCEPT ![t] = "taken"]
    /\ handler' = [handler EXCEPT ![t] = "sending"]
    /\ gate' = IF peer = "session" THEN t ELSE gate
    /\ UNCHANGED <<worker, cancelled, sent, timer, asked>>

\* The handler returns: its sender is dropped, the context is unlocked.
Return(t) ==
    /\ handler' = [handler EXCEPT ![t] = "none"]
    /\ channel' = [channel EXCEPT ![t] = "closed"]
    /\ gate' = IF gate = t THEN None ELSE gate

SendAll(t) ==
    /\ handler[t] = "sending"
    /\ worker[t] = "copying"
    /\ sent' = [sent EXCEPT ![t] = TRUE]
    /\ Return(t)
    /\ UNCHANGED <<status, worker, cancelled, timer, asked>>

\* The body is no multipart form: the handler returns without a word to the
\* service.
BadForm(t) ==
    /\ handler[t] = "sending"
    /\ Return(t)
    /\ UNCHANGED <<status, worker, cancelled, sent, timer, asked>>

\* A client that stops short, or sends too much: cancel_all, whatever transfer
\* that cancels, with the sender still open, and then the return.
WrongSize(t) ==
    /\ handler[t] = "sending"
    /\ Replace(Error(status.id))
    /\ handler' = [handler EXCEPT ![t] = "returning"]
    /\ UNCHANGED <<worker, sent, timer, gate, asked>>

ReturnError(t) ==
    /\ handler[t] = "returning" \/ (handler[t] = "sending" /\ worker[t] # "copying")
    /\ Return(t)
    /\ UNCHANGED <<status, worker, cancelled, sent, timer, asked>>

(***************************************************************************)
(* GET /upload/{handle}/cancel: cancel_all, whatever the handle.           *)
(***************************************************************************)
AskToCancel ==
    /\ "session" \in Peer
    /\ ~ asked
    /\ status.state = "Transferring"
    /\ asked' = TRUE
    /\ UNCHANGED <<status, worker, cancelled, channel, sent, handler, timer, gate>>

Cancel(peer) ==
    /\ peer = "session" => asked /\ gate = None
    /\ asked' = IF peer = "session" THEN FALSE ELSE asked
    /\ Replace(Error(status.id))
    /\ UNCHANGED <<worker, sent, handler, timer, gate>>

(***************************************************************************)
(* The worker.  copy_or_cancel selects, in no order, between the end of    *)
(* the stream and the cancellation; it does not know the size.             *)
(***************************************************************************)
Step(t, from, to) ==
    /\ worker[t] = from
    /\ worker' = [worker EXCEPT ![t] = to]
    /\ UNCHANGED <<status, cancelled, channel, sent, handler, timer, gate, asked>>

Whole(t) == t \in Upload => sent[t]

ReadsToEnd(t) ==
    /\ t \in Upload => channel[t] = "closed"
    /\ \/ (t \in Digest => Whole(t)) /\ Step(t, "copying", "finishing")
       \/ /\ t \in Digest /\ ~ Whole(t)
          /\ Step(t, "copying", IF cancelled[t] THEN "interrupted" ELSE "failed")

Interrupted(t) ==
    /\ cancelled[t]
    /\ Step(t, "copying", "interrupted")

Fails(t, from) == Step(t, from, IF cancelled[t] THEN "interrupted" ELSE "failed")

Finishes(t) == Step(t, "finishing", "ok")

\* The end of execute_worker: an error of a cancelled worker is not reported;
\* any other outcome replaces whatever transfer the status holds.
execute_worker(t) ==
    /\ worker[t] \in {"ok", "failed", "interrupted"}
    /\ worker' = [worker EXCEPT ![t] = "over"]
    /\ \/ /\ status.state = "Transferring" /\ worker[t] # "interrupted"
          /\ Replace(IF worker[t] = "ok" THEN Done(t) ELSE Error(t))
       \/ /\ ~ (status.state = "Transferring" /\ worker[t] # "interrupted")
          /\ UNCHANGED <<status, cancelled, channel>>
    /\ UNCHANGED <<sent, handler, timer, gate, asked>>

Work(t) ==
    \/ ReadsToEnd(t)
    \/ Interrupted(t)
    \/ Finishes(t)
    \/ execute_worker(t)

Next ==
    \/ \E t \in Transfer, peer \in Peer : Request(t, peer) \/ take_sender(t, peer)
    \/ \E t \in Transfer : SendAll(t) \/ BadForm(t) \/ WrongSize(t) \/ ReturnError(t)
    \/ \E t \in Transfer : Timeout(t)
    \/ AskToCancel
    \/ \E peer \in Peer : Cancel(peer)
    \/ \E t \in Transfer : Work(t) \/ Fails(t, "copying") \/ Fails(t, "finishing")

Spec == Init /\ [][Next]_vars

\* The executors run what is ready: workers, timers, a handler whose channel is
\* gone or that has answered, and a request that is admitted.  Nothing is
\* assumed of the client that is uploading.
FairSpec ==
    /\ Spec
    /\ \A t \in Transfer : WF_vars(Work(t)) /\ WF_vars(Timeout(t)) /\ WF_vars(ReturnError(t))
    /\ WF_vars("session" \in Peer /\ Cancel("session"))

(***************************************************************************)
(* Properties.                                                             *)
(***************************************************************************)
TypeOK ==
    /\ status \in Status
    /\ worker \in [Transfer -> WorkerState]
    /\ cancelled \in [Transfer -> BOOLEAN]
    /\ channel \in [Transfer -> {"none", "held", "taken", "closed"}]
    /\ sent \in [Transfer -> BOOLEAN]
    /\ handler \in [Transfer -> {"none", "sending", "returning"}]
    /\ timer \in [Transfer -> BOOLEAN]
    /\ gate \in Transfer \cup {None}
    /\ asked \in BOOLEAN

\* "Calling this function cancels any ongoing transfers": a worker that was not
\* told to stop is the one the status speaks of, so no image is written behind
\* the back of whoever asks for the status, and two workers never write on.
NobodyRunsUnseen ==
    \A t \in Transfer :
        (worker[t] \in {"copying", "finishing"} /\ ~ cancelled[t]) => Ongoing(t)

\* "The state is already correct, therefore we omit a state transition": while
\* a transfer is going on, only its own outcome makes it Done.
OutcomeIsItsOwn ==
    [][ (status.state = "Transferring" /\ status'.state = "Done") => status'.id = status.id ]_vars

\* An upload that nobody starts is given up.
UnclaimedIsGivenUp ==
    \A t \in Transfer : (Ongoing(t) /\ status.sender) ~> ~ (Ongoing(t) /\ status.sender)

\* A worker that was cancelled comes to an end, and so does one that reads a
\* file or a URL: the status does not stay Transferring.
WorkersEnd ==
    \A t \in Transfer :
        (worker[t] = "copying" /\ (cancelled[t] \/ t \notin Upload)) ~> worker[t] = "over"

\* "GET /api/bmc/upload/{handle}/cancel aborts it" (README.md): a cancel that was
\* asked for is carried out, whatever else ends first, as long as no upload
\* holds the authentication context for ever.
CancelIsServed == []<>(gate = None) => (asked ~> ~ asked)

\* Nothing a transfer starts goes on for ever: a worker, a timer, a cancel.
TransfersEnd == UnclaimedIsGivenUp /\ WorkersEnd /\ CancelIsServed
=============================================================================
