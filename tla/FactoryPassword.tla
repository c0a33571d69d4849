--------------------------- MODULE FactoryPassword --------------------------
(* The gate of a board that still has its factory password: every request that *)
(* is not from the board itself asks whether root's hash in /etc/shadow        *)
(* verifies it; the answer is kept with the file's modification time. Requests *)
(* run on several threads, and the world changes the file under them.          *)
EXTENDS Integers

CONSTANTS
    RootHash,       \* what the file may hold for root; a file with no line for it too
    Factory,        \* the member of RootHash that verifies the factory password
    Caller,         \* requests being served at the same time
    NoAnswer,
    MaxStamp        \* bound: the latest time the file may have

ASSUME F_Assumption == Factory \in RootHash /\ MaxStamp \in Nat

VARIABLES
    shadow,         \* [hash, stamp]
    cached,         \* FactoryPassword.cached: [when, answer], or NoAnswer
    call,           \* [Caller -> a request in AuthenticationService::call]
    used,           \* history: the times the file has had, ...
    doubtful        \* ... had twice, or at which it could not be read

f_vars == <<shadow, cached, call, used, doubtful>>

NoStamp == -1       \* the file's time could not be read

Idle == [at |-> "idle", way |-> "none", path |-> "none", stamp |-> 0, answer |-> FALSE,
         onlyFactory |-> FALSE]

F_Init ==
    /\ shadow \in [hash : RootHash, stamp : {0}]
    /\ cached = NoAnswer
    /\ call = [c \in Caller |-> Idle]
    /\ used = {0} /\ doubtful = {}

\* A password is changed, over the API, over SSH or by hand: the file gets the
\* time of the clock, which is the one it has if it was written within the same
\* tick, or one it had if the clock was set back. `onlyFactory` observes whether a
\* request has seen nothing but the factory password.
Change(h, now) ==
    /\ shadow' = [hash |-> h, stamp |-> now]
    /\ used' = used \cup {now}
    /\ doubtful' = doubtful \cup (used \cap {now})
    /\ call' = [c \in Caller |-> IF h = Factory THEN call[c]
                                 ELSE [call[c] EXCEPT !.onlyFactory = FALSE]]
    /\ UNCHANGED cached

\* Evidence of a client certificate, and a name that is not empty.
decide_proxied_identity(proxy, claimed) == proxy /\ claimed

WayOf(loopback, proxy, claimed) ==
    IF loopback THEN "loopback"
    ELSE IF decide_proxied_identity(proxy, claimed) THEN "mtls"
    ELSE "session"

is_permitted(path) == path = "open"

\* Which way the request came; a session has shown its credential (see Sessions).
Arrive(c, loopback, proxy, claimed, path) ==
    LET way == WayOf(loopback, proxy, claimed)
    IN  /\ call[c] = Idle
        /\ call' = [call EXCEPT ![c] =
               [Idle EXCEPT !.at = IF way = "loopback" \/ is_permitted(path)
                                   THEN "handler" ELSE "stamp",
                            !.way = way, !.path = path,
                            !.onlyFactory = (shadow.hash = Factory)]]
        /\ UNCHANGED <<shadow, cached, used, doubtful>>

\* still_set: the file's time first, if it can be had ...
Stamp(c) ==
    /\ call[c].at = "stamp"
    /\ \E stamp \in {shadow.stamp, NoStamp} :
           call' = [call EXCEPT ![c] =
               IF cached # NoAnswer /\ cached.when = stamp
               THEN [@ EXCEPT !.at = "gate", !.stamp = stamp, !.answer = cached.answer]
               ELSE [@ EXCEPT !.at = "read", !.stamp = stamp]]
    /\ UNCHANGED <<shadow, cached, used, doubtful>>

\* ... then what is in it: a file with no line for root is not a factory board,
\* and one that cannot be read "answers false" ...
ReadHash(c) ==
    /\ call[c].at = "read"
    /\ \E readable \in BOOLEAN :
           /\ call' = [call EXCEPT ![c].at = "store", ![c].answer = readable /\ shadow.hash = Factory,
                                   ![c].onlyFactory = @ /\ readable]
           /\ doubtful' = IF readable THEN doubtful ELSE doubtful \cup ({call[c].stamp} \ {NoStamp})
    /\ UNCHANGED <<shadow, cached, used>>

\* Seeded bug: the file's time is taken after its content.
StoreAnswer_late(c) ==
    /\ call[c].at = "store"
    /\ cached' = [when |-> shadow.stamp, answer |-> call[c].answer]
    /\ call' = [call EXCEPT ![c].at = "gate"]
    /\ UNCHANGED <<shadow, used, doubtful>>

\* ... and the two are remembered together, that false too.
StoreAnswer(c) ==
    /\ call[c].at = "store"
    /\ cached' = IF call[c].stamp = NoStamp THEN cached
                 ELSE [when |-> call[c].stamp, answer |-> call[c].answer]
    /\ call' = [call EXCEPT ![c].at = "gate"]
    /\ UNCHANGED <<shadow, used, doubtful>>

\* FactoryPassword::permits.
Gate(c) ==
    /\ call[c].at = "gate"
    /\ IF call[c].answer
       THEN call' = [call EXCEPT ![c] = Idle]
       ELSE call' = [call EXCEPT ![c].at = "handler"]
    /\ UNCHANGED <<shadow, cached, used, doubtful>>

Serve(c) ==
    /\ call[c].at = "handler"
    /\ call' = [call EXCEPT ![c] = Idle]
    /\ UNCHANGED <<shadow, cached, used, doubtful>>

F_Next ==
    \/ \E h \in RootHash, now \in 0 .. MaxStamp : Change(h, now)
    \/ \E c \in Caller :
           \/ \E loopback, proxy, claimed \in BOOLEAN, path \in {"open", "other"} :
                  Arrive(c, loopback, proxy, claimed, path)
           \/ Stamp(c) \/ ReadHash(c) \/ StoreAnswer(c) \/ Gate(c) \/ Serve(c)

F_Spec == F_Init /\ [][F_Next]_f_vars

-----------------------------------------------------------------------------
\* A board that was on its factory password during the whole of a request lets
\* that request do nothing but what is open, however the readings of the file's
\* time and content interleave with its changes and with other requests - unless
\* that request could not read the file, or the time it found on it is one the file
\* had twice or one at which another request could not read it: what is remembered
\* with such a time is wrong for as long as the file keeps it.
GateHolds ==
    \A c \in Caller :
        (/\ call[c].at = "handler" /\ call[c].path = "other" /\ call[c].way # "loopback"
         /\ call[c].stamp \notin doubtful)
            => ~call[c].onlyFactory
=============================================================================
