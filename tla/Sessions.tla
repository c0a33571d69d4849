------------------------------ MODULE Sessions ------------------------------
(* The authentication context of the daemon: session tokens, penalties per     *)
(* peer and the cached password hashes, behind one lock. A request that shows  *)
(* a credential takes the lock, is judged, and keeps the lock while its        *)
(* handler runs; a login takes it before it reads its body. Time is a count of *)
(* ticks; `Second` ticks are one second, so that a ban can end inside one.     *)
EXTENDS Integers, Sequences

CONSTANTS
    Peer, User, Token, Password,
    Request,        \* the credentials a request may carry, see credential_line
    None,
    max_authentication_attempts, BAN_LEVELS, BAN_DURATION, expire_timeout,
    Second,
    LastTick        \* bound: the clock stops here

ASSUME S_Assumption ==
    /\ max_authentication_attempts \in Nat \ {0}
    /\ {BAN_LEVELS, expire_timeout, LastTick} \subseteq Nat
    /\ {BAN_DURATION, Second} \subseteq Nat \ {0}
    /\ None \notin Peer \cup User \cup Password

\* An entry of the store: whose the token is, and when it was last used.
TokenEntry == [user : User, last : Nat]
ASSUME EntriesAssumption == None \notin TokenEntry

VARIABLES
    s_now,          \* Instant::now()
    token_store,    \* [Token -> [user, last]], None where there is no entry
    issued,         \* tokens given out so far: a new one is random, never one of these
    penalties,      \* [Peer -> [attempts, deadline]]; no attempts: no entry
    passwds,        \* the cached hash of each user; None: the user is not in it
    context,        \* who holds the lock: None, a handler's or a login's peer
    guesses,        \* observed: credentials of a peer found wrong since one was right,
                    \*   and when the first of them was looked at
    accepted        \* observed: when a token last opened the door

s_vars == <<s_now, token_store, issued, penalties, passwds, context, guesses, accepted>>

Free == [by |-> "nobody", peer |-> None]

S_Init ==
    /\ s_now = 0
    /\ token_store = [t \in Token |-> None]
    /\ issued = {}
    /\ penalties = [p \in Peer |-> [attempts |-> 0, deadline |-> 0]]
    /\ passwds \in [User -> Password \cup {None}]
    /\ context = Free
    /\ guesses = [p \in Peer |-> [count |-> 0, first |-> 0]]
    /\ accepted = [t \in Token |-> 0]

-----------------------------------------------------------------------------
(* BanPatrol. *)

\* `deadline > now`: this runs before any credential is looked at.
Banned(p) == penalties[p].attempts > 0 /\ penalties[p].deadline > s_now

\* `1 << n`.
Doubled[n \in Nat] == IF n = 0 THEN 1 ELSE 2 * Doubled[n - 1]

Multiplier(exceeded) == Doubled[IF exceeded < BAN_LEVELS THEN exceeded ELSE BAN_LEVELS]

\* Seeded bug: the ban doubles only from the second offence on.
Penalized_late(p) ==
    [attempts |-> penalties[p].attempts + 1,
     deadline |-> IF penalties[p].attempts >= max_authentication_attempts
                  THEN s_now + BAN_DURATION *
                       Multiplier(penalties[p].attempts - max_authentication_attempts)
                  ELSE s_now]

Penalized(p) ==
    LET attempts == penalties[p].attempts + 1
        exceeded == attempts - max_authentication_attempts
    IN  [attempts |-> attempts,
         deadline |-> IF exceeded >= 0
                      THEN s_now + BAN_DURATION * Multiplier(exceeded)
                      ELSE IF penalties[p].attempts = 0 THEN s_now ELSE penalties[p].deadline]

penalize(p) ==
    /\ penalties' = [penalties EXCEPT ![p] = Penalized(p)]
    /\ guesses' = [guesses EXCEPT ![p] =
           [count |-> @.count + 1, first |-> IF @.count = 0 THEN s_now ELSE @.first]]

clear_penalties(p) ==
    /\ penalties' = [penalties EXCEPT ![p] = [attempts |-> 0, deadline |-> 0]]
    /\ guesses' = [guesses EXCEPT ![p] = [count |-> 0, first |-> 0]]

\* What `Retry-After` carries, in seconds: rounded up, never zero.
ban_seconds_remaining(deadline) ==
    LET remaining == deadline - s_now
        seconds == remaining \div Second + (IF remaining % Second # 0 THEN 1 ELSE 0)
    IN  IF seconds > 1 THEN seconds ELSE 1

\* Only a ban has an answer to "when again"; it is sent as a 429.
retry_after(p) == IF Banned(p) THEN ban_seconds_remaining(penalties[p].deadline) ELSE None

-----------------------------------------------------------------------------
(* The credential of a request. A request is                                   *)
(*   [authorization: a line, Absent or Unreadable,                               *)
(*    handshake: is it a whole websocket handshake,                            *)
(*    offered: the subprotocols it names, in order: a token after the prefix,  *)
(*             "empty" for a bare prefix, "plain" for any other name].         *)

Bearer(token) == [scheme |-> "Bearer", token |-> token]
Basic(user, password) == [scheme |-> "Basic", user |-> user, password |-> password]
Malformed == [scheme |-> "Basic", user |-> None, password |-> None]
Unsupported == [scheme |-> "other"]
NoScheme == [scheme |-> "none"]
Absent == [scheme |-> "absent"]
UnreadableHeader == [scheme |-> "unreadable"]

is_websocket_handshake(r) == r.handshake

\* The first entry with the prefix, if there is something after the prefix.
bearer_token(offered) ==
    LET credentials == SelectSeq(offered, LAMBDA e : e # "plain")
    IN  IF credentials = <<>> \/ credentials[1] = "empty" THEN None ELSE credentials[1]

credential_line(r) ==
    IF r.authorization = Absent /\ is_websocket_handshake(r) /\ bearer_token(r.offered) # None
    THEN Bearer(bearer_token(r.offered))
    ELSE r.authorization

-----------------------------------------------------------------------------
(* Judging a credential. Each outcome is an action; who gets in keeps the      *)
(* lock for its handler.                                                       *)

Refused == context' = Free

Enters(p) == context' = [by |-> "handler", peer |-> p]

\* A token that is not in the store counts against the peer.
UnknownToken(p, t) ==
    /\ ~Banned(p) /\ token_store[t] = None
    /\ penalize(p)
    /\ Refused
    /\ UNCHANGED <<token_store, accepted>>

LiveToken(p, t) ==
    /\ ~Banned(p) /\ token_store[t] # None
    /\ s_now - token_store[t].last < expire_timeout
    /\ token_store' = [token_store EXCEPT ![t].last = s_now]
    /\ accepted' = [accepted EXCEPT ![t] = s_now]
    /\ clear_penalties(p)
    /\ Enters(p)

\* An expired token leaves the store, and counts against nobody.
ExpiredToken(p, t) ==
    /\ ~Banned(p) /\ token_store[t] # None
    /\ s_now - token_store[t].last >= expire_timeout
    /\ token_store' = [token_store EXCEPT ![t] = None]
    /\ Refused
    /\ UNCHANGED <<penalties, guesses, accepted>>

authorize_bearer(p, t) == UnknownToken(p, t) \/ LiveToken(p, t) \/ ExpiredToken(p, t)

Valid(user, password) == passwds[user] # None /\ passwds[user] = password

\* validate_credentials, for a Basic line and for a login.
RightPassword(p, user, password) ==
    /\ ~Banned(p) /\ Valid(user, password)
    /\ clear_penalties(p)

WrongPassword(p, user, password) ==
    /\ ~Banned(p) /\ ~Valid(user, password)
    /\ penalize(p)

authorize_basic(p, user, password) ==
    /\ \/ RightPassword(p, user, password) /\ Enters(p)
       \/ WrongPassword(p, user, password) /\ Refused
    /\ UNCHANGED <<token_store, accepted>>

\* A banned peer is answered 429 whatever it shows, as long as what it shows
\* can be read; the rest (no header, an unreadable one, an unknown scheme, a
\* Basic line that does not decode) is refused before the ban is looked at.
authorize_request(p, line) ==
    \/ line.scheme = "Bearer" /\ authorize_bearer(p, line.token)
    \/ /\ line.scheme = "Basic" /\ line # Malformed
       /\ authorize_basic(p, line.user, line.password)
    \/ /\ \/ line = Malformed \/ line.scheme \in {"other", "none"}
          \/ Banned(p)
       /\ Refused
       /\ UNCHANGED <<token_store, penalties, guesses, accepted>>

Call(p, r) ==
    LET line == credential_line(r)
    IN  /\ context = Free
        /\ IF line \in {Absent, UnreadableHeader}
           THEN Refused /\ UNCHANGED <<token_store, penalties, guesses, accepted>>
           ELSE authorize_request(p, line)
        /\ UNCHANGED <<s_now, issued, passwds>>

Return ==
    /\ context.by = "handler"
    /\ context' = Free
    /\ UNCHANGED <<s_now, token_store, issued, penalties, passwds, guesses, accepted>>

-----------------------------------------------------------------------------
(* Logging in: the lock is taken, then the body is read, then it is judged.    *)

LoginBegins(p) ==
    /\ context = Free
    /\ context' = [by |-> "login", peer |-> p]
    /\ UNCHANGED <<s_now, token_store, issued, penalties, passwds, guesses, accepted>>

\* Expired tokens leave the store, and the new one enters it.

new_and_remove_expired_tokens(t, user) ==
    [u \in Token |->
        IF u = t THEN [user |-> user, last |-> s_now]
        ELSE IF token_store[u] # None /\ s_now - token_store[u].last <= expire_timeout
             THEN token_store[u]
             ELSE None]

LoginSucceeds(user, password) ==
    /\ context.by = "login"
    /\ RightPassword(context.peer, user, password)
    /\ \E t \in Token \ issued :
           /\ token_store' = new_and_remove_expired_tokens(t, user)
           /\ issued' = issued \cup {t}
           /\ accepted' = [accepted EXCEPT ![t] = s_now]
    /\ context' = Free
    /\ UNCHANGED <<s_now, passwds>>

LoginFails(user, password) ==
    /\ context.by = "login"
    /\ WrongPassword(context.peer, user, password)
    /\ context' = Free
    /\ UNCHANGED <<s_now, token_store, issued, passwds, accepted>>

\* The peer is banned, or the body is no login.
LoginRefused ==
    /\ context.by = "login"
    /\ context' = Free
    /\ UNCHANGED <<s_now, token_store, issued, penalties, passwds, guesses, accepted>>

\* The watcher of /etc/shadow takes the lock and replaces the cache (see ShadowFile).
reload_password_cache ==
    /\ context = Free
    /\ passwds' \in [User -> Password \cup {None}]
    /\ UNCHANGED <<s_now, token_store, issued, penalties, context, guesses, accepted>>

S_Tick ==
    /\ s_now < LastTick
    /\ s_now' = s_now + 1
    /\ UNCHANGED <<token_store, issued, penalties, passwds, context, guesses, accepted>>

Login == \E user \in User, password \in Password :
             LoginSucceeds(user, password) \/ LoginFails(user, password)

S_Next ==
    \/ \E p \in Peer, r \in Request : Call(p, r)
    \/ \E p \in Peer : LoginBegins(p)
    \/ Login
    \/ LoginRefused
    \/ Return
    \/ reload_password_cache
    \/ S_Tick

S_Spec == S_Init /\ [][S_Next]_s_vars

-----------------------------------------------------------------------------
(* The time a peer has to wait for its n-th guess after the free ones.         *)
BanTime[n \in Nat] ==
    IF n = 0 THEN 0 ELSE BAN_DURATION * Multiplier(n - 1) + BanTime[n - 1]

\* A peer that goes on guessing waits exponentially longer: whatever it shows -
\* passwords, tokens, logins - and however its requests interleave with those of
\* others, once it has shown `max` wrong credentials in a row the next is not
\* looked at before all its bans have been sat out one after the other
\* (ban_patrol.rs, "every consecutive failed attempt exponentially increases").
GuessesSlowDown ==
    \A p \in Peer :
        LET exceeded == guesses[p].count - max_authentication_attempts
        IN  exceeded >= 0 =>
                penalties[p].deadline >= guesses[p].first + BanTime[exceeded + 1]

\* A banned peer that waits as long as `Retry-After` says is looked at again:
\* the number is never too small, even when the ban ends inside a second.
WaitingAsToldIsEnough ==
    \A p \in Peer :
        Banned(p) =>
            LET told == retry_after(p)
            IN  told >= 1 /\ penalties[p].deadline <= s_now + told * Second

\* A session that was not used for its whole timeout is over: no step - a refused
\* use, another login, a reload - brings its token back.
ExpiredStaysExpired ==
    [][\A t \in issued :
           s_now - accepted[t] >= expire_timeout => accepted'[t] = accepted[t]]_s_vars

\* A session in use is not ended by another login: a token that would be accepted
\* now is in the store until it is used or its time is over.
LoginsSpareOthers ==
    \A t \in issued : s_now - accepted[t] < expire_timeout => token_store[t] # None

\* What the ban patrol, the token store and the Retry-After header promise a
\* peer, together (authentication_context, ban_patrol).
SessionsAreKept ==
    /\ [](GuessesSlowDown /\ WaitingAsToldIsEnough /\ LoginsSpareOthers)
    /\ ExpiredStaysExpired
=============================================================================
