---------------------------- MODULE AccessProofs ----------------------------
(***************************************************************************)
(* Who is let in and what they meet, for any number of requests and        *)
(* however their steps cross: the sessions, the watcher of the passwords,  *)
(* the factory gate, the served pair, and the settings a person saves.     *)
(***************************************************************************)
EXTENDS Sessions, ShadowWatcher, FactoryPassword, TlsAndTrust, BoardSettings,
        SequenceTheorems, Recursion, TLAPS

(***************************************************************************)
(* Sessions: what the store has of a token is when it last opened the      *)
(* door.                                                                   *)
(***************************************************************************)
SessionTypes ==
    /\ s_now \in Nat
    /\ token_store \in [Token -> TokenEntry \cup {None}]
    /\ accepted \in [Token -> Nat]
    /\ issued \subseteq Token

\* An entry is of a token that was given out, and no use of it is missing.
StoreIsUpToDate ==
    \A t \in Token : token_store[t] # None => t \in issued /\ token_store[t].last = accepted[t]

SessionInv ==
    /\ SessionTypes
    /\ StoreIsUpToDate
    /\ \A t \in Token : accepted[t] <= s_now
    /\ LoginsSpareOthers

\* What ExpiredStaysExpired says of a step.
StaysExpired == \A t \in issued : s_now - accepted[t] >= expire_timeout => accepted'[t] = accepted[t]

\* What is left alone stays as it is.
LEMMA SessionsAtRest ==
    ASSUME SessionInv, UNCHANGED <<s_now, token_store, issued, accepted>>
    PROVE  SessionInv' /\ StaysExpired
  BY DEF SessionInv, SessionTypes, StoreIsUpToDate, LoginsSpareOthers, StaysExpired

\* A token in time opens the door, and its time starts over.
LEMMA LiveTokenKeeps ==
    ASSUME SessionInv, NEW p, NEW t, LiveToken(p, t), UNCHANGED <<s_now, issued>>
    PROVE  SessionInv' /\ StaysExpired
<1>1. /\ token_store[t] # None /\ s_now - token_store[t].last < expire_timeout
      /\ token_store' = [token_store EXCEPT ![t] = [token_store[t] EXCEPT !.last = s_now]]
      /\ accepted' = [accepted EXCEPT ![t] = s_now]
  BY DEF LiveToken
<1>2. CASE t \notin Token
  <2>1. token_store' = token_store /\ accepted' = accepted
    BY <1>1, <1>2 DEF SessionInv, SessionTypes
  <2> QED BY <2>1, SessionsAtRest
<1>3. CASE t \in Token
  <2> DEFINE entry == [token_store[t] EXCEPT !.last = s_now]
  <2>1. /\ t \in issued /\ token_store[t] \in TokenEntry /\ token_store[t].last = accepted[t]
        /\ s_now \in Nat
    BY <1>1, <1>3 DEF SessionInv, SessionTypes, StoreIsUpToDate
  <2>2. entry \in TokenEntry /\ entry.last = s_now /\ entry # None
    BY <2>1, EntriesAssumption DEF TokenEntry
  <2> HIDE DEF entry
  <2>3. /\ token_store' \in [Token -> TokenEntry \cup {None}] /\ accepted' \in [Token -> Nat]
        /\ token_store'[t] = entry /\ accepted'[t] = s_now
        /\ \A u \in Token \ {t} : token_store'[u] = token_store[u] /\ accepted'[u] = accepted[u]
    BY <1>1, <1>3, <2>1, <2>2 DEF SessionInv, SessionTypes, entry
  <2>4. SessionTypes' /\ StoreIsUpToDate' /\ (\A u \in Token : accepted'[u] <= s_now')
    BY <2>1, <2>2, <2>3 DEF SessionInv, SessionTypes, StoreIsUpToDate
  <2>5. LoginsSpareOthers'
    BY <2>1, <2>2, <2>3 DEF SessionInv, SessionTypes, LoginsSpareOthers
  <2>6. StaysExpired
    <3>1. ~ (s_now - accepted[t] >= expire_timeout)
      BY <1>1, <1>3, <2>1, S_Assumption DEF SessionInv, SessionTypes
    <3> QED BY <2>3, <3>1 DEF StaysExpired, SessionInv, SessionTypes
  <2> QED BY <2>4, <2>5, <2>6 DEF SessionInv
<1> QED BY <1>2, <1>3

\* A token past its time leaves the store.
LEMMA ExpiredTokenKeeps ==
    ASSUME SessionInv, NEW p, NEW t, ExpiredToken(p, t), UNCHANGED <<s_now, issued>>
    PROVE  SessionInv' /\ StaysExpired
<1>1. /\ token_store[t] # None /\ s_now - token_store[t].last >= expire_timeout
      /\ token_store' = [token_store EXCEPT ![t] = None] /\ UNCHANGED accepted
  BY DEF ExpiredToken
<1>2. CASE t \notin Token
  <2>1. token_store' = token_store
    BY <1>1, <1>2 DEF SessionInv, SessionTypes
  <2> QED BY <1>1, <2>1, SessionsAtRest
<1>3. CASE t \in Token
  <2>1. /\ token_store' \in [Token -> TokenEntry \cup {None}] /\ token_store'[t] = None
        /\ \A u \in Token \ {t} : token_store'[u] = token_store[u]
    BY <1>1, <1>3 DEF SessionInv, SessionTypes
  <2>2. s_now - accepted[t] >= expire_timeout
    BY <1>1, <1>3 DEF SessionInv, StoreIsUpToDate
  <2>3. SessionTypes' /\ StoreIsUpToDate'
    BY <1>1, <2>1 DEF SessionInv, SessionTypes, StoreIsUpToDate
  <2>4. ~ (s_now - accepted[t] < expire_timeout)
    BY <1>3, <2>2, S_Assumption DEF SessionInv, SessionTypes
  <2>5. LoginsSpareOthers'
    BY <1>1, <2>1, <2>4, Zenon DEF SessionInv, SessionTypes, LoginsSpareOthers
  <2>6. StaysExpired
    BY <1>1 DEF StaysExpired
  <2> QED BY <1>1, <2>3, <2>5, <2>6 DEF SessionInv
<1> QED BY <1>2, <1>3

\* A login takes a token nobody has had and leaves every session that is not
\* over.
LEMMA LoginKeeps ==
    ASSUME SessionInv, NEW user \in User, NEW password, LoginSucceeds(user, password)
    PROVE  SessionInv' /\ StaysExpired
<1>1. PICK t \in Token \ issued :
          /\ token_store' = new_and_remove_expired_tokens(t, user)
          /\ issued' = issued \cup {t}
          /\ accepted' = [accepted EXCEPT ![t] = s_now]
          /\ UNCHANGED s_now
  BY Zenon DEF LoginSucceeds
<1> DEFINE entry == [user |-> user, last |-> s_now]
<1>2. entry \in TokenEntry /\ entry.last = s_now /\ entry # None
  BY EntriesAssumption DEF TokenEntry, SessionInv, SessionTypes
<1>3. /\ token_store' = [u \in Token |->
             IF u = t THEN entry
             ELSE IF token_store[u] # None /\ s_now - token_store[u].last <= expire_timeout
                  THEN token_store[u] ELSE None]
      /\ DOMAIN accepted = Token
  BY <1>1 DEF new_and_remove_expired_tokens, SessionInv, SessionTypes
<1> HIDE DEF entry
<1>4. /\ token_store' \in [Token -> TokenEntry \cup {None}] /\ accepted' \in [Token -> Nat]
      /\ token_store'[t] = entry /\ accepted'[t] = s_now
      /\ \A u \in Token \ {t} : accepted'[u] = accepted[u]
  BY <1>1, <1>2, <1>3 DEF SessionInv, SessionTypes
<1>5. ASSUME NEW u \in Token \ {t}
      PROVE  /\ token_store'[u] \in {token_store[u], None}
             /\ (token_store[u] # None /\ s_now - token_store[u].last <= expire_timeout)
                    => token_store'[u] = token_store[u]
  BY <1>3
<1>6. SessionTypes' /\ (\A u \in Token : accepted'[u] <= s_now')
  BY <1>1, <1>4 DEF SessionInv, SessionTypes
<1>7. StoreIsUpToDate'
  <2> SUFFICES ASSUME NEW u \in Token, token_store'[u] # None
               PROVE  u \in issued' /\ token_store'[u].last = accepted'[u]
    BY DEF StoreIsUpToDate
  <2>1. CASE u = t
    BY <1>1, <1>2, <1>4, <2>1
  <2>2. CASE u # t
    <3>1. token_store'[u] = token_store[u] /\ token_store[u] # None
      BY <1>5, <2>2
    <3> QED BY <1>1, <1>4, <2>2, <3>1 DEF SessionInv, StoreIsUpToDate
  <2> QED BY <2>1, <2>2
<1>8. LoginsSpareOthers'
  <2> SUFFICES ASSUME NEW u \in issued', s_now' - accepted'[u] < expire_timeout
               PROVE  token_store'[u] # None
    BY DEF LoginsSpareOthers
  <2>1. CASE u = t
    BY <1>2, <1>4, <2>1
  <2>2. CASE u # t
    <3>1. u \in issued /\ u \in Token /\ s_now - accepted[u] < expire_timeout
      BY <1>1, <1>4, <2>2 DEF SessionInv, SessionTypes
    <3>2. token_store[u] # None /\ token_store[u].last = accepted[u]
      BY <3>1 DEF SessionInv, LoginsSpareOthers, StoreIsUpToDate
    <3>3. s_now - token_store[u].last <= expire_timeout
      BY <3>1, <3>2, S_Assumption DEF SessionInv, SessionTypes
    <3> QED BY <1>5, <2>2, <3>1, <3>2, <3>3
  <2> QED BY <2>1, <2>2
<1>9. StaysExpired
  BY <1>1, <1>4 DEF StaysExpired, SessionInv, SessionTypes
<1> QED BY <1>6, <1>7, <1>8, <1>9 DEF SessionInv

LEMMA SessionsInit == S_Init => SessionInv
<1> SUFFICES ASSUME S_Init PROVE SessionInv
  OBVIOUS
<1>1. /\ s_now = 0 /\ issued = {} /\ token_store = [t \in Token |-> None]
      /\ accepted = [t \in Token |-> 0]
  BY DEF S_Init
<1> QED BY <1>1 DEF SessionInv, SessionTypes, StoreIsUpToDate, LoginsSpareOthers

LEMMA SessionsStep == SessionInv /\ [S_Next]_s_vars => SessionInv' /\ [StaysExpired]_s_vars
<1> SUFFICES ASSUME SessionInv, [S_Next]_s_vars PROVE SessionInv' /\ [StaysExpired]_s_vars
  OBVIOUS
<1>1. ASSUME NEW p \in Peer, NEW r \in Request, Call(p, r) PROVE SessionInv' /\ StaysExpired
  <2> DEFINE line == credential_line(r)
  <2>1. UNCHANGED <<s_now, issued>>
    BY <1>1 DEF Call
  <2>2. \/ UNCHANGED <<token_store, accepted>>
        \/ LiveToken(p, line.token) \/ ExpiredToken(p, line.token)
    BY <1>1, Zenon DEF Call, authorize_request, authorize_bearer, UnknownToken, authorize_basic
  <2> QED BY <2>1, <2>2, SessionsAtRest, LiveTokenKeeps, ExpiredTokenKeeps
<1>2. ASSUME NEW user \in User, NEW password \in Password,
             LoginSucceeds(user, password) \/ LoginFails(user, password)
      PROVE  SessionInv' /\ StaysExpired
  <2>1. CASE LoginSucceeds(user, password)
    BY <2>1, LoginKeeps
  <2>2. CASE LoginFails(user, password)
    BY <2>2, SessionsAtRest DEF LoginFails
  <2> QED BY <1>2, <2>1, <2>2
<1>3. CASE (\E p \in Peer : LoginBegins(p)) \/ LoginRefused \/ Return \/ reload_password_cache
  BY <1>3, SessionsAtRest DEF LoginBegins, LoginRefused, Return, reload_password_cache
<1>4. CASE S_Tick
  <2>1. s_now' = s_now + 1 /\ UNCHANGED <<token_store, issued, accepted>>
    BY <1>4 DEF S_Tick
  <2>2. LoginsSpareOthers'
    <3>1. ASSUME NEW t \in issued, s_now' - accepted[t] < expire_timeout PROVE s_now - accepted[t] < expire_timeout
      BY <2>1, <3>1, S_Assumption DEF SessionInv, SessionTypes
    <3> QED BY <2>1, <3>1, Zenon DEF SessionInv, LoginsSpareOthers
  <2> QED BY <2>1, <2>2 DEF SessionInv, SessionTypes, StoreIsUpToDate, StaysExpired
<1>5. CASE UNCHANGED s_vars
  BY <1>5, SessionsAtRest DEF s_vars
<1> QED BY <1>1, <1>2, <1>3, <1>4, <1>5, Zenon DEF S_Next, Login

(***************************************************************************)
(* Peers: what a guess costs.  The functions of the patrol are recursive;  *)
(* that they are functions at all comes first.                             *)
(***************************************************************************)
\* A shift to the left doubles.
LEMMA DoubledGoesOn == Doubled \in [Nat -> Nat] /\ Doubled[0] = 1 /\ \A n \in Nat : Doubled[n + 1] = 2 * Doubled[n]
<1> DEFINE next == [pair \in Nat \X Nat |-> 2 * pair[2]]
           Rule(f) == [n \in Nat |-> IF n = 0 THEN 1 ELSE 2 * f[n - 1]]
<1>1. next \in [Nat \X Nat -> Nat]
  OBVIOUS
<1>2. PICK f \in [Nat -> Nat] : f[0] = 1 /\ \A n \in Nat : f[n + 1] = next[<<n, f[n]>>]
  <2>1. 1 \in Nat
    OBVIOUS
  <2> HIDE DEF next
  <2>2. PICK f : f \in Followers(Nat, 1, next)
    BY <1>1, <2>1, FunctionIsThere, Zenon
  <2> QED BY <2>2 DEF Followers
<1>3. ASSUME NEW n \in Nat PROVE f[n] = Rule(f)[n]
  <2>1. CASE n = 0
    BY <2>1, <1>2
  <2>2. CASE n # 0
    <3>1. n - 1 \in Nat /\ (n - 1) + 1 = n
      BY <2>2
    <3>2. f[(n - 1) + 1] = 2 * f[n - 1]
      BY <1>2, <3>1
    <3> QED BY <2>2, <3>1, <3>2
  <2> QED BY <2>1, <2>2
<1>4. f = Rule(f)
  BY <1>3
<1>5. Doubled = Rule(Doubled)
  BY <1>4, Zenon DEF Doubled
<1>6. \A n \in Nat : Doubled[n] = IF n = 0 THEN 1 ELSE 2 * Doubled[n - 1]
  BY <1>5
<1>7. Doubled[0] = 1 /\ \A n \in Nat : Doubled[n + 1] = 2 * Doubled[n]
  BY <1>6
<1>8. {n \in Nat : Doubled[n] \in Nat} = Nat
  <2>1. 0 \in {n \in Nat : Doubled[n] \in Nat}
    BY <1>7
  <2>2. \A n \in Nat : n \in {m \in Nat : Doubled[m] \in Nat} => n + 1 \in {m \in Nat : Doubled[m] \in Nat}
    BY <1>7
  <2>3. Nat \subseteq {n \in Nat : Doubled[n] \in Nat}
    BY <2>1, <2>2, Induction
  <2> QED BY <2>3
<1>9. Doubled \in [Nat -> Nat]
  <2>1. \A n \in Nat : Doubled[n] \in Nat
    BY <1>8
  <2>2. Doubled = [n \in Nat |-> Doubled[n]]
    BY <1>5
  <2> QED BY <2>1, <2>2
<1> QED BY <1>7, <1>9

LEMMA MultiplierIsANumber == \A n \in Nat : Multiplier(n) \in Nat
  BY DoubledGoesOn, S_Assumption DEF Multiplier

LEMMA TimesIsANumber == \A m \in Nat, n \in Nat : m * n \in Nat
  OBVIOUS

\* Each ban comes on top of the ones before it.
LEMMA BanTimeGoesOn ==
    /\ BanTime \in [Nat -> Nat] /\ BanTime[0] = 0
    /\ \A n \in Nat : BanTime[n + 1] = BAN_DURATION * Multiplier(n) + BanTime[n]
<1> DEFINE next == [pair \in Nat \X Nat |-> BAN_DURATION * Multiplier(pair[1]) + pair[2]]
           Rule(f) == [n \in Nat |-> IF n = 0 THEN 0 ELSE BAN_DURATION * Multiplier(n - 1) + f[n - 1]]
<1>1. \A n \in Nat : BAN_DURATION * Multiplier(n) \in Nat
  BY MultiplierIsANumber, TimesIsANumber, S_Assumption
<1>2. PICK f \in [Nat -> Nat] : f[0] = 0 /\ \A n \in Nat : f[n + 1] = next[<<n, f[n]>>]
  <2>1. 0 \in Nat /\ next \in [Nat \X Nat -> Nat]
    BY <1>1
  <2> HIDE DEF next
  <2>2. PICK f : f \in Followers(Nat, 0, next)
    BY <1>1, <2>1, FunctionIsThere, Zenon
  <2> QED BY <2>2 DEF Followers
<1>3. ASSUME NEW n \in Nat PROVE f[n] = Rule(f)[n]
  <2>1. CASE n = 0
    BY <2>1, <1>2
  <2>2. CASE n # 0
    <3>1. n - 1 \in Nat /\ (n - 1) + 1 = n
      BY <2>2
    <3>2. f[(n - 1) + 1] = BAN_DURATION * Multiplier(n - 1) + f[n - 1]
      BY <1>2, <3>1
    <3> QED BY <2>2, <3>1, <3>2
  <2> QED BY <2>1, <2>2
<1>4. f = Rule(f)
  BY <1>3
<1>5. BanTime = Rule(BanTime)
  BY <1>4, Zenon DEF BanTime
<1>6. \A n \in Nat : BanTime[n] = IF n = 0 THEN 0 ELSE BAN_DURATION * Multiplier(n - 1) + BanTime[n - 1]
  BY <1>5
<1>7. BanTime[0] = 0 /\ \A n \in Nat : BanTime[n + 1] = BAN_DURATION * Multiplier(n) + BanTime[n]
  BY <1>6
<1> DEFINE S == {n \in Nat : BanTime[n] \in Nat}
<1>8. Nat \subseteq S
  <2>1. 0 \in S
    BY <1>7
  <2>2. \A n \in Nat : n \in S => n + 1 \in S
    BY <1>1, <1>7
  <2> QED BY <2>1, <2>2, Induction
<1>9. BanTime \in [Nat -> Nat]
  <2>1. \A n \in Nat : BanTime[n] \in Nat
    BY <1>8
  <2>2. BanTime = [n \in Nat |-> BanTime[n]]
    BY <1>5
  <2> QED BY <2>1, <2>2
<1> QED BY <1>7, <1>9

\* The patrol counts every guess, a peer that is not banned yet has nothing to
\* wait for, and the bans of one that guesses on come one after the other.
PeerInv ==
    /\ s_now \in Nat
    /\ penalties \in [Peer -> [attempts : Nat, deadline : Nat]]
    /\ guesses \in [Peer -> [count : Nat, first : Nat]]
    /\ \A p \in Peer : penalties[p].attempts = guesses[p].count /\ guesses[p].first <= s_now
    /\ GuessesSlowDown

LEMMA PeersAtRest ==
    ASSUME PeerInv, s_now' \in Nat, s_now <= s_now', UNCHANGED <<penalties, guesses>>
    PROVE  PeerInv'
  BY DEF PeerInv, GuessesSlowDown

LEMMA GuessKeeps ==
    ASSUME PeerInv, NEW p, ~ Banned(p), penalize(p), UNCHANGED s_now
    PROVE  PeerInv'
<1>1. CASE p \notin Peer
  <2>1. UNCHANGED <<penalties, guesses>>
    BY <1>1 DEF penalize, PeerInv
  <2> QED BY <2>1, PeersAtRest DEF PeerInv
<1>2. CASE p \in Peer
  <2> DEFINE exceeded == (penalties[p].attempts + 1) - max_authentication_attempts
  <2>1. /\ penalties[p] \in [attempts : Nat, deadline : Nat] /\ guesses[p] \in [count : Nat, first : Nat]
        /\ guesses[p].count = penalties[p].attempts /\ guesses[p].first <= s_now
        /\ s_now \in Nat /\ max_authentication_attempts \in Nat \ {0} /\ BAN_DURATION \in Nat
    BY <1>2, S_Assumption DEF PeerInv
  <2>2. /\ penalties' = [penalties EXCEPT ![p] = Penalized(p)]
        /\ guesses' = [guesses EXCEPT ![p] = [count |-> guesses[p].count + 1,
                          first |-> IF guesses[p].count = 0 THEN s_now ELSE guesses[p].first]]
    BY DEF penalize
  <2>3. /\ penalties'[p] = Penalized(p) /\ guesses'[p].count = guesses[p].count + 1
        /\ guesses'[p].first = IF guesses[p].count = 0 THEN s_now ELSE guesses[p].first
        /\ guesses'[p] \in [count : Nat, first : Nat]
    BY <1>2, <2>1, <2>2 DEF PeerInv
  <2>4. exceeded >= 0 => BAN_DURATION * Multiplier(exceeded) \in Nat
    <3> SUFFICES ASSUME exceeded >= 0 PROVE BAN_DURATION * Multiplier(exceeded) \in Nat
      OBVIOUS
    <3>1. exceeded \in Nat
      BY <2>1
    <3> HIDE DEF exceeded
    <3> QED BY <3>1, <2>1, MultiplierIsANumber, TimesIsANumber
  <2>5. /\ Penalized(p).attempts = penalties[p].attempts + 1
        /\ Penalized(p) \in [attempts : Nat, deadline : Nat]
        /\ exceeded >= 0 => Penalized(p).deadline = s_now + BAN_DURATION * Multiplier(exceeded)
    BY <2>1, <2>4 DEF Penalized
  <2>6. exceeded >= 0 => penalties'[p].deadline >= guesses'[p].first + BanTime[exceeded + 1]
    <3> SUFFICES ASSUME exceeded >= 0 PROVE Penalized(p).deadline >= guesses'[p].first + BanTime[exceeded + 1]
      BY <2>3
    <3>1. exceeded \in Nat /\ BAN_DURATION * Multiplier(exceeded) \in Nat
      BY <2>1, <2>4
    <3>2. BanTime[exceeded + 1] = BAN_DURATION * Multiplier(exceeded) + BanTime[exceeded]
      BY <3>1, BanTimeGoesOn, Zenon
    <3>3. BanTime[exceeded] \in Nat
      BY <3>1, BanTimeGoesOn
    <3>4. CASE exceeded = 0
      <4>1. BanTime[exceeded] = 0 /\ guesses'[p].first <= s_now /\ guesses'[p].first \in Nat
        BY <3>4, <2>1, <2>3, BanTimeGoesOn
      <4> HIDE DEF exceeded
      <4> QED BY <4>1, <3>1, <3>2, <2>1, <2>5
    <3>5. CASE exceeded # 0
      <4>1. /\ penalties[p].attempts > 0 /\ guesses[p].count # 0
            /\ guesses[p].count - max_authentication_attempts = exceeded - 1
            /\ exceeded - 1 >= 0 /\ (exceeded - 1) + 1 = exceeded
        BY <3>5, <3>1, <2>1
      <4>2. penalties[p].deadline <= s_now
        BY <4>1, <2>1 DEF Banned
      <4>3. penalties[p].deadline >= guesses[p].first + BanTime[exceeded]
        <5>1. penalties[p].deadline >= guesses[p].first + BanTime[(guesses[p].count - max_authentication_attempts) + 1]
          BY <1>2, <4>1 DEF PeerInv, GuessesSlowDown
        <5> QED BY <5>1, <4>1
      <4>4. guesses'[p].first = guesses[p].first
        BY <4>1, <2>3
      <4> HIDE DEF exceeded
      <4> QED BY <4>2, <4>3, <4>4, <3>1, <3>2, <3>3, <2>1, <2>5
    <3> QED BY <3>4, <3>5
  <2>7. GuessesSlowDown'
    <3> SUFFICES ASSUME NEW q \in Peer, guesses'[q].count - max_authentication_attempts >= 0
                 PROVE  penalties'[q].deadline >=
                            guesses'[q].first + BanTime[(guesses'[q].count - max_authentication_attempts) + 1]
      BY DEF GuessesSlowDown
    <3>1. CASE q = p
      <4>1. guesses'[q].count - max_authentication_attempts = exceeded
        BY <3>1, <2>1, <2>3
      <4> QED BY <3>1, <4>1, <2>6
    <3>2. CASE q # p
      <4>1. penalties'[q] = penalties[q] /\ guesses'[q] = guesses[q]
        BY <3>2, <2>2 DEF PeerInv
      <4> QED BY <4>1 DEF PeerInv, GuessesSlowDown
    <3> QED BY <3>1, <3>2
  <2>8. \A q \in Peer : penalties'[q].attempts = guesses'[q].count /\ guesses'[q].first <= s_now
    <3> SUFFICES ASSUME NEW q \in Peer PROVE penalties'[q].attempts = guesses'[q].count /\ guesses'[q].first <= s_now
      OBVIOUS
    <3>1. CASE q = p
      BY <3>1, <2>1, <2>3, <2>5
    <3>2. CASE q # p
      BY <3>2, <2>2 DEF PeerInv
    <3> QED BY <3>1, <3>2
  <2>9. /\ penalties' \in [Peer -> [attempts : Nat, deadline : Nat]]
        /\ guesses' \in [Peer -> [count : Nat, first : Nat]]
    <3>1. guesses' \in [Peer -> [count : Nat, first : Nat]]
      BY <2>2, <2>3, <1>2 DEF PeerInv
    <3> QED BY <3>1, <2>2, <2>5 DEF PeerInv
  <2> QED BY <2>7, <2>8, <2>9 DEF PeerInv
<1> QED BY <1>1, <1>2

LEMMA ForgivenKeeps ==
    ASSUME PeerInv, NEW p, clear_penalties(p), UNCHANGED s_now
    PROVE  PeerInv'
<1> DEFINE none == [attempts |-> 0, deadline |-> 0]
           none2 == [count |-> 0, first |-> 0]
<1>1. penalties' = [penalties EXCEPT ![p] = none] /\ guesses' = [guesses EXCEPT ![p] = none2]
  BY DEF clear_penalties
<1>2. /\ penalties' \in [Peer -> [attempts : Nat, deadline : Nat]]
      /\ guesses' \in [Peer -> [count : Nat, first : Nat]]
  BY <1>1 DEF PeerInv
<1>3. ASSUME NEW q \in Peer
      PROVE  \/ penalties'[q] = penalties[q] /\ guesses'[q] = guesses[q]
             \/ penalties'[q] = none /\ guesses'[q] = none2
  BY <1>1 DEF PeerInv
<1>4. GuessesSlowDown'
  <2> SUFFICES ASSUME NEW q \in Peer, guesses'[q].count - max_authentication_attempts >= 0
               PROVE  penalties'[q].deadline >=
                          guesses'[q].first + BanTime[(guesses'[q].count - max_authentication_attempts) + 1]
    BY DEF GuessesSlowDown
  <2>1. CASE penalties'[q] = penalties[q] /\ guesses'[q] = guesses[q]
    BY <2>1 DEF PeerInv, GuessesSlowDown
  <2>2. CASE guesses'[q] = none2
    BY <2>2, S_Assumption
  <2> QED BY <1>3, <2>1, <2>2
<1>5. \A q \in Peer : penalties'[q].attempts = guesses'[q].count /\ guesses'[q].first <= s_now'
  BY <1>3 DEF PeerInv
<1> QED BY <1>2, <1>4, <1>5 DEF PeerInv

LEMMA PeersInit == S_Init => PeerInv
<1> SUFFICES ASSUME S_Init PROVE PeerInv
  OBVIOUS
<1> QED BY S_Assumption DEF S_Init, PeerInv, GuessesSlowDown

LEMMA PeersStep == PeerInv /\ [S_Next]_s_vars => PeerInv'
<1> SUFFICES ASSUME PeerInv, [S_Next]_s_vars PROVE PeerInv'
  OBVIOUS
<1>1. ASSUME NEW p \in Peer, NEW r \in Request, Call(p, r) PROVE PeerInv'
  <2>1. /\ UNCHANGED s_now
        /\ \/ UNCHANGED <<penalties, guesses>>
           \/ ~ Banned(p) /\ penalize(p)
           \/ clear_penalties(p)
    BY <1>1, Zenon DEF Call, authorize_request, authorize_bearer, UnknownToken, LiveToken, ExpiredToken,
        authorize_basic, RightPassword, WrongPassword
  <2> QED BY <2>1, GuessKeeps, ForgivenKeeps, PeersAtRest DEF PeerInv
<1>2. ASSUME NEW user \in User, NEW password \in Password,
             LoginSucceeds(user, password) \/ LoginFails(user, password)
      PROVE  PeerInv'
  <2>1. CASE LoginSucceeds(user, password)
    BY <2>1, ForgivenKeeps DEF LoginSucceeds, RightPassword
  <2>2. CASE LoginFails(user, password)
    BY <2>2, GuessKeeps DEF LoginFails, WrongPassword
  <2> QED BY <1>2, <2>1, <2>2
<1>3. CASE (\E p \in Peer : LoginBegins(p)) \/ LoginRefused \/ Return \/ reload_password_cache
  BY <1>3, PeersAtRest DEF LoginBegins, LoginRefused, Return, reload_password_cache, PeerInv
<1>4. CASE S_Tick
  BY <1>4, PeersAtRest DEF S_Tick, PeerInv
<1>5. CASE UNCHANGED s_vars
  BY <1>5, PeersAtRest DEF s_vars, PeerInv
<1> QED BY <1>1, <1>2, <1>3, <1>4, <1>5, Zenon DEF S_Next, Login

LEMMA Divided == ASSUME NEW a \in Nat, NEW d \in Nat \ {0}
                 PROVE  a \div d \in Nat /\ a % d \in 0 .. d - 1 /\ a = d * (a \div d) + (a % d)
  OBVIOUS

\* Seconds are rounded up.
LEMMA RoundedUp ==
    ASSUME NEW a \in Nat, NEW d \in Nat \ {0}, a > 0
    PROVE  LET up == a \div d + (IF a % d # 0 THEN 1 ELSE 0) IN up \in Nat /\ up >= 1 /\ a <= up * d
<1> DEFINE q == a \div d
           r == a % d
<1>1. q \in Nat /\ r \in 0 .. d - 1 /\ a = d * q + r
  BY Divided
<1> HIDE DEF q, r
<1>2. CASE r = 0
  <2>1. q # 0
    BY <1>1, <1>2
  <2>2. a <= q * d
    BY <1>1, <1>2
  <2> QED BY <1>1, <1>2, <2>1, <2>2 DEF q, r
<1>3. CASE r # 0
  <2>1. (q + 1) * d = d * q + d
    BY <1>1
  <2>2. a <= (q + 1) * d
    <3> DEFINE w == d * q
    <3>1. w \in Nat /\ a = w + r /\ (q + 1) * d = w + d
      BY <1>1, <2>1
    <3> HIDE DEF w
    <3> QED BY <1>1, <3>1
  <2> QED BY <1>1, <1>3, <2>2 DEF q, r
<1> QED BY <1>2, <1>3

LEMMA WaitingHelps == PeerInv => WaitingAsToldIsEnough
<1> SUFFICES ASSUME PeerInv, NEW p \in Peer, Banned(p)
             PROVE  retry_after(p) >= 1 /\ penalties[p].deadline <= s_now + retry_after(p) * Second
  BY DEF WaitingAsToldIsEnough
<1> DEFINE remaining == penalties[p].deadline - s_now
           seconds == remaining \div Second + (IF remaining % Second # 0 THEN 1 ELSE 0)
<1>1. penalties[p].deadline \in Nat /\ s_now \in Nat /\ Second \in Nat \ {0} /\ remaining \in Nat /\ remaining > 0
  BY S_Assumption DEF PeerInv, Banned
<1>2. retry_after(p) = IF seconds > 1 THEN seconds ELSE 1
  BY DEF retry_after, ban_seconds_remaining
<1> HIDE DEF remaining
<1>3. seconds \in Nat /\ seconds >= 1 /\ remaining <= seconds * Second
  BY <1>1, RoundedUp
<1>4. seconds * Second \in Nat
  BY <1>1, <1>3, TimesIsANumber
<1> HIDE DEF seconds
<1>5. retry_after(p) = seconds
  BY <1>2, <1>3
<1> QED BY <1>1, <1>3, <1>4, <1>5 DEF remaining

\* For any number of peers and requests, whatever they show and however logins,
\* uses and reloads interleave: a session in time is in the store, whoever else
\* logs in, and one past its time never opens the door again; a peer that goes on
\* guessing sits out all its bans one after the other; and one that waits as long
\* as `Retry-After` says is looked at again.
THEOREM SessionsStayKept == S_Spec => SessionsAreKept
<1>1. SessionInv => LoginsSpareOthers
  BY DEF SessionInv
<1>2. PeerInv => GuessesSlowDown
  BY DEF PeerInv
<1> QED
  BY <1>1, <1>2, SessionsInit, SessionsStep, PeersInit, PeersStep, WaitingHelps, PTL
     DEF S_Spec, SessionsAreKept, ExpiredStaysExpired, StaysExpired

(***************************************************************************)
(* The watcher of /etc/shadow: a cache that is behind has its reading on   *)
(* the way.                                                                *)
(***************************************************************************)
Event == {"DELETE_SELF", "IGNORED", "CLOSE_WRITE"}
Gone == "DELETE_SELF"

\* What brings a reading: the file is being written, the inode goes away, or an
\* event is there; or else the change is known to be missed.
Coming == missed \/ writing \/ watch = "old" \/ \E i \in 1 .. Len(events) : events[i] # Gone

\* A watch that is there has no end of its own in the queue. One that is gone has
\* left two events, so that the one that has it bound again is not the last.
QueueFits ==
    IF watch # "none" THEN \A i \in 1 .. Len(events) : events[i] # Gone
    ELSE \E i \in 1 .. Len(events) :
             /\ events[i] = Gone
             /\ \A j \in 1 .. Len(events) : j # i => events[j] # Gone
             /\ i < Len(events)

WatcherInv ==
    /\ events \in Seq(Event)
    /\ watcher \in {"starting", "adding"} => watch = "none" /\ events = <<>>
    /\ watcher \in {"waiting", "reloading", "reading"} => QueueFits
    /\ watcher = "dead" => missed
    /\ (watcher # "starting" /\ hashes # shadow_file.hash) =>
           Coming \/ watcher \in {"reloading", "reading"}
    /\ (watcher = "reading" /\ opened.hash # shadow_file.hash) => Coming
    /\ watcher \in {"starting", "adding", "waiting", "reloading", "reading", "dead"}
    /\ watch \in {"none", "current", "old", "kept"}

LEMMA WatcherInit == W_Init => WatcherInv
  BY EmptySeq DEF W_Init, WatcherInv

\* A queue that fits has an event to come, when there is no watch.
LEMMA GoneLeavesOne ==
    ASSUME WatcherInv, QueueFits, watch = "none"
    PROVE  \E i \in 1 .. Len(events) : events[i] # Gone
<1>1. PICK i \in 1 .. Len(events) : /\ \A j \in 1 .. Len(events) : j # i => events[j] # Gone
                                    /\ i < Len(events)
  BY DEF QueueFits
<1>2. Len(events) \in 1 .. Len(events) /\ Len(events) # i
  BY <1>1, LenProperties DEF WatcherInv
<1> QED BY <1>1, <1>2

LEMMA ReplacingIsSeen ==
    ASSUME WatcherInv, NEW h \in Hash, NEW kept \in BOOLEAN, ReplaceFile(h, kept)
    PROVE  WatcherInv'
<1>1. /\ shadow_file' = [inode |-> shadow_file.inode + 1, hash |-> h]
      /\ watch' = CASE watch = "current" -> IF kept THEN "kept" ELSE "old"
                    [] watch = "kept" /\ kept -> "old"
                    [] OTHER -> watch
      /\ missed' = (missed \/ watcher \in {"adding", "dead"} \/ kept \/ watch = "kept")
      /\ UNCHANGED <<writing, events, watcher, opened, hashes, locked>>
  BY DEF ReplaceFile
<1>2. watch' \in {"none", "current", "old", "kept"} /\ (watch' = "none" <=> watch = "none")
  BY <1>1 DEF WatcherInv
<1>3. watcher \in {"waiting", "reloading", "reading"} => QueueFits'
  BY <1>1, <1>2 DEF WatcherInv, QueueFits
<1>4. watcher # "starting" => Coming'
  <2>1. CASE watcher \in {"adding", "dead"} \/ kept \/ watch = "kept"
    BY <1>1, <2>1 DEF Coming
  <2>2. CASE watch = "current" /\ ~ kept
    BY <1>1, <2>2 DEF Coming
  <2>3. CASE watch = "old" /\ ~ kept
    BY <1>1, <2>3 DEF Coming
  <2>4. CASE watch = "none" /\ watcher \in {"waiting", "reloading", "reading"}
    BY <1>1, <2>4, GoneLeavesOne DEF WatcherInv, Coming
  <2> QED BY <2>1, <2>2, <2>3, <2>4 DEF WatcherInv
<1> QED BY <1>1, <1>2, <1>3, <1>4 DEF WatcherInv

LEMMA WritingIsSeen ==
    ASSUME WatcherInv, NEW h \in Hash, CloseWrite(h)
    PROVE  WatcherInv'
<1>1. /\ shadow_file' = [shadow_file EXCEPT !.hash = h]
      /\ events' = IF watch = "current" THEN Append(events, "CLOSE_WRITE") ELSE events
      /\ missed' = (missed \/ watcher \in {"adding", "dead"} \/ watch = "kept")
      /\ UNCHANGED <<watch, watcher, opened, hashes, locked>>
  BY DEF CloseWrite
<1>2. CASE watch = "current"
  <2>1. /\ events' \in Seq(Event) /\ Len(events') = Len(events) + 1 /\ Len(events) \in Nat
        /\ \A i \in 1 .. Len(events) : events'[i] = events[i]
        /\ events'[Len(events) + 1] = "CLOSE_WRITE"
    BY <1>1, <1>2, AppendProperties, LenProperties DEF WatcherInv, Event
  <2>2. Coming'
    <3>1. Len(events') \in 1 .. Len(events') /\ events'[Len(events')] # Gone
      BY <2>1 DEF Gone
    <3> QED BY <3>1 DEF Coming
  <2>3. watcher \in {"waiting", "reloading", "reading"} => QueueFits'
    BY <1>1, <1>2, <2>1 DEF WatcherInv, QueueFits, Gone
  <2> QED BY <1>1, <1>2, <2>1, <2>2, <2>3 DEF WatcherInv
<1>3. CASE watch # "current"
  <2>1. watcher \in {"waiting", "reloading", "reading"} => QueueFits'
    BY <1>1, <1>3 DEF WatcherInv, QueueFits
  <2>2. watcher # "starting" => Coming'
    <3>1. CASE watcher \in {"adding", "dead"} \/ watch \in {"kept", "old"}
      BY <1>1, <3>1 DEF Coming
    <3>2. CASE watch = "none" /\ watcher \in {"waiting", "reloading", "reading"}
      BY <1>1, <1>3, <3>2, GoneLeavesOne DEF WatcherInv, Coming
    <3> QED BY <1>3, <3>1, <3>2 DEF WatcherInv
  <2> QED BY <1>1, <1>3, <2>1, <2>2 DEF WatcherInv
<1> QED BY <1>2, <1>3

LEMMA EvictingIsSeen == ASSUME WatcherInv, Evict PROVE WatcherInv'
<1> DEFINE two == <<"DELETE_SELF", "IGNORED">>
<1>1. /\ watch = "old" /\ watch' = "none" /\ events' = events \o two
      /\ UNCHANGED <<shadow_file, writing, watcher, opened, hashes, missed>>
  BY DEF Evict
<1>2. two \in Seq(Event) /\ Len(two) = 2 /\ two[1] = Gone /\ two[2] = "IGNORED"
  BY DEF Event, Gone
<1> HIDE DEF two
<1>3. /\ events' \in Seq(Event) /\ Len(events') = Len(events) + 2 /\ Len(events) \in Nat
      /\ \A i \in 1 .. Len(events') : events'[i] = IF i <= Len(events) THEN events[i] ELSE two[i - Len(events)]
  <2>1. events \in Seq(Event) /\ Len(events) \in Nat
    BY LenProperties DEF WatcherInv
  <2>2. /\ events \o two \in Seq(Event) /\ Len(events \o two) = Len(events) + Len(two)
        /\ \A i \in 1 .. Len(events) + Len(two) :
              (events \o two)[i] = IF i <= Len(events) THEN events[i] ELSE two[i - Len(events)]
    BY <1>2, <2>1, ConcatProperties
  <2> QED BY <1>1, <1>2, <2>1, <2>2
<1>4. events'[Len(events) + 1] = Gone /\ events'[Len(events) + 2] = "IGNORED"
  BY <1>2, <1>3
<1>5. Coming'
  <2>1. Len(events) + 2 \in 1 .. Len(events') /\ events'[Len(events) + 2] # Gone
    BY <1>3, <1>4 DEF Gone
  <2> QED BY <2>1 DEF Coming
<1>6. watcher \in {"waiting", "reloading", "reading"} => QueueFits'
  <2> SUFFICES ASSUME watcher \in {"waiting", "reloading", "reading"} PROVE QueueFits'
    OBVIOUS
  <2> DEFINE i == Len(events) + 1
  <2>1. \A j \in 1 .. Len(events) : events[j] # Gone
    BY <1>1 DEF WatcherInv, QueueFits
  <2>2. ASSUME NEW j \in 1 .. Len(events'), j # i PROVE events'[j] # Gone
    <3>1. CASE j <= Len(events)
      BY <1>3, <2>1, <3>1
    <3>2. CASE j = Len(events) + 2
      BY <1>4, <3>2 DEF Gone
    <3> QED BY <1>3, <2>2, <3>1, <3>2
  <2>3. i \in 1 .. Len(events') /\ i < Len(events') /\ events'[i] = Gone
    BY <1>3, <1>4
  <2> QED BY <1>1, <2>2, <2>3 DEF QueueFits
<1> QED BY <1>1, <1>3, <1>5, <1>6 DEF WatcherInv

\* The first event is taken.
LEMMA TakingAnEvent ==
    ASSUME WatcherInv, events # <<>>, events' = Tail(events)
    PROVE  /\ events' \in Seq(Event) /\ Len(events') = Len(events) - 1 /\ Len(events) \in Nat \ {0}
           /\ Head(events) = events[1]
           /\ \A i \in 1 .. Len(events') : events'[i] = events[i + 1]
  BY HeadTailProperties, LenProperties, EmptySeq DEF WatcherInv

LEMMA RebindingIsSafe == ASSUME WatcherInv, Rebind PROVE WatcherInv'
<1>1. /\ watcher = "waiting" /\ events # <<>> /\ Head(events) = Gone /\ watch' = "current"
      /\ events' = Tail(events)
      /\ UNCHANGED <<shadow_file, writing, watcher, opened, hashes, missed>>
  BY DEF Rebind, Gone
<1>2. /\ events' \in Seq(Event) /\ Len(events') = Len(events) - 1 /\ Len(events) \in Nat \ {0}
      /\ events[1] = Gone
      /\ \A i \in 1 .. Len(events') : events'[i] = events[i + 1]
  BY <1>1, TakingAnEvent
<1>3. watch = "none" /\ QueueFits
  BY <1>1, <1>2 DEF WatcherInv, QueueFits
<1>4. \A i \in 1 .. Len(events') : events'[i] # Gone
  BY <1>2, <1>3 DEF QueueFits
<1>5. 1 < Len(events)
  BY <1>2, <1>3 DEF QueueFits
<1>6. Coming'
  <2>1. 1 \in 1 .. Len(events')
    BY <1>2, <1>5
  <2> QED BY <1>4, <2>1 DEF Coming
<1> QED BY <1>1, <1>2, <1>4, <1>6 DEF WatcherInv, QueueFits

LEMMA NextEventReloads == ASSUME WatcherInv, NextEvent PROVE WatcherInv'
<1>1. /\ watcher = "waiting" /\ events # <<>> /\ Head(events) # Gone /\ watcher' = "reloading"
      /\ events' = Tail(events)
      /\ UNCHANGED <<shadow_file, writing, watch, opened, hashes, missed>>
  BY DEF NextEvent, Gone
<1>2. /\ events' \in Seq(Event) /\ Len(events') = Len(events) - 1 /\ Len(events) \in Nat \ {0}
      /\ events[1] # Gone
      /\ \A i \in 1 .. Len(events') : events'[i] = events[i + 1]
  BY <1>1, TakingAnEvent
<1>3. QueueFits'
  <2>1. CASE watch # "none"
    BY <1>1, <1>2, <2>1 DEF WatcherInv, QueueFits
  <2>2. CASE watch = "none"
    <3>1. PICK i \in 1 .. Len(events) :
              /\ events[i] = Gone
              /\ \A j \in 1 .. Len(events) : j # i => events[j] # Gone
              /\ i < Len(events)
      BY <1>1, <2>2 DEF WatcherInv, QueueFits
    <3>2. i - 1 \in 1 .. Len(events') /\ (i - 1) + 1 = i /\ i - 1 < Len(events')
      BY <1>2, <3>1
    <3>3. events'[i - 1] = Gone
      BY <1>2, <3>1, <3>2
    <3>4. ASSUME NEW j \in 1 .. Len(events'), j # i - 1 PROVE events'[j] # Gone
      BY <1>2, <3>1, <3>4
    <3> QED BY <1>1, <2>2, <3>2, <3>3, <3>4 DEF QueueFits
  <2> QED BY <2>1, <2>2
<1> QED BY <1>1, <1>2, <1>3 DEF WatcherInv

LEMMA WatcherStep == WatcherInv /\ [W_Next]_w_vars => WatcherInv'
<1> SUFFICES ASSUME WatcherInv, [W_Next]_w_vars PROVE WatcherInv'
  OBVIOUS
<1>1. CASE Changes
  <2>1. CASE Truncate
    BY <2>1 DEF Truncate, WatcherInv, Coming, QueueFits
  <2> QED BY <1>1, <2>1, ReplacingIsSeen, WritingIsSeen, EvictingIsSeen DEF Changes
<1>2. CASE FirstReading
  BY <1>2 DEF FirstReading, WatcherInv
<1>3. CASE AddWatch
  BY <1>3 DEF AddWatch, WatcherInv, QueueFits, Coming
<1>4. CASE OpenFile
  BY <1>4 DEF OpenFile, WatcherInv, QueueFits, Coming
<1>5. CASE Reload
  <2>1. PICK h \in Parsed : hashes' = h /\ missed' = (missed /\ h # shadow_file.hash)
    BY <1>5 DEF Reload
  <2>2. /\ watcher = "reading" /\ watcher' = "waiting"
        /\ UNCHANGED <<shadow_file, writing, watch, events>>
    BY <1>5 DEF Reload
  <2>3. h # shadow_file.hash => Coming'
    BY <2>1, <2>2 DEF Parsed, WatcherInv, Coming
  <2> QED BY <2>1, <2>2, <2>3 DEF WatcherInv, QueueFits
<1>6. CASE AddWatchFails
  BY <1>6 DEF AddWatchFails, WatcherInv, Coming
<1>7. CASE ReloadFails
  BY <1>7 DEF ReloadFails, WatcherInv, Coming, QueueFits
<1>8. CASE Take \/ Release \/ UNCHANGED w_vars
  BY <1>8 DEF Take, Release, w_vars, WatcherInv, Coming, QueueFits
<1> QED
  BY <1>1, <1>2, <1>3, <1>4, <1>5, <1>6, <1>7, <1>8, RebindingIsSafe, NextEventReloads DEF W_Next, Watcher

\* However long the queue is and however the file is changed: a cache that is
\* behind the file has a reading on its way, unless the change is one of those
\* that raise no event.
THEOREM StaleIsReloaded == W_Spec => [](missed \/ StaleHasAReload)
<1>1. WatcherInv => missed \/ StaleHasAReload
  BY DEF WatcherInv, StaleHasAReload, Coming, Gone
<1> QED BY <1>1, WatcherInit, WatcherStep, PTL DEF W_Spec

(***************************************************************************)
(* The factory gate.                                                       *)
(***************************************************************************)
Answer == [when : Nat, answer : BOOLEAN]
Calling == [at : {"idle", "stamp", "read", "store", "gate", "handler"},
            way : {"none", "loopback", "mtls", "session"}, path : {"none", "open", "other"},
            stamp : Int, answer : BOOLEAN, onlyFactory : BOOLEAN]

F_TypeOK ==
    /\ shadow \in [hash : RootHash, stamp : used]
    /\ used \subseteq Nat /\ doubtful \subseteq used
    /\ cached \in Answer \cup {NoAnswer}
    /\ call \in [Caller -> Calling]

\* An answer that goes by the file's present time, a time nobody has doubts about,
\* is the file's answer.
AnswerIsCurrent(when, answer) ==
    /\ when \in used
    /\ when = shadow.stamp /\ when \notin doubtful => (answer <=> shadow.hash = Factory)

\* What a request has read so far, judged by where it is.
Honest(r) ==
    /\ r.onlyFactory => shadow.hash = Factory
    /\ r.at \in {"read", "store"} => r.stamp \in used \cup {NoStamp}
    /\ r.at = "store" /\ r.stamp # NoStamp => AnswerIsCurrent(r.stamp, r.answer)
    /\ r.at \in {"store", "gate"} /\ r.onlyFactory => r.answer \/ r.stamp \in doubtful
    /\ r.at = "handler" /\ r.path = "other" /\ r.way # "loopback"
          => ~r.onlyFactory \/ r.stamp \in doubtful

F_Inv ==
    /\ F_TypeOK
    /\ cached # NoAnswer => AnswerIsCurrent(cached.when, cached.answer)
    /\ \A c \in Caller : Honest(call[c])

LEMMA GateInit == F_Init => F_Inv
<1> SUFFICES ASSUME F_Init PROVE F_Inv
  OBVIOUS
<1>1. Idle \in Calling /\ ~Idle.onlyFactory /\ Idle.at = "idle"
  BY DEF Idle, Calling
<1>2. F_TypeOK
  BY <1>1 DEF F_Init, F_TypeOK
<1>3. \A c \in Caller : Honest(call[c])
  BY <1>1 DEF F_Init, Honest
<1>4. QED
  BY <1>2, <1>3 DEF F_Init, F_Inv

LEMMA GateStep == F_Inv /\ [F_Next]_f_vars => F_Inv'
<1> SUFFICES ASSUME F_Inv, [F_Next]_f_vars PROVE F_Inv'
  OBVIOUS
<1>t. F_TypeOK /\ \A c \in Caller : call[c] \in Calling /\ Honest(call[c])
  BY DEF F_Inv, F_TypeOK
<1>1. ASSUME NEW h \in RootHash, NEW now \in 0 .. MaxStamp, Change(h, now) PROVE F_Inv'
  <2>1. /\ shadow'.hash = h /\ shadow'.stamp = now /\ now \in Nat
        /\ used' = used \cup {now} /\ doubtful' = doubtful \cup (used \cap {now})
        /\ shadow' \in [hash : RootHash, stamp : used'] /\ UNCHANGED cached
    BY <1>1, <1>t, F_Assumption DEF Change, F_TypeOK
  <2>2. ASSUME NEW c \in Caller PROVE call'[c] \in Calling /\ Honest(call[c])'
    <3>1. /\ \A f \in {"at", "way", "path", "stamp", "answer"} : call'[c][f] = call[c][f]
          /\ call'[c] \in Calling
          /\ call'[c].onlyFactory => call[c].onlyFactory /\ h = Factory
      BY <1>1, <1>t DEF Change, Calling
    <3>2. QED
      BY <1>t, <2>1, <3>1 DEF Honest, AnswerIsCurrent, F_TypeOK, Calling
  <2>3. call' \in [Caller -> Calling]
    BY <1>1, <2>2 DEF Change
  <2>4. (cached # NoAnswer => AnswerIsCurrent(cached.when, cached.answer))'
    BY <1>t, <2>1 DEF F_Inv, F_TypeOK, AnswerIsCurrent, Answer
  <2>5. used' \subseteq Nat /\ doubtful' \subseteq used'
    BY <1>t, <2>1 DEF F_TypeOK
  <2>6. F_TypeOK'
    BY <1>t, <2>1, <2>3, <2>5 DEF F_TypeOK
  <2>7. QED
    BY <2>2, <2>4, <2>6 DEF F_Inv
\* The steps of a request leave the file alone.
<1>2. ASSUME NEW c \in Caller, NEW r \in Calling, call' = [call EXCEPT ![c] = r], Honest(r),
             UNCHANGED <<shadow, used, doubtful>>, cached' \in Answer \cup {NoAnswer},
             (cached # NoAnswer => AnswerIsCurrent(cached.when, cached.answer))'
      PROVE  F_Inv'
  <2>1. F_TypeOK'
    BY <1>2, <1>t DEF F_TypeOK
  <2>2. ASSUME NEW d \in Caller PROVE Honest(call[d])'
    <3>1. call'[d] = IF d = c THEN r ELSE call[d]
      BY <1>2, <1>t DEF F_TypeOK
    <3>2. QED
      BY <1>2, <1>t, <3>1 DEF Honest, AnswerIsCurrent
  <2>3. QED
    BY <1>2, <2>1, <2>2 DEF F_Inv
\* Those that also leave the kept answer alone.
<1>3. ASSUME NEW c \in Caller, NEW r \in Calling, call' = [call EXCEPT ![c] = r], Honest(r),
             UNCHANGED <<shadow, cached, used, doubtful>>
      PROVE  F_Inv'
  BY <1>2, <1>3 DEF F_Inv, F_TypeOK, AnswerIsCurrent
<1>i. Idle \in Calling /\ Honest(Idle)
  BY DEF Idle, Calling, Honest
<1>4. ASSUME NEW c \in Caller, NEW loopback \in BOOLEAN, NEW proxy \in BOOLEAN, NEW claimed \in BOOLEAN,
             NEW path \in {"open", "other"}, Arrive(c, loopback, proxy, claimed, path)
      PROVE  F_Inv'
  <2> DEFINE way == WayOf(loopback, proxy, claimed)
             r == [Idle EXCEPT !.at = IF way = "loopback" \/ is_permitted(path) THEN "handler" ELSE "stamp",
                               !.way = way, !.path = path, !.onlyFactory = (shadow.hash = Factory)]
  <2>1. way \in {"loopback", "mtls", "session"}
    BY DEF WayOf
  <2>2. call' = [call EXCEPT ![c] = r] /\ UNCHANGED <<shadow, cached, used, doubtful>>
    BY <1>4 DEF Arrive
  <2>3. r \in Calling
    BY <2>1, <1>i DEF Calling
  <2>4. Honest(r)
    BY <2>1 DEF Idle, is_permitted, Honest
  <2> HIDE DEF r
  <2>5. QED
    BY <1>3, <2>2, <2>3, <2>4
<1>5. ASSUME NEW c \in Caller, Stamp(c) PROVE F_Inv'
  <2>1. PICK stamp \in {shadow.stamp, NoStamp} :
            call' = [call EXCEPT ![c] =
                IF cached # NoAnswer /\ cached.when = stamp
                THEN [@ EXCEPT !.at = "gate", !.stamp = stamp, !.answer = cached.answer]
                ELSE [@ EXCEPT !.at = "read", !.stamp = stamp]]
    BY <1>5 DEF Stamp
  <2>2. UNCHANGED <<shadow, cached, used, doubtful>>
    BY <1>5 DEF Stamp
  <2>3. stamp \in used \cup {NoStamp} /\ stamp \in Int
    BY <1>t DEF F_TypeOK, NoStamp
  <2>4. CASE cached # NoAnswer /\ cached.when = stamp
    <3> DEFINE r == [call[c] EXCEPT !.at = "gate", !.stamp = stamp, !.answer = cached.answer]
    <3>1. call' = [call EXCEPT ![c] = r]
      BY <2>1, <2>4, <1>t DEF F_TypeOK
    <3>2. /\ cached.answer \in BOOLEAN /\ stamp \in used
          /\ stamp = shadow.stamp /\ stamp \notin doubtful => (cached.answer <=> shadow.hash = Factory)
      BY <2>4 DEF F_Inv, F_TypeOK, Answer, AnswerIsCurrent
    <3>3. stamp = shadow.stamp
      BY <3>2, <1>t DEF F_TypeOK, NoStamp
    <3>4. r \in Calling
      BY <1>t, <2>3, <3>2 DEF Calling
    <3>5. r.onlyFactory => shadow.hash = Factory
      BY <1>t DEF Calling, Honest
    <3>6. Honest(r)
      BY <1>t, <3>2, <3>3, <3>5 DEF Calling, Honest
    <3> HIDE DEF r
    <3>7. QED
      BY <1>3, <2>2, <3>1, <3>4, <3>6
  <2>5. CASE ~(cached # NoAnswer /\ cached.when = stamp)
    <3> DEFINE r == [call[c] EXCEPT !.at = "read", !.stamp = stamp]
    <3>1. call' = [call EXCEPT ![c] = r]
      BY <2>1, <2>5, <1>t DEF F_TypeOK
    <3>2. r \in Calling
      BY <1>t, <2>3 DEF Calling
    <3>3. Honest(r)
      BY <1>t, <2>3 DEF Calling, Honest
    <3> HIDE DEF r
    <3>4. QED
      BY <1>3, <2>2, <3>1, <3>2, <3>3
  <2>6. QED
    BY <2>4, <2>5
\* A file that cannot be read makes its time a doubtful one.
<1>6. ASSUME NEW c \in Caller, ReadHash(c) PROVE F_Inv'
  <2>1. PICK readable \in BOOLEAN :
            /\ call' = [call EXCEPT ![c].at = "store", ![c].answer = readable /\ shadow.hash = Factory,
                                    ![c].onlyFactory = @ /\ readable]
            /\ doubtful' = IF readable THEN doubtful ELSE doubtful \cup ({call[c].stamp} \ {NoStamp})
    BY <1>6 DEF ReadHash
  <2>2. call[c].at = "read" /\ UNCHANGED <<shadow, cached, used>>
    BY <1>6 DEF ReadHash
  <2>3. /\ \A d \in Caller : d # c => call'[d] = call[d]
        /\ call'[c].at = "store" /\ call'[c].stamp = call[c].stamp
        /\ call'[c].answer = (readable /\ shadow.hash = Factory)
        /\ call'[c].onlyFactory = (call[c].onlyFactory /\ readable)
        /\ call'[c] \in Calling /\ call' \in [Caller -> Calling]
    <3> DEFINE r == [call[c] EXCEPT !.at = "store", !.answer = (readable /\ shadow.hash = Factory),
                                    !.onlyFactory = call[c].onlyFactory /\ readable]
    <3>1. call' = [call EXCEPT ![c] = r]
      BY <2>1, <1>t DEF F_TypeOK, Calling
    <3>2. /\ r \in Calling /\ r.at = "store" /\ r.stamp = call[c].stamp
          /\ r.answer = (readable /\ shadow.hash = Factory)
          /\ r.onlyFactory = (call[c].onlyFactory /\ readable)
      BY <1>t DEF Calling
    <3> HIDE DEF r
    <3>3. QED
      BY <1>t, <3>1, <3>2 DEF F_TypeOK
  <2>4. call[c].stamp \in used \cup {NoStamp} /\ (call[c].onlyFactory => shadow.hash = Factory)
    BY <1>t, <2>2 DEF Honest
  <2>5. doubtful \subseteq doubtful' /\ doubtful' \subseteq used'
    BY <1>t, <2>1, <2>2, <2>4 DEF F_TypeOK
  <2>6. ~readable /\ call[c].stamp # NoStamp => call[c].stamp \in doubtful'
    BY <2>1
  <2>7. F_TypeOK'
    BY <1>t, <2>2, <2>3, <2>5 DEF F_TypeOK
  <2>8. Honest(call[c])'
    <3>1. call'[c].stamp # NoStamp => AnswerIsCurrent(call[c].stamp, call[c].answer)'
      BY <2>2, <2>3, <2>4, <2>6 DEF AnswerIsCurrent
    <3>2. QED
      BY <2>2, <2>3, <2>4, <3>1 DEF Honest
  <2>9. ASSUME NEW d \in Caller, d # c PROVE Honest(call[d])'
    BY <1>t, <2>2, <2>3, <2>5, <2>9 DEF Honest, AnswerIsCurrent
  <2>10. (cached # NoAnswer => AnswerIsCurrent(cached.when, cached.answer))'
    BY <2>2, <2>5 DEF F_Inv, AnswerIsCurrent
  <2>11. QED
    BY <2>7, <2>8, <2>9, <2>10 DEF F_Inv
<1>7. ASSUME NEW c \in Caller, StoreAnswer(c) PROVE F_Inv'
  <2> DEFINE r == [call[c] EXCEPT !.at = "gate"]
  <2>1. call' = [call EXCEPT ![c] = r] /\ UNCHANGED <<shadow, used, doubtful>>
    BY <1>7, <1>t DEF StoreAnswer, F_TypeOK
  <2>2. r \in Calling
    BY <1>t DEF Calling
  <2>3. /\ Honest(r)
        /\ call[c].stamp # NoStamp
              => AnswerIsCurrent(call[c].stamp, call[c].answer) /\ call[c].stamp \in Nat
    BY <1>7, <1>t DEF StoreAnswer, Calling, Honest, AnswerIsCurrent, F_TypeOK
  <2>4. /\ cached' \in Answer \cup {NoAnswer}
        /\ (cached # NoAnswer => AnswerIsCurrent(cached.when, cached.answer))'
    <3>1. CASE call[c].stamp = NoStamp
      BY <1>7, <1>t, <2>1, <3>1 DEF StoreAnswer, F_Inv, F_TypeOK, AnswerIsCurrent
    <3>2. CASE call[c].stamp # NoStamp
      <4>1. cached' = [when |-> call[c].stamp, answer |-> call[c].answer]
        BY <1>7, <3>2 DEF StoreAnswer
      <4>2. cached'.when = call[c].stamp /\ cached'.answer = call[c].answer /\ cached' \in Answer
        BY <1>t, <2>3, <3>2, <4>1 DEF Calling, Answer
      <4>3. QED
        BY <2>1, <2>3, <3>2, <4>2 DEF AnswerIsCurrent
    <3>3. QED
      BY <3>1, <3>2
  <2> HIDE DEF r
  <2>5. QED
    BY <1>2, <2>1, <2>2, <2>3, <2>4
<1>8. ASSUME NEW c \in Caller, Gate(c) PROVE F_Inv'
  <2>1. CASE call[c].answer
    BY <1>3, <1>8, <1>i, <2>1 DEF Gate
  <2>2. CASE ~call[c].answer
    <3> DEFINE r == [call[c] EXCEPT !.at = "handler"]
    <3>1. call' = [call EXCEPT ![c] = r] /\ UNCHANGED <<shadow, cached, used, doubtful>>
      BY <1>8, <1>t, <2>2 DEF Gate, F_TypeOK
    <3>2. r \in Calling
      BY <1>t DEF Calling
    <3>3. Honest(r)
      BY <1>8, <1>t, <2>2 DEF Gate, Calling, Honest
    <3> HIDE DEF r
    <3>4. QED
      BY <1>3, <3>1, <3>2, <3>3
  <2>3. QED
    BY <2>1, <2>2
<1>9. ASSUME NEW c \in Caller, Serve(c) PROVE F_Inv'
  BY <1>3, <1>9, <1>i DEF Serve
<1>10. CASE UNCHANGED f_vars
  BY <1>10 DEF f_vars, F_Inv, F_TypeOK, Honest, AnswerIsCurrent
<1>11. QED
  BY <1>1, <1>4, <1>5, <1>6, <1>7, <1>8, <1>9, <1>10 DEF F_Next

\* A request that met nothing but the factory password, on whatever thread and
\* however the readings of the file cross its changes, is let through only to
\* what is open - unless it could not read the file, or the time it goes by is one
\* the file had twice or one at which it could not be read.
THEOREM GateStaysShut == F_Spec => []GateHolds
<1>1. F_Inv => GateHolds
  BY DEF F_Inv, F_TypeOK, Honest, GateHolds
<1>2. QED
  BY GateInit, GateStep, <1>1, PTL DEF F_Spec

(***************************************************************************)
(* The served pair.                                                        *)
(***************************************************************************)
Editing == [pair : PairName, header : {"no", "x-user"},
            at : {"done", "key", "certificate", "replace", "removing", "removing key",
                  "generator", "header"}]

tls_TypeOK ==
    /\ yaml \in [ca : BOOLEAN, header : BOOLEAN]
    /\ ca_file \in {Missing_file, "usable"}
    /\ serving \in {"stopped", "running", "cannot start"}
    /\ torn \in BOOLEAN
    /\ edit \in [Editor -> Editing]

\* The requests that have written one of the two files, or taken it away.
Midway == {e \in Editor : edit[e].at \in {"certificate", "replace", "removing key", "generator"}}

\* What such a request has left on the disk.
LeftByNow(r) ==
    /\ r.at = "certificate" => key_file = r.pair /\ cert_file = served.leaf
    /\ r.at = "replace" => key_file = r.pair /\ cert_file = r.pair
    /\ r.at = "removing key" => key_file = served.key /\ cert_file = Missing_file
    /\ r.at = "generator" => key_file = Missing_file /\ cert_file = Missing_file

Untorn ==
    /\ serving # "cannot start"
    /\ served.key = served.leaf
    /\ serving = "stopped" => key_file = cert_file
    /\ serving = "running" /\ Midway = {} => served.key = key_file /\ served.leaf = cert_file
    /\ \A e, f \in Midway : e = f
    /\ \A e \in Editor : LeftByNow(edit[e])

tls_Inv ==
    /\ tls_TypeOK
    /\ serving # "running" => \A e \in Editor : edit[e] = Idle_edit
    /\ ~torn => Untorn

LEMMA IdleEdit == Idle_edit \in Editing /\ Idle_edit.at = "done"
BY DEF Idle_edit, Editing, PairName

LEMMA TlsInit == tls_Init => tls_Inv
<1> SUFFICES ASSUME tls_Init PROVE tls_Inv
  OBVIOUS
<1>1. tls_TypeOK
  BY IdleEdit DEF tls_Init, tls_TypeOK
<1>2. Midway = {} /\ \A e \in Editor : edit[e] = Idle_edit /\ LeftByNow(edit[e])
  BY IdleEdit DEF tls_Init, Midway, LeftByNow
<1>3. QED
  BY <1>1, <1>2 DEF tls_Init, tls_Inv, Untorn, Nothing_served

LEMMA TlsStep == tls_Inv /\ [tls_Next]_tls_vars => tls_Inv'
<1> SUFFICES ASSUME tls_Inv, [tls_Next]_tls_vars PROVE tls_Inv'
  OBVIOUS
<1>t. tls_TypeOK /\ \A e \in Editor : edit[e] \in Editing
  BY DEF tls_Inv, tls_TypeOK
<1>1. CASE StartServing
  <2>1. edit' = edit /\ \A e \in Editor : edit[e] = Idle_edit
    BY <1>1 DEF StartServing, tls_Inv
  <2>2. Midway' = {} /\ \A e \in Editor : LeftByNow(edit[e])'
    BY <2>1, IdleEdit DEF Midway, LeftByNow
  <2>3. effective_client_ca # "unusable"
    BY <1>t DEF tls_TypeOK, effective_client_ca, Missing_file
  <2>4. tls_TypeOK'
    <3>1. serving' \in {"running", "cannot start"} /\ UNCHANGED <<yaml, ca_file, edit>>
      BY <1>1 DEF StartServing, Loads
    <3>2. torn' \in BOOLEAN
      BY <1>1 DEF StartServing
    <3>3. QED
      BY <1>t, <3>1, <3>2 DEF tls_TypeOK
  <2>5. ASSUME ~torn' PROVE key_file' = cert_file' /\ key_file' # Missing_file
    BY <1>1, <2>5, <1>t DEF StartServing, tls_Inv, tls_TypeOK, Untorn, Own, Missing_file
  <2>6. ASSUME ~torn' PROVE /\ serving' = "running"
                           /\ served'.key = key_file' /\ served'.leaf = cert_file'
    <3> DEFINE key == key_file'
               leaf == cert_file'
    <3>1. Loads(key, leaf) /\ key # Missing_file /\ leaf # Missing_file
      BY <1>1, <2>5, <2>6 DEF StartServing
    <3> HIDE DEF key, leaf
    <3>2. serving' = "running" /\ served' = [key |-> key, leaf |-> leaf, chain |-> FALSE]
      BY <2>3, <3>1 DEF Loads
    <3>3. QED
      BY <3>2 DEF key, leaf
  <2>7. QED
    BY <2>1, <2>2, <2>4, <2>5, <2>6 DEF tls_Inv, Untorn
<1>2. CASE StopServing
  <2>1. \A e \in Editor : edit'[e] = Idle_edit
    BY <1>2 DEF StopServing
  <2>2. Midway' = {} /\ \A e \in Editor : LeftByNow(edit[e])'
    BY <2>1, IdleEdit DEF Midway, LeftByNow
  <2>3. tls_TypeOK'
    <3>1. edit' \in [Editor -> Editing]
      BY <1>2, IdleEdit DEF StopServing
    <3>2. torn' \in BOOLEAN
      BY <1>2 DEF StopServing
    <3>3. serving' = "stopped" /\ UNCHANGED <<yaml, ca_file>>
      BY <1>2 DEF StopServing
    <3>4. QED
      BY <1>t, <3>1, <3>2, <3>3 DEF tls_TypeOK
  <2>4. ASSUME ~torn' PROVE key_file' = cert_file'
    <3>1. ~torn /\ \A e \in Editor : edit[e].at \notin {"certificate", "removing key"}
      BY <1>2, <2>4 DEF StopServing
    <3>2. CASE Midway = {}
      BY <1>2, <3>1, <3>2 DEF StopServing, tls_Inv, Untorn
    <3>3. ASSUME NEW e \in Midway PROVE key_file = cert_file
      <4>1. e \in Editor /\ edit[e].at \in {"replace", "generator"}
        BY <3>1 DEF Midway
      <4>2. LeftByNow(edit[e])
        BY <3>1, <4>1 DEF tls_Inv, Untorn
      <4>3. CASE edit[e].at = "replace"
        BY <4>2, <4>3 DEF LeftByNow
      <4>4. CASE edit[e].at = "generator"
        BY <4>2, <4>4 DEF LeftByNow
      <4>5. QED
        BY <4>1, <4>3, <4>4
    <3>4. QED
      BY <1>2, <3>2, <3>3 DEF StopServing
  <2>5. QED
    BY <1>2, <2>1, <2>2, <2>3, <2>4 DEF StopServing, tls_Inv, Untorn, Nothing_served
\* What a step of one request does to the others.
<1>3. ASSUME NEW e \in Editor, NEW r \in Editing, edit' = [edit EXCEPT ![e] = r]
      PROVE  /\ edit' \in [Editor -> Editing]
             /\ \A f \in Editor : edit'[f] = IF f = e THEN r ELSE edit[f]
  BY <1>3, <1>t DEF tls_TypeOK
\* A step that touches neither the pair nor the mark, of a request that is not
\* between two files before it or after it.
<1>4. ASSUME NEW e \in Editor, NEW r \in Editing, edit' = [edit EXCEPT ![e] = r],
             r.at \in {"done", "key", "removing", "header"}, edit[e].at \in {"done", "header"},
             serving = "running", ca_file' \in {Missing_file, "usable"},
             UNCHANGED <<yaml, key_file, cert_file, served, serving, torn>>
      PROVE  tls_Inv'
  <2>1. \A f \in Editor : edit'[f] = IF f = e THEN r ELSE edit[f]
    BY <1>3, <1>4
  <2>2. Midway' = Midway
    BY <1>4, <2>1 DEF Midway
  <2>3. ASSUME ~torn, NEW f \in Editor PROVE LeftByNow(edit[f])'
    BY <1>4, <2>1, <2>3 DEF tls_Inv, Untorn, LeftByNow
  <2>4. tls_TypeOK'
    BY <1>3, <1>4, <1>t DEF tls_TypeOK
  <2>5. QED
    BY <1>4, <2>2, <2>3, <2>4 DEF tls_Inv, Untorn
\* A step of a request for the pair: if it leaves the pair whole there was no
\* other request for it, and what it leaves is all there is to look at.
<1>5. ASSUME NEW e \in Editor, NEW r \in Editing, edit' = [edit EXCEPT ![e] = r],
             edit[e].at \in {"key", "certificate", "replace", "removing", "removing key", "generator"},
             torn' \in BOOLEAN, ~torn' => ~Crossed(e), UNCHANGED <<yaml, ca_file, serving>>,
             ~torn /\ ~torn' /\ Untorn =>
                 /\ served'.key = served'.leaf
                 /\ r.at \in {"done", "header", "key", "removing"} => served'.key = key_file' /\ served'.leaf = cert_file'
                 /\ LeftByNow(r)'
      PROVE  tls_Inv'
  <2>1. /\ edit' \in [Editor -> Editing]
        /\ \A f \in Editor : edit'[f] = IF f = e THEN r ELSE edit[f]
    BY <1>3, <1>5
  <2>2. serving = "running"
    BY <1>5, IdleEdit DEF tls_Inv
  <2>3. tls_TypeOK'
    BY <1>5, <1>t, <2>1 DEF tls_TypeOK
  <2>4. ASSUME ~torn' PROVE Untorn'
    <3>1. ~torn /\ Untorn /\ \A f \in Editor \ {e} : edit[f].at \in {"done", "header"}
      BY <1>5, <1>t, <2>4 DEF Crossed, OfThePair, tls_Inv, Editing
    <3>2. Midway' \subseteq {e} /\ (Midway' = {} => r.at \in {"done", "header", "key", "removing"})
      BY <2>1, <3>1 DEF Midway, Editing
    <3>3. \A f \in Editor : LeftByNow(edit[f])'
      BY <1>5, <2>1, <2>4, <3>1 DEF LeftByNow
    <3>4. QED
      BY <1>5, <2>2, <2>4, <3>1, <3>2, <3>3 DEF Untorn
  <2>5. QED
    BY <1>5, <2>2, <2>3, <2>4 DEF tls_Inv
<1>6. ASSUME NEW e \in Editor, put_certificate(e) PROVE tls_Inv'
  <2>1. PICK upload \in Upload : edit' = [edit EXCEPT ![e] = [Idle_edit EXCEPT !.pair = upload.pair, !.at = "key"]]
    BY <1>6 DEF put_certificate, Asks
  <2> DEFINE r == [Idle_edit EXCEPT !.pair = upload.pair, !.at = "key"]
  <2>2. r \in Editing /\ r.at = "key"
    BY DEF Upload, Idle_edit, Editing, PairName
  <2> HIDE DEF r
  <2>3. QED
    BY <1>4, <1>6, <1>t, <2>1, <2>2 DEF put_certificate, tls_TypeOK, r
<1>7. ASSUME NEW e \in Editor, delete_certificate(e) PROVE tls_Inv'
  <2> DEFINE r == [Idle_edit EXCEPT !.at = "removing"]
  <2>1. r \in Editing /\ r.at = "removing" /\ edit' = [edit EXCEPT ![e] = r]
    BY <1>7 DEF delete_certificate, Asks, Idle_edit, Editing, PairName
  <2> HIDE DEF r
  <2>2. QED
    BY <1>4, <1>7, <1>t, <2>1 DEF delete_certificate, tls_TypeOK
<1>8. ASSUME NEW e \in Editor, put_client_ca(e) PROVE tls_Inv'
  <2>1. PICK header \in {"no", "empty", "x-user"} :
            edit' = [edit EXCEPT ![e] = IF header = "x-user"
                                        THEN [Idle_edit EXCEPT !.header = header, !.at = "header"]
                                        ELSE Idle_edit]
    BY <1>8 DEF put_client_ca, Asks
  <2> DEFINE r == IF header = "x-user" THEN [Idle_edit EXCEPT !.header = header, !.at = "header"] ELSE Idle_edit
  <2>2. r \in Editing /\ r.at \in {"done", "header"}
    BY DEF Idle_edit, Editing, PairName
  <2>3. ca_file' = "usable"
    BY <1>8 DEF put_client_ca, trial_load
  <2> HIDE DEF r
  <2>4. QED
    BY <1>4, <1>8, <2>1, <2>2, <2>3 DEF put_client_ca, r
<1>9. ASSUME NEW e \in Editor, StoreHeader(e) PROVE tls_Inv'
  <2>1. serving = "running"
    BY <1>9, IdleEdit DEF StoreHeader, tls_Inv
  <2>2. QED
    BY <1>4, <1>9, <1>t, <2>1, IdleEdit DEF StoreHeader, Finished, tls_TypeOK
<1>10. ASSUME NEW e \in Editor, delete_client_ca(e) PROVE tls_Inv'
  <2>1. edit' = [edit EXCEPT ![e] = edit[e]]
    BY <1>10, <1>t DEF delete_client_ca, tls_TypeOK
  <2>2. QED
    BY <1>4, <1>10, <1>t, <2>1 DEF delete_client_ca
\* The request ends, or goes on to another step.
<1>a. ASSUME NEW e \in Editor, NEW step, Then(e, step),
             step \in {"certificate", "replace", "removing key", "generator"}
      PROVE  \E r \in Editing : /\ r.at = step /\ r.pair = edit[e].pair
                                 /\ edit' = [edit EXCEPT ![e] = r]
  <2> DEFINE r == [edit[e] EXCEPT !.at = step]
  <2>1. r \in Editing /\ r.at = step /\ r.pair = edit[e].pair
    BY <1>a, <1>t DEF Editing
  <2>2. edit' = [edit EXCEPT ![e] = r]
    BY <1>a, <1>t DEF Then, tls_TypeOK
  <2> HIDE DEF r
  <2>3. QED
    BY <2>1, <2>2
<1>b. \A e \in Editor : Finished(e) => edit' = [edit EXCEPT ![e] = Idle_edit]
  BY DEF Finished
<1>c. \A e \in Editor : Crossed(e) \in BOOLEAN
  BY <1>t DEF Crossed, tls_TypeOK
\* A request that has not begun to write finds the pair as it is served.
<1>d. ASSUME NEW e \in Editor, ~Crossed(e), Untorn, edit[e].at \in {"key", "removing"}
      PROVE  served.key = key_file /\ served.leaf = cert_file /\ LeftByNow(Idle_edit)
  <2>1. Midway = {}
    BY <1>d DEF Crossed, OfThePair, Midway
  <2>2. QED
    BY <1>d, <2>1, IdleEdit DEF tls_Inv, Untorn, LeftByNow
<1>11. ASSUME NEW e \in Editor, WriteKey(e) PROVE tls_Inv'
  <2>1. CASE key_file' = edit[e].pair /\ Then(e, "certificate")
    <3>1. PICK r \in Editing : /\ r.at = "certificate" /\ r.pair = edit[e].pair
                               /\ edit' = [edit EXCEPT ![e] = r]
      BY <1>a, <2>1
    <3>2. ~Crossed(e) /\ Untorn => LeftByNow(r)' /\ served'.key = served'.leaf
      BY <1>d, <1>11, <2>1, <3>1 DEF WriteKey, LeftByNow, Untorn
    <3>3. QED
      BY <1>5, <1>c, <1>11, <3>1, <3>2 DEF WriteKey
  <2>2. CASE UNCHANGED key_file /\ Finished(e)
    <3>1. ~Crossed(e) /\ Untorn => /\ LeftByNow(Idle_edit)'
                                   /\ served'.key = key_file' /\ served'.leaf = cert_file'
                                   /\ served'.key = served'.leaf
      BY <1>d, <1>11, <2>2, IdleEdit DEF WriteKey, LeftByNow, Untorn
    <3>2. QED
      BY <1>5, <1>b, <1>c, <1>11, <2>2, <3>1, IdleEdit DEF WriteKey
  <2>3. QED
    BY <1>11, <2>1, <2>2 DEF WriteKey
<1>12. ASSUME NEW e \in Editor, WriteCertificate(e) PROVE tls_Inv'
  <2>1. CASE cert_file' = edit[e].pair /\ Then(e, "replace") /\ torn' = Crossed(e)
    <3>1. PICK r \in Editing : /\ r.at = "replace" /\ r.pair = edit[e].pair
                               /\ edit' = [edit EXCEPT ![e] = r]
      BY <1>a, <2>1
    <3>2. Untorn => key_file = edit[e].pair /\ served.key = served.leaf
      BY <1>12 DEF WriteCertificate, Untorn, LeftByNow
    <3>3. Untorn => LeftByNow(r)' /\ served'.key = served'.leaf
      BY <1>12, <2>1, <3>1, <3>2 DEF WriteCertificate, LeftByNow
    <3>4. QED
      BY <1>5, <1>c, <1>12, <2>1, <3>1, <3>3 DEF WriteCertificate
  <2>2. CASE UNCHANGED cert_file /\ Finished(e) /\ torn' = TRUE
    BY <1>5, <1>b, <1>12, <2>2, IdleEdit DEF WriteCertificate
  <2>3. QED
    BY <1>12, <2>1, <2>2 DEF WriteCertificate
<1>13. ASSUME NEW e \in Editor, Replace_served(e) PROVE tls_Inv'
  <2>1. Untorn => key_file = edit[e].pair /\ cert_file = edit[e].pair
    BY <1>13 DEF Replace_served, Untorn, LeftByNow
  <2>2. Untorn => /\ LeftByNow(Idle_edit)' /\ served'.key = served'.leaf
                  /\ served'.key = key_file' /\ served'.leaf = cert_file'
    BY <1>13, <2>1, IdleEdit DEF Replace_served, LeftByNow
  <2>3. QED
    BY <1>5, <1>b, <1>c, <1>13, <2>2, IdleEdit DEF Replace_served
<1>14. ASSUME NEW e \in Editor, RemoveCertificate(e) PROVE tls_Inv'
  <2>1. CASE cert_file' = Missing_file /\ Then(e, "removing key")
    <3>1. PICK r \in Editing : /\ r.at = "removing key" /\ r.pair = edit[e].pair
                               /\ edit' = [edit EXCEPT ![e] = r]
      BY <1>a, <2>1
    <3>2. ~Crossed(e) /\ Untorn => LeftByNow(r)' /\ served'.key = served'.leaf
      BY <1>d, <1>14, <2>1, <3>1 DEF RemoveCertificate, LeftByNow, Untorn
    <3>3. QED
      BY <1>5, <1>c, <1>14, <3>1, <3>2 DEF RemoveCertificate
  <2>2. CASE UNCHANGED cert_file /\ Finished(e)
    <3>1. ~Crossed(e) /\ Untorn => /\ LeftByNow(Idle_edit)'
                                   /\ served'.key = key_file' /\ served'.leaf = cert_file'
                                   /\ served'.key = served'.leaf
      BY <1>d, <1>14, <2>2, IdleEdit DEF RemoveCertificate, LeftByNow, Untorn
    <3>2. QED
      BY <1>5, <1>b, <1>c, <1>14, <2>2, <3>1, IdleEdit DEF RemoveCertificate
  <2>3. QED
    BY <1>14, <2>1, <2>2 DEF RemoveCertificate
<1>15. ASSUME NEW e \in Editor, RemoveKey(e) PROVE tls_Inv'
  <2>1. CASE key_file' = Missing_file /\ Then(e, "generator") /\ torn' = Crossed(e)
    <3>1. PICK r \in Editing : /\ r.at = "generator" /\ r.pair = edit[e].pair
                               /\ edit' = [edit EXCEPT ![e] = r]
      BY <1>a, <2>1
    <3>2. Untorn => cert_file = Missing_file /\ served.key = served.leaf
      BY <1>15 DEF RemoveKey, Untorn, LeftByNow
    <3>3. Untorn => LeftByNow(r)' /\ served'.key = served'.leaf
      BY <1>15, <2>1, <3>1, <3>2 DEF RemoveKey, LeftByNow
    <3>4. QED
      BY <1>5, <1>c, <1>15, <2>1, <3>1, <3>3 DEF RemoveKey
  <2>2. CASE UNCHANGED key_file /\ Finished(e) /\ torn' = TRUE
    BY <1>5, <1>b, <1>15, <2>2, IdleEdit DEF RemoveKey
  <2>3. QED
    BY <1>15, <2>1, <2>2 DEF RemoveKey
<1>16. ASSUME NEW e \in Editor, Generate(e) PROVE tls_Inv'
  <2>1. Untorn => key_file = Missing_file /\ cert_file = Missing_file
    BY <1>16 DEF Generate, Untorn, LeftByNow
  <2>2. Untorn /\ ~torn' => /\ LeftByNow(Idle_edit)' /\ served'.key = served'.leaf
                            /\ served'.key = key_file' /\ served'.leaf = cert_file'
    BY <1>16, <2>1, IdleEdit DEF Generate, LeftByNow
  <2>3. torn' \in BOOLEAN /\ (~torn' => ~Crossed(e))
    BY <1>16, <1>c DEF Generate
  <2>4. QED
    BY <1>5, <1>b, <1>16, <2>2, <2>3, IdleEdit DEF Generate
<1>17. CASE UNCHANGED tls_vars
  <2>1. UNCHANGED <<yaml, key_file, cert_file, served, ca_file, serving, edit, torn>>
    BY <1>17 DEF tls_vars
  <2>2. QED
    BY <2>1 DEF tls_Inv, tls_TypeOK, Untorn, LeftByNow, Midway
<1>18. QED
  BY <1>1, <1>2, <1>6, <1>7, <1>8, <1>9, <1>10, <1>11, <1>12, <1>13, <1>14, <1>15, <1>16, <1>17
     DEF tls_Next, Edits

\* However uploads, deletions, failing writes and restarts follow one another,
\* the daemon starts and serves one pair, the one on the disk, unless two
\* requests crossed or one left half a pair behind.
THEOREM ServesOnePair == tls_Spec => []ServesWhatItKeeps
<1>1. ASSUME tls_Inv PROVE ServesWhatItKeeps
  <2>1. Midway \subseteq OfThePair
    BY DEF Midway, OfThePair
  <2>2. QED
    BY <1>1, <2>1 DEF tls_Inv, Untorn, ServesWhatItKeeps
<1>2. QED
  BY TlsInit, TlsStep, <1>1, PTL DEF tls_Spec


(***************************************************************************)
(* Settings.  First the requests, as the sequences of steps they are.      *)
(***************************************************************************)
Deeds == {"mkdir", "open", "fill", "remove", "live", "reload", "names", "read", "report"}
AnyValue ==
    HostName \cup {d.hostname : d \in Document} \cup Seq(Text) \cup Seq(SourceRecord)
    \cup {KnownNodes(d.nodes) : d \in Document}
Planned ==
    {SettingStep(setting, do, value) : setting \in Setting, do \in Deeds, value \in AnyValue}

LEMMA StepFields ==
    /\ \A setting, do, value : /\ SettingStep(setting, do, value).setting = setting
                               /\ SettingStep(setting, do, value).do = do
                               /\ Given(SettingStep(setting, do, value)) = value
    /\ \A x \in Planned : x.setting \in Setting /\ x.do \in Deeds
<1>1. ASSUME NEW setting, NEW do, NEW value
      PROVE  /\ SettingStep(setting, do, value).setting = setting
             /\ SettingStep(setting, do, value).do = do
             /\ Given(SettingStep(setting, do, value)) = value
  BY DEF SettingStep, Given
<1>2. ASSUME NEW x \in Planned PROVE x.setting \in Setting /\ x.do \in Deeds
  <2>1. PICK setting \in Setting, do \in Deeds, value \in AnyValue : x = SettingStep(setting, do, value)
    BY DEF Planned
  <2>2. QED
    BY <1>1, <2>1
<1>3. QED
  BY <1>1, <1>2

\* The lists a page may be given: valid, and one that was accepted but for
\* labels and locations that have moved.
Accepted_lists ==
    {Default} \cup SourceList
    \cup {f.holds : f \in {g \in FirstSources : IsFilled(g)}}
    \cup {d.firmware_sources : d \in {e \in Document : "firmware_sources" \in DOMAIN e}}
Descends(list, given) ==
    /\ Len(given) = Len(list)
    /\ \A i \in DOMAIN given : list[i].label = given[i].label \/ given[i].label = RETIRED_FORK_LABEL
Fits(list) ==
    list \in Seq(SourceRecord) /\ validate_sources(list) /\ \E given \in Accepted_lists : Descends(list, given)
Usable(list) == Fits(list) /\ \A i \in DOMAIN list : list[i].location # RETIRED_LOCATION

LEMMA AcceptedFits ==
    ASSUME NEW list \in Accepted_lists, list \in Seq(SourceRecord), validate_sources(list)
    PROVE  Fits(list)
  BY DEF Fits, Descends

LEMMA DefaultIsUsable == Usable(Default)
<1> DEFINE fork == [id |-> "fork", kind |-> "Github", label |-> FORK_LABEL,
                    location |-> FORK_LOCATION, shape |-> "owner/repo"]
           local == [id |-> "local", kind |-> "Local", label |-> "SD card",
                     location |-> "card", shape |-> "absolute"]
<1>1. /\ fork \in SourceRecord /\ fork.id = "fork" /\ fork.kind = "Github"
      /\ fork.location # RETIRED_LOCATION /\ fork.shape = "owner/repo"
  BY GivenAssumption DEF SourceRecord, FORK_LOCATION, RETIRED_LOCATION
<1>2. /\ local \in SourceRecord /\ local.id = "local" /\ local.kind = "Local"
      /\ local.location # RETIRED_LOCATION /\ local.shape = "absolute"
  BY GivenAssumption DEF SourceRecord, RETIRED_LOCATION
<1>3. Default = <<fork, local>>
  BY DEF Default
<1> HIDE DEF fork, local
<1>4. /\ Default \in Seq(SourceRecord) /\ DOMAIN Default = {1, 2}
      /\ Default[1] = fork /\ Default[2] = local
  BY <1>1, <1>2, <1>3
<1>5. "owner/repo" \in ShapeFor["Github"] /\ "absolute" \in ShapeFor["Local"]
  BY DEF ShapeFor
<1>6. validate_sources(Default) /\ \A i \in DOMAIN Default : Default[i].location # RETIRED_LOCATION
  BY <1>1, <1>2, <1>4, <1>5 DEF validate_sources
<1>7. Default \in Accepted_lists
  BY DEF Accepted_lists
<1>8. QED
  BY <1>4, <1>6, <1>7, AcceptedFits DEF Usable

\* Bringing a list up to date keeps it valid, and keeps the labels a person gave.
LEMMA MigrateFits == ASSUME NEW list, Fits(list) PROVE Usable(migrate(list))
<1> DEFINE new == migrate(list)
<1>1. list \in Seq(SourceRecord) /\ DOMAIN list = 1 .. Len(list) /\ Len(list) \in Nat
  BY LenProperties DEF Fits
<1>2. DOMAIN new = DOMAIN list
  BY DEF migrate
<1>3. ASSUME NEW i \in DOMAIN list
      PROVE  /\ new[i] \in SourceRecord /\ new[i].id = list[i].id /\ new[i].kind = list[i].kind
             /\ new[i].shape = list[i].shape /\ new[i].location # RETIRED_LOCATION
             /\ new[i].label = list[i].label \/ list[i].label = RETIRED_FORK_LABEL
  <2>1. list[i] \in SourceRecord
    BY <1>1, ElementOfSeq
  <2>2. CASE list[i].location # RETIRED_LOCATION
    BY <2>1, <2>2 DEF migrate
  <2>3. CASE list[i].location = RETIRED_LOCATION
    <3> DEFINE label == IF list[i].label = RETIRED_FORK_LABEL THEN FORK_LABEL ELSE list[i].label
    <3>1. new[i] = [list[i] EXCEPT !.location = FORK_LOCATION, !.label = label]
      BY <2>3 DEF migrate
    <3>2. FORK_LOCATION \in Text /\ label \in Text /\ FORK_LOCATION # RETIRED_LOCATION
      BY <2>1, GivenAssumption DEF FORK_LOCATION, RETIRED_LOCATION, SourceRecord
    <3>3. label = list[i].label \/ list[i].label = RETIRED_FORK_LABEL
      OBVIOUS
    <3> HIDE DEF label
    <3>4. QED
      BY <2>1, <3>1, <3>2, <3>3 DEF SourceRecord
  <2>4. QED
    BY <2>2, <2>3
<1>4. new \in Seq(SourceRecord) /\ Len(new) = Len(list)
  <2>1. new = [i \in 1 .. Len(list) |-> new[i]]
    BY <1>1 DEF migrate
  <2> HIDE DEF new
  <2>2. new \in [1 .. Len(list) -> SourceRecord]
    BY <1>1, <1>3, <2>1
  <2>3. new \in Seq(SourceRecord)
    BY <1>1, <2>2, SeqDef
  <2>4. QED
    BY <1>1, <1>2, <2>3, LenProperties
<1> HIDE DEF new
<1>5. validate_sources(new)
  BY <1>2, <1>3 DEF Fits, validate_sources
<1>6. PICK given \in Accepted_lists : Descends(list, given)
  BY DEF Fits
<1>7. Descends(new, given)
  <2>1. given \in Seq(SourceRecord)
    BY GivenAssumption, DefaultIsUsable DEF Accepted_lists, Usable, Fits
  <2>2. DOMAIN given = DOMAIN list
    BY <1>1, <1>6, <2>1, LenProperties DEF Descends
  <2>3. QED
    BY <1>3, <1>4, <1>6, <2>2 DEF Descends
<1>8. QED
  BY <1>2, <1>3, <1>4, <1>5, <1>6, <1>7 DEF Usable, Fits, new

\* A step that relies on the one before it, and what that one must be.
Waits(x) == x.do \in {"live", "reload", "report"}
Prepares(x, y) ==
    /\ x.setting = y.setting /\ Given(x) = Given(y)
    /\ \/ y.do = "live" /\ x.do = "fill"
       \/ y.do = "reload" /\ x.do \in {"fill", "remove"}
       \/ y.do = "report" /\ y.setting = "hostname" /\ x.do = "live"
       \/ y.do = "report" /\ y.setting = "ntp" /\ x.do = "reload"
       \/ y.do = "report" /\ y.setting = "sources" /\ x.do = "fill"
       \/ y.do = "report" /\ y.setting = "nodes" /\ x.do = "names"

\* What can be done of which setting, and with what.
Proper(x) ==
    /\ x.do = "live" => x.setting = "hostname"
    /\ x.do \in {"mkdir", "remove", "reload"} => x.setting = "ntp"
    /\ x.do = "remove" => Given(x) = << >>
    /\ x.do = "names" => x.setting = "nodes" /\ DOMAIN Given(x) \subseteq 1 .. 4
    /\ x.do = "read" => x.setting = "sources"
    /\ x.do \in {"open", "fill"} => x.setting \in {"hostname", "ntp", "sources"}
    /\ x.do = "fill" /\ x.setting = "ntp" => Given(x) \in Seq(Text)
    /\ x.do = "fill" /\ x.setting = "sources" => Fits(Given(x))

\* What is left of a request, and a request that has not begun.
Orderly(steps) ==
    /\ steps \in Seq(Planned)
    /\ \A i \in 1 .. Len(steps) : Proper(steps[i])
    /\ \A i \in 1 .. Len(steps) - 1 : Waits(steps[i + 1]) => Prepares(steps[i], steps[i + 1])
    /\ \A i, j \in 1 .. Len(steps) : i < j /\ steps[i].do = "report" => steps[j].setting # steps[i].setting
Program(steps, settings) ==
    /\ Orderly(steps)
    /\ Len(steps) > 0 => ~Waits(steps[1])
    /\ \A i \in 1 .. Len(steps) : steps[i].setting \in settings /\ steps[i].do # "read"

LEMMA NothingIsAProgram == \A settings : Program(<< >>, settings)
<1>1. << >> \in Seq(Planned) /\ Len(<< >>) = 0
  OBVIOUS
<1>2. QED
  BY <1>1 DEF Program, Orderly

LEMMA StepsOfOne ==
    ASSUME NEW setting \in Setting, NEW value \in AnyValue, NEW doing \in Seq(Deeds)
    PROVE  /\ Steps(setting, doing, value) \in Seq(Planned)
           /\ Len(Steps(setting, doing, value)) = Len(doing)
           /\ \A i \in 1 .. Len(doing) :
                /\ Steps(setting, doing, value)[i].setting = setting
                /\ Steps(setting, doing, value)[i].do = doing[i]
                /\ Given(Steps(setting, doing, value)[i]) = value
<1> DEFINE steps == Steps(setting, doing, value)
<1>1. Len(doing) \in Nat /\ DOMAIN doing = 1 .. Len(doing) /\ \A i \in 1 .. Len(doing) : doing[i] \in Deeds
  BY LenProperties
<1>2. steps = [i \in 1 .. Len(doing) |-> SettingStep(setting, doing[i], value)]
  BY <1>1 DEF Steps
<1>3. \A i \in 1 .. Len(doing) : SettingStep(setting, doing[i], value) \in Planned
  BY <1>1 DEF Planned
<1>4. steps \in [1 .. Len(doing) -> Planned]
  BY <1>2, <1>3
<1>5. steps \in Seq(Planned)
  BY <1>1, <1>4, SeqDef
<1>6. Len(steps) = Len(doing)
  BY <1>1, <1>4, <1>5, LenProperties
<1>7. QED
  BY <1>2, <1>5, <1>6, StepFields

LEMMA ProgramsJoin ==
    ASSUME NEW A, NEW B, A \cap B = {}, NEW one, NEW two, Program(one, A), Program(two, B)
    PROVE  Program(one \o two, A \cup B)
<1> DEFINE both == one \o two
<1>1. /\ one \in Seq(Planned) /\ two \in Seq(Planned) /\ Len(one) \in Nat /\ Len(two) \in Nat
  BY LenProperties DEF Program, Orderly
<1>2. /\ both \in Seq(Planned) /\ Len(both) = Len(one) + Len(two)
      /\ \A i \in 1 .. Len(one) + Len(two) : both[i] = IF i <= Len(one) THEN one[i] ELSE two[i - Len(one)]
  BY <1>1, ConcatProperties
<1> HIDE DEF both
<1>3. ASSUME NEW i \in 1 .. Len(both)
      PROVE  \/ i \in 1 .. Len(one) /\ both[i] = one[i]
             \/ i - Len(one) \in 1 .. Len(two) /\ both[i] = two[i - Len(one)]
  BY <1>1, <1>2
<1>4. \A i \in 1 .. Len(both) : Proper(both[i]) /\ both[i].setting \in A \cup B /\ both[i].do # "read"
  BY <1>3 DEF Program, Orderly
<1>5. ASSUME NEW i \in 1 .. Len(both) - 1, Waits(both[i + 1]) PROVE Prepares(both[i], both[i + 1])
  <2>1. CASE i + 1 <= Len(one)
    <3>1. i \in 1 .. Len(one) - 1 /\ both[i] = one[i] /\ both[i + 1] = one[i + 1]
      BY <1>1, <1>2, <2>1
    <3>2. QED
      BY <1>5, <3>1 DEF Program, Orderly
  <2>2. CASE i = Len(one)
    <3>1. Len(two) > 0 /\ both[i + 1] = two[1]
      BY <1>1, <1>2, <2>2
    <3>2. QED
      BY <1>5, <3>1 DEF Program
  <2>3. CASE i > Len(one)
    <3> DEFINE k == i - Len(one)
    <3>1. k \in 1 .. Len(two) - 1 /\ both[i] = two[k] /\ both[i + 1] = two[k + 1]
      BY <1>1, <1>2, <2>3
    <3> HIDE DEF k
    <3>2. QED
      BY <1>5, <3>1 DEF Program, Orderly
  <2>4. QED
    BY <1>1, <1>2, <2>1, <2>2, <2>3
<1>6. ASSUME NEW i \in 1 .. Len(both), NEW j \in 1 .. Len(both), i < j, both[i].do = "report"
      PROVE  both[j].setting # both[i].setting
  <2>1. CASE j <= Len(one)
    <3>1. i \in 1 .. Len(one) /\ j \in 1 .. Len(one) /\ both[i] = one[i] /\ both[j] = one[j]
      BY <1>1, <1>2, <1>6, <2>1
    <3>2. QED
      BY <1>6, <3>1 DEF Program, Orderly
  <2>2. CASE i <= Len(one) /\ j > Len(one)
    <3>1. both[i].setting \in A /\ both[j].setting \in B
      <4>1. i \in 1 .. Len(one) /\ j - Len(one) \in 1 .. Len(two)
            /\ both[i] = one[i] /\ both[j] = two[j - Len(one)]
        BY <1>1, <1>2, <2>2
      <4>2. QED
        BY <4>1 DEF Program
    <3>2. QED
      BY <3>1
  <2>3. CASE i > Len(one)
    <3> DEFINE k == i - Len(one)
               l == j - Len(one)
    <3>1. k \in 1 .. Len(two) /\ l \in 1 .. Len(two) /\ k < l /\ both[i] = two[k] /\ both[j] = two[l]
      BY <1>1, <1>2, <1>6, <2>3
    <3> HIDE DEF k, l
    <3>2. QED
      BY <1>6, <3>1 DEF Program, Orderly
  <2>4. QED
    BY <1>1, <1>2, <2>1, <2>2, <2>3
<1>7. Len(both) > 0 => ~Waits(both[1])
  <2>1. CASE Len(one) > 0
    <3>1. both[1] = one[1]
      BY <1>1, <1>2, <2>1
    <3>2. QED
      BY <2>1, <3>1 DEF Program
  <2>2. CASE Len(one) = 0
    <3>1. Len(both) = Len(two) /\ (Len(both) > 0 => both[1] = two[1])
      BY <1>1, <1>2, <2>2
    <3>2. QED
      BY <3>1 DEF Program
  <2>3. QED
    BY <1>1, <2>1, <2>2
<1>8. Orderly(both)
  BY <1>2, <1>4, <1>5, <1>6 DEF Orderly
<1>9. QED
  BY <1>4, <1>7, <1>8 DEF Program, both

LEMMA SetIsAProgram == ASSUME NEW name \in AnyValue PROVE Program(set(name), {"hostname"})
<1> DEFINE doing == <<"open", "fill", "live", "report">>
           steps == Steps("hostname", doing, name)
<1>1. /\ doing \in Seq(Deeds) /\ Len(doing) = 4
      /\ doing[1] = "open" /\ doing[2] = "fill" /\ doing[3] = "live" /\ doing[4] = "report"
  BY DEF Deeds
<1>2. "hostname" \in Setting
  BY DEF Setting
<1> HIDE DEF doing
<1>3. /\ steps \in Seq(Planned) /\ Len(steps) = 4
      /\ \A i \in 1 .. 4 : /\ steps[i].setting = "hostname" /\ Given(steps[i]) = name
                           /\ steps[i].do = doing[i]
  BY <1>1, <1>2, StepsOfOne
<1> HIDE DEF steps
<1>4. Program(steps, {"hostname"})
  BY <1>1, <1>3 DEF Program, Orderly, Proper, Waits, Prepares
<1>5. QED
  BY <1>4, NothingIsAProgram DEF set, steps, doing

LEMMA StoreServersIsAProgram ==
    ASSUME NEW servers \in Seq(Text) PROVE Program(store_servers(servers), {"ntp"})
<1> DEFINE doing == <<"mkdir", "open", "fill", "reload", "report">>
           steps == Steps("ntp", doing, servers)
           removing == <<"mkdir", "remove", "reload", "report">>
           fewer == Steps("ntp", removing, servers)
<1>1. /\ doing \in Seq(Deeds) /\ Len(doing) = 5 /\ doing[1] = "mkdir"
      /\ doing[2] = "open" /\ doing[3] = "fill" /\ doing[4] = "reload" /\ doing[5] = "report"
  BY DEF Deeds
<1>r. /\ removing \in Seq(Deeds) /\ Len(removing) = 4 /\ removing[1] = "mkdir"
      /\ removing[2] = "remove" /\ removing[3] = "reload" /\ removing[4] = "report"
  BY DEF Deeds
<1>2. "ntp" \in Setting /\ servers \in AnyValue
  BY DEF Setting, AnyValue
<1> HIDE DEF doing, removing
<1>3. /\ steps \in Seq(Planned) /\ Len(steps) = 5
      /\ \A i \in 1 .. 5 : /\ steps[i].setting = "ntp" /\ Given(steps[i]) = servers
                           /\ steps[i].do = doing[i]
  BY <1>1, <1>2, StepsOfOne
<1>4. /\ fewer \in Seq(Planned) /\ Len(fewer) = 4
      /\ \A i \in 1 .. 4 : /\ fewer[i].setting = "ntp" /\ Given(fewer[i]) = servers
                           /\ fewer[i].do = removing[i]
  BY <1>r, <1>2, StepsOfOne
<1> HIDE DEF steps, fewer
<1>5. Program(steps, {"ntp"})
  BY <1>1, <1>3 DEF Program, Orderly, Proper, Waits, Prepares
<1>6. servers = << >> => Program(fewer, {"ntp"})
  BY <1>r, <1>4 DEF Program, Orderly, Proper, Waits, Prepares
<1>7. QED
  BY <1>5, <1>6, NothingIsAProgram DEF store_servers, steps, doing, fewer, removing

LEMMA StoreIsAProgram ==
    ASSUME NEW list, Fits(list)
    PROVE  Program(store(list), {"sources"}) /\ Program(Steps("sources", <<"open", "fill", "report">>, list), {"sources"})
<1> DEFINE doing == <<"open", "fill">>
           steps == Steps("sources", doing, list)
           reporting == <<"open", "fill", "report">>
           more == Steps("sources", reporting, list)
<1>1. /\ doing \in Seq(Deeds) /\ Len(doing) = 2 /\ doing[1] = "open" /\ doing[2] = "fill"
      /\ reporting \in Seq(Deeds) /\ Len(reporting) = 3
      /\ reporting[1] = "open" /\ reporting[2] = "fill" /\ reporting[3] = "report"
  BY DEF Deeds
<1>2. "sources" \in Setting /\ list \in AnyValue
  BY DEF Setting, AnyValue, Fits
<1> HIDE DEF doing, reporting
<1>3. /\ steps \in Seq(Planned) /\ Len(steps) = 2
      /\ \A i \in 1 .. 2 : /\ steps[i].setting = "sources" /\ Given(steps[i]) = list
                           /\ steps[i].do = doing[i]
  BY <1>1, <1>2, StepsOfOne
<1>4. /\ more \in Seq(Planned) /\ Len(more) = 3
      /\ \A i \in 1 .. 3 : /\ more[i].setting = "sources" /\ Given(more[i]) = list
                           /\ more[i].do = reporting[i]
  BY <1>1, <1>2, StepsOfOne
<1> HIDE DEF steps, more
<1>5. Program(steps, {"sources"})
  BY <1>1, <1>3 DEF Program, Orderly, Proper, Waits, Prepares
<1>6. Program(more, {"sources"})
  BY <1>1, <1>4 DEF Program, Orderly, Proper, Waits, Prepares
<1>7. QED
  BY <1>5, <1>6 DEF store, steps, doing, more, reporting

LEMMA StoreSourcesIsAProgram ==
    ASSUME NEW list \in Accepted_lists, list \in Seq(SourceRecord)
    PROVE  Program(store_sources(list), {"sources"})
<1>1. CASE validate_sources(list)
  <2>1. Fits(list)
    BY <1>1, AcceptedFits
  <2>2. QED
    BY <1>1, <2>1, StoreIsAProgram DEF store_sources
<1>2. CASE ~validate_sources(list)
  BY <1>2, NothingIsAProgram DEF store_sources
<1>3. QED
  BY <1>1, <1>2

LEMMA SetNodesIsAProgram ==
    ASSUME NEW d \in Document PROVE Program(set_nodes(d.nodes), {"nodes"})
<1> DEFINE doing == <<"names", "report">>
           value == KnownNodes(d.nodes)
           steps == Steps("nodes", doing, value)
<1>1. doing \in Seq(Deeds) /\ Len(doing) = 2 /\ doing[1] = "names" /\ doing[2] = "report"
  BY DEF Deeds
<1>2. "nodes" \in Setting /\ value \in AnyValue /\ DOMAIN value \subseteq 1 .. 4
  BY DEF Setting, AnyValue, KnownNodes
<1> HIDE DEF doing, value
<1>3. /\ steps \in Seq(Planned) /\ Len(steps) = 2
      /\ \A i \in 1 .. 2 : /\ steps[i].setting = "nodes" /\ Given(steps[i]) = value
                           /\ steps[i].do = doing[i]
  BY <1>1, <1>2, StepsOfOne
<1> HIDE DEF steps
<1>4. Program(steps, {"nodes"})
  BY <1>1, <1>2, <1>3 DEF Program, Orderly, Proper, Waits, Prepares
<1>5. QED
  BY <1>4, NothingIsAProgram DEF set_nodes, steps, doing, value

\* A document is carried out setting by setting.
LEMMA ImportIsAProgram == ASSUME NEW d \in Document PROVE Program(import(d), Setting)
<1> DEFINE one == IF "hostname" \in DOMAIN d THEN set(d.hostname) ELSE << >>
           two == IF "ntp_servers" \in DOMAIN d THEN store_servers(d.ntp_servers) ELSE << >>
           three == IF "firmware_sources" \in DOMAIN d THEN store_sources(d.firmware_sources) ELSE << >>
           four == IF "nodes" \in DOMAIN d THEN set_nodes(d.nodes) ELSE << >>
<1>1. Program(one, {"hostname"})
  <2>1. d.hostname \in AnyValue
    BY DEF AnyValue
  <2>2. QED
    BY <2>1, SetIsAProgram, NothingIsAProgram
<1>2. Program(two, {"ntp"})
  BY GivenAssumption, StoreServersIsAProgram, NothingIsAProgram
<1>3. Program(three, {"sources"})
  <2>1. CASE "firmware_sources" \in DOMAIN d
    <3>1. d.firmware_sources \in Accepted_lists /\ d.firmware_sources \in Seq(SourceRecord)
      BY <2>1, GivenAssumption DEF Accepted_lists
    <3>2. QED
      BY <2>1, <3>1, StoreSourcesIsAProgram
  <2>2. CASE "firmware_sources" \notin DOMAIN d
    BY <2>2, NothingIsAProgram
  <2>3. QED
    BY <2>1, <2>2
<1>4. Program(four, {"nodes"})
  BY SetNodesIsAProgram, NothingIsAProgram
<1>5. import(d) = IF ~d.format_version THEN << >> ELSE ((one \o two) \o three) \o four
  BY DEF import
<1> HIDE DEF one, two, three, four
<1>6. Program(one \o two, {"hostname", "ntp"})
  <2>1. {"hostname"} \cap {"ntp"} = {} /\ {"hostname"} \cup {"ntp"} = {"hostname", "ntp"}
    OBVIOUS
  <2>2. Program(one \o two, {"hostname"} \cup {"ntp"})
    BY <1>1, <1>2, <2>1, ProgramsJoin
  <2>3. QED
    BY <2>1, <2>2
<1>7. Program((one \o two) \o three, {"hostname", "ntp", "sources"})
  <2>1. /\ {"hostname", "ntp"} \cap {"sources"} = {}
        /\ {"hostname", "ntp"} \cup {"sources"} = {"hostname", "ntp", "sources"}
    OBVIOUS
  <2>2. Program((one \o two) \o three, {"hostname", "ntp"} \cup {"sources"})
    BY <1>3, <1>6, <2>1, ProgramsJoin
  <2>3. QED
    BY <2>1, <2>2
<1>8. Program(((one \o two) \o three) \o four, Setting)
  <2>1. /\ {"hostname", "ntp", "sources"} \cap {"nodes"} = {}
        /\ {"hostname", "ntp", "sources"} \cup {"nodes"} = Setting
    BY DEF Setting
  <2>2. Program(((one \o two) \o three) \o four, {"hostname", "ntp", "sources"} \cup {"nodes"})
    BY <1>4, <1>7, <2>1, ProgramsJoin
  <2>3. QED
    BY <2>1, <2>2
<1>9. QED
  BY <1>5, <1>8, NothingIsAProgram

(***************************************************************************)
(* Then the board.                                                         *)
(***************************************************************************)
Files == {"hostname", "ntp", "sources"}

\* A value is in effect, as AppliedIsInEffect has it.
Effect(setting, value) ==
    /\ setting = "hostname" => live_name = value /\ on_disk.hostname = Holds(value)
    /\ setting = "ntp" => chrony_loaded = value /\ parse(on_disk.ntp) = value
    /\ setting = "sources" => on_disk.sources = Holds(value)
    /\ setting = "nodes" => \A n \in DOMAIN value : value[n] # "" => node_names[n] = value[n]

\* What a step may rely on if nobody else has touched its setting.
Prepared(x) ==
    /\ x.do = "live" => on_disk.hostname = Holds(Given(x))
    /\ x.do = "reload" => parse(on_disk.ntp) = Given(x)
    /\ x.do = "report" => Effect(x.setting, Given(x))

Touching(p, setting) == \E i \in 1 .. Len(jobs[p]) : jobs[p][i].setting = setting

TypesInv ==
    /\ DOMAIN jobs = Person /\ DOMAIN sole = Person /\ DOMAIN answered = Person
    /\ DOMAIN on_disk = Files /\ DOMAIN reported = Setting
    /\ \A p \in Person : Orderly(jobs[p])
ListsInv ==
    /\ IsFilled(on_disk.sources) => Fits(on_disk.sources.holds)
    /\ \A p \in Person : Usable(answered[p])
SoleInv ==
    \A p, q \in Person : \A s \in sole[p] : p # q /\ Touching(p, s) => ~Touching(q, s)
QuietInv ==
    \A p \in Person : \A i \in 1 .. Len(jobs[p]) :
        jobs[p][i].do # "read" => reported[jobs[p][i].setting] = Unreported
HeadsInv ==
    \A p \in Person : \A y : jobs[p] # << >> /\ jobs[p][1] = y /\ y.setting \in sole[p] => Prepared(y)
EffectInv ==
    \A s \in Setting : reported[s] # Unreported => Effect(s, reported[s].holds)
settings_Inv == TypesInv /\ ListsInv /\ SoleInv /\ QuietInv /\ HeadsInv /\ EffectInv

\* What a power cut may find of the sources is a list that was accepted, too.
FlashInv ==
    /\ DOMAIN flash = Setting
    /\ \A file \in flash["sources"] : IsFilled(file) => Fits(file.holds)

LEMMA SettingsInit == settings_Init => settings_Inv /\ FlashInv
<1> SUFFICES ASSUME settings_Init PROVE settings_Inv /\ FlashInv
  OBVIOUS
<1>1. TypesInv /\ \A p \in Person : jobs[p] = << >>
  BY NothingIsAProgram DEF settings_Init, TypesInv, Files, Program
<1>2. PICK first \in FirstSources \cup {NoFile} :
          on_disk = [hostname |-> Holds("turingpi"), ntp |-> NoFile, sources |-> first]
  <2>1. PICK first \in IF overlay = "mounted" THEN FirstSources ELSE {NoFile} :
            on_disk = [hostname |-> Holds("turingpi"), ntp |-> NoFile, sources |-> first]
    BY DEF settings_Init
  <2>2. QED
    BY <2>1
<1>3. on_disk.sources = first
  BY <1>2
<1>4. IsFilled(first) => Fits(first.holds)
  <2>1. IsFilled(first) => first \in FirstSources /\ first.holds \in Accepted_lists
    BY DEF Accepted_lists, IsFilled, NoFile
  <2>2. QED
    BY <2>1, GivenAssumption, AcceptedFits
<1>5. \A p \in Person : Usable(answered[p])
  BY DefaultIsUsable DEF settings_Init
<1>6. ListsInv
  BY <1>3, <1>4, <1>5 DEF ListsInv
<1>7. SoleInv /\ EffectInv
  BY DEF settings_Init, SoleInv, EffectInv
<1>8. QuietInv /\ HeadsInv
  BY <1>1 DEF QuietInv, HeadsInv
<1>9. FlashInv
  <2>1. flash["sources"] = {first} /\ DOMAIN flash = Setting
    BY <1>3 DEF settings_Init, Setting, Stored
  <2>2. QED
    BY <1>4, <2>1 DEF FlashInv
<1>10. QED
  BY <1>1, <1>6, <1>7, <1>8, <1>9 DEF settings_Inv

\* The settings but one are as they were.
Only(setting) ==
    /\ setting # "hostname" => live_name' = live_name /\ on_disk'.hostname = on_disk.hostname
    /\ setting # "ntp" => chrony_loaded' = chrony_loaded /\ on_disk'.ntp = on_disk.ntp
    /\ setting # "sources" => on_disk'.sources = on_disk.sources
    /\ setting # "nodes" => node_names' = node_names

LEMMA EffectOfTheReported ==
    ASSUME NEW s, NEW v, v = reported'[s].holds, Effect(s, v)'
    PROVE  Effect(s, reported[s].holds)'
<1>1. /\ s = "hostname" => live_name' = reported'[s].holds /\ on_disk'.hostname = Holds(reported'[s].holds)
      /\ s = "ntp" => chrony_loaded' = reported'[s].holds /\ parse(on_disk'.ntp) = reported'[s].holds
      /\ s = "sources" => on_disk'.sources = Holds(reported'[s].holds)
      /\ s = "nodes" => \A n \in DOMAIN v : v[n] # "" => node_names'[n] = v[n]
  BY DEF Effect
<1>2. QED
  BY <1>1 DEF Effect

LEMMA OthersAreLeftAlone ==
    ASSUME NEW setting, Only(setting), NEW other \in Setting, other # setting
    PROVE  /\ \A value : Effect(other, value) => Effect(other, value)'
           /\ \A x : Proper(x) /\ x.setting = other /\ Prepared(x) => Prepared(x)'
<1>1. ASSUME NEW value, Effect(other, value) PROVE Effect(other, value)'
  <2>1. CASE other = "hostname"
    BY <1>1, <2>1 DEF Effect, Only
  <2>2. CASE other = "ntp"
    BY <1>1, <2>2 DEF Effect, Only, parse
  <2>3. CASE other = "sources"
    BY <1>1, <2>3 DEF Effect, Only
  <2>4. CASE other = "nodes"
    BY <1>1, <2>4 DEF Effect, Only
  <2>5. QED
    BY <2>1, <2>2, <2>3, <2>4 DEF Setting
<1>2. ASSUME NEW x, Proper(x), x.setting = other, Prepared(x) PROVE Prepared(x)'
  <2>1. x.do = "report" => Effect(x.setting, Given(x))'
    BY <1>1, <1>2 DEF Prepared
  <2>2. x.do = "live" => (on_disk.hostname = Holds(Given(x)))'
    BY <1>2 DEF Prepared, Proper, Only
  <2>3. x.do = "reload" => (parse(on_disk.ntp) = Given(x))'
    BY <1>2 DEF Prepared, Proper, Only
  <2>4. QED
    BY <2>1, <2>2, <2>3 DEF Prepared
<1>3. QED
  BY <1>1, <1>2

\* What is left after some steps, and how it begins.
LEMMA RestIsOrderly ==
    ASSUME NEW steps, Orderly(steps), NEW k \in 2 .. Len(steps) + 1
    PROVE  /\ Orderly(SubSeq(steps, k, Len(steps)))
           /\ \A i \in 1 .. Len(SubSeq(steps, k, Len(steps))) :
                  /\ i + k - 1 \in k .. Len(steps)
                  /\ SubSeq(steps, k, Len(steps))[i] = steps[i + k - 1]
           /\ SubSeq(steps, k, Len(steps)) # << >> => k \in 1 .. Len(steps) /\ SubSeq(steps, k, Len(steps))[1] = steps[k]
<1> DEFINE rest == SubSeq(steps, k, Len(steps))
<1>1. steps \in Seq(Planned) /\ Len(steps) \in Nat /\ \A i \in 1 .. Len(steps) : steps[i] \in Planned
  BY LenProperties DEF Orderly
<1>2. /\ rest \in Seq(Planned) /\ Len(rest) = Len(steps) - k + 1
      /\ \A i \in 1 .. Len(rest) : rest[i] = steps[i + k - 1]
  <2>1. \A i \in k .. Len(steps) : steps[i] \in Planned
    BY <1>1
  <2>2. /\ rest \in Seq(Planned)
        /\ Len(rest) = IF k <= Len(steps) THEN Len(steps) - k + 1 ELSE 0
        /\ \A i \in 1 .. Len(steps) - k + 1 : rest[i] = steps[k + i - 1]
    BY <1>1, <2>1, SubSeqProperties
  <2> HIDE DEF rest
  <2>3. Len(rest) = Len(steps) - k + 1
    <3>1. k <= Len(steps) \/ Len(steps) - k + 1 = 0
      BY <1>1
    <3>2. Len(rest) = IF k <= Len(steps) THEN Len(steps) - k + 1 ELSE 0
      BY <2>2
    <3>3. QED
      BY <3>1, <3>2
  <2>4. ASSUME NEW i \in 1 .. Len(rest) PROVE rest[i] = steps[i + k - 1]
    <3>1. i \in 1 .. Len(steps) - k + 1 /\ k + i - 1 = i + k - 1
      BY <1>1, <2>3
    <3>2. QED
      BY <2>2, <3>1
  <2>5. QED
    BY <2>2, <2>3, <2>4
<1> HIDE DEF rest
<1>3. \A i \in 1 .. Len(rest) : i + k - 1 \in k .. Len(steps) /\ i + k - 1 \in 1 .. Len(steps)
  BY <1>1, <1>2
<1>4. \A i \in 1 .. Len(rest) : Proper(rest[i])
  BY <1>2, <1>3 DEF Orderly
<1>5. ASSUME NEW i \in 1 .. Len(rest) - 1, Waits(rest[i + 1]) PROVE Prepares(rest[i], rest[i + 1])
  <2> DEFINE j == i + k - 1
  <2>0. i \in 1 .. Len(rest) /\ i + 1 \in 1 .. Len(rest) /\ j \in 1 .. Len(steps) - 1 /\ (i + 1) + k - 1 = j + 1
    BY <1>1, <1>2
  <2>1. j \in 1 .. Len(steps) - 1 /\ rest[i] = steps[j] /\ rest[i + 1] = steps[j + 1]
    BY <1>2, <2>0
  <2> HIDE DEF j
  <2>2. QED
    BY <1>5, <2>1 DEF Orderly
<1>6. ASSUME NEW i \in 1 .. Len(rest), NEW j \in 1 .. Len(rest), i < j, rest[i].do = "report"
      PROVE  rest[j].setting # rest[i].setting
  <2> DEFINE l == i + k - 1
             m == j + k - 1
  <2>0. l \in 1 .. Len(steps) /\ m \in 1 .. Len(steps) /\ l < m
    BY <1>1, <1>2, <1>6
  <2>1. l \in 1 .. Len(steps) /\ m \in 1 .. Len(steps) /\ l < m /\ rest[i] = steps[l] /\ rest[j] = steps[m]
    BY <1>2, <2>0
  <2> HIDE DEF l, m
  <2>2. QED
    BY <1>6, <2>1 DEF Orderly
<1>7. Orderly(rest)
  BY <1>2, <1>4, <1>5, <1>6 DEF Orderly
<1>8. rest # << >> => k \in 1 .. Len(steps) /\ rest[1] = steps[k]
  <2>1. CASE Len(rest) = 0
    BY <1>2, <2>1, EmptySeq
  <2>2. CASE Len(rest) # 0
    BY <1>1, <1>2, <2>2
  <2>3. QED
    BY <2>1, <2>2
<1>9. QED
  BY <1>2, <1>3, <1>7, <1>8 DEF rest

\* A request goes on to its step k; what it did was to one setting only.
LEMMA JobGoesOn ==
    ASSUME settings_Inv, NEW p \in Person, jobs[p] # << >>, NEW k \in 2 .. Len(jobs[p]) + 1,
           NEW S, S = jobs[p][1].setting, jobs[p][1].do # "read",
           \A i \in 1 .. k - 1 : jobs[p][i].setting = S,
           jobs' = [jobs EXCEPT ![p] = SubSeq(jobs[p], k, Len(jobs[p]))],
           sole' = sole, answered' = answered, DOMAIN on_disk' = Files, Only(S),
           IsFilled(on_disk.sources)' => Fits(on_disk'.sources.holds),
           DOMAIN reported' = Setting, \A s \in Setting : s # S => reported'[s] = reported[s],
           reported'[S] # Unreported =>
               /\ Effect(S, reported[S].holds)'
               /\ \A q \in Person : ~Touching(q, S)',
           \/ k = 2 /\ (S \in sole[p] =>
                          \A y : Proper(y) /\ Prepares(jobs[p][1], y) => Prepared(y)')
           \/ k \in 1 .. Len(jobs[p]) => jobs[p][k].setting # S
    PROVE  settings_Inv'
<1> DEFINE rest == SubSeq(jobs[p], k, Len(jobs[p]))
<1>1. /\ Orderly(jobs[p]) /\ jobs[p] \in Seq(Planned) /\ Len(jobs[p]) \in Nat \ {0} /\ S \in Setting
  <2>1. Orderly(jobs[p]) /\ jobs[p] \in Seq(Planned)
    BY DEF settings_Inv, TypesInv, Orderly
  <2>2. Len(jobs[p]) \in Nat \ {0} /\ jobs[p][1] \in Planned
    BY <2>1, LenProperties, EmptySeq
  <2>3. QED
    BY <2>1, <2>2, StepFields
<1>2. /\ Orderly(rest)
      /\ \A i \in 1 .. Len(rest) : i + k - 1 \in k .. Len(jobs[p]) /\ rest[i] = jobs[p][i + k - 1]
      /\ rest # << >> => k \in 1 .. Len(jobs[p]) /\ rest[1] = jobs[p][k]
  BY <1>1, RestIsOrderly
<1>3. jobs'[p] = rest /\ DOMAIN jobs' = Person /\ \A q \in Person \ {p} : jobs'[q] = jobs[q]
  BY DEF settings_Inv, TypesInv
<1> HIDE DEF rest
<1>4. ASSUME NEW q \in Person, NEW i \in 1 .. Len(jobs'[q])
      PROVE  \E j \in 1 .. Len(jobs[q]) : jobs'[q][i] = jobs[q][j]
  <2>1. CASE q = p
    <3>1. i + k - 1 \in 1 .. Len(jobs[p]) /\ jobs'[p][i] = jobs[p][i + k - 1]
      BY <1>1, <1>2, <1>3, <1>4, <2>1
    <3>2. QED
      BY <2>1, <3>1
  <2>2. QED
    BY <1>3, <1>4, <2>1
<1>5. ASSUME NEW q \in Person, NEW s, Touching(q, s)' PROVE Touching(q, s)
  BY <1>4, <1>5 DEF Touching
<1>6. TypesInv'
  BY <1>2, <1>3 DEF settings_Inv, TypesInv
<1>7. ListsInv'
  BY DEF settings_Inv, ListsInv
<1>8. SoleInv'
  BY <1>5 DEF settings_Inv, SoleInv
<1>9. QuietInv'
  <2> SUFFICES ASSUME NEW q \in Person, NEW i \in 1 .. Len(jobs'[q]), jobs'[q][i].do # "read"
               PROVE  reported'[jobs'[q][i].setting] = Unreported
    BY DEF QuietInv
  <2>1. PICK j \in 1 .. Len(jobs[q]) : jobs'[q][i] = jobs[q][j]
    BY <1>4
  <2>2. reported[jobs'[q][i].setting] = Unreported /\ jobs'[q][i].setting \in Setting
    <3>1. jobs[q] \in Seq(Planned)
      BY DEF settings_Inv, TypesInv, Orderly
    <3>2. jobs[q][j] \in Planned
      BY <2>1, <3>1, ElementOfSeq, LenProperties
    <3>3. QED
      BY <2>1, <3>2, StepFields DEF settings_Inv, QuietInv
  <2>3. CASE jobs'[q][i].setting # S
    BY <2>2, <2>3
  <2>4. CASE jobs'[q][i].setting = S
    <3>1. Touching(q, S)'
      BY <2>4 DEF Touching
    <3>2. QED
      BY <2>4, <3>1
  <2>5. QED
    BY <2>3, <2>4
<1>10. HeadsInv'
  <2> SUFFICES ASSUME NEW q \in Person, NEW y, jobs'[q] # << >>, jobs'[q][1] = y, y.setting \in sole'[q]
               PROVE  Prepared(y)'
    BY DEF HeadsInv
  <2>1. CASE q # p
    <3>1. jobs'[q] = jobs[q] /\ Prepared(y)
      BY <1>3, <2>1 DEF settings_Inv, HeadsInv
    <3>2. /\ Proper(jobs[q][1]) /\ jobs[q][1].setting \in Setting /\ 1 \in 1 .. Len(jobs[q])
      <4>1. Orderly(jobs[q]) /\ jobs[q] \in Seq(Planned)
        BY DEF settings_Inv, TypesInv, Orderly
      <4>2. Len(jobs[q]) \in Nat \ {0} /\ jobs[q][1] \in Planned
        BY <3>1, <4>1, LenProperties, EmptySeq
      <4>3. QED
        BY <4>1, <4>2, StepFields DEF Orderly
    <3>3. jobs[q][1].setting # S
      <4>1. Touching(q, jobs[q][1].setting) /\ Touching(p, S)
        BY <1>1, <3>2 DEF Touching
      <4>2. QED
        BY <2>1, <3>1, <4>1 DEF settings_Inv, SoleInv
    <3>4. QED
      BY <3>1, <3>2, <3>3, OthersAreLeftAlone
  <2>2. CASE q = p
    <3>1. rest # << >> /\ k \in 1 .. Len(jobs[p]) /\ y = jobs[p][k]
      BY <1>2, <1>3, <2>2
    <3>2. Proper(y) /\ (Waits(y) => Prepares(jobs[p][k - 1], y))
      <4>1. k - 1 \in 1 .. Len(jobs[p]) - 1 /\ (k - 1) + 1 = k
        BY <1>1, <3>1
      <4>2. QED
        BY <1>1, <3>1, <4>1 DEF Orderly
    <3>3. CASE ~Waits(y)
      BY <2>2, <3>1, <3>3 DEF Waits, Prepared
    <3>4. CASE Waits(y)
      <4>1. k - 1 \in 1 .. k - 1
        OBVIOUS
      <4>2. y.setting = S
        BY <3>2, <3>4, <4>1 DEF Prepares
      <4>3. k = 2 /\ S \in sole[p]
        BY <2>2, <3>1, <4>2
      <4>4. Prepares(jobs[p][1], y)
        BY <3>2, <3>4, <4>3
      <4>5. QED
        BY <3>1, <3>2, <4>2, <4>3, <4>4
    <3>5. QED
      BY <3>3, <3>4
  <2>3. QED
    BY <2>1, <2>2
<1>11. EffectInv'
  <2> SUFFICES ASSUME NEW s \in Setting, reported'[s] # Unreported
               PROVE  Effect(s, reported[s].holds)'
    BY DEF EffectInv
  <2>1. CASE s # S
    <3>1. PICK v : v = reported[s].holds
      OBVIOUS
    <3>2. reported'[s] = reported[s] /\ Effect(s, v)
      BY <2>1, <3>1 DEF settings_Inv, EffectInv
    <3>3. Effect(s, v)'
      BY <2>1, <3>2, OthersAreLeftAlone
    <3>4. QED
      BY <3>1, <3>2, <3>3, EffectOfTheReported
  <2>2. CASE s = S
    BY <2>2
  <2>3. QED
    BY <2>1, <2>2
<1>12. QED
  BY <1>6, <1>7, <1>8, <1>9, <1>10, <1>11 DEF settings_Inv

\* The step a request is at.
LEMMA AtHand ==
    ASSUME settings_Inv, NEW p \in Person, NEW do, Todo(p, do), NEW x, x = Head(jobs[p])
    PROVE  /\ jobs[p] # << >> /\ jobs[p] \in Seq(Planned) /\ Len(jobs[p]) \in Nat \ {0}
           /\ x = jobs[p][1] /\ x.do = do /\ x.setting \in Setting /\ Proper(x)
           /\ Tail(jobs[p]) = SubSeq(jobs[p], 2, Len(jobs[p]))
           /\ do # "read" => reported[x.setting] = Unreported
           /\ x.setting \in sole[p] => Prepared(x)
<1>1. jobs[p] # << >> /\ x.do = do /\ Orderly(jobs[p]) /\ jobs[p] \in Seq(Planned)
  BY DEF Todo, settings_Inv, TypesInv, Orderly
<1>2. Len(jobs[p]) \in Nat \ {0}
  BY <1>1, LenProperties, EmptySeq
<1>3. x = jobs[p][1] /\ x \in Planned
  BY <1>1, <1>2, ElementOfSeq
<1>4. x.setting \in Setting /\ Proper(x)
  BY <1>1, <1>2, <1>3, StepFields DEF Orderly
<1>5. Tail(jobs[p]) = SubSeq(jobs[p], 2, Len(jobs[p]))
  BY <1>1, TailIsSubSeq
<1>6. do # "read" => reported[x.setting] = Unreported
  BY <1>1, <1>2, <1>3 DEF settings_Inv, QuietInv
<1>7. x.setting \in sole[p] => Prepared(x)
  BY <1>1, <1>3 DEF settings_Inv, HeadsInv
<1>8. QED
  BY <1>1, <1>2, <1>3, <1>4, <1>5, <1>6, <1>7

\* It is made, ...
LEMMA StepIsMade ==
    ASSUME settings_Inv, NEW p \in Person, NEW do, do # "read", Todo(p, do), NEW x, x = Head(jobs[p]),
           Step_done(p), sole' = sole, answered' = answered, reported' = reported,
           DOMAIN on_disk' = Files, Only(x.setting),
           IsFilled(on_disk.sources)' => Fits(on_disk'.sources.holds),
           x.setting \in sole[p] => \A y : Proper(y) /\ Prepares(x, y) => Prepared(y)'
    PROVE  settings_Inv'
<1>1. /\ jobs[p] # << >> /\ Len(jobs[p]) \in Nat \ {0} /\ x = jobs[p][1] /\ x.do = do
      /\ Tail(jobs[p]) = SubSeq(jobs[p], 2, Len(jobs[p])) /\ reported[x.setting] = Unreported
  BY AtHand
<1>2. jobs' = [jobs EXCEPT ![p] = SubSeq(jobs[p], 2, Len(jobs[p]))]
  BY <1>1 DEF Step_done
<1>3. 2 \in 2 .. Len(jobs[p]) + 1 /\ \A i \in 1 .. 2 - 1 : jobs[p][i].setting = x.setting
  BY <1>1
<1>4. DOMAIN reported' = Setting
  BY DEF settings_Inv, TypesInv
<1>5. QED
  BY <1>1, <1>2, <1>3, <1>4, JobGoesOn

\* ... or it fails, and the rest of its setting's steps with it.
LEMMA StepFails ==
    ASSUME settings_Inv, NEW p \in Person, NEW do, do # "read", Todo(p, do), Step_failed(p),
           UNCHANGED <<on_disk, live_name, chrony_loaded, node_names, sole, answered, reported>>
    PROVE  settings_Inv'
<1>1. PICK x : x = Head(jobs[p])
  OBVIOUS
<1>2. /\ jobs[p] # << >> /\ Len(jobs[p]) \in Nat \ {0} /\ x = jobs[p][1] /\ x.do = do
      /\ reported[x.setting] = Unreported
  BY <1>1, AtHand
<1>3. PICK k \in 2 .. Len(jobs[p]) + 1 :
          /\ \A i \in 1 .. k - 1 : jobs[p][i].setting = x.setting
          /\ k <= Len(jobs[p]) => jobs[p][k].setting # x.setting
          /\ jobs' = [jobs EXCEPT ![p] = SubSeq(jobs[p], k, Len(jobs[p]))]
  BY <1>1 DEF Step_failed
<1>4. Only(x.setting)
  BY DEF Only
<1>5. /\ DOMAIN reported' = Setting /\ DOMAIN on_disk' = Files
      /\ IsFilled(on_disk.sources)' => Fits(on_disk'.sources.holds)
  BY DEF settings_Inv, TypesInv, ListsInv, IsFilled
<1>6. k \in 1 .. Len(jobs[p]) => jobs[p][k].setting # x.setting
  BY <1>2, <1>3
<1>7. QED
  BY <1>2, <1>3, <1>4, <1>5, <1>6, JobGoesOn

\* What is written is what is read back.
LEMMA FilesAreRead ==
    /\ \A value : IsFilled(Holds(value)) /\ Holds(value).holds = value /\ Holds(value) # Unreported
    /\ ~IsFilled(Empty) /\ ~IsFilled(NoFile) /\ parse(NoFile) = << >>
    /\ \A servers \in Seq(Text) : parse(Holds(render(servers))) = servers
<1>1. \A value : IsFilled(Holds(value)) /\ Holds(value).holds = value
  BY DEF IsFilled, Holds
<1>2. ASSUME NEW value PROVE Holds(value) # Unreported
  <2>1. "holds" \in DOMAIN Holds(value) /\ "holds" \notin DOMAIN Unreported
    BY DEF Holds, Unreported
  <2>2. QED
    BY <2>1
<1>3. ~IsFilled(Empty) /\ ~IsFilled(NoFile)
  BY DEF IsFilled, Empty, NoFile
<1>4. parse(NoFile) = << >>
  BY <1>3 DEF parse
<1>5. ASSUME NEW servers \in Seq(Text) PROVE parse(Holds(render(servers))) = servers
  <2> DEFINE file == Holds(render(servers))
  <2>1. file.holds = render(servers) /\ IsFilled(file)
    BY <1>1
  <2> HIDE DEF file
  <2>2. parse(file) = [i \in DOMAIN render(servers) |-> render(servers)[i].server]
    BY <2>1 DEF parse
  <2>3. /\ DOMAIN render(servers) = DOMAIN servers
        /\ \A i \in DOMAIN servers : render(servers)[i].server = servers[i]
    BY DEF render
  <2>4. servers = [i \in DOMAIN servers |-> servers[i]]
    BY LenProperties
  <2>5. parse(file) = servers
    BY <2>2, <2>3, <2>4
  <2>6. QED
    BY <2>5 DEF file
<1>6. QED
  BY <1>1, <1>2, <1>3, <1>4, <1>5

LEMMA MakingKeeps == ASSUME settings_Inv, NEW p \in Person, MakeSourceDir(p) PROVE settings_Inv'
<1>1. PICK x : x = Head(jobs[p])
  OBVIOUS
<1>2. Todo(p, "mkdir")
  BY DEF MakeSourceDir
<1>3. x.do = "mkdir"
  BY <1>1, <1>2, AtHand
<1>4. CASE Step_failed(p)
  BY <1>2, <1>4, StepFails DEF MakeSourceDir
<1>5. CASE Step_done(p)
  <2>1. Only(x.setting)
    BY DEF Only, MakeSourceDir
  <2>2. DOMAIN on_disk' = Files /\ (IsFilled(on_disk.sources)' => Fits(on_disk'.sources.holds))
    BY DEF settings_Inv, TypesInv, ListsInv, IsFilled, MakeSourceDir
  <2>3. \A y : ~Prepares(x, y)
    BY <1>3 DEF Prepares
  <2>4. QED
    BY <1>1, <1>2, <1>5, <2>1, <2>2, <2>3, StepIsMade DEF MakeSourceDir
<1>6. QED
  BY <1>4, <1>5 DEF MakeSourceDir

LEMMA OpeningKeeps == ASSUME settings_Inv, NEW p \in Person, OpenSetting(p) PROVE settings_Inv'
<1>1. PICK x : x = Head(jobs[p])
  OBVIOUS
<1>2. Todo(p, "open")
  BY DEF OpenSetting
<1>3. x.do = "open" /\ Proper(x)
  BY <1>1, <1>2, AtHand
<1>4. CASE Step_failed(p) /\ UNCHANGED <<on_disk, flash>>
  BY <1>2, <1>4, StepFails DEF OpenSetting
<1>5. CASE Step_done(p) /\ on_disk' = [on_disk EXCEPT ![x.setting] = Empty]
  <2>1. DOMAIN on_disk = Files /\ x.setting \in Files
    BY <1>3 DEF settings_Inv, TypesInv, Proper, Files
  <2>2. DOMAIN on_disk' = Files /\ \A f \in Files : on_disk'[f] = IF f = x.setting THEN Empty ELSE on_disk[f]
    BY <1>5, <2>1
  <2>3. Only(x.setting)
    BY <2>2 DEF Only, OpenSetting, Files
  <2>4. IsFilled(on_disk.sources)' => Fits(on_disk'.sources.holds)
    BY <2>2, FilesAreRead DEF Files, settings_Inv, ListsInv, IsFilled
  <2>5. \A y : Proper(y) /\ Prepares(x, y) => Prepared(y)'
    BY <1>3 DEF Prepares
  <2>6. QED
    BY <1>1, <1>2, <1>5, <2>2, <2>3, <2>4, <2>5, StepIsMade DEF OpenSetting
<1>6. QED
  BY <1>1, <1>4, <1>5 DEF OpenSetting

LEMMA FillingKeeps == ASSUME settings_Inv, NEW p \in Person, FillSetting(p) PROVE settings_Inv'
<1>1. PICK x : x = Head(jobs[p])
  OBVIOUS
<1>2. Todo(p, "fill")
  BY DEF FillSetting
<1>3. x.do = "fill" /\ Proper(x)
  BY <1>1, <1>2, AtHand
<1>4. CASE Step_failed(p) /\ UNCHANGED <<on_disk, flash>>
  BY <1>2, <1>4, StepFails DEF FillSetting
<1> DEFINE content == IF x.setting = "ntp" THEN render(Given(x)) ELSE Given(x)
<1>5. CASE Step_done(p) /\ on_disk' = [on_disk EXCEPT ![x.setting] = Holds(content)]
  <2>1. DOMAIN on_disk = Files /\ x.setting \in Files
    BY <1>3 DEF settings_Inv, TypesInv, Proper, Files
  <2>2. DOMAIN on_disk' = Files /\ \A f \in Files : on_disk'[f] = IF f = x.setting THEN Holds(content) ELSE on_disk[f]
    BY <1>5, <2>1
  <2>3. Only(x.setting)
    BY <2>2 DEF Only, FillSetting, Files
  <2>4. IsFilled(on_disk.sources)' => Fits(on_disk'.sources.holds)
    <3>1. CASE x.setting = "sources"
      <4>1. on_disk'.sources = Holds(Given(x)) /\ Fits(Given(x))
        BY <1>3, <2>2, <3>1 DEF Files, Proper
      <4>2. QED
        BY <4>1, FilesAreRead
    <3>2. CASE x.setting # "sources"
      BY <2>2, <3>2 DEF Files, settings_Inv, ListsInv, IsFilled
    <3>3. QED
      BY <3>1, <3>2
  <2>5. ASSUME NEW y, Proper(y), Prepares(x, y) PROVE Prepared(y)'
    <3>1. x.setting = y.setting /\ Given(x) = Given(y)
      BY <2>5 DEF Prepares
    <3>2. y.do = "live" => on_disk'.hostname = Holds(Given(y))
      BY <2>2, <2>5, <3>1 DEF Proper, Files
    <3>3. y.do = "reload" => parse(on_disk'.ntp) = Given(y)
      BY <1>3, <2>2, <2>5, <3>1, FilesAreRead DEF Proper, Files
    <3>4. y.do = "report" => y.setting = "sources" /\ on_disk'.sources = Holds(Given(y))
      BY <1>3, <2>2, <2>5, <3>1 DEF Prepares, Files
    <3>5. QED
      BY <3>2, <3>3, <3>4 DEF Prepared, Effect
  <2> HIDE DEF content
  <2>6. QED
    BY <1>1, <1>2, <1>5, <2>2, <2>3, <2>4, <2>5, StepIsMade DEF FillSetting
<1>6. QED
  BY <1>1, <1>4, <1>5 DEF FillSetting

LEMMA RemovingKeeps == ASSUME settings_Inv, NEW p \in Person, RemoveSetting(p) PROVE settings_Inv'
<1>1. PICK x : x = Head(jobs[p])
  OBVIOUS
<1>2. Todo(p, "remove")
  BY DEF RemoveSetting
<1>3. x.do = "remove" /\ x.setting = "ntp" /\ Given(x) = << >>
  BY <1>1, <1>2, AtHand DEF Proper
<1>4. CASE Step_failed(p) /\ UNCHANGED <<on_disk, flash>>
  BY <1>2, <1>4, StepFails DEF RemoveSetting
<1>5. CASE Step_done(p) /\ on_disk' = [on_disk EXCEPT !.ntp = NoFile]
  <2>1. DOMAIN on_disk = Files
    BY DEF settings_Inv, TypesInv
  <2>2. DOMAIN on_disk' = Files /\ \A f \in Files : on_disk'[f] = IF f = "ntp" THEN NoFile ELSE on_disk[f]
    BY <1>5, <2>1
  <2>3. Only(x.setting)
    BY <1>3, <2>2 DEF Only, RemoveSetting, Files
  <2>4. IsFilled(on_disk.sources)' => Fits(on_disk'.sources.holds)
    BY <2>2 DEF Files, settings_Inv, ListsInv, IsFilled
  <2>5. ASSUME NEW y, Proper(y), Prepares(x, y) PROVE Prepared(y)'
    <3>1. y.do = "reload" /\ Given(y) = << >>
      BY <1>3, <2>5 DEF Prepares
    <3>2. parse(on_disk'.ntp) = Given(y)
      BY <2>2, <3>1, FilesAreRead DEF Files
    <3>3. QED
      BY <3>1, <3>2 DEF Prepared
  <2>6. QED
    BY <1>1, <1>2, <1>5, <2>2, <2>3, <2>4, <2>5, StepIsMade DEF RemoveSetting
<1>6. QED
  BY <1>4, <1>5 DEF RemoveSetting

\* The running side takes what the file holds.
LEMMA SettingLiveKeeps == ASSUME settings_Inv, NEW p \in Person, SetLive(p) PROVE settings_Inv'
<1>1. PICK x : x = Head(jobs[p])
  OBVIOUS
<1>2. Todo(p, "live")
  BY DEF SetLive
<1>3. x.do = "live" /\ x.setting = "hostname" /\ (x.setting \in sole[p] => Prepared(x))
  BY <1>1, <1>2, AtHand DEF Proper
<1>4. CASE Step_failed(p) /\ UNCHANGED live_name
  BY <1>2, <1>4, StepFails DEF SetLive
<1>5. CASE Step_done(p) /\ live_name' = Given(x)
  <2>1. Only(x.setting)
    BY <1>3 DEF Only, SetLive
  <2>2. DOMAIN on_disk' = Files /\ (IsFilled(on_disk.sources)' => Fits(on_disk'.sources.holds))
    BY DEF settings_Inv, TypesInv, ListsInv, IsFilled, SetLive
  <2>3. ASSUME x.setting \in sole[p], NEW y, Proper(y), Prepares(x, y) PROVE Prepared(y)'
    <3>1. y.do = "report" /\ y.setting = "hostname" /\ Given(x) = Given(y)
      BY <1>3, <2>3 DEF Prepares
    <3>2. on_disk'.hostname = Holds(Given(y)) /\ live_name' = Given(y)
      BY <1>3, <1>5, <2>3, <3>1 DEF Prepared, SetLive
    <3>3. QED
      BY <3>1, <3>2 DEF Prepared, Effect
  <2>4. QED
    BY <1>1, <1>2, <1>5, <2>1, <2>2, <2>3, StepIsMade DEF SetLive
<1>6. QED
  BY <1>1, <1>4, <1>5 DEF SetLive

LEMMA ReloadingKeeps == ASSUME settings_Inv, NEW p \in Person, reload(p) PROVE settings_Inv'
<1>1. PICK x : x = Head(jobs[p])
  OBVIOUS
<1>2. Todo(p, "reload")
  BY DEF reload
<1>3. x.do = "reload" /\ x.setting = "ntp" /\ (x.setting \in sole[p] => Prepared(x))
  BY <1>1, <1>2, AtHand DEF Proper
<1>4. CASE Step_failed(p) /\ UNCHANGED chrony_loaded
  BY <1>2, <1>4, StepFails DEF reload
<1>5. CASE Step_done(p) /\ chrony_loaded' = parse(on_disk.ntp)
  <2>1. Only(x.setting)
    BY <1>3 DEF Only, reload
  <2>2. DOMAIN on_disk' = Files /\ (IsFilled(on_disk.sources)' => Fits(on_disk'.sources.holds))
    BY DEF settings_Inv, TypesInv, ListsInv, IsFilled, reload
  <2>3. ASSUME x.setting \in sole[p], NEW y, Proper(y), Prepares(x, y) PROVE Prepared(y)'
    <3>1. y.do = "report" /\ y.setting = "ntp" /\ Given(x) = Given(y)
      BY <1>3, <2>3 DEF Prepares
    <3>2. parse(on_disk.ntp) = Given(y) /\ chrony_loaded' = Given(y) /\ on_disk' = on_disk
      BY <1>3, <1>5, <2>3, <3>1 DEF Prepared, reload
    <3>3. QED
      BY <3>1, <3>2 DEF Prepared, Effect, parse
  <2>4. QED
    BY <1>1, <1>2, <1>5, <2>1, <2>2, <2>3, StepIsMade DEF reload
<1>6. QED
  BY <1>4, <1>5 DEF reload

LEMMA NamingKeeps == ASSUME settings_Inv, NEW p \in Person, set_node_info(p) PROVE settings_Inv'
<1>1. PICK x : x = Head(jobs[p])
  OBVIOUS
<1>2. Todo(p, "names") /\ Step_done(p)
  BY DEF set_node_info
<1>3. x.do = "names" /\ x.setting = "nodes" /\ DOMAIN Given(x) \subseteq 1 .. 4
  BY <1>1, <1>2, AtHand DEF Proper
<1>4. \A n \in DOMAIN Given(x) : Given(x)[n] # "" => node_names'[n] = Given(x)[n]
  BY <1>1, <1>3 DEF set_node_info
<1>5. Only(x.setting)
  BY <1>3 DEF Only, set_node_info
<1>6. DOMAIN on_disk' = Files /\ (IsFilled(on_disk.sources)' => Fits(on_disk'.sources.holds))
  BY DEF settings_Inv, TypesInv, ListsInv, IsFilled, set_node_info
<1>7. ASSUME NEW y, Proper(y), Prepares(x, y) PROVE Prepared(y)'
  <2>1. y.do = "report" /\ y.setting = "nodes" /\ Given(x) = Given(y)
    BY <1>3, <1>7 DEF Prepares
  <2>2. PICK value : value = Given(y)
    OBVIOUS
  <2>3. \A n \in DOMAIN value : value[n] # "" => node_names'[n] = value[n]
    BY <1>4, <2>1, <2>2
  <2>4. Effect("nodes", value)'
    BY <2>3 DEF Effect
  <2>5. QED
    BY <2>1, <2>2, <2>4 DEF Prepared
<1>8. QED
  BY <1>1, <1>2, <1>5, <1>6, <1>7, StepIsMade DEF set_node_info

\* A request that reports a setting applied is done with it.
LEMMA ReportingKeeps == ASSUME settings_Inv, NEW p \in Person, ReportApplied(p) PROVE settings_Inv'
<1>1. PICK x : x = Head(jobs[p])
  OBVIOUS
<1>2. Todo(p, "report") /\ Step_done(p)
  BY DEF ReportApplied
<1>3. /\ x.do = "report" /\ jobs[p] # << >> /\ x = jobs[p][1] /\ Len(jobs[p]) \in Nat \ {0}
      /\ x.setting \in Setting /\ reported[x.setting] = Unreported
      /\ x.setting \in sole[p] => Prepared(x)
      /\ Tail(jobs[p]) = SubSeq(jobs[p], 2, Len(jobs[p]))
  BY <1>1, <1>2, AtHand
<1>j. jobs' = [jobs EXCEPT ![p] = SubSeq(jobs[p], 2, Len(jobs[p]))]
  BY <1>2, <1>3 DEF Step_done
<1>4. reported' = [reported EXCEPT ![x.setting] =
                      IF x.setting \in sole[p] THEN Holds(Given(x)) ELSE reported[x.setting]]
  BY <1>1 DEF ReportApplied
<1>5. /\ DOMAIN reported' = Setting /\ \A s \in Setting : s # x.setting => reported'[s] = reported[s]
      /\ reported'[x.setting] = IF x.setting \in sole[p] THEN Holds(Given(x)) ELSE Unreported
  BY <1>3, <1>4 DEF settings_Inv, TypesInv
<1>6. /\ Only(x.setting) /\ DOMAIN on_disk' = Files
      /\ IsFilled(on_disk.sources)' => Fits(on_disk'.sources.holds)
  BY DEF Only, settings_Inv, TypesInv, ListsInv, IsFilled, ReportApplied
<1>7. ASSUME reported'[x.setting] # Unreported
      PROVE  Effect(x.setting, reported[x.setting].holds)' /\ \A q \in Person : ~Touching(q, x.setting)'
  <2>1. x.setting \in sole[p] /\ reported'[x.setting].holds = Given(x)
    BY <1>5, <1>7, FilesAreRead
  <2>2. PICK value : value = Given(x)
    OBVIOUS
  <2>3. Effect(x.setting, value)
    BY <1>3, <2>1, <2>2 DEF Prepared
  <2>4. Effect(x.setting, reported[x.setting].holds)'
    BY <2>1, <2>2, <2>3 DEF Effect, ReportApplied, parse
  <2>5. ASSUME NEW q \in Person, q # p PROVE ~Touching(q, x.setting)'
    <3>1. Touching(p, x.setting)
      BY <1>3 DEF Touching
    <3>2. ~Touching(q, x.setting) /\ jobs'[q] = jobs[q]
      BY <1>3, <1>j, <2>1, <2>5, <3>1 DEF settings_Inv, SoleInv, TypesInv
    <3>3. QED
      BY <3>2 DEF Touching
  <2>6. ~Touching(p, x.setting)'
    <3>1. Orderly(jobs[p]) /\ jobs'[p] = SubSeq(jobs[p], 2, Len(jobs[p]))
      BY <1>j DEF settings_Inv, TypesInv
    <3>2. 2 \in 2 .. Len(jobs[p]) + 1
      BY <1>3
    <3>3. ASSUME NEW i \in 1 .. Len(jobs'[p]) PROVE jobs'[p][i].setting # x.setting
      <4>1. i + 2 - 1 \in 2 .. Len(jobs[p]) /\ jobs'[p][i] = jobs[p][i + 2 - 1]
        BY <3>1, <3>2, <3>3, RestIsOrderly
      <4>2. PICK j \in 2 .. Len(jobs[p]) : jobs'[p][i] = jobs[p][j]
        BY <4>1
      <4>3. j \in 1 .. Len(jobs[p]) /\ 1 \in 1 .. Len(jobs[p]) /\ 1 < j
        BY <1>3
      <4>4. QED
        BY <1>3, <3>1, <4>2, <4>3 DEF Orderly
    <3>4. QED
      BY <3>3 DEF Touching
  <2>7. QED
    BY <2>4, <2>5, <2>6
<1>8. \A y : ~Prepares(x, y)
  BY <1>3 DEF Prepares
<1>9. 2 \in 2 .. Len(jobs[p]) + 1 /\ \A i \in 1 .. 2 - 1 : jobs[p][i].setting = x.setting
  BY <1>3
<1>10. QED
  BY <1>3, <1>j, <1>5, <1>6, <1>7, <1>8, <1>9, JobGoesOn DEF ReportApplied

LEMMA NothingMoves ==
    ASSUME UNCHANGED <<on_disk, live_name, chrony_loaded, node_names>>
    PROVE  /\ \A s, value : Effect(s, value) => Effect(s, value)'
           /\ \A y : Prepared(y) => Prepared(y)'
<1>1. \A s, value : Effect(s, value) => Effect(s, value)'
  BY DEF Effect, parse
<1>2. \A y : Prepared(y) => Prepared(y)'
  BY <1>1 DEF Prepared, parse
<1>3. QED
  BY <1>1, <1>2

\* Reading the sources: what it may add to the request is a request's steps.
LEMMA ReadingKeeps == ASSUME settings_Inv, NEW p \in Person, read_sources(p) PROVE settings_Inv'
<1> DEFINE read == parse_sources(on_disk.sources)
           migrated == migrate(read)
<1>1. PICK x : x = Head(jobs[p])
  OBVIOUS
<1>2. /\ jobs[p] # << >> /\ Len(jobs[p]) \in Nat \ {0} /\ x = jobs[p][1] /\ x.setting = "sources"
  BY <1>1, AtHand DEF read_sources, Proper
<1>3. PICK rest : /\ rest = IF migrated # read THEN store(migrated) ELSE << >>
                  /\ jobs' = [jobs EXCEPT ![p] = rest]
  BY DEF read_sources
<1>4. /\ answered' = [answered EXCEPT ![p] = migrated]
      /\ reported' = IF migrated # read THEN [reported EXCEPT !["sources"] = Unreported] ELSE reported
      /\ UNCHANGED <<on_disk, live_name, chrony_loaded, node_names, sole>>
  BY DEF read_sources
<1>5. Usable(migrated)
  BY MigrateFits, DefaultIsUsable DEF settings_Inv, ListsInv, parse_sources, Usable
<1>6. Program(rest, {"sources"}) /\ (migrated = read => rest = << >>)
  BY <1>3, <1>5, StoreIsAProgram, NothingIsAProgram DEF Usable
<1> HIDE DEF read, migrated
<1>7. DOMAIN jobs' = Person /\ jobs'[p] = rest /\ \A q \in Person \ {p} : jobs'[q] = jobs[q]
  BY <1>3 DEF settings_Inv, TypesInv
<1>8. /\ DOMAIN reported' = Setting
      /\ \A s \in Setting : reported'[s] # Unreported => reported'[s] = reported[s]
      /\ \A s \in Setting : reported[s] = Unreported => reported'[s] = Unreported
      /\ migrated # read => reported'["sources"] = Unreported
  BY <1>4 DEF settings_Inv, TypesInv, Setting
<1>9. TypesInv'
  BY <1>4, <1>6, <1>7, <1>8 DEF settings_Inv, TypesInv, Program
<1>10. ListsInv'
  BY <1>4, <1>5 DEF settings_Inv, TypesInv, ListsInv, IsFilled
<1>11. ASSUME NEW q \in Person, NEW s, Touching(q, s)' PROVE Touching(q, s)
  <2>1. CASE q = p
    <3>1. s = "sources"
      BY <1>6, <1>7, <1>11, <2>1 DEF Touching, Program
    <3>2. QED
      BY <1>2, <2>1, <3>1 DEF Touching
  <2>2. CASE q # p
    BY <1>7, <1>11, <2>2 DEF Touching
  <2>3. QED
    BY <2>1, <2>2
<1>12. SoleInv'
  BY <1>4, <1>11 DEF settings_Inv, SoleInv
<1>13. QuietInv'
  <2> SUFFICES ASSUME NEW q \in Person, NEW i \in 1 .. Len(jobs'[q]), jobs'[q][i].do # "read"
               PROVE  reported'[jobs'[q][i].setting] = Unreported
    BY DEF QuietInv
  <2>1. CASE q = p
    <3>1. jobs'[q][i].setting = "sources"
      BY <1>6, <1>7, <2>1 DEF Program
    <3>2. migrated # read
      <4>1. CASE migrated = read
        <5>1. Len(rest) = 0
          BY <1>6, <4>1
        <5>2. QED
          BY <1>7, <2>1, <5>1
      <4>2. QED
        BY <4>1
    <3>3. QED
      BY <1>8, <3>1, <3>2
  <2>2. CASE q # p
    <3>1. jobs'[q] = jobs[q] /\ Orderly(jobs[q])
      BY <1>7, <2>2 DEF settings_Inv, TypesInv
    <3>2. jobs[q][i].setting \in Setting
      BY <3>1, ElementOfSeq, StepFields DEF Orderly
    <3>3. QED
      BY <1>8, <3>1, <3>2 DEF settings_Inv, QuietInv
  <2>3. QED
    BY <2>1, <2>2
<1>14. HeadsInv'
  <2> SUFFICES ASSUME NEW q \in Person, NEW y, jobs'[q] # << >>, jobs'[q][1] = y, y.setting \in sole'[q]
               PROVE  Prepared(y)'
    BY DEF HeadsInv
  <2>1. CASE q = p
    <3>1. ~Waits(y)
      <4>1. rest \in Seq(Planned) /\ rest # << >>
        BY <1>6, <1>7, <2>1 DEF Program, Orderly
      <4>2. Len(rest) > 0
        BY <4>1, EmptySeq, LenProperties
      <4>3. QED
        BY <1>6, <1>7, <2>1, <4>2 DEF Program
    <3>2. QED
      BY <3>1 DEF Waits, Prepared
  <2>2. CASE q # p
    BY <1>4, <1>7, <2>2, NothingMoves DEF settings_Inv, HeadsInv
  <2>3. QED
    BY <2>1, <2>2
<1>15. EffectInv'
  <2> SUFFICES ASSUME NEW s \in Setting, reported'[s] # Unreported PROVE Effect(s, reported[s].holds)'
    BY DEF EffectInv
  <2>1. PICK v : v = reported[s].holds
    OBVIOUS
  <2>2. reported'[s] = reported[s] /\ Effect(s, v)
    BY <1>8, <2>1 DEF settings_Inv, EffectInv
  <2>3. Effect(s, v)'
    BY <1>4, <2>2, NothingMoves
  <2>4. QED
    BY <2>1, <2>2, <2>3 DEF Effect
<1>16. QED
  BY <1>9, <1>10, <1>12, <1>13, <1>14, <1>15 DEF settings_Inv

\* A request that has not begun: steps that write, or the one that reads.
Startable(steps) ==
    /\ Orderly(steps)
    /\ Len(steps) > 0 => ~Waits(steps[1])
    /\ \A i \in 1 .. Len(steps) : steps[i].do = "read" => steps[1].do = "read" /\ Len(steps) = 1

LEMMA ProgramsStart == ASSUME NEW steps, NEW S, Program(steps, S) PROVE Startable(steps)
  BY DEF Program, Startable

LEMMA LoadStarts == Startable(load)
<1> DEFINE doing == <<"read">>
           steps == Steps("sources", doing, << >>)
<1>1. doing \in Seq(Deeds) /\ Len(doing) = 1 /\ doing[1] = "read"
  BY DEF Deeds
<1>2. "sources" \in Setting /\ << >> \in AnyValue
  BY DEF Setting, AnyValue
<1> HIDE DEF doing
<1>3. /\ steps \in Seq(Planned) /\ Len(steps) = 1
      /\ \A i \in 1 .. 1 : steps[i].setting = "sources" /\ steps[i].do = doing[i]
  BY <1>1, <1>2, StepsOfOne
<1> HIDE DEF steps
<1>4. steps[1].setting = "sources" /\ steps[1].do = "read"
  BY <1>1, <1>3
<1>5. Startable(steps)
  BY <1>3, <1>4 DEF Startable, Orderly, Proper, Waits
<1>6. QED
  BY <1>5 DEF load, steps, doing

\* A request that comes in takes from the others what they are both to touch.
LEMMA AcceptingKeeps ==
    ASSUME settings_Inv, NEW p \in Person, NEW steps, Startable(steps), Accept(p, steps) PROVE settings_Inv'
<1> DEFINE crossed == (UNION {Touches(jobs[q]) : q \in Person}) \cap Touches(steps)
<1>1. /\ jobs[p] = << >> /\ steps # << >> /\ jobs' = [jobs EXCEPT ![p] = steps]
      /\ sole' = [q \in Person |-> (IF q = p THEN Touches(steps) ELSE sole[q]) \ crossed]
      /\ reported' = [s \in Setting |->
                        IF s \in Touches(steps) /\ ~OnlyReads(steps) THEN Unreported ELSE reported[s]]
      /\ UNCHANGED <<on_disk, live_name, chrony_loaded, node_names, answered>>
  BY DEF Accept
<1>2. /\ steps \in Seq(Planned) /\ Len(steps) \in Nat \ {0} /\ DOMAIN steps = 1 .. Len(steps)
      /\ Head(steps) = steps[1] /\ \A i \in 1 .. Len(steps) : steps[i].setting \in Setting
  <2>1. steps \in Seq(Planned)
    BY DEF Startable, Orderly
  <2>2. Len(steps) \in Nat \ {0} /\ DOMAIN steps = 1 .. Len(steps)
    BY <1>1, <2>1, LenProperties, EmptySeq
  <2>3. Head(steps) = steps[1]
    BY <1>1, <2>1, <2>2
  <2>4. \A i \in 1 .. Len(steps) : steps[i].setting \in Setting
    BY <2>1, <2>2, ElementOfSeq, StepFields
  <2>5. QED
    BY <2>1, <2>2, <2>3, <2>4
<1>3. DOMAIN jobs' = Person /\ jobs'[p] = steps /\ \A q \in Person \ {p} : jobs'[q] = jobs[q]
  BY <1>1 DEF settings_Inv, TypesInv
<1>4. \A q \in Person : \A s : Touching(q, s) => s \in Touches(jobs[q])
  <2>1. ASSUME NEW q \in Person PROVE DOMAIN jobs[q] = 1 .. Len(jobs[q])
    BY LenProperties DEF settings_Inv, TypesInv, Orderly
  <2>2. QED
    BY <2>1 DEF Touching, Touches
<1>5. \A s : Touching(p, s)' => s \in Touches(steps)
  BY <1>2, <1>3 DEF Touching, Touches
<1>6. \A q \in Person \ {p} : \A s : Touching(q, s)' => Touching(q, s)
  BY <1>3 DEF Touching
<1>c. \A q \in Person : \A s : s \in Touches(jobs[q]) /\ s \in Touches(steps) => s \in crossed
  OBVIOUS
<1> HIDE DEF crossed
<1>7. TypesInv'
  BY <1>1, <1>3 DEF settings_Inv, TypesInv, Startable
<1>8. ListsInv'
  BY <1>1 DEF settings_Inv, ListsInv, IsFilled
<1>9. SoleInv'
  <2> SUFFICES ASSUME NEW q \in Person, NEW r \in Person, NEW s \in sole'[q], q # r,
                      Touching(q, s)', Touching(r, s)'
               PROVE  FALSE
    BY DEF SoleInv
  <2>1. s \notin crossed /\ (q # p => s \in sole[q])
    BY <1>1
  <2>2. CASE q = p
    <3>1. s \in Touches(jobs[r]) /\ s \in Touches(steps)
      BY <1>4, <1>5, <1>6, <2>2
    <3>2. QED
      BY <1>c, <2>1, <3>1
  <2>3. CASE r = p
    <3>1. s \in Touches(jobs[q]) /\ s \in Touches(steps)
      BY <1>4, <1>5, <1>6, <2>3
    <3>2. QED
      BY <1>c, <2>1, <3>1
  <2>4. CASE q # p /\ r # p
    BY <1>6, <2>1, <2>4 DEF settings_Inv, SoleInv
  <2>5. QED
    BY <2>2, <2>3, <2>4
<1>10. QuietInv'
  <2> SUFFICES ASSUME NEW q \in Person, NEW i \in 1 .. Len(jobs'[q]), jobs'[q][i].do # "read"
               PROVE  reported'[jobs'[q][i].setting] = Unreported
    BY DEF QuietInv
  <2>1. CASE q = p
    <3>1. i \in 1 .. Len(steps) /\ jobs'[q][i] = steps[i]
      BY <1>3, <2>1
    <3>2. ~OnlyReads(steps)
      <4>1. CASE OnlyReads(steps)
        <5>1. steps[1].do = "read"
          BY <1>2, <4>1 DEF OnlyReads
        <5>2. 1 \in 1 .. Len(steps)
          BY <1>2
        <5>3. Len(steps) = 1
          BY <5>1, <5>2 DEF Startable
        <5>4. i = 1
          BY <3>1, <5>3
        <5>5. QED
          BY <3>1, <5>1, <5>4
      <4>2. QED
        BY <4>1
    <3>3. steps[i].setting \in Touches(steps) /\ steps[i].setting \in Setting
      BY <1>2, <3>1 DEF Touches
    <3>4. QED
      BY <1>1, <3>1, <3>2, <3>3
  <2>2. CASE q # p
    <3>1. jobs'[q] = jobs[q] /\ Orderly(jobs[q])
      BY <1>3, <2>2 DEF settings_Inv, TypesInv
    <3>2. jobs[q][i].setting \in Setting
      BY <3>1, ElementOfSeq, StepFields DEF Orderly
    <3>3. QED
      BY <1>1, <3>1, <3>2 DEF settings_Inv, QuietInv
  <2>3. QED
    BY <2>1, <2>2
<1>11. HeadsInv'
  <2> SUFFICES ASSUME NEW q \in Person, NEW y, jobs'[q] # << >>, jobs'[q][1] = y, y.setting \in sole'[q]
               PROVE  Prepared(y)'
    BY DEF HeadsInv
  <2>1. CASE q = p
    BY <1>2, <1>3, <2>1 DEF Startable, Waits, Prepared
  <2>2. CASE q # p
    BY <1>1, <1>3, <2>2, NothingMoves DEF settings_Inv, HeadsInv
  <2>3. QED
    BY <2>1, <2>2
<1>12. EffectInv'
  <2> SUFFICES ASSUME NEW s \in Setting, reported'[s] # Unreported PROVE Effect(s, reported[s].holds)'
    BY DEF EffectInv
  <2>1. PICK v : v = reported[s].holds
    OBVIOUS
  <2>2. reported'[s] = reported[s] /\ Effect(s, v)
    BY <1>1, <2>1 DEF settings_Inv, EffectInv
  <2>3. Effect(s, v)'
    BY <1>1, <2>2, NothingMoves
  <2>4. QED
    BY <2>1, <2>2, <2>3 DEF Effect
<1>13. QED
  BY <1>7, <1>8, <1>9, <1>10, <1>11, <1>12 DEF settings_Inv

\* After a power cut the running sides are what the files say, whichever of their
\* contents it finds.
LEMMA CutKeeps == ASSUME settings_Inv, FlashInv, PowerCut PROVE settings_Inv' /\ FlashInv'
<1>1. /\ jobs' = [p \in Person |-> << >>] /\ sole' = [p \in Person |-> {}]
      /\ UNCHANGED answered /\ DOMAIN reported' = Setting /\ DOMAIN flash' = Setting
  BY DEF PowerCut
<1>2. \A p \in Person : jobs'[p] = << >> /\ sole'[p] = {} /\ Len(jobs'[p]) = 0
  BY <1>1
<1>3. Orderly(<< >>)
  BY NothingIsAProgram DEF Program
<1>4. PICK name \in flash["hostname"], servers \in flash["ntp"], sources \in flash["sources"] :
          on_disk' = [hostname |-> name, ntp |-> servers, sources |-> sources]
  BY DEF PowerCut
<1>5. DOMAIN on_disk' = Files /\ on_disk'.sources = sources
  BY <1>4 DEF Files
<1>6. IsFilled(sources) => Fits(sources.holds)
  BY DEF FlashInv
<1>7. TypesInv'
  BY <1>1, <1>3, <1>5 DEF settings_Inv, TypesInv
<1>8. ListsInv'
  BY <1>1, <1>5, <1>6 DEF settings_Inv, ListsInv, IsFilled
<1>9. SoleInv' /\ QuietInv' /\ HeadsInv'
  BY <1>2 DEF SoleInv, QuietInv, HeadsInv
<1>10. EffectInv'
  <2> SUFFICES ASSUME NEW s \in Setting, reported'[s] # Unreported PROVE Effect(s, reported[s].holds)'
    BY DEF EffectInv
  <2>1. PICK v : v = reported[s].holds
    OBVIOUS
  <2>2. reported'[s] = (IF Stored(s)' = Stored(s) THEN reported[s] ELSE Unreported)
    BY DEF PowerCut
  <2>3. reported'[s] = reported[s] /\ Stored(s)' = Stored(s) /\ Effect(s, v)
    BY <2>1, <2>2 DEF settings_Inv, EffectInv
  <2>4. /\ s # "nodes" => on_disk'[s] = on_disk[s]
        /\ s = "nodes" => node_names' = node_names
    BY <2>3 DEF Stored
  <2>5. s = "hostname" => live_name' = v /\ on_disk'.hostname = Holds(v)
    BY <2>3, <2>4, FilesAreRead DEF Effect, PowerCut
  <2>6. s = "ntp" => chrony_loaded' = v /\ parse(on_disk'.ntp) = v
    BY <2>3, <2>4 DEF Effect, PowerCut, parse
  <2>7. Effect(s, v)'
    BY <2>3, <2>4, <2>5, <2>6 DEF Effect
  <2>8. QED
    BY <2>1, <2>3, <2>7 DEF Effect
<1>11. FlashInv'
  <2>1. flash'["sources"] = {sources}
    BY <1>5 DEF PowerCut, Setting, Stored
  <2>2. QED
    BY <1>1, <1>6, <2>1 DEF FlashInv, IsFilled
<1>12. QED
  BY <1>7, <1>8, <1>9, <1>10, <1>11 DEF settings_Inv

\* Otherwise what may be found grows by what is written.
LEMMA LeavingFits ==
    ASSUME FlashInv, NEW s \in Setting, NEW content, Leaves(s, content),
           s = "sources" => (IsFilled(content) => Fits(content.holds))
    PROVE  FlashInv'
<1>1. DOMAIN flash' = Setting
  BY DEF Leaves, FlashInv
<1>2. \A file \in flash'["sources"] : file \in flash["sources"] \/ (s = "sources" /\ file = content)
  BY DEF Leaves, FlashInv, Setting
<1>3. QED
  BY <1>1, <1>2 DEF FlashInv

LEMMA FlashFits ==
    ASSUME settings_Inv, FlashInv, NEW p \in Person,
           OpenSetting(p) \/ FillSetting(p) \/ RemoveSetting(p) \/ set_node_info(p)
    PROVE  FlashInv'
<1>1. PICK x : x = Head(jobs[p])
  OBVIOUS
<1>u. UNCHANGED flash => FlashInv'
  BY DEF FlashInv
<1>2. CASE OpenSetting(p)
  <2>1. Todo(p, "open") /\ (UNCHANGED flash \/ Leaves(x.setting, Empty))
    BY <1>1, <1>2 DEF OpenSetting
  <2>2. x.setting \in Setting
    BY <1>1, <2>1, AtHand
  <2>3. QED
    BY <1>u, <2>1, <2>2, FilesAreRead, LeavingFits
<1>3. CASE FillSetting(p)
  <2> DEFINE content == Holds(IF x.setting = "ntp" THEN render(Given(x)) ELSE Given(x))
  <2>1. Todo(p, "fill") /\ (UNCHANGED flash \/ Leaves(x.setting, content))
    BY <1>1, <1>3 DEF FillSetting
  <2>2. x.setting \in Setting /\ (x.setting = "sources" => Fits(Given(x)))
    BY <1>1, <2>1, AtHand DEF Proper
  <2>3. x.setting = "sources" => content.holds = Given(x)
    BY FilesAreRead
  <2> HIDE DEF content
  <2>4. x.setting = "sources" => Fits(content.holds)
    BY <2>2, <2>3
  <2>5. QED
    BY <1>u, <2>1, <2>2, <2>4, LeavingFits
<1>4. CASE RemoveSetting(p)
  <2>1. UNCHANGED flash \/ Leaves("ntp", NoFile)
    BY <1>4 DEF RemoveSetting
  <2>2. QED
    BY <1>u, <2>1, LeavingFits DEF Setting
<1>5. CASE set_node_info(p)
  <2>1. PICK names : names = node_names' /\ Leaves("nodes", names)
    BY <1>5 DEF set_node_info
  <2>2. QED
    BY <2>1, LeavingFits DEF Setting
<1>6. QED
  BY <1>2, <1>3, <1>4, <1>5

LEMMA SettingsStep ==
    settings_Inv /\ FlashInv /\ [settings_Next]_settings_vars => settings_Inv' /\ FlashInv'
<1> SUFFICES ASSUME settings_Inv, FlashInv, [settings_Next]_settings_vars PROVE settings_Inv' /\ FlashInv'
  OBVIOUS
<1>1. ASSUME NEW p \in Person, set_hostname(p) PROVE settings_Inv'
  <2>1. PICK name \in HostName : Accept(p, set(name))
    BY <1>1 DEF set_hostname
  <2>2. Program(set(name), {"hostname"})
    BY SetIsAProgram DEF AnyValue
  <2>3. QED
    BY <2>1, <2>2, ProgramsStart, AcceptingKeeps
<1>2. ASSUME NEW p \in Person, set_ntp(p) PROVE settings_Inv'
  <2>1. PICK servers \in ServerList : Accept(p, store_servers(servers))
    BY <1>2 DEF set_ntp
  <2>2. Program(store_servers(servers), {"ntp"})
    BY GivenAssumption, StoreServersIsAProgram
  <2>3. QED
    BY <2>1, <2>2, ProgramsStart, AcceptingKeeps
<1>3. ASSUME NEW p \in Person, set_firmware_sources(p) PROVE settings_Inv'
  <2>1. PICK sources \in SourceList : Accept(p, store_sources(sources))
    BY <1>3 DEF set_firmware_sources
  <2>2. sources \in Accepted_lists /\ sources \in Seq(SourceRecord)
    BY GivenAssumption DEF Accepted_lists
  <2>3. Program(store_sources(sources), {"sources"})
    BY <2>2, StoreSourcesIsAProgram
  <2>4. QED
    BY <2>1, <2>3, ProgramsStart, AcceptingKeeps
<1>4. ASSUME NEW p \in Person, get_firmware_sources(p) \/ get_config(p) PROVE settings_Inv'
  BY <1>4, LoadStarts, AcceptingKeeps DEF get_firmware_sources, get_config
<1>5. ASSUME NEW p \in Person, set_config(p) PROVE settings_Inv'
  <2>1. PICK d \in Document : Accept(p, import(d))
    BY <1>5 DEF set_config
  <2>2. QED
    BY <2>1, ImportIsAProgram, ProgramsStart, AcceptingKeeps
<1>6. CASE UNCHANGED settings_vars
  <2>1. UNCHANGED <<on_disk, live_name, chrony_loaded, node_names, jobs, sole, answered, reported>>
    BY <1>6 DEF settings_vars
  <2>2. TypesInv' /\ ListsInv' /\ SoleInv' /\ QuietInv'
    BY <2>1 DEF settings_Inv, TypesInv, ListsInv, SoleInv, QuietInv, Touching, IsFilled
  <2>3. HeadsInv'
    BY <2>1, NothingMoves DEF settings_Inv, HeadsInv
  <2>4. ASSUME NEW s \in Setting, reported'[s] # Unreported PROVE Effect(s, reported[s].holds)'
    <3>1. PICK v : v = reported[s].holds
      OBVIOUS
    <3>2. Effect(s, v)'
      BY <2>1, <2>4, <3>1, NothingMoves DEF settings_Inv, EffectInv
    <3>3. QED
      BY <2>1, <3>1, <3>2 DEF Effect
  <2>5. FlashInv'
    BY <1>6 DEF settings_vars, FlashInv
  <2>6. QED
    BY <2>2, <2>3, <2>4, <2>5 DEF settings_Inv, EffectInv
<1>7. CASE UNCHANGED flash
  <2>1. FlashInv'
    BY <1>7 DEF FlashInv
  <2>2. QED
    BY <2>1, <1>1, <1>2, <1>3, <1>4, <1>5, <1>6, MakingKeeps, OpeningKeeps, FillingKeeps, RemovingKeeps,
       SettingLiveKeeps, ReloadingKeeps, NamingKeeps, ReadingKeeps, ReportingKeeps, CutKeeps DEF settings_Next
<1>8. CASE ~UNCHANGED flash
  <2>1. ASSUME NEW p \in Person
        PROVE  ~(\/ set_hostname(p) \/ set_ntp(p) \/ set_firmware_sources(p) \/ get_firmware_sources(p)
                 \/ get_config(p) \/ set_config(p))
    BY <1>8 DEF set_hostname, set_ntp, set_firmware_sources, get_firmware_sources, get_config, set_config,
               Accept
  <2>2. ASSUME NEW p \in Person
        PROVE  ~(MakeSourceDir(p) \/ SetLive(p) \/ reload(p) \/ read_sources(p) \/ ReportApplied(p))
    BY <1>8 DEF MakeSourceDir, SetLive, reload, read_sources, ReportApplied
  <2>3. ~UNCHANGED settings_vars
    BY <1>8 DEF settings_vars
  <2>4. \/ \E p \in Person : OpenSetting(p) \/ FillSetting(p) \/ RemoveSetting(p) \/ set_node_info(p)
        \/ PowerCut
    BY <2>1, <2>2, <2>3 DEF settings_Next
  <2>5. QED
    BY <2>4, FlashFits, OpeningKeeps, FillingKeeps, RemovingKeeps, NamingKeeps, CutKeeps
<1>9. QED
  BY <1>7, <1>8

\* A setting that was reported applied is in effect, in the file and on the running
\* side, until another request comes to write it or a power cut finds something
\* else stored, and what the cut finds stored is in effect after it: whatever
\* requests are under way, whichever of their steps fail, and wherever the files
\* are (set, store_servers, store_sources, import).
THEOREM ReportsAreTrue == settings_Spec => []AppliedIsInEffect
<1>1. settings_Inv => AppliedIsInEffect
  <2> SUFFICES ASSUME settings_Inv, NEW s \in Setting, reported[s] # Unreported
               PROVE  LET value == reported[s].holds
                      IN  CASE s = "hostname" -> live_name = value /\ on_disk.hostname = Holds(value)
                            [] s = "ntp"      -> chrony_loaded = value /\ parse(on_disk.ntp) = value
                            [] s = "sources"  -> on_disk.sources = Holds(value)
                            [] s = "nodes"    ->
                                 \A n \in DOMAIN value : value[n] # "" => node_names[n] = value[n]
    BY DEF AppliedIsInEffect
  <2>1. Effect(s, reported[s].holds)
    BY DEF settings_Inv, EffectInv
  <2>2. CASE s = "hostname"
    BY <2>1, <2>2 DEF Effect
  <2>3. CASE s = "ntp"
    BY <2>1, <2>3 DEF Effect
  <2>4. CASE s = "sources"
    BY <2>1, <2>4 DEF Effect
  <2>5. CASE s = "nodes"
    BY <2>1, <2>5 DEF Effect
  <2>6. QED
    BY <2>2, <2>3, <2>4, <2>5 DEF Setting
<1>2. QED
  BY SettingsInit, SettingsStep, <1>1, PTL DEF settings_Spec

\* Every list of sources a page is given can be acted on: valid, up to date,
\* and a list that was accepted, with the labels its operator gave
\* (firmware_sources::load, migrate).
THEOREM ListsAreUsable == settings_Spec => []SourcesAreUsable
<1>1. settings_Inv => SourcesAreUsable
  <2> SUFFICES ASSUME settings_Inv, NEW p \in Person
               PROVE  /\ validate_sources(answered[p])
                      /\ \A i \in DOMAIN answered[p] : answered[p][i].location # RETIRED_LOCATION
                      /\ \E given \in Accepted_lists : Descends(answered[p], given)
    BY DEF SourcesAreUsable, Accepted_lists, Descends
  <2>1. Usable(answered[p])
    BY DEF settings_Inv, ListsInv
  <2>2. QED
    BY <2>1 DEF Usable, Fits
<1>2. QED
  BY SettingsInit, SettingsStep, <1>1, PTL DEF settings_Spec
=============================================================================
