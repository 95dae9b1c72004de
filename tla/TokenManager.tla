---------------------------- MODULE TokenManager ----------------------------
(***************************************************************************)
(* oTokenManager with the RefreshTokenProvider behind it: one access token *)
(* shared by all callers of getToken(), refreshed before it expires,       *)
(* persisted in an optional store, and dropped by destroy().               *)
(*                                                                         *)
(* A token is its generation: the authorization server issues 1, 2, ...,   *)
(* each with a new refresh token that replaces the one before (rotation).  *)
(* 0 stands for no token.  An execution of executeRefreshWithRetry() is a  *)
(* member of Runs; refreshPromise refers to the one that callers share.    *)
(*                                                                         *)
(* A write to the store takes effect when it is called and is answered     *)
(* later; a read returns what was there when it was called.                *)
(***************************************************************************)
EXTENDS Naturals, FiniteSets

CONSTANTS
  Callers,    \* bound: calls of getToken() under way at one time
  Runs,       \* bound: executions of the retry loop at one time
  MaxTokens,  \* bound: tokens issued
  MaxRetries, \* config.maxRefreshRetries
  Lifetime,   \* how long a token lives, in ticks
  Buffer,     \* config.refreshBufferMs, in ticks
  MaxTimeout  \* 2^31 - 1 ms, the longest delay setTimeout honours, in ticks

ASSUME TokenAssumption ==
  /\ IsFiniteSet(Callers) /\ IsFiniteSet(Runs) /\ "none" \notin Runs
  /\ MaxTokens \in Nat \ {0} /\ MaxRetries \in Nat
  /\ Lifetime \in Nat \ {0} /\ Buffer \in Nat /\ MaxTimeout \in Nat

VARIABLES
  current,        \* currentResult
  age,            \* how long ago each token was issued, up to Lifetime
  timer,          \* refreshTimer: ticks left, or Off
  refreshPromise, \* the run that callers share, or NoRun
  runs,           \* the executions of the retry loop
  callers,        \* the calls of getToken()
  storeLoaded,
  stored,         \* the persisted token, or NoStore when config.store is not set
  destroyer,      \* where destroy() is
  gaveUp,         \* the last run failed for good
  refreshToken,   \* the provider's refresh token, by generation
  issued,         \* the last token the server issued
  unheard         \* whether an answer with a token was lost

vars == <<current, age, timer, refreshPromise, runs, callers, storeLoaded, stored,
          destroyer, gaveUp, refreshToken, issued, unheard>>

Tokens == 1..MaxTokens
NoStore == MaxTokens + 1
NoRun   == "none"
Off     == Lifetime + 1
Delays  == 0..Lifetime

HasStore == stored # NoStore

\* presented is the refresh token that was sent with the request.
Run      == [at : {"none", "acquiring", "sleeping", "saving"},
             attempt : 0..MaxRetries, presented : 0..MaxTokens]
NoRunYet == [at |-> "none", attempt |-> 0, presented |-> 0]
Caller   == [at : {"idle", "loading", "waiting"},
             on : Runs \cup {NoRun}, read : 0..MaxTokens, got : 0..MaxTokens]

TypeOK ==
  /\ current \in 0..MaxTokens
  /\ age \in [Tokens -> 0..Lifetime]
  /\ timer \in Delays \cup {Off}
  /\ refreshPromise \in Runs \cup {NoRun}
  /\ runs \in [Runs -> Run]
  /\ callers \in [Callers -> Caller]
  /\ storeLoaded \in BOOLEAN
  /\ stored \in 0..MaxTokens \cup {NoStore}
  /\ destroyer \in {"no", "saving", "done"}
  /\ gaveUp \in BOOLEAN
  /\ refreshToken \in 0..MaxTokens
  /\ issued \in Tokens
  /\ unheard \in BOOLEAN

\* The store may hold the token of an earlier process, and the provider may
\* have been configured with the refresh token before that one.
Init ==
  /\ current = 0 /\ issued = 1 /\ unheard = FALSE
  /\ age = [t \in Tokens |-> 0]
  /\ timer = Off
  /\ refreshPromise = NoRun
  /\ runs = [r \in Runs |-> NoRunYet]
  /\ callers = [c \in Callers |-> [at |-> "idle", on |-> NoRun, read |-> 0, got |-> 0]]
  /\ storeLoaded = FALSE
  /\ stored \in {NoStore, 0, 1}
  /\ refreshToken \in IF stored = 1 THEN {0, 1} ELSE {1}
  /\ destroyer = "no"
  /\ gaveUp = FALSE

destroyed    == destroyer # "no"
Active(r)    == runs[r].at # "none"
Expired(t)   == age[t] >= Lifetime
IsClose(t)   == age[t] + Buffer >= Lifetime

-----------------------------------------------------------------------------
(* Helpers of getToken() and of the refresh.                               *)

\* setTimeout fires at once for a delay it cannot represent.
Timeout(delay) == IF delay > MaxTimeout THEN 0 ELSE delay

DelayOf(tokenAge) ==
  IF tokenAge + Buffer >= Lifetime THEN 0 ELSE Timeout(Lifetime - Buffer - tokenAge)

\* Mutant: only the first token is scheduled.
ScheduledOnce(tokenAge) == IF destroyed \/ current # 0 THEN Off ELSE DelayOf(tokenAge)

\* Mutant: a late refresh arms the timer of a destroyed manager.
ScheduledThoughDestroyed(tokenAge) == DelayOf(tokenAge)

\* scheduleAutoRefresh() replaces the timer, and leaves none once destroyed.
Scheduled(tokenAge) == IF destroyed THEN Off ELSE DelayOf(tokenAge)

\* Mutant: every refresh() starts a run of its own.
NothingShared == TRUE

StartsRun == refreshPromise = NoRun

\* refresh(): share the run r that is in flight, or start r, whose first
\* request leaves in the same turn with the refresh token rt.
Refresh(r, rt) ==
  IF StartsRun
  THEN /\ ~Active(r)
       /\ runs' = [runs EXCEPT ![r] = [at |-> "acquiring", attempt |-> 0, presented |-> rt]]
       /\ refreshPromise' = r
  ELSE /\ r = refreshPromise
       /\ UNCHANGED <<runs, refreshPromise>>

Wait(c, r)   == callers' = [callers EXCEPT ![c].at = "waiting", ![c].on = r]
Return(c, t) == callers' = [callers EXCEPT ![c] = [at |-> "idle", on |-> NoRun,
                                                   read |-> 0, got |-> t]]
Reject(c)    == Return(c, callers[c].got)

\* A run ends: its promise settles, whoever shares it goes on, and the
\* initiator's finally clears refreshPromise.
RunEnds(r, t) ==
  /\ runs' = [runs EXCEPT ![r] = NoRunYet]
  /\ refreshPromise' = NoRun
  /\ callers' = [c \in Callers |->
       IF callers[c].at = "waiting" /\ callers[c].on = r
       THEN [at |-> "idle", on |-> NoRun, read |-> 0,
             got |-> IF t = 0 THEN callers[c].got ELSE t]
       ELSE callers[c]]

-----------------------------------------------------------------------------
(* getToken().                                                             *)

\* Mutant: a cached token is returned without a look at the clock.
CachedUnchecked == current # 0

CachedIsGood == current # 0 /\ ~Expired(current)

ReturnCached(c) ==
  /\ callers[c].at = "idle" /\ ~destroyed
  /\ CachedIsGood
  /\ Return(c, current)
  /\ UNCHANGED <<current, age, timer, refreshPromise, runs, storeLoaded, stored,
                 destroyer, gaveUp, refreshToken, issued, unheard>>

\* The first caller that finds no token reads the store; storeLoaded is set
\* before the read, so a second caller does not wait for it.
ReadStore(c) ==
  /\ callers[c].at = "idle" /\ ~destroyed
  /\ HasStore /\ ~storeLoaded /\ current = 0
  /\ storeLoaded' = TRUE
  /\ callers' = [callers EXCEPT ![c].at = "loading", ![c].read = stored]
  /\ UNCHANGED <<current, age, timer, refreshPromise, runs, stored, destroyer,
                 gaveUp, refreshToken, issued, unheard>>

\* getToken(true), and getToken() with nothing usable at hand.
GetFresh(c, force) ==
  /\ callers[c].at = "idle" /\ ~destroyed
  /\ force \/ (~CachedIsGood /\ ~(HasStore /\ ~storeLoaded /\ current = 0))
  /\ \E r \in Runs : Refresh(r, refreshToken) /\ Wait(c, r)
  /\ UNCHANGED <<current, age, timer, storeLoaded, stored, destroyer, gaveUp,
                 refreshToken, issued, unheard>>

\* The store answers.  A persisted token becomes the current one whatever
\* happened meanwhile, and its refresh token goes back to the provider.
StoreAnswers(c) ==
  /\ callers[c].at = "loading"
  /\ LET t == callers[c].read
     IN  /\ IF t # 0
            THEN /\ current' = t
                 /\ refreshToken' = t
                 /\ timer' = Scheduled(age[t])
            ELSE UNCHANGED <<current, refreshToken, timer>>
         /\ IF t # 0 /\ ~Expired(t)
            THEN Return(c, t) /\ UNCHANGED <<runs, refreshPromise>>
            ELSE IF destroyed
                 THEN Reject(c) /\ UNCHANGED <<runs, refreshPromise>>
                 ELSE \E r \in Runs : Refresh(r, refreshToken') /\ Wait(c, r)
  /\ UNCHANGED <<age, storeLoaded, stored, destroyer, gaveUp, issued, unheard>>

StoreFails(c) ==
  /\ callers[c].at = "loading"
  /\ IF destroyed
     THEN Reject(c) /\ UNCHANGED <<runs, refreshPromise>>
     ELSE \E r \in Runs : Refresh(r, refreshToken) /\ Wait(c, r)
  /\ UNCHANGED <<current, age, timer, storeLoaded, stored, destroyer, gaveUp,
                 refreshToken, issued, unheard>>

-----------------------------------------------------------------------------
(* executeRefreshWithRetry().                                              *)

\* Mutant: the provider keeps the refresh token it was configured with.
NotRotated == UNCHANGED refreshToken

Rotated == refreshToken' = issued + 1

\* The server accepts the last refresh token it issued and no other.  The
\* new token is scheduled, and saved before the run ends.
Acquired(r) ==
  /\ runs[r].at = "acquiring"
  /\ runs[r].presented = issued /\ issued < MaxTokens
  /\ issued' = issued + 1
  /\ Rotated
  /\ current' = issued'
  /\ timer' = Scheduled(0)
  /\ gaveUp' = FALSE
  /\ IF HasStore
     THEN /\ stored' = issued'
          /\ runs' = [runs EXCEPT ![r].at = "saving"]
          /\ UNCHANGED <<refreshPromise, callers>>
     ELSE /\ RunEnds(r, issued')
          /\ UNCHANGED stored
  /\ UNCHANGED <<age, storeLoaded, destroyer, unheard>>

\* The store has written the token, or failed to, which is ignored.
Saved(r) ==
  /\ runs[r].at = "saving"
  /\ RunEnds(r, runs[r].presented + 1)
  /\ UNCHANGED <<current, age, timer, storeLoaded, stored, destroyer, gaveUp,
                 refreshToken, issued, unheard>>

RetriesLeft(r) == runs[r].attempt < MaxRetries

\* The server accepts the request, but its answer is lost or cannot be read.
AnswerLost(r) ==
  /\ runs[r].presented = issued /\ issued < MaxTokens
  /\ issued' = issued + 1
  /\ unheard' = TRUE

\* The request fails on its way, the server refuses the refresh token, or the
\* answer is lost.
AcquireFails(r) ==
  /\ runs[r].at = "acquiring"
  /\ UNCHANGED <<issued, unheard>> \/ AnswerLost(r)
  /\ IF RetriesLeft(r)
     THEN /\ runs' = [runs EXCEPT ![r].at = "sleeping"]
          /\ UNCHANGED <<refreshPromise, callers, gaveUp>>
     ELSE /\ RunEnds(r, 0)
          /\ gaveUp' = TRUE
  /\ UNCHANGED <<current, age, timer, storeLoaded, stored, destroyer, refreshToken>>

\* Mutant: the count of attempts starts over with each of them.
BackoffForgetsCount(r) ==
  /\ runs[r].at = "sleeping"
  /\ runs' = [runs EXCEPT ![r].at = "acquiring", ![r].presented = refreshToken]
  /\ UNCHANGED <<current, age, timer, refreshPromise, callers, storeLoaded, stored,
                 destroyer, gaveUp, refreshToken, issued, unheard>>

BackoffElapsed(r) ==
  /\ runs[r].at = "sleeping"
  /\ runs' = [runs EXCEPT ![r] = [at |-> "acquiring", attempt |-> runs[r].attempt + 1,
                                  presented |-> refreshToken]]
  /\ UNCHANGED <<current, age, timer, refreshPromise, callers, storeLoaded, stored,
                 destroyer, gaveUp, refreshToken, issued, unheard>>

TimerFires ==
  /\ timer = 0
  /\ timer' = Off
  /\ IF destroyed
     THEN UNCHANGED <<runs, refreshPromise>>
     ELSE \E r \in Runs : Refresh(r, refreshToken)
  /\ UNCHANGED <<current, age, callers, storeLoaded, stored, destroyer, gaveUp,
                 refreshToken, issued, unheard>>

-----------------------------------------------------------------------------
(* destroy(), and time.                                                    *)

\* The timer is cleared and the token saved, before memory is cleared.
Destroy ==
  /\ destroyer = "no"
  /\ destroyer' = "saving"
  /\ timer' = Off
  /\ stored' = IF HasStore /\ current # 0 THEN current ELSE stored
  /\ UNCHANGED <<current, age, refreshPromise, runs, callers, storeLoaded, gaveUp,
                 refreshToken, issued, unheard>>

Destroyed ==
  /\ destroyer = "saving"
  /\ destroyer' = "done"
  /\ current' = 0
  /\ refreshPromise' = NoRun
  /\ UNCHANGED <<age, timer, runs, callers, storeLoaded, stored, gaveUp,
                 refreshToken, issued, unheard>>

\* Time passes for every token that was issued.  A timer may be late.
Tick ==
  /\ age' = [t \in Tokens |-> IF t <= issued /\ age[t] < Lifetime THEN age[t] + 1 ELSE age[t]]
  /\ timer' = IF timer \in 1..Lifetime THEN timer - 1 ELSE timer
  /\ UNCHANGED <<current, refreshPromise, runs, callers, storeLoaded, stored, destroyer,
                 gaveUp, refreshToken, issued, unheard>>

-----------------------------------------------------------------------------
CallerStep(c) == StoreAnswers(c) \/ StoreFails(c)
RunStep(r)    == Acquired(r) \/ Saved(r) \/ AcquireFails(r) \/ BackoffElapsed(r)

Next ==
  \/ \E c \in Callers : \/ ReturnCached(c) \/ ReadStore(c) \/ CallerStep(c)
                        \/ \E force \in BOOLEAN : GetFresh(c, force)
  \/ \E r \in Runs : RunStep(r)
  \/ TimerFires \/ Destroy \/ Destroyed \/ Tick

Spec == Init /\ [][Next]_vars

\* Store, server and timers answer, one way or the other.
FairSpec == /\ Spec
            /\ \A c \in Callers : WF_vars(CallerStep(c))
            /\ \A r \in Runs : WF_vars(RunStep(r))

-----------------------------------------------------------------------------
(* Properties that hold.                                                   *)

\* Two requests to the server never overlap, so a rotated refresh token is
\* never presented by a second request that was already on its way.
SingleFlight == \A r, s \in Runs : Active(r) /\ Active(s) => r = s

\* "Rotate stored refresh token if the provider returned a new one"
\* (o-refresh-token-provider.ts:73): while no request is on its way, and once
\* there is a token, the provider holds the refresh token that the server
\* will accept, unless the answer that carried it was lost.
ProviderKeepsLatest ==
  current # 0 /\ ~unheard /\ (\A r \in Runs : runs[r].at # "acquiring") => refreshToken = issued

\* A token in use is either going to be refreshed or being refreshed, until a
\* refresh has failed for good.
RefreshScheduled ==
  current # 0 /\ ~destroyed /\ ~gaveUp =>
    timer # Off \/ \E r \in Runs : Active(r)

\* destroy() leaves no timer for a refresh, not even that of one that ends
\* later.  (A retry loop that is under way goes on: it wakes up from its backoff
\* and sends the request again.)
DestroyedIsSilent == destroyed => timer = Off

\* Without a store a token in use is going to be refreshed, with the refresh
\* token the server will accept.  (With one, a refresh that saves for longer
\* than the token lives is not followed by another, and a late answer of the
\* store restores a token that was rotated away.)
MemoryIsUpToDate == ~HasStore => RefreshScheduled /\ ProviderKeepsLatest

\* getToken() never returns a token that has expired, and the timer ("refresh
\* 60s before expiry", o-token-manager.ts:8) fires only when the current token
\* is close to its expiry, never for a token that another refresh has replaced.
\* Both need saves that are quicker than tokens expire.
StaysFresh ==
  /\ \A c \in Callers : callers'[c].got # callers[c].got => ~Expired(callers'[c].got)
  /\ timer = 0 /\ timer' = Off /\ ~destroyed /\ current # 0 /\ UNCHANGED current
       => IsClose(current)

\* Without a store nothing is saved, and they hold.
MemoryIsFresh == [][~HasStore => StaysFresh]_vars

\* A call of getToken() is answered.
CallersAnswered == \A c \in Callers : (callers[c].at # "idle") ~> (callers[c].at = "idle")
=============================================================================
