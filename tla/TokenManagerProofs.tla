------------------------- MODULE TokenManagerProofs -------------------------
(***************************************************************************)
(* Proofs about TokenManager, for every set of callers and runs, any       *)
(* lifetime and buffer, with and without a store.                          *)
(***************************************************************************)
EXTENDS TokenManager, TLAPS

\* A run that is under way is the one refreshPromise refers to, until
\* destroy() clears the reference.
PromiseIsTheRun == \A r \in Runs : Active(r) => refreshPromise = r \/ destroyer = "done"

\* What keeps the counters of a run within their bounds: the token that is
\* being saved was issued, and a run that sleeps has an attempt left.
RunsBounded ==
  \A r \in Runs : /\ runs[r].at = "saving" => runs[r].presented < MaxTokens
                  /\ runs[r].at = "sleeping" => runs[r].attempt < MaxRetries

\* The conjuncts about the runs alone.
RunsInv == PromiseIsTheRun /\ SingleFlight /\ RunsBounded

IInv == TypeOK /\ RunsInv /\ DestroyedIsSilent

-----------------------------------------------------------------------------
\* The timer is off or within the lifetime of a token, and off once destroyed.
LEMMA ScheduledType ==
  ASSUME NEW a \in Nat
  PROVE  Scheduled(a) \in Delays \cup {Off} /\ (destroyed => Scheduled(a) = Off)
BY TokenAssumption DEF Scheduled, DelayOf, Timeout, Delays, Off

\* The initial states satisfy the invariant.
LEMMA InitIInv == Init => IInv
<1> SUFFICES ASSUME Init PROVE IInv
  OBVIOUS
<1> USE TokenAssumption
<1>1. gaveUp \in BOOLEAN /\ storeLoaded \in BOOLEAN /\ unheard \in BOOLEAN
  BY Zenon DEF Init
<1>2. runs \in [Runs -> Run] /\ \A r \in Runs : ~Active(r)
  BY DEF Init, Run, NoRunYet, Active
<1>3. callers \in [Callers -> Caller]
  BY DEF Init, Caller, NoRun
<1>4. stored \in 0..MaxTokens \cup {NoStore} /\ refreshToken \in 0..MaxTokens
  BY DEF Init
<1>5. TypeOK
  <2>1. /\ current \in 0..MaxTokens /\ issued \in Tokens
        /\ age \in [Tokens -> 0..Lifetime] /\ timer \in Delays \cup {Off}
        /\ refreshPromise \in Runs \cup {NoRun} /\ destroyer \in {"no", "saving", "done"}
    BY DEF Init, Tokens, Off
  <2> QED BY <1>1, <1>2, <1>3, <1>4, <2>1, Zenon DEF TypeOK
<1>6. RunsInv /\ DestroyedIsSilent
  BY <1>2 DEF Init, RunsInv, PromiseIsTheRun, SingleFlight, RunsBounded, NoRunYet, DestroyedIsSilent
<1> QED BY <1>5, <1>6 DEF IInv

-----------------------------------------------------------------------------
\* What the steps do to the runs, one lemma per helper.

\* The start of a run.
LEMMA RefreshKeeps ==
  ASSUME IInv, ~destroyed, NEW r \in Runs, NEW rt \in 0..MaxTokens, Refresh(r, rt),
         destroyer' = destroyer
  PROVE  /\ runs' \in [Runs -> Run] /\ refreshPromise' \in Runs \cup {NoRun}
         /\ RunsInv'
<1> USE TokenAssumption DEF IInv, RunsInv, RunsBounded, TypeOK, Run, Active, PromiseIsTheRun, SingleFlight
<1>1. CASE StartsRun
  <2>1. \A s \in Runs : ~Active(s)
    BY <1>1 DEF StartsRun, NoRun, destroyed
  <2>2. runs' = [runs EXCEPT ![r] = [at |-> "acquiring", attempt |-> 0, presented |-> rt]]
        /\ refreshPromise' = r
    BY <1>1 DEF Refresh
  <2> QED BY <2>1, <2>2
<1>2. CASE ~StartsRun
  BY <1>2 DEF Refresh
<1> QED BY <1>1, <1>2

\* The end of a run, which answers everybody who waits for it.
LEMMA RunEndsKeeps ==
  ASSUME IInv, NEW r \in Runs, NEW t \in 0..MaxTokens, Active(r), RunEnds(r, t)
  PROVE  /\ runs' \in [Runs -> Run] /\ refreshPromise' \in Runs \cup {NoRun}
         /\ callers' \in [Callers -> Caller]
         /\ RunsInv'
<1>1. runs' = [runs EXCEPT ![r] = NoRunYet] /\ refreshPromise' = NoRun
  BY DEF RunEnds
<1>2. \A s \in Runs : ~(runs'[s].at # "none")
  BY <1>1 DEF IInv, RunsInv, TypeOK, Run, SingleFlight, Active, NoRunYet
<1>3. callers' \in [Callers -> Caller]
  BY TokenAssumption DEF RunEnds, IInv, TypeOK, Caller, NoRun
<1> QED BY <1>1, <1>2, <1>3, TokenAssumption
        DEF IInv, TypeOK, Run, NoRunYet, RunsInv, RunsBounded, PromiseIsTheRun, SingleFlight, Active

\* A caller that waits is a caller.
LEMMA WaitType ==
  ASSUME IInv, NEW c \in Callers, NEW r \in Runs, Wait(c, r)
  PROVE  callers' \in [Callers -> Caller]
BY ZenonT(40) DEF IInv, TypeOK, Caller, Wait

\* So is one that was answered.
LEMMA ReturnType ==
  ASSUME IInv, NEW c \in Callers, NEW t \in 0..MaxTokens, Return(c, t)
  PROVE  callers' \in [Callers -> Caller]
BY TokenAssumption DEF IInv, TypeOK, Caller, Return, NoRun

\* An execution moves on to another await.
LEMMA RunMoves ==
  ASSUME IInv, NEW r \in Runs, Active(r), NEW run \in Run, run.at # "none",
         run.at = "saving" => run.presented < MaxTokens,
         run.at = "sleeping" => run.attempt < MaxRetries,
         runs' = [runs EXCEPT ![r] = run],
         UNCHANGED <<refreshPromise, destroyer>>
  PROVE  /\ runs' \in [Runs -> Run] /\ refreshPromise' \in Runs \cup {NoRun}
         /\ RunsInv'
BY DEF IInv, TypeOK, Run, RunsInv, RunsBounded, PromiseIsTheRun, SingleFlight, Active

-----------------------------------------------------------------------------

\* Every step of a caller keeps the invariant.
LEMMA CallerIInv ==
  ASSUME IInv, NEW c \in Callers,
         ReturnCached(c) \/ ReadStore(c) \/ CallerStep(c)
           \/ \E force \in BOOLEAN : GetFresh(c, force)
  PROVE  IInv'
<1>1. CASE ReturnCached(c)
  <2>1. callers' \in [Callers -> Caller]
    BY <1>1, ReturnType DEF ReturnCached, IInv, TypeOK
  <2> QED BY <1>1, <2>1 DEF ReturnCached, IInv, TypeOK, RunsInv, RunsBounded, PromiseIsTheRun, SingleFlight, Active,
                            DestroyedIsSilent, destroyed
<1>2. CASE ReadStore(c)
  <2>1. callers' \in [Callers -> Caller] /\ storeLoaded' \in BOOLEAN
    BY <1>2, ZenonT(40) DEF ReadStore, HasStore, IInv, TypeOK, Caller
  <2> QED BY <1>2, <2>1 DEF ReadStore, IInv, TypeOK, RunsInv, RunsBounded, PromiseIsTheRun, SingleFlight, Active,
                            DestroyedIsSilent, destroyed
<1>3. CASE \E force \in BOOLEAN : GetFresh(c, force)
  <2>1. PICK r \in Runs : Refresh(r, refreshToken) /\ Wait(c, r)
    BY <1>3 DEF GetFresh
  <2>2. ~destroyed /\ UNCHANGED <<current, age, timer, storeLoaded, stored, destroyer, gaveUp,
                                  refreshToken, issued, unheard>>
    BY <1>3 DEF GetFresh
  <2>3. refreshToken \in 0..MaxTokens
    BY DEF IInv, TypeOK
  <2>4. callers' \in [Callers -> Caller]
    BY <2>1, WaitType
  <2> QED BY <2>1, <2>2, <2>3, <2>4, RefreshKeeps
          DEF IInv, TypeOK, DestroyedIsSilent, destroyed
<1>4. CASE StoreFails(c)
  <2>1. UNCHANGED <<current, age, timer, storeLoaded, stored, destroyer, gaveUp,
                    refreshToken, issued, unheard>>
    BY <1>4 DEF StoreFails
  <2>2. CASE destroyed
    <3>1. callers[c].got \in 0..MaxTokens
      BY DEF IInv, TypeOK, Caller
    <3>2. callers' \in [Callers -> Caller] /\ UNCHANGED <<runs, refreshPromise>>
      BY <1>4, <2>2, <3>1, ReturnType DEF StoreFails, Reject
    <3> QED BY <2>1, <3>2 DEF IInv, TypeOK, RunsInv, RunsBounded, PromiseIsTheRun, SingleFlight, Active,
                              DestroyedIsSilent, destroyed
  <2>3. CASE ~destroyed
    <3>1. PICK r \in Runs : Refresh(r, refreshToken) /\ Wait(c, r)
      BY <1>4, <2>3 DEF StoreFails
    <3>2. callers' \in [Callers -> Caller]
      BY <3>1, WaitType
    <3> QED BY <2>1, <2>3, <3>1, <3>2, RefreshKeeps
            DEF IInv, TypeOK, DestroyedIsSilent, destroyed
  <2> QED BY <2>2, <2>3
<1>5. CASE StoreAnswers(c)
  <2> DEFINE t == callers[c].read
  <2>1. t \in 0..MaxTokens /\ callers[c].got \in 0..MaxTokens
    BY DEF IInv, TypeOK, Caller
  <2> HIDE DEF t
  <2>2. /\ UNCHANGED <<age, storeLoaded, stored, destroyer, gaveUp, issued, unheard>>
        /\ IF t # 0 THEN current' = t /\ refreshToken' = t /\ timer' = Scheduled(age[t])
                    ELSE UNCHANGED <<current, refreshToken, timer>>
        /\ IF t # 0 /\ ~Expired(t)
           THEN Return(c, t) /\ UNCHANGED <<runs, refreshPromise>>
           ELSE IF destroyed
                THEN Reject(c) /\ UNCHANGED <<runs, refreshPromise>>
                ELSE \E r \in Runs : Refresh(r, refreshToken') /\ Wait(c, r)
    BY <1>5 DEF StoreAnswers, t
  <2>3. /\ current' \in 0..MaxTokens /\ refreshToken' \in 0..MaxTokens
        /\ timer' \in Delays \cup {Off} /\ (destroyed => timer' = Off)
    <3>1. CASE t # 0
      <4>1. age[t] \in Nat
        BY <2>1, <3>1, TokenAssumption DEF IInv, TypeOK, Tokens
      <4> QED BY <2>1, <2>2, <3>1, <4>1, ScheduledType
    <3>2. CASE t = 0
      BY <2>2, <3>2 DEF IInv, TypeOK, DestroyedIsSilent
    <3> QED BY <3>1, <3>2
  <2>4. /\ callers' \in [Callers -> Caller]
        /\ runs' \in [Runs -> Run] /\ refreshPromise' \in Runs \cup {NoRun}
        /\ RunsInv'
    <3>1. CASE UNCHANGED <<runs, refreshPromise>> /\ (Return(c, t) \/ Reject(c))
      <4>1. callers' \in [Callers -> Caller]
        BY <2>1, <3>1, ReturnType DEF Reject
      <4> QED BY <2>2, <3>1, <4>1 DEF IInv, TypeOK, RunsInv, RunsBounded, PromiseIsTheRun, SingleFlight, Active
    <3>2. ASSUME ~destroyed, NEW r \in Runs, Refresh(r, refreshToken'), Wait(c, r)
          PROVE  /\ callers' \in [Callers -> Caller]
                 /\ runs' \in [Runs -> Run] /\ refreshPromise' \in Runs \cup {NoRun}
                 /\ RunsInv'
      BY <2>2, <2>3, <3>2, RefreshKeeps, WaitType
    <3> QED BY <2>2, <3>1, <3>2
  <2> QED BY <2>2, <2>3, <2>4 DEF IInv, TypeOK, DestroyedIsSilent, destroyed
<1> QED BY <1>1, <1>2, <1>3, <1>4, <1>5 DEF CallerStep

\* Every step of a run.
LEMMA RunIInv == ASSUME IInv, NEW r \in Runs, RunStep(r) PROVE IInv'
<1> USE TokenAssumption
<1>1. CASE Acquired(r)
  <2>1. /\ runs[r].at = "acquiring" /\ issued' = issued + 1 /\ issued < MaxTokens
        /\ refreshToken' = issued + 1 /\ current' = issued + 1
        /\ timer' = Scheduled(0) /\ gaveUp' = FALSE
        /\ UNCHANGED <<age, storeLoaded, destroyer, unheard>>
    BY <1>1 DEF Acquired, Rotated
  <2>2. gaveUp' \in BOOLEAN
    BY <2>1, Zenon
  <2>3. /\ issued' \in Tokens /\ refreshToken' \in 0..MaxTokens /\ current' \in 0..MaxTokens
        /\ timer' \in Delays \cup {Off} /\ (destroyed => timer' = Off)
    BY <2>1, ScheduledType DEF IInv, TypeOK, Tokens
  <2>4. CASE HasStore
    <3>1. /\ stored' = issued' /\ runs' = [runs EXCEPT ![r] = [runs[r] EXCEPT !.at = "saving"]]
          /\ UNCHANGED <<refreshPromise, callers>>
      BY <1>1, <2>4 DEF Acquired
    <3>2. /\ [runs[r] EXCEPT !.at = "saving"] \in Run
          /\ [runs[r] EXCEPT !.at = "saving"].at = "saving"
          /\ [runs[r] EXCEPT !.at = "saving"].presented < MaxTokens
      BY <1>1 DEF Acquired, IInv, TypeOK, Run
    <3>3. /\ runs' \in [Runs -> Run] /\ refreshPromise' \in Runs \cup {NoRun}
          /\ RunsInv'
      BY <2>1, <3>1, <3>2, RunMoves DEF Active
    <3> QED BY <2>1, <2>2, <2>3, <3>1, <3>3 DEF IInv, TypeOK, Tokens, DestroyedIsSilent, destroyed
  <2>5. CASE ~HasStore
    <3>1. RunEnds(r, issued') /\ stored' = stored
      BY <1>1, <2>5 DEF Acquired
    <3>2. /\ runs' \in [Runs -> Run] /\ refreshPromise' \in Runs \cup {NoRun}
          /\ callers' \in [Callers -> Caller] /\ RunsInv'
      BY <2>1, <2>3, <3>1, RunEndsKeeps DEF Active, Tokens
    <3> QED BY <2>1, <2>2, <2>3, <3>1, <3>2 DEF IInv, TypeOK, DestroyedIsSilent, destroyed
  <2> QED BY <2>4, <2>5
<1>2. CASE Saved(r)
  <2>1. /\ runs[r].at = "saving" /\ RunEnds(r, runs[r].presented + 1)
        /\ UNCHANGED <<current, age, timer, storeLoaded, stored, destroyer, gaveUp,
                       refreshToken, issued, unheard>>
    BY <1>2 DEF Saved
  <2>2. runs[r].presented + 1 \in 0..MaxTokens
    BY <2>1 DEF IInv, RunsInv, RunsBounded, TypeOK, Run
  <2>3. /\ runs' \in [Runs -> Run] /\ refreshPromise' \in Runs \cup {NoRun}
        /\ callers' \in [Callers -> Caller] /\ RunsInv'
    BY <2>1, <2>2, RunEndsKeeps DEF Active
  <2> QED BY <2>1, <2>3 DEF IInv, TypeOK, DestroyedIsSilent, destroyed
<1>3. CASE AcquireFails(r)
  <2>1. /\ runs[r].at = "acquiring"
        /\ UNCHANGED <<current, age, timer, storeLoaded, stored, destroyer, refreshToken>>
        /\ issued' \in Tokens
    BY <1>3 DEF AcquireFails, AnswerLost, IInv, TypeOK, Tokens
  <2>2. unheard' \in BOOLEAN
    BY <1>3, Zenon DEF AcquireFails, AnswerLost, IInv, TypeOK
  <2>3. CASE RetriesLeft(r)
    <3>1. /\ runs' = [runs EXCEPT ![r] = [runs[r] EXCEPT !.at = "sleeping"]]
          /\ UNCHANGED <<refreshPromise, callers, gaveUp>>
      BY <1>3, <2>3 DEF AcquireFails
    <3>2. /\ [runs[r] EXCEPT !.at = "sleeping"] \in Run
          /\ [runs[r] EXCEPT !.at = "sleeping"].at = "sleeping"
          /\ [runs[r] EXCEPT !.at = "sleeping"].attempt < MaxRetries
      BY <2>3 DEF RetriesLeft, IInv, TypeOK, Run
    <3>3. /\ runs' \in [Runs -> Run] /\ refreshPromise' \in Runs \cup {NoRun}
          /\ RunsInv'
      BY <2>1, <3>1, <3>2, RunMoves DEF Active
    <3> QED BY <2>1, <2>2, <3>1, <3>3 DEF IInv, TypeOK, DestroyedIsSilent, destroyed
  <2>4. CASE ~RetriesLeft(r)
    <3>1. RunEnds(r, 0) /\ gaveUp' = TRUE
      BY <1>3, <2>4 DEF AcquireFails
    <3>2. gaveUp' \in BOOLEAN
      BY <3>1, Zenon
    <3>3. /\ runs' \in [Runs -> Run] /\ refreshPromise' \in Runs \cup {NoRun}
          /\ callers' \in [Callers -> Caller] /\ RunsInv'
      BY <2>1, <3>1, RunEndsKeeps DEF Active
    <3> QED BY <2>1, <2>2, <3>2, <3>3 DEF IInv, TypeOK, DestroyedIsSilent, destroyed
  <2> QED BY <2>3, <2>4
<1>4. CASE BackoffElapsed(r)
  <2> DEFINE run == [at |-> "acquiring", attempt |-> runs[r].attempt + 1,
                     presented |-> refreshToken]
  <2>1. /\ runs[r].at = "sleeping" /\ runs' = [runs EXCEPT ![r] = run]
        /\ UNCHANGED <<current, age, timer, refreshPromise, callers, storeLoaded, stored,
                       destroyer, gaveUp, refreshToken, issued, unheard>>
    BY <1>4 DEF BackoffElapsed
  <2>2. run \in Run /\ run.at = "acquiring"
    <3>1. runs[r] \in Run /\ runs[r].attempt < MaxRetries /\ refreshToken \in 0..MaxTokens
      BY <2>1 DEF IInv, RunsInv, RunsBounded, TypeOK
    <3> QED BY <3>1 DEF Run
  <2> HIDE DEF run
  <2>3. /\ runs' \in [Runs -> Run] /\ refreshPromise' \in Runs \cup {NoRun}
        /\ RunsInv'
    BY <2>1, <2>2, RunMoves DEF Active
  <2> QED BY <2>1, <2>3 DEF IInv, TypeOK, DestroyedIsSilent, destroyed
<1> QED BY <1>1, <1>2, <1>3, <1>4 DEF RunStep

-----------------------------------------------------------------------------

\* The timer fires.
LEMMA TimerIInv == ASSUME IInv, TimerFires PROVE IInv'
<1>1. /\ timer' = Off
      /\ UNCHANGED <<current, age, callers, storeLoaded, stored, destroyer, gaveUp,
                     refreshToken, issued, unheard>>
  BY DEF TimerFires
<1>2. /\ runs' \in [Runs -> Run] /\ refreshPromise' \in Runs \cup {NoRun}
      /\ RunsInv'
  <2>1. CASE destroyed
    BY <1>1, <2>1 DEF TimerFires, IInv, TypeOK, RunsInv, RunsBounded, PromiseIsTheRun,
                      SingleFlight, Active
  <2>2. CASE ~destroyed
    <3>1. PICK r \in Runs : Refresh(r, refreshToken)
      BY <2>2 DEF TimerFires
    <3> QED BY <1>1, <2>2, <3>1, RefreshKeeps DEF IInv, TypeOK
  <2> QED BY <2>1, <2>2
<1> QED BY <1>1, <1>2 DEF IInv, TypeOK, DestroyedIsSilent

\* destroy(), and its end.
LEMMA DestroyIInv == ASSUME IInv, Destroy \/ Destroyed PROVE IInv'
<1> USE TokenAssumption
<1>1. CASE Destroy
  BY <1>1 DEF Destroy, IInv, TypeOK, RunsInv, RunsBounded, PromiseIsTheRun, SingleFlight,
              Active, DestroyedIsSilent
<1>2. CASE Destroyed
  BY <1>2 DEF Destroyed, destroyed, IInv, TypeOK, RunsInv, RunsBounded, PromiseIsTheRun,
              SingleFlight, Active, DestroyedIsSilent
<1> QED BY <1>1, <1>2

\* Time passes.
LEMMA TickIInv == ASSUME IInv, Tick PROVE IInv'
<1> USE TokenAssumption
<1>1. age' \in [Tokens -> 0..Lifetime]
  BY DEF Tick, IInv, TypeOK, Tokens
<1>2. timer' \in Delays \cup {Off} /\ (destroyed => timer' = Off)
  BY DEF Tick, IInv, TypeOK, Delays, Off, DestroyedIsSilent
<1> QED BY <1>1, <1>2 DEF Tick, destroyed, IInv, TypeOK, RunsInv, RunsBounded, PromiseIsTheRun,
                          SingleFlight, Active, DestroyedIsSilent

\* Every step keeps the invariant.
LEMMA NextIInv == IInv /\ [Next]_vars => IInv'
<1> SUFFICES ASSUME IInv, [Next]_vars PROVE IInv'
  OBVIOUS
<1>1. CASE \E c \in Callers : \/ ReturnCached(c) \/ ReadStore(c) \/ CallerStep(c)
                             \/ \E force \in BOOLEAN : GetFresh(c, force)
  BY <1>1, CallerIInv
<1>2. CASE \E r \in Runs : RunStep(r)
  BY <1>2, RunIInv
<1>3. CASE TimerFires
  BY <1>3, TimerIInv
<1>4. CASE Destroy \/ Destroyed
  BY <1>4, DestroyIInv
<1>5. CASE Tick
  BY <1>5, TickIInv
<1>6. CASE UNCHANGED vars
  BY <1>6 DEF vars, IInv, TypeOK, RunsInv, RunsBounded, PromiseIsTheRun, SingleFlight,
              Active, DestroyedIsSilent, destroyed
<1> QED BY <1>1, <1>2, <1>3, <1>4, <1>5, <1>6 DEF Next

\* The invariant holds in every state.
LEMMA InductiveInvariant == Spec => []IInv
BY InitIInv, NextIInv, PTL DEF Spec

-----------------------------------------------------------------------------
\* Every variable keeps its type: attempts and generations stay within their
\* bounds, and a waiting caller waits for a run that exists.
THEOREM TypeCorrect == Spec => []TypeOK
<1>1. IInv => TypeOK
  BY DEF IInv
<1> QED BY <1>1, InductiveInvariant, PTL

\* refresh() never has two executions of the retry loop under way, with or
\* without a store, whatever the timer, the callers and destroy() do.
THEOREM SingleFlightHolds == Spec => []SingleFlight
<1>1. IInv => SingleFlight
  BY DEF IInv, RunsInv
<1> QED BY <1>1, InductiveInvariant, PTL

\* A destroyed manager has no timer, though its last refresh may still be
\* under way and schedules the next one when it ends.
THEOREM DestroyedSilent == Spec => []DestroyedIsSilent
<1>1. IInv => DestroyedIsSilent
  BY DEF IInv
<1> QED BY <1>1, InductiveInvariant, PTL

-----------------------------------------------------------------------------
(* A manager that has no store.                                            *)

\* The provider has heard of the last token.
Heard == unheard \/ refreshToken = issued

\* Only the server's answers move the provider's refresh token, and no run waits
\* for a write that has no end.
MemoryOnly ==
  /\ Heard
  /\ current <= issued
  /\ \A c \in Callers : callers[c].at # "loading"
  /\ \A r \in Runs : runs[r].at # "saving"

\* A step of something else leaves it so.
LEMMA HeardStays ==
  ASSUME Heard, UNCHANGED <<refreshToken, issued, unheard>> PROVE Heard'
BY Zenon DEF Heard

\* The promise that callers share belongs to a run that is under way: a timer
\* that fires is never answered by a refresh that is over.
PromiseIsLive == refreshPromise # NoRun => Active(refreshPromise)

MemoryInv == ~HasStore => MemoryOnly /\ PromiseIsLive /\ RefreshScheduled

\* Whether there is a store is settled when the manager is made.
LEMMA StoreKept == IInv /\ [Next]_vars => (HasStore' <=> HasStore)
<1> SUFFICES ASSUME IInv, [Next]_vars PROVE HasStore' <=> HasStore
  OBVIOUS
<1> USE TokenAssumption DEF HasStore, NoStore
<1>1. ASSUME NEW c \in Callers,
             ReturnCached(c) \/ ReadStore(c) \/ CallerStep(c)
               \/ \E force \in BOOLEAN : GetFresh(c, force)
      PROVE  stored' = stored
  BY <1>1 DEF ReturnCached, ReadStore, CallerStep, StoreAnswers, StoreFails, GetFresh
<1>2. ASSUME NEW r \in Runs, RunStep(r) PROVE HasStore' <=> HasStore
  <2>1. CASE Acquired(r)
    BY <2>1 DEF Acquired, IInv, TypeOK, Tokens
  <2>2. CASE Saved(r) \/ AcquireFails(r) \/ BackoffElapsed(r)
    BY <2>2 DEF Saved, AcquireFails, BackoffElapsed
  <2> QED BY <1>2, <2>1, <2>2 DEF RunStep
<1>3. CASE Destroy
  BY <1>3 DEF Destroy, IInv, TypeOK
<1>4. CASE TimerFires \/ Destroyed \/ Tick \/ UNCHANGED vars
  BY <1>4 DEF TimerFires, Destroyed, Tick, vars
<1> QED BY <1>1, <1>2, <1>3, <1>4 DEF Next

\* Nobody begins to load or to save.
LEMMA MemoryOnlyKept ==
  ASSUME IInv, ~HasStore, MemoryOnly, [Next]_vars
  PROVE  MemoryOnly'
<1> USE TokenAssumption DEF MemoryOnly, IInv, TypeOK
<1>1. ASSUME NEW c \in Callers,
             ReturnCached(c) \/ ReadStore(c) \/ CallerStep(c)
               \/ \E force \in BOOLEAN : GetFresh(c, force)
      PROVE  MemoryOnly'
  <2>1. UNCHANGED <<refreshToken, issued, unheard>>
    BY <1>1 DEF ReturnCached, ReadStore, CallerStep, StoreAnswers, StoreFails, GetFresh
  <2> QED BY <1>1, <2>1, HeardStays DEF ReturnCached, ReadStore, CallerStep, StoreAnswers,
             StoreFails, GetFresh, Refresh, Return, Wait, Caller, Run
<1>2. ASSUME NEW r \in Runs, RunStep(r) PROVE MemoryOnly'
  <2>1. CASE Acquired(r)
    <3>1. RunEnds(r, issued') /\ issued' = issued + 1 /\ refreshToken' = issued + 1
          /\ current' = issued'
      BY <2>1 DEF Acquired, Rotated
    <3>2. \A c \in Callers : callers'[c].at # "loading"
      BY <3>1 DEF RunEnds
    <3>3. \A s \in Runs : runs'[s].at # "saving"
      BY <3>1 DEF RunEnds, NoRunYet
    <3>4. Heard'
      BY <3>1 DEF Heard
    <3> QED BY <3>1, <3>2, <3>3, <3>4 DEF Tokens
  <2>2. CASE Saved(r)
    BY <2>2 DEF Saved
  <2>3. CASE AcquireFails(r)
    <3>1. Heard'
      <4>1. CASE UNCHANGED <<issued, unheard>>
        BY <2>3, <4>1, HeardStays DEF AcquireFails
      <4>2. CASE AnswerLost(r)
        BY <4>2, Zenon DEF AnswerLost, Heard
      <4> QED BY <2>3, <4>1, <4>2 DEF AcquireFails
    <3>2. current' = current /\ issued <= issued'
      BY <2>3 DEF AcquireFails, AnswerLost, Tokens
    <3>3. /\ \A c \in Callers : callers'[c].at # "loading"
          /\ \A s \in Runs : runs'[s].at # "saving"
      BY <2>3 DEF AcquireFails, RunEnds, NoRunYet, Caller, Run
    <3>4. issued' \in Nat
      BY <2>3 DEF AcquireFails, AnswerLost, Tokens
    <3> QED BY <3>1, <3>2, <3>3, <3>4 DEF Tokens
  <2>4. CASE BackoffElapsed(r)
    BY <2>4, HeardStays DEF BackoffElapsed, Run
  <2> QED BY <1>2, <2>1, <2>2, <2>3, <2>4 DEF RunStep
<1>3. CASE TimerFires \/ Destroy \/ Destroyed \/ Tick \/ UNCHANGED vars
  <2>1. UNCHANGED <<refreshToken, issued, unheard>>
    BY <1>3 DEF TimerFires, Destroy, Destroyed, Tick, vars
  <2>2. UNCHANGED callers /\ current' <= issued
    BY <1>3 DEF TimerFires, Destroy, Destroyed, Tick, vars, Tokens
  <2>3. \A s \in Runs : runs'[s].at # "saving"
    BY <1>3 DEF TimerFires, Destroy, Destroyed, Tick, Refresh, Run, vars
  <2> QED BY <2>1, <2>2, <2>3, HeardStays
<1> QED BY <1>1, <1>2, <1>3 DEF Next

\* A refresh, whether it is started or shared, is under way.
LEMMA RefreshIsUnderWay ==
  ASSUME IInv, PromiseIsLive, NEW r \in Runs, NEW rt, Refresh(r, rt)
  PROVE  PromiseIsLive' /\ \E s \in Runs : Active(s)'
BY DEF IInv, TypeOK, Refresh, StartsRun, PromiseIsLive, Active, Run

\* A run that ends leaves no promise.
LEMMA EndLeavesNoPromise ==
  ASSUME NEW r, NEW t, RunEnds(r, t) PROVE PromiseIsLive'
BY DEF RunEnds, PromiseIsLive

\* A run that goes on keeps the promise live and stays under way.
LEMMA GoesOn ==
  ASSUME IInv, NEW r \in Runs, Active(r), NEW run, run.at # "none",
         runs' = [runs EXCEPT ![r] = run], refreshPromise' = refreshPromise, PromiseIsLive
  PROVE  PromiseIsLive' /\ \E s \in Runs : Active(s)'
BY DEF IInv, TypeOK, PromiseIsLive, Active

\* Every step keeps the invariant of a manager without a store.
LEMMA MemoryInvKept == IInv /\ MemoryInv /\ [Next]_vars => MemoryInv'
<1> SUFFICES ASSUME IInv, MemoryInv, ~HasStore, [Next]_vars
             PROVE  MemoryOnly' /\ PromiseIsLive' /\ RefreshScheduled'
  BY StoreKept DEF MemoryInv
<1>1. MemoryOnly /\ PromiseIsLive /\ RefreshScheduled
  BY DEF MemoryInv
<1>2. MemoryOnly'
  BY <1>1, MemoryOnlyKept
<1>3. ASSUME NEW c \in Callers,
             ReturnCached(c) \/ ReadStore(c) \/ CallerStep(c)
               \/ \E force \in BOOLEAN : GetFresh(c, force)
      PROVE  PromiseIsLive' /\ RefreshScheduled'
  <2>1. ~CallerStep(c) /\ ~ReadStore(c)
    BY <1>1 DEF CallerStep, StoreAnswers, StoreFails, MemoryOnly, ReadStore
  <2>2. CASE ReturnCached(c)
    BY <1>1, <2>2 DEF ReturnCached, PromiseIsLive, RefreshScheduled, Active, destroyed
  <2>3. CASE \E force \in BOOLEAN : GetFresh(c, force)
    <3>1. PICK r \in Runs : Refresh(r, refreshToken)
      BY <2>3 DEF GetFresh
    <3> QED BY <1>1, <3>1, RefreshIsUnderWay DEF RefreshScheduled, Active
  <2> QED BY <1>3, <2>1, <2>2, <2>3
<1>4. ASSUME NEW r \in Runs, RunStep(r) PROVE PromiseIsLive' /\ RefreshScheduled'
  <2>1. CASE Acquired(r)
    <3>1. RunEnds(r, issued') /\ timer' = Scheduled(0) /\ destroyer' = destroyer
      BY <2>1 DEF Acquired
    <3>2. ~destroyed => Scheduled(0) # Off
      BY TokenAssumption DEF Scheduled, DelayOf, Timeout, Off
    <3> QED BY <3>1, <3>2, EndLeavesNoPromise DEF RefreshScheduled, destroyed
  <2>2. CASE Saved(r)
    BY <1>1, <2>2 DEF Saved, MemoryOnly
  <2>3. CASE AcquireFails(r) /\ ~RetriesLeft(r)
    BY <2>3, EndLeavesNoPromise DEF AcquireFails, RefreshScheduled
  <2>4. CASE AcquireFails(r) /\ RetriesLeft(r)
    <3>1. /\ runs' = [runs EXCEPT ![r] = [runs[r] EXCEPT !.at = "sleeping"]]
          /\ refreshPromise' = refreshPromise /\ Active(r)
      BY <2>4 DEF AcquireFails, Active
    <3>2. [runs[r] EXCEPT !.at = "sleeping"].at # "none"
      BY DEF IInv, TypeOK, Run
    <3> QED BY <1>1, <3>1, <3>2, GoesOn DEF RefreshScheduled, Active
  <2>5. CASE BackoffElapsed(r)
    <3> DEFINE run == [at |-> "acquiring", attempt |-> runs[r].attempt + 1,
                       presented |-> refreshToken]
    <3>1. runs' = [runs EXCEPT ![r] = run] /\ refreshPromise' = refreshPromise /\ Active(r)
      BY <2>5 DEF BackoffElapsed, Active
    <3>2. run.at # "none"
      OBVIOUS
    <3> HIDE DEF run
    <3> QED BY <1>1, <3>1, <3>2, GoesOn DEF RefreshScheduled, Active
  <2> QED BY <1>4, <2>1, <2>2, <2>3, <2>4, <2>5 DEF RunStep
<1>5. CASE TimerFires
  <2>1. CASE destroyed
    BY <1>1, <1>2, <1>5, <2>1, Zenon
       DEF TimerFires, PromiseIsLive, RefreshScheduled, Active, destroyed
  <2>2. CASE ~destroyed
    <3>1. PICK r \in Runs : Refresh(r, refreshToken)
      BY <1>5, <2>2 DEF TimerFires
    <3> QED BY <1>1, <1>2, <3>1, RefreshIsUnderWay DEF RefreshScheduled, Active
  <2> QED BY <2>1, <2>2
<1>6. CASE Destroy \/ Destroyed
  BY <1>1, <1>2, <1>6, Zenon
     DEF Destroy, Destroyed, PromiseIsLive, RefreshScheduled, Active, destroyed
<1>7. CASE Tick
  <2>1. timer # Off => timer' # Off
    BY <1>7, TokenAssumption DEF Tick, Off, IInv, TypeOK, Delays
  <2>2. UNCHANGED <<current, refreshPromise, runs, destroyer, gaveUp>>
    BY <1>7 DEF Tick
  <2> QED BY <1>1, <1>2, <2>1, <2>2, Zenon DEF PromiseIsLive, RefreshScheduled, Active, destroyed
<1>8. CASE UNCHANGED vars
  BY <1>1, <1>2, <1>8, Zenon DEF vars, PromiseIsLive, RefreshScheduled, Active, destroyed
<1>9. PromiseIsLive' /\ RefreshScheduled'
  BY <1>3, <1>4, <1>5, <1>6, <1>7, <1>8 DEF Next
<1> QED BY <1>2, <1>9

\* It holds in every state.
LEMMA MemoryInvariant == Spec => []MemoryInv
<1>1. Init => MemoryInv
  <2> SUFFICES ASSUME Init, ~HasStore PROVE MemoryOnly /\ PromiseIsLive /\ RefreshScheduled
    BY DEF MemoryInv
  <2>1. refreshToken = 1 /\ issued = 1 /\ current = 0
    BY TokenAssumption DEF Init, HasStore, NoStore
  <2> QED BY <2>1 DEF Init, MemoryOnly, Heard, PromiseIsLive, RefreshScheduled, NoRunYet
<1> QED BY <1>1, MemoryInvKept, InductiveInvariant, PTL DEF Spec

\* Without a store a token in use always has a refresh ahead of it or under
\* way, until one has failed for good, and the provider always holds the
\* refresh token that the server will accept next, unless the answer that
\* carried it was lost.  With a store neither is so: TokenRestored shows the late answer that breaks the second.
THEOREM MemoryUpToDate == Spec => []MemoryIsUpToDate
<1>1. MemoryInv => MemoryIsUpToDate
  BY Zenon DEF MemoryInv, MemoryOnly, Heard, MemoryIsUpToDate, ProviderKeepsLatest
<1> QED BY <1>1, MemoryInvariant, PTL

-----------------------------------------------------------------------------
(* The timer of a manager that has no store follows its current token.     *)

\* A token that was not issued has no age, and a timer that is set will not
\* fire before the current token is close to its expiry.
TimerFollows ==
  /\ \A t \in Tokens : t > issued => age[t] = 0
  /\ timer # Off /\ current # 0 => timer + age[current] + Buffer >= Lifetime

\* Every step keeps the timer behind its token.
LEMMA TimerFollowsKept ==
  ASSUME Lifetime <= Buffer + MaxTimeout, IInv, ~HasStore, MemoryOnly, TimerFollows,
         [Next]_vars
  PROVE  TimerFollows'
<1> USE TokenAssumption DEF IInv, TypeOK, Tokens, Delays, Off
<1>1. ASSUME NEW c \in Callers,
             ReturnCached(c) \/ ReadStore(c) \/ CallerStep(c)
               \/ \E force \in BOOLEAN : GetFresh(c, force)
      PROVE  TimerFollows'
  <2>1. UNCHANGED <<age, timer, current, issued>>
    BY <1>1 DEF ReturnCached, ReadStore, CallerStep, StoreAnswers, StoreFails, GetFresh,
                MemoryOnly
  <2> QED BY <2>1 DEF TimerFollows
<1>2. ASSUME NEW r \in Runs, RunStep(r) PROVE TimerFollows'
  <2>1. CASE Acquired(r)
    <3>1. /\ issued' = issued + 1 /\ issued < MaxTokens /\ current' = issued + 1
          /\ timer' = Scheduled(0) /\ age' = age
      BY <2>1 DEF Acquired
    <3>2. age[issued + 1] = 0
      BY <3>1 DEF TimerFollows
    <3>3. Scheduled(0) = Off \/ Scheduled(0) + Buffer >= Lifetime
      BY DEF Scheduled, DelayOf, Timeout
    <3>4. Scheduled(0) \in 0..Off
      BY ScheduledType
    <3> QED BY <3>1, <3>2, <3>3, <3>4 DEF TimerFollows
  <2>2. CASE Saved(r) \/ AcquireFails(r) \/ BackoffElapsed(r)
    <3>1. UNCHANGED <<age, timer, current>>
      BY <2>2 DEF Saved, AcquireFails, BackoffElapsed
    <3>2. issued' \in Nat /\ issued <= issued'
      BY <2>2 DEF Saved, AcquireFails, AnswerLost, BackoffElapsed
    <3> QED BY <3>1, <3>2 DEF TimerFollows
  <2> QED BY <1>2, <2>1, <2>2 DEF RunStep
<1>3. CASE TimerFires \/ Destroy
  BY <1>3 DEF TimerFires, Destroy, TimerFollows
<1>4. CASE Destroyed
  BY <1>4 DEF Destroyed, TimerFollows
<1>5. CASE Tick
  <2>1. \A t \in Tokens : t > issued' => age'[t] = 0
    BY <1>5 DEF Tick, TimerFollows
  <2>2. ASSUME timer' # Off, current' # 0
        PROVE  timer' + age'[current'] + Buffer >= Lifetime
    <3>1. /\ current' = current /\ current \in Tokens /\ current <= issued
          /\ age'[current] = IF age[current] < Lifetime THEN age[current] + 1 ELSE age[current]
          /\ timer' = IF timer \in 1..Lifetime THEN timer - 1 ELSE timer
      BY <1>5, <2>2 DEF Tick, MemoryOnly
    <3>2. timer # Off
      BY <2>2, <3>1
    <3> QED BY <2>2, <3>1, <3>2 DEF TimerFollows
  <2> QED BY <2>1, <2>2 DEF TimerFollows
<1>6. CASE UNCHANGED vars
  BY <1>6 DEF vars, TimerFollows
<1> QED BY <1>1, <1>2, <1>3, <1>4, <1>5, <1>6 DEF Next

\* What a step returns has not expired, and a timer that fires is due.
LEMMA StepIsFresh ==
  ASSUME IInv, ~HasStore, MemoryOnly, TimerFollows, [Next]_vars
  PROVE  StaysFresh
<1> USE TokenAssumption DEF IInv, TypeOK, Tokens
<1>1. ASSUME NEW d \in Callers, callers'[d].got # callers[d].got
      PROVE  ~Expired(callers'[d].got)
  <2>1. ASSUME NEW c \in Callers,
               ReturnCached(c) \/ ReadStore(c) \/ CallerStep(c)
                 \/ \E force \in BOOLEAN : GetFresh(c, force)
        PROVE  ~Expired(callers'[d].got)
    <3>1. CASE ReturnCached(c)
      BY <1>1, <3>1 DEF ReturnCached, Return, CachedIsGood, Caller
    <3>2. CASE ReadStore(c) \/ CallerStep(c)
      BY <3>2 DEF ReadStore, CallerStep, StoreAnswers, StoreFails, MemoryOnly
    <3>3. CASE \E force \in BOOLEAN : GetFresh(c, force)
      BY <1>1, <3>3 DEF GetFresh, Wait, Caller
    <3> QED BY <2>1, <3>1, <3>2, <3>3
  <2>2. ASSUME NEW r \in Runs, RunStep(r) PROVE ~Expired(callers'[d].got)
    <3>1. CASE Acquired(r)
      <4>1. RunEnds(r, issued + 1) /\ issued < MaxTokens
        BY <3>1 DEF Acquired
      <4>2. callers'[d].got = issued + 1
        BY <1>1, <4>1 DEF RunEnds
      <4> QED BY <4>1, <4>2 DEF TimerFollows, Expired
    <3>2. CASE AcquireFails(r)
      BY <1>1, <3>2 DEF AcquireFails, RunEnds
    <3>3. CASE Saved(r) \/ BackoffElapsed(r)
      BY <1>1, <3>3 DEF Saved, MemoryOnly, BackoffElapsed
    <3> QED BY <2>2, <3>1, <3>2, <3>3 DEF RunStep
  <2>3. CASE TimerFires \/ Destroy \/ Destroyed \/ Tick \/ UNCHANGED vars
    BY <1>1, <2>3 DEF TimerFires, Destroy, Destroyed, Tick, vars
  <2> QED BY <2>1, <2>2, <2>3 DEF Next
<1>2. ASSUME timer = 0, current # 0 PROVE IsClose(current)
  BY <1>2 DEF TimerFollows, IsClose, Off
<1> QED BY <1>1, <1>2 DEF StaysFresh

\* Without a store no caller is handed a token that has expired, and the timer
\* fires only for a token that is close to its expiry, never for one that
\* another refresh has replaced.  The hypothesis is the longest delay
\* setTimeout can represent: it fires at once for a token that lives longer
\* (about 25 days), long before that token is due.
THEOREM MemoryFresh ==
  ASSUME Lifetime <= Buffer + MaxTimeout
  PROVE  Spec => MemoryIsFresh
<1> DEFINE Inv == ~HasStore => TimerFollows
<1>1. Init => Inv
  BY TokenAssumption DEF Init, TimerFollows
<1>2. IInv /\ MemoryInv /\ Inv /\ [Next]_vars => Inv'
  BY StoreKept, TimerFollowsKept DEF MemoryInv
<1>3. IInv /\ MemoryInv /\ Inv /\ [Next]_vars => [~HasStore => StaysFresh]_vars
  BY StepIsFresh DEF MemoryInv
<1> HIDE DEF Inv
<1> QED BY <1>1, <1>2, <1>3, InductiveInvariant, MemoryInvariant, PTL DEF Spec, MemoryIsFresh
=============================================================================
