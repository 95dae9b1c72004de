---------------------------- MODULE NetworkProofs ----------------------------
(***************************************************************************)
(* What the parts of the network promise, over any nodes, tree and number  *)
(* of requests: LockManager keeps the promise of NamedMutex, nobody keeps  *)
(* a false farewell, an indexing that ends well is complete, and requests  *)
(* are run by whom they are for and go round in no circles.  Messaging has *)
(* its own MessagingProofs.                                                *)
(***************************************************************************)
EXTENDS Network, SequenceFacts, FiniteSetTheorems, TLAPS

\* Until a teardown a name is locked while someone works under it, and then
\* only one caller does: what makes the mutex step by step provable.
Holders == ~torn =>
    \A p \in Callers, n \in Names :
       at[p] = <<"inside", n>> =>
          /\ locked[n]
          /\ \A q \in Callers : at[q] = <<"inside", n>> => q = p

LocksInv == LocksTypeOK /\ Holders

\* The initial states satisfy the invariant.
LEMMA LocksInitInv == LocksInit => LocksInv
<1> SUFFICES ASSUME LocksInit PROVE LocksInv
  OBVIOUS
<1>1. LocksTypeOK
  BY DEF LocksInit, LocksTypeOK, Places
<1>2. \A p \in Callers : at[p][1] = "out"
  BY DEF LocksInit
<1> QED BY <1>1, <1>2 DEF LocksInv, Holders

\* Waking callers moves none of them in or out of a critical section.
LEMMA WakeKeeps ==
    ASSUME NEW f \in [Callers -> Places \X Names], NEW N \in SUBSET Names
    PROVE  /\ Wake(f, N) \in [Callers -> Places \X Names]
           /\ \A p \in Callers, n \in Names :
                 Wake(f, N)[p] = <<"inside", n>> <=> f[p] = <<"inside", n>>
<1>1. ASSUME NEW p \in Callers
      PROVE  Wake(f, N)[p] \in Places \X Names
  BY DEF Wake, Places
<1>2. ASSUME NEW p \in Callers, NEW n \in Names
      PROVE  Wake(f, N)[p] = <<"inside", n>> <=> f[p] = <<"inside", n>>
  <2>1. f[p] \in Places \X Names
    OBVIOUS
  <2> QED BY <2>1 DEF Wake, Places
<1>3. Wake(f, N) = [p \in Callers |-> Wake(f, N)[p]]
  BY DEF Wake
<1> QED BY <1>1, <1>2, <1>3

\* Every step of the locks keeps the invariant.
LEMMA LocksStepInv == LocksInv /\ [LocksNext]_locksVars => LocksInv'
<1> SUFFICES ASSUME LocksInv, [LocksNext]_locksVars PROVE LocksInv'
  OBVIOUS
<1>1. ASSUME NEW p \in Callers, NEW n \in Names, TryName(p, n), at[p][1] # "inside"
      PROVE  LocksInv'
  <2>1. LocksTypeOK'
    BY <1>1 DEF LocksInv, LocksTypeOK, TryName, Places
  <2>2. \A q \in Callers : q # p => at'[q] = at[q]
    BY <1>1 DEF LocksInv, LocksTypeOK, TryName
  <2>3. at'[p] = <<IF locked[n] THEN "waiting" ELSE "inside", n>>
    BY <1>1 DEF LocksInv, LocksTypeOK, TryName
  <2>4. locked' = [locked EXCEPT ![n] = TRUE] /\ torn' = torn
    BY <1>1 DEF TryName
  <2>5. Holders'
    <3> SUFFICES ASSUME ~torn, NEW q \in Callers, NEW m \in Names,
                        at'[q] = <<"inside", m>>
                 PROVE  /\ locked'[m]
                        /\ \A r \in Callers : at'[r] = <<"inside", m>> => r = q
      BY <2>4 DEF Holders
    <3>1. CASE q = p
      <4>1. m = n /\ ~locked[n]
        BY <2>3, <3>1
      <4> QED BY <4>1, <2>2, <2>4, <3>1 DEF LocksInv, Holders, LocksTypeOK
    <3>2. CASE q # p
      <4>1. at[q] = <<"inside", m>> /\ locked[m]
        BY <3>2, <2>2 DEF LocksInv, Holders
      <4>2. at'[p] # <<"inside", m>>
        BY <4>1, <2>3
      <4> QED BY <4>1, <4>2, <3>2, <2>2, <2>4 DEF LocksInv, Holders, LocksTypeOK
    <3> QED BY <3>1, <3>2
  <2> QED BY <2>1, <2>5 DEF LocksInv
<1>2. ASSUME NEW p \in Callers, NEW n \in Names, Acquire(p, n) PROVE LocksInv'
  BY <1>1, <1>2 DEF Acquire
<1>3. ASSUME NEW p \in Callers, Recheck(p) PROVE LocksInv'
  <2>1. at[p][2] \in Names
    BY DEF LocksInv, LocksTypeOK
  <2> QED BY <1>1, <1>3, <2>1 DEF Recheck
<1>4. ASSUME NEW p \in Callers, LockTimeout(p) PROVE LocksInv'
  <2>1. LocksTypeOK'
    BY <1>4 DEF LocksInv, LocksTypeOK, LockTimeout, Places
  <2>2. \A q \in Callers, m \in Names :
           at'[q] = <<"inside", m>> => at[q] = <<"inside", m>>
    BY <1>4 DEF LocksInv, LocksTypeOK, LockTimeout, Places
  <2> QED BY <2>1, <2>2, <1>4 DEF LocksInv, Holders, LockTimeout
<1>5. ASSUME NEW p \in Callers, Release(p) PROVE LocksInv'
  <2> DEFINE n == at[p][2]
             left == [at EXCEPT ![p][1] = "out"]
  <2>1. n \in Names /\ left \in [Callers -> Places \X Names]
    BY DEF LocksInv, LocksTypeOK, Places
  <2>2. /\ at' \in [Callers -> Places \X Names]
        /\ \A q \in Callers, m \in Names :
              at'[q] = <<"inside", m>> <=> left[q] = <<"inside", m>>
    <3>1. at' = Wake(left, IF locked[n] THEN {n} ELSE {})
      BY <1>5 DEF Release
    <3>2. (IF locked[n] THEN {n} ELSE {}) \in SUBSET Names
      BY <2>1
    <3> HIDE DEF left, n
    <3> QED BY <2>1, <3>1, <3>2, WakeKeeps
  <2>3. LocksTypeOK'
    BY <1>5, <2>1, <2>2 DEF LocksInv, LocksTypeOK, Release
  <2>4. at[p] = <<"inside", n>>
    BY <1>5 DEF LocksInv, LocksTypeOK, Release
  <2>5. \A q \in Callers, m \in Names :
           at'[q] = <<"inside", m>> => q # p /\ at[q] = <<"inside", m>>
    BY <2>1, <2>2 DEF LocksInv, LocksTypeOK, Places
  <2>6. Holders'
    <3> SUFFICES ASSUME ~torn, NEW q \in Callers, NEW m \in Names,
                        at'[q] = <<"inside", m>>
                 PROVE  /\ locked'[m]
                        /\ \A r \in Callers : at'[r] = <<"inside", m>> => r = q
      BY <1>5 DEF Holders, Release
    <3>1. q # p /\ at[q] = <<"inside", m>> /\ locked[m]
      BY <2>5 DEF LocksInv, Holders
    <3>2. m # n
      BY <2>1, <2>4, <3>1 DEF LocksInv, Holders
    <3>3. locked'[m]
      BY <1>5, <3>1, <3>2 DEF Release, LocksInv, LocksTypeOK
    <3> QED BY <2>5, <3>1, <3>3 DEF LocksInv, Holders
  <2> QED BY <2>3, <2>6 DEF LocksInv
<1>6. ASSUME ClearAll PROVE LocksInv'
  <2>1. at' \in [Callers -> Places \X Names]
    <3>1. at \in [Callers -> Places \X Names] /\ {n \in Names : locked[n]} \in SUBSET Names
      BY DEF LocksInv, LocksTypeOK
    <3> QED BY <1>6, <3>1, WakeKeeps DEF ClearAll
  <2> QED BY <1>6, <2>1 DEF LocksInv, LocksTypeOK, ClearAll, Holders
<1>7. CASE UNCHANGED locksVars
  BY <1>7 DEF locksVars, LocksInv, LocksTypeOK, Holders
<1> QED BY <1>2, <1>3, <1>4, <1>5, <1>6, <1>7 DEF LocksNext

\* The places, the names and the flags stay what they are.
THEOREM LocksTypeCorrect == LocksSpec => []LocksTypeOK
<1>1. LocksInv => LocksTypeOK
  BY DEF LocksInv
<1> QED BY <1>1, LocksInitInv, LocksStepInv, PTL DEF LocksSpec

\* withLock() implements the mutex: until clearAll(), nobody enters a name
\* somebody works under.
THEOREM LocksImplementMutex == LocksSpec => Exclusion
<1> DEFINE in == [n \in Names |-> {p \in Callers : at[p] = <<"inside", n>>}]
<1>1. LocksInit => Promise!Init
  BY DEF LocksInit, Promise!Init
<1>2. LocksInv /\ [LocksNext]_locksVars => [Promise!Next]_(Promise!vars)
  <2> SUFFICES ASSUME LocksInv, [LocksNext]_locksVars PROVE Promise!Next \/ UNCHANGED Promise!vars
    OBVIOUS
  <2>1. ASSUME torn' = torn,
               \A q \in Callers, m \in Names :
                  at'[q] = <<"inside", m>> <=> at[q] = <<"inside", m>>
        PROVE  UNCHANGED Promise!vars
    BY <2>1 DEF Promise!vars
  <2>2. ASSUME NEW p \in Callers, NEW n \in Names, TryName(p, n), at[p][1] # "inside"
        PROVE  Promise!Next \/ UNCHANGED Promise!vars
    <3>1. \A q \in Callers : q # p => at'[q] = at[q]
      BY <2>2 DEF LocksInv, LocksTypeOK, TryName
    <3>2. at'[p] = <<IF locked[n] THEN "waiting" ELSE "inside", n>> /\ torn' = torn
      BY <2>2 DEF LocksInv, LocksTypeOK, TryName
    <3>3. CASE locked[n]
      BY <2>1, <2>2, <3>1, <3>2, <3>3 DEF LocksInv, LocksTypeOK, Places
    <3>4. CASE ~locked[n]
      <4>1. torn \/ in[n] = {}
        BY <3>4 DEF LocksInv, Holders
      <4>2. in' = [in EXCEPT ![n] = @ \cup {p}]
        <5>1. \A m \in Names : in'[m] = IF m = n THEN in[m] \cup {p} ELSE in[m]
          BY <2>2, <3>1, <3>2, <3>4
        <5> QED BY <5>1
      <4>3. Promise!Enter(p, n)
        BY <4>1, <4>2, <3>2 DEF Promise!Enter
      <4> QED BY <4>3 DEF Promise!Next
    <3> QED BY <3>3, <3>4
  <2>3. ASSUME NEW p \in Callers, NEW n \in Names, Acquire(p, n)
        PROVE  Promise!Next \/ UNCHANGED Promise!vars
    BY <2>2, <2>3 DEF Acquire
  <2>4. ASSUME NEW p \in Callers, Recheck(p)
        PROVE  Promise!Next \/ UNCHANGED Promise!vars
    <3>1. at[p][2] \in Names
      BY DEF LocksInv, LocksTypeOK
    <3> QED BY <2>2, <2>4, <3>1 DEF Recheck
  <2>5. ASSUME NEW p \in Callers, LockTimeout(p)
        PROVE  UNCHANGED Promise!vars
    BY <2>1, <2>5 DEF LockTimeout, LocksInv, LocksTypeOK, Places
  <2>6. ASSUME NEW p \in Callers, Release(p) PROVE Promise!Next
    <3> DEFINE left == [at EXCEPT ![p][1] = "out"]
    <3>0. PICK n \in Names : n = at[p][2]
      BY DEF LocksInv, LocksTypeOK
    <3>1. n \in Names /\ left \in [Callers -> Places \X Names]
      BY DEF LocksInv, LocksTypeOK, Places
    <3>2. /\ at' \in [Callers -> Places \X Names]
          /\ \A q \in Callers, m \in Names :
                at'[q] = <<"inside", m>> <=> left[q] = <<"inside", m>>
      <4>1. at' = Wake(left, IF locked[n] THEN {n} ELSE {})
        BY <2>6, <3>0 DEF Release
      <4>2. (IF locked[n] THEN {n} ELSE {}) \in SUBSET Names
        BY <3>1
      <4> HIDE DEF left
      <4> QED BY <3>1, <4>1, <4>2, WakeKeeps
    <3>3. at[p] = <<"inside", n>>
      BY <2>6, <3>0 DEF LocksInv, LocksTypeOK, Release
    <3>4. \A q \in Callers, m \in Names :
             at'[q] = <<"inside", m>> <=> q # p /\ at[q] = <<"inside", m>>
      BY <3>0, <3>1, <3>2 DEF LocksInv, LocksTypeOK, Places
    <3>5. in' = [in EXCEPT ![n] = @ \ {p}]
      <4>1. \A m \in Names : in'[m] = IF m = n THEN in[m] \ {p} ELSE in[m]
        BY <3>1, <3>3, <3>4
      <4> QED BY <4>1
    <3>6. p \in in[n]
      BY <3>1, <3>3
    <3>7. Promise!Leave(p, n)
      BY <3>5, <3>6, <2>6 DEF Promise!Leave, Release
    <3> QED BY <3>7 DEF Promise!Next
  <2>7. ASSUME ClearAll PROVE Promise!Next
    <3>1. at \in [Callers -> Places \X Names] /\ {n \in Names : locked[n]} \in SUBSET Names
      BY DEF LocksInv, LocksTypeOK
    <3>2. \A q \in Callers, m \in Names :
             at'[q] = <<"inside", m>> <=> at[q] = <<"inside", m>>
      BY <2>7, <3>1, WakeKeeps DEF ClearAll
    <3>3. in' = in
      BY <3>2
    <3> QED BY <3>3, <2>7 DEF ClearAll, Promise!Next, Promise!TearDown
  <2>8. CASE UNCHANGED locksVars
    BY <2>1, <2>8 DEF locksVars
  <2> QED BY <2>3, <2>4, <2>5, <2>6, <2>7, <2>8 DEF LocksNext
<1> QED BY <1>1, <1>2, LocksInitInv, LocksStepInv, PTL DEF LocksSpec, Exclusion, Promise!Spec

-----------------------------------------------------------------------------
(* The news of the hierarchy.                                              *)

\* What Hierarchy takes from Filtering is what this module takes from it.
LEMMA HierarchyLibrary == \A q, S : Family!Filter(q, S) = Filter(q, S)
BY Zenon DEF Family!Filter, Filter

\* The list of children has one entry of each address.
OneEntryEach == \A i, j \in DOMAIN children :
                   children[i].address = children[j].address => children[i] = children[j]

\* A subscription that is on was only told of children its pattern matches.
ToldMatches == \A s \in Subscriptions, c \in Children :
   told[s][c] # "nothing" /\ subscribed[s] # <<>> => Family!AddressMatches(c, subscribed[s])

HierarchyInv ==
  /\ Family!TypeOK /\ children \in Seq(Family!Entry)
  /\ OneEntryEach /\ ToldMatches /\ LeftIsTrue

\* The initial states satisfy the invariant.
LEMMA HierarchyInitInv == Family!Init => HierarchyInv
BY NetworkAssumption
   DEF Family!Init, HierarchyInv, Family!TypeOK, Family!Entry, Family!Lives, OneEntryEach,
       ToldMatches, LeftIsTrue, Family!LeftIsTrue, Family!IsChild

\* addChild(): the new entry, and those of other addresses that were there.
LEMMA AddChildFacts ==
  ASSUME children \in Seq(Family!Entry), NEW entry \in Family!Entry
  PROVE  /\ Family!AddChild(entry) \in Seq(Family!Entry)
         /\ \A i \in DOMAIN Family!AddChild(entry) :
               \/ Family!AddChild(entry)[i] = entry
               \/ /\ Family!AddChild(entry)[i].address # entry.address
                  /\ \E j \in DOMAIN children : children[j] = Family!AddChild(entry)[i]
<1> DEFINE S == {e \in Family!Entry : e.address # entry.address}
           Listed == {children[j] : j \in DOMAIN children}
           rest == Filter(children, S)
<1>1. children \in Seq(Listed)
  OBVIOUS
<1>2. rest \in Seq(Listed \cap S) /\ rest \in Seq(Family!Entry)
  BY <1>1, FilterKeeps, FilterType
<1>3. Family!AddChild(entry) = <<entry>> \o rest
  BY HierarchyLibrary DEF Family!AddChild
<1> HIDE DEF rest
<1>4. <<entry>> \o rest \in Seq(Family!Entry)
  BY <1>2
<1>5. ASSUME NEW i \in DOMAIN (<<entry>> \o rest)
      PROVE  (<<entry>> \o rest)[i] = entry \/ (<<entry>> \o rest)[i] \in Listed \cap S
  BY <1>2
<1> QED BY <1>3, <1>4, <1>5

\* What Emit() does: matching subscriptions are told of this child, and
\* nothing else changes.
LEMMA EmitFacts ==
  ASSUME Family!TypeOK, NEW c \in Children, NEW event \in {"joined", "left"},
         Family!Emit(c, event), ToldMatches
  PROVE  /\ told' \in [Subscriptions -> [Children -> {"nothing", "joined", "left"}]]
         /\ \A s \in Subscriptions, d \in Children :
              /\ told'[s][d] # told[s][d] => d = c /\ told'[s][d] = event
              /\ told'[s][d] # told[s][d] => Family!AddressMatches(d, subscribed[s])
              /\ d = c /\ subscribed[s] # <<>> => told'[s][d] \in {"nothing", event}
<1>1. told \in [Subscriptions -> [Children -> {"nothing", "joined", "left"}]]
  BY DEF Family!TypeOK
<1>2. \A s \in Subscriptions :
        told'[s] = IF subscribed[s] # <<>> /\ Family!AddressMatches(c, subscribed[s])
                   THEN [told[s] EXCEPT ![c] = event] ELSE told[s]
  BY DEF Family!Emit
<1>3. told' \in [Subscriptions -> [Children -> {"nothing", "joined", "left"}]]
  BY <1>1 DEF Family!Emit
<1>4. ASSUME NEW s \in Subscriptions, NEW d \in Children
      PROVE  /\ told'[s][d] # told[s][d] => d = c /\ told'[s][d] = event
             /\ told'[s][d] # told[s][d] => Family!AddressMatches(d, subscribed[s])
             /\ d = c /\ subscribed[s] # <<>> => told'[s][d] \in {"nothing", event}
  <2>1. CASE subscribed[s] # <<>> /\ Family!AddressMatches(c, subscribed[s])
    BY <1>1, <1>2, <2>1
  <2>2. CASE ~(subscribed[s] # <<>> /\ Family!AddressMatches(c, subscribed[s]))
    <3>1. told'[s] = told[s]
      BY <1>2, <2>2
    <3> QED BY <3>1, <2>2 DEF ToldMatches
  <2> QED BY <2>1, <2>2
<1> QED BY <1>3, <1>4

\* Every step keeps the invariant.
LEMMA HierarchyNextInv == HierarchyInv /\ [Family!Next]_(Family!vars) => HierarchyInv'
<1> SUFFICES ASSUME HierarchyInv, [Family!Next]_(Family!vars) PROVE HierarchyInv'
  OBVIOUS
<1> USE DEF HierarchyInv
<1>0. /\ life \in [Children -> Family!Lives]
      /\ links \in [Children -> [Family!Lives -> 0..2]]
      /\ subscribed \in [Subscriptions -> Patterns \cup {<<>>}]
      /\ told \in [Subscriptions -> [Children -> {"nothing", "joined", "left"}]]
      /\ registering \subseteq Family!Entry
      /\ \A i \in DOMAIN children : children[i] \in Family!Entry
  BY DEF Family!TypeOK
<1>1. ASSUME NEW c \in Children, Family!ConnectionOpens(c) PROVE HierarchyInv'
  <2> DEFINE p == life[c]
  <2>1. p \in Family!Lives /\ links[c][p] \in 0..2
    BY <1>0
  <2>2. /\ links' = [links EXCEPT ![c][p] = @ + 1] /\ links[c][p] < 2
        /\ UNCHANGED <<life, children, registering, subscribed>>
        /\ IF links[c][p] = 0 /\ Family!IsChild(c, p)
           THEN Family!Emit(c, "joined") ELSE UNCHANGED told
    BY <1>1 DEF Family!ConnectionOpens
  <2> HIDE DEF p
  <2>3. links' \in [Children -> [Family!Lives -> 0..2]]
    BY <1>0, <2>1, <2>2
  <2>4. \A d \in Children, q \in Family!Lives :
          links'[d][q] # links[d][q] => d = c /\ q = p
    BY <1>0, <2>1, <2>2
  <2>5. CASE links[c][p] = 0 /\ Family!IsChild(c, p)
    <3>1. Family!Emit(c, "joined")
      BY <2>2, <2>5
    <3>2. Family!TypeOK'
      BY <1>0, <2>2, <2>3, <3>1, EmitFacts DEF Family!TypeOK
    <3>3. ToldMatches'
      BY <2>2, <3>1, EmitFacts DEF ToldMatches
    <3>4. LeftIsTrue'
      BY <2>2, <2>4, <3>1, EmitFacts DEF LeftIsTrue, Family!LeftIsTrue, Family!IsChild
    <3> QED BY <2>2, <3>2, <3>3, <3>4 DEF OneEntryEach
  <2>6. CASE ~(links[c][p] = 0 /\ Family!IsChild(c, p))
    <3>1. UNCHANGED told
      BY <2>2, <2>6
    <3>2. Family!TypeOK'
      BY <1>0, <2>2, <2>3, <3>1 DEF Family!TypeOK
    <3>3. LeftIsTrue'
      <4> SUFFICES ASSUME NEW s \in Subscriptions, NEW d \in Children, told[s][d] = "left",
                          subscribed[s] # <<>>, NEW q \in Family!Lives, Family!IsChild(d, q)
                   PROVE  links'[d][q] = 0
        BY <2>2, <3>1 DEF LeftIsTrue, Family!LeftIsTrue, Family!IsChild
      <4>1. links[d][q] = 0
        BY DEF LeftIsTrue, Family!LeftIsTrue
      <4> QED BY <4>1, <2>4, <2>6
    <3> QED BY <2>2, <3>1, <3>2, <3>3 DEF OneEntryEach, ToldMatches
  <2> QED BY <2>5, <2>6
<1>2. ASSUME NEW c \in Children, NEW p \in Family!Lives, Family!ConnectionCloses(c, p)
      PROVE  HierarchyInv'
  <2>1. links[c][p] \in 0..2 /\ links[c][p] > 0
    BY <1>0, <1>2 DEF Family!ConnectionCloses
  <2>2. /\ links' = [links EXCEPT ![c][p] = @ - 1]
        /\ UNCHANGED <<life, children, registering, subscribed>>
        /\ IF Family!LastConnection(c, p) /\ Family!IsChild(c, p)
           THEN Family!Emit(c, "left") ELSE UNCHANGED told
    BY <1>2 DEF Family!ConnectionCloses
  <2>3. links' \in [Children -> [Family!Lives -> 0..2]]
    BY <1>0, <2>1, <2>2
  <2>4. /\ \A d \in Children, q \in Family!Lives :
            links'[d][q] # links[d][q] => d = c /\ q = p
        /\ links'[c][p] = links[c][p] - 1
    BY <1>0, <2>1, <2>2
  <2>5. CASE Family!LastConnection(c, p) /\ Family!IsChild(c, p)
    <3>1. Family!Emit(c, "left")
      BY <2>2, <2>5
    <3>2. Family!TypeOK'
      BY <1>0, <2>2, <2>3, <3>1, EmitFacts DEF Family!TypeOK
    <3>3. ToldMatches'
      BY <2>2, <3>1, EmitFacts DEF ToldMatches
    <3>4. links'[c][p] = 0
      BY <2>4, <2>5 DEF Family!LastConnection
    <3>5. LeftIsTrue'
      <4> SUFFICES ASSUME NEW s \in Subscriptions, NEW d \in Children, told'[s][d] = "left",
                          subscribed[s] # <<>>, NEW q \in Family!Lives, Family!IsChild(d, q)
                   PROVE  links'[d][q] = 0
        BY <2>2 DEF LeftIsTrue, Family!LeftIsTrue, Family!IsChild
      <4>1. CASE d = c
        <5>1. q = p
          BY <4>1, <2>5 DEF Family!IsChild, OneEntryEach
        <5> QED BY <5>1, <4>1, <3>4
      <4>2. CASE d # c
        <5>1. told[s][d] = "left"
          BY <4>2, <3>1, EmitFacts
        <5> QED BY <5>1, <4>2, <2>4 DEF LeftIsTrue, Family!LeftIsTrue
      <4> QED BY <4>1, <4>2
    <3> QED BY <2>2, <3>2, <3>3, <3>5 DEF OneEntryEach
  <2>6. CASE ~(Family!LastConnection(c, p) /\ Family!IsChild(c, p))
    <3>1. UNCHANGED told
      BY <2>2, <2>6
    <3>2. Family!TypeOK'
      BY <1>0, <2>2, <2>3, <3>1 DEF Family!TypeOK
    <3>3. LeftIsTrue'
      <4> SUFFICES ASSUME NEW s \in Subscriptions, NEW d \in Children, told[s][d] = "left",
                          subscribed[s] # <<>>, NEW q \in Family!Lives, Family!IsChild(d, q)
                   PROVE  links'[d][q] = 0
        BY <2>2, <3>1 DEF LeftIsTrue, Family!LeftIsTrue, Family!IsChild
      <4>1. links[d][q] = 0
        BY DEF LeftIsTrue, Family!LeftIsTrue
      <4> QED BY <4>1, <2>1, <2>4
    <3> QED BY <2>2, <3>1, <3>2, <3>3 DEF OneEntryEach, ToldMatches
  <2> QED BY <2>5, <2>6
<1>3. ASSUME NEW c \in Children, Family!ChildRestarts(c) PROVE HierarchyInv'
  <2>1. life' \in [Children -> Family!Lives]
    BY <1>0, <1>3, NetworkAssumption DEF Family!ChildRestarts, Family!Lives
  <2> QED BY <1>3, <2>1 DEF Family!ChildRestarts, Family!TypeOK, OneEntryEach, ToldMatches,
                LeftIsTrue, Family!LeftIsTrue, Family!IsChild
<1>4. ASSUME NEW c \in Children, NEW p \in Family!Lives, Family!ChildRegister(c, p)
      PROVE  HierarchyInv'
  <2> DEFINE entry == [address |-> c, peer |-> p]
  <2>1. entry \in Family!Entry
    BY DEF Family!Entry
  <2>2. /\ children' = Family!AddChild(entry) /\ registering' = registering \cup {entry}
        /\ Family!Emit(c, "joined") /\ UNCHANGED <<life, links, subscribed>>
    BY <1>4 DEF Family!ChildRegister
  <2>3. /\ children' \in Seq(Family!Entry)
        /\ \A i \in DOMAIN children' :
              \/ children'[i] = entry
              \/ /\ children'[i].address # c
                 /\ \E j \in DOMAIN children : children[j] = children'[i]
    BY <2>1, <2>2, AddChildFacts
  <2>4. Family!TypeOK'
    BY <1>0, <2>1, <2>2, <2>3, EmitFacts DEF Family!TypeOK
  <2>5. OneEntryEach'
    BY <2>3 DEF OneEntryEach
  <2>6. ToldMatches'
    BY <2>2, EmitFacts DEF ToldMatches
  <2>7. LeftIsTrue'
    <3> SUFFICES ASSUME NEW s \in Subscriptions, NEW d \in Children, told'[s][d] = "left",
                        subscribed[s] # <<>>, NEW q \in Family!Lives, Family!IsChild(d, q)'
                 PROVE  links[d][q] = 0
      BY <2>2 DEF LeftIsTrue, Family!LeftIsTrue
    <3>1. d # c /\ told[s][d] = "left"
      BY <2>2, EmitFacts
    <3>2. Family!IsChild(d, q)
      BY <2>3, <3>1 DEF Family!IsChild
    <3> QED BY <3>1, <3>2 DEF LeftIsTrue, Family!LeftIsTrue
  <2> QED BY <2>3, <2>4, <2>5, <2>6, <2>7
<1>5. ASSUME NEW entry \in registering, Family!ChildRegistered(entry) PROVE HierarchyInv'
  BY <1>5 DEF Family!ChildRegistered, Family!TypeOK, OneEntryEach, ToldMatches, LeftIsTrue,
              Family!LeftIsTrue, Family!IsChild
<1>6. ASSUME NEW s \in Subscriptions, NEW pattern \in Patterns, Family!On(s, pattern)
      PROVE  HierarchyInv'
  <2>1. /\ subscribed' = [subscribed EXCEPT ![s] = pattern]
        /\ told' = [told EXCEPT ![s] = [d \in Children |-> "nothing"]]
        /\ UNCHANGED <<life, links, children, registering>>
    BY <1>6 DEF Family!On
  <2>2. Family!TypeOK'
    BY <1>0, <2>1 DEF Family!TypeOK
  <2>3. \A t \in Subscriptions, d \in Children :
           \/ told'[t][d] = "nothing"
           \/ told'[t][d] = told[t][d] /\ subscribed'[t] = subscribed[t]
    BY <1>0, <2>1
  <2>4. ToldMatches'
    BY <2>3 DEF ToldMatches
  <2>5. LeftIsTrue'
    BY <2>1, <2>3 DEF LeftIsTrue, Family!LeftIsTrue, Family!IsChild
  <2> QED BY <2>1, <2>2, <2>4, <2>5 DEF OneEntryEach
<1>7. ASSUME NEW S, Family!Off(S) PROVE HierarchyInv'
  <2>1. /\ subscribed' = [s \in Subscriptions |-> IF s \in S THEN <<>> ELSE subscribed[s]]
        /\ UNCHANGED <<life, links, children, registering, told>>
    BY <1>7 DEF Family!Off
  <2>2. Family!TypeOK'
    BY <1>0, <2>1 DEF Family!TypeOK
  <2>3. \A s \in Subscriptions : subscribed'[s] = <<>> \/ subscribed'[s] = subscribed[s]
    BY <2>1
  <2> QED BY <2>1, <2>2, <2>3 DEF OneEntryEach, ToldMatches, LeftIsTrue,
                Family!LeftIsTrue, Family!IsChild
<1>8. CASE UNCHANGED Family!vars
  BY <1>8 DEF Family!vars, Family!TypeOK, OneEntryEach, ToldMatches, LeftIsTrue,
              Family!LeftIsTrue, Family!IsChild
<1> QED BY <1>1, <1>2, <1>3, <1>4, <1>5, <1>6, <1>7, <1>8 DEF Family!Next

\* Nobody is left with the news that a child left while the life of that child
\* that is registered is connected.
THEOREM SpecLeftIsTrue == Family!Spec => []LeftIsTrue
<1>1. HierarchyInv => LeftIsTrue
  BY DEF HierarchyInv
<1> QED BY <1>1, HierarchyInitInv, HierarchyNextInv, PTL DEF Family!Spec

-----------------------------------------------------------------------------
(* Indexing.                                                               *)

\* A call of index_network.
IndexCall == [at : {"idle", "storing", "visiting", "waiting"}, left : Seq(IndexNodes),
              from : {<<>>} \cup IndexNodes \X Slots]

IndexingTypes ==
  /\ indexed \in [IndexNodes -> BOOLEAN] /\ indexStored \in [IndexNodes -> Nat]
  /\ indexCall \in [IndexNodes -> [Slots -> IndexCall]]
  /\ indexFails \in Nat

Active(n, k) == indexCall[n][k].at # "idle"

\* Whoever stores marked its node before, and is the only one to store there.
StoringOnce == \A n \in IndexNodes :
  /\ indexStored[n] \in {0, 1}
  /\ ~indexed[n] => indexStored[n] = 0
  /\ \A k \in Slots : indexCall[n][k].at = "storing" =>
       /\ indexed[n] /\ indexStored[n] = 0
       /\ \A l \in Slots : indexCall[n][l].at = "storing" => l = k

\* Nodes a whole closed set of which is marked.
Through(n) == \E S \in SUBSET IndexNodes : n \in S /\ Closed(S) /\ \A m \in S : indexed[m]

\* A call marks its node, and each call that waits waits for one other.
Waited == \A n \in IndexNodes, k \in Slots : Active(n, k) =>
  /\ indexed[n]
  /\ indexCall[n][k].from = <<>> => n = Root
  /\ \A m \in IndexNodes, l \in Slots : indexCall[n][k].from = <<m, l>> =>
       /\ indexCall[m][l].at = "waiting"
       /\ \A o \in IndexNodes, j \in Slots :
            Active(o, j) /\ indexCall[o][j].from = <<m, l>> => o = n /\ j = k

\* A call is still to visit a child, waits for it, or the child is through.
Cared(n, k, c) ==
  \/ \E i \in DOMAIN indexCall[n][k].left : indexCall[n][k].left[i] = c
  \/ Through(c)
  \/ /\ indexCall[n][k].at = "waiting"
     /\ \E l \in Slots : Active(c, l) /\ indexCall[c][l].from = <<n, k>>

\* Unless something failed, no child is forgotten.
NoneForgotten == indexFails = 0 =>
  /\ "complete" \in ended => Through(Root)
  /\ \A n \in IndexNodes, k \in Slots : Active(n, k) =>
       \A i \in DOMAIN Offspring[n] : Cared(n, k, Offspring[n][i])

IndexingInv == IndexingTypes /\ StoringOnce /\ Waited /\ NoneForgotten

\* What an assignment to one call changes.
LEMMA OneCallChanges ==
  ASSUME NEW f \in [IndexNodes -> [Slots -> IndexCall]], NEW n \in IndexNodes,
         NEW k \in Slots, NEW c \in IndexCall
  PROVE  /\ [f EXCEPT ![n][k] = c] \in [IndexNodes -> [Slots -> IndexCall]]
         /\ \A m \in IndexNodes, l \in Slots :
              [f EXCEPT ![n][k] = c][m][l] = IF m = n /\ l = k THEN c ELSE f[m][l]
OBVIOUS

\* The idle call is a call.
LEMMA IdleIsACall == Index!Idle \in IndexCall /\ Index!Idle.at = "idle"
BY DEF Index!Idle, IndexCall

\* A call that starts stores its documents if nobody did, and has every child
\* of its node to visit.
LEMMA VisitFacts ==
  ASSUME IndexingTypes, NEW n \in IndexNodes, NEW from \in {<<>>} \cup IndexNodes \X Slots
  PROVE  /\ Index!Visit(n, from) \in IndexCall
         /\ Index!Visit(n, from).at = IF indexed[n] THEN "visiting" ELSE "storing"
         /\ Index!Visit(n, from).left = Offspring[n]
         /\ Index!Visit(n, from).from = from
BY NetworkAssumption DEF Index!Visit, IndexCall, IndexingTypes

\* The node is marked, and no other mark changes.
LEMMA MarkFacts ==
  ASSUME IndexingTypes, NEW n \in IndexNodes
  PROVE  /\ Index!Mark(n) \in [IndexNodes -> BOOLEAN]
         /\ \A m \in IndexNodes : Index!Mark(n)[m] = (m = n \/ indexed[m])
<1>1. indexed \in [IndexNodes -> BOOLEAN]
  BY DEF IndexingTypes
<1> QED BY <1>1 DEF Index!Mark

\* A node that is through stays so when more nodes are marked.
LEMMA ThroughGrows ==
  ASSUME \A m \in IndexNodes : indexed[m] => indexed'[m], NEW n, Through(n)
  PROVE  Through(n)'
BY DEF Through

\* A node that is marked is through when all its children are.
LEMMA ThroughItself ==
  ASSUME IndexingTypes, NEW n \in IndexNodes, indexed[n],
         \A i \in DOMAIN Offspring[n] : Through(Offspring[n][i])
  PROVE  Through(n)
<1> DEFINE S == {n} \cup {m \in IndexNodes : Through(m)}
<1>1. \A m \in S : indexed[m]
  BY DEF Through
<1>2. ASSUME NEW m \in S, NEW i \in DOMAIN Offspring[m] PROVE Offspring[m][i] \in S
  <2>1. Offspring[m][i] \in IndexNodes
    BY NetworkAssumption
  <2>2. CASE m = n
    BY <2>1, <2>2
  <2>3. CASE m # n
    <3>1. PICK T \in SUBSET IndexNodes : m \in T /\ Closed(T) /\ \A o \in T : indexed[o]
      BY <2>3 DEF Through
    <3>2. Offspring[m][i] \in T
      BY <3>1 DEF Closed
    <3> QED BY <2>1, <3>1, <3>2 DEF Through
  <2> QED BY <2>2, <2>3
<1>3. S \in SUBSET IndexNodes /\ n \in S
  OBVIOUS
<1> HIDE DEF S
<1>4. Closed(S)
  BY <1>2 DEF Closed
<1> QED BY <1>1, <1>3, <1>4 DEF Through

\* The answer to a call that ends goes to the one call that waits for it.
LEMMA AnswerFacts ==
  ASSUME IndexingTypes, Waited, NEW n \in IndexNodes, NEW k \in Slots, Active(n, k),
         indexCall[n][k].at # "waiting",
         NEW d, d = Index!Answered(Index!Set(n, k, Index!Idle), indexCall[n][k].from)
  PROVE  /\ d \in [IndexNodes -> [Slots -> IndexCall]]
         /\ d[n][k] = Index!Idle
         /\ \A m \in IndexNodes, l \in Slots : <<m, l>> # <<n, k>> =>
              /\ d[m][l].left = indexCall[m][l].left
              /\ d[m][l].from = indexCall[m][l].from
              /\ d[m][l].at = IF indexCall[n][k].from = <<m, l>> THEN "visiting"
                              ELSE indexCall[m][l].at
<1> DEFINE from == indexCall[n][k].from
           mine == [indexCall EXCEPT ![n][k] = Index!Idle]
<1>1. /\ mine \in [IndexNodes -> [Slots -> IndexCall]]
      /\ \A m \in IndexNodes, l \in Slots :
            mine[m][l] = IF m = n /\ l = k THEN Index!Idle ELSE indexCall[m][l]
  BY IdleIsACall, OneCallChanges DEF IndexingTypes
<1>2. from \in {<<>>} \cup IndexNodes \X Slots
  BY DEF IndexingTypes, IndexCall
<1>3. d = IF from = <<>> THEN mine ELSE [mine EXCEPT ![from[1]][from[2]].at = "visiting"]
  BY DEF Index!Answered, Index!Set
<1>4. CASE from = <<>>
  BY <1>1, <1>3, <1>4
<1>5. CASE from # <<>>
  <2>1. PICK m \in IndexNodes, l \in Slots : from = <<m, l>>
    BY <1>2, <1>5
  <2>2. indexCall[m][l].at = "waiting" /\ <<m, l>> # <<n, k>>
    BY <2>1 DEF Waited
  <2>3. mine[m][l] \in IndexCall
    BY <1>1
  <2>4. [mine[m][l] EXCEPT !.at = "visiting"] \in IndexCall
    BY <2>3 DEF IndexCall
  <2>5. d = [mine EXCEPT ![m][l] = [mine[m][l] EXCEPT !.at = "visiting"]]
    BY <1>3, <2>1, <1>5
  <2> HIDE DEF mine, from
  <2>6. /\ d \in [IndexNodes -> [Slots -> IndexCall]]
        /\ \A o \in IndexNodes, j \in Slots :
             d[o][j] = IF o = m /\ j = l THEN [mine[m][l] EXCEPT !.at = "visiting"]
                       ELSE mine[o][j]
    BY <1>1, <2>4, <2>5, OneCallChanges
  <2>7. from = indexCall[n][k].from
    BY DEF from
  <2>8. d[n][k] = Index!Idle
    BY <1>1, <2>2, <2>6
  <2>9. ASSUME NEW o \in IndexNodes, NEW j \in Slots, <<o, j>> # <<n, k>>
        PROVE  /\ d[o][j].left = indexCall[o][j].left
               /\ d[o][j].from = indexCall[o][j].from
               /\ d[o][j].at = IF from = <<o, j>> THEN "visiting" ELSE indexCall[o][j].at
    <3>1. mine[o][j] = indexCall[o][j]
      BY <1>1, <2>9
    <3>2. CASE o = m /\ j = l
      <4>1. d[o][j] = [mine[m][l] EXCEPT !.at = "visiting"] /\ from = <<o, j>>
        BY <2>1, <2>6, <3>2
      <4> QED BY <4>1, <2>3, <3>1, <3>2 DEF IndexCall
    <3>3. CASE ~(o = m /\ j = l)
      <4>1. d[o][j] = mine[o][j] /\ from # <<o, j>>
        BY <2>1, <2>6, <3>3
      <4> QED BY <4>1, <3>1
    <3> QED BY <3>2, <3>3
  <2> QED BY <2>6, <2>7, <2>8, <2>9, ZenonT(40)
<1> QED BY <1>4, <1>5

\* The initial states satisfy the invariant.
LEMMA IndexingInitInv == Index!Init => IndexingInv
<1> SUFFICES ASSUME Index!Init PROVE IndexingInv
  OBVIOUS
<1>1. \A n \in IndexNodes, k \in Slots : indexCall[n][k] = Index!Idle
  BY DEF Index!Init
<1>2. IndexingTypes
  BY IdleIsACall DEF Index!Init, IndexingTypes
<1>3. \A n \in IndexNodes, k \in Slots : ~Active(n, k) /\ indexCall[n][k].at # "storing"
  BY <1>1, IdleIsACall DEF Active
<1>4. StoringOnce
  BY <1>3 DEF Index!Init, StoringOnce
<1>5. Waited /\ NoneForgotten
  BY <1>3 DEF Index!Init, Waited, NoneForgotten
<1> QED BY <1>2, <1>4, <1>5 DEF IndexingInv

\* A call starts at a free place, asked from outside or by one that waits.
LEMMA CallStarts ==
  ASSUME IndexingInv, NEW n \in IndexNodes, NEW k \in Slots, ~Active(n, k),
         NEW from \in {<<>>} \cup IndexNodes \X Slots,
         indexCall'[n][k] = Index!Visit(n, from),
         indexCall' \in [IndexNodes -> [Slots -> IndexCall]],
         indexed' = Index!Mark(n), UNCHANGED <<indexStored, ended, indexFails>>,
         from = <<>> => n = Root,
         \A m \in IndexNodes, l \in Slots : <<m, l>> # <<n, k>> =>
           IF from = <<m, l>>
           THEN /\ indexCall[m][l].at = "visiting" /\ indexCall'[m][l].at = "waiting"
                /\ indexCall[m][l].left # <<>>
                /\ n = Head(indexCall[m][l].left)
                /\ indexCall'[m][l].left = Tail(indexCall[m][l].left)
                /\ indexCall'[m][l].from = indexCall[m][l].from
           ELSE indexCall'[m][l] = indexCall[m][l],
         from # <<n, k>>
  PROVE  IndexingInv'
<1>0. /\ IndexingTypes /\ StoringOnce /\ Waited /\ NoneForgotten
      /\ indexCall \in [IndexNodes -> [Slots -> IndexCall]]
      /\ indexed \in [IndexNodes -> BOOLEAN]
  BY DEF IndexingInv, IndexingTypes
<1>1. IndexingTypes' /\ \A m \in IndexNodes : indexed'[m] = (m = n \/ indexed[m])
  BY <1>0, MarkFacts DEF IndexingTypes
<1>2. /\ indexCall'[n][k].at = IF indexed[n] THEN "visiting" ELSE "storing"
      /\ indexCall'[n][k].left = Offspring[n] /\ indexCall'[n][k].from = from
  BY <1>0, VisitFacts
<1>3. \A m \in IndexNodes, l \in Slots : <<m, l>> # <<n, k>> =>
         /\ indexCall'[m][l].from = indexCall[m][l].from
         /\ Active(m, l)' <=> Active(m, l)
         /\ indexCall'[m][l].at = "storing" <=> indexCall[m][l].at = "storing"
         /\ indexCall[m][l].at = "waiting" =>
               indexCall'[m][l].at = "waiting" /\ indexCall'[m][l] = indexCall[m][l]
  BY DEF Active
<1>4. StoringOnce'
  <2>1. ASSUME NEW m \in IndexNodes, NEW l \in Slots, indexCall'[m][l].at = "storing"
        PROVE  /\ indexed'[m] /\ indexStored'[m] = 0
               /\ \A j \in Slots : indexCall'[m][j].at = "storing" => j = l
    <3>1. CASE m = n
      <4>1. CASE indexed[n]
        <5>1. l # k /\ \A j \in Slots : indexCall'[n][j].at = "storing" => j # k
          BY <1>2, <2>1, <3>1, <4>1
        <5>2. \A j \in Slots : indexCall'[n][j].at = "storing" => indexCall[n][j].at = "storing"
          BY <5>1, <1>3
        <5> QED BY <1>0, <1>1, <2>1, <3>1, <5>2 DEF StoringOnce
      <4>2. CASE ~indexed[n]
        <5>1. \A j \in Slots : indexCall[n][j].at # "storing"
          BY <1>0, <4>2 DEF StoringOnce
        <5>2. \A j \in Slots : indexCall'[n][j].at = "storing" => j = k
          BY <5>1, <1>3
        <5> QED BY <1>0, <1>1, <2>1, <3>1, <4>2, <5>2 DEF StoringOnce
      <4> QED BY <4>1, <4>2
    <3>2. CASE m # n
      <4>1. \A j \in Slots : indexCall'[m][j].at = "storing" <=> indexCall[m][j].at = "storing"
        BY <3>2, <1>3
      <4> QED BY <1>0, <1>1, <2>1, <3>2, <4>1 DEF StoringOnce
    <3> QED BY <3>1, <3>2
  <2>2. \A m \in IndexNodes : indexStored'[m] \in {0, 1} /\ (~indexed'[m] => indexStored'[m] = 0)
    BY <1>0, <1>1 DEF StoringOnce
  <2> QED BY <2>1, <2>2, Zenon DEF StoringOnce
<1>5. Waited'
  <2>1. ASSUME NEW m \in IndexNodes, NEW l \in Slots, Active(m, l)'
        PROVE  indexed'[m] /\ (indexCall'[m][l].from = <<>> => m = Root)
    <3>1. CASE <<m, l>> = <<n, k>>
      BY <1>1, <1>2, <3>1
    <3>2. CASE <<m, l>> # <<n, k>>
      <4>1. Active(m, l) /\ indexCall'[m][l].from = indexCall[m][l].from
        BY <1>3, <2>1, <3>2
      <4>2. indexed[m] /\ (indexCall[m][l].from = <<>> => m = Root)
        BY <4>1, <1>0, Zenon DEF Waited
      <4> QED BY <4>1, <4>2, <1>1
    <3> QED BY <3>1, <3>2
  <2>2. ASSUME NEW m \in IndexNodes, NEW l \in Slots, Active(m, l)',
               NEW x \in IndexNodes, NEW y \in Slots, indexCall'[m][l].from = <<x, y>>
        PROVE  indexCall'[x][y].at = "waiting"
    <3>1. CASE <<m, l>> = <<n, k>>
      BY <1>2, <2>2, <3>1, ZenonT(40)
    <3>2. CASE <<m, l>> # <<n, k>>
      <4>0. Active(m, l) /\ indexCall[m][l].from = <<x, y>>
        BY <1>3, <2>2, <3>2
      <4>1. indexCall[x][y].at = "waiting"
        BY <4>0, <1>0 DEF Waited
      <4>2. <<x, y>> # <<n, k>>
        BY <4>1 DEF Active
      <4> QED BY <4>1, <4>2, <1>3
    <3> QED BY <3>1, <3>2
  <2>3. ASSUME NEW m \in IndexNodes, NEW l \in Slots, Active(m, l)',
               NEW o \in IndexNodes, NEW j \in Slots, Active(o, j)',
               NEW x \in IndexNodes, NEW y \in Slots,
               indexCall'[m][l].from = <<x, y>>, indexCall'[o][j].from = <<x, y>>
        PROVE  o = m /\ j = l
    <3>1. CASE <<x, y>> = from
      <4>1. <<x, y>> # <<n, k>> /\ indexCall[x][y].at = "visiting"
        BY <3>1
      <4>2. ASSUME NEW p \in IndexNodes, NEW q \in Slots, <<p, q>> # <<n, k>>, Active(p, q)'
            PROVE  indexCall'[p][q].from # <<x, y>>
        <5>1. Active(p, q) /\ indexCall'[p][q].from = indexCall[p][q].from
          BY <1>3, <4>2
        <5>2. indexCall[p][q].from = <<x, y>> => indexCall[x][y].at = "waiting"
          BY <5>1, <1>0 DEF Waited
        <5> QED BY <4>1, <5>1, <5>2
      <4> QED BY <4>2, <2>3
    <3>2. CASE <<x, y>> # from
      <4>1. <<m, l>> # <<n, k>> /\ <<o, j>> # <<n, k>>
        BY <1>2, <2>3, <3>2
      <4>2. Active(m, l) /\ Active(o, j) /\ indexCall[m][l].from = <<x, y>>
            /\ indexCall[o][j].from = <<x, y>>
        BY <4>1, <1>3, <2>3
      <4> QED BY <4>2, <1>0 DEF Waited
    <3> QED BY <3>1, <3>2
  <2> QED BY <2>1, <2>2, <2>3, SMTT(40) DEF Waited
<1>6. NoneForgotten'
  <2> SUFFICES ASSUME indexFails = 0
               PROVE  /\ "complete" \in ended => Through(Root)'
                      /\ \A m \in IndexNodes, l \in Slots : Active(m, l)' =>
                           \A i \in DOMAIN Offspring[m] : Cared(m, l, Offspring[m][i])'
    BY DEF NoneForgotten
  <2>1. \A m : Through(m) => Through(m)'
    BY <1>1, ThroughGrows
  <2>2. "complete" \in ended => Through(Root)'
    BY <1>0, <2>1 DEF NoneForgotten
  <2>3. ASSUME NEW m \in IndexNodes, NEW l \in Slots, Active(m, l)',
               NEW i \in DOMAIN Offspring[m]
        PROVE  Cared(m, l, Offspring[m][i])'
    <3> DEFINE c == Offspring[m][i]
    <3>0. c \in IndexNodes
      BY NetworkAssumption
    <3>1. CASE <<m, l>> = <<n, k>>
      <4>1. i \in DOMAIN indexCall'[m][l].left /\ indexCall'[m][l].left[i] = c
        BY <1>2, <3>1
      <4> QED BY <4>1 DEF Cared
    <3>2. CASE <<m, l>> # <<n, k>>
      <4>1. Active(m, l) /\ Cared(m, l, c)
        BY <1>0, <1>3, <2>3, <3>2 DEF NoneForgotten
      <4>2. CASE Through(c)
        BY <2>1, <4>2 DEF Cared
      <4>3. CASE \E j \in DOMAIN indexCall[m][l].left : indexCall[m][l].left[j] = c
        <5>1. PICK j \in DOMAIN indexCall[m][l].left : indexCall[m][l].left[j] = c
          BY <4>3
        <5>2. CASE from = <<m, l>>
          <6>1. /\ indexCall'[m][l].at = "waiting"
                /\ indexCall'[m][l].left = Tail(indexCall[m][l].left)
                /\ n = Head(indexCall[m][l].left)
            BY <3>2, <5>2
          <6>2. indexCall[m][l].left \in Seq(IndexNodes)
            BY <1>0 DEF IndexCall
          <6>3. CASE j = 1
            <7>1. c = n
              <8>1. ASSUME NEW q \in Seq(IndexNodes), 1 \in DOMAIN q PROVE Head(q) = q[1]
                BY <8>1
              <8> QED BY <5>1, <6>1, <6>2, <6>3, <8>1, Zenon
            <7>2. Active(n, k)' /\ indexCall'[n][k].from = <<m, l>>
              BY <1>2, <5>2 DEF Active
            <7> QED BY <7>1, <7>2, <6>1 DEF Cared
          <6>4. CASE j # 1
            <7>1. ASSUME NEW q \in Seq(IndexNodes), NEW h \in DOMAIN q, h # 1, q # <<>>
                  PROVE  h - 1 \in DOMAIN Tail(q) /\ Tail(q)[h - 1] = q[h]
              BY <7>1
            <7>2. indexCall[m][l].left # <<>>
              BY <3>2, <5>2
            <7>3. j - 1 \in DOMAIN indexCall'[m][l].left /\ indexCall'[m][l].left[j - 1] = c
              BY <5>1, <6>1, <6>2, <6>4, <7>1, <7>2, ZenonT(40)
            <7> QED BY <7>3 DEF Cared
          <6> QED BY <6>3, <6>4
        <5>3. CASE from # <<m, l>>
          <6>1. indexCall'[m][l] = indexCall[m][l]
            BY <3>2, <5>3
          <6> QED BY <6>1, <5>1 DEF Cared
        <5> QED BY <5>2, <5>3
      <4>4. CASE /\ indexCall[m][l].at = "waiting"
                 /\ \E j \in Slots : Active(c, j) /\ indexCall[c][j].from = <<m, l>>
        <5>1. PICK j \in Slots : Active(c, j) /\ indexCall[c][j].from = <<m, l>>
          BY <4>4
        <5>2. <<c, j>> # <<n, k>>
          BY <5>1
        <5>3. Active(c, j)' /\ indexCall'[c][j].from = <<m, l>>
          BY <5>1, <5>2, <3>0, <1>3
        <5>4. indexCall'[m][l].at = "waiting"
          BY <4>4, <3>2, <1>3
        <5> QED BY <5>3, <5>4 DEF Cared
      <4> QED BY <4>1, <4>2, <4>3, <4>4 DEF Cared
    <3> QED BY <3>1, <3>2
  <2> QED BY <2>2, <2>3
<1> QED BY <1>1, <1>4, <1>5, <1>6 DEF IndexingInv

\* A call that ends is over, and whoever waits for it goes on.
LEMMA CallEnds ==
  ASSUME IndexingInv, NEW n \in IndexNodes, NEW k \in Slots, Active(n, k),
         indexCall[n][k].at # "waiting",
         indexCall' = Index!Answered(Index!Set(n, k, Index!Idle), indexCall[n][k].from),
         UNCHANGED <<indexed, indexStored>>, indexFails' \in Nat,
         indexFails' = 0 =>
           /\ indexFails = 0 /\ Through(n)
           /\ ended' = IF indexCall[n][k].from = <<>> THEN ended \cup {"complete"} ELSE ended
  PROVE  IndexingInv'
<1> DEFINE from == indexCall[n][k].from
<1>0. IndexingTypes /\ StoringOnce /\ Waited /\ NoneForgotten
  BY DEF IndexingInv
<1>1. /\ indexCall' \in [IndexNodes -> [Slots -> IndexCall]]
      /\ indexCall'[n][k] = Index!Idle
      /\ \A m \in IndexNodes, l \in Slots : <<m, l>> # <<n, k>> =>
           /\ indexCall'[m][l].left = indexCall[m][l].left
           /\ indexCall'[m][l].from = indexCall[m][l].from
           /\ indexCall'[m][l].at = IF from = <<m, l>> THEN "visiting" ELSE indexCall[m][l].at
  BY <1>0, AnswerFacts
<1>2. ~Active(n, k)' /\ indexCall'[n][k].at # "storing"
  BY <1>1, IdleIsACall DEF Active
<1>3. \A m \in IndexNodes, l \in Slots : from = <<m, l>> => indexCall[m][l].at = "waiting"
  BY <1>0 DEF Waited
<1>4. ASSUME NEW m \in IndexNodes, NEW l \in Slots, Active(m, l)'
      PROVE  /\ <<m, l>> # <<n, k>> /\ Active(m, l)
             /\ indexCall'[m][l].from = indexCall[m][l].from
             /\ indexCall'[m][l].at = "storing" => indexCall[m][l].at = "storing"
             /\ indexCall'[m][l].at # "visiting" => indexCall'[m][l].at = indexCall[m][l].at
  <2>1. <<m, l>> # <<n, k>>
    BY <1>2, <1>4
  <2> QED BY <1>1, <1>3, <1>4, <2>1 DEF Active
<1>5. IndexingTypes'
  BY <1>0, <1>1 DEF IndexingTypes
<1>6. StoringOnce'
  <2>1. \A m \in IndexNodes, l \in Slots :
           indexCall'[m][l].at = "storing" => indexCall[m][l].at = "storing"
    BY <1>4 DEF Active
  <2> QED BY <1>0, <2>1 DEF StoringOnce
<1>7. Waited'
  <2>1. ASSUME NEW m \in IndexNodes, NEW l \in Slots, Active(m, l)'
        PROVE  indexed'[m] /\ (indexCall'[m][l].from = <<>> => m = Root)
    <3>1. Active(m, l) /\ indexCall'[m][l].from = indexCall[m][l].from
      BY <1>4, <2>1
    <3> QED BY <3>1, <1>0 DEF Waited
  <2>2. ASSUME NEW m \in IndexNodes, NEW l \in Slots, Active(m, l)',
               NEW x \in IndexNodes, NEW y \in Slots, indexCall'[m][l].from = <<x, y>>
        PROVE  indexCall'[x][y].at = "waiting"
    <3>1. Active(m, l) /\ indexCall[m][l].from = <<x, y>> /\ <<m, l>> # <<n, k>>
      BY <1>4, <2>2
    <3>2. indexCall[x][y].at = "waiting"
      BY <3>1, <1>0 DEF Waited
    <3>3. from # <<x, y>>
      BY <3>1, <1>0 DEF Waited
    <3>4. <<x, y>> # <<n, k>>
      BY <3>2
    <3> QED BY <3>2, <3>3, <3>4, <1>1
  <2> SUFFICES ASSUME NEW m \in IndexNodes, NEW l \in Slots, Active(m, l)'
               PROVE  /\ indexed'[m]
                      /\ indexCall'[m][l].from = <<>> => m = Root
                      /\ \A x \in IndexNodes, y \in Slots : indexCall'[m][l].from = <<x, y>> =>
                           /\ indexCall'[x][y].at = "waiting"
                           /\ \A o \in IndexNodes, j \in Slots :
                                Active(o, j)' /\ indexCall'[o][j].from = <<x, y>> => o = m /\ j = l
    BY Zenon DEF Waited
  <2>4. indexed'[m] /\ (indexCall'[m][l].from = <<>> => m = Root)
    BY <2>1
  <2>5. ASSUME NEW x \in IndexNodes, NEW y \in Slots, indexCall'[m][l].from = <<x, y>>
        PROVE  /\ indexCall'[x][y].at = "waiting"
               /\ \A o \in IndexNodes, j \in Slots :
                    Active(o, j)' /\ indexCall'[o][j].from = <<x, y>> => o = m /\ j = l
    <3>1. indexCall'[x][y].at = "waiting"
      BY <2>2, <2>5, ZenonT(40)
    <3>2. ASSUME NEW o \in IndexNodes, NEW j \in Slots, Active(o, j)',
                 indexCall'[o][j].from = <<x, y>>
          PROVE  o = m /\ j = l
      <4>1. /\ Active(m, l) /\ indexCall[m][l].from = <<x, y>>
            /\ Active(o, j) /\ indexCall[o][j].from = <<x, y>>
        BY <1>4, <2>5, <3>2
      <4> QED BY <4>1, <1>0 DEF Waited
    <3> QED BY <3>1, <3>2
  <2> QED BY <2>4, <2>5
<1>8. NoneForgotten'
  <2> SUFFICES ASSUME indexFails' = 0
               PROVE  /\ "complete" \in ended' => Through(Root)'
                      /\ \A m \in IndexNodes, l \in Slots : Active(m, l)' =>
                           \A i \in DOMAIN Offspring[m] : Cared(m, l, Offspring[m][i])'
    BY DEF NoneForgotten
  <2>1. \A m : Through(m) <=> Through(m)'
    BY DEF Through
  <2>2. "complete" \in ended' => Through(Root)'
    <3>1. from = <<>> => Through(Root)
      BY <1>0 DEF Waited
    <3> QED BY <1>0, <2>1, <3>1 DEF NoneForgotten
  <2>3. ASSUME NEW m \in IndexNodes, NEW l \in Slots, Active(m, l)',
               NEW i \in DOMAIN Offspring[m]
        PROVE  Cared(m, l, Offspring[m][i])'
    <3> DEFINE c == Offspring[m][i]
    <3>0. c \in IndexNodes
      BY NetworkAssumption
    <3>1. <<m, l>> # <<n, k>> /\ Active(m, l) /\ Cared(m, l, c)
      BY <1>0, <1>4, <2>3 DEF NoneForgotten
    <3>2. CASE Through(c)
      BY <2>1, <3>2 DEF Cared
    <3>3. CASE \E j \in DOMAIN indexCall[m][l].left : indexCall[m][l].left[j] = c
      BY <1>1, <3>1, <3>3 DEF Cared
    <3>4. CASE /\ indexCall[m][l].at = "waiting"
               /\ \E j \in Slots : Active(c, j) /\ indexCall[c][j].from = <<m, l>>
      <4>1. PICK j \in Slots : Active(c, j) /\ indexCall[c][j].from = <<m, l>>
        BY <3>4
      <4>2. CASE <<c, j>> = <<n, k>>
        BY <4>2, <2>1 DEF Cared
      <4>3. CASE <<c, j>> # <<n, k>>
        <5>1. from # <<m, l>>
          BY <1>0, <3>0, <4>1, <4>3 DEF Waited
        <5>2. indexCall'[m][l].at = "waiting"
          BY <1>1, <3>1, <3>4, <5>1
        <5>3. Active(c, j)' /\ indexCall'[c][j].from = <<m, l>>
          BY <1>1, <3>0, <4>1, <4>3 DEF Active
        <5> QED BY <5>2, <5>3 DEF Cared
      <4> QED BY <4>2, <4>3
    <3> QED BY <3>1, <3>2, <3>3, <3>4 DEF Cared
  <2> QED BY <2>2, <2>3
<1> QED BY <1>5, <1>6, <1>7, <1>8 DEF IndexingInv

\* A call that goes on without waiting keeps its caller, and may lose a child
\* of its list only to a failure.
LEMMA CallGoesOn ==
  ASSUME IndexingInv, NEW n \in IndexNodes, NEW k \in Slots,
         indexCall[n][k].at \in {"storing", "visiting"},
         indexCall' \in [IndexNodes -> [Slots -> IndexCall]],
         \A m \in IndexNodes, l \in Slots : <<m, l>> # <<n, k>> =>
           indexCall'[m][l] = indexCall[m][l],
         indexCall'[n][k].at = "visiting", indexCall'[n][k].from = indexCall[n][k].from,
         \A m \in IndexNodes : indexStored'[m] =
           IF m = n /\ indexCall[n][k].at = "storing" THEN 1 ELSE indexStored[m],
         indexStored' \in [IndexNodes -> Nat],
         UNCHANGED <<indexed, ended>>, indexFails' \in Nat,
         indexFails' = 0 => indexFails = 0 /\ indexCall'[n][k].left = indexCall[n][k].left
  PROVE  IndexingInv'
<1>0. IndexingTypes /\ StoringOnce /\ Waited /\ NoneForgotten
  BY DEF IndexingInv
<1>1. IndexingTypes'
  BY <1>0 DEF IndexingTypes
<1>2. \A m \in IndexNodes, l \in Slots :
        /\ Active(m, l)' <=> Active(m, l)
        /\ indexCall'[m][l].from = indexCall[m][l].from
        /\ indexCall[m][l].at = "waiting" => indexCall'[m][l] = indexCall[m][l]
        /\ indexCall'[m][l].at = "storing" => indexCall[m][l].at = "storing" /\ <<m, l>> # <<n, k>>
  BY DEF Active
<1>3. StoringOnce'
  <2>1. ASSUME NEW m \in IndexNodes
        PROVE  /\ indexStored'[m] \in {0, 1}
               /\ ~indexed'[m] => indexStored'[m] = 0
               /\ \A l \in Slots : indexCall'[m][l].at = "storing" =>
                    /\ indexed'[m] /\ indexStored'[m] = 0
                    /\ \A j \in Slots : indexCall'[m][j].at = "storing" => j = l
    <3>1. CASE m = n /\ indexCall[n][k].at = "storing"
      <4>1. \A l \in Slots : indexCall'[m][l].at # "storing"
        BY <1>0, <1>2, <3>1 DEF StoringOnce
      <4>2. indexed[n] /\ indexStored'[n] = 1
        BY <1>0, <3>1 DEF StoringOnce
      <4> QED BY <3>1, <4>1, <4>2
    <3>2. CASE ~(m = n /\ indexCall[n][k].at = "storing")
      <4>1. indexStored'[m] = indexStored[m]
        BY <3>2
      <4> QED BY <1>0, <1>2, <4>1 DEF StoringOnce
    <3> QED BY <3>1, <3>2
  <2> QED BY <2>1, Zenon DEF StoringOnce
<1>4. Waited'
  <2>1. \A m \in IndexNodes, l \in Slots : Active(m, l)' => Active(m, l)
    BY <1>2
  <2>2. ASSUME NEW m \in IndexNodes, NEW l \in Slots, Active(m, l)'
        PROVE  /\ indexed'[m]
               /\ indexCall'[m][l].from = <<>> => m = Root
               /\ \A x \in IndexNodes, y \in Slots : indexCall'[m][l].from = <<x, y>> =>
                    /\ indexCall'[x][y].at = "waiting"
                    /\ \A o \in IndexNodes, j \in Slots :
                         Active(o, j)' /\ indexCall'[o][j].from = <<x, y>> => o = m /\ j = l
    <3>1. Active(m, l) /\ indexCall'[m][l].from = indexCall[m][l].from
      BY <1>2, <2>2
    <3>2. indexed'[m] /\ (indexCall'[m][l].from = <<>> => m = Root)
      BY <1>0, <3>1 DEF Waited
    <3>3. ASSUME NEW x \in IndexNodes, NEW y \in Slots, indexCall[m][l].from = <<x, y>>
          PROVE  /\ indexCall'[x][y].at = "waiting"
                 /\ \A o \in IndexNodes, j \in Slots :
                      Active(o, j)' /\ indexCall'[o][j].from = <<x, y>> => o = m /\ j = l
      <4>1. indexCall[x][y].at = "waiting"
        BY <1>0, <3>1, <3>3 DEF Waited
      <4>2. ASSUME NEW o \in IndexNodes, NEW j \in Slots, Active(o, j)',
                   indexCall'[o][j].from = <<x, y>>
            PROVE  o = m /\ j = l
        <5>1. Active(o, j) /\ indexCall[o][j].from = <<x, y>>
          BY <1>2, <4>2
        <5> QED BY <1>0, <3>1, <3>3, <5>1 DEF Waited
      <4> QED BY <1>2, <4>1, <4>2
    <3> QED BY <3>1, <3>2, <3>3
  <2> QED BY <2>2, Zenon DEF Waited
<1>5. NoneForgotten'
  <2> SUFFICES ASSUME indexFails' = 0
               PROVE  /\ "complete" \in ended => Through(Root)'
                      /\ \A m \in IndexNodes, l \in Slots : Active(m, l)' =>
                           \A i \in DOMAIN Offspring[m] : Cared(m, l, Offspring[m][i])'
    BY DEF NoneForgotten
  <2>1. \A m : Through(m) <=> Through(m)'
    BY DEF Through
  <2>2. ASSUME NEW m \in IndexNodes, NEW l \in Slots, Active(m, l)',
               NEW i \in DOMAIN Offspring[m]
        PROVE  Cared(m, l, Offspring[m][i])'
    <3> DEFINE c == Offspring[m][i]
    <3>0. c \in IndexNodes
      BY NetworkAssumption
    <3>1. Cared(m, l, c) /\ indexCall'[m][l].left = indexCall[m][l].left
      BY <1>0, <1>2, <2>2 DEF NoneForgotten
    <3>2. CASE \E j \in DOMAIN indexCall[m][l].left : indexCall[m][l].left[j] = c
      BY <3>1, <3>2 DEF Cared
    <3>3. CASE Through(c)
      BY <2>1, <3>3 DEF Cared
    <3>4. CASE /\ indexCall[m][l].at = "waiting"
               /\ \E j \in Slots : Active(c, j) /\ indexCall[c][j].from = <<m, l>>
      <4>1. PICK j \in Slots : Active(c, j) /\ indexCall[c][j].from = <<m, l>>
        BY <3>4
      <4>2. /\ Active(c, j)' /\ indexCall'[c][j].from = <<m, l>>
            /\ indexCall'[m][l].at = "waiting"
        BY <1>2, <3>0, <3>4, <4>1
      <4> QED BY <4>2 DEF Cared
    <3> QED BY <3>1, <3>2, <3>3, <3>4 DEF Cared
  <2> QED BY <1>0, <2>1, <2>2 DEF NoneForgotten
<1> QED BY <1>1, <1>3, <1>4, <1>5 DEF IndexingInv

\* Every step keeps the invariant.
LEMMA IndexingNextInv == IndexingInv /\ [Index!Next]_(Index!vars) => IndexingInv'
<1> SUFFICES ASSUME IndexingInv, [Index!Next]_(Index!vars) PROVE IndexingInv'
  OBVIOUS
<1>0. /\ IndexingTypes /\ StoringOnce /\ Waited /\ NoneForgotten
      /\ indexCall \in [IndexNodes -> [Slots -> IndexCall]]
      /\ indexed \in [IndexNodes -> BOOLEAN]
      /\ indexStored \in [IndexNodes -> Nat] /\ indexFails \in Nat
  BY DEF IndexingInv, IndexingTypes
<1>1. ASSUME NEW k \in Slots, Index!Ask(k) PROVE IndexingInv'
  <2>1. Root \in IndexNodes /\ ~Active(Root, k)
    BY <1>1, NetworkAssumption, IdleIsACall DEF Index!Ask, Active
  <2>2. Index!Visit(Root, <<>>) \in IndexCall
    BY <1>0, <2>1, VisitFacts
  <2>3. /\ indexCall' \in [IndexNodes -> [Slots -> IndexCall]]
        /\ \A m \in IndexNodes, l \in Slots :
             indexCall'[m][l] = IF m = Root /\ l = k THEN Index!Visit(Root, <<>>)
                                ELSE indexCall[m][l]
    BY <1>0, <1>1, <2>1, <2>2, OneCallChanges DEF Index!Ask, Index!Set
  <2>4. indexed' = Index!Mark(Root) /\ UNCHANGED <<indexStored, ended, indexFails>>
    BY <1>1 DEF Index!Ask
  <2>5. \A m \in IndexNodes, l \in Slots : <<m, l>> # <<Root, k>> =>
           IF <<>> = <<m, l>>
           THEN /\ indexCall[m][l].at = "visiting" /\ indexCall'[m][l].at = "waiting"
                /\ indexCall[m][l].left # <<>>
                /\ Root = Head(indexCall[m][l].left)
                /\ indexCall'[m][l].left = Tail(indexCall[m][l].left)
                /\ indexCall'[m][l].from = indexCall[m][l].from
           ELSE indexCall'[m][l] = indexCall[m][l]
    BY <2>3
  <2>6. indexCall'[Root][k] = Index!Visit(Root, <<>>) /\ <<>> # <<Root, k>>
    BY <2>1, <2>3
  <2>7. <<>> \in {<<>>} \cup IndexNodes \X Slots
    OBVIOUS
  <2> QED BY <2>1, <2>3, <2>4, <2>5, <2>6, <2>7, CallStarts, ZenonT(40)
<1>2. ASSUME NEW n \in IndexNodes, NEW k \in Slots, Index!Stored(n, k) PROVE IndexingInv'
  <2> DEFINE c == [indexCall[n][k] EXCEPT !.at = "visiting"]
  <2>0. indexCall[n][k] \in IndexCall
    BY <1>0
  <2>1. /\ c \in IndexCall /\ c.at = "visiting" /\ c.left = indexCall[n][k].left
        /\ c.from = indexCall[n][k].from
    BY <2>0 DEF IndexCall
  <2>2. indexCall' = [indexCall EXCEPT ![n][k] = c]
    BY <1>2 DEF Index!Stored
  <2> HIDE DEF c
  <2>3. /\ indexCall' \in [IndexNodes -> [Slots -> IndexCall]]
        /\ \A m \in IndexNodes, l \in Slots :
             indexCall'[m][l] = IF m = n /\ l = k THEN c ELSE indexCall[m][l]
    BY <1>0, <2>1, <2>2, OneCallChanges
  <2>4. indexStored[n] = 0 /\ indexCall[n][k].at = "storing"
    BY <1>0, <1>2 DEF Index!Stored, StoringOnce
  <2>5. /\ indexStored' \in [IndexNodes -> Nat]
        /\ \A m \in IndexNodes : indexStored'[m] = IF m = n THEN 1 ELSE indexStored[m]
    BY <1>0, <1>2, <2>4 DEF Index!Stored
  <2>6. UNCHANGED <<indexed, ended, indexFails>>
    BY <1>2 DEF Index!Stored
  <2>7. /\ indexCall[n][k].at \in {"storing", "visiting"} /\ indexFails' \in Nat
        /\ \A m \in IndexNodes : indexStored'[m] =
             IF m = n /\ indexCall[n][k].at = "storing" THEN 1 ELSE indexStored[m]
        /\ \A m \in IndexNodes, l \in Slots : <<m, l>> # <<n, k>> =>
             indexCall'[m][l] = indexCall[m][l]
        /\ indexCall'[n][k] = c
    BY <1>0, <2>3, <2>4, <2>5, <2>6
  <2> QED BY <2>1, <2>3, <2>5, <2>6, <2>7, CallGoesOn
<1>3. ASSUME NEW n \in IndexNodes, NEW k \in Slots, Index!StoringFails(n, k)
      PROVE  IndexingInv'
  <2>1. /\ Active(n, k) /\ indexCall[n][k].at # "waiting"
        /\ indexCall' = Index!Answered(Index!Set(n, k, Index!Idle), indexCall[n][k].from)
        /\ UNCHANGED <<indexed, indexStored>>
        /\ indexFails' \in Nat /\ indexFails' # 0
    BY <1>0, <1>3 DEF Index!StoringFails, Active
  <2> QED BY <2>1, CallEnds
<1>4. ASSUME NEW n \in IndexNodes, NEW k \in Slots, Index!VisitChild(n, k)
      PROVE  IndexingInv'
  <2> DEFINE c == Head(indexCall[n][k].left)
             mine == [indexCall[n][k] EXCEPT !.at = "waiting", !.left = Tail(@)]
  <2>1. PICK j \in Slots :
          /\ indexCall[c][j] = Index!Idle
          /\ indexCall' = [indexCall EXCEPT ![n][k].at = "waiting", ![n][k].left = Tail(@),
                                            ![c][j] = Index!Visit(c, <<n, k>>)]
          /\ indexed' = Index!Mark(c)
    BY <1>4 DEF Index!VisitChild
  <2>2. /\ indexCall[n][k].at = "visiting" /\ indexCall[n][k].left # <<>>
        /\ UNCHANGED <<indexStored, ended, indexFails>>
    BY <1>4 DEF Index!VisitChild
  <2>3. indexCall[n][k] \in IndexCall /\ indexCall[n][k].left \in Seq(IndexNodes)
    BY <1>0 DEF IndexCall
  <2>4. c \in IndexNodes /\ Tail(indexCall[n][k].left) \in Seq(IndexNodes)
    BY <2>2, <2>3
  <2>5. /\ mine \in IndexCall /\ mine.at = "waiting"
        /\ mine.left = Tail(indexCall[n][k].left) /\ mine.from = indexCall[n][k].from
    BY <2>3, <2>4 DEF IndexCall
  <2>6. <<n, k>> # <<c, j>> /\ ~Active(c, j)
    BY <2>1, <2>2, IdleIsACall DEF Active
  <2>7. Index!Visit(c, <<n, k>>) \in IndexCall
    BY <1>0, <2>4, VisitFacts
  <2>8. indexCall' = [[indexCall EXCEPT ![n][k] = mine] EXCEPT ![c][j] = Index!Visit(c, <<n, k>>)]
    BY <1>0, <2>1, <2>3
  <2> HIDE DEF mine, c
  <2> DEFINE waits == [indexCall EXCEPT ![n][k] = mine]
  <2>9. /\ waits \in [IndexNodes -> [Slots -> IndexCall]]
        /\ \A m \in IndexNodes, l \in Slots :
             waits[m][l] = IF m = n /\ l = k THEN mine ELSE indexCall[m][l]
    BY <1>0, <2>5, OneCallChanges
  <2> HIDE DEF waits
  <2>10. /\ indexCall' \in [IndexNodes -> [Slots -> IndexCall]]
         /\ \A m \in IndexNodes, l \in Slots :
              indexCall'[m][l] = IF m = c /\ l = j THEN Index!Visit(c, <<n, k>>)
                                 ELSE waits[m][l]
    <3>1. indexCall' = [waits EXCEPT ![c][j] = Index!Visit(c, <<n, k>>)]
      BY <2>8 DEF waits
    <3> QED BY <2>4, <2>7, <2>9, <3>1, OneCallChanges
  <2> DEFINE from == <<n, k>>
  <2>11. \A m \in IndexNodes, l \in Slots : <<m, l>> # <<c, j>> =>
           IF from = <<m, l>>
           THEN /\ indexCall[m][l].at = "visiting" /\ indexCall'[m][l].at = "waiting"
                /\ indexCall[m][l].left # <<>>
                /\ c = Head(indexCall[m][l].left)
                /\ indexCall'[m][l].left = Tail(indexCall[m][l].left)
                /\ indexCall'[m][l].from = indexCall[m][l].from
           ELSE indexCall'[m][l] = indexCall[m][l]
    BY <2>2, <2>5, <2>9, <2>10 DEF c
  <2>12. indexCall'[c][j] = Index!Visit(c, from) /\ from # <<>>
    BY <2>4, <2>10
  <2>13. from \in {<<>>} \cup IndexNodes \X Slots /\ indexed' = Index!Mark(c)
    BY <2>1 DEF c
  <2>14. indexCall' \in [IndexNodes -> [Slots -> IndexCall]]
    BY <2>10
  <2>15. from # <<c, j>>
    BY <2>6
  <2> HIDE DEF from
  <2> QED BY <2>2, <2>4, <2>6, <2>11, <2>12, <2>13, <2>14, <2>15, CallStarts
<1>5. ASSUME NEW n \in IndexNodes, NEW k \in Slots, Index!ChildUnreachable(n, k)
      PROVE  IndexingInv'
  <2> DEFINE c == [indexCall[n][k] EXCEPT !.left = Tail(@)]
  <2>1. /\ indexCall[n][k].at = "visiting" /\ indexCall[n][k].left # <<>>
        /\ indexCall[n][k].left \in Seq(IndexNodes)
    BY <1>0, <1>5 DEF IndexCall, Index!ChildUnreachable
  <2>2. /\ c \in IndexCall /\ c.at = "visiting" /\ c.from = indexCall[n][k].from
    <3>1. indexCall[n][k] \in IndexCall /\ Tail(indexCall[n][k].left) \in Seq(IndexNodes)
      BY <1>0, <2>1
    <3> QED BY <2>1, <3>1 DEF IndexCall
  <2>3. indexCall' = [indexCall EXCEPT ![n][k] = c]
    BY <1>5 DEF Index!ChildUnreachable
  <2> HIDE DEF c
  <2>4. /\ indexCall' \in [IndexNodes -> [Slots -> IndexCall]]
        /\ \A m \in IndexNodes, l \in Slots :
             indexCall'[m][l] = IF m = n /\ l = k THEN c ELSE indexCall[m][l]
    BY <1>0, <2>2, <2>3, OneCallChanges
  <2>5. /\ UNCHANGED <<indexed, indexStored, ended>>
        /\ indexFails' \in Nat /\ indexFails' # 0
    BY <1>0, <1>5 DEF Index!ChildUnreachable
  <2>6. /\ indexCall[n][k].at \in {"storing", "visiting"}
        /\ indexCall'[n][k].at = "visiting" /\ indexCall'[n][k].from = indexCall[n][k].from
        /\ \A m \in IndexNodes, l \in Slots : <<m, l>> # <<n, k>> =>
             indexCall'[m][l] = indexCall[m][l]
    BY <2>1, <2>2, <2>4
  <2>7. /\ indexStored' \in [IndexNodes -> Nat]
        /\ \A m \in IndexNodes : indexStored'[m] =
             IF m = n /\ indexCall[n][k].at = "storing" THEN 1 ELSE indexStored[m]
    BY <1>0, <2>1, <2>5
  <2> QED BY <2>4, <2>5, <2>6, <2>7, CallGoesOn
<1>6. ASSUME NEW n \in IndexNodes, NEW k \in Slots, Index!Ends(n, k) PROVE IndexingInv'
  <2>1. /\ Active(n, k) /\ indexCall[n][k].at = "visiting" /\ indexCall[n][k].left = <<>>
        /\ indexCall' = Index!Answered(Index!Set(n, k, Index!Idle), indexCall[n][k].from)
        /\ ended' = IF indexCall[n][k].from = <<>> THEN ended \cup {"complete"} ELSE ended
        /\ UNCHANGED <<indexed, indexStored, indexFails>>
    BY <1>6 DEF Index!Ends, Active
  <2>2. ASSUME indexFails = 0 PROVE Through(n)
    <3>1. \A i \in DOMAIN Offspring[n] : Cared(n, k, Offspring[n][i])
      BY <1>0, <2>1, <2>2 DEF NoneForgotten
    <3>2. \A i \in DOMAIN Offspring[n] : Through(Offspring[n][i])
      BY <2>1, <3>1 DEF Cared
    <3>3. indexed[n]
      BY <1>0, <2>1 DEF Waited
    <3> QED BY <1>0, <3>2, <3>3, ThroughItself
  <2> QED BY <1>0, <2>1, <2>2, CallEnds
<1>7. CASE UNCHANGED Index!vars
  <2>1. /\ indexed' = indexed /\ indexStored' = indexStored /\ indexCall' = indexCall
        /\ ended' = ended /\ indexFails' = indexFails
    BY <1>7 DEF Index!vars
  <2>2. IndexingTypes' /\ StoringOnce'
    BY <1>0, <2>1 DEF IndexingTypes, StoringOnce
  <2>3. Waited'
    BY <1>0, <2>1 DEF Waited, Active
  <2>4. NoneForgotten'
    BY <1>0, <2>1, ZenonT(40) DEF NoneForgotten, Cared, Through, Active
  <2> QED BY <2>2, <2>3, <2>4 DEF IndexingInv
<1> QED BY <1>1, <1>2, <1>3, <1>4, <1>5, <1>6, <1>7 DEF Index!Next

\* However many calls of index_network overlap, a node stores its documents at
\* most once, and an indexing that ends well without a failure has marked every
\* node: of any network whose nodes are all below the root.
THEOREM SpecCompleteMeansAll == Index!Spec => []CompleteMeansAll
<1>1. IndexingInv => CompleteMeansAll
  <2> SUFFICES ASSUME IndexingInv PROVE CompleteMeansAll
    OBVIOUS
  <2>1. \A n \in IndexNodes : indexStored[n] <= 1
    BY DEF IndexingInv, StoringOnce
  <2>2. ASSUME "complete" \in ended, indexFails = 0 PROVE \A n \in IndexNodes : indexed[n]
    <3>1. PICK S \in SUBSET IndexNodes : Root \in S /\ Closed(S) /\ \A m \in S : indexed[m]
      BY <2>2 DEF IndexingInv, NoneForgotten, Through
    <3>2. S = IndexNodes
      BY <3>1, NetworkAssumption
    <3> QED BY <3>1, <3>2
  <2> QED BY <2>1, <2>2 DEF CompleteMeansAll, Index!CompleteMeansAll
<1>2. Index!Spec => []IndexingInv
  BY IndexingInitInv, IndexingNextInv, PTL DEF Index!Spec
<1> QED BY <1>1, <1>2, PTL

-----------------------------------------------------------------------------
(* Routing.                                                                *)

\* What Routing takes from the libraries is what this module takes from them.
LEMMA RoutingLibrary ==
  /\ \A q, S : Routes!Filter(q, S) = Filter(q, S)
  /\ \A q : Routes!Last(q) = q[Len(q)]
<1>1. \A q, S : Routes!Filter(q, S) = Filter(q, S)
  BY Zenon DEF Routes!Filter, Filter
<1>2. \A q : Routes!Last(q) = q[Len(q)]
  BY DEF Routes!Last
<1> QED BY <1>1, <1>2

\* A prefix agrees where it is, and has an end of its own if it is shorter.
LEMMA PrefixFacts ==
  ASSUME NEW T, NEW s \in Seq(T), NEW t \in Seq(T)
  PROVE  /\ Routes!IsPrefix(s, t) <=> Len(s) <= Len(t) /\ \A i \in 1..Len(s) : s[i] = t[i]
         /\ Routes!IsStrictPrefix(s, t) <=> Len(s) < Len(t) /\ \A i \in 1..Len(s) : s[i] = t[i]
<1>1. SubSeq(s, 1, Len(s)) = s
  BY SubSeqFull
<1>2. ASSUME Len(s) <= Len(t)
      PROVE  SubSeq(t, 1, Len(s)) = s <=> \A i \in 1..Len(s) : s[i] = t[i]
  <2>1. /\ SubSeq(t, 1, Len(s)) \in Seq(T) /\ Len(SubSeq(t, 1, Len(s))) = Len(s)
        /\ \A i \in 1..Len(s) : SubSeq(t, 1, Len(s))[i] = t[i]
    BY <1>2
  <2> QED BY <2>1
<1>3. Routes!IsPrefix(s, t) <=> Len(s) <= Len(t) /\ \A i \in 1..Len(s) : s[i] = t[i]
  BY <1>1, <1>2 DEF Routes!IsPrefix
<1>4. ASSUME Len(s) = Len(t), \A i \in 1..Len(s) : s[i] = t[i] PROVE s = t
  BY <1>4
<1>5. Routes!IsStrictPrefix(s, t) <=> Len(s) < Len(t) /\ \A i \in 1..Len(s) : s[i] = t[i]
  BY <1>3, <1>4 DEF Routes!IsStrictPrefix
<1> QED BY <1>3, <1>5

\* A suffix that is not empty ends like the whole.
LEMMA SuffixFacts ==
  ASSUME NEW T, NEW s \in Seq(T), NEW t \in Seq(T), Routes!IsSuffix(s, t), s # <<>>
  PROVE  t # <<>> /\ s[Len(s)] = t[Len(t)]
<1>1. /\ Routes!Reverse(s) = [i \in 1..Len(s) |-> s[(Len(s) - i) + 1]]
      /\ Routes!Reverse(t) = [i \in 1..Len(t) |-> t[(Len(t) - i) + 1]]
  BY DEF Routes!Reverse
<1>2. Len(s) \in Nat \ {0} /\ Len(t) \in Nat
  OBVIOUS
<1>3. /\ Routes!Reverse(s) \in Seq(T) /\ Len(Routes!Reverse(s)) = Len(s)
      /\ Routes!Reverse(t) \in Seq(T) /\ Len(Routes!Reverse(t)) = Len(t)
  <2>1. ASSUME NEW q \in Seq(T)
        PROVE  /\ [i \in 1..Len(q) |-> q[(Len(q) - i) + 1]] \in Seq(T)
               /\ Len([i \in 1..Len(q) |-> q[(Len(q) - i) + 1]]) = Len(q)
    OBVIOUS
  <2> QED BY <1>1, <2>1
<1>4. /\ Len(s) <= Len(t)
      /\ \A i \in 1..Len(s) : Routes!Reverse(s)[i] = Routes!Reverse(t)[i]
  BY <1>3, PrefixFacts DEF Routes!IsSuffix
<1>5. Routes!Reverse(s)[1] = s[Len(s)] /\ Routes!Reverse(t)[1] = t[Len(t)]
  BY <1>1, <1>2, <1>4
<1> QED BY <1>2, <1>4, <1>5

-----------------------------------------------------------------------------

\* f is the path of every node whose depth is at most d.
PathUpTo(f, depth, d) == \A n \in Nodes : depth[n] <= d =>
   f[n] = IF n = Leader THEN <<Leader>> ELSE Append(f[Parent[n]], n)

\* The recursive definition of Path defines it.
LEMMA PathIs ==
  \A n \in Nodes : Routes!Path[n] = IF n = Leader THEN <<Leader>>
                                    ELSE Append(Routes!Path[Parent[n]], n)
<1>1. PICK depth \in [Nodes -> 0..Cardinality(Nodes)] :
        \A n \in Nodes \ {Leader} : depth[Parent[n]] < depth[n]
  BY NetworkAssumption
<1>2. \A d \in Nat : \E f : PathUpTo(f, depth, d)
  <2> DEFINE Bad == {d \in Nat : ~\E f : PathUpTo(f, depth, d)}
  <2> SUFFICES ASSUME Bad # {} PROVE FALSE
    OBVIOUS
  <2>1. PICK d \in Bad : \A e \in Bad : d <= e
    BY Smallest
  <2>2. \A n \in Nodes : depth[n] \in Int /\ depth[n] >= 0
    <3>1. \A x \in 0..Cardinality(Nodes) : x \in Int /\ x >= 0
      OBVIOUS
    <3> QED BY <1>1, <3>1
  <2>3. PICK f : \A n \in Nodes : depth[n] < d =>
           f[n] = IF n = Leader THEN <<Leader>> ELSE Append(f[Parent[n]], n)
    <3>1. CASE d = 0
      <4>1. \A x : x \in Int /\ x >= 0 => ~(x < 0)
        OBVIOUS
      <4>2. \A n \in Nodes : ~(depth[n] < d)
        BY <2>2, <3>1, <4>1, Zenon
      <4> QED BY <4>2
    <3>2. CASE d # 0
      <4>1. d - 1 \in Nat /\ d - 1 \notin Bad
        BY <2>1, <3>2
      <4>2. PICK f : PathUpTo(f, depth, d - 1)
        BY <4>1
      <4>3. \A n \in Nodes : depth[n] < d => depth[n] <= d - 1
        BY <2>2, <2>1
      <4> QED BY <4>2, <4>3 DEF PathUpTo
    <3> QED BY <3>1, <3>2
  <2> DEFINE g == [n \in Nodes |-> IF depth[n] < d THEN f[n]
                                   ELSE IF n = Leader THEN <<Leader>> ELSE Append(f[Parent[n]], n)]
  <2>4. ASSUME NEW n \in Nodes, depth[n] <= d
        PROVE  g[n] = IF n = Leader THEN <<Leader>> ELSE Append(g[Parent[n]], n)
    <3>1. CASE n = Leader
      BY <2>3, <3>1
    <3>2. CASE n # Leader
      <4>1. Parent[n] \in Nodes /\ depth[Parent[n]] < d
        BY <1>1, <2>1, <2>2, <2>4, <3>2, NetworkAssumption
      <4> QED BY <2>3, <3>2, <4>1
    <3> QED BY <3>1, <3>2
  <2> QED BY <2>1, <2>4 DEF PathUpTo
<1>3. Cardinality(Nodes) \in Nat
  BY NetworkAssumption, FS_CardinalityType
<1>4. PICK f : PathUpTo(f, depth, Cardinality(Nodes))
  BY <1>2, <1>3
<1>5. \A n \in Nodes : f[n] = IF n = Leader THEN <<Leader>> ELSE Append(f[Parent[n]], n)
  <2>1. \A n \in Nodes : depth[n] <= Cardinality(Nodes)
    <3>1. \A x \in 0..Cardinality(Nodes) : x <= Cardinality(Nodes)
      BY <1>3
    <3> QED BY <1>1, <3>1
  <2> QED BY <1>4, <2>1 DEF PathUpTo
<1> DEFINE g == [n \in Nodes |-> f[n]]
           Is(p) == p = [n \in Nodes |-> IF n = Leader THEN <<Leader>>
                                         ELSE Append(p[Parent[n]], n)]
<1>6. Is(g)
  <2>1. \A n \in Nodes : g[n] = IF n = Leader THEN <<Leader>> ELSE Append(g[Parent[n]], n)
    <3>1. \A n \in Nodes : n # Leader => Parent[n] \in Nodes
      BY NetworkAssumption
    <3> QED BY <1>5, <3>1
  <2> QED BY <2>1
<1>7. Routes!Path = CHOOSE p : Is(p)
  BY DEF Routes!Path
<1>8. Is(Routes!Path)
  BY <1>6, <1>7, Zenon
<1> QED BY <1>8

\* A path is a sequence of nodes from the leader to its node.
LEMMA PathFacts ==
  \A n \in Nodes : /\ Routes!Path[n] \in Seq(Nodes) /\ Routes!Path[n] # <<>>
                   /\ Routes!Path[n][1] = Leader
                   /\ Routes!Path[n][Len(Routes!Path[n])] = n
<1> DEFINE Good(n) == /\ Routes!Path[n] \in Seq(Nodes) /\ Routes!Path[n] # <<>>
                      /\ Routes!Path[n][1] = Leader
                      /\ Routes!Path[n][Len(Routes!Path[n])] = n
<1>1. PICK depth \in [Nodes -> 0..Cardinality(Nodes)] :
        \A n \in Nodes \ {Leader} : depth[Parent[n]] < depth[n]
  BY NetworkAssumption
<1>2. Cardinality(Nodes) \in Nat
  BY NetworkAssumption, FS_CardinalityType
<1>3. \A n \in Nodes : depth[n] \in Nat
  <2>1. \A x \in 0..Cardinality(Nodes) : x \in Nat
    BY <1>2
  <2> QED BY <1>1, <2>1
<1> DEFINE Bad == {depth[n] : n \in {m \in Nodes : ~Good(m)}}
<1> SUFFICES ASSUME Bad # {} PROVE FALSE
  OBVIOUS
<1>4. PICK d \in Bad : \A e \in Bad : d <= e
  <2>1. Bad \in SUBSET Nat
    BY <1>3
  <2> HIDE DEF Bad
  <2> QED BY <2>1, Smallest
<1>5. PICK n \in Nodes : ~Good(n) /\ depth[n] = d
  BY <1>4
<1>6. CASE n = Leader
  <2>1. Routes!Path[n] = <<Leader>>
    BY <1>6, PathIs
  <2> QED BY <1>5, <1>6, <2>1, NetworkAssumption
<1>7. CASE n # Leader
  <2>1. Parent[n] \in Nodes /\ depth[Parent[n]] < depth[n]
    BY <1>1, <1>7, NetworkAssumption
  <2>2. Good(Parent[n])
    <3>1. depth[Parent[n]] \in Nat /\ depth[n] \in Nat /\ ~(depth[n] <= depth[Parent[n]])
      BY <1>3, <2>1
    <3> QED BY <1>4, <1>5, <2>1, <3>1
  <2>3. Routes!Path[n] = Append(Routes!Path[Parent[n]], n)
    BY <1>7, PathIs
  <2> QED BY <1>5, <2>2, <2>3
<1> QED BY <1>6, <1>7

-----------------------------------------------------------------------------

\* What addresses are made of.
Word == Nodes \cup UNION {Tools[n] : n \in Nodes}

\* The address of a node, or its end; and the address of a method.
NodeAddress(a) == a \in Seq(Nodes) /\ a # <<>> /\ Routes!IsSuffix(a, Routes!Path[a[Len(a)]])
ToolAddress(a) == \E n \in Nodes : \E tool \in Tools[n] : a = Append(Routes!Path[n], tool)

\* Requests ask for a node or for a method.
LEMMA AddressKinds ==
  \A a \in Addresses : a \in Seq(Word) /\ (NodeAddress(a) \/ ToolAddress(a))
<1> SUFFICES ASSUME NEW a \in Addresses
             PROVE  a \in Seq(Word) /\ (NodeAddress(a) \/ ToolAddress(a))
  OBVIOUS
<1>1. CASE /\ a \in Seq(Nodes) \ {<<>>}
           /\ \E n \in Nodes : Routes!IsSuffix(a, Routes!Path[n])
  <2>1. PICK n \in Nodes : Routes!IsSuffix(a, Routes!Path[n])
    BY <1>1
  <2>2. a[Len(a)] = n
    BY <1>1, <2>1, PathFacts, SuffixFacts
  <2>3. a \in Seq(Word)
    BY <1>1 DEF Word
  <2> QED BY <1>1, <2>1, <2>2, <2>3 DEF NodeAddress
<1>2. CASE \E n \in Nodes : \E tool \in Tools[n] : a = Append(Routes!Path[n], tool)
  <2>1. PICK n \in Nodes : \E tool \in Tools[n] : a = Append(Routes!Path[n], tool)
    BY <1>2
  <2>2. PICK tool \in Tools[n] : a = Append(Routes!Path[n], tool)
    BY <2>1
  <2>3. Routes!Path[n] \in Seq(Word) /\ tool \in Word
    BY <2>1, <2>2, PathFacts DEF Word
  <2> QED BY <1>2, <2>2, <2>3 DEF ToolAddress
<1> QED BY <1>1, <1>2, AddressesAssumption

\* Below a node an address has a name more.
LEMMA BelowFacts ==
  ASSUME NEW a \in Seq(Word), NEW n \in Nodes
  PROVE  /\ Routes!Below(a, n) <=> /\ Len(Routes!Path[n]) < Len(a)
                                   /\ \A i \in 1..Len(Routes!Path[n]) : Routes!Path[n][i] = a[i]
         /\ Routes!Below(a, n) =>
              /\ Len(Routes!Path[n]) + 1 \in 1..Len(a)
              /\ Head(Routes!Remaining(a, n)) = a[Len(Routes!Path[n]) + 1]
<1> DEFINE path == Routes!Path[n]
<1>1. path \in Seq(Nodes) /\ path \in Seq(Word)
  BY PathFacts DEF Word
<1> HIDE DEF path
<1>2. Routes!IsStrictPrefix(path, a) <=> Len(path) < Len(a) /\ \A i \in 1..Len(path) : path[i] = a[i]
  BY <1>1, PrefixFacts
<1>3. ASSUME Len(path) < Len(a)
      PROVE  /\ Len(path) + 1 \in 1..Len(a)
             /\ Head(SubSeq(a, Len(path) + 1, Len(a))) = a[Len(path) + 1]
  BY <1>1, <1>3
<1> QED BY <1>2, <1>3 DEF Routes!Below, Routes!Remaining, path

\* The next address of the address of a node has no method at its end.
LEMMA NodesHaveNoMethod ==
  ASSUME NEW a \in Seq(Nodes), a # <<>>, NEW n \in Nodes
  PROVE  ~Routes!IsMethod(n, a)
<1>1. a \in Seq(Word)
  BY DEF Word
<1>2. \A p \in Seq(Nodes), m \in Nodes : Append(p, m)[Len(Append(p, m))] = m
  OBVIOUS
<1>3. /\ Routes!Path[n] \in Seq(Nodes) /\ Routes!Path[n] # <<>> /\ Leader \in Nodes
      /\ a[Len(a)] \in Nodes
  BY PathFacts, NetworkAssumption
<1>4. Routes!NextAddress(n, a)[Len(Routes!NextAddress(n, a))] \in Nodes
  <2>1. CASE Routes!Below(a, n)
    <3>1. Head(Routes!Remaining(a, n)) \in Nodes
      BY <1>1, <2>1, BelowFacts
    <3> QED BY <1>2, <1>3, <2>1, <3>1 DEF Routes!NextAddress
  <2>2. CASE ~Routes!Below(a, n) /\ a = Routes!Path[n]
    BY <1>3, <2>2 DEF Routes!NextAddress
  <2>3. CASE ~Routes!Below(a, n) /\ a # Routes!Path[n]
    BY <1>3, <2>3 DEF Routes!NextAddress
  <2> QED BY <2>1, <2>2, <2>3
<1> QED BY <1>4, NetworkAssumption, RoutingLibrary DEF Routes!IsMethod

\* A method is found at its node only.
LEMMA MethodOfItsNode ==
  ASSUME NEW m \in Nodes, NEW tool \in Tools[m], NEW n \in Nodes,
         Routes!IsMethod(n, Append(Routes!Path[m], tool))
  PROVE  n = m
<1> DEFINE a == Append(Routes!Path[m], tool)
           last == Len(Routes!Path[m]) + 1
<1>1. /\ Routes!Path[m] \in Seq(Nodes) /\ Routes!Path[m] # <<>>
      /\ Routes!Path[n] \in Seq(Nodes) /\ Routes!Path[n] # <<>>
      /\ tool \notin Nodes /\ Leader \in Nodes
  BY PathFacts, NetworkAssumption
<1>2. /\ a \in Seq(Word) /\ Len(a) = last /\ a[last] = tool
      /\ \A i \in 1..last : i # last => a[i] = Routes!Path[m][i] /\ a[i] \in Nodes
  <2>1. Routes!Path[m] \in Seq(Word) /\ tool \in Word
    BY <1>1 DEF Word
  <2> QED BY <1>1, <2>1
<1> HIDE DEF a
<1>3. Routes!NextAddress(n, a)[Len(Routes!NextAddress(n, a))] \in Tools[n]
  BY RoutingLibrary DEF Routes!IsMethod, a
<1>4. \A x \in Nodes : x \notin Tools[n]
  BY NetworkAssumption
<1>5. Routes!Below(a, n)
  <2>1. CASE ~Routes!Below(a, n) /\ a = Routes!Path[n]
    <3>1. a[Len(a)] \in Nodes
      BY <1>1, <2>1
    <3> QED BY <1>1, <1>2, <3>1
  <2>2. CASE ~Routes!Below(a, n) /\ a # Routes!Path[n]
    <3>1. Routes!NextAddress(n, a) = <<Leader>>
      BY <2>2 DEF Routes!NextAddress
    <3> QED BY <1>1, <1>3, <1>4, <3>1
  <2> QED BY <2>1, <2>2
<1> DEFINE next == Head(Routes!Remaining(a, n))
           at1 == Len(Routes!Path[n]) + 1
<1>6. /\ at1 \in 1..last /\ next = a[at1]
      /\ \A i \in 1..Len(Routes!Path[n]) : Routes!Path[n][i] = a[i]
  BY <1>2, <1>5, BelowFacts
<1>7. next \in Tools[n]
  <2>1. Routes!NextAddress(n, a) = Append(Routes!Path[n], next)
    BY <1>5 DEF Routes!NextAddress
  <2> HIDE DEF next
  <2>2. \A x : \A p \in Seq(Nodes) : Append(p, x)[Len(Append(p, x))] = x
    OBVIOUS
  <2> QED BY <1>1, <1>3, <2>1, <2>2
<1>8. at1 = last
  BY <1>2, <1>4, <1>6, <1>7
<1>9. Routes!Path[n][Len(Routes!Path[n])] = Routes!Path[m][Len(Routes!Path[m])]
  <2>1. Len(Routes!Path[n]) = Len(Routes!Path[m]) /\ Len(Routes!Path[n]) \in Nat \ {0}
    BY <1>1, <1>8
  <2> QED BY <1>2, <1>6, <2>1
<1> QED BY <1>9, PathFacts

-----------------------------------------------------------------------------

Request == [status : Routes!Status, asked : Seq(Word), address : Seq(Word), at : Nodes,
            life : 0..MaxLives, unwrapped : BOOLEAN, been : SUBSET (Nodes \X Seq(Word))]

TreeTypes ==
  /\ routeUp \subseteq Nodes /\ routeLife \in [Nodes -> 0..MaxLives]
  /\ routeChildren \in [Nodes -> [Nodes -> 0..MaxLives]]
  /\ registry \in Seq(Routes!Entry)
  \* Nobody is the child of another node than its parent.
  /\ \A p, n \in Nodes : routeChildren[p][n] # 0 => n # Leader /\ Parent[n] = p

RoutingTypes == TreeTypes /\ route \in [Requests -> Request]

\* A request for a node is run there, and asks for it under any address.
RunsNode(q) ==
  /\ NodeAddress(q.asked) /\ q.address \in Seq(Nodes) /\ q.address # <<>>
  /\ q.address[Len(q.address)] = q.asked[Len(q.asked)]
  /\ q.unwrapped => q.at = q.address[Len(q.address)]
  /\ q.status = "done" => q.at = q.asked[Len(q.asked)]

\* A request for a method keeps its address, and no node takes it for its own.
RunsMethod(q) ==
  /\ q.address = q.asked /\ ~q.unwrapped /\ q.status # "searching"
  /\ \E m \in Nodes : \E tool \in Tools[m] :
       /\ q.asked = Append(Routes!Path[m], tool)
       /\ q.status = "done" => q.at = m

RoutedRight == \A r \in Requests :
  route[r].status = "idle" \/ RunsNode(route[r]) \/ RunsMethod(route[r])

RoutingInv == RoutingTypes /\ RoutedRight

\* The initial states satisfy the invariant.
LEMMA RoutingInitInv == Routes!Init => RoutingInv
<1> SUFFICES ASSUME Routes!Init PROVE RoutingInv
  OBVIOUS
<1>1. Routes!NoRequest \in Request /\ Routes!NoRequest.status = "idle"
  BY NetworkAssumption DEF Routes!NoRequest, Request, Routes!Status
<1>2. TreeTypes
  BY NetworkAssumption DEF Routes!Init, TreeTypes
<1>3. route \in [Requests -> Request] /\ \A r \in Requests : route[r].status = "idle"
  BY <1>1 DEF Routes!Init
<1> QED BY <1>2, <1>3 DEF RoutingInv, RoutingTypes, RoutedRight

\* The steps of the tree leave the requests alone.
LEMMA TreeSteps ==
  ASSUME TreeTypes,
         \/ \E n \in Nodes : \/ Routes!Start(n) \/ Routes!ChildRegister(n)
                             \/ Routes!Commit(n) \/ Routes!Crash(n)
         \/ \E p, n \in Nodes : Routes!RemoveChild(p, n)
         \/ \E i \in DOMAIN registry : Routes!RemoveEntry(i)
  PROVE  TreeTypes' /\ UNCHANGED route
<1> USE DEF TreeTypes
<1>1. ASSUME NEW n \in Nodes, Routes!Start(n) PROVE TreeTypes' /\ UNCHANGED route
  <2>1. /\ routeLife' = [routeLife EXCEPT ![n] = @ + 1] /\ routeLife[n] < MaxLives
        /\ routeUp' \subseteq Nodes /\ UNCHANGED <<routeChildren, registry, route>>
    BY <1>1 DEF Routes!Start
  <2>2. routeLife[n] + 1 \in 0..MaxLives
    <3>1. \A x \in 0..MaxLives : x < MaxLives => x + 1 \in 0..MaxLives
      BY NetworkAssumption
    <3>2. routeLife[n] \in 0..MaxLives
      OBVIOUS
    <3> QED BY <2>1, <3>1, <3>2
  <2>3. routeLife' \in [Nodes -> 0..MaxLives]
    BY <2>1, <2>2
  <2> QED BY <2>1, <2>3
<1>2. ASSUME NEW n \in Nodes, Routes!ChildRegister(n) PROVE TreeTypes' /\ UNCHANGED route
  <2>1. /\ n # Leader /\ Parent[n] \in Nodes
        /\ routeChildren' = [routeChildren EXCEPT ![Parent[n]][n] = routeLife[n]]
        /\ UNCHANGED <<routeUp, routeLife, registry, route>>
    BY <1>2, NetworkAssumption DEF Routes!ChildRegister, Routes!Others
  <2>2. routeChildren' \in [Nodes -> [Nodes -> 0..MaxLives]]
    BY <2>1
  <2>3. \A p, m \in Nodes : routeChildren'[p][m] = routeChildren[p][m] \/ (p = Parent[n] /\ m = n)
    BY <2>1
  <2> QED BY <2>1, <2>2, <2>3, ZenonT(40)
<1>3. ASSUME NEW n \in Nodes, Routes!Commit(n) PROVE TreeTypes' /\ UNCHANGED route
  <2> DEFINE entry == [node |-> n, life |-> routeLife[n]]
  <2>1. entry \in Routes!Entry
    BY DEF Routes!Entry
  <2>2. registry' = <<entry>> \o registry /\ UNCHANGED <<routeUp, routeLife, routeChildren, route>>
    BY <1>3 DEF Routes!Commit
  <2> HIDE DEF entry
  <2>3. registry' \in Seq(Routes!Entry)
    BY <2>1, <2>2
  <2> QED BY <2>2, <2>3
<1>4. ASSUME NEW n \in Nodes, Routes!Crash(n) PROVE TreeTypes' /\ UNCHANGED route
  <2>1. /\ routeChildren' = [routeChildren EXCEPT ![n] = [m \in Nodes |-> 0]]
        /\ routeUp' \subseteq Nodes /\ UNCHANGED <<routeLife, registry, route>>
    BY <1>4 DEF Routes!Crash
  <2>2. /\ routeChildren' \in [Nodes -> [Nodes -> 0..MaxLives]]
        /\ \A p, m \in Nodes : routeChildren'[p][m] \in {routeChildren[p][m], 0}
    <3>1. 0 \in 0..MaxLives
      BY NetworkAssumption
    <3>2. [m \in Nodes |-> 0] \in [Nodes -> 0..MaxLives]
      BY <3>1
    <3>3. \A p \in Nodes : routeChildren'[p] = IF p = n THEN [m \in Nodes |-> 0] ELSE routeChildren[p]
      BY <2>1
    <3> QED BY <2>1, <3>2, <3>3
  <2> QED BY <2>1, <2>2
<1>5. ASSUME NEW p \in Nodes, NEW n \in Nodes, Routes!RemoveChild(p, n)
      PROVE  TreeTypes' /\ UNCHANGED route
  <2>1. /\ routeChildren' = [routeChildren EXCEPT ![p][n] = 0]
        /\ UNCHANGED <<routeUp, routeLife, registry, route>>
    BY <1>5 DEF Routes!RemoveChild
  <2>2. /\ routeChildren' \in [Nodes -> [Nodes -> 0..MaxLives]]
        /\ \A o, m \in Nodes : routeChildren'[o][m] \in {routeChildren[o][m], 0}
    <3>1. 0 \in 0..MaxLives
      BY NetworkAssumption
    <3> QED BY <2>1, <3>1
  <2> QED BY <2>1, <2>2
<1>6. ASSUME NEW i \in DOMAIN registry, Routes!RemoveEntry(i) PROVE TreeTypes' /\ UNCHANGED route
  <2>1. /\ registry' = SubSeq(registry, 1, i - 1) \o SubSeq(registry, i + 1, Len(registry))
        /\ UNCHANGED <<routeUp, routeLife, routeChildren, route>>
    BY <1>6 DEF Routes!RemoveEntry, Routes!RemoveAt
  <2>2. ASSUME NEW S, NEW q \in Seq(S), NEW j \in DOMAIN q
        PROVE  SubSeq(q, 1, j - 1) \o SubSeq(q, j + 1, Len(q)) \in Seq(S)
    <3>1. SubSeq(q, 1, j - 1) \in Seq(S) /\ SubSeq(q, j + 1, Len(q)) \in Seq(S)
      OBVIOUS
    <3> QED BY <3>1
  <2> QED BY <2>1, <2>2
<1> QED BY <1>1, <1>2, <1>3, <1>4, <1>5, <1>6

\* What the chain of resolvers answers.
LEMMA ResolvedFacts ==
  ASSUME TreeTypes, NEW n \in Nodes, NEW a \in Seq(Word), a # <<>>,
         NEW answer, answer = Routes!Resolved(n, a)
  PROVE  /\ answer.kind \in {"hop", "own", "notFound", "search"}
         /\ answer.kind = "own" => n # Leader /\ Routes!IsMethod(n, a)
         /\ answer.kind = "search" => a[1] # Leader /\ ~Routes!Below(a, n) /\ n = Leader
         /\ answer.kind = "hop" =>
              /\ answer.node \in Nodes /\ answer.life \in 0..MaxLives
              /\ \/ answer.node = Leader /\ n # Leader /\ ~Routes!Below(a, n)
                 \/ /\ n = Leader \/ Routes!Below(a, n)
                    /\ answer.node = Head(Routes!Remaining(a, n))
                    /\ routeChildren[n][answer.node] # 0
<1> DEFINE child == Head(Routes!Remaining(a, n))
<1>1. CASE Routes!IsMethod(n, a)
  <2>1. answer = [kind |-> IF n = Leader THEN "notFound" ELSE "own"]
    BY <1>1 DEF Routes!Resolved
  <2> QED BY <1>1, <2>1
<1>2. CASE ~Routes!IsMethod(n, a) /\ n # Leader /\ ~Routes!Below(a, n)
  <2>1. answer = [kind |-> "hop", node |-> Leader, life |-> 1]
    BY <1>2 DEF Routes!Resolved, Routes!Fallback
  <2> QED BY <1>2, <2>1, NetworkAssumption
<1>3. CASE /\ ~Routes!IsMethod(n, a) /\ ~(n # Leader /\ ~Routes!Below(a, n))
           /\ Routes!IsChild(n, child)
  <2>1. answer = [kind |-> "hop", node |-> child, life |-> routeChildren[n][child]]
    BY <1>3 DEF Routes!Resolved
  <2>2. child \in Nodes /\ routeChildren[n][child] # 0
    BY <1>3 DEF Routes!IsChild
  <2> HIDE DEF child
  <2>3. routeChildren[n][child] \in 0..MaxLives
    BY <2>2 DEF TreeTypes
  <2> QED BY <1>3, <2>1, <2>2, <2>3 DEF child
<1>4. CASE /\ ~Routes!IsMethod(n, a) /\ ~(n # Leader /\ ~Routes!Below(a, n))
           /\ ~Routes!IsChild(n, child)
  <2>1. answer = [kind |-> IF Head(a) = Leader THEN "notFound" ELSE "search"]
    BY <1>4 DEF Routes!Resolved
  <2>2. Head(a) = a[1]
    OBVIOUS
  <2>3. Routes!Below(a, n) => a[1] = Leader
    <3>1. 1 \in 1..Len(Routes!Path[n]) /\ Routes!Path[n][1] = Leader
      BY PathFacts
    <3> QED BY <3>1, BelowFacts
  <2> QED BY <1>4, <2>1, <2>2, <2>3
<1> QED BY <1>1, <1>2, <1>3, <1>4

\* A step that changes one request keeps the others as they are.
LEMMA OneRequestChanges ==
  ASSUME RoutingInv, NEW r \in Requests, NEW q \in Request, route' = [route EXCEPT ![r] = q],
         UNCHANGED <<routeUp, routeLife, routeChildren, registry>>,
         q.status = "idle" \/ RunsNode(q) \/ RunsMethod(q)
  PROVE  RoutingInv'
<1>1. /\ route' \in [Requests -> Request]
      /\ \A s \in Requests : route'[s] = IF s = r THEN q ELSE route[s]
  BY DEF RoutingInv, RoutingTypes
<1>2. RoutingTypes'
  BY <1>1 DEF RoutingInv, RoutingTypes, TreeTypes
<1>3. ASSUME NEW s \in Requests
      PROVE  route'[s].status = "idle" \/ RunsNode(route'[s]) \/ RunsMethod(route'[s])
  BY <1>1 DEF RoutingInv, RoutedRight
<1>4. RoutedRight'
  BY <1>3 DEF RoutedRight, RunsNode, RunsMethod
<1> QED BY <1>2, <1>4 DEF RoutingInv

\* What forward() makes of a request.
LEMMA ForwardFacts ==
  ASSUME RoutingTypes, NEW r \in Requests, NEW from \in Nodes, NEW n \in Nodes,
         NEW l \in 0..MaxLives, NEW a \in Seq(Word), Routes!Forward(r, from, n, l, a)
  PROVE  \E q \in Request :
           /\ route' = [route EXCEPT ![r] = q]
           /\ q.status = IF <<n, a>> \in q.been THEN "circling" ELSE "sent"
           /\ q.asked = route[r].asked /\ q.address = a /\ q.at = n
           /\ q.unwrapped => a[Len(a)] = n
           /\ q.been = route[r].been \cup {<<from, route[r].address>>}
<1> DEFINE been == route[r].been \cup {<<from, route[r].address>>}
           status == IF <<n, a>> \in been THEN "circling" ELSE "sent"
           unwrapped == route[r].been # {} /\ Routes!IsDestination(n, a)
           q == [route[r] EXCEPT !.address = a, !.status = status, !.at = n, !.life = l,
                                 !.been = been, !.unwrapped = unwrapped]
<1>1. route[r] \in Request
  BY DEF RoutingTypes
<1>2. route' = [route EXCEPT ![r] = q]
  BY DEF Routes!Forward, Routes!Prepared
<1>3. been \in SUBSET (Nodes \X Seq(Word))
  BY <1>1 DEF Request
<1>4. status \in Routes!Status
  BY DEF Routes!Status
<1>5. unwrapped \in BOOLEAN /\ (unwrapped => a[Len(a)] = n)
  BY RoutingLibrary DEF Routes!IsDestination
<1> HIDE DEF been, status, unwrapped
<1>6. /\ q \in Request /\ q.status = status /\ q.asked = route[r].asked /\ q.address = a
      /\ q.at = n /\ q.unwrapped = unwrapped /\ q.been = been
  BY <1>1, <1>3, <1>4, <1>5 DEF Request
<1> HIDE DEF q
<1> QED BY <1>2, <1>5, <1>6 DEF been, status

-----------------------------------------------------------------------------
(* The three steps of a request.                                           *)

\* A request is made: it is for the node that asks, it is sent, it is looked
\* for, or it fails.
LEMMA UseFacts ==
  ASSUME RoutingTypes, NEW r \in Requests, NEW n \in Nodes, NEW a \in Seq(Word), a # <<>>,
         Routes!Use(r, n, a)
  PROVE  /\ UNCHANGED <<routeUp, routeLife, routeChildren, registry>>
         /\ \E q \in Request :
              /\ route' = [route EXCEPT ![r] = q]
              /\ q.asked = a /\ q.address = a /\ ~q.unwrapped
              /\ \/ q.status = "failed"
                 \/ q.status = "done" /\ q.at = n /\ a[Len(a)] = n
                 \/ /\ q.status = "sent" /\ Routes!Resolved(n, a).kind = "hop"
                    /\ q.at = Routes!Resolved(n, a).node /\ q.been = {<<n, a>>}
                    /\ a[Len(a)] # n
                 \/ /\ q.status = "searching" /\ Routes!Resolved(n, a).kind = "search"
                    /\ q.at = n /\ q.been = {}
<1> DEFINE answer == Routes!Resolved(n, a)
           asked == [Routes!NoRequest EXCEPT !.asked = a, !.address = a, !.at = n]
           sent == [asked EXCEPT !.status = "sent", !.at = answer.node, !.life = answer.life,
                                 !.been = {<<n, a>>}]
           other == [asked EXCEPT !.status = IF answer.kind = "search" THEN "searching"
                                             ELSE "failed"]
           q == IF Routes!Last(a) = n THEN [asked EXCEPT !.status = "done"]
                ELSE IF answer.kind = "hop" THEN sent ELSE other
<1>1. route' = [route EXCEPT ![r] = q] /\ UNCHANGED <<routeUp, routeLife, routeChildren, registry>>
  BY DEF Routes!Use
<1>2. Routes!Last(a) = a[Len(a)]
  BY RoutingLibrary
<1>3. answer.kind = "hop" => answer.node \in Nodes /\ answer.life \in 0..MaxLives
  BY ResolvedFacts DEF RoutingTypes
<1> HIDE DEF answer
<1>4. 1 \in 0..MaxLives
  BY NetworkAssumption
<1>5. /\ asked \in Request /\ asked.asked = a /\ asked.address = a /\ asked.at = n
      /\ asked.unwrapped = FALSE /\ asked.been = {}
  <2>1. /\ Routes!NoRequest \in Request /\ Routes!NoRequest.unwrapped = FALSE
        /\ Routes!NoRequest.been = {}
    BY <1>4, NetworkAssumption DEF Routes!NoRequest, Request, Routes!Status
  <2> QED BY <2>1 DEF Request
<1> HIDE DEF asked
<1>6. {<<n, a>>} \in SUBSET (Nodes \X Seq(Word))
  OBVIOUS
<1>7. CASE Routes!Last(a) = n
  <2>1. q = [asked EXCEPT !.status = "done"]
    BY <1>7
  <2>2. q \in Request /\ q.status = "done" /\ q.asked = a /\ q.address = a /\ q.at = n /\ ~q.unwrapped
    BY <1>5, <2>1 DEF Request, Routes!Status
  <2> HIDE DEF q
  <2> QED BY <1>1, <1>2, <1>7, <2>2
<1>8. CASE Routes!Last(a) # n /\ answer.kind = "hop"
  <2>1. q = sent
    BY <1>8
  <2>2. /\ q \in Request /\ q.status = "sent" /\ q.asked = a /\ q.address = a
        /\ q.at = answer.node /\ ~q.unwrapped /\ q.been = {<<n, a>>}
    BY <1>3, <1>5, <1>6, <1>8, <2>1 DEF Request, Routes!Status
  <2> HIDE DEF q
  <2> QED BY <1>1, <1>2, <1>8, <2>2 DEF answer
<1>9. CASE Routes!Last(a) # n /\ answer.kind # "hop"
  <2>1. q = other
    BY <1>9
  <2>2. /\ q \in Request /\ q.asked = a /\ q.address = a /\ q.at = n /\ ~q.unwrapped
        /\ q.been = {}
        /\ q.status = IF answer.kind = "search" THEN "searching" ELSE "failed"
    BY <1>5, <2>1 DEF Request, Routes!Status
  <2> HIDE DEF q
  <2> QED BY <1>1, <2>2 DEF answer
<1> QED BY <1>7, <1>8, <1>9

\* A request keeps everything but its status and its place.
Moved(q, old) == q.asked = old.asked /\ q.address = old.address /\ q.unwrapped = old.unwrapped
                 /\ q.been = old.been

\* A request arrives: it fails, is done here, is looked for, or goes on.
LEMMA ArriveFacts ==
  ASSUME RoutingTypes, NEW r \in Requests, route[r].address # <<>>, Routes!Arrive(r),
         NEW n, n = route[r].at, NEW a, a = route[r].address
  PROVE  /\ UNCHANGED <<routeUp, routeLife, routeChildren, registry>>
         /\ route[r].status = "sent"
         /\ \/ \E q \in Request :
                 /\ route' = [route EXCEPT ![r] = q] /\ Moved(q, route[r])
                 /\ \/ q.status = "failed" /\ q.at = n
                    \/ /\ q.status = "done" /\ q.at = n
                       /\ \/ route[r].unwrapped \/ Routes!RouteToSelf(n, a)
                          \/ Routes!IsMethod(n, a)
                    \/ /\ q.status = "searching" /\ q.at = n
                       /\ Routes!Resolved(n, a).kind = "search"
            \/ /\ ~route[r].unwrapped /\ ~Routes!RouteToSelf(n, a)
               /\ Routes!Resolved(n, a).kind = "hop"
               /\ Routes!Forward(r, n, Routes!Resolved(n, a).node,
                                 Routes!Resolved(n, a).life, a)
<1> DEFINE failed == [route[r] EXCEPT !.status = "failed"]
           done == [route[r] EXCEPT !.status = "done", !.at = n]
           lookedFor == [route[r] EXCEPT !.status = "searching", !.at = n]
<1>1. route[r] \in Request /\ n \in Nodes /\ a \in Seq(Word) /\ a # <<>>
  BY DEF RoutingTypes, Request
<1>2. /\ UNCHANGED <<routeUp, routeLife, routeChildren, registry>>
      /\ route[r].status = "sent"
      /\ IF ~Routes!Reaches(r) THEN Routes!Fails(r)
         ELSE IF route[r].unwrapped \/ Routes!RouteToSelf(n, a) THEN Routes!Done(r, n)
         ELSE Routes!Route(r, n, a)
  BY DEF Routes!Arrive
<1>3. /\ failed \in Request /\ failed.status = "failed" /\ Moved(failed, route[r])
      /\ failed.at = n
  BY <1>1 DEF Request, Routes!Status, Moved
<1>4. done \in Request /\ done.status = "done" /\ done.at = n /\ Moved(done, route[r])
  BY <1>1 DEF Request, Routes!Status, Moved
<1>5. /\ lookedFor \in Request /\ lookedFor.status = "searching" /\ lookedFor.at = n
      /\ Moved(lookedFor, route[r])
  BY <1>1 DEF Request, Routes!Status, Moved
<1>6. /\ Routes!Fails(r) => route' = [route EXCEPT ![r] = failed]
      /\ Routes!Done(r, n) => route' = [route EXCEPT ![r] = done]
  BY DEF Routes!Fails, Routes!Done
<1> DEFINE answer == Routes!Resolved(n, a)
<1>7. ASSUME Routes!Route(r, n, a)
      PROVE  \/ answer.kind = "hop" /\ Routes!Forward(r, n, answer.node, answer.life, a)
             \/ answer.kind = "own" /\ Routes!Done(r, n)
             \/ Routes!Fails(r)
             \/ answer.kind = "search" /\ route' = [route EXCEPT ![r] = lookedFor]
  <2>1. answer.kind \in {"hop", "own", "notFound", "search"}
    BY <1>1, ResolvedFacts DEF RoutingTypes
  <2> QED BY <1>7, <2>1 DEF Routes!Route
<1>8. answer.kind = "own" => Routes!IsMethod(n, a)
  BY <1>1, ResolvedFacts DEF RoutingTypes
<1> HIDE DEF failed, done, lookedFor
<1>9. CASE ~Routes!Reaches(r)
  BY <1>2, <1>3, <1>6, <1>9
<1>10. CASE Routes!Reaches(r) /\ (route[r].unwrapped \/ Routes!RouteToSelf(n, a))
  BY <1>2, <1>4, <1>6, <1>10
<1>11. CASE Routes!Reaches(r) /\ ~(route[r].unwrapped \/ Routes!RouteToSelf(n, a))
  <2>1. Routes!Route(r, n, a)
    BY <1>2, <1>11
  <2>2. CASE answer.kind = "hop" /\ Routes!Forward(r, n, answer.node, answer.life, a)
    BY <1>2, <1>11, <2>2
  <2>3. CASE answer.kind = "own" /\ Routes!Done(r, n)
    BY <1>2, <1>4, <1>6, <1>8, <2>3
  <2>4. CASE Routes!Fails(r)
    BY <1>2, <1>3, <1>6, <2>4
  <2>5. CASE answer.kind = "search" /\ route' = [route EXCEPT ![r] = lookedFor]
    BY <1>2, <1>5, <2>5
  <2> QED BY <1>7, <2>1, <2>2, <2>3, <2>4, <2>5
<1> QED BY <1>9, <1>10, <1>11

\* The registry answers with an entry for the address, or the request fails.
LEMMA SearchFacts ==
  ASSUME RoutingTypes, NEW r \in Requests, NEW answered \in BOOLEAN,
         Routes!Searched(r, answered), NEW a, a = route[r].address, a # <<>>
  PROVE  /\ UNCHANGED <<routeUp, routeLife, routeChildren, registry>>
         /\ route[r].status = "searching"
         /\ \/ \E q \in Request :
                 /\ route' = [route EXCEPT ![r] = q] /\ Moved(q, route[r])
                 /\ q.status = "failed" /\ q.at = route[r].at
            \/ \E entry \in Routes!Entry :
                 LET target == Routes!FoundAddress(entry, a)
                     hop == Routes!NextHop(entry, target)
                 IN  /\ Routes!Path[entry.node] = a \/ entry.node = a[1]
                     /\ Routes!Forward(r, Leader, hop.node, hop.life, target)
<1> DEFINE S == {e \in Routes!Entry : Routes!Path[e.node] = a \/ e.node = Head(a)}
           found == Filter(registry, S)
           failed == [route[r] EXCEPT !.status = "failed"]
<1>1. route[r] \in Request /\ a \in Seq(Word) /\ registry \in Seq(Routes!Entry)
  BY DEF RoutingTypes, TreeTypes, Request
<1>2. Routes!Found(a) = found
  BY RoutingLibrary DEF Routes!Found
<1>3. found \in Seq(Routes!Entry \cap S)
  BY <1>1, FilterKeeps
<1>4. /\ failed \in Request /\ failed.status = "failed" /\ Moved(failed, route[r])
      /\ failed.at = route[r].at
  BY <1>1 DEF Request, Routes!Status, Moved
<1> HIDE DEF found
<1>5. /\ UNCHANGED <<routeUp, routeLife, routeChildren, registry>>
      /\ route[r].status = "searching"
      /\ IF ~answered \/ found = <<>> THEN Routes!Fails(r)
         ELSE LET target == Routes!FoundAddress(Head(found), a)
                  hop == Routes!NextHop(Head(found), target)
              IN  Routes!Forward(r, Leader, hop.node, hop.life, target)
  BY <1>2, Zenon DEF Routes!Searched
<1>6. CASE ~answered \/ found = <<>>
  BY <1>4, <1>5, <1>6 DEF Routes!Fails
<1>7. CASE ~(~answered \/ found = <<>>)
  <2>1. Head(found) \in Routes!Entry \cap S
    BY <1>3, <1>7
  <2>2. Routes!Path[Head(found).node] = a \/ Head(found).node = a[1]
    BY <1>1, <2>1
  <2> QED BY <1>5, <1>7, <2>1, <2>2
<1> QED BY <1>6, <1>7

\* The address found ends like the one looked for, from the leader on; the
\* request goes to the node found or to the first node on the way.
LEMMA TargetFacts ==
  ASSUME TreeTypes, NEW a \in Seq(Word), a # <<>>, NEW entry \in Routes!Entry,
         Routes!Path[entry.node] = a \/ entry.node = a[1],
         NEW target, target = Routes!FoundAddress(entry, a),
         NEW hop, hop = Routes!NextHop(entry, target)
  PROVE  /\ target \in Seq(Word) /\ target # <<>> /\ target[1] = Leader
         /\ target[Len(target)] = a[Len(a)]
         /\ a \in Seq(Nodes) => target \in Seq(Nodes)
         /\ target = Routes!Path[entry.node] \/ target = Routes!Path[entry.node] \o Tail(a)
         /\ hop.node \in Nodes /\ hop.life \in 0..MaxLives
         /\ LET first == Routes!Last(Routes!NextAddress(Leader, target)) IN
            \/ hop.node = first /\ routeChildren[Leader][first] # 0
            \/ hop.node = entry.node
<1> DEFINE path == Routes!Path[entry.node]
<1>1. entry.node \in Nodes /\ entry.life \in 0..MaxLives
  BY DEF Routes!Entry
<1>2. /\ path \in Seq(Nodes) /\ path # <<>> /\ path[1] = Leader
      /\ path[Len(path)] = entry.node
  BY <1>1, PathFacts
<1> HIDE DEF path
<1>3. path \in Seq(Word) /\ Tail(a) \in Seq(Word)
  BY <1>2 DEF Word
<1>4. target = path \/ target = path \o Tail(a)
  BY DEF Routes!FoundAddress, path
<1> DEFINE tail == Tail(a)
<1>a. \A W : \A t \in Seq(W) : path \in Seq(W) =>
        /\ path \o t \in Seq(W) /\ path \o t # <<>> /\ (path \o t)[1] = path[1]
        /\ t = <<>> => path \o t = path
  BY <1>2
<1>b. tail \in Seq(Word) /\ (a \in Seq(Nodes) => tail \in Seq(Nodes))
  BY <1>3
<1>c. target = path \/ target = path \o tail
  BY <1>4
<1>d. tail = <<>> => Len(a) = 1
  <2>1. Len(tail) = Len(a) - 1 /\ Len(a) \in Nat
    BY HeadTailProperties, LenProperties
  <2> HIDE DEF tail
  <2>2. Len(<<>>) = 0
    OBVIOUS
  <2>3. tail = <<>> => Len(tail) = 0
    BY <2>2, Zenon
  <2>4. Len(tail) = 0 => Len(a) = 1
    BY <2>1
  <2> QED BY <2>3, <2>4, Zenon
<1> HIDE DEF tail
<1>5. target \in Seq(Word) /\ target # <<>> /\ target[1] = Leader
  BY <1>2, <1>3, <1>a, <1>b, <1>c
<1>6. a \in Seq(Nodes) => target \in Seq(Nodes)
  BY <1>2, <1>a, <1>b, <1>c
<1>7. target[Len(target)] = a[Len(a)]
  <2>1. CASE Tail(a) = <<>>
    <3>1. target = path
      <4>1. tail = <<>>
        BY <2>1 DEF tail
      <4>2. path \o tail = path
        BY <1>3, <1>b, <4>1, <1>a
      <4> QED BY <1>c, <4>2
    <3>2. Len(a) = 1
      BY <1>d, <2>1 DEF tail
    <3> QED BY <1>2, <3>1, <3>2 DEF path
  <2>2. CASE Tail(a) # <<>>
    <3>1. Tail(a)[Len(Tail(a))] = a[Len(a)]
      BY <2>2
    <3>2. CASE Routes!IsSuffix(Tail(a), path)
      <4>1. target = path
        BY <3>2 DEF Routes!FoundAddress, path
      <4>2. Tail(a)[Len(Tail(a))] = path[Len(path)]
        BY <1>3, <2>2, <3>2, SuffixFacts
      <4> QED BY <3>1, <4>1, <4>2
    <3>3. CASE ~Routes!IsSuffix(Tail(a), path)
      <4>1. target = path \o Tail(a)
        BY <3>3 DEF Routes!FoundAddress, path
      <4>2. \A t \in Seq(Word) : t # <<>> => (path \o t)[Len(path \o t)] = t[Len(t)]
        BY <1>3
      <4> QED BY <1>3, <2>2, <3>1, <4>1, <4>2
    <3> QED BY <3>2, <3>3
  <2> QED BY <2>1, <2>2
<1> DEFINE first == Routes!Last(Routes!NextAddress(Leader, target))
<1>8. CASE Routes!IsChild(Leader, first)
  <2>1. hop = [node |-> first, life |-> routeChildren[Leader][first]]
    BY <1>8 DEF Routes!NextHop
  <2>2. first \in Nodes /\ routeChildren[Leader][first] # 0
    BY <1>8 DEF Routes!IsChild
  <2> HIDE DEF first
  <2>3. routeChildren[Leader][first] \in 0..MaxLives
    BY <2>2, NetworkAssumption DEF TreeTypes
  <2>4. hop.node = first /\ hop.life \in 0..MaxLives
    BY <2>1, <2>3
  <2> QED BY <1>4, <1>5, <1>6, <1>7, <2>2, <2>4 DEF first, path
<1>9. CASE ~Routes!IsChild(Leader, first)
  <2>1. hop = entry
    BY <1>9 DEF Routes!NextHop
  <2> QED BY <1>1, <1>4, <1>5, <1>6, <1>7, <2>1 DEF path
<1> QED BY <1>8, <1>9

\* Every step keeps the invariant.
LEMMA RoutingNextInv == RoutingInv /\ [Routes!Next]_(Routes!vars) => RoutingInv'
<1> SUFFICES ASSUME RoutingInv, [Routes!Next]_(Routes!vars) PROVE RoutingInv'
  OBVIOUS
<1>0. RoutingTypes /\ TreeTypes /\ RoutedRight /\ \A r \in Requests : route[r] \in Request
  BY DEF RoutingInv, RoutingTypes
<1>1. CASE \/ \E n \in Nodes : \/ Routes!Start(n) \/ Routes!ChildRegister(n)
                               \/ Routes!Commit(n) \/ Routes!Crash(n)
           \/ \E p, n \in Nodes : Routes!RemoveChild(p, n)
           \/ \E i \in DOMAIN registry : Routes!RemoveEntry(i)
  <2>1. TreeTypes' /\ UNCHANGED route
    BY <1>0, <1>1, TreeSteps
  <2>2. RoutingTypes'
    BY <1>0, <2>1 DEF RoutingTypes
  <2>3. RoutedRight'
    BY <1>0, <2>1 DEF RoutedRight, RunsNode, RunsMethod
  <2> QED BY <2>2, <2>3 DEF RoutingInv
<1>2. ASSUME NEW r \in Requests, NEW n \in Nodes, NEW a \in Addresses, Routes!Use(r, n, a)
      PROVE  RoutingInv'
  <2>1. a \in Seq(Word) /\ (NodeAddress(a) \/ ToolAddress(a))
    BY AddressKinds
  <2>2. a # <<>>
    <3>1. CASE NodeAddress(a)
      BY <3>1 DEF NodeAddress
    <3>2. CASE ToolAddress(a)
      BY <3>2, PathFacts DEF ToolAddress
    <3> QED BY <2>1, <3>1, <3>2
  <2>3. UNCHANGED <<routeUp, routeLife, routeChildren, registry>>
    BY <1>0, <1>2, <2>1, <2>2, UseFacts
  <2>4. PICK q \in Request :
           /\ route' = [route EXCEPT ![r] = q]
           /\ q.asked = a /\ q.address = a /\ ~q.unwrapped
           /\ \/ q.status = "failed"
              \/ q.status = "done" /\ q.at = n /\ a[Len(a)] = n
              \/ q.status = "sent"
              \/ q.status = "searching" /\ Routes!Resolved(n, a).kind = "search"
    BY <1>0, <1>2, <2>1, <2>2, UseFacts
  <2>5. RunsNode(q) \/ RunsMethod(q)
    <3>1. CASE NodeAddress(a)
      BY <2>4, <3>1 DEF NodeAddress, RunsNode
    <3>2. CASE ToolAddress(a)
      <4>1. PICK m \in Nodes : \E tool \in Tools[m] : a = Append(Routes!Path[m], tool)
        BY <3>2 DEF ToolAddress
      <4>2. PICK tool \in Tools[m] : a = Append(Routes!Path[m], tool)
        BY <4>1
      <4>3. a[Len(a)] = tool /\ a[1] = Leader
        BY <4>2, PathFacts
      <4>4. tool # n
        BY <4>2, NetworkAssumption
      <4>5. Routes!Resolved(n, a).kind # "search"
        BY <1>0, <2>1, <2>2, <4>3, ResolvedFacts
      <4> QED BY <2>4, <4>2, <4>3, <4>4, <4>5 DEF RunsMethod
    <3> QED BY <2>1, <3>1, <3>2
  <2> QED BY <2>3, <2>4, <2>5, OneRequestChanges
<1>3. ASSUME NEW r \in Requests, Routes!Arrive(r) PROVE RoutingInv'
  <2> DEFINE n == route[r].at
             a == route[r].address
             answer == Routes!Resolved(n, a)
  <2>1. route[r].status = "sent" /\ n \in Nodes /\ a \in Seq(Word)
    BY <1>0, <1>3 DEF Routes!Arrive, Request
  <2>2. RunsNode(route[r]) \/ RunsMethod(route[r])
    BY <1>0, <2>1 DEF RoutedRight
  <2>3. a # <<>>
    <3>1. CASE RunsNode(route[r])
      BY <3>1 DEF RunsNode
    <3>2. CASE RunsMethod(route[r])
      BY <3>2, PathFacts DEF RunsMethod
    <3> QED BY <2>2, <3>1, <3>2
  <2>4. /\ UNCHANGED <<routeUp, routeLife, routeChildren, registry>>
        /\ \/ \E q \in Request :
                /\ route' = [route EXCEPT ![r] = q] /\ Moved(q, route[r])
                /\ \/ q.status = "failed" /\ q.at = n
                   \/ /\ q.status = "done" /\ q.at = n
                      /\ \/ route[r].unwrapped \/ Routes!RouteToSelf(n, a)
                         \/ Routes!IsMethod(n, a)
                   \/ q.status = "searching" /\ q.at = n /\ answer.kind = "search"
           \/ /\ answer.kind = "hop"
              /\ Routes!Forward(r, n, answer.node, answer.life, a)
    BY <1>0, <1>3, <2>3, ArriveFacts
  <2>5. PICK q \in Request :
          /\ route' = [route EXCEPT ![r] = q] /\ q.asked = route[r].asked /\ q.address = a
          /\ \/ /\ q.unwrapped = route[r].unwrapped /\ q.at = n
                /\ \/ q.status = "failed"
                   \/ /\ q.status = "done"
                      /\ \/ route[r].unwrapped \/ Routes!RouteToSelf(n, a)
                         \/ Routes!IsMethod(n, a)
                   \/ q.status = "searching" /\ answer.kind = "search"
             \/ /\ q.status \in {"sent", "circling"}
                /\ q.unwrapped => a[Len(a)] = q.at
    <3>1. CASE \E q \in Request :
                /\ route' = [route EXCEPT ![r] = q] /\ Moved(q, route[r])
                /\ \/ q.status = "failed" /\ q.at = n
                   \/ /\ q.status = "done" /\ q.at = n
                      /\ \/ route[r].unwrapped \/ Routes!RouteToSelf(n, a)
                         \/ Routes!IsMethod(n, a)
                   \/ q.status = "searching" /\ q.at = n /\ answer.kind = "search"
      BY <3>1 DEF Moved
    <3>2. CASE /\ answer.kind = "hop"
               /\ Routes!Forward(r, n, answer.node, answer.life, a)
      <4>1. answer.node \in Nodes /\ answer.life \in 0..MaxLives
        BY <1>0, <2>1, <2>3, <3>2, ResolvedFacts
      <4> HIDE DEF answer, n, a
      <4>2. PICK q \in Request :
               /\ route' = [route EXCEPT ![r] = q]
               /\ q.status = IF <<answer.node, a>> \in q.been THEN "circling" ELSE "sent"
               /\ q.asked = route[r].asked /\ q.address = a /\ q.at = answer.node
               /\ q.unwrapped => a[Len(a)] = answer.node
        BY <1>0, <2>1, <3>2, <4>1, ForwardFacts
      <4> QED BY <4>2
    <3> QED BY <2>4, <3>1, <3>2
  <2>6. CASE RunsNode(route[r])
    <3>1. /\ NodeAddress(q.asked) /\ q.address \in Seq(Nodes) /\ q.address # <<>>
          /\ q.address[Len(q.address)] = q.asked[Len(q.asked)]
          /\ route[r].unwrapped => n = a[Len(a)]
      BY <2>5, <2>6 DEF RunsNode
    <3>2. ~Routes!IsMethod(n, a)
      BY <2>1, <2>5, <3>1, NodesHaveNoMethod
    <3>3. Routes!RouteToSelf(n, a) => n = a[Len(a)]
      <4>1. Routes!Path[n][Len(Routes!Path[n])] = n
        BY <2>1, PathFacts
      <4>2. <<n>>[Len(<<n>>)] = n
        OBVIOUS
      <4> HIDE DEF a, n
      <4> QED BY <4>1, <4>2 DEF Routes!RouteToSelf
    <3>4. RunsNode(q)
      BY <2>5, <3>1, <3>2, <3>3 DEF RunsNode
    <3> QED BY <2>4, <2>5, <3>4, OneRequestChanges
  <2>7. CASE RunsMethod(route[r])
    <3>1. PICK m \in Nodes : \E tool \in Tools[m] : a = Append(Routes!Path[m], tool)
      BY <2>7 DEF RunsMethod
    <3>2. PICK tool \in Tools[m] : a = Append(Routes!Path[m], tool)
      BY <3>1
    <3>3. a[Len(a)] = tool /\ a[1] = Leader
      BY <3>2, PathFacts
    <3>4. tool \notin Nodes
      BY <3>2, NetworkAssumption
    <3>5. ~Routes!RouteToSelf(n, a)
      BY <2>1, <3>3, <3>4, PathFacts DEF Routes!RouteToSelf
    <3>6. Routes!IsMethod(n, a) => n = m
      BY <2>1, <3>2, MethodOfItsNode
    <3>7. answer.kind # "search"
      BY <1>0, <2>1, <2>3, <3>3, ResolvedFacts
    <3>8. q.at \in Nodes /\ ~route[r].unwrapped /\ route[r].address = route[r].asked
          /\ q.unwrapped \in BOOLEAN
      BY <2>5, <2>7 DEF RunsMethod, Request
    <3>9. ~q.unwrapped /\ q.status # "searching" /\ (q.status = "done" => q.at = m)
          /\ q.address = q.asked /\ q.asked = a
      BY <2>5, <3>3, <3>4, <3>5, <3>6, <3>7, <3>8
    <3>10. RunsMethod(q)
      BY <3>2, <3>9 DEF RunsMethod
    <3> QED BY <2>4, <2>5, <3>10, OneRequestChanges
  <2> QED BY <2>2, <2>6, <2>7
<1>4. ASSUME NEW r \in Requests, NEW answered \in BOOLEAN, Routes!Searched(r, answered)
      PROVE  RoutingInv'
  <2> DEFINE a == route[r].address
  <2>1. route[r].status = "searching"
    BY <1>4 DEF Routes!Searched
  <2>2. RunsNode(route[r])
    BY <1>0, <2>1 DEF RoutedRight, RunsMethod
  <2>3. a \in Seq(Nodes) /\ a # <<>> /\ a \in Seq(Word)
    BY <2>2 DEF RunsNode, Word
  <2>4. UNCHANGED <<routeUp, routeLife, routeChildren, registry>>
    BY <1>0, <1>4, <2>3, SearchFacts
  <2>5. CASE \E q \in Request :
               /\ route' = [route EXCEPT ![r] = q] /\ Moved(q, route[r])
               /\ q.status = "failed" /\ q.at = route[r].at
    <3>1. PICK q \in Request :
               /\ route' = [route EXCEPT ![r] = q] /\ Moved(q, route[r])
               /\ q.status = "failed" /\ q.at = route[r].at
      BY <2>5
    <3>2. RunsNode(q)
      BY <2>2, <3>1 DEF RunsNode, Moved
    <3> QED BY <2>4, <3>1, <3>2, OneRequestChanges
  <2>6. CASE \E entry \in Routes!Entry :
               LET target == Routes!FoundAddress(entry, a)
                   hop == Routes!NextHop(entry, target)
               IN  /\ Routes!Path[entry.node] = a \/ entry.node = a[1]
                   /\ Routes!Forward(r, Leader, hop.node, hop.life, target)
    <3>1. PICK entry \in Routes!Entry :
               LET target == Routes!FoundAddress(entry, a)
                   hop == Routes!NextHop(entry, target)
               IN  /\ Routes!Path[entry.node] = a \/ entry.node = a[1]
                   /\ Routes!Forward(r, Leader, hop.node, hop.life, target)
      BY <2>6
    <3> DEFINE target == Routes!FoundAddress(entry, a)
               hop == Routes!NextHop(entry, target)
    <3>2. /\ Routes!Path[entry.node] = a \/ entry.node = a[1]
          /\ Routes!Forward(r, Leader, hop.node, hop.life, target)
      BY <3>1
    <3>3. /\ target \in Seq(Nodes) /\ target # <<>> /\ target \in Seq(Word)
          /\ target[Len(target)] = a[Len(a)]
          /\ hop.node \in Nodes /\ hop.life \in 0..MaxLives
      BY <1>0, <2>3, <3>2, TargetFacts
    <3>a. Leader \in Nodes
      BY NetworkAssumption
    <3> HIDE DEF target, hop, a
    <3>4. PICK q \in Request :
             /\ route' = [route EXCEPT ![r] = q]
             /\ q.status = IF <<hop.node, target>> \in q.been THEN "circling" ELSE "sent"
             /\ q.asked = route[r].asked /\ q.address = target /\ q.at = hop.node
             /\ q.unwrapped => target[Len(target)] = hop.node
      BY <1>0, <3>2, <3>3, <3>a, ForwardFacts
    <3>5. RunsNode(q)
      BY <2>2, <3>3, <3>4 DEF RunsNode, a
    <3> QED BY <2>4, <3>4, <3>5, OneRequestChanges
  <2> QED BY <1>0, <1>4, <2>3, <2>5, <2>6, SearchFacts
<1>5. CASE UNCHANGED Routes!vars
  <2>1. TreeTypes' /\ UNCHANGED route
    BY <1>0, <1>5 DEF Routes!vars, TreeTypes
  <2>2. RoutingTypes'
    BY <1>0, <2>1 DEF RoutingTypes
  <2>3. RoutedRight'
    BY <1>0, <2>1 DEF RoutedRight, RunsNode, RunsMethod
  <2> QED BY <2>2, <2>3 DEF RoutingInv
<1> QED BY <1>1, <1>2, <1>3, <1>4, <1>5 DEF Routes!Next

\* What runs a request is the node it asks for, or the node that has the method
\* it asks for: over any tree of nodes, any number of hops, restarts of nodes
\* and entries of nodes that are gone.
THEOREM SpecAnsweredByItsOwner == Routes!Spec => []AnsweredByItsOwner
<1>1. RoutingInv => AnsweredByItsOwner
  <2> SUFFICES ASSUME RoutingInv, NEW r \in Requests, route[r].status = "done"
               PROVE  \/ Routes!IsSuffix(route[r].asked, Routes!Path[route[r].at])
                      \/ \E tool \in Tools[route[r].at] :
                            route[r].asked = Append(Routes!Path[route[r].at], tool)
    BY DEF AnsweredByItsOwner, Routes!AnsweredByItsOwner
  <2>1. RunsNode(route[r]) \/ RunsMethod(route[r])
    BY DEF RoutingInv, RoutedRight
  <2>2. CASE RunsNode(route[r])
    BY <2>2 DEF RunsNode, NodeAddress
  <2>3. CASE RunsMethod(route[r])
    BY <2>3 DEF RunsMethod
  <2> QED BY <2>1, <2>2, <2>3
<1>2. Routes!Spec => []RoutingInv
  BY RoutingInitInv, RoutingNextInv, PTL DEF Routes!Spec
<1> QED BY <1>1, <1>2, PTL

-----------------------------------------------------------------------------
(* Requests that go round.                                                 *)

\* n is on the way to a: its path begins a.
OnWay(n, a) == /\ Len(Routes!Path[n]) <= Len(a)
               /\ \A i \in 1..Len(Routes!Path[n]) : Routes!Path[n][i] = a[i]

\* Who is below an address is on the way to it, and the leader always is.
LEMMA OnWayFacts ==
  ASSUME NEW a \in Seq(Word), NEW n \in Nodes
  PROVE  /\ Routes!Below(a, n) => OnWay(n, a)
         /\ OnWay(n, a) /\ a # Routes!Path[n] => Routes!Below(a, n)
         /\ a # <<>> /\ a[1] = Leader => OnWay(Leader, a)
<1>1. /\ Routes!Path[n] \in Seq(Word) /\ Routes!Path[n] \in Seq(Nodes)
      /\ Routes!Path[Leader] = <<Leader>>
  BY PathFacts, PathIs, NetworkAssumption DEF Word
<1>2. /\ Len(Routes!Path[n]) \in Nat /\ Len(a) \in Nat
      /\ Routes!Below(a, n) <=> /\ Len(Routes!Path[n]) < Len(a)
                                /\ \A i \in 1..Len(Routes!Path[n]) : Routes!Path[n][i] = a[i]
  BY <1>1, BelowFacts
<1>3. ASSUME NEW p \in Seq(Word), Len(p) = Len(a), \A i \in 1..Len(p) : p[i] = a[i] PROVE p = a
  BY <1>3
<1>4. OnWay(n, a) /\ a # Routes!Path[n] => Routes!Below(a, n)
  BY <1>1, <1>2, <1>3 DEF OnWay
<1>5. a # <<>> /\ a[1] = Leader => OnWay(Leader, a)
  <2>1. Len(<<Leader>>) = 1 /\ <<Leader>>[1] = Leader /\ (a # <<>> => 1 <= Len(a))
    OBVIOUS
  <2> QED BY <1>1, <2>1 DEF OnWay
<1> QED BY <1>2, <1>4, <1>5 DEF OnWay

\* The child on the way to a is one further on the way.
LEMMA ChildOnWay ==
  ASSUME NEW a \in Seq(Word), NEW n \in Nodes, NEW c \in Nodes \ {Leader}, Parent[c] = n,
         Routes!Below(a, n), c = Head(Routes!Remaining(a, n))
  PROVE  OnWay(c, a) /\ Len(Routes!Path[n]) < Len(Routes!Path[c])
<1> DEFINE path == Routes!Path[n]
           len == Len(path)
<1>1. path \in Seq(Nodes) /\ len \in Nat
  BY PathFacts
<1>2. /\ len < Len(a) /\ len + 1 \in 1..Len(a) /\ c = a[len + 1]
      /\ \A i \in 1..len : path[i] = a[i]
  BY BelowFacts
<1>3. Routes!Path[c] = Append(path, c)
  BY PathIs
<1> HIDE DEF path
<1>4. /\ Len(Append(path, c)) = len + 1
      /\ \A i \in 1..len + 1 : Append(path, c)[i] = IF i = len + 1 THEN c ELSE path[i]
      /\ \A i \in 1..len + 1 : i # len + 1 => i \in 1..len
  BY <1>1
<1>5. Len(a) \in Nat
  OBVIOUS
<1> HIDE DEF len
<1>6. \A i \in 1..len + 1 : Append(path, c)[i] = a[i]
  BY <1>2, <1>4
<1>7. len + 1 <= Len(a) /\ len < len + 1
  BY <1>1, <1>2, <1>5
<1> QED BY <1>3, <1>4, <1>6, <1>7 DEF OnWay, path, len

\* A name alone is below no node.
LEMMA NameFacts ==
  ASSUME NEW m \in Nodes \ {Leader}, NEW n \in Nodes
  PROVE  /\ <<m>> \in Seq(Word) /\ <<m>> # <<>> /\ <<m>>[1] = m /\ <<m>>[Len(<<m>>)] = m
         /\ ~Routes!Below(<<m>>, n) /\ Head(Routes!Remaining(<<m>>, n)) = m
         /\ Routes!Path[n] # <<m>>
<1>1. <<m>> \in Seq(Word) /\ <<m>> # <<>> /\ <<m>>[1] = m /\ Len(<<m>>) = 1
  BY DEF Word
<1>2. Routes!Path[n][1] = Leader /\ Len(Routes!Path[n]) \in Nat \ {0}
  BY PathFacts
<1>3. ~Routes!Below(<<m>>, n)
  <2>1. Routes!Below(<<m>>, n) => Len(Routes!Path[n]) < Len(<<m>>)
    BY <1>1, BelowFacts
  <2> QED BY <1>1, <1>2, <2>1
<1>4. Head(Routes!Remaining(<<m>>, n)) = m
  BY <1>3 DEF Routes!Remaining
<1> QED BY <1>1, <1>2, <1>3, <1>4

\* A request for a name goes to the leader, and from there to the child.
LEMMA HopByName ==
  ASSUME TreeTypes, NEW n \in Nodes, NEW m \in Nodes \ {Leader},
         NEW a, a = <<m>>, Routes!Resolved(n, a).kind = "hop"
  PROVE  LET to == Routes!Resolved(n, a).node IN
         (n # Leader /\ to = Leader) \/ (n = Leader /\ to = m)
<1>1. a \in Seq(Word) /\ a # <<>> /\ ~Routes!Below(a, n)
      /\ Head(Routes!Remaining(a, n)) = m
  BY NameFacts
<1> QED BY <1>1, ResolvedFacts

\* A request for a whole address goes down one node on the way, or up to the leader.
LEMMA HopByPath ==
  ASSUME TreeTypes, NEW n \in Nodes, NEW a \in Seq(Word), a # <<>>, a[1] = Leader,
         Routes!Resolved(n, a).kind = "hop", a # Routes!Path[n],
         NEW to, to = Routes!Resolved(n, a).node
  PROVE  /\ to \in Nodes /\ OnWay(to, a)
         /\ ~OnWay(n, a) \/ Len(Routes!Path[n]) < Len(Routes!Path[to])
<1>1. /\ to \in Nodes
      /\ \/ to = Leader /\ n # Leader /\ ~Routes!Below(a, n)
         \/ /\ n = Leader \/ Routes!Below(a, n)
            /\ to = Head(Routes!Remaining(a, n)) /\ routeChildren[n][to] # 0
  BY ResolvedFacts
<1>2. CASE to = Leader /\ n # Leader /\ ~Routes!Below(a, n)
  BY <1>1, <1>2, OnWayFacts
<1>3. CASE /\ n = Leader \/ Routes!Below(a, n)
           /\ to = Head(Routes!Remaining(a, n)) /\ routeChildren[n][to] # 0
  <2>1. to # Leader /\ Parent[to] = n
    BY <1>1, <1>3 DEF TreeTypes
  <2>2. Routes!Below(a, n)
    BY <1>3, OnWayFacts
  <2> QED BY <1>1, <1>3, <2>1, <2>2, ChildOnWay
<1> QED BY <1>1, <1>2, <1>3

-----------------------------------------------------------------------------

\* A name, or the whole address of a node or of a method.
Whole(a) == \/ \E m \in Nodes : a = <<m>> \/ a = Routes!Path[m]
            \/ ToolAddress(a)

\* On its way to the leader, or from there to the node with the name.
ByName(q, m) ==
  /\ q.address = <<m>> /\ q.status \in {"sent", "searching"}
  /\ q.at \in {Leader, m} /\ (q.status = "searching" => q.at = Leader)
  /\ \A x \in q.been : x[2] = <<m>> /\ x[1] # m
  /\ q.status = "sent" /\ q.at = Leader => \A x \in q.been : x[1] # Leader

\* On its way down, every node it was at with this address behind it.
ByPath(q) ==
  /\ q.status = "sent" /\ q.address # <<>> /\ q.address[1] = Leader /\ OnWay(q.at, q.address)
  /\ \A x \in q.been : x[2] = q.address =>
       ~OnWay(x[1], q.address) \/ Len(Routes!Path[x[1]]) < Len(Routes!Path[q.at])

Goes(q) == \/ q.status \in {"idle", "done", "failed"}
           \/ \E m \in Nodes \ {Leader} : ByName(q, m)
           \/ ByPath(q)

Straight == \A r \in Requests : Goes(route[r])

\* A step of one request leaves the others where they are.
LEMMA OneGoes ==
  ASSUME RoutingTypes, Straight, NEW r \in Requests, NEW q, route' = [route EXCEPT ![r] = q], Goes(q)
  PROVE  Straight'
<1>1. \A s \in Requests : route'[s] = IF s = r THEN q ELSE route[s]
  BY DEF RoutingTypes
<1>2. \A s \in Requests : Goes(route'[s])
  BY <1>1 DEF Straight
<1> QED BY <1>2 DEF Straight, Goes, ByName, ByPath

\* No request was made yet.
LEMMA StraightInit == Routes!Init => Straight
BY DEF Routes!Init, Routes!NoRequest, Straight, Goes

\* A request that is made, is on its way.
LEMMA UseGoes ==
  ASSUME RoutingTypes, Straight, NEW r \in Requests, NEW n \in Nodes,
         NEW a \in Seq(Word), a # <<>>, Whole(a), Routes!Use(r, n, a)
  PROVE  Straight'
<1>1. PICK q \in Request :
         /\ route' = [route EXCEPT ![r] = q] /\ q.address = a
         /\ \/ q.status = "failed"
            \/ q.status = "done"
            \/ /\ q.status = "sent" /\ Routes!Resolved(n, a).kind = "hop"
               /\ q.at = Routes!Resolved(n, a).node /\ q.been = {<<n, a>>}
               /\ a[Len(a)] # n
            \/ /\ q.status = "searching" /\ Routes!Resolved(n, a).kind = "search"
               /\ q.at = n /\ q.been = {}
  BY UseFacts
<1>2. TreeTypes
  BY DEF RoutingTypes
<1>3. (\E m \in Nodes \ {Leader} : a = <<m>>) \/ a[1] = Leader
  <2>1. CASE \E m \in Nodes : a = <<m>>
    BY <2>1
  <2>2. CASE \E m \in Nodes : a = Routes!Path[m]
    BY <2>2, PathFacts
  <2>3. CASE ToolAddress(a)
    BY <2>3, PathFacts DEF ToolAddress
  <2> QED BY <2>1, <2>2, <2>3 DEF Whole
<1>4. CASE /\ q.status = "sent" /\ Routes!Resolved(n, a).kind = "hop"
           /\ q.at = Routes!Resolved(n, a).node /\ q.been = {<<n, a>>} /\ a[Len(a)] # n
  <2>1. CASE a[1] = Leader
    <3>1. a # Routes!Path[n]
      BY <1>4, PathFacts
    <3>2. OnWay(q.at, a) /\ (~OnWay(n, a) \/ Len(Routes!Path[n]) < Len(Routes!Path[q.at]))
      BY <1>2, <1>4, <2>1, <3>1, HopByPath
    <3>3. \A x \in q.been : x[1] = n
      BY <1>4
    <3>4. ByPath(q)
      BY <1>1, <1>4, <2>1, <3>2, <3>3 DEF ByPath
    <3> QED BY <1>1, <3>4, OneGoes DEF Goes
  <2>2. ASSUME NEW m \in Nodes \ {Leader}, a = <<m>> PROVE Straight'
    <3>1. (n # Leader /\ q.at = Leader) \/ (n = Leader /\ q.at = m)
      BY <1>2, <1>4, <2>2, HopByName
    <3>2. n # m
      BY <1>4, <2>2
    <3>3. \A x \in q.been : x[1] = n /\ x[2] = a
      BY <1>4
    <3>4. ByName(q, m)
      BY <1>1, <1>4, <2>2, <3>1, <3>2, <3>3 DEF ByName
    <3> QED BY <1>1, <3>4, OneGoes DEF Goes
  <2> QED BY <1>3, <2>1, <2>2
<1>5. CASE /\ q.status = "searching" /\ Routes!Resolved(n, a).kind = "search"
           /\ q.at = n /\ q.been = {}
  <2>1. a[1] # Leader /\ n = Leader
    BY <1>2, <1>5, ResolvedFacts
  <2>2. PICK m \in Nodes \ {Leader} : a = <<m>>
    BY <1>3, <2>1
  <2>3. ByName(q, m)
    BY <1>1, <1>5, <2>1, <2>2 DEF ByName
  <2> QED BY <1>1, <2>3, OneGoes DEF Goes
<1>6. CASE q.status \in {"failed", "done"}
  BY <1>1, <1>6, OneGoes DEF Goes
<1> QED BY <1>1, <1>4, <1>5, <1>6

\* A request that arrives, is done or fails there, or goes on.
LEMMA ArriveGoes ==
  ASSUME RoutingTypes, Straight, NEW r \in Requests, Routes!Arrive(r)
  PROVE  Straight'
<1> DEFINE n == route[r].at
           a == route[r].address
           answer == Routes!Resolved(n, a)
<1>1. /\ TreeTypes /\ route[r] \in Request /\ n \in Nodes /\ a \in Seq(Word)
      /\ route[r].been \subseteq Nodes \X Seq(Word) /\ route[r].status = "sent"
  BY DEF RoutingTypes, Request, Routes!Arrive
<1>2. (\E m \in Nodes \ {Leader} : ByName(route[r], m)) \/ ByPath(route[r])
  BY <1>1 DEF Straight, Goes
<1>3. a # <<>>
  BY <1>2 DEF ByName, ByPath
<1>4. \/ \E q \in Request :
            /\ route' = [route EXCEPT ![r] = q] /\ Moved(q, route[r])
            /\ q.at = n
            /\ q.status \in {"failed", "done"} \/ (q.status = "searching" /\ answer.kind = "search")
      \/ /\ ~Routes!RouteToSelf(n, a) /\ answer.kind = "hop"
         /\ Routes!Forward(r, n, answer.node, answer.life, a)
  <2>1. \/ \E q \in Request :
              /\ route' = [route EXCEPT ![r] = q] /\ Moved(q, route[r])
              /\ \/ q.status = "failed" /\ q.at = n
                 \/ q.status = "done" /\ q.at = n
                 \/ q.status = "searching" /\ q.at = n /\ answer.kind = "search"
        \/ /\ ~Routes!RouteToSelf(n, a) /\ answer.kind = "hop"
           /\ Routes!Forward(r, n, answer.node, answer.life, a)
    BY <1>3, ArriveFacts
  <2> HIDE DEF n, a, answer
  <2> QED BY <2>1
<1>5. CASE \E q \in Request :
            /\ route' = [route EXCEPT ![r] = q] /\ Moved(q, route[r])
            /\ q.at = n
            /\ q.status \in {"failed", "done"} \/ (q.status = "searching" /\ answer.kind = "search")
  <2>1. PICK q \in Request :
            /\ route' = [route EXCEPT ![r] = q] /\ Moved(q, route[r])
            /\ q.at = n
            /\ q.status \in {"failed", "done"} \/ (q.status = "searching" /\ answer.kind = "search")
    BY <1>5
  <2>2. CASE q.status \in {"failed", "done"}
    BY <2>1, <2>2, OneGoes DEF Goes
  <2>3. CASE q.status = "searching" /\ answer.kind = "search"
    <3>1. a[1] # Leader /\ n = Leader
      BY <1>1, <1>3, <2>3, ResolvedFacts
    <3>2. PICK m \in Nodes \ {Leader} : ByName(route[r], m)
      BY <1>2, <3>1 DEF ByPath
    <3>3. ByName(q, m)
      BY <2>1, <2>3, <3>1, <3>2 DEF ByName, Moved
    <3> QED BY <2>1, <3>3, OneGoes DEF Goes
  <2> QED BY <2>1, <2>2, <2>3
<1>6. CASE /\ ~Routes!RouteToSelf(n, a) /\ answer.kind = "hop"
           /\ Routes!Forward(r, n, answer.node, answer.life, a)
  <2>1. answer.node \in Nodes /\ answer.life \in 0..MaxLives
    BY <1>1, <1>3, <1>6, ResolvedFacts
  <2>2. a # Routes!Path[n] /\ a # <<n>>
    BY <1>6 DEF Routes!RouteToSelf
  <2>3. ASSUME NEW m \in Nodes \ {Leader}, ByName(route[r], m)
        PROVE  /\ a = <<m>> /\ n = Leader /\ answer.node = m
               /\ \A x \in route[r].been : x[2] = <<m>> /\ x[1] # m
    <3>1. a = <<m>> /\ n = Leader
      BY <2>2, <2>3 DEF ByName
    <3>2. answer.node = m
      BY <1>1, <1>6, <3>1, HopByName
    <3> QED BY <2>3, <3>1, <3>2 DEF ByName
  <2>4. ASSUME ByPath(route[r])
        PROVE  /\ a[1] = Leader /\ OnWay(answer.node, a) /\ OnWay(n, a)
               /\ Len(Routes!Path[n]) < Len(Routes!Path[answer.node])
    <3>1. a[1] = Leader /\ OnWay(n, a)
      BY <2>4 DEF ByPath
    <3> QED BY <1>1, <1>3, <1>6, <2>2, <3>1, HopByPath
  <2>5. \A k \in Nodes : Len(Routes!Path[k]) \in Nat
    BY PathFacts
  <2> DEFINE to == answer.node
             goes == answer.life
  <2>6. to \in Nodes /\ goes \in 0..MaxLives /\ Routes!Forward(r, n, to, goes, a)
    BY <1>6, <2>1
  <2> HIDE DEF to, goes
  <2>7. PICK q \in Request :
           /\ route' = [route EXCEPT ![r] = q]
           /\ q.status = IF <<to, a>> \in q.been THEN "circling" ELSE "sent"
           /\ q.address = a /\ q.at = to /\ q.been = route[r].been \cup {<<n, a>>}
    <3>1. \A b : b = a => Routes!Forward(r, n, to, goes, b)
      BY <2>6
    <3> QED BY <1>1, <2>6, ForwardFacts
  <2> HIDE DEF n, a
  <2>8. CASE \E m \in Nodes \ {Leader} : ByName(route[r], m)
    <3>1. PICK m \in Nodes \ {Leader} : ByName(route[r], m)
      BY <2>8
    <3>2. /\ a = <<m>> /\ n = Leader /\ to = m
          /\ \A x \in route[r].been : x[2] = <<m>> /\ x[1] # m
      BY <2>3, <3>1 DEF to
    <3>3. \A x \in q.been : x[2] = <<m>> /\ x[1] # m
      BY <2>7, <3>2
    <3>4. q.status = "sent"
      BY <2>7, <3>2, <3>3
    <3>5. ByName(q, m)
      BY <2>7, <3>2, <3>3, <3>4 DEF ByName
    <3> QED BY <2>7, <3>5, OneGoes DEF Goes
  <2>9. CASE ByPath(route[r])
    <3>1. /\ a[1] = Leader /\ OnWay(to, a) /\ OnWay(n, a)
          /\ Len(Routes!Path[n]) < Len(Routes!Path[to])
      BY <2>4, <2>9 DEF to
    <3>2. \A x \in q.been : x[1] \in Nodes
      BY <1>1, <2>7
    <3>3. \A x \in q.been : x[2] = a =>
            ~OnWay(x[1], a) \/ Len(Routes!Path[x[1]]) < Len(Routes!Path[to])
      <4>1. \A x \in route[r].been : x[2] = a =>
              ~OnWay(x[1], a) \/ Len(Routes!Path[x[1]]) < Len(Routes!Path[n])
        BY <2>9 DEF ByPath, a, n
      <4>2. \A x \in q.been : x \in route[r].been \/ x = <<n, a>>
        BY <2>7
      <4> QED BY <1>1, <2>5, <2>6, <3>1, <3>2, <4>1, <4>2
    <3>4. q.status = "sent"
      BY <2>5, <2>6, <2>7, <3>1, <3>3
    <3>5. ByPath(q)
      BY <1>3, <2>7, <3>1, <3>3, <3>4 DEF ByPath
    <3> QED BY <2>7, <3>5, OneGoes DEF Goes
  <2> QED BY <1>2, <2>8, <2>9
<1> QED BY <1>4, <1>5, <1>6

\* A request for a name that was found goes on with the whole address.
LEMMA SearchGoes ==
  ASSUME RoutingTypes, Straight, NEW r \in Requests, NEW answered \in BOOLEAN,
         Routes!Searched(r, answered)
  PROVE  Straight'
<1>1. TreeTypes /\ route[r] \in Request /\ route[r].status = "searching"
  BY DEF RoutingTypes, Routes!Searched
<1>2. PICK m \in Nodes \ {Leader} : ByName(route[r], m)
  BY <1>1 DEF Straight, Goes, ByPath
<1>3. route[r].address = <<m>> /\ \A x \in route[r].been : x[2] = <<m>>
  BY <1>2 DEF ByName
<1> DEFINE a == <<m>>
<1>4. a \in Seq(Word) /\ a # <<>> /\ a[1] = m /\ Tail(a) = <<>> /\ a = route[r].address
      /\ Routes!Path[m] # a
  <2>1. a \in Seq(Word) /\ a # <<>> /\ a[1] = m /\ Routes!Path[m] # a
    BY NameFacts
  <2>2. Tail(a) = <<>>
    OBVIOUS
  <2> QED BY <1>3, <2>1, <2>2
<1> HIDE DEF a
<1>5. \/ \E q \in Request :
            /\ route' = [route EXCEPT ![r] = q] /\ Moved(q, route[r])
            /\ q.status = "failed" /\ q.at = route[r].at
      \/ \E entry \in Routes!Entry :
            LET target == Routes!FoundAddress(entry, a)
                hop == Routes!NextHop(entry, target)
            IN  /\ Routes!Path[entry.node] = a \/ entry.node = a[1]
                /\ Routes!Forward(r, Leader, hop.node, hop.life, target)
  BY <1>4, SearchFacts
<1>6. CASE \E q \in Request :
            /\ route' = [route EXCEPT ![r] = q] /\ Moved(q, route[r])
            /\ q.status = "failed" /\ q.at = route[r].at
  BY <1>6, OneGoes DEF Goes
<1>7. ASSUME NEW entry \in Routes!Entry,
             LET target == Routes!FoundAddress(entry, a)
                 hop == Routes!NextHop(entry, target)
             IN  /\ Routes!Path[entry.node] = a \/ entry.node = a[1]
                 /\ Routes!Forward(r, Leader, hop.node, hop.life, target)
      PROVE  Straight'
  <2> DEFINE target == Routes!FoundAddress(entry, a)
             hop == Routes!NextHop(entry, target)
             first == Routes!Last(Routes!NextAddress(Leader, target))
  <2>1. /\ Routes!Path[entry.node] = a \/ entry.node = a[1]
        /\ Routes!Forward(r, Leader, hop.node, hop.life, target)
    BY <1>7
  <2>2. entry.node = m
    <3>1. entry.node \in Nodes
      BY DEF Routes!Entry
    <3> QED BY <1>4, <2>1, <3>1, PathFacts
  <2>3. /\ target \in Seq(Word) /\ target # <<>> /\ target[1] = Leader
        /\ target = Routes!Path[m] \/ target = Routes!Path[m] \o <<>>
        /\ hop.node \in Nodes /\ hop.life \in 0..MaxLives
        /\ (hop.node = first /\ routeChildren[Leader][first] # 0) \/ hop.node = m
    <3>1. Routes!Path[entry.node] = a \/ entry.node = a[1]
      BY <2>1
    <3>2. /\ target \in Seq(Word) /\ target # <<>> /\ target[1] = Leader
          /\ target = Routes!Path[entry.node] \/ target = Routes!Path[entry.node] \o Tail(a)
          /\ hop.node \in Nodes /\ hop.life \in 0..MaxLives
          /\ (hop.node = first /\ routeChildren[Leader][first] # 0) \/ hop.node = entry.node
      <4>1. \A t, h : t = Routes!FoundAddress(entry, a) /\ h = Routes!NextHop(entry, t) =>
              /\ t \in Seq(Word) /\ t # <<>> /\ t[1] = Leader
              /\ t = Routes!Path[entry.node] \/ t = Routes!Path[entry.node] \o Tail(a)
              /\ h.node \in Nodes /\ h.life \in 0..MaxLives
              /\ \/ /\ h.node = Routes!Last(Routes!NextAddress(Leader, t))
                    /\ routeChildren[Leader][Routes!Last(Routes!NextAddress(Leader, t))] # 0
                 \/ h.node = entry.node
        <5> TAKE t, h
        <5> HAVE t = Routes!FoundAddress(entry, a) /\ h = Routes!NextHop(entry, t)
        <5>1. TreeTypes /\ a \in Seq(Word) /\ a # <<>>
          BY <1>1, <1>4
        <5> QED BY <3>1, <5>1, TargetFacts, SMTT(60)
      <4> QED BY <4>1
    <3> HIDE DEF target, hop, first
    <3> QED BY <1>4, <2>2, <3>2
  <2>4. target = Routes!Path[m]
    BY <2>3, PathFacts
  <2> DEFINE to == hop.node
             goes == hop.life
  <2>5. OnWay(to, target)
    <3>1. OnWay(m, target)
      BY <2>4, PathFacts DEF OnWay
    <3>2. target # Routes!Path[Leader]
      BY <2>4, PathFacts, NetworkAssumption
    <3>3. Leader \in Nodes /\ Routes!Below(target, Leader)
      <4>1. Leader \in Nodes
        BY NetworkAssumption
      <4> HIDE DEF target
      <4> QED BY <2>3, <3>2, <4>1, OnWayFacts
    <3>4. CASE hop.node = first /\ routeChildren[Leader][first] # 0
      <4> HIDE DEF target
      <4>1. first = Head(Routes!Remaining(target, Leader))
        <5>1. Routes!NextAddress(Leader, target)
                = Append(Routes!Path[Leader], Head(Routes!Remaining(target, Leader)))
          BY <3>3 DEF Routes!NextAddress
        <5>2. \A x : \A p \in Seq(Nodes) : Append(p, x)[Len(Append(p, x))] = x
          OBVIOUS
        <5>3. Routes!Path[Leader] \in Seq(Nodes)
          BY <3>3, PathFacts
        <5> DEFINE next == Head(Routes!Remaining(target, Leader))
        <5> HIDE DEF next
        <5>4. Append(Routes!Path[Leader], next)[Len(Append(Routes!Path[Leader], next))] = next
          BY <5>2, <5>3
        <5> QED BY <5>1, <5>4, RoutingLibrary DEF next
      <4>2. first \in Nodes
        BY <2>3, <3>4
      <4> HIDE DEF first, hop
      <4>3. first # Leader /\ Parent[first] = Leader
        BY <1>1, <3>3, <3>4, <4>2 DEF TreeTypes
      <4>4. OnWay(first, target)
        BY <2>3, <3>3, <4>1, <4>2, <4>3, ChildOnWay
      <4> QED BY <3>4, <4>4
    <3> QED BY <2>3, <3>1, <3>4
  <2>6. Routes!Forward(r, Leader, to, goes, target) /\ to \in Nodes /\ goes \in 0..MaxLives
        /\ Leader \in Nodes
    BY <2>1, <2>3, NetworkAssumption
  <2> HIDE DEF target, hop, first, to, goes
  <2>7. PICK q \in Request :
           /\ route' = [route EXCEPT ![r] = q]
           /\ q.status = IF <<to, target>> \in q.been THEN "circling" ELSE "sent"
           /\ q.address = target /\ q.at = to
           /\ q.been = route[r].been \cup {<<Leader, route[r].address>>}
    BY <2>3, <2>6, ForwardFacts
  <2>8. \A x \in q.been : x[2] # target
    <3>1. target # a
      BY <1>4, <2>4
    <3> QED BY <1>3, <1>4, <2>7, <3>1 DEF a
  <2>9. ByPath(q)
    BY <2>3, <2>5, <2>7, <2>8 DEF ByPath
  <2> QED BY <2>7, <2>9, OneGoes DEF Goes
<1> QED BY <1>5, <1>6, <1>7

\* Where requests ask for names and for whole addresses, none comes back to a
\* node with an address it had there before: it is handed up once, and each hop
\* down is one nearer to what was asked for.
THEOREM SpecNoCircles ==
  ASSUME \A a \in Addresses : Whole(a)
  PROVE  Routes!Spec => []NoCircles
<1>1. RoutingInv /\ Straight /\ [Routes!Next]_(Routes!vars) => Straight'
  <2> SUFFICES ASSUME RoutingInv, Straight, [Routes!Next]_(Routes!vars) PROVE Straight'
    OBVIOUS
  <2>1. RoutingTypes /\ TreeTypes
    BY DEF RoutingInv, RoutingTypes
  <2>2. CASE UNCHANGED route
    BY <2>2 DEF Straight, Goes, ByName, ByPath
  <2>3. ASSUME NEW r \in Requests, NEW n \in Nodes, NEW a \in Addresses, Routes!Use(r, n, a)
        PROVE  Straight'
    <3>1. a \in Seq(Word) /\ Whole(a)
      BY AddressKinds
    <3>2. a # <<>>
      <4>1. CASE \E m \in Nodes : a = <<m>>
        BY <4>1
      <4>2. CASE \E m \in Nodes : a = Routes!Path[m]
        BY <4>2, PathFacts
      <4>3. CASE ToolAddress(a)
        BY <4>3, PathFacts DEF ToolAddress
      <4> QED BY <3>1, <4>1, <4>2, <4>3 DEF Whole
    <3> QED BY <2>1, <2>3, <3>1, <3>2, UseGoes
  <2>4. CASE \/ \E n \in Nodes : \/ Routes!Start(n) \/ Routes!ChildRegister(n)
                                 \/ Routes!Commit(n) \/ Routes!Crash(n)
             \/ \E p, n \in Nodes : Routes!RemoveChild(p, n)
             \/ \E i \in DOMAIN registry : Routes!RemoveEntry(i)
    BY <2>1, <2>2, <2>4, TreeSteps
  <2>5. CASE UNCHANGED Routes!vars
    BY <2>2, <2>5 DEF Routes!vars
  <2> QED BY <2>1, <2>3, <2>4, <2>5, ArriveGoes, SearchGoes DEF Routes!Next
<1>2. Straight => NoCircles
  BY DEF Straight, Goes, ByName, ByPath, NoCircles, Routes!NoCircles
<1>3. Routes!Spec => [](RoutingInv /\ Straight)
  BY <1>1, RoutingInitInv, RoutingNextInv, StraightInit, PTL DEF Routes!Spec
<1> QED BY <1>2, <1>3, PTL

-----------------------------------------------------------------------------

\* What holds of a part, holds of the system: its variables change by its own
\* steps only.
LEMMA PartsAreKept ==
  PartsSpec => Spec /\ LocksSpec /\ Routes!Spec /\ Family!Spec /\ Index!Spec
<1>1. PartsInit => Init /\ LocksInit /\ Routes!Init /\ Family!Init /\ Index!Init
  BY Zenon DEF PartsInit
<1> DEFINE all == <<part, vars, routingVars, hierarchyVars, indexingVars, locksVars,
                    shutdownVars>>
<1>2. [PartsNext]_all => /\ [Next]_vars /\ [LocksNext]_locksVars
                         /\ [Routes!Next]_(Routes!vars) /\ [Family!Next]_(Family!vars)
                         /\ [Index!Next]_(Index!vars)
  <2>1. /\ UNCHANGED routingVars => UNCHANGED Routes!vars
        /\ UNCHANGED hierarchyVars => UNCHANGED Family!vars
        /\ UNCHANGED indexingVars => UNCHANGED Index!vars
    BY DEF routingVars, hierarchyVars, indexingVars, Routes!vars, Family!vars, Index!vars
  <2> QED BY <2>1, Zenon DEF PartsNext
<1> QED BY <1>1, <1>2, PTL DEF PartsSpec, Spec, LocksSpec, Routes!Spec, Family!Spec, Index!Spec

\* In the system of all parts: requests are run by whom they are for, farewells
\* are true, and an indexing that ends well is complete.
THEOREM NetworkCorrect == PartsSpec => [](AnsweredByItsOwner /\ LeftIsTrue /\ CompleteMeansAll)
BY PartsAreKept, SpecAnsweredByItsOwner, SpecLeftIsTrue, SpecCompleteMeansAll, PTL
=============================================================================
